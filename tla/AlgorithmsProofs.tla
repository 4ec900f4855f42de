--------------------------- MODULE AlgorithmsProofs ---------------------------
(***************************************************************************)
(* Proofs about policies, and about the algorithms that lines, texts and    *)
(* recipes go through.  They share no state.                                *)
(*   The runner of a policy, for any trees, goals, caps, catalog and        *)
(*     endpoint: what it dispatches was decided on the node it meets, is    *)
(*     not marked dangerous and, by the `act` tool, is dispatched once.     *)
(*   The service's answers: whatever they are, what is taken from them is   *)
(*     on the menu and is what they thought most likely.                    *)
(*   Lines on the wire, for any stream and limit: what is heard are its     *)
(*     lines, whole, up to the first that is refused.  The loop has read as *)
(*     far as a line ends (HeardTo), and SplitAs says where that is.        *)
(*   Plans: the theorem of RecipePlanProofs, for recipes of any length.     *)
(*   Lines of a recipe: any words, quoted, are read back.  Behind k of them *)
(*     the tokenizer has those and nothing else (WordRead).                 *)
(*   Placeholders: what is looked up in a text is what was collected.       *)
(* The algorithms are recursive functions; that such a function is there is *)
(* proved by induction over positions (Recursion, and lemmas of its form),  *)
(* what it has at each position by another.                                 *)
(***************************************************************************)
EXTENDS ActTool, MCAlgorithms, SequenceTheorems, FiniteSetTheorems, TLAPS

-----------------------------------------------------------------------------
(* The runner and the act tool                                             *)

\* Fields of a decision, and the history of what was carried out
PolicyShape ==
    /\ DOMAIN decision = {"offer", "label", "payload", "fp"}
    /\ DOMAIN asking = {"state", "for"}
    /\ done \in Seq(ToSet(done))
    /\ lost \in Nat
    /\ setup \in Profiles

\* Between a choice and its dispatch the runner looks at no other tree.
DecisionPending ==
    pc \in {"text", "dispatch"} \/ (pc = "ask" /\ asking.for = "text")
DecidedOnTree ==
    DecisionPending /\ decision.offer.kind \in NodeKinds =>
        decision.fp = FingerprintIn(tree, decision.offer)

\* One dispatch of `act` is behind the pc that waits for its reply.
ActCount ==
    setup.tool = "act" =>
        Len(done) <= IF pc \in {"verify", "ended"} THEN 1 + lost ELSE lost

PolicyInv ==
    /\ PolicyShape
    /\ DecidedOnTree
    /\ ~Dangerous(decision.offer)
    /\ NeverDangerous
    /\ ActsOnWhatItSaw
    /\ ActCount

\* A history that grows by an entry is a sequence of the entries it has.
LEMMA HistoryGrows ==
    ASSUME NEW s, s \in Seq(ToSet(s)), NEW e
    PROVE  /\ Append(s, e) \in Seq(ToSet(Append(s, e)))
           /\ Len(Append(s, e)) = Len(s) + 1 /\ Len(s) \in Nat
           /\ DOMAIN Append(s, e) = 1..(Len(s) + 1)
           /\ DOMAIN s = 1..Len(s)
           /\ \A i \in 1..Len(s) : Append(s, e)[i] = s[i]
           /\ Append(s, e)[Len(s) + 1] = e
<1> DEFINE S == ToSet(s) \cup {e}
<1>1. s \in Seq(S) /\ e \in S
  BY SeqMonotonic
<1>2. /\ Append(s, e) \in Seq(S)
      /\ Len(Append(s, e)) = Len(s) + 1 /\ Len(s) \in Nat
      /\ DOMAIN Append(s, e) = 1..(Len(s) + 1) /\ DOMAIN s = 1..Len(s)
      /\ \A i \in 1..Len(s) : Append(s, e)[i] = s[i]
      /\ Append(s, e)[Len(s) + 1] = e
  BY <1>1, AppendProperties, LenProperties
<1>3. S \subseteq ToSet(Append(s, e))
  BY <1>2 DEF ToSet
<1> QED
  BY <1>2, <1>3, SeqMonotonic

\* A step that neither decides nor dispatches; once `act` has its reply to wait
\* for, it dispatches no more.
LEMMA QuietKept ==
    ASSUME PolicyInv, UNCHANGED <<setup, decision, done, lost>>,
           DOMAIN asking' = {"state", "for"},
           DecisionPending' => DecisionPending /\ tree' = tree,
           setup.tool = "act" /\ pc \in {"verify", "ended"} => pc' \in {"verify", "ended"}
    PROVE  PolicyInv'
<1>1. PolicyShape' /\ ~Dangerous(decision.offer)' /\ NeverDangerous' /\ ActsOnWhatItSaw'
  BY DEF PolicyInv, PolicyShape, Dangerous, NeverDangerous, ActsOnWhatItSaw, ByPointer, Virtual
<1>2. DecidedOnTree'
  BY DEF PolicyInv, DecidedOnTree, FingerprintIn
<1>3. ActCount'
  <2>1. Len(done) \in Nat /\ lost \in Nat
    BY LenProperties DEF PolicyInv, PolicyShape
  <2> QED
    BY <2>1 DEF PolicyInv, ActCount
<1> QED
  BY <1>1, <1>2, <1>3 DEF PolicyInv

\* A decision is made on the tree last observed, and never for a dangerous offer.
LEMMA ChooseKept ==
    ASSUME PolicyInv, NEW a, Choose(a), Allowed(a),
           UNCHANGED <<setup, tree, done, lost>>,
           DOMAIN asking' = {"state", "for"},
           pc \notin {"verify", "ended"}
    PROVE  PolicyInv'
<1>1. /\ DOMAIN decision' = {"offer", "label", "payload", "fp"}
      /\ decision'.offer = a
      /\ a.kind \in NodeKinds => decision'.fp = FingerprintIn(tree, a)
  BY DEF Choose
<1>2. PolicyShape' /\ NeverDangerous' /\ ActsOnWhatItSaw'
  BY <1>1 DEF PolicyInv, PolicyShape, Dangerous, NeverDangerous, ActsOnWhatItSaw, ByPointer,
              Virtual
<1>3. ~Dangerous(decision.offer)'
  BY <1>1 DEF Allowed, Dangerous
<1>4. DecidedOnTree'
  BY <1>1 DEF DecidedOnTree, FingerprintIn
<1>5. ActCount'
  <2>1. Len(done) \in Nat /\ lost \in Nat
    BY LenProperties DEF PolicyInv, PolicyShape
  <2> QED
    BY <2>1 DEF PolicyInv, ActCount
<1> QED
  BY <1>2, <1>3, <1>4, <1>5 DEF PolicyInv

\* The text of a field does not change which node was decided on.
LEMMA TextKept ==
    ASSUME PolicyInv, DecisionPending, NEW text, WithText(text),
           UNCHANGED <<setup, tree, done, lost>>,
           DOMAIN asking' = {"state", "for"}
    PROVE  PolicyInv'
<1>1. /\ DOMAIN decision' = {"offer", "label", "payload", "fp"}
      /\ decision'.offer = decision.offer /\ decision'.fp = decision.fp
  BY DEF WithText, PolicyInv, PolicyShape
<1>2. PolicyShape' /\ NeverDangerous' /\ ActsOnWhatItSaw'
  BY <1>1 DEF PolicyInv, PolicyShape, Dangerous, NeverDangerous, ActsOnWhatItSaw, ByPointer,
              Virtual
<1>3. ~Dangerous(decision.offer)'
  BY <1>1 DEF PolicyInv, Dangerous
<1>4. DecidedOnTree'
  BY <1>1 DEF PolicyInv, DecidedOnTree, FingerprintIn
<1>5. ActCount'
  <2>1. Len(done) \in Nat /\ lost \in Nat
    BY LenProperties DEF PolicyInv, PolicyShape
  <2> QED
    BY <2>1 DEF PolicyInv, ActCount, DecisionPending
<1> QED
  BY <1>2, <1>3, <1>4, <1>5 DEF PolicyInv

\* The host lets what it checks through only onto the node that was seen, whether
\* its answer arrives or is lost; what a pointer does meets the node that is there.
LEMMA DispatchKept ==
    ASSUME PolicyInv, Dispatch \/ DispatchLost \/ ActTypesInPart
    PROVE  /\ PolicyInv'
           /\ Gated => FingerprintIn(host, decision.offer) = FingerprintIn(tree, decision.offer)
<1>1. PICK payload : Perform(payload)
  BY DEF Dispatch, DispatchLost, ActTypesInPart
<1> DEFINE act == [offer |-> decision.offer, payload |-> payload, seen |-> decision.fp,
                   met |-> IF decision.offer.kind \in NodeKinds
                           THEN FingerprintIn(host, decision.offer) ELSE Empty]
<1>2. /\ pc = "dispatch" /\ (Gated => GatePasses) /\ done' = Append(done, act)
      /\ UNCHANGED <<setup, tree, decision, asking>>
  BY <1>1 DEF Dispatch, DispatchLost, ActTypesInPart, Perform, HostAccepts
<1>3. \/ pc' \in {"verify", "ended"} /\ lost' = lost
      \/ pc' = "dispatch" /\ lost' = lost + 1
  BY DEF Dispatch, DispatchLost, ActTypesInPart, Finish
<1>4. /\ done' \in Seq(ToSet(done')) /\ Len(done') = Len(done) + 1 /\ Len(done) \in Nat
      /\ DOMAIN done' = 1..(Len(done) + 1) /\ DOMAIN done = 1..Len(done)
      /\ \A i \in 1..Len(done) : done'[i] = done[i]
      /\ done'[Len(done) + 1] = act
  BY <1>2, HistoryGrows DEF PolicyInv, PolicyShape
<1>5. Gated => act.met = act.seen
  BY <1>2 DEF GatePasses, Gated
<1>6. \A i \in DOMAIN done' : (i \in DOMAIN done /\ done'[i] = done[i]) \/ done'[i] = act
  BY <1>4
<1>7. PolicyShape'
  BY <1>2, <1>3, <1>4 DEF PolicyInv, PolicyShape
<1>8. NeverDangerous'
  BY <1>4, <1>6 DEF PolicyInv, NeverDangerous, Dangerous
<1>9. ActsOnWhatItSaw'
  <2>1. \A offer : ByPointer(offer)' <=> ByPointer(offer)
    BY <1>2 DEF ByPointer, Virtual
  <2>2. act.offer.kind \in NodeKinds /\ ~ByPointer(act.offer) => act.met = act.seen
    BY <1>5 DEF Gated
  <2> HIDE DEF act
  <2> QED
    BY <1>6, <2>1, <2>2 DEF PolicyInv, ActsOnWhatItSaw
<1>10. ActCount'
  BY <1>2, <1>3, <1>4 DEF PolicyInv, PolicyShape, ActCount
<1>11. DecidedOnTree' /\ ~Dangerous(decision.offer)'
  BY <1>2 DEF PolicyInv, DecidedOnTree, DecisionPending, FingerprintIn, Dangerous
<1>12. Gated => FingerprintIn(host, decision.offer) = FingerprintIn(tree, decision.offer)
  BY <1>2 DEF PolicyInv, DecidedOnTree, DecisionPending, GatePasses, Gated
<1> QED
  BY <1>7, <1>8, <1>9, <1>10, <1>11, <1>12 DEF PolicyInv

\* The invariant, step by step of the runner and of act.
LEMMA PolicyStep == PolicyInv /\ [Next]_vars => PolicyInv'
<1> SUFFICES ASSUME PolicyInv, [Next]_vars PROVE PolicyInv'
  OBVIOUS
<1>s. DOMAIN asking = {"state", "for"}
  BY DEF PolicyInv, PolicyShape
<1>1. ASSUME UNCHANGED vars PROVE PolicyInv'
  BY <1>s, <1>1, QuietKept DEF vars, DecisionPending
<1>2. CASE OthersAct
  BY <1>s, <1>2, QuietKept DEF OthersAct, DecisionPending
\* What both tools do
<1>3. CASE ObserveFirst \/ Reobserve
  BY <1>s, <1>3, QuietKept DEF ObserveFirst, Reobserve, DecisionPending
<1>4. CASE CallFails
  BY <1>s, <1>4, QuietKept DEF CallFails, Finish, DecisionPending
<1>5. CASE DecideAction
  <2>1. PICK a : Choose(a) /\ Allowed(a)
    BY <1>5 DEF DecideAction
  <2> QED
    BY <1>s, <1>5, <2>1, ChooseKept DEF DecideAction, Deciding, AtClause, AtTop
<1>6. CASE ResolveText
  <2>1. CASE \E text \in Texts \cup Untyped : WithText(text)
    BY <1>s, <1>6, <2>1, TextKept DEF ResolveText, DecisionPending
  <2>2. CASE Finish("abstained") /\ UNCHANGED decision
    BY <1>s, <1>6, <2>2, QuietKept DEF ResolveText, Finish, DecisionPending
  <2> QED
    BY <1>6, <2>1, <2>2 DEF ResolveText
<1>7. CASE Dispatch \/ DispatchLost \/ ActTypesInPart
  BY <1>7, DispatchKept
<1>8. CASE DispatchStale
  BY <1>s, <1>8, QuietKept DEF DispatchStale, Finish, DecisionPending
\* `act`
<1>9. CASE ActDeclines \/ ActDone \/ ActTextMissing \/ ActReply
  BY <1>s, <1>9, QuietKept
  DEF ActDeclines, ActDone, ActTextMissing, ActReply, ActAbstains, Finish, DecisionPending
\* `run`
<1>10. CASE setup.tool = "run" /\ (StepsSpent \/ ClausesDone \/ WaitShown \/ WaitPolls)
  BY <1>s, <1>10, QuietKept
  DEF StepsSpent, ClausesDone, WaitShown, WaitPolls, Poll, Finish, AtTop, AtClause,
      DecisionPending, loopVars
<1>11. CASE setup.tool = "run" /\ (DecideClosed \/ DecideDone \/ DecideBlocked \/ DecideWait)
  BY <1>s, <1>11, QuietKept
  DEF DecideClosed, DecideDone, DecideBlocked, DecideWait, CloseClause, Poll, Finish,
      Deciding, AtTop, AtClause, DecisionPending, loopVars
<1>12. CASE setup.tool = "run" /\ DecideAbstain
  BY <1>s, <1>12, QuietKept
  DEF DecideAbstain, AskNone, Finish, Deciding, AtTop, AtClause, DecisionPending
<1>13. CASE setup.tool = "run" /\ (TextMissing \/ Verify)
  BY <1>s, <1>13, QuietKept DEF TextMissing, Verify, Finish, DecisionPending
<1>14. CASE setup.tool = "run" /\ (AskGoesOn \/ AskFails \/ AskReaped \/ ReplyBroken
                                   \/ ReplyAbstains \/ ReplyDone \/ ReplyWait)
  BY <1>s, <1>14, QuietKept
  DEF AskGoesOn, AskFails, AskReaped, ReplyBroken, ReplyAbstains, ReplyDone, ReplyWait, Replied,
      AskNone, Asked, CloseClause, Poll, Finish, DecisionPending, loopVars
<1>15. CASE ReplyText
  BY <1>s, <1>15, TextKept DEF ReplyText, Replied, AskNone, Asked, DecisionPending
<1>16. CASE ReplyAction
  <2>1. PICK a : Choose(a) /\ Allowed(a)
    BY <1>16 DEF ReplyAction
  <2> QED
    BY <1>s, <1>16, <2>1, ChooseKept DEF ReplyAction, Replied, AskNone, Asked
<1>17. ASSUME setup.tool = "run", Run PROVE PolicyInv'
  BY <1>3, <1>4, <1>5, <1>6, <1>7, <1>8, <1>10, <1>11, <1>12, <1>13, <1>14, <1>15, <1>16, <1>17
  DEF Run, Decide, Ask
<1>18. ASSUME Act PROVE PolicyInv'
  BY <1>3, <1>4, <1>5, <1>6, <1>7, <1>8, <1>9, <1>18 DEF Act, ActCallFails
<1> QED
  BY <1>1, <1>2, <1>17, <1>18 DEF Next, Step, Rest

\* A run starts with nothing decided and nothing done.
LEMMA PolicyInit == Init => PolicyInv
<1> SUFFICES ASSUME Init PROVE PolicyInv
  OBVIOUS
<1>1. done \in Seq(ToSet(done)) /\ Len(done) = 0 /\ DOMAIN done = {}
  BY EmptySeq DEF Init
<1>2. PolicyShape
  BY <1>1 DEF Init, PolicyShape, NoDecision, AskNone
<1>3. DecidedOnTree /\ ~Dangerous(decision.offer)
  BY DEF Init, DecidedOnTree, DecisionPending, NoDecision, AskNone, Dangerous
<1>4. NeverDangerous /\ ActsOnWhatItSaw
  BY <1>1 DEF NeverDangerous, ActsOnWhatItSaw
<1>5. ActCount
  BY <1>1 DEF Init, ActCount
<1> QED
  BY <1>2, <1>3, <1>4, <1>5 DEF PolicyInv

\* What a decision was made on and how much was carried out, at every point of an
\* episode (runner.rs) and of act (mcp.rs).
THEOREM PolicyInvariant == Spec => []PolicyInv
BY PolicyInit, PolicyStep, PTL DEF Spec

\* `act` carries out one action of its instruction, however often its target was
\* refused and decided on again, but for answers lost on the way (act in mcp.rs).
THEOREM PolicyActsOnce == Spec => []ActActsOnce
<1>1. PolicyInv => ActActsOnce
  <2> SUFFICES ASSUME PolicyInv PROVE ActActsOnce
    OBVIOUS
  <2>1. Len(done) \in Nat /\ lost \in Nat
    BY LenProperties DEF PolicyInv, PolicyShape
  <2> QED
    BY <2>1 DEF PolicyInv, ActCount, ActActsOnce
<1> QED
  BY <1>1, PolicyInvariant, PTL

\* Every node-bound action, but those of the window's pointer, met the node it was
\* decided on (the fingerprint the runner sends, Runner::dispatch).
THEOREM PolicyActsOnWhatItSaw == Spec => []ActsOnWhatItSaw
BY PolicyInvariant, PTL DEF PolicyInv

\* Of `run` every node-bound action did: it has no pointer (run_cmd.rs:89).
THEOREM RunActsOnWhatItSaw ==
    Spec => [](setup.tool = "run" =>
                 \A i \in DOMAIN done :
                    done[i].offer.kind \in NodeKinds => done[i].met = done[i].seen)
<1>1. PolicyInv => (setup.tool = "run" =>
                      \A i \in DOMAIN done :
                         done[i].offer.kind \in NodeKinds => done[i].met = done[i].seen)
  BY DeliveryAssumption DEF PolicyInv, PolicyShape, ActsOnWhatItSaw, ByPointer, Virtual
<1> QED
  BY <1>1, PolicyInvariant, PTL

\* Nothing marked dangerous is carried out, whatever the policy scored and whatever
\* the endpoint answered (policy.rs: listed but never auto-chosen).
THEOREM PolicyNeverDangerous == Spec => []NeverDangerous
BY PolicyInvariant, PTL DEF PolicyInv

\* At each dispatch that is not the window's pointer's, lost answers included, the
\* target in the host's tree is the target in the tree the decision was made on,
\* although the host has gone on and an endpoint may have been asked in between.
THEOREM PolicyTargetUnchanged ==
    Spec => [][done' # done /\ Gated =>
                 FingerprintIn(host, decision.offer) = FingerprintIn(tree, decision.offer)]_vars
<1>1. PolicyInv /\ [Next]_vars =>
          [done' # done /\ Gated =>
             FingerprintIn(host, decision.offer) = FingerprintIn(tree, decision.offer)]_vars
  <2> SUFFICES ASSUME PolicyInv, Next, done' # done
               PROVE  Gated =>
                        FingerprintIn(host, decision.offer) = FingerprintIn(tree, decision.offer)
    OBVIOUS
  <2>1. Dispatch \/ DispatchLost \/ ActTypesInPart
    BY DEF Next, Step, Rest, vars, Run, Act, OthersAct, ObserveFirst, Reobserve, CallFails,
           StepsSpent,
           ClausesDone, WaitShown, WaitPolls, Decide, DecideClosed, DecideDone, DecideBlocked,
           DecideWait, DecideAction, DecideAbstain, CloseClause, ResolveText, TextMissing, Ask,
           AskGoesOn, AskFails, AskReaped, ReplyBroken, ReplyAbstains, ReplyText, ReplyAction,
           ReplyDone, ReplyWait, Asked, DispatchStale, Verify, ActDeclines, ActDone,
           ActTextMissing, ActReply, ActAbstains, ActCallFails
  <2> QED
    BY <2>1, DispatchKept
<1> QED
  BY <1>1, PolicyInvariant, PTL DEF Spec

-----------------------------------------------------------------------------
(* Recursion over positions                                                 *)

\* Induction over the naturals, for a set: there is no least number outside it.
LEMMA Inductive ==
    ASSUME NEW T, 0 \in T, \A n \in Nat : n \in T => n + 1 \in T
    PROVE  \A n \in Nat : n \in T
<1> DEFINE R == {ss \in Nat \X Nat : ss[1] < ss[2]}
<1>1. IsWellFoundedOn(R, Nat)
  BY NatLessThanWellFounded DEF OpToRel
<1> SUFFICES ASSUME NEW m \in Nat, m \notin T PROVE FALSE
  OBVIOUS
<1>2. PICK x \in Nat \ T : \A y \in Nat \ T : ~(<<y, x>> \in R)
  BY <1>1, WFMin
<1>3. x # 0 /\ x - 1 \in Nat /\ x = (x - 1) + 1
  BY <1>2
<1>4. x - 1 \in Nat \ T
  BY <1>2, <1>3
<1>5. <<x - 1, x>> \in R
  BY <1>3
<1> QED
  BY <1>2, <1>4, <1>5

\* f starts at base and goes on by steps
Goes(f, base, steps, n) ==
    f[0] = base /\ \A i \in 1 .. n : f[i] = steps[i][f[i - 1]]

\* A recursive function of a position is there, and has values of the type its
\* steps keep.
LEMMA Recursion ==
    ASSUME NEW V, NEW base \in V, NEW n \in Nat, NEW steps \in [1 .. n -> [V -> V]]
    PROVE  \E f \in [0 .. n -> V] : Goes(f, base, steps, n)
<1> DEFINE T == {m \in Nat : m <= n => \E f \in [0 .. m -> V] : Goes(f, base, steps, m)}
<1>1. 0 \in T
  <2> DEFINE f == [i \in 0 .. 0 |-> base]
  <2>1. f \in [0 .. 0 -> V] /\ f[0] = base /\ 1 .. 0 = {}
    OBVIOUS
  <2> HIDE DEF f
  <2>2. Goes(f, base, steps, 0)
    BY <2>1 DEF Goes
  <2> QED
    BY <2>1, <2>2
<1>2. ASSUME NEW m \in Nat, m \in T PROVE m + 1 \in T
  <2> SUFFICES ASSUME m + 1 <= n PROVE \E f \in [0 .. m + 1 -> V] : Goes(f, base, steps, m + 1)
    OBVIOUS
  <2>1. PICK f \in [0 .. m -> V] : Goes(f, base, steps, m)
    BY <1>2
  <2> DEFINE v == steps[m + 1][f[m]]
             g == [i \in 0 .. m + 1 |-> IF i = m + 1 THEN v ELSE f[i]]
  <2>2. m + 1 \in 1 .. n /\ m \in 0 .. m
    OBVIOUS
  <2>3. v \in V
    <3>1. steps[m + 1] \in [V -> V] /\ f[m] \in V
      BY <2>2
    <3> QED
      BY <3>1
  <2> HIDE DEF v
  <2>4. g \in [0 .. m + 1 -> V] /\ g[m + 1] = v /\ \A i \in 0 .. m : g[i] = f[i]
    BY <2>3
  <2> HIDE DEF g
  <2>5. ASSUME NEW i \in 1 .. m + 1 PROVE g[i] = steps[i][g[i - 1]]
    <3>1. CASE i = m + 1
      <4>1. g[i - 1] = f[m]
        BY <2>4, <3>1
      <4> QED
        BY <2>4, <3>1, <4>1 DEF v
    <3>2. CASE i # m + 1
      <4>1. i \in 0 .. m /\ i - 1 \in 0 .. m /\ i \in 1 .. m
        BY <3>2
      <4> QED
        BY <2>1, <2>4, <4>1 DEF Goes
    <3> QED
      BY <3>1, <3>2
  <2>6. g[0] = base
    BY <2>1, <2>4 DEF Goes
  <2>7. Goes(g, base, steps, m + 1)
    BY <2>5, <2>6 DEF Goes
  <2> QED
    BY <2>4, <2>7
<1>3. n \in T
  <2> HIDE DEF T
  <2> QED
    BY <1>1, <1>2, Inductive
<1> QED
  BY <1>3

\* What holds at the start and is handed on holds at every position.
LEMMA Along ==
    ASSUME NEW V, NEW n \in Nat, NEW h, h[0] \in V, \A i \in 1 .. n : h[i - 1] \in V => h[i] \in V
    PROVE  \A i \in 0 .. n : h[i] \in V
<1> DEFINE T == {m \in Nat : m <= n => h[m] \in V}
<1>1. 0 \in T
  OBVIOUS
<1>2. ASSUME NEW m \in Nat, m \in T PROVE m + 1 \in T
  <2> SUFFICES ASSUME m + 1 <= n PROVE h[m + 1] \in V
    OBVIOUS
  <2>1. m + 1 \in 1 .. n /\ (m + 1) - 1 = m /\ h[m] \in V
    BY <1>2
  <2>2. h[(m + 1) - 1] \in V => h[m + 1] \in V
    BY <2>1
  <2> QED
    BY <2>1, <2>2
<1>3. \A m \in Nat : m \in T
  <2> HIDE DEF T
  <2> QED
    BY <1>1, <1>2, Inductive
<1> QED
  BY <1>3

\* What FlattenSeq has joined after each of n pieces
Joins(h, pieces, n) ==
    /\ h[1] = pieces[1]
    /\ \A i \in 2 .. n : h[i] = h[i - 1] \o pieces[i]
    /\ FlattenSeq(pieces) = h[n]

LEMMA Concatenated ==
    ASSUME NEW S, NEW n \in Nat \ {0}, NEW pieces \in [1 .. n -> Seq(S)]
    PROVE  \E h \in [1 .. n -> Seq(S)] : Joins(h, pieces, n)
<1> DEFINE joined(f, i) == IF i = 1 THEN pieces[i] ELSE f[i - 1] \o pieces[i]
           T == {m \in Nat : \E f : f = [i \in 1 .. m |-> joined(f, i)]}
<1>1. 0 \in T
  <2> DEFINE f == [i \in 1 .. 0 |-> <<>>]
  <2>1. f = [i \in 1 .. 0 |-> joined(f, i)]
    OBVIOUS
  <2> QED
    BY <2>1
<1>2. ASSUME NEW m \in Nat, m \in T PROVE m + 1 \in T
  <2>1. PICK f : f = [i \in 1 .. m |-> joined(f, i)]
    BY <1>2
  <2> DEFINE g == [i \in 1 .. m + 1 |-> IF i = m + 1 THEN joined(f, i) ELSE f[i]]
  <2>2. \A i \in 1 .. m : g[i] = f[i] /\ f[i] = joined(f, i)
    <3> HIDE DEF joined
    <3>1. \A i \in 1 .. m : f[i] = joined(f, i)
      BY <2>1
    <3>2. \A i \in 1 .. m : i # m + 1 /\ i \in 1 .. m + 1
      OBVIOUS
    <3> QED
      BY <3>1, <3>2
  <2>3. ASSUME NEW i \in 1 .. m + 1 PROVE g[i] = joined(g, i)
    <3>1. i = 1 => joined(g, i) = joined(f, i)
      OBVIOUS
    <3>2. i # 1 => i - 1 \in 1 .. m /\ g[i - 1] = f[i - 1]
      BY <2>2
    <3>3. joined(g, i) = joined(f, i)
      BY <3>1, <3>2
    <3> HIDE DEF joined
    <3>4. i # m + 1 => g[i] = joined(f, i)
      <4>1. i # m + 1 => i \in 1 .. m
        OBVIOUS
      <4> HIDE DEF g
      <4> QED
        BY <2>2, <4>1
    <3> QED
      BY <3>3, <3>4
  <2>4. g = [i \in 1 .. m + 1 |-> joined(g, i)]
    BY <2>3
  <2> HIDE DEF g, joined
  <2>5. \E h : h = [i \in 1 .. m + 1 |-> joined(h, i)]
    BY <2>4
  <2> QED
    BY <2>5
<1>3. n \in T
  <2> HIDE DEF T
  <2> QED
    BY <1>1, <1>2, Inductive
<1>4. Len(pieces) = n
  OBVIOUS
<1>5. PICK h : h = [i \in 1 .. n |-> joined(h, i)] /\ FlattenSeq(pieces) = h[n]
  <2> DEFINE h == CHOOSE f : f = [i \in 1 .. n |-> joined(f, i)]
  <2>1. h = [i \in 1 .. n |-> joined(h, i)]
    BY <1>3
  <2>2. FlattenSeq(pieces) = h[n]
    BY <1>4 DEF FlattenSeq
  <2> HIDE DEF h, joined
  <2> QED
    BY <2>1, <2>2
<1> DEFINE U == {m \in Nat : m + 1 <= n => h[m + 1] \in Seq(S)}
<1>6. h[1] = pieces[1] /\ \A i \in 2 .. n : h[i] = h[i - 1] \o pieces[i]
  <2>1. \A i \in 1 .. n : h[i] = joined(h, i)
    <3> HIDE DEF joined
    <3> QED
      BY <1>5
  <2>2. 1 \in 1 .. n /\ \A i \in 2 .. n : i \in 1 .. n /\ i # 1
    OBVIOUS
  <2>3. h[1] = joined(h, 1) /\ joined(h, 1) = pieces[1]
    BY <2>1, <2>2
  <2>4. ASSUME NEW i \in 2 .. n PROVE h[i] = h[i - 1] \o pieces[i]
    <3>1. h[i] = joined(h, i)
      BY <2>1, <2>2
    <3>2. joined(h, i) = h[i - 1] \o pieces[i]
      BY <2>2
    <3> QED
      BY <3>1, <3>2
  <2> QED
    BY <2>3, <2>4
<1>7. \A m \in Nat : m \in U
  <2>1. 0 \in U
    BY <1>6
  <2>2. ASSUME NEW m \in Nat, m \in U PROVE m + 1 \in U
    <3> SUFFICES ASSUME (m + 1) + 1 <= n PROVE h[(m + 1) + 1] \in Seq(S)
      OBVIOUS
    <3>1. (m + 1) + 1 \in 2 .. n /\ ((m + 1) + 1) - 1 = m + 1 /\ (m + 1) + 1 \in 1 .. n
          /\ m + 1 <= n
      OBVIOUS
    <3>2. h[(m + 1) + 1] = h[m + 1] \o pieces[(m + 1) + 1]
      BY <1>6, <3>1
    <3>3. h[m + 1] \in Seq(S) /\ pieces[(m + 1) + 1] \in Seq(S)
      BY <2>2, <3>1
    <3> QED
      BY <3>2, <3>3, ConcatProperties, Zenon
  <2> HIDE DEF U
  <2> QED
    BY <2>1, <2>2, Inductive
<1>8. \A i \in 1 .. n : h[i] \in Seq(S)
  <2> SUFFICES ASSUME NEW i \in 1 .. n PROVE h[i] \in Seq(S)
    OBVIOUS
  <2>1. i - 1 \in Nat /\ (i - 1) + 1 = i
    OBVIOUS
  <2>2. i - 1 \in U
    BY <1>7, <2>1
  <2>3. h[(i - 1) + 1] \in Seq(S)
    BY <2>1, <2>2
  <2> QED
    BY <2>1, <2>3
<1>9. h \in [1 .. n -> Seq(S)]
  <2> HIDE DEF joined
  <2> QED
    BY <1>5, <1>8
<1> QED
  BY <1>5, <1>6, <1>9 DEF Joins

\* The pieces of a sequence, one behind the other: ends says where each ends.
Places(flat, pieces, ends) ==
    /\ ends \in [0 .. Len(pieces) -> Nat] /\ ends[0] = 0 /\ ends[Len(pieces)] = Len(flat)
    /\ \A k \in 1 .. Len(pieces) :
          /\ ends[k] = ends[k - 1] + Len(pieces[k])
          /\ ends[k] <= Len(flat)
          /\ \A j \in 1 .. Len(pieces[k]) : flat[ends[k - 1] + j] = pieces[k][j]

LEMMA FlattenPlaces ==
    ASSUME NEW S, NEW pieces \in Seq(Seq(S))
    PROVE  FlattenSeq(pieces) \in Seq(S) /\ \E ends : Places(FlattenSeq(pieces), pieces, ends)
<1>1. PICK n \in Nat : n = Len(pieces) /\ pieces \in [1 .. n -> Seq(S)]
  BY LenProperties
<1>2. CASE n = 0
  <2>1. pieces = <<>>
    BY <1>1, <1>2
  <2>2. FlattenSeq(pieces) = <<>>
    BY <2>1 DEF FlattenSeq
  <2> DEFINE ends == [k \in 0 .. 0 |-> 0]
  <2>3. ends \in [0 .. 0 -> Nat] /\ ends[0] = 0 /\ Len(<<>>) = 0 /\ Len(pieces) = 0 /\ 1 .. 0 = {}
    BY <1>1, <1>2
  <2> HIDE DEF ends
  <2>4. Places(<<>>, pieces, ends)
    BY <2>3 DEF Places
  <2> QED
    BY <2>2, <2>4
<1>3. CASE n # 0
  <2>1. \A k \in 1 .. n : pieces[k] \in Seq(S) /\ Len(pieces[k]) \in Nat
    BY <1>1, LenProperties
  <2>2. PICK h \in [1 .. n -> Seq(S)] : Joins(h, pieces, n)
    <3>1. n \in Nat \ {0}
      BY <1>3
    <3> QED
      BY <1>1, <3>1, Concatenated
  <2> DEFINE e == [k \in 0 .. n |-> IF k = 0 THEN 0 ELSE Len(h[k])]
  <2>3. \A k \in 1 .. n : h[k] \in Seq(S) /\ Len(h[k]) \in Nat
    BY <2>2, LenProperties
  <2>4. e \in [0 .. n -> Nat] /\ e[0] = 0 /\ \A k \in 1 .. n : e[k] = Len(h[k])
    BY <2>3
  <2> HIDE DEF e
  \* A piece more
  <2>5. ASSUME NEW k \in 1 .. n
        PROVE /\ e[k] = e[k - 1] + Len(pieces[k])
              /\ \A i \in 1 .. e[k - 1] : k # 1 => h[k][i] = h[k - 1][i]
              /\ \A j \in 1 .. Len(pieces[k]) : h[k][e[k - 1] + j] = pieces[k][j]
    <3> DEFINE m == Len(pieces[k])
    <3>1. m \in Nat /\ pieces[k] \in Seq(S) /\ e[k] = Len(h[k])
      BY <2>1, <2>4
    <3>2. CASE k = 1
      <4>1. k - 1 = 0 /\ h[1] = pieces[1]
        BY <2>2, <3>2 DEF Joins
      <4>2. e[k - 1] = 0 /\ h[k] = pieces[k] /\ e[k] = m
        BY <2>4, <3>1, <3>2, <4>1
      <4>3. \A j \in 1 .. m : 0 + j = j
        OBVIOUS
      <4> HIDE DEF m
      <4>4. m = 0 + m
        BY <3>1
      <4> QED
        BY <3>1, <3>2, <4>2, <4>3, <4>4 DEF m
    <3>3. CASE k # 1
      <4> DEFINE p == h[k - 1]  q == pieces[k]  r == h[k]  a == e[k - 1]
      <4>1. k - 1 \in 1 .. n /\ k \in 2 .. n
        BY <3>3
      <4>2. r = p \o q /\ p \in Seq(S) /\ q \in Seq(S)
        BY <2>2, <2>3, <3>1, <4>1 DEF Joins
      <4>3. a = Len(p) /\ a \in Nat
        BY <2>3, <2>4, <4>1
      <4> HIDE DEF p, q, a
      <4>4. /\ Len(p \o q) = Len(p) + Len(q)
            /\ \A i \in 1 .. Len(p) + Len(q) :
                  (p \o q)[i] = IF i <= Len(p) THEN p[i] ELSE q[i - Len(p)]
        BY <4>2, ConcatProperties, Zenon
      <4>5. Len(q) = m /\ e[k] = Len(r)
        BY <3>1 DEF q
      <4> HIDE DEF r, m
      <4>6. e[k] = a + m
        BY <3>1, <4>2, <4>3, <4>4, <4>5
      <4>7. \A i \in 1 .. a : r[i] = p[i]
        BY <3>1, <4>2, <4>3, <4>4, <4>5
      <4>8. ASSUME NEW j \in 1 .. m PROVE r[a + j] = q[j]
        <5>1. a + j \in 1 .. a + m /\ ~(a + j <= a) /\ (a + j) - a = j
          BY <3>1, <4>3
        <5> QED
          BY <4>2, <4>3, <4>4, <4>5, <5>1
      <4> QED
        BY <4>6, <4>7, <4>8 DEF p, q, r, a, m
    <3> QED
      BY <3>2, <3>3
  <2>6. \A k \in 1 .. n : e[k - 1] \in Nat /\ e[k] \in Nat /\ e[k - 1] <= e[k]
    <3> SUFFICES ASSUME NEW k \in 1 .. n
                 PROVE e[k - 1] \in Nat /\ e[k] \in Nat /\ e[k - 1] <= e[k]
      OBVIOUS
    <3>1. k - 1 \in 0 .. n /\ k \in 0 .. n
      OBVIOUS
    <3>2. e[k - 1] \in Nat /\ e[k] \in Nat
      BY <2>4, <3>1
    <3>3. Len(pieces[k]) \in Nat /\ e[k] = e[k - 1] + Len(pieces[k])
      BY <2>1, <2>5
    <3> QED
      BY <3>2, <3>3
  \* stays as it is
  <2> DEFINE T == {m \in Nat : m < n => /\ e[n - m] <= e[n]
                                        /\ \A i \in 1 .. e[n - m] : h[n][i] = h[n - m][i]}
  <2>7. \A m \in Nat : m \in T
    <3>1. 0 \in T
      <4>1. e[n] \in Nat /\ n - 0 = n
        BY <1>3, <2>6
      <4> QED
        BY <4>1
    <3>2. ASSUME NEW m \in Nat, m \in T PROVE m + 1 \in T
      <4> DEFINE k == n - m  l == n - (m + 1)
      <4> SUFFICES ASSUME m + 1 < n
                   PROVE e[l] <= e[n] /\ \A i \in 1 .. e[l] : h[n][i] = h[l][i]
        OBVIOUS
      <4>1. k \in 1 .. n /\ k # 1 /\ l = k - 1 /\ l \in 1 .. n /\ m < n
        OBVIOUS
      <4>2. e[k] <= e[n] /\ \A i \in 1 .. e[k] : h[n][i] = h[k][i]
        BY <3>2, <4>1
      <4> HIDE DEF k, l
      <4>3. e[l] <= e[k] /\ e[l] \in Nat /\ e[k] \in Nat /\ e[n] \in Nat
        BY <1>3, <2>6, <4>1
      <4>4. \A i \in 1 .. e[l] : h[k][i] = h[l][i]
        BY <2>5, <4>1
      <4>5. \A i \in 1 .. e[l] : i \in 1 .. e[k]
        BY <4>3
      <4>6. e[l] <= e[n]
        BY <4>2, <4>3
      <4>7. \A i \in 1 .. e[l] : h[n][i] = h[l][i]
        BY <4>2, <4>4, <4>5
      <4> QED
        BY <4>6, <4>7
    <3> HIDE DEF T
    <3> QED
      BY <3>1, <3>2, Inductive
  <2>8. ASSUME NEW k \in 1 .. n
        PROVE e[k] <= e[n] /\ \A i \in 1 .. e[k] : h[n][i] = h[k][i]
    <3>1. n - k \in Nat /\ n - (n - k) = k /\ n - k < n
      OBVIOUS
    <3>2. n - k \in T
      BY <2>7, <3>1
    <3> QED
      BY <3>1, <3>2
  <2> HIDE DEF T
  <2>9. ASSUME NEW k \in 1 .. n
        PROVE \A j \in 1 .. Len(pieces[k]) : h[n][e[k - 1] + j] = pieces[k][j]
    <3> DEFINE a == e[k - 1]  m == Len(pieces[k])  c == e[k]
    <3>1. a \in Nat /\ m \in Nat /\ c = a + m
      BY <2>1, <2>5, <2>6
    <3>2. \A j \in 1 .. m : a + j \in 1 .. c
      <4> HIDE DEF a, m, c
      <4> QED
        BY <3>1
    <3>3. \A j \in 1 .. m : h[k][a + j] = pieces[k][j]
      BY <2>5
    <3>4. \A i \in 1 .. c : h[n][i] = h[k][i]
      BY <2>8
    <3> HIDE DEF a, m, c
    <3>5. \A j \in 1 .. m : h[n][a + j] = pieces[k][j]
      BY <3>2, <3>3, <3>4
    <3> QED
      BY <3>5 DEF a, m
  <2>10. h[n] \in Seq(S) /\ e[n] = Len(h[n]) /\ FlattenSeq(pieces) = h[n]
    BY <1>3, <2>2, <2>3, <2>4 DEF Joins
  <2>11. Places(h[n], pieces, e)
    BY <1>1, <2>4, <2>5, <2>8, <2>9, <2>10 DEF Places
  <2> QED
    BY <2>10, <2>11
<1> QED
  BY <1>2, <1>3

-----------------------------------------------------------------------------
(* The service's answers                                                   *)

\* The offers of a menu are a kind and a region, which a control does not have
Menu(offers) ==
    \A o \in offers :
        /\ o = [kind |-> o.kind, region |-> o.region]
        /\ o.kind \notin J!ElementKinds => o.region = ""

\* A valid answer's choice is among the keys and no other has better odds.
LEMMA ValidIsOffered ==
    ASSUME NEW answer, NEW keys, J!Valid(answer, keys)
    PROVE  /\ answer.choice \in keys
           /\ \A k \in keys : answer.odds[k] <= answer.odds[answer.choice]
  BY DEF J!Valid

\* No answer, however wrong, makes the policy do what was not offered to it or
\* what the service itself thought less likely than another: what choose returns is
\* on the menu, and best of its answers (validate_choice, choose).
THEOREM JevChoosesFromMenu ==
    ASSUME NEW offers, Menu(offers), NEW answers, J!Chosen(offers, answers) # J!Abstained
    PROVE  LET out == J!Chosen(offers, answers)
               Likeliest(head, key) == \A k \in J!KeysFor(offers, head) :
                                          answers[head].odds[k] <= answers[head].odds[key]
           IN /\ out \in offers
              /\ Likeliest("operation", out.kind)
              /\ out.kind \in J!ElementKinds => Likeliest(out.kind, out.region)
<1> DEFINE op == answers["operation"].choice
           Likeliest(head, key) == \A k \in J!KeysFor(offers, head) :
                                      answers[head].odds[k] <= answers[head].odds[key]
           Answered(head) == /\ head \in DOMAIN answers
                             /\ J!Valid(answers[head], J!KeysFor(offers, head))
<1>1. offers # {} /\ Answered("operation") /\ (op \in J!ElementKinds => Answered(op))
  BY DEF J!Chosen
<1>2. op \in J!OpKinds(offers) /\ Likeliest("operation", op)
  BY <1>1, ValidIsOffered DEF J!KeysFor
<1>3. CASE op \notin J!ElementKinds
  <2>1. J!Chosen(offers, answers) = [kind |-> op, region |-> ""]
    BY <1>1, <1>3 DEF J!Chosen
  <2>2. PICK o \in offers : o.kind = op
    BY <1>2 DEF J!OpKinds
  <2>3. o = [kind |-> op, region |-> ""]
    BY <1>3, <2>2 DEF Menu
  <2> QED
    BY <1>2, <1>3, <2>1, <2>2, <2>3
<1>4. CASE op \in J!ElementKinds
  <2> DEFINE target == answers[op].choice
  <2>1. J!Chosen(offers, answers) = [kind |-> op, region |-> target]
    BY <1>1, <1>4 DEF J!Chosen
  <2>2. J!KeysFor(offers, op) = J!RegionsOf(offers, op)
    BY <1>4 DEF J!KeysFor, J!ElementKinds
  <2>3. target \in J!RegionsOf(offers, op) /\ Likeliest(op, target)
    BY <1>1, <1>4, <2>2, ValidIsOffered
  <2>4. PICK o \in offers : o.kind = op /\ o.region = target
    BY <2>3 DEF J!RegionsOf
  <2>5. o = [kind |-> op, region |-> target]
    BY <2>4 DEF Menu
  <2> QED
    BY <1>2, <2>1, <2>3, <2>4, <2>5
<1> QED
  BY <1>3, <1>4

\* The same of the answers that the bounded inputs build.
THEOREM JevKeepsMenu == AlgorithmsSpec => []JevOnMenu
<1> DEFINE Inv == of = "jev" => Menu(on)
<1>1. AlgorithmsInit => Inv
  <2>1. ASSUME NEW menu \in Menus PROVE Menu(menu)
    <3>1. ASSUME NEW kind, NEW region, kind \in J!ElementKinds \/ region = "",
                 NEW o, o = O(kind, region)
          PROVE  /\ o = [kind |-> o.kind, region |-> o.region]
                 /\ o.kind \notin J!ElementKinds => o.region = ""
      <4>1. o.kind = kind /\ o.region = region
        BY <3>1 DEF O
      <4> QED
        BY <3>1, <4>1, Zenon DEF O
    <3>2. {"click", "key"} \subseteq J!ElementKinds
      BY DEF J!ElementKinds
    <3>3. \A o \in menu : \E kind, region :
             (kind \in J!ElementKinds \/ region = "") /\ o = O(kind, region)
      BY <3>2 DEF Menus
    <3> QED
      BY <3>1, <3>3, Zenon DEF Menu
  <2>2. AlgorithmsInit /\ of = "jev" => on \in Menus
    BY DEF AlgorithmsInit
  <2> QED
    BY <2>1, <2>2
<1>2. Inv /\ [AlgorithmsNext]_algorithmVars => Inv'
  BY DEF AlgorithmsNext, algorithmVars, GrowPlan, GrowStream, GrowGoal, GrowClauses, GrowJev,
         GrowLine, GrowText, GrowStep, GrowIntent, Grow, Menu
<1>3. Inv => JevOnMenu
  <2> SUFFICES ASSUME Inv, of = "jev" PROVE JevOnMenu
    BY DEF JevOnMenu
  <2> QED
    BY JevChoosesFromMenu DEF JevOnMenu
<1> QED
  BY <1>1, <1>2, <1>3, PTL DEF AlgorithmsSpec
-----------------------------------------------------------------------------
(* Lines on the wire                                                        *)

\* The stream starts with the line and what ends it: a line feed (t is 1) or the
\* stream's end (t is 0).
Begins(stream, line, t) ==
    /\ \A j \in 1 .. Len(line) : stream[j] = line[j] /\ line[j] # "lf"
    /\ t = 1 => Len(line) + 1 <= Len(stream) /\ stream[Len(line) + 1] = "lf"
    /\ t = 0 => Len(line) = Len(stream)

\* What a read takes off the stream
LEMMA RawIs ==
    ASSUME NEW max \in Nat, NEW stream \in Seq(Byte), NEW line \in Seq(Byte), NEW t \in {0, 1},
           Begins(stream, line, t)
    PROVE  LET raw == Through(Upto(stream, max + 1)) IN
           /\ raw \in Seq(Byte)
           /\ Len(raw) = IF Len(line) + t <= max THEN Len(line) + t ELSE max + 1
           /\ \A j \in 1 .. Len(raw) : raw[j] = stream[j]
<1> DEFINE m == Len(line)  u == Upto(stream, max + 1)  l == Len(stream)
<1>1. m \in Nat /\ l \in Nat /\ m + t <= l /\ \A j \in 1 .. l : stream[j] \in Byte
  BY LenProperties DEF Begins
<1>2. /\ t = 1 => stream[m + 1] = "lf"
      /\ t = 0 => m = l
      /\ \A j \in 1 .. m : stream[j] # "lf"
  BY DEF Begins
<1> HIDE DEF m, l
<1>3. /\ u \in Seq(Byte) /\ Len(u) = IF l > max + 1 THEN max + 1 ELSE l
      /\ \A j \in 1 .. Len(u) : u[j] = stream[j]
  <2>1. CASE l > max + 1
    <3> DEFINE w == max + 1  sub == SubSeq(stream, 1, w)
    <3>1. u = sub
      BY <2>1 DEF Upto, l
    <3>2. w \in Nat /\ 1 <= w /\ l > w /\ (w - 1) + 1 = w
      BY <2>1
    <3> HIDE DEF w, u
    <3>3. \A j \in 1 .. w : stream[j] \in Byte
      <4>1. \A j \in 1 .. w : j \in 1 .. l
        BY <1>1, <3>2
      <4> QED
        BY <1>1, <4>1
    <3>4. /\ sub \in Seq(Byte) /\ Len(sub) = IF 1 <= w THEN w - 1 + 1 ELSE 0
          /\ \A j \in 1 .. w - 1 + 1 : sub[j] = stream[1 + j - 1]
      BY <3>2, <3>3, SubSeqProperties
    <3> HIDE DEF sub
    <3>5. Len(sub) = w /\ \A j \in 1 .. w : sub[j] = stream[j]
      BY <3>2, <3>4
    <3>6. Len(u) = IF l > w THEN w ELSE l
      BY <3>1, <3>2, <3>5
    <3> QED
      BY <3>1, <3>4, <3>5, <3>6 DEF w
  <2>2. CASE ~(l > max + 1)
    BY <1>1, <2>2 DEF Upto, l
  <2> QED
    BY <2>1, <2>2
<1> HIDE DEF u
<1> DEFINE v == Len(u)  I == {i \in 1 .. v : u[i] = "lf"}
<1>4. v \in Nat
  BY <1>1, <1>3
<1>5. \A i \in I : i > m
  BY <1>1, <1>2, <1>3
<1>6. CASE t = 1 /\ m + 1 <= max + 1
  <2>1. m + 1 \in 1 .. v
    BY <1>1, <1>3, <1>6
  <2>2. m + 1 \in I /\ \A i \in I : m + 1 <= i
    BY <1>1, <1>2, <1>3, <1>4, <1>5, <1>6, <2>1
  <2>3. SelectInSeq(u, LAMBDA b : b = "lf") = m + 1
    <3>1. \A x \in I : (\A y \in I : x <= y) => x = m + 1
      <4>1. \A x \in I : x \in Int
        BY <1>4
      <4> QED
        BY <1>1, <2>2, <4>1
    <3>2. Min(I) \in I /\ \A y \in I : Min(I) <= y
      BY <2>2 DEF Min
    <3>3. Min(I) = m + 1
      BY <3>1, <3>2
    <3>4. I # {}
      BY <2>2
    <3> QED
      BY <3>3, <3>4 DEF SelectInSeq
  <2>4. Through(u) = SubSeq(u, 1, m + 1)
    <3>1. "lf" \in ToSet(u)
      BY <2>2 DEF ToSet
    <3> QED
      BY <2>3, <3>1 DEF Through
  <2>5. \A j \in 1 .. m + 1 : j \in 1 .. v /\ u[j] \in Byte
    <3>1. \A j \in 1 .. m + 1 : j \in 1 .. v
      BY <1>1, <1>4, <2>1
    <3> QED
      BY <1>3, <3>1, LenProperties
  <2>6. /\ SubSeq(u, 1, m + 1) \in Seq(Byte)
        /\ Len(SubSeq(u, 1, m + 1)) = IF 1 <= m + 1 THEN (m + 1) - 1 + 1 ELSE 0
        /\ \A j \in 1 .. (m + 1) - 1 + 1 : SubSeq(u, 1, m + 1)[j] = u[1 + j - 1]
    BY <1>1, <2>5, SubSeqProperties
  <2> DEFINE raw == SubSeq(u, 1, m + 1)
  <2>7. raw \in Seq(Byte) /\ Len(raw) = m + 1 /\ \A j \in 1 .. m + 1 : raw[j] = u[j]
    BY <1>1, <2>6
  <2> HIDE DEF raw
  <2>8. \A j \in 1 .. m + 1 : raw[j] = stream[j]
    BY <1>3, <2>5, <2>7
  <2>9. Len(raw) = IF m + t <= max THEN m + t ELSE max + 1
    BY <1>1, <1>6, <2>7
  <2>10. Through(Upto(stream, max + 1)) = raw
    BY <2>4 DEF u, raw
  <2> QED
    BY <2>7, <2>8, <2>9, <2>10 DEF m
<1>7. CASE ~(t = 1 /\ m + 1 <= max + 1)
  <2>1. v = IF m + t <= max THEN m + t ELSE max + 1
    BY <1>1, <1>2, <1>3, <1>7
  <2>2. v <= m
    BY <1>1, <1>7, <2>1
  <2>3. "lf" \notin ToSet(u)
    <3>1. \A i \in 1 .. v : u[i] # "lf"
      BY <1>1, <1>4, <1>5, <2>2
    <3> QED
      BY <3>1 DEF ToSet
  <2>4. Through(u) = u
    BY <2>3 DEF Through
  <2> QED
    BY <1>3, <2>1, <2>4 DEF u, m
<1> QED
  BY <1>6, <1>7

\* Without the carriage return at its end a line has the same bytes but that one.
LEMMA ChoppedBytes ==
    ASSUME NEW line \in Seq(Byte)
    PROVE  /\ ChopCr(line) \in Seq(Byte)
           /\ "bad" \in ToSet(ChopCr(line)) <=> "bad" \in ToSet(line)
           /\ ToSet(ChopCr(line)) \subseteq Ws <=> ToSet(line) \subseteq Ws
<1>1. CASE ~(line # <<>> /\ Last(line) = "cr")
  BY <1>1 DEF ChopCr
<1>2. CASE line # <<>> /\ Last(line) = "cr"
  <2> DEFINE m == Len(line)  front == SubSeq(line, 1, m - 1)
  <2>1. m \in Nat /\ m >= 1 /\ line[m] = "cr" /\ \A j \in 1 .. m : line[j] \in Byte
    BY <1>2, LenProperties, EmptySeq DEF Last
  <2>2. ChopCr(line) = front
    BY <1>2 DEF ChopCr, Front
  <2>3. ToSet(line) = {line[j] : j \in 1 .. m}
    BY LenProperties DEF ToSet
  <2> HIDE DEF m
  <2>4. \A j \in 1 .. m - 1 : line[j] \in Byte
    BY <2>1
  <2>5. /\ front \in Seq(Byte)
        /\ Len(front) = IF 1 <= m - 1 THEN (m - 1) - 1 + 1 ELSE 0
        /\ \A j \in 1 .. (m - 1) - 1 + 1 : front[j] = line[1 + j - 1]
    BY <2>1, <2>4, SubSeqProperties
  <2> HIDE DEF front
  <2>6. Len(front) = m - 1 /\ \A j \in 1 .. m - 1 : front[j] = line[j]
    BY <2>1, <2>5
  <2>7. ToSet(front) = {line[j] : j \in 1 .. m - 1}
    <3>1. ToSet(front) = {front[j] : j \in 1 .. m - 1}
      BY <2>5, <2>6, LenProperties DEF ToSet
    <3> QED
      BY <2>6, <3>1
  <2>8. \A b : b \in ToSet(line) <=> b \in ToSet(front) \/ b = "cr"
    <3>1. \A j \in 1 .. m : j = m \/ j \in 1 .. m - 1
      BY <2>1
    <3>2. \A j \in 1 .. m - 1 : j \in 1 .. m
      BY <2>1
    <3>3. m \in 1 .. m
      BY <2>1
    <3> QED
      BY <2>1, <2>3, <2>7, <3>1, <3>2, <3>3
  <2>9. "bad" # "cr" /\ "cr" \in Ws
    BY DEF Ws
  <2> QED
    BY <2>2, <2>5, <2>8, <2>9
<1> QED
  BY <1>1, <1>2

\* One read of a stream that starts with a line
ReadsLine(got, stream, line, t, max) ==
    /\ Len(line) + t > max \/ "bad" \in ToSet(line) => got.what = "refused"
    /\ Len(line) + t <= max /\ "bad" \notin ToSet(line) =>
          \/ /\ Len(line) + t = 0 /\ got.what = "eof"
          \/ /\ got.what = "line"
             /\ got.line = IF t = 1 THEN ChopCr(line) ELSE line
             /\ got.rest = SubSeq(stream, Len(line) + t + 1, Len(stream))

LEMMA ReadLine ==
    ASSUME NEW max \in Nat, NEW stream \in Seq(Byte), NEW line \in Seq(Byte), NEW t \in {0, 1},
           Begins(stream, line, t)
    PROVE  ReadsLine(Read(stream, max), stream, line, t, max)
<1> DEFINE m == Len(line)  raw == Through(Upto(stream, max + 1))
<1>1. /\ raw \in Seq(Byte) /\ Len(raw) = IF m + t <= max THEN m + t ELSE max + 1
      /\ \A j \in 1 .. Len(raw) : raw[j] = stream[j]
  BY RawIs
<1>2. m \in Nat /\ \A j \in 1 .. m : stream[j] = line[j] /\ line[j] # "lf"
  BY LenProperties DEF Begins
<1>3. t = 1 => stream[m + 1] = "lf"
  BY DEF Begins
<1> HIDE DEF m, raw
<1>4. CASE m + t > max
  <2>1. Len(raw) > max /\ raw # <<>>
    BY <1>1, <1>2, <1>4
  <2> QED
    BY <1>2, <1>4, <2>1 DEF Read, ReadsLine, raw, m
<1>5. CASE m + t <= max
  <2>1. Len(raw) = m + t /\ ~(Len(raw) > max)
    BY <1>1, <1>2, <1>5
  <2>2. CASE m + t = 0
    <3>1. raw = <<>> /\ line = <<>>
      BY <1>1, <1>2, <2>1, <2>2 DEF m
    <3>2. "bad" \notin ToSet(line)
      BY <3>1 DEF ToSet
    <3> QED
      BY <1>2, <2>2, <1>5, <3>1, <3>2 DEF Read, ReadsLine, raw, m
  <2>3. CASE m + t # 0
    <3>1. raw # <<>>
      BY <1>2, <2>1, <2>3
    <3>2. Chop(raw) = IF t = 1 THEN ChopCr(line) ELSE line
      <4>1. \A j \in 1 .. m : raw[j] = line[j]
        <5>1. \A j \in 1 .. m : j \in 1 .. Len(raw)
          BY <1>2, <2>1
        <5> QED
          BY <1>1, <1>2, <5>1
      <4>2. CASE t = 1
        <5>1. Last(raw) = "lf"
          <6>1. m + 1 \in 1 .. Len(raw) /\ Len(raw) = m + 1
            BY <1>2, <2>1, <4>2
          <6> QED
            BY <1>1, <1>3, <4>2, <6>1 DEF Last
        <5>2. \A j \in 1 .. m : raw[j] \in Byte
          <6>1. \A j \in 1 .. m : j \in 1 .. Len(raw)
            BY <1>2, <2>1
          <6> QED
            BY <1>1, <6>1, LenProperties
        <5>3. /\ SubSeq(raw, 1, m) \in Seq(Byte)
              /\ Len(SubSeq(raw, 1, m)) = IF 1 <= m THEN m - 1 + 1 ELSE 0
              /\ \A j \in 1 .. m - 1 + 1 : SubSeq(raw, 1, m)[j] = raw[1 + j - 1]
          BY <1>2, <5>2, SubSeqProperties
        <5>4. SubSeq(raw, 1, m) = line
          <6>1. Len(SubSeq(raw, 1, m)) = m /\ \A j \in 1 .. m : SubSeq(raw, 1, m)[j] = line[j]
            BY <1>2, <4>1, <5>3
          <6>2. Len(line) = m
            BY DEF m
          <6> QED
            BY <5>3, <6>1, <6>2, SeqEqual
        <5>5. Front(raw) = line
          <6>1. Len(raw) - 1 = m
            BY <1>2, <2>1, <4>2
          <6> QED
            BY <5>4, <6>1 DEF Front
        <5> QED
          BY <3>1, <4>2, <5>1, <5>5 DEF Chop
      <4>3. CASE t = 0
        <5>1. Len(raw) = Len(line) /\ m = Len(raw)
          BY <1>2, <2>1, <4>3 DEF m
        <5>2. raw = line
          BY <1>1, <4>1, <5>1, SeqEqual
        <5>3. Last(raw) # "lf"
          <6>1. m \in 1 .. m
            BY <1>2, <2>3, <4>3
          <6> QED
            BY <1>2, <4>1, <5>1, <6>1 DEF Last
        <5> QED
          BY <4>3, <5>2, <5>3 DEF Chop
      <4> QED
        BY <4>2, <4>3
    <3>3. "bad" \in ToSet(Chop(raw)) <=> "bad" \in ToSet(line)
      BY <3>2, ChoppedBytes
    <3>4. Len(raw) + 1 = m + t + 1
      BY <2>1
    <3> DEFINE got == Read(stream, max)
    <3>5. CASE "bad" \in ToSet(line)
      <4>1. got.what = "refused"
        BY <3>1, <3>3, <3>5 DEF Read, raw
      <4> HIDE DEF got
      <4>2. ~(m + t > max)
        BY <1>2, <1>5
      <4>3. ReadsLine(got, stream, line, t, max)
        BY <4>1, <3>5 DEF ReadsLine
      <4> QED
        BY <4>3 DEF got
    <3>6. CASE "bad" \notin ToSet(line)
      <4>1. got.what = "line" /\ got.line = Chop(raw)
            /\ got.rest = SubSeq(stream, Len(raw) + 1, Len(stream))
        BY <2>1, <3>1, <3>3, <3>6 DEF Read, raw
      <4> HIDE DEF got
      <4>2. ~(m + t > max)
        BY <1>2, <1>5
      <4>3. ReadsLine(got, stream, line, t, max)
        BY <3>2, <3>4, <3>6, <4>1, <4>2 DEF ReadsLine, m
      <4> QED
        BY <4>3 DEF got
    <3> QED
      BY <3>5, <3>6
  <2> QED
    BY <2>2, <2>3
<1> QED
  BY <1>2, <1>4, <1>5

\* At the end of the stream
LEMMA ReadAtEnd == ASSUME NEW max \in Nat PROVE Read(<<>>, max).what = "eof"
<1>1. Upto(<<>>, max + 1) = <<>>
  BY DEF Upto
<1>2. ToSet(<<>>) = {}
  BY DEF ToSet
<1>3. Through(<<>>) = <<>>
  BY <1>2 DEF Through
<1> QED
  BY <1>1, <1>3 DEF Read

\* One turn of the loops that read a connection
TakeLine(h, max) ==
    LET got == Read(h.rest, max)
    IN IF ~h.open THEN h
       ELSE [lines |-> IF got.what = "line" /\ ~(ToSet(got.line) \subseteq Ws)
                       THEN Append(h.lines, got.line) ELSE h.lines,
             open |-> got.what = "line",
             rest |-> got.rest]

\* The loops' function is there: what a connection has heard after each turn.
Turns(r, stream, max) ==
    /\ r[0] = [lines |-> <<>>, open |-> TRUE, rest |-> stream]
    /\ \A k \in 1 .. Len(stream) + 1 : r[k] = TakeLine(r[k - 1], max)
    /\ Heard(stream, max) = r[Len(stream) + 1]

LEMMA HeardIs == ASSUME NEW stream \in Seq(Byte), NEW max PROVE \E r : Turns(r, stream, max)
<1> DEFINE start == [lines |-> <<>>, open |-> TRUE, rest |-> stream]
           turn(f, n) == IF n = 0 THEN start ELSE TakeLine(f[n - 1], max)
           T == {m \in Nat : \E f : f = [n \in 0 .. m |-> turn(f, n)]}
<1>1. PICK N \in Nat : N = Len(stream) + 1
  BY LenProperties
<1> HIDE DEF start
<1>2. 0 \in T
  <2> DEFINE f == [n \in 0 .. 0 |-> start]
  <2>1. f = [n \in 0 .. 0 |-> turn(f, n)]
    OBVIOUS
  <2> QED
    BY <2>1
<1>3. ASSUME NEW m \in Nat, m \in T PROVE m + 1 \in T
  <2>1. PICK f : f = [n \in 0 .. m |-> turn(f, n)]
    BY <1>3
  <2> DEFINE g == [n \in 0 .. m + 1 |-> IF n = m + 1 THEN TakeLine(f[m], max) ELSE f[n]]
  <2>2. \A n \in 0 .. m : g[n] = f[n]
    OBVIOUS
  <2> HIDE DEF turn
  <2>3. \A n \in 0 .. m : f[n] = turn(f, n)
    BY <2>1
  <2> USE DEF turn
  <2>4. ASSUME NEW n \in 0 .. m + 1 PROVE g[n] = turn(g, n)
    <3>1. CASE n = m + 1
      <4>1. g[n] = TakeLine(f[m], max) /\ n # 0 /\ n - 1 = m /\ m \in 0 .. m
        BY <3>1
      <4>2. g[m] = f[m]
        BY <2>2
      <4> QED
        BY <4>1, <4>2
    <3>2. CASE n = 0
      BY <2>2, <2>3, <3>2
    <3>3. CASE n # m + 1 /\ n # 0
      <4>1. n \in 0 .. m /\ n - 1 \in 0 .. m
        BY <3>3
      <4>2. g[n] = f[n] /\ g[n - 1] = f[n - 1]
        BY <2>2, <4>1
      <4> QED
        BY <2>3, <3>3, <4>1, <4>2
    <3> QED
      BY <3>1, <3>2, <3>3
  <2>5. g = [n \in 0 .. m + 1 |-> turn(g, n)]
    BY <2>4
  <2> HIDE DEF g, turn
  <2>6. \E h : h = [n \in 0 .. m + 1 |-> turn(h, n)]
    BY <2>5
  <2>7. m + 1 \in Nat
    OBVIOUS
  <2> QED
    BY <2>6, <2>7, Zenon
<1>4. N \in T
  <2> HIDE DEF T
  <2> QED
    BY <1>2, <1>3, Inductive
<1> DEFINE r == CHOOSE f : f = [n \in 0 .. N |-> turn(f, n)]
<1>5. r = [n \in 0 .. N |-> turn(r, n)]
  BY <1>4
<1>6. Heard(stream, max) = r[N]
  BY <1>1 DEF Heard, TakeLine, start
<1> HIDE DEF r
<1>7. \A n \in 0 .. N : r[n] = turn(r, n)
  <2> HIDE DEF turn
  <2> QED
    BY <1>5
<1>8. r[0] = start /\ \A k \in 1 .. N : r[k] = TakeLine(r[k - 1], max)
  <2>1. 0 \in 0 .. N /\ \A k \in 1 .. N : k \in 0 .. N /\ k # 0
    OBVIOUS
  <2> QED
    BY <1>7, <2>1
<1> QED
  BY <1>1, <1>6, <1>8 DEF start, Turns

\* One byte more of a stream that is cut into lines
CutStep(lines, byte) ==
    IF byte = "lf" THEN Append(lines, <<>>)
    ELSE [lines EXCEPT ![Len(lines)] = Append(@, byte)]

Cuts(cut, stream) ==
    /\ cut[0] = << <<>> >>
    /\ \A i \in 1 .. Len(stream) : cut[i] = CutStep(cut[i - 1], stream[i])
    /\ LinesOf(stream) = cut[Len(stream)]

LEMMA CutIs == ASSUME NEW stream \in Seq(Byte) PROVE \E cut : Cuts(cut, stream)
<1> DEFINE V == {lines \in Seq(Seq(Byte)) : Len(lines) >= 1}
           step(i) == [lines \in V |-> CutStep(lines, stream[i])]
<1>1. PICK n \in Nat : n = Len(stream) /\ \A i \in 1 .. n : stream[i] \in Byte
  BY LenProperties
<1>2. ASSUME NEW lines \in V, NEW b \in Byte PROVE CutStep(lines, b) \in V
  <2> DEFINE k == Len(lines)
  <2>1. k \in Nat /\ k >= 1 /\ lines \in [1 .. k -> Seq(Byte)] /\ <<>> \in Seq(Byte)
    BY LenProperties
  <2>2. CASE b = "lf"
    BY <2>1, <2>2, AppendProperties DEF CutStep
  <2>3. CASE b # "lf"
    <3>1. Append(lines[k], b) \in Seq(Byte)
      BY <2>1, AppendProperties
    <3>2. [lines EXCEPT ![k] = Append(@, b)] \in [1 .. k -> Seq(Byte)]
      BY <2>1, <3>1
    <3> QED
      BY <2>1, <2>3, <3>2 DEF CutStep
  <2> QED
    BY <2>2, <2>3
<1>3. << <<>> >> \in V
  OBVIOUS
<1> DEFINE steps == [i \in 1 .. n |-> step(i)]
<1>4. steps \in [1 .. n -> [V -> V]]
  <2>1. ASSUME NEW i \in 1 .. n PROVE step(i) \in [V -> V]
    BY <1>1, <1>2
  <2> HIDE DEF step, V
  <2> QED
    BY <2>1
<1> HIDE DEF V
<1>5. PICK f \in [0 .. n -> V] : Goes(f, << <<>> >>, steps, n)
  <2> HIDE DEF steps
  <2> QED
    BY <1>3, <1>4, Recursion
<1>6. \A i \in 1 .. n : f[i] = CutStep(f[i - 1], stream[i])
  <2> SUFFICES ASSUME NEW i \in 1 .. n PROVE f[i] = CutStep(f[i - 1], stream[i])
    OBVIOUS
  <2>1. i - 1 \in 0 .. n /\ f[i] = steps[i][f[i - 1]] /\ steps[i] = step(i)
    BY <1>5 DEF Goes
  <2>2. f[i - 1] \in V
    BY <2>1
  <2> QED
    BY <2>1, <2>2
<1> DEFINE body(g, i) == IF i = 0 THEN << <<>> >> ELSE CutStep(g[i - 1], stream[i])
           cut == CHOOSE g : g = [i \in 0 .. n |-> body(g, i)]
<1>7. f = [i \in 0 .. n |-> body(f, i)]
  <2>1. \A i \in 0 .. n : f[i] = body(f, i)
    <3>1. f[0] = << <<>> >>
      BY <1>5 DEF Goes
    <3>2. \A i \in 0 .. n : i # 0 => i \in 1 .. n
      OBVIOUS
    <3> QED
      BY <1>6, <3>1, <3>2
  <2> HIDE DEF body
  <2> QED
    BY <1>5, <2>1
<1>8. cut = [i \in 0 .. n |-> body(cut, i)]
  BY <1>7
<1>9. LinesOf(stream) = cut[n]
  BY <1>1 DEF LinesOf, CutStep
<1> HIDE DEF cut
<1>10. \A i \in 0 .. n : cut[i] = body(cut, i)
  <2> HIDE DEF body
  <2> QED
    BY <1>8
<1>11. cut[0] = << <<>> >> /\ \A i \in 1 .. n : cut[i] = CutStep(cut[i - 1], stream[i])
  <2>1. 0 \in 0 .. n /\ \A i \in 1 .. n : i \in 0 .. n /\ i # 0
    OBVIOUS
  <2> QED
    BY <1>10, <2>1
<1> QED
  BY <1>1, <1>9, <1>11 DEF Cuts

\* The first i bytes of a stream are these lines with a line feed between each two
\* of them, the last of which is not ended yet; ends says where.
SplitAs(stream, i, lines, ends) ==
    /\ lines \in Seq(Seq(Byte)) /\ Len(lines) >= 1
    /\ ends \in [0 .. Len(lines) -> Nat]
    /\ ends[0] = 0 /\ ends[Len(lines)] = i + 1
    /\ \A k \in 1 .. Len(lines) :
          /\ ends[k] = ends[k - 1] + Len(lines[k]) + 1
          /\ \A j \in 1 .. Len(lines[k]) :
                stream[ends[k - 1] + j] = lines[k][j] /\ lines[k][j] # "lf"
          /\ k < Len(lines) => stream[ends[k]] = "lf"

IsSplit(stream, i, lines) == \E ends : SplitAs(stream, i, lines, ends)

LEMMA SplitNext ==
    ASSUME NEW stream \in Seq(Byte), NEW i \in 1 .. Len(stream), NEW lines, NEW ends,
           SplitAs(stream, i - 1, lines, ends)
    PROVE  IsSplit(stream, i, CutStep(lines, stream[i]))
<1> DEFINE b == stream[i]  m == Len(lines)  ln == lines[m]
<1>1. /\ lines \in Seq(Seq(Byte)) /\ m = Len(lines) /\ m \in Nat /\ m >= 1
      /\ ends \in [0 .. m -> Nat] /\ ends[0] = 0 /\ ends[m] = i
      /\ lines \in [1 .. m -> Seq(Byte)] /\ b \in Byte /\ i \in Nat
  BY LenProperties DEF SplitAs
<1>2. \A k \in 1 .. m :
          /\ ends[k] = ends[k - 1] + Len(lines[k]) + 1
          /\ \A j \in 1 .. Len(lines[k]) :
                stream[ends[k - 1] + j] = lines[k][j] /\ lines[k][j] # "lf"
          /\ k < m => stream[ends[k]] = "lf"
  BY DEF SplitAs
<1>3. m \in 1 .. m /\ ln \in Seq(Byte) /\ Len(ln) \in Nat
  BY <1>1, LenProperties
<1> HIDE DEF m
<1>6. m \in Nat /\ m >= 1
  BY <1>1
<1>4. CASE b = "lf"
  <2> DEFINE ls == Append(lines, <<>>)
             es == [k \in 0 .. m + 1 |-> IF k = m + 1 THEN i + 1 ELSE ends[k]]
  <2>1. /\ ls \in Seq(Seq(Byte)) /\ Len(ls) = m + 1 /\ ls[m + 1] = <<>>
        /\ \A k \in 1 .. m : ls[k] = lines[k]
    <3>1. <<>> \in Seq(Byte)
      OBVIOUS
    <3> QED
      BY <1>1, <3>1, AppendProperties
  <2>2. /\ es \in [0 .. m + 1 -> Nat] /\ es[m + 1] = i + 1
        /\ \A k \in 0 .. m : es[k] = ends[k]
    BY <1>1
  <2> HIDE DEF ls, es
  <2>3. ASSUME NEW k \in 1 .. m + 1
        PROVE  /\ es[k] = es[k - 1] + Len(ls[k]) + 1
               /\ \A j \in 1 .. Len(ls[k]) : stream[es[k - 1] + j] = ls[k][j] /\ ls[k][j] # "lf"
               /\ k < m + 1 => stream[es[k]] = "lf"
    <3>1. CASE k = m + 1
      <4>1. es[k - 1] = i /\ Len(ls[k]) = 0
        BY <1>1, <2>1, <2>2, <3>1
      <4> QED
        BY <1>1, <2>2, <3>1, <4>1
    <3>2. CASE k # m + 1
      <4>1. k \in 1 .. m /\ k - 1 \in 0 .. m /\ k \in 0 .. m
        BY <1>6, <3>2
      <4>2. es[k] = ends[k] /\ es[k - 1] = ends[k - 1] /\ ls[k] = lines[k]
        BY <2>1, <2>2, <4>1
      <4>3. k = m => stream[es[k]] = "lf"
        BY <1>1, <1>4, <4>2
      <4>4. k < m => stream[es[k]] = "lf"
        BY <1>2, <4>1, <4>2
      <4>6. k = m \/ k < m
        BY <1>6, <4>1
      <4>5. stream[es[k]] = "lf"
        BY <4>3, <4>4, <4>6
      <4> QED
        BY <1>2, <4>1, <4>2, <4>5
    <3> QED
      BY <3>1, <3>2
  <2>4. es[0] = 0 /\ m + 1 >= 1
    BY <1>1, <2>2
  <2>5. SplitAs(stream, i, ls, es)
    BY <2>1, <2>2, <2>3, <2>4 DEF SplitAs
  <2>6. CutStep(lines, b) = ls
    BY <1>4 DEF CutStep, ls
  <2> QED
    BY <2>5, <2>6 DEF IsSplit
<1>5. CASE b # "lf"
  <2> DEFINE ls == [lines EXCEPT ![m] = Append(@, b)]
             es == [ends EXCEPT ![m] = i + 1]
  <2>1. /\ Append(ln, b) \in Seq(Byte) /\ Len(Append(ln, b)) = Len(ln) + 1
        /\ \A j \in 1 .. Len(ln) : Append(ln, b)[j] = ln[j]
        /\ Append(ln, b)[Len(ln) + 1] = b
    BY <1>1, <1>3, AppendProperties
  <2>2. /\ ls \in [1 .. m -> Seq(Byte)] /\ ls[m] = Append(ln, b)
        /\ \A k \in 1 .. m : k # m => ls[k] = lines[k]
    BY <1>1, <1>3, <2>1
  <2>9. i + 1 \in Nat
    BY <1>1
  <2>10. m \in 0 .. m
    BY <1>6
  <2>4. /\ es \in [0 .. m -> Nat] /\ es[m] = i + 1
        /\ \A k \in 0 .. m : k # m => es[k] = ends[k]
    <3> DEFINE v == i + 1
    <3>1. v \in Nat /\ ends \in [0 .. m -> Nat]
      BY <1>1, <2>9
    <3> HIDE DEF v
    <3>2. /\ [ends EXCEPT ![m] = v] \in [0 .. m -> Nat] /\ [ends EXCEPT ![m] = v][m] = v
          /\ \A k \in 0 .. m : k # m => [ends EXCEPT ![m] = v][k] = ends[k]
      BY <2>10, <3>1
    <3> QED
      BY <3>2 DEF v
  <2>5. CutStep(lines, b) = ls
    BY <1>5 DEF CutStep, m
  <2> HIDE DEF ls, es
  <2>3. ls \in Seq(Seq(Byte)) /\ Len(ls) = m
    <3>1. ls \in [1 .. m -> Seq(Byte)]
      BY <2>2
    <3> QED
      BY <1>6, <3>1
  <2>6. ASSUME NEW k \in 1 .. m
        PROVE  /\ es[k] = es[k - 1] + Len(ls[k]) + 1
               /\ \A j \in 1 .. Len(ls[k]) : stream[es[k - 1] + j] = ls[k][j] /\ ls[k][j] # "lf"
               /\ k < m => stream[es[k]] = "lf"
    <3>4. k - 1 \in 0 .. m /\ k \in 0 .. m /\ k - 1 # m
      BY <1>6
    <3>1. k - 1 \in 0 .. m /\ k \in 0 .. m /\ k - 1 # m /\ es[k - 1] = ends[k - 1]
          /\ ends[k - 1] \in Nat
      BY <1>1, <2>4, <3>4
    <3>2. CASE k = m
      <4> DEFINE e == ends[k - 1]  n == Len(ln)
      <4>1. /\ i = e + n + 1 /\ e \in Nat /\ n \in Nat
            /\ \A j \in 1 .. n : stream[e + j] = ln[j] /\ ln[j] # "lf"
        BY <1>1, <1>2, <1>3, <3>1, <3>2
      <4>2. es[k] = i + 1 /\ Len(ls[k]) = n + 1 /\ ls[k] = Append(ln, b)
        BY <2>1, <2>2, <2>4, <3>2
      <4> HIDE DEF e, n
      <4>3. es[k] = e + (n + 1) + 1
        BY <4>1, <4>2
      <4>4. ASSUME NEW j \in 1 .. n + 1 PROVE stream[e + j] = ls[k][j] /\ ls[k][j] # "lf"
        <5>1. CASE j = n + 1
          <6>1. ls[k][j] = b /\ e + j = i
            BY <2>1, <4>1, <4>2, <5>1 DEF n
          <6> QED
            BY <1>5, <6>1
        <5>2. CASE j # n + 1
          <6>1. j \in 1 .. n /\ ls[k][j] = ln[j]
            BY <2>1, <4>1, <4>2, <5>2 DEF n
          <6> QED
            BY <4>1, <6>1
        <5> QED
          BY <5>1, <5>2
      <4>5. e = es[k - 1] /\ Len(ls[k]) = n + 1
        BY <3>1, <4>2 DEF e, n
      <4>6. ~(k < m)
        BY <1>6, <3>2
      <4>7. \A j \in 1 .. n + 1 : stream[e + j] = ls[k][j] /\ ls[k][j] # "lf"
        BY <4>4
      <4> HIDE DEF e, n
      <4> QED
        BY <4>3, <4>5, <4>6, <4>7
    <3>3. CASE k # m
      <4>1. ls[k] = lines[k] /\ es[k] = ends[k]
        BY <2>2, <2>4, <3>1, <3>3
      <4> QED
        BY <1>2, <3>1, <4>1
    <3> QED
      BY <3>2, <3>3
  <2>7. es[0] = 0
    <3>1. 0 \in 0 .. m /\ 0 # m
      BY <1>6
    <3> QED
      BY <1>1, <2>4, <3>1
  <2>8. SplitAs(stream, i, ls, es)
    BY <1>1, <2>3, <2>4, <2>6, <2>7 DEF SplitAs
  <2> QED
    BY <2>5, <2>8 DEF IsSplit
<1> QED
  BY <1>4, <1>5

\* LinesOf gives the lines of a stream: without line feeds, and nothing but line
\* feeds between them.
LEMMA LinesAre ==
    ASSUME NEW stream \in Seq(Byte) PROVE IsSplit(stream, Len(stream), LinesOf(stream))
<1>1. PICK cut : Cuts(cut, stream)
  BY CutIs
<1>2. PICK n \in Nat : n = Len(stream)
  BY LenProperties
<1> DEFINE T == {i \in Nat : i <= n => IsSplit(stream, i, cut[i])}
<1>3. 0 \in T
  <2> DEFINE ls == << <<>> >>  es == [k \in 0 .. 1 |-> k]
  <2>1. ls \in Seq(Seq(Byte)) /\ Len(ls) = 1 /\ ls[1] = <<>> /\ Len(<<>>) = 0
    OBVIOUS
  <2>2. es \in [0 .. 1 -> Nat] /\ es[0] = 0 /\ es[1] = 1
    OBVIOUS
  <2> HIDE DEF ls, es
  <2>3. \A k \in 1 .. 1 : k = 1 /\ k - 1 = 0 /\ ~(k < 1)
    OBVIOUS
  <2>4. SplitAs(stream, 0, ls, es)
    BY <2>1, <2>2, <2>3 DEF SplitAs
  <2>5. cut[0] = ls
    BY <1>1 DEF Cuts, ls
  <2> QED
    BY <2>4, <2>5 DEF IsSplit
<1>4. ASSUME NEW i \in Nat, i \in T PROVE i + 1 \in T
  <2> SUFFICES ASSUME i + 1 <= n PROVE IsSplit(stream, i + 1, cut[i + 1])
    OBVIOUS
  <2> DEFINE k == i + 1
  <2>1. k \in 1 .. Len(stream) /\ k - 1 = i /\ i <= n
    BY <1>2
  <2>2. IsSplit(stream, k - 1, cut[k - 1])
    BY <1>4, <2>1
  <2>3. cut[k] = CutStep(cut[k - 1], stream[k])
    BY <1>1, <2>1 DEF Cuts
  <2> HIDE DEF k
  <2>4. PICK es : SplitAs(stream, k - 1, cut[k - 1], es)
    BY <2>2 DEF IsSplit
  <2>5. IsSplit(stream, k, CutStep(cut[k - 1], stream[k]))
    BY <2>1, <2>4, SplitNext
  <2> QED
    BY <2>3, <2>5 DEF k
<1>5. n \in T
  <2> HIDE DEF T
  <2> QED
    BY <1>3, <1>4, Inductive
<1> QED
  BY <1>1, <1>2, <1>5 DEF Cuts

\* A line's end is behind it, and leaves a byte for each line to come.
LEMMA EndsGrow ==
    ASSUME NEW stream, NEW i \in Nat, NEW lines, NEW ends, SplitAs(stream, i, lines, ends)
    PROVE  \A k \in 0 .. Len(lines) : k <= ends[k] /\ ends[k] + (Len(lines) - k) <= i + 1
<1> DEFINE n == Len(lines)
<1>1. n \in Nat /\ n >= 1 /\ ends \in [0 .. n -> Nat] /\ ends[0] = 0 /\ ends[n] = i + 1
  BY LenProperties DEF SplitAs
<1>2. ASSUME NEW k \in 1 .. n
      PROVE  ends[k - 1] \in Nat /\ ends[k] \in Nat /\ ends[k - 1] + 1 <= ends[k]
  <2> DEFINE m == Len(lines[k])
  <2>1. m \in Nat /\ ends[k] = ends[k - 1] + m + 1
    <3>1. lines[k] \in Seq(Byte)
      BY LenProperties DEF SplitAs
    <3> QED
      BY <3>1, LenProperties DEF SplitAs
  <2> HIDE DEF m, n
  <2>2. k - 1 \in 0 .. n /\ k \in 0 .. n
    BY <1>1
  <2> QED
    BY <1>1, <2>1, <2>2
<1> HIDE DEF n
<1>3. \A k \in Nat : k \in {j \in Nat : j <= n => j <= ends[j]}
  <2> DEFINE T == {j \in Nat : j <= n => j <= ends[j]}
  <2>1. 0 \in T
    BY <1>1
  <2>2. ASSUME NEW j \in Nat, j \in T PROVE j + 1 \in T
    <3> SUFFICES ASSUME j + 1 <= n PROVE j + 1 <= ends[j + 1]
      OBVIOUS
    <3>1. j + 1 \in 1 .. n /\ (j + 1) - 1 = j /\ j <= n
      BY <1>1
    <3>2. j <= ends[j]
      BY <2>2, <3>1
    <3>3. ends[j] \in Nat /\ ends[j + 1] \in Nat /\ ends[j] + 1 <= ends[j + 1]
      BY <1>2, <3>1
    <3> QED
      BY <3>2, <3>3
  <2> HIDE DEF T
  <2>3. \A k \in Nat : k \in T
    BY <2>1, <2>2, Inductive
  <2> QED
    BY <2>3 DEF T
<1>4. \A k \in Nat : k \in {j \in Nat : j <= n => ends[n - j] + j <= i + 1}
  <2> DEFINE T == {j \in Nat : j <= n => ends[n - j] + j <= i + 1}
  <2>1. 0 \in T
    <3>1. n - 0 = n
      BY <1>1
    <3> QED
      BY <1>1, <3>1
  <2>2. ASSUME NEW j \in Nat, j \in T PROVE j + 1 \in T
    <3> SUFFICES ASSUME j + 1 <= n PROVE ends[n - (j + 1)] + (j + 1) <= i + 1
      OBVIOUS
    <3>1. n - j \in 1 .. n /\ (n - j) - 1 = n - (j + 1) /\ j <= n
      BY <1>1
    <3>2. ends[n - j] + j <= i + 1
      BY <2>2, <3>1
    <3>3. /\ ends[n - (j + 1)] \in Nat /\ ends[n - j] \in Nat
          /\ ends[n - (j + 1)] + 1 <= ends[n - j]
      BY <1>2, <3>1
    <3> DEFINE e == ends[n - (j + 1)]  f == ends[n - j]
    <3> HIDE DEF e, f
    <3>4. e \in Nat /\ f \in Nat /\ e + 1 <= f /\ f + j <= i + 1
      BY <3>2, <3>3 DEF e, f
    <3>5. e + (j + 1) <= i + 1
      BY <3>4
    <3> QED
      BY <3>5 DEF e
  <2> HIDE DEF T
  <2>3. \A k \in Nat : k \in T
    BY <2>1, <2>2, Inductive
  <2> QED
    BY <2>3 DEF T
<1>5. ASSUME NEW k \in 0 .. n PROVE k <= ends[k] /\ ends[k] + (n - k) <= i + 1
  <2>1. k \in Nat /\ n - k \in Nat /\ n - k <= n /\ n - (n - k) = k /\ k <= n
    BY <1>1
  <2> QED
    BY <1>3, <1>4, <2>1
<1> QED
  BY <1>5 DEF n

\* A line that is heard, as it is heard
IsHeard(lines, k, max) ==
    (\A j \in 1 .. k : ~Unfit(lines, j, max)) /\ ~(ToSet(lines[k]) \subseteq Ws)
AsHeard(lines, k) == IF k < Len(lines) THEN ChopCr(lines[k]) ELSE lines[k]

\* What there is to hear of the first k lines
Gathered(res, lines, max) ==
    /\ res \in [0 .. Len(lines) -> Seq(Seq(Byte))] /\ res[0] = <<>>
    /\ \A k \in 1 .. Len(lines) :
          res[k] = IF IsHeard(lines, k, max) THEN Append(res[k - 1], AsHeard(lines, k))
                   ELSE res[k - 1]

LEMMA FitLinesAre ==
    ASSUME NEW max \in Nat, NEW stream,
           LinesOf(stream) \in Seq(Seq(Byte)), Len(LinesOf(stream)) >= 1
    PROVE  \E res : /\ Gathered(res, LinesOf(stream), max)
                    /\ FitLines(stream, max) = res[Len(LinesOf(stream))]
<1> DEFINE lines == LinesOf(stream)
           piece(k) == IF IsHeard(lines, k, max) THEN <<AsHeard(lines, k)>> ELSE <<>>
           pieces == [k \in 1 .. Len(lines) |-> piece(k)]
<1>1. PICK n \in Nat \ {0} : n = Len(lines) /\ \A k \in 1 .. n : lines[k] \in Seq(Byte)
  BY LenProperties
<1>2. FitLines(stream, max) = FlattenSeq(pieces)
  BY DEF FitLines, IsHeard, AsHeard
<1> HIDE DEF lines
<1>3. \A k \in 1 .. n : AsHeard(lines, k) \in Seq(Byte)
  BY <1>1, ChoppedBytes DEF AsHeard
<1>4. pieces \in [1 .. n -> Seq(Seq(Byte))] /\ \A k \in 1 .. n : pieces[k] = piece(k)
  <2>1. ASSUME NEW k \in 1 .. n PROVE piece(k) \in Seq(Seq(Byte))
    <3> DEFINE a == AsHeard(lines, k)
    <3>1. a \in Seq(Byte)
      BY <1>3
    <3> HIDE DEF a
    <3>2. <<a>> \in Seq(Seq(Byte)) /\ <<>> \in Seq(Seq(Byte))
      BY <3>1
    <3> QED
      BY <3>2 DEF a
  <2> HIDE DEF piece
  <2> QED
    BY <1>1, <2>1
<1> HIDE DEF pieces
<1>5. PICK h \in [1 .. n -> Seq(Seq(Byte))] : Joins(h, pieces, n)
  BY <1>4, Concatenated
<1> DEFINE res == [k \in 0 .. n |-> IF k = 0 THEN <<>> ELSE h[k]]
<1>6. res \in [0 .. n -> Seq(Seq(Byte))] /\ res[0] = <<>> /\ \A k \in 1 .. n : res[k] = h[k]
  <2>1. ASSUME NEW k \in 0 .. n PROVE (IF k = 0 THEN <<>> ELSE h[k]) \in Seq(Seq(Byte))
    <3>1. <<>> \in Seq(Seq(Byte))
      OBVIOUS
    <3>2. k # 0 => k \in 1 .. n
      OBVIOUS
    <3> QED
      BY <3>1, <3>2
  <2> QED
    BY <2>1
<1> HIDE DEF res
<1>7. ASSUME NEW k \in 1 .. n
      PROVE res[k] = IF IsHeard(lines, k, max) THEN Append(res[k - 1], AsHeard(lines, k))
                     ELSE res[k - 1]
  <2> DEFINE p == res[k - 1]  a == AsHeard(lines, k)
  <2>1. p \in Seq(Seq(Byte)) /\ a \in Seq(Byte)
    <3>1. k - 1 \in 0 .. n
      OBVIOUS
    <3> QED
      BY <1>3, <1>6, <3>1
  <2>2. res[k] = p \o pieces[k]
    <3>1. CASE k = 1
      <4>3. k - 1 = 0 /\ h[1] = pieces[1]
        BY <1>5, <3>1 DEF Joins
      <4>1. p = <<>> /\ res[k] = pieces[k]
        BY <1>6, <3>1, <4>3
      <4>2. pieces[k] \in Seq(Seq(Byte))
        BY <1>4
      <4> QED
        BY <4>1, <4>2, ConcatEmptySeq
    <3>2. CASE k # 1
      <4>1. k \in 2 .. n /\ k - 1 \in 1 .. n
        BY <3>2
      <4> QED
        BY <1>5, <1>6, <4>1 DEF Joins
    <3> QED
      BY <3>1, <3>2
  <2> HIDE DEF p, a
  <2>3. p \o <<>> = p /\ Append(p, a) = p \o <<a>>
    BY <2>1, ConcatEmptySeq, AppendIsConcat
  <2>4. pieces[k] = IF IsHeard(lines, k, max) THEN <<a>> ELSE <<>>
    BY <1>4 DEF a
  <2> QED
    BY <2>2, <2>3, <2>4 DEF p, a
<1>8. FitLines(stream, max) = res[n]
  BY <1>2, <1>5, <1>6 DEF Joins
<1>9. Gathered(res, lines, max)
  BY <1>1, <1>6, <1>7 DEF Gathered
<1> QED
  BY <1>1, <1>8, <1>9 DEF lines

\* Nothing is heard behind a line that is refused.
LEMMA NothingBehind ==
    ASSUME NEW max, NEW lines, Len(lines) \in Nat, NEW res, Gathered(res, lines, max),
           NEW k \in 1 .. Len(lines), Unfit(lines, k, max)
    PROVE  res[Len(lines)] = res[k - 1]
<1>5. PICK n \in Nat : n = Len(lines) /\ k \in 1 .. n
  OBVIOUS
<1> DEFINE T == {m \in Nat : k + m <= n => res[k + m] = res[k - 1]}
<1>1. ASSUME NEW j \in k .. n PROVE res[j] = res[j - 1]
  <2>1. j \in 1 .. n /\ k \in 1 .. j
    BY <1>5
  <2>2. ~IsHeard(lines, j, max)
    BY <2>1 DEF IsHeard
  <2> QED
    BY <1>5, <2>1, <2>2 DEF Gathered
<1>2. 0 \in T
  <2>1. k \in k .. n /\ k + 0 = k
    BY <1>5
  <2> QED
    BY <1>1, <2>1
<1>3. ASSUME NEW m \in Nat, m \in T PROVE m + 1 \in T
  <2> SUFFICES ASSUME k + (m + 1) <= n PROVE res[k + (m + 1)] = res[k - 1]
    OBVIOUS
  <2>1. k + (m + 1) \in k .. n /\ (k + (m + 1)) - 1 = k + m /\ k + m <= n
    BY <1>5
  <2>2. res[k + m] = res[k - 1]
    BY <1>3, <2>1
  <2> QED
    BY <1>1, <2>1, <2>2
<1>4. n - k \in T /\ k + (n - k) = n
  <2>1. n - k \in Nat /\ k + (n - k) = n
    BY <1>5
  <2> HIDE DEF T
  <2> QED
    BY <1>2, <1>3, <2>1, Inductive
<1> QED
  BY <1>4, <1>5

\* A connection has heard the first k lines, or all there is to hear.
HeardTo(h, k, stream, lines, ends, res, max) ==
    \/ /\ h.open = FALSE
       /\ h.lines = res[Len(lines)]
    \/ /\ h.open = TRUE
       /\ h.lines = res[k]
       /\ \A j \in 1 .. k : ~Unfit(lines, j, max)
       /\ h.rest \in Seq(Byte)
       /\ IF k = Len(lines) THEN h.rest = <<>>
          ELSE /\ Len(h.rest) = Len(stream) - ends[k]
               /\ \A j \in 1 .. Len(h.rest) : h.rest[j] = stream[ends[k] + j]

LEMMA HeardTurn ==
    ASSUME NEW max \in Nat, NEW stream \in Seq(Byte), NEW lines, NEW ends,
           SplitAs(stream, Len(stream), lines, ends), NEW res, Gathered(res, lines, max),
           NEW k \in 1 .. Len(lines), NEW h, HeardTo(h, k - 1, stream, lines, ends, res, max)
    PROVE  HeardTo(TakeLine(h, max), k, stream, lines, ends, res, max)
<1> DEFINE n == Len(lines)  s == Len(stream)  line == lines[k]  m == Len(line)
           a == ends[k - 1]  c == ends[k]  t == IF k < n THEN 1 ELSE 0
           next == TakeLine(h, max)  rest == h.rest
<1>1. n \in Nat /\ s \in Nat /\ line \in Seq(Byte) /\ m \in Nat /\ a \in Nat
  <2>1. lines \in Seq(Seq(Byte)) /\ n \in Nat /\ s \in Nat
    BY LenProperties DEF SplitAs
  <2>2. line \in Seq(Byte)
    BY <2>1, LenProperties
  <2>3. m \in Nat
    BY <2>2, LenProperties
  <2>4. a \in Nat
    <3>1. k - 1 \in 0 .. Len(lines)
      BY <2>1
    <3> QED
      BY <3>1 DEF SplitAs
  <2> QED
    BY <2>1, <2>2, <2>3, <2>4
<1>2. /\ c = a + m + 1
      /\ \A j \in 1 .. m : stream[a + j] = line[j] /\ line[j] # "lf"
      /\ k < n => stream[c] = "lf"
      /\ ends[n] = s + 1
  BY DEF SplitAs
<1>3. c + (n - k) <= s + 1
  <2>1. k \in 0 .. Len(lines)
    BY <1>1
  <2> QED
    BY <1>1, <2>1, EndsGrow
<1>4. CASE h.open = FALSE
  <2>1. h.lines = res[n]
    BY <1>4 DEF HeardTo
  <2>2. next = h
    BY <1>4 DEF TakeLine
  <2> HIDE DEF next
  <2>3. HeardTo(next, k, stream, lines, ends, res, max)
    BY <1>4, <2>1, <2>2 DEF HeardTo
  <2> QED
    BY <2>3 DEF next
<1>5. CASE h.open # FALSE
  <2>1. /\ h.open = TRUE /\ h.lines = res[k - 1] /\ \A j \in 1 .. k - 1 : ~Unfit(lines, j, max)
        /\ rest \in Seq(Byte)
        /\ k - 1 # n => Len(rest) = s - a /\ \A j \in 1 .. Len(rest) : rest[j] = stream[a + j]
    BY <1>5 DEF HeardTo
  <2> DEFINE fits == \A j \in 1 .. k - 1 : ~Unfit(lines, j, max)
  <2>2. fits
    BY <2>1
  <2> HIDE DEF n, s, m, a, c, rest, fits
  <2>3. k - 1 # n
    BY <1>1 DEF n
  <2>4. Len(rest) = s - a /\ \A j \in 1 .. s - a : rest[j] = stream[a + j]
    BY <2>1, <2>3
  <2>5. /\ t \in {0, 1} /\ (t = 1 <=> k < n)
        /\ t = 1 => c <= s
        /\ t = 0 => k = n /\ c = s + 1
    <3>1. k <= n
      BY <1>1 DEF n
    <3>2. k < n => c <= s
      BY <1>1, <1>2, <1>3, <3>1
    <3>3. ~(k < n) => k = n
      BY <1>1, <3>1
    <3>4. k = n => c = s + 1
      BY <1>2 DEF c
    <3> QED
      BY <3>2, <3>3, <3>4
  <2> HIDE DEF t
  <2>6. Begins(rest, line, t)
    <3>1. m <= s - a /\ \A j \in 1 .. m : j \in 1 .. s - a
      BY <1>1, <1>2, <2>5
    <3>2. \A j \in 1 .. m : rest[j] = line[j] /\ line[j] # "lf"
      BY <1>2, <2>4, <3>1
    <3>3. t = 1 => m + 1 <= s - a /\ rest[m + 1] = "lf"
      <4>1. t = 1 => m + 1 \in 1 .. s - a /\ a + (m + 1) = c
        BY <1>1, <1>2, <2>5
      <4>2. t = 1 => stream[c] = "lf"
        BY <1>2, <2>5
      <4> QED
        BY <1>1, <2>4, <4>1, <4>2
    <3>4. t = 0 => m = s - a
      BY <1>1, <1>2, <2>5
    <3> QED
      BY <2>4, <3>2, <3>3, <3>4 DEF Begins, m
  <2> DEFINE got == Read(rest, max)
  <2>7. ReadsLine(got, rest, line, t, max)
    BY <1>1, <2>1, <2>5, <2>6, ReadLine
  <2> HIDE DEF got, line
  <2>8. Unfit(lines, k, max) <=> "bad" \in ToSet(line) \/ m + t > max
    BY DEF Unfit, t, m, line, n
  <2>9. next = [lines |-> IF got.what = "line" /\ ~(ToSet(got.line) \subseteq Ws)
                          THEN Append(h.lines, got.line) ELSE h.lines,
                open |-> got.what = "line", rest |-> got.rest]
    BY <2>1 DEF TakeLine, got, rest
  <2> HIDE DEF next
  <2>10. k \in 1 .. n /\ n = Len(lines)
    BY DEF n
  <2>11. CASE Unfit(lines, k, max)
    <3>1. got.what = "refused"
      BY <2>7, <2>8, <2>11 DEF ReadsLine, m
    <3>2. next.open = FALSE /\ next.lines = res[k - 1]
      BY <2>1, <2>9, <3>1
    <3>3. res[n] = res[k - 1]
      <4>1. Len(lines) \in Nat /\ k \in 1 .. Len(lines)
        BY <1>1, <2>10
      <4>2. res[Len(lines)] = res[k - 1]
        BY <2>11, <4>1, NothingBehind
      <4> QED
        BY <2>10, <4>2
    <3>4. HeardTo(next, k, stream, lines, ends, res, max)
      BY <2>10, <3>2, <3>3 DEF HeardTo
    <3> QED
      BY <3>4 DEF next
  <2>12. CASE ~Unfit(lines, k, max)
    <3>1. m + t <= max /\ "bad" \notin ToSet(line)
      BY <1>1, <2>5, <2>8, <2>12
    <3>2. \A j \in 1 .. k : ~Unfit(lines, j, max)
      <4>1. \A j \in 1 .. k : j = k \/ j \in 1 .. k - 1
        BY <1>1, <2>10
      <4> QED
        BY <2>2, <2>12, <4>1 DEF fits
    <3>3. IsHeard(lines, k, max) <=> ~(ToSet(line) \subseteq Ws)
      BY <3>2 DEF IsHeard, line
    <3>4. res[k] = IF IsHeard(lines, k, max) THEN Append(res[k - 1], AsHeard(lines, k))
                   ELSE res[k - 1]
      BY DEF Gathered
    <3>5. CASE got.what = "eof"
      <4>1. m + t = 0
        BY <2>7, <3>1, <3>5 DEF ReadsLine, m
      <4>2. k = n /\ m = 0
        BY <1>1, <2>5, <4>1
      <4>3. line = <<>>
        BY <1>1, <4>2 DEF m
      <4>4. ToSet(line) \subseteq Ws
        BY <4>3 DEF ToSet
      <4>5. res[n] = res[k - 1]
        BY <3>3, <3>4, <4>2, <4>4
      <4>6. next.open = FALSE /\ next.lines = res[k - 1]
        BY <2>1, <2>9, <3>5
      <4>7. HeardTo(next, k, stream, lines, ends, res, max)
        BY <2>10, <4>5, <4>6 DEF HeardTo
      <4> QED
        BY <4>7 DEF next
    <3>6. CASE got.what # "eof"
      <4>1. /\ got.what = "line" /\ got.line = (IF t = 1 THEN ChopCr(line) ELSE line)
            /\ got.rest = SubSeq(rest, m + t + 1, s - a)
        BY <2>4, <2>7, <3>1, <3>6 DEF ReadsLine, m
      <4>2. got.line = AsHeard(lines, k)
        BY <2>5, <4>1 DEF AsHeard, line, n
      <4>3. ToSet(got.line) \subseteq Ws <=> ToSet(line) \subseteq Ws
        BY <1>1, <4>1, ChoppedBytes
      <4>4. next.open = TRUE /\ next.lines = res[k] /\ next.rest = got.rest
        BY <2>1, <2>9, <3>3, <3>4, <4>1, <4>2, <4>3
      <4> DEFINE after == got.rest  from == m + t + 1  to == s - a
      <4>5. \A j \in from .. to : rest[j] \in Byte
        <5>1. \A j \in from .. to : j \in 1 .. Len(rest)
          BY <1>1, <2>4, <2>5
        <5> QED
          BY <2>1, <5>1, LenProperties
      <4>6. from \in Int /\ to \in Int
        BY <1>1, <2>5
      <4>7. /\ after \in Seq(Byte)
            /\ Len(after) = IF from <= to THEN to - from + 1 ELSE 0
            /\ \A j \in 1 .. to - from + 1 : after[j] = rest[from + j - 1]
        <5>1. after = SubSeq(rest, from, to)
          BY <4>1
        <5> HIDE DEF from, to, after
        <5> QED
          BY <4>5, <4>6, <5>1, SubSeqProperties, SMTT(60)
      <4> HIDE DEF after
      <4>8. CASE t = 0
        <5>1. k = n /\ Len(after) = 0
          BY <1>1, <1>2, <2>5, <4>7, <4>8
        <5>2. after = <<>>
          BY <4>7, <5>1
        <5>3. next.rest = <<>> /\ next.rest \in Seq(Byte)
          BY <4>4, <4>7, <5>2 DEF after
        <5>4. HeardTo(next, k, stream, lines, ends, res, max)
          BY <2>10, <3>2, <4>4, <5>1, <5>3 DEF HeardTo
        <5> QED
          BY <5>4 DEF next
      <4>9. CASE t = 1
        <5>1. k # n /\ to - from + 1 = s - c /\ Len(after) = s - c
          <6>1. k # n /\ to - from + 1 = s - c /\ c <= s
            BY <1>1, <1>2, <2>5, <4>9
          <6>2. Len(after) = IF from <= to THEN to - from + 1 ELSE 0
            BY <4>7
          <6> HIDE DEF from, to
          <6>3. c \in Nat
            BY <1>1, <1>2
          <6> QED
            BY <1>1, <4>6, <6>1, <6>2, <6>3
        <5>2. ASSUME NEW j \in 1 .. s - c PROVE after[j] = stream[c + j]
          <6>1. from + j - 1 \in 1 .. s - a /\ a + (from + j - 1) = c + j
            BY <1>1, <1>2, <2>5, <4>9
          <6>2. rest[from + j - 1] = stream[a + (from + j - 1)]
            BY <2>4, <6>1
          <6>3. after[j] = rest[from + j - 1]
            BY <4>7, <5>1
          <6> QED
            BY <6>1, <6>2, <6>3
        <5>3. /\ next.rest \in Seq(Byte) /\ Len(next.rest) = s - c
              /\ \A j \in 1 .. Len(next.rest) : next.rest[j] = stream[c + j]
          BY <4>4, <4>7, <5>1, <5>2 DEF after
        <5>4. HeardTo(next, k, stream, lines, ends, res, max)
          BY <2>10, <3>2, <4>4, <5>1, <5>3 DEF HeardTo, s, c
        <5> QED
          BY <5>4 DEF next
      <4> QED
        BY <2>5, <4>8, <4>9
    <3> QED
      BY <3>5, <3>6
  <2> QED
    BY <2>11, <2>12
<1> QED
  BY <1>4, <1>5

\* Any stream, well-formed or not, and any limit: what a connection hears are the
\* whole lines up to the first that is refused, in order and each once; nothing
\* behind that one, and no part of it (read_limited_line_into with the loops of
\* handle_stream_host and handle_stream_mailbox).
THEOREM HeardWhole ==
    ASSUME NEW max \in Nat, NEW stream \in Seq(Byte)
    PROVE  Heard(stream, max).lines = FitLines(stream, max)
<1> DEFINE lines == LinesOf(stream)
<1>1. PICK ends : SplitAs(stream, Len(stream), lines, ends)
  BY LinesAre DEF IsSplit
<1>2. PICK n \in Nat, s \in Nat : n = Len(lines) /\ s = Len(stream)
  BY <1>1, LenProperties DEF SplitAs
<1>3. PICK res : Gathered(res, lines, max) /\ FitLines(stream, max) = res[n]
  <2>1. lines \in Seq(Seq(Byte)) /\ Len(lines) >= 1
    BY <1>1 DEF SplitAs
  <2> QED
    BY <1>2, <2>1, FitLinesAre
<1>4. PICK r : Turns(r, stream, max)
  BY HeardIs
<1> HIDE DEF lines
<1>5. /\ r[0] = [lines |-> <<>>, open |-> TRUE, rest |-> stream]
      /\ \A k \in 1 .. s + 1 : r[k] = TakeLine(r[k - 1], max)
      /\ Heard(stream, max) = r[s + 1]
  BY <1>2, <1>4 DEF Turns
<1>6. n >= 1 /\ n <= s + 1 /\ ends[0] = 0
  <2>1. n >= 1 /\ ends[n] = s + 1 /\ ends[0] = 0
    BY <1>1, <1>2 DEF SplitAs
  <2>3. n \in 0 .. n
    OBVIOUS
  <2>2. n <= ends[n]
    BY <1>1, <1>2, <2>3, EndsGrow
  <2> QED
    BY <2>1, <2>2
<1> DEFINE To(h, k) == HeardTo(h, k, stream, lines, ends, res, max)
           T == {k \in Nat : k <= n => To(r[k], k)}
<1>7. 0 \in T
  <2>1. r[0].open = TRUE /\ r[0].lines = <<>> /\ r[0].rest = stream
    BY <1>5
  <2>2. res[0] = <<>> /\ 0 # Len(lines)
    BY <1>2, <1>3, <1>6 DEF Gathered
  <2>3. Len(stream) = Len(stream) - ends[0] /\ \A j \in 1 .. Len(stream) : ends[0] + j = j
    BY <1>2, <1>6
  <2>4. To(r[0], 0)
    BY <2>1, <2>2, <2>3 DEF HeardTo
  <2> QED
    BY <2>4
<1>8. ASSUME NEW m \in Nat, m \in T PROVE m + 1 \in T
  <2> SUFFICES ASSUME m + 1 <= n PROVE To(r[m + 1], m + 1)
    OBVIOUS
  <2> DEFINE k == m + 1
  <2>1. k \in 1 .. n /\ k - 1 = m /\ k \in 1 .. s + 1 /\ m <= n
    BY <1>6
  <2>2. HeardTo(r[k - 1], k - 1, stream, lines, ends, res, max)
    BY <1>8, <2>1
  <2>3. r[k] = TakeLine(r[k - 1], max) /\ k \in 1 .. Len(lines)
    BY <1>2, <1>5, <2>1
  <2> HIDE DEF k
  <2>4. HeardTo(TakeLine(r[k - 1], max), k, stream, lines, ends, res, max)
    BY <1>1, <1>3, <2>2, <2>3, HeardTurn
  <2> QED
    BY <2>3, <2>4 DEF k
<1>9. To(r[n], n)
  <2>1. n \in T
    <3> HIDE DEF T
    <3> QED
      BY <1>7, <1>8, Inductive
  <2> QED
    BY <2>1
\* Turns at the end of the stream change nothing
<1> DEFINE Over(h) == h.lines = res[n] /\ (h.open = FALSE \/ (h.open = TRUE /\ h.rest = <<>>))
           V == {m \in Nat : n + m <= s + 1 => Over(r[n + m])}
<1>10. 0 \in V
  <2>1. Over(r[n])
    BY <1>2, <1>9 DEF HeardTo
  <2>2. n + 0 = n
    OBVIOUS
  <2> QED
    BY <2>1, <2>2
<1>11. ASSUME NEW m \in Nat, m \in V PROVE m + 1 \in V
  <2> DEFINE k == n + (m + 1)
  <2> HIDE DEF Over
  <2> SUFFICES ASSUME k <= s + 1 PROVE Over(r[k])
    OBVIOUS
  <2>1. k \in 1 .. s + 1 /\ k - 1 = n + m /\ n + m <= s + 1
    BY <1>6
  <2>2. r[k] = TakeLine(r[k - 1], max)
    BY <1>5, <2>1
  <2>3. Over(r[k - 1])
    BY <1>11, <2>1
  <2> DEFINE h == r[k - 1]
  <2> HIDE DEF h, k
  <2>4. Over(h) => Over(TakeLine(h, max))
    <3>1. Read(<<>>, max).what = "eof"
      BY ReadAtEnd
    <3> QED
      BY <3>1 DEF TakeLine, Over
  <2> QED
    BY <2>2, <2>3, <2>4 DEF h
<1>12. s + 1 - n \in V /\ n + (s + 1 - n) = s + 1
  <2>1. s + 1 - n \in Nat /\ n + (s + 1 - n) = s + 1
    BY <1>6
  <2> HIDE DEF V
  <2> QED
    BY <1>10, <1>11, <2>1, Inductive
<1>13. r[s + 1].lines = res[n]
  BY <1>12
<1> QED
  BY <1>3, <1>5, <1>13

\* The inputs that grow to streams are streams.
StreamInv == of = "stream" => on \in 1 .. 3 /\ input \in Seq(Byte)

\* On every stream TLC tries, and on every longer one.
THEOREM HearsWhole == AlgorithmsSpec => []LinesHeardWhole
<1>1. AlgorithmsInit => StreamInv
  BY DEF AlgorithmsInit, StreamInv
<1>2. StreamInv /\ [AlgorithmsNext]_algorithmVars => StreamInv'
  <2> SUFFICES ASSUME StreamInv, [AlgorithmsNext]_algorithmVars PROVE StreamInv'
    OBVIOUS
  <2>1. CASE UNCHANGED algorithmVars
    BY <2>1 DEF StreamInv, algorithmVars
  <2>2. CASE GrowStream
    <3> SUFFICES ASSUME of' = "stream" PROVE on' \in 1 .. 3 /\ input' \in Seq(Byte)
      BY DEF StreamInv
    <3>1. of = "stream" /\ UNCHANGED <<of, on>> /\ \E p \in Byte : input' = Append(input, p)
      BY <2>2 DEF GrowStream, Grow
    <3>2. on \in 1 .. 3 /\ input \in Seq(Byte)
      BY <3>1 DEF StreamInv
    <3> QED
      BY <3>1, <3>2, AppendProperties
  <2>3. CASE AlgorithmsNext /\ ~GrowStream
    <3>1. of' # "stream"
      BY <2>3 DEF AlgorithmsNext, GrowGoal, GrowClauses, GrowJev, GrowLine, GrowText, GrowStep,
                  GrowIntent, GrowPlan, Grow
    <3> QED
      BY <3>1 DEF StreamInv
  <2> QED
    BY <2>1, <2>2, <2>3
<1>3. StreamInv => LinesHeardWhole
  <2> SUFFICES ASSUME StreamInv, of = "stream"
               PROVE Heard(input, on).lines = FitLines(input, on)
    BY DEF LinesHeardWhole
  <2>1. on \in Nat /\ input \in Seq(Byte)
    BY DEF StreamInv
  <2> QED
    BY <2>1, HeardWhole
<1> QED
  BY <1>1, <1>2, <1>3, PTL DEF AlgorithmsSpec

-----------------------------------------------------------------------------
(* What is written is heard                                                 *)

\* What write_json_line writes of an object: text on one line, that ends in a brace.
JsonLine(line, max) ==
    /\ {"lf", "bad"} \cap ToSet(line) = {}
    /\ ~(ToSet(line) \subseteq Ws)
    /\ line[Len(line)] # "cr"
    /\ Len(line) < max

\* The stream has the line at its start.
Starts(stream, line) ==
    /\ Len(line) + 1 <= Len(stream)
    /\ \A j \in 1 .. Len(line) : stream[j] = line[j]
    /\ stream[Len(line) + 1] = "lf"

LEMMA ReadTakesLine ==
    ASSUME NEW max \in Nat, NEW stream \in Seq(Byte), NEW line \in Seq(Byte),
           JsonLine(line, max), Starts(stream, line)
    PROVE  LET got == Read(stream, max) IN
           /\ got.what = "line" /\ got.line = line
           /\ got.rest = SubSeq(stream, Len(line) + 2, Len(stream))
<1> DEFINE m == Len(line)  got == Read(stream, max)
<1>1. m \in Nat /\ m + 1 <= max /\ (m + 1) + 1 = m + 2
  BY LenProperties DEF JsonLine
<1>2. \A j \in 1 .. m : line[j] # "lf"
  BY LenProperties DEF JsonLine, ToSet
<1>3. Begins(stream, line, 1)
  BY <1>2 DEF Begins, Starts
<1>4. ReadsLine(got, stream, line, 1, max)
  BY <1>3, ReadLine
<1>5. "bad" \notin ToSet(line) /\ ChopCr(line) = line
  BY DEF JsonLine, ChopCr, Last
<1> HIDE DEF got, m
<1>6. ~(m + 1 > max) /\ m + 1 <= max /\ m + 1 # 0
  BY <1>1
<1> QED
  BY <1>1, <1>4, <1>5, <1>6 DEF ReadsLine, got, m

\* Where in a stream its lines end.
WrittenAs(stream, lines, ends) ==
    /\ stream \in Seq(Byte)
    /\ ends \in [0 .. Len(lines) -> Nat] /\ ends[0] = 0 /\ ends[Len(lines)] = Len(stream)
    /\ \A k \in 1 .. Len(lines) :
          /\ ends[k] = ends[k - 1] + Len(lines[k]) + 1
          /\ ends[k] <= Len(stream)
          /\ \A j \in 1 .. Len(lines[k]) : stream[ends[k - 1] + j] = lines[k][j]
          /\ stream[ends[k]] = "lf"

LEMMA WrittenIs ==
    ASSUME NEW lines \in Seq(Seq(Byte)) PROVE \E ends : WrittenAs(Written(lines), lines, ends)
<1> DEFINE pieces == [i \in DOMAIN lines |-> lines[i] \o <<"lf">>]  stream == Written(lines)
<1>1. PICK n \in Nat : n = Len(lines) /\ DOMAIN lines = 1 .. n
  BY LenProperties
<1>2. \A k \in 1 .. n : lines[k] \in Seq(Byte) /\ Len(lines[k]) \in Nat
  BY <1>1, LenProperties
<1>3. ASSUME NEW k \in 1 .. n
      PROVE /\ pieces[k] \in Seq(Byte) /\ Len(pieces[k]) = Len(lines[k]) + 1
            /\ \A j \in 1 .. Len(lines[k]) : pieces[k][j] = lines[k][j]
            /\ pieces[k][Len(lines[k]) + 1] = "lf"
  <2> DEFINE line == lines[k]
  <2>1. pieces[k] = line \o <<"lf">>
    BY <1>1
  <2>2. line \in Seq(Byte) /\ Len(line) \in Nat
    BY <1>2
  <2>3. <<"lf">> \in Seq(Byte) /\ Len(<<"lf">>) = 1 /\ <<"lf">>[1] = "lf"
    <3>1. "lf" \in Byte
      BY DEF Byte
    <3>2. Len(<<"lf">>) = 1 /\ <<"lf">>[1] = "lf"
      OBVIOUS
    <3>3. <<"lf">> \in Seq(Byte)
      BY <3>1
    <3> QED
      BY <3>2, <3>3
  <2> HIDE DEF line, pieces
  <2>4. /\ line \o <<"lf">> \in Seq(Byte)
        /\ Len(line \o <<"lf">>) = Len(line) + Len(<<"lf">>)
        /\ \A i \in 1 .. Len(line) + Len(<<"lf">>) :
              (line \o <<"lf">>)[i] = IF i <= Len(line) THEN line[i] ELSE <<"lf">>[i - Len(line)]
    BY <2>2, <2>3, ConcatProperties, Zenon
  <2>5. (line \o <<"lf">>)[Len(line) + 1] = "lf"
    BY <2>2, <2>3, <2>4
  <2>6. \A j \in 1 .. Len(line) : (line \o <<"lf">>)[j] = line[j]
    BY <2>2, <2>3, <2>4
  <2> QED
    BY <2>1, <2>3, <2>4, <2>5, <2>6 DEF line
<1>4. pieces \in Seq(Seq(Byte)) /\ Len(pieces) = n
  <2>1. pieces = [i \in 1 .. n |-> pieces[i]]
    BY <1>1
  <2> HIDE DEF pieces
  <2>2. pieces \in [1 .. n -> Seq(Byte)]
    BY <1>3, <2>1
  <2> QED
    BY <2>2
<1>5. stream = FlattenSeq(pieces)
  BY DEF Written
<1> HIDE DEF pieces, stream
<1>6. PICK e : stream \in Seq(Byte) /\ Places(stream, pieces, e)
  BY <1>4, <1>5, FlattenPlaces
<1>7. /\ e \in [0 .. n -> Nat] /\ e[0] = 0 /\ e[n] = Len(stream)
      /\ \A k \in 1 .. n :
            /\ e[k] = e[k - 1] + Len(pieces[k]) /\ e[k] <= Len(stream)
            /\ \A j \in 1 .. Len(pieces[k]) : stream[e[k - 1] + j] = pieces[k][j]
  BY <1>4, <1>6 DEF Places
<1>8. ASSUME NEW k \in 1 .. n
      PROVE /\ e[k] = e[k - 1] + Len(lines[k]) + 1
            /\ e[k] <= Len(stream)
            /\ \A j \in 1 .. Len(lines[k]) : stream[e[k - 1] + j] = lines[k][j]
            /\ stream[e[k]] = "lf"
  <2> DEFINE a == e[k - 1]  m == Len(lines[k])
  <2>1. k - 1 \in 0 .. n
    OBVIOUS
  <2>2. a \in Nat /\ m \in Nat
    BY <1>2, <1>7, <2>1
  <2>3. e[k] = a + (m + 1) /\ \A j \in 1 .. m + 1 : stream[a + j] = pieces[k][j]
    BY <1>3, <1>7
  <2>4. \A j \in 1 .. m : pieces[k][j] = lines[k][j]
    BY <1>3
  <2>5. pieces[k][m + 1] = "lf"
    BY <1>3
  <2> HIDE DEF a, m
  <2>6. m + 1 \in 1 .. m + 1 /\ \A j \in 1 .. m : j \in 1 .. m + 1
    BY <2>2
  <2>7. e[k] = a + m + 1
    BY <2>2, <2>3
  <2>8. stream[e[k]] = "lf"
    BY <2>3, <2>5, <2>6
  <2>9. \A j \in 1 .. m : stream[a + j] = lines[k][j]
    BY <2>3, <2>4, <2>6
  <2> QED
    BY <1>7, <2>7, <2>8, <2>9 DEF a, m
<1>9. WrittenAs(stream, lines, e)
  BY <1>1, <1>6, <1>7, <1>8 DEF WrittenAs
<1> QED
  BY <1>9 DEF stream

\* After k lines: those, and the stream behind them
HeardUpTo(h, k, stream, lines, ends) ==
    /\ h.lines = [i \in 1 .. k |-> lines[i]]
    /\ h.open = TRUE
    /\ h.rest \in Seq(Byte)
    /\ Len(h.rest) = Len(stream) - ends[k]
    /\ \A i \in 1 .. Len(h.rest) : h.rest[i] = stream[ends[k] + i]

LEMMA HeardNext ==
    ASSUME NEW max \in Nat, NEW lines \in Seq(Seq(Byte)), NEW stream, NEW ends,
           WrittenAs(stream, lines, ends), NEW k \in 1 .. Len(lines), JsonLine(lines[k], max),
           NEW h, HeardUpTo(h, k - 1, stream, lines, ends)
    PROVE  HeardUpTo(TakeLine(h, max), k, stream, lines, ends)
<1> DEFINE line == lines[k]  m == Len(line)  a == ends[k - 1]  s == Len(stream)  rest == h.rest
<1>1. PICK n \in Nat : n = Len(lines) /\ DOMAIN lines = 1 .. n
  BY LenProperties
<1>2. line \in Seq(Byte) /\ m \in Nat /\ a \in Nat /\ s \in Nat
  <2>1. line \in Seq(Byte)
    BY <1>1, LenProperties
  <2>2. k - 1 \in 0 .. Len(lines)
    BY <1>1
  <2> QED
    BY <2>1, <2>2, LenProperties DEF WrittenAs
<1>3. /\ ends[k] = a + m + 1 /\ a + m + 1 <= s
      /\ \A j \in 1 .. m : stream[a + j] = line[j]
      /\ stream[a + m + 1] = "lf"
  BY DEF WrittenAs
<1>4. /\ rest \in Seq(Byte) /\ Len(rest) = s - a
      /\ \A i \in 1 .. s - a : rest[i] = stream[a + i]
      /\ h.open = TRUE /\ h.lines = [i \in 1 .. k - 1 |-> lines[i]]
  BY DEF HeardUpTo
<1> HIDE DEF m, a, s, rest
<1>5. m + 1 <= s - a /\ m + 1 \in 1 .. s - a /\ a + (m + 1) = a + m + 1
      /\ \A j \in 1 .. m : j \in 1 .. s - a
  BY <1>2, <1>3
<1>6. Starts(rest, line)
  <2>1. rest[m + 1] = "lf"
    BY <1>3, <1>4, <1>5
  <2>2. \A j \in 1 .. m : rest[j] = line[j]
    BY <1>3, <1>4, <1>5
  <2> QED
    BY <1>4, <1>5, <2>1, <2>2 DEF Starts, m
<1> DEFINE got == Read(rest, max)  after == SubSeq(rest, m + 2, s - a)
<1>7. got.what = "line" /\ got.line = line /\ got.rest = after
  <2>1. rest \in Seq(Byte) /\ line \in Seq(Byte) /\ JsonLine(line, max)
    BY <1>2, <1>4
  <2> HIDE DEF line
  <2>2. /\ Read(rest, max).what = "line" /\ Read(rest, max).line = line
        /\ Read(rest, max).rest = SubSeq(rest, Len(line) + 2, Len(rest))
    BY <1>6, <2>1, ReadTakesLine
  <2> QED
    BY <1>4, <2>2 DEF m
<1> HIDE DEF got
<1>8. TakeLine(h, max) = [lines |-> Append(h.lines, line), open |-> TRUE, rest |-> after]
  <2>1. ~(ToSet(got.line) \subseteq Ws)
    BY <1>7 DEF JsonLine
  <2> QED
    BY <1>4, <1>7, <2>1 DEF TakeLine, got, rest
<1>9. Append(h.lines, line) = [i \in 1 .. k |-> lines[i]]
  <2>1. k - 1 \in Nat /\ (k - 1) + 1 = k
    BY <1>1
  <2> QED
    BY <1>4, <2>1 DEF line
<1>10. /\ after \in Seq(Byte) /\ Len(after) = s - ends[k]
       /\ \A i \in 1 .. Len(after) : after[i] = stream[ends[k] + i]
  <2>1. \A i \in m + 2 .. s - a : rest[i] \in Byte
    <3>1. \A i \in m + 2 .. s - a : i \in 1 .. Len(rest)
      BY <1>2, <1>4
    <3> QED
      BY <1>4, <3>1, LenProperties
  <2> DEFINE from == m + 2  to == s - a  c == ends[k]
  <2>2. from \in Int /\ to \in Int
    BY <1>2
  <2>3. /\ after \in Seq(Byte)
        /\ Len(after) = IF from <= to THEN to - from + 1 ELSE 0
        /\ \A i \in 1 .. to - from + 1 : after[i] = rest[from + i - 1]
    <3> DEFINE sub == SubSeq(rest, from, to)
    <3>1. after = sub /\ \A i \in from .. to : rest[i] \in Byte
      BY <2>1
    <3> HIDE DEF from, to, after, rest
    <3>2. /\ sub \in Seq(Byte)
          /\ Len(sub) = IF from <= to THEN to - from + 1 ELSE 0
          /\ \A i \in 1 .. to - from + 1 : sub[i] = rest[from + i - 1]
      BY <2>2, <3>1, SubSeqProperties
    <3> HIDE DEF sub
    <3> QED
      BY <3>1, <3>2
  <2>4. c = a + m + 1 /\ a + m + 1 <= s
    BY <1>3
  <2> HIDE DEF after, c
  <2>5. to - from + 1 = s - c /\ Len(after) = s - c
    <3>1. Len(after) = IF from <= to THEN to - from + 1 ELSE 0
      BY <2>3
    <3> QED
      BY <1>2, <2>4, <3>1
  <2>6. ASSUME NEW i \in 1 .. s - c PROVE after[i] = stream[c + i]
    <3>1. from + i - 1 \in 1 .. s - a /\ a + (from + i - 1) = c + i
      BY <1>2, <2>4
    <3>2. rest[from + i - 1] = stream[a + (from + i - 1)]
      BY <1>4, <3>1
    <3>3. after[i] = rest[from + i - 1]
      BY <2>3, <2>5
    <3> QED
      BY <3>1, <3>2, <3>3
  <2> QED
    BY <2>3, <2>5, <2>6 DEF c
<1> QED
  BY <1>8, <1>9, <1>10, SMTT(60) DEF HeardUpTo, s

\* What write_json_line writes, read_limited_line_into reads: any number of objects,
\* each no longer than the limit with its line feed, come out of a connection as they
\* went in, in order, and then the connection ends.
THEOREM HeardAsWritten ==
    ASSUME NEW max \in Nat, NEW lines \in Seq(Seq(Byte)),
           \A k \in 1 .. Len(lines) : JsonLine(lines[k], max)
    PROVE  Heard(Written(lines), max).lines = lines
<1> DEFINE stream == Written(lines)
<1>1. PICK ends : WrittenAs(stream, lines, ends)
  BY WrittenIs
<1>2. PICK n \in Nat, s \in Nat : /\ n = Len(lines) /\ s = Len(stream)
                                  /\ stream \in Seq(Byte) /\ ends \in [0 .. n -> Nat]
                                  /\ ends[0] = 0 /\ ends[n] = s
                                  /\ lines = [i \in 1 .. n |-> lines[i]]
                                  /\ \A k \in 1 .. n : ends[k] = ends[k - 1] + Len(lines[k]) + 1
                                                     /\ Len(lines[k]) \in Nat
  <2>1. Len(lines) \in Nat /\ lines = [i \in 1 .. Len(lines) |-> lines[i]]
        /\ \A k \in 1 .. Len(lines) : lines[k] \in Seq(Byte)
    BY LenProperties
  <2>2. \A k \in 1 .. Len(lines) : Len(lines[k]) \in Nat
    BY <2>1, LenProperties
  <2>3. Len(stream) \in Nat
    BY <1>1, LenProperties DEF WrittenAs
  <2> QED
    BY <1>1, <2>1, <2>2, <2>3 DEF WrittenAs
<1> HIDE DEF stream
<1>2a. PICK r : Turns(r, stream, max)
  BY <1>2, HeardIs
<1>3. /\ r[0] = [lines |-> <<>>, open |-> TRUE, rest |-> stream]
      /\ \A k \in 1 .. s + 1 : r[k] = TakeLine(r[k - 1], max)
      /\ Heard(stream, max) = r[s + 1]
  BY <1>2, <1>2a DEF Turns
\* There are turns for all lines
<1> DEFINE T == {m \in Nat : m <= n => m <= ends[m]}
<1>4. n <= s
  <2>1. 0 \in T
    BY <1>2
  <2>2. ASSUME NEW m \in Nat, m \in T PROVE m + 1 \in T
    <3> SUFFICES ASSUME m + 1 <= n PROVE m + 1 <= ends[m + 1]
      OBVIOUS
    <3>1. m + 1 \in 1 .. n /\ (m + 1) - 1 = m /\ m \in 0 .. n /\ m <= n
      OBVIOUS
    <3>2. ends[m + 1] = ends[m] + Len(lines[m + 1]) + 1 /\ Len(lines[m + 1]) \in Nat
      BY <1>2, <3>1
    <3>3. ends[m] \in Nat /\ m <= ends[m]
      BY <1>2, <2>2, <3>1
    <3> QED
      BY <3>2, <3>3
  <2>3. n \in T
    <3> HIDE DEF T
    <3> QED
      BY <2>1, <2>2, Inductive
  <2> QED
    BY <1>2, <2>3
<1> HIDE DEF T
<1> DEFINE U == {m \in Nat : m <= n => HeardUpTo(r[m], m, stream, lines, ends)}
<1>5. 0 \in U
  <2>1. r[0].lines = [i \in 1 .. 0 |-> lines[i]]
    BY <1>3
  <2>2. r[0].rest = stream /\ r[0].open = TRUE
    BY <1>3
  <2>3. Len(stream) = s - ends[0] /\ \A i \in 1 .. s : ends[0] + i = i
    BY <1>2
  <2> QED
    BY <1>2, <2>1, <2>2, <2>3 DEF HeardUpTo
<1>6. ASSUME NEW m \in Nat, m \in U PROVE m + 1 \in U
  <2> SUFFICES ASSUME m + 1 <= n PROVE HeardUpTo(r[m + 1], m + 1, stream, lines, ends)
    OBVIOUS
  <2> DEFINE k == m + 1
  <2>1. k \in 1 .. n /\ k - 1 = m /\ k \in 1 .. s + 1 /\ m <= n
    BY <1>4
  <2>2. HeardUpTo(r[k - 1], k - 1, stream, lines, ends)
    BY <1>6, <2>1
  <2>3. r[k] = TakeLine(r[k - 1], max)
    BY <1>3, <2>1
  <2>4. k \in 1 .. Len(lines) /\ JsonLine(lines[k], max)
    BY <1>2, <2>1
  <2> HIDE DEF k
  <2>5. HeardUpTo(TakeLine(r[k - 1], max), k, stream, lines, ends)
    BY <1>1, <2>2, <2>4, HeardNext
  <2> QED
    BY <2>3, <2>5 DEF k
<1>7. n \in U
  <2> HIDE DEF U
  <2> QED
    BY <1>5, <1>6, Inductive
<1>8. r[n].lines = lines /\ r[n].open = TRUE /\ r[n].rest = <<>>
  <2>1. HeardUpTo(r[n], n, stream, lines, ends)
    BY <1>7
  <2>2. r[n].rest \in Seq(Byte) /\ Len(r[n].rest) = 0
    BY <1>2, <2>1 DEF HeardUpTo
  <2>3. r[n].rest = <<>>
    BY <2>2
  <2> QED
    BY <1>2, <2>1, <2>3 DEF HeardUpTo
\* Then the stream has ended
<1> DEFINE Over(h) == h.lines = lines /\ h.open = FALSE
           V == {m \in Nat : n + 1 + m <= s + 1 => Over(r[n + 1 + m])}
<1>9. 0 \in V
  <2>1. n + 1 \in 1 .. s + 1 /\ (n + 1) - 1 = n /\ n + 1 + 0 = n + 1
    BY <1>4
  <2>2. r[n + 1] = TakeLine(r[n], max)
    BY <1>3, <2>1
  <2> DEFINE h == r[n]
  <2>3. Read(h.rest, max).what = "eof" /\ h.lines = lines /\ h.open = TRUE
    BY <1>8, ReadAtEnd
  <2> HIDE DEF h
  <2>4. Over(TakeLine(h, max))
    BY <2>3 DEF TakeLine
  <2> QED
    BY <2>1, <2>2, <2>4 DEF h
<1>10. ASSUME NEW m \in Nat, m \in V PROVE m + 1 \in V
  <2> DEFINE k == n + 1 + (m + 1)
  <2> HIDE DEF Over
  <2> SUFFICES ASSUME k <= s + 1 PROVE Over(r[k])
    OBVIOUS
  <2>1. k \in 1 .. s + 1 /\ k - 1 = n + 1 + m /\ n + 1 + m <= s + 1
    OBVIOUS
  <2>2. r[k] = TakeLine(r[k - 1], max)
    BY <1>3, <2>1
  <2>3. Over(r[k - 1])
    BY <1>10, <2>1
  <2> DEFINE h == r[k - 1]
  <2> HIDE DEF h, k
  <2>4. Over(h) => Over(TakeLine(h, max))
    BY DEF TakeLine, Over
  <2> QED
    BY <2>2, <2>3, <2>4 DEF h
<1>11. s - n \in V /\ n + 1 + (s - n) = s + 1
  <2>1. s - n \in Nat /\ n + 1 + (s - n) = s + 1
    BY <1>4
  <2> HIDE DEF V
  <2> QED
    BY <1>9, <1>10, <2>1, Inductive
<1>12. r[s + 1].lines = lines
  BY <1>11
<1> QED
  BY <1>3, <1>12 DEF stream

-----------------------------------------------------------------------------
(* Plans                                                                    *)

PP == INSTANCE RecipePlanProofs WITH Params <- {}, QuitBindings <- {}, MaxSteps <- MaxPlan

\* A step of the recipes that grow here
Snapshot == {[op |-> "snapshot", arg |-> "", confirm |-> FALSE]}
SnapshotStep == PP!StepsOver(Snapshot)
PlanInv == of = "plan" => input \in Seq(SnapshotStep)

\* The planner is the same whether its proofs come with it or not.
LEMMA SamePlanner ==
    ASSUME NEW recipe, NEW set, NEW registry, PP!PromiseKept(recipe, set, registry)
    PROVE  P!PromiseKept(recipe, set, registry)
<1>1. P!Compile(recipe, set, registry) = PP!Compile(recipe, set, registry)
  <2>1. P!Filled(recipe, set) = PP!Filled(recipe, set)
    BY DEF P!Filled, PP!Filled, P!ApplyParams, PP!ApplyParams, P!Substituted, PP!Substituted
  <2>2. ASSUME NEW steps PROVE P!Schedule(steps) = PP!Schedule(steps)
    BY DEF P!Schedule, PP!Schedule, P!Implicit, PP!Implicit, P!LastRound, PP!LastRound,
       P!FirstRound, PP!FirstRound, P!NextRound, PP!NextRound, P!ById, PP!ById, P!Released,
       PP!Released, P!Met, PP!Met, P!Cardinality, PP!Cardinality
  <2>3. ASSUME NEW steps, NEW i
        PROVE  P!PlannedStep(steps, i, registry) = PP!PlannedStep(steps, i, registry)
    BY DEF P!PlannedStep, PP!PlannedStep, P!PlannedNeeds, PP!PlannedNeeds, P!Annotate,
       PP!Annotate, P!Lookup, PP!Lookup, P!IsInvokeSchema, PP!IsInvokeSchema, P!Implicit,
       PP!Implicit, P!ToSet, PP!ToSet
  <2> DEFINE plan(steps, made, planned) ==
               [steps |-> planned,
                waves |-> [w \in DOMAIN made.waves |->
                             [k \in DOMAIN made.waves[w] |-> steps[made.waves[w][k]].id]],
                effects |-> UNION {planned[k].effects : k \in DOMAIN planned},
                requiresYes |-> \E k \in DOMAIN planned : "exit" \in planned[k].effects]
             steps1 == P!Filled(recipe, set).steps  made1 == P!Schedule(steps1)
             planned1 == [k \in DOMAIN made1.order |->
                            P!PlannedStep(steps1, made1.order[k], registry)]
             steps2 == PP!Filled(recipe, set).steps  made2 == PP!Schedule(steps2)
             planned2 == [k \in DOMAIN made2.order |->
                            PP!PlannedStep(steps2, made2.order[k], registry)]
  <2>4. P!Compile(recipe, set, registry) = plan(steps1, made1, planned1)
    BY DEF P!Compile
  <2>5. PP!Compile(recipe, set, registry) = plan(steps2, made2, planned2)
    BY DEF PP!Compile
  <2> HIDE DEF plan
  <2>6. steps1 = steps2
    BY <2>1
  <2> HIDE DEF steps1, steps2
  <2>7. made1 = made2
    BY <2>2, <2>6
  <2> HIDE DEF made1, made2
  <2>8. planned1 = planned2
    BY <2>3, <2>6, <2>7
  <2> HIDE DEF planned1, planned2
  <2> QED
    BY <2>4, <2>5, <2>6, <2>7, <2>8
<1>2. P!Refused(recipe, set, registry) <=> PP!Refused(recipe, set, registry)
  BY DEF P!Refused, PP!Refused, P!Compiles, PP!Compiles, P!ValidRecipe, PP!ValidRecipe,
         P!IdsDistinct, PP!IdsDistinct, P!NeedsKnown, PP!NeedsKnown, P!OpAllowed,
         PP!OpAllowed, P!Placeholders, PP!Placeholders, P!IsInvokeSchema, PP!IsInvokeSchema,
         P!MissingParam, PP!MissingParam, P!HasCycle, PP!HasCycle, P!ToSet, PP!ToSet,
         P!Filled, PP!Filled, P!ApplyParams, PP!ApplyParams, P!Substituted, PP!Substituted,
         P!Schedule, PP!Schedule, P!Implicit, PP!Implicit, P!LastRound, PP!LastRound,
         P!FirstRound, PP!FirstRound, P!NextRound, PP!NextRound, P!ById, PP!ById,
         P!Released, PP!Released, P!Met, PP!Met, P!Cardinality, PP!Cardinality
<1>3. ASSUME NEW p
      PROVE /\ P!Sound(p) <=> PP!Sound(p)
            /\ P!IdsOf(p) = PP!IdsOf(p)
            /\ P!ToSet(recipe.steps) = PP!ToSet(recipe.steps)
  BY DEF P!Sound, PP!Sound, P!IdsOf, PP!IdsOf, P!PlacesIn, PP!PlacesIn, P!IdIn, PP!IdIn,
         P!Earlier, PP!Earlier, P!ToSet, PP!ToSet
<1> QED
  BY <1>1, <1>2, <1>3 DEF P!PromiseKept, PP!PromiseKept

\* Every recipe that is not refused gets a sound plan of its own steps, however many
\* they are, in whatever order they are written and however often one repeats a need.
THEOREM PlansKeepNeeds == AlgorithmsSpec => []PlanKeepsNeeds
<1>1. AlgorithmsInit => PlanInv
  BY EmptySeq DEF AlgorithmsInit, PlanInv
<1>2. PlanInv /\ [AlgorithmsNext]_algorithmVars => PlanInv'
  <2> SUFFICES ASSUME PlanInv, [AlgorithmsNext]_algorithmVars PROVE PlanInv'
    OBVIOUS
  <2>1. CASE UNCHANGED algorithmVars
    BY <2>1 DEF PlanInv, algorithmVars
  <2>2. CASE GrowPlan
    <3> DEFINE ids == (1 .. MaxPlan) \ {input[i].id : i \in DOMAIN input}
               needs == BoundedSeq(1 .. MaxPlan, 2)
    <3>1. /\ of = "plan" /\ UNCHANGED <<of, on>>
          /\ \E p \in [id : ids, needs : needs, op : Snapshot, shot : {FALSE}] :
                input' = Append(input, p)
      BY <2>2 DEF GrowPlan, Grow, Snapshot
    <3>2. ids \subseteq Nat /\ needs \subseteq Seq(Nat)
      <4>1. 1 .. MaxPlan \subseteq Nat
        BY AlgorithmsAssumption
      <4>2. \A m \in 0 .. 2 : m \in Nat /\ [1 .. m -> 1 .. MaxPlan] \subseteq Seq(Nat)
        BY <4>1
      <4> QED
        BY <4>1, <4>2 DEF BoundedSeq, SeqOf
    <3> HIDE DEF ids, needs
    <3>3. [id : ids, needs : needs, op : Snapshot, shot : {FALSE}] \subseteq SnapshotStep
      BY <3>2 DEF SnapshotStep, PP!StepsOver
    <3>4. input \in Seq(SnapshotStep)
      BY <3>1 DEF PlanInv
    <3>5. PICK p \in SnapshotStep : input' = Append(input, p)
      BY <3>1, <3>3
    <3>6. input' \in Seq(SnapshotStep)
      BY <3>4, <3>5, AppendProperties
    <3> QED
      BY <3>6 DEF PlanInv
  <2>3. CASE AlgorithmsNext /\ ~GrowPlan
    <3>1. of' # "plan"
      BY <2>3 DEF AlgorithmsNext, GrowGoal, GrowClauses, GrowJev, GrowLine, GrowText, GrowStep,
                  GrowIntent, GrowStream, Grow
    <3> QED
      BY <3>1 DEF PlanInv
  <2> QED
    BY <2>1, <2>2, <2>3
<1>3. PlanInv => PlanKeepsNeeds
  <2> SUFFICES ASSUME PlanInv, of = "plan"
               PROVE P!PromiseKept([params |-> {}, steps |-> input], <<>>, <<>>)
    BY DEF PlanKeepsNeeds
  <2> DEFINE recipe == [params |-> {}, steps |-> input]
  <2>1. recipe \in PP!RecipesOver(Snapshot)
    BY DEF PP!RecipesOver, PlanInv, SnapshotStep
  <2> HIDE DEF recipe
  <2>2. PP!PromiseKept(recipe, <<>>, <<>>)
    BY <2>1, AlgorithmsAssumption, PP!PlanKeepsPromise
  <2>3. P!PromiseKept(recipe, <<>>, <<>>)
    BY <2>2, SamePlanner
  <2> QED
    BY <2>3 DEF recipe
<1> QED
  BY <1>1, <1>2, <1>3, PTL DEF AlgorithmsSpec

-----------------------------------------------------------------------------
(* Lines of a recipe                                                        *)

Reading(quote, buf, out) ==
    [quote |-> quote, escaped |-> FALSE, buf |-> buf, out |-> out]

\* What the tokenizer does in a quoted word, symbol by symbol
LEMMA QuoteOpens ==
    ASSUME NEW q \in Quotes, NEW out, NEW edge
    PROVE  TokenStep(Reading(Space, <<>>, out), q, edge) = Reading(q, <<>>, out)
BY DEF TokenStep, Bare, Reading, Space

LEMMA SymbolTaken ==
    ASSUME NEW q \in Quotes, NEW buf, NEW out, NEW c, c \notin {q, Backslash}, NEW edge
    PROVE  TokenStep(Reading(q, buf, out), c, edge)
             = Reading(q, Append(buf, c), out)
BY DEF TokenStep, Quoted, Put, Reading, Space, Quotes

LEMMA SymbolEscaped ==
    ASSUME NEW q \in Quotes, NEW buf, NEW out, NEW c, NEW edge1, NEW edge2
    PROVE  TokenStep(TokenStep(Reading(q, buf, out), Backslash, edge1), c, edge2)
             = Reading(q, Append(buf, c), out)
BY DEF TokenStep, Quoted, Put, Reading, Space, Quotes, Backslash

LEMMA QuoteCloses ==
    ASSUME NEW q \in Quotes, NEW buf, NEW out
    PROVE  TokenStep(Reading(q, buf, out), q, TRUE)
             = Reading(Space, <<>>, Append(out, buf))
BY DEF TokenStep, Quoted, Closed, Push, Reading, Space, Quotes

LEMMA SpaceSkipped ==
    ASSUME NEW out, NEW edge
    PROVE  TokenStep(Reading(Space, <<>>, out), Space, edge)
             = Reading(Space, <<>>, out)
BY DEF TokenStep, Bare, Reading, Space, Quotes

\* The tokenizer's function is there: what it has read after each symbol.
EdgeAt(line, i) == i = Len(line) \/ line[i + 1] = Space
Reads(r, line) ==
    /\ r[0] = Fresh
    /\ \A i \in 1 .. Len(line) : r[i] = TokenStep(r[i - 1], line[i], EdgeAt(line, i))
    /\ Tokenized(line) = LET st == r[Len(line)]
                         IN IF st.quote # Space THEN Unterminated
                            ELSE IF st.buf = <<>> THEN st.out ELSE Push(st).out

LEMMA ReadsIs == ASSUME NEW S, NEW line \in Seq(S) PROVE \E r : Reads(r, line)
<1> DEFINE turn(f, i) == IF i = 0 THEN Fresh ELSE TokenStep(f[i - 1], line[i], EdgeAt(line, i))
           T == {m \in Nat : \E f : f = [i \in 0 .. m |-> turn(f, i)]}
<1>1. PICK n \in Nat : n = Len(line)
  BY LenProperties
<1>2. 0 \in T
  <2> DEFINE f == [i \in 0 .. 0 |-> Fresh]
  <2>1. f = [i \in 0 .. 0 |-> turn(f, i)]
    OBVIOUS
  <2> QED
    BY <2>1
<1>3. ASSUME NEW m \in Nat, m \in T PROVE m + 1 \in T
  <2>1. PICK f : f = [i \in 0 .. m |-> turn(f, i)]
    BY <1>3
  <2> DEFINE k == m + 1
             v == TokenStep(f[m], line[k], EdgeAt(line, k))
             g == [i \in 0 .. m + 1 |-> IF i = m + 1 THEN v ELSE f[i]]
  <2> HIDE DEF v
  <2>2. g[m + 1] = v /\ \A i \in 0 .. m : g[i] = f[i]
    OBVIOUS
  <2> HIDE DEF turn
  <2>3. \A i \in 0 .. m : f[i] = turn(f, i)
    BY <2>1
  <2> HIDE DEF g
  <2> USE DEF turn
  <2>4. ASSUME NEW i \in 0 .. m + 1 PROVE g[i] = turn(g, i)
    <3>1. CASE i = m + 1
      <4>1. i # 0 /\ i - 1 = m /\ m \in 0 .. m
        BY <3>1
      <4> QED
        BY <2>2, <3>1, <4>1 DEF v
    <3>2. CASE i = 0
      BY <2>2, <2>3, <3>2
    <3>3. CASE i # m + 1 /\ i # 0
      <4>1. i \in 0 .. m /\ i - 1 \in 0 .. m
        BY <3>3
      <4>2. g[i] = f[i] /\ g[i - 1] = f[i - 1]
        BY <2>2, <4>1
      <4> QED
        BY <2>3, <3>3, <4>1, <4>2
    <3> QED
      BY <3>1, <3>2, <3>3
  <2>5. g = [i \in 0 .. m + 1 |-> turn(g, i)]
    BY <2>4 DEF g
  <2> HIDE DEF turn
  <2>6. \E h : h = [i \in 0 .. m + 1 |-> turn(h, i)]
    BY <2>5
  <2>7. m + 1 \in Nat
    OBVIOUS
  <2> QED
    BY <2>6, <2>7, Zenon
<1>4. n \in T
  <2> HIDE DEF T
  <2> QED
    BY <1>2, <1>3, Inductive
<1> DEFINE r == CHOOSE f : f = [i \in 0 .. n |-> turn(f, i)]
<1>5. r = [i \in 0 .. n |-> turn(r, i)]
  BY <1>4
<1>6. Tokenized(line) = LET st == r[n]
                        IN IF st.quote # Space THEN Unterminated
                           ELSE IF st.buf = <<>> THEN st.out ELSE Push(st).out
  BY <1>1 DEF Tokenized, EdgeAt
<1> HIDE DEF r
<1>7. \A i \in 0 .. n : r[i] = turn(r, i)
  <2> HIDE DEF turn
  <2> QED
    BY <1>5
<1>8. r[0] = Fresh /\ \A i \in 1 .. n : r[i] = TokenStep(r[i - 1], line[i], EdgeAt(line, i))
  <2>1. 0 \in 0 .. n /\ \A i \in 1 .. n : i \in 0 .. n /\ i # 0
    OBVIOUS
  <2> QED
    BY <1>7, <2>1
<1> QED
  BY <1>1, <1>6, <1>8 DEF Reads

\* The symbols that mean something to the tokenizer are among those a line is made of.
Syntax == Quotes \union {Backslash, Space}
Knows(S) == Syntax \subseteq S

\* A line has a text behind its p-th symbol.
StandsAt(line, p, text) ==
    /\ p + Len(text) <= Len(line)
    /\ \A j \in 1 .. Len(text) : line[p + j] = text[j]

EscapePieces(q, word) ==
    [i \in DOMAIN word |-> IF word[i] \in {q, Backslash} THEN <<Backslash, word[i]>>
                           ELSE <<word[i]>>]

\* A word as it stands on a line, with the space behind it
Said(q, word) == InQuotes(q, word) \o <<Space>>

\* A word in quotes, symbol by symbol
LEMMA InQuotesIs ==
    ASSUME NEW S, Knows(S), NEW q \in Quotes, NEW word \in Seq(S)
    PROVE  /\ EscapePieces(q, word) \in Seq(Seq(S)) /\ Len(EscapePieces(q, word)) = Len(word)
           /\ Escape(q, word) = FlattenSeq(EscapePieces(q, word))
           /\ Escape(q, word) \in Seq(S)
           /\ Said(q, word) \in Seq(S) /\ Len(Said(q, word)) = Len(Escape(q, word)) + 3
           /\ Said(q, word)[1] = q /\ Said(q, word)[Len(Escape(q, word)) + 2] = q
           /\ Said(q, word)[Len(Escape(q, word)) + 3] = Space
           /\ \A j \in 1 .. Len(Escape(q, word)) : Said(q, word)[j + 1] = Escape(q, word)[j]
<1> DEFINE pieces == EscapePieces(q, word)  esc == Escape(q, word)  m == Len(esc)
<1>1. PICK n \in Nat : n = Len(word) /\ DOMAIN word = 1 .. n /\ \A i \in 1 .. n : word[i] \in S
  BY LenProperties
<1>2. pieces \in Seq(Seq(S)) /\ Len(pieces) = n
  <2>1. ASSUME NEW c \in S PROVE <<Backslash, c>> \in Seq(S) /\ <<c>> \in Seq(S)
    <3>1. Backslash \in S
      BY DEF Knows, Syntax
    <3> HIDE DEF Backslash
    <3> QED
      BY <3>1
  <2>2. pieces \in [1 .. n -> Seq(S)]
    BY <1>1, <2>1 DEF EscapePieces
  <2> HIDE DEF pieces
  <2> QED
    BY <2>2
<1>3. esc = FlattenSeq(pieces)
  BY DEF Escape, EscapePieces
<1>4. esc \in Seq(S)
  <2> HIDE DEF pieces, esc
  <2> QED
    BY <1>2, <1>3, FlattenPlaces
<1>5. InQuotes(q, word) = (<<q>> \o esc) \o <<q>>
  BY DEF InQuotes
<1> HIDE DEF pieces, esc
<1> DEFINE a == <<q>>  b == a \o esc  c == b \o a  z == <<Space>>  text == c \o z
<1>6. a \in Seq(S) /\ Len(a) = 1 /\ a[1] = q /\ z \in Seq(S) /\ Len(z) = 1 /\ z[1] = Space
  <2>1. q \in S /\ Space \in S
    BY DEF Knows, Syntax
  <2> HIDE DEF Space
  <2> QED
    BY <2>1
<1>7. m \in Nat
  BY <1>4, LenProperties
<1> HIDE DEF a, z
<1>7a. a \in Seq(S) /\ esc \in Seq(S)
  BY <1>4, <1>6
<1>8. /\ b \in Seq(S) /\ Len(b) = Len(a) + Len(esc)
      /\ \A i \in 1 .. Len(a) + Len(esc) : b[i] = IF i <= Len(a) THEN a[i] ELSE esc[i - Len(a)]
  BY <1>7a, ConcatProperties, Zenon
<1> HIDE DEF b
<1>8a. b \in Seq(S) /\ a \in Seq(S)
  BY <1>7a, <1>8
<1>9. /\ c \in Seq(S) /\ Len(c) = Len(b) + Len(a)
      /\ \A i \in 1 .. Len(b) + Len(a) : c[i] = IF i <= Len(b) THEN b[i] ELSE a[i - Len(b)]
  BY <1>8a, ConcatProperties, Zenon
<1> HIDE DEF c
<1>9a. c \in Seq(S) /\ z \in Seq(S)
  BY <1>6, <1>9
<1>10. /\ text \in Seq(S) /\ Len(text) = Len(c) + Len(z)
       /\ \A i \in 1 .. Len(c) + Len(z) : text[i] = IF i <= Len(c) THEN c[i] ELSE z[i - Len(c)]
  BY <1>9a, ConcatProperties, Zenon
<1> HIDE DEF text, m
<1>11. Len(b) = m + 1 /\ b[1] = q /\ \A j \in 1 .. m : b[j + 1] = esc[j]
  BY <1>6, <1>7, <1>8 DEF m
<1>12. Len(c) = m + 2 /\ c[m + 2] = q /\ \A j \in 1 .. m + 1 : c[j] = b[j]
  BY <1>6, <1>7, <1>9, <1>11
<1>13. Len(text) = m + 3 /\ text[m + 3] = Space /\ \A j \in 1 .. m + 2 : text[j] = c[j]
  BY <1>6, <1>7, <1>10, <1>12
<1>14. text[1] = q /\ text[m + 2] = q /\ \A j \in 1 .. m : text[j + 1] = esc[j]
  BY <1>7, <1>11, <1>12, <1>13
<1>15. text = Said(q, word)
  BY <1>5 DEF Said, text, c, b, a, z
<1>16. /\ Said(q, word) \in Seq(S) /\ Len(Said(q, word)) = m + 3
       /\ Said(q, word)[1] = q /\ Said(q, word)[m + 2] = q /\ Said(q, word)[m + 3] = Space
       /\ \A j \in 1 .. m : Said(q, word)[j + 1] = esc[j]
  BY <1>10, <1>13, <1>14, <1>15
<1> QED
  BY <1>1, <1>2, <1>3, <1>4, <1>16, Zenon DEF m, pieces, esc

\* A word in quotes is read as it is, whatever is in it.
LEMMA WordRead ==
    ASSUME NEW S, Knows(S), NEW line \in Seq(S), NEW r, Reads(r, line),
           NEW q \in Quotes, NEW word \in Seq(S), NEW p \in Nat,
           StandsAt(line, p, Said(q, word)),
           NEW out, r[p] = Reading(Space, <<>>, out)
    PROVE  r[p + Len(Said(q, word))]
             = Reading(Space, <<>>, Append(out, word))
<1> DEFINE text == Said(q, word)  esc == Escape(q, word)  m == Len(esc)
           pieces == EscapePieces(q, word)  s == Len(line)
           taken(k) == [i \in 1 .. k |-> word[i]]
<1>1. PICK n \in Nat : n = Len(word) /\ DOMAIN word = 1 .. n /\ word = taken(n)
  BY LenProperties
<1>2. /\ pieces \in Seq(Seq(S)) /\ Len(pieces) = n /\ esc = FlattenSeq(pieces) /\ esc \in Seq(S)
      /\ text \in Seq(S) /\ Len(text) = m + 3
      /\ text[1] = q /\ text[m + 2] = q /\ text[m + 3] = Space
      /\ \A j \in 1 .. m : text[j + 1] = esc[j]
  <2>1. /\ pieces \in Seq(Seq(S)) /\ Len(pieces) = Len(word)
        /\ esc = FlattenSeq(pieces) /\ esc \in Seq(S)
    BY InQuotesIs
  <2>2. text \in Seq(S) /\ Len(text) = m + 3
    BY InQuotesIs
  <2>3. text[1] = q /\ text[m + 2] = q /\ text[m + 3] = Space
    BY InQuotesIs
  <2>4. \A j \in 1 .. m : text[j + 1] = esc[j]
    BY InQuotesIs
  <2> QED
    BY <1>1, <2>1, <2>2, <2>3, <2>4
<1>3. p + Len(text) <= s /\ \A j \in 1 .. Len(text) : line[p + j] = text[j]
  BY DEF StandsAt
<1>4. \A k \in 1 .. n : pieces[k] = IF word[k] \in {q, Backslash} THEN <<Backslash, word[k]>>
                                    ELSE <<word[k]>>
  BY <1>1 DEF EscapePieces
<1> HIDE DEF pieces, esc, text
<1>5. PICK e : Places(esc, pieces, e)
  BY <1>2, FlattenPlaces
<1>6. m \in Nat /\ s \in Nat
  BY <1>2, LenProperties
<1>7. /\ e \in [0 .. n -> Nat] /\ e[0] = 0 /\ e[n] = m
      /\ \A k \in 1 .. n :
            /\ e[k] = e[k - 1] + Len(pieces[k]) /\ e[k] <= m
            /\ \A j \in 1 .. Len(pieces[k]) : esc[e[k - 1] + j] = pieces[k][j]
  BY <1>2, <1>5 DEF Places
<1>8. /\ \A i \in 1 .. s : r[i] = TokenStep(r[i - 1], line[i], EdgeAt(line, i))
  BY DEF Reads
<1> HIDE DEF m, s
<1>9. p + m + 3 <= s /\ \A j \in 1 .. m + 3 : line[p + j] = text[j] /\ p + j \in 1 .. s
  <2>1. p + m + 3 <= s
    BY <1>2, <1>3, <1>6
  <2>2. ASSUME NEW j \in 1 .. m + 3 PROVE line[p + j] = text[j] /\ p + j \in 1 .. s
    <3>1. line[p + j] = text[j]
      BY <1>2, <1>3
    <3>2. p + j \in 1 .. s
      BY <2>1, <1>6
    <3> QED
      BY <3>1, <3>2
  <2> QED
    BY <2>1, <2>2
\* The quote
<1>10. r[p + 1] = Reading(q, <<>>, out)
  <2>1. 1 \in 1 .. m + 3 /\ (p + 1) - 1 = p /\ p + 1 \in 1 .. s
    BY <1>6, <1>9
  <2>2. line[p + 1] = q
    BY <1>2, <1>9, <2>1
  <2> DEFINE i == p + 1
  <2>3. r[i] = TokenStep(r[i - 1], line[i], EdgeAt(line, i))
    BY <1>8, <2>1
  <2> QED
    BY <2>1, <2>2, <2>3, QuoteOpens
\* The word
<1> DEFINE At(k) == r[p + 1 + e[k]] = Reading(q, taken(k), out)
           T == {k \in Nat : k <= n => At(k)}
<1>11. 0 \in T
  <2>1. taken(0) = <<>> /\ p + 1 + e[0] = p + 1
    BY <1>7
  <2> QED
    BY <1>10, <2>1
<1>12. ASSUME NEW k0 \in Nat, k0 \in T PROVE k0 + 1 \in T
  <2> HIDE DEF At
  <2>0. PICK k \in Nat : k = k0 + 1
    OBVIOUS
  <2> SUFFICES ASSUME k <= n PROVE At(k)
    BY <2>0
  <2> USE DEF At
  <2> DEFINE a == e[k - 1]  i == p + 1 + a + 1  c == word[k]
  <2>1. k \in 1 .. n /\ k - 1 = k0 /\ k0 <= n /\ k0 \in 0 .. n
    BY <2>0
  <2>2. r[p + 1 + a] = Reading(q, taken(k0), out)
    BY <1>12, <2>1
  <2>3. Append(taken(k0), c) = taken(k)
    BY <2>0
  <2>4. a \in Nat /\ e[k] = a + Len(pieces[k]) /\ e[k] <= m
    BY <1>7, <2>1
  <2>5. \A j \in 1 .. Len(pieces[k]) : esc[a + j] = pieces[k][j]
    BY <1>7, <2>1
  <2>6. \A j \in 1 .. m : line[p + (j + 1)] = esc[j] /\ p + (j + 1) \in 1 .. s
    <3>1. \A j \in 1 .. m : j + 1 \in 1 .. m + 3
      BY <1>6
    <3> QED
      BY <1>2, <1>9, <3>1
  <2> HIDE DEF a
  <2>6a. i \in Nat /\ i - 1 = p + 1 + a /\ (i + 1) - 1 = i
    BY <2>4
  <2> DEFINE was == taken(k0)
  <2> HIDE DEF taken, was
  <2>7. CASE c \notin {q, Backslash}
    <3>1. pieces[k] = <<c>>
      BY <1>4, <2>1, <2>7
    <3>2. Len(pieces[k]) = 1 /\ pieces[k][1] = c
      BY <3>1
    <3>3. e[k] = a + 1 /\ a + 1 \in 1 .. m /\ esc[a + 1] = c
      BY <1>6, <2>4, <2>5, <3>2
    <3>4. line[i] = c /\ i \in 1 .. s /\ i - 1 = p + 1 + a /\ p + 1 + e[k] = i
      <4>1. p + ((a + 1) + 1) = i
        BY <2>4
      <4>2. line[i] = c /\ i \in 1 .. s
        BY <2>6, <3>3, <4>1
      <4>3. p + 1 + e[k] = p + 1 + (a + 1)
        BY <3>3, Zenon
      <4>4. p + 1 + (a + 1) = i
        BY <2>4
      <4> QED
        BY <2>6a, <4>2, <4>3, <4>4
    <3> HIDE DEF i, c
    <3>5. r[i] = TokenStep(r[i - 1], line[i], EdgeAt(line, i))
      BY <1>8, <3>4
    <3> DEFINE edge == EdgeAt(line, i)
    <3> HIDE DEF edge
    <3>6. TokenStep(Reading(q, was, out), c, edge)
            = Reading(q, Append(was, c), out)
      BY <2>7, SymbolTaken
    <3>7. r[i] = Reading(q, Append(was, c), out)
      BY <2>2, <3>4, <3>5, <3>6 DEF edge, was
    <3> QED
      BY <2>3, <3>4, <3>7 DEF c, was
  <2>8. CASE c \in {q, Backslash}
    <3>1. pieces[k] = <<Backslash, c>>
      BY <1>4, <2>1, <2>8
    <3>2. Len(pieces[k]) = 2 /\ pieces[k][1] = Backslash /\ pieces[k][2] = c
      BY <3>1
    <3>3. /\ e[k] = a + 2 /\ a + 1 \in 1 .. m /\ a + 2 \in 1 .. m
          /\ esc[a + 1] = Backslash /\ esc[a + 2] = c
      BY <1>6, <2>4, <2>5, <3>2
    <3>4. /\ line[i] = Backslash /\ i \in 1 .. s /\ i - 1 = p + 1 + a
          /\ line[i + 1] = c /\ i + 1 \in 1 .. s /\ (i + 1) - 1 = i /\ p + 1 + e[k] = i + 1
      <4>1. p + ((a + 1) + 1) = i /\ p + ((a + 2) + 1) = i + 1
        BY <2>4
      <4>2. line[i] = Backslash /\ i \in 1 .. s
        BY <2>6, <3>3, <4>1
      <4>3. line[i + 1] = c /\ i + 1 \in 1 .. s
        BY <2>6, <3>3, <4>1
      <4>4. p + 1 + e[k] = i + 1
        BY <2>4, <3>3
      <4> QED
        BY <2>6a, <4>2, <4>3, <4>4
    <3> HIDE DEF i, c
    <3>5. r[i] = TokenStep(r[i - 1], line[i], EdgeAt(line, i))
      BY <1>8, <3>4
    <3> DEFINE l == i + 1
    <3>6. r[l] = TokenStep(r[l - 1], line[l], EdgeAt(line, l))
      BY <1>8, <3>4
    <3> DEFINE edge1 == EdgeAt(line, i)  edge2 == EdgeAt(line, l)
    <3> HIDE DEF edge1, edge2
    <3>7. TokenStep(TokenStep(Reading(q, was, out), Backslash, edge1), c, edge2)
            = Reading(q, Append(was, c), out)
      BY SymbolEscaped
    <3>8. r[l] = Reading(q, Append(was, c), out)
      BY <2>2, <3>4, <3>5, <3>6, <3>7 DEF edge1, edge2, was
    <3> QED
      BY <2>3, <3>4, <3>8 DEF c, was
  <2> QED
    BY <2>7, <2>8
<1>13. r[p + 1 + m] = Reading(q, word, out)
  <2>1. n \in T
    <3> HIDE DEF T
    <3> QED
      BY <1>11, <1>12, Inductive
  <2>2. At(n)
    BY <2>1
  <2> HIDE DEF taken
  <2> QED
    BY <1>1, <1>7, <2>2
\* The other quote, and the space
<1> DEFINE i == p + m + 2  j == p + m + 3
<1>14. /\ i \in 1 .. s /\ j \in 1 .. s /\ i - 1 = p + 1 + m /\ j - 1 = i
       /\ line[i] = q /\ line[j] = Space /\ i + 1 = j
  <2>1. m + 2 \in 1 .. m + 3 /\ m + 3 \in 1 .. m + 3 /\ p + (m + 2) = i /\ p + (m + 3) = j
    BY <1>6
  <2>2. line[i] = q /\ i \in 1 .. s /\ line[j] = Space /\ j \in 1 .. s
    BY <1>2, <1>9, <2>1
  <2> QED
    BY <1>6, <2>2
<1> HIDE DEF i, j
<1>15. r[i] = TokenStep(r[i - 1], line[i], EdgeAt(line, i))
  BY <1>8, <1>14
<1>16. r[j] = TokenStep(r[j - 1], line[j], EdgeAt(line, j))
  BY <1>8, <1>14
<1>17. EdgeAt(line, i) = TRUE
  BY <1>14 DEF EdgeAt
<1>18. r[i] = Reading(Space, <<>>, Append(out, word))
  <2>1. TokenStep(Reading(q, word, out), q, TRUE) = Reading(Space, <<>>, Append(out, word))
    BY QuoteCloses
  <2>2. r[i - 1] = Reading(q, word, out)
    BY <1>13, <1>14
  <2> QED
    BY <1>14, <1>15, <1>17, <2>1, <2>2
<1>19. r[j] = Reading(Space, <<>>, Append(out, word))
  BY <1>14, <1>16, <1>18, SpaceSkipped
<1>20. p + Len(text) = j
  BY <1>2, <1>6 DEF j
<1> QED
  BY <1>19, <1>20 DEF text

\* Any words can be written on a line of a recipe, in either kind of quotes, and are
\* read back: as many, as they were, the empty ones too (tokenize).
THEOREM QuotedWordsReadBack ==
    ASSUME NEW S, Knows(S), NEW q \in Quotes, NEW words \in Seq(Seq(S))
    PROVE  Tokenized(FlattenSeq([k \in DOMAIN words |-> InQuotes(q, words[k]) \o <<Space>>]))
             = words
<1> DEFINE texts == [k \in DOMAIN words |-> Said(q, words[k])]
           l == FlattenSeq(texts)
           upTo(k) == [i \in 1 .. k |-> words[i]]
<1>1. PICK n \in Nat : /\ n = Len(words) /\ DOMAIN words = 1 .. n /\ words = upTo(n)
                       /\ \A k \in 1 .. n : words[k] \in Seq(S)
  BY LenProperties
<1>2. /\ texts \in Seq(Seq(S)) /\ Len(texts) = n
      /\ \A k \in 1 .. n : texts[k] = Said(q, words[k])
  <2>1. \A k \in 1 .. n : texts[k] = Said(q, words[k])
    BY <1>1
  <2>2. ASSUME NEW k \in 1 .. n PROVE texts[k] \in Seq(S)
    <3> DEFINE w == words[k]
    <3>1. w \in Seq(S)
      BY <1>1
    <3> HIDE DEF w
    <3>2. Said(q, w) \in Seq(S)
      BY <3>1, InQuotesIs
    <3> QED
      BY <2>1, <3>2 DEF w
  <2>3. texts = [k \in 1 .. n |-> texts[k]]
    BY <1>1
  <2> HIDE DEF texts
  <2>4. texts \in [1 .. n -> Seq(S)]
    BY <2>2, <2>3
  <2> QED
    BY <2>1, <2>4
<1> HIDE DEF texts
<1>3. l \in Seq(S)
  BY <1>2, FlattenPlaces
<1>4. PICK e : Places(l, texts, e)
  BY <1>2, FlattenPlaces
<1> HIDE DEF l
<1>5. PICK r : Reads(r, l)
  BY <1>3, ReadsIs
<1> DEFINE At(k) == r[e[k]] = Reading(Space, <<>>, upTo(k))
           T == {k \in Nat : k <= n => At(k)}
<1>6. 0 \in T
  <2>1. upTo(0) = <<>> /\ e[0] = 0 /\ r[0] = Fresh
    BY <1>4, <1>5 DEF Places, Reads
  <2> QED
    BY <2>1 DEF Fresh, Reading
<1>7. ASSUME NEW k0 \in Nat, k0 \in T PROVE k0 + 1 \in T
  <2> HIDE DEF At
  <2>0. PICK k \in Nat : k = k0 + 1
    OBVIOUS
  <2> SUFFICES ASSUME k <= n PROVE At(k)
    BY <2>0
  <2> USE DEF At
  <2> DEFINE at == e[k - 1]  w == words[k]
  <2>1. k \in 1 .. n /\ k - 1 = k0 /\ k0 <= n /\ k0 \in 0 .. n
    BY <2>0
  <2>2. r[at] = Reading(Space, <<>>, upTo(k0))
    BY <1>7, <2>1
  <2>3. Append(upTo(k0), w) = upTo(k)
    BY <2>0
  <2> HIDE DEF upTo
  <2>4. /\ at \in Nat /\ e[k] = at + Len(texts[k]) /\ e[k] <= Len(l)
        /\ \A j \in 1 .. Len(texts[k]) : l[at + j] = texts[k][j]
    BY <1>2, <1>4, <2>1 DEF Places
  <2>5. texts[k] = Said(q, w) /\ w \in Seq(S)
    BY <1>1, <1>2, <2>1
  <2> HIDE DEF at, w
  <2>6. StandsAt(l, at, Said(q, w))
    BY <2>4, <2>5 DEF StandsAt
  <2>7. r[at + Len(Said(q, w))]
          = Reading(Space, <<>>, Append(upTo(k0), w))
    <3>1. at \in Nat /\ w \in Seq(S)
      BY <2>4, <2>5
    <3> QED
      BY <1>3, <1>5, <2>2, <3>1, <2>6, WordRead
  <2> QED
    BY <2>3, <2>4, <2>5, <2>7
<1>8. At(n)
  <2>1. n \in T
    <3> HIDE DEF T
    <3> QED
      BY <1>6, <1>7, Inductive
  <2> QED
    BY <2>1
<1> HIDE DEF upTo
<1>9. r[Len(l)] = Reading(Space, <<>>, words)
  BY <1>1, <1>2, <1>4, <1>8 DEF Places
<1>10. Tokenized(l) = words
  BY <1>5, <1>9 DEF Reads, Reading
<1> QED
  BY <1>10 DEF l, texts, Said

\* The words of a line are words of symbols.
QuotingInv == of = "quoting" => input \in Seq(Seq(Symbols))

\* Whatever words a line of a recipe is to have, quoted they are read back as they were.
THEOREM QuotedWordsRead == AlgorithmsSpec => []QuotingIsExact
<1>1. AlgorithmsInit => QuotingInv
  BY EmptySeq DEF AlgorithmsInit, QuotingInv
<1>2. QuotingInv /\ [AlgorithmsNext]_algorithmVars => QuotingInv'
  <2> SUFFICES ASSUME QuotingInv, [AlgorithmsNext]_algorithmVars PROVE QuotingInv'
    OBVIOUS
  <2>1. CASE UNCHANGED algorithmVars
    BY <2>1 DEF QuotingInv, algorithmVars
  <2>2. CASE GrowLine
    <3> DEFINE short == BoundedSeq(Symbols, 2)
    <3>1. of = "quoting" /\ UNCHANGED <<of, on>> /\ \E p \in short : input' = Append(input, p)
      BY <2>2 DEF GrowLine, Grow
    <3>2. short \subseteq Seq(Symbols)
      <4> HIDE DEF Symbols
      <4>1. \A m \in 0 .. 2 : m \in Nat /\ [1 .. m -> Symbols] \subseteq Seq(Symbols)
        OBVIOUS
      <4> QED
        BY <4>1 DEF BoundedSeq, SeqOf
    <3> HIDE DEF short
    <3>3. input \in Seq(Seq(Symbols))
      BY <3>1 DEF QuotingInv
    <3>4. PICK p \in Seq(Symbols) : input' = Append(input, p)
      BY <3>1, <3>2
    <3>5. input' \in Seq(Seq(Symbols))
      BY <3>3, <3>4, AppendProperties
    <3> QED
      BY <3>5 DEF QuotingInv
  <2>3. CASE AlgorithmsNext /\ ~GrowLine
    <3>1. of' # "quoting"
      BY <2>3 DEF AlgorithmsNext, GrowGoal, GrowClauses, GrowJev, GrowPlan, GrowText, GrowStep,
                  GrowIntent, GrowStream, Grow
    <3> QED
      BY <3>1 DEF QuotingInv
  <2> QED
    BY <2>1, <2>2, <2>3
<1>3. QuotingInv => QuotingIsExact
  <2> SUFFICES ASSUME QuotingInv, of = "quoting", NEW q \in Quotes
               PROVE Tokenized(FlattenSeq([i \in DOMAIN input |->
                                              InQuotes(q, input[i]) \o <<Space>>])) = input
    BY DEF QuotingIsExact
  <2>1. input \in Seq(Seq(Symbols))
    BY DEF QuotingInv
  <2>2. Knows(Symbols)
    BY DEF Knows, Syntax, Symbols, Quotes, Backslash, Space
  <2> QED
    BY <2>1, <2>2, QuotedWordsReadBack
<1> QED
  BY <1>1, <1>2, <1>3, PTL DEF AlgorithmsSpec

-----------------------------------------------------------------------------
(* Placeholders of a recipe's texts                                         *)

LEMMA Least == ASSUME NEW S \in SUBSET Nat, S # {} PROVE \E x \in S : \A y \in S : x <= y
<1> DEFINE T == {m \in Nat : \A x \in S : m < x}
<1> SUFFICES ASSUME \A x \in S : \E y \in S : ~(x <= y) PROVE FALSE
  OBVIOUS
<1>1. ASSUME NEW m \in S, \A x \in S : m <= x PROVE FALSE
  BY <1>1
<1>2. 0 \in T
  <2>1. 0 \notin S
    BY <1>1
  <2> QED
    BY <2>1
<1>3. ASSUME NEW m \in Nat, m \in T PROVE m + 1 \in T
  <2>1. \A x \in S : m + 1 <= x
    BY <1>3
  <2>2. m + 1 \notin S
    BY <1>1, <2>1
  <2>3. \A x \in S : m + 1 < x
    BY <2>1, <2>2
  <2> QED
    BY <2>3
<1>4. PICK x \in S : TRUE
  OBVIOUS
<1>5. x \in T
  <2> HIDE DEF T
  <2> QED
    BY <1>2, <1>3, Inductive
<1> QED
  BY <1>5

LEMMA MinIs == ASSUME NEW S \in SUBSET Nat, S # {} PROVE Min(S) \in S /\ \A y \in S : Min(S) <= y
BY Least DEF Min

LEMMA MaxIs ==
    ASSUME NEW b \in Nat, NEW S \in SUBSET (0 .. b), S # {}
    PROVE  Max(S) \in S /\ \A y \in S : y <= Max(S)
<1> DEFINE R == {b - x : x \in S}
<1>1. R \in SUBSET Nat /\ R # {}
  <2>1. \A x \in S : b - x \in Nat
    OBVIOUS
  <2> QED
    BY <2>1
<1>2. PICK z \in R : \A y \in R : z <= y
  <2> HIDE DEF R
  <2> QED
    BY <1>1, Least
<1>3. PICK x \in S : z = b - x
  BY <1>2
<1>4. ASSUME NEW y \in S PROVE y <= x
  <2>1. z <= b - y
    BY <1>2
  <2> QED
    BY <1>3, <2>1
<1> QED
  BY <1>4 DEF Max

\* A placeholder ends behind where it starts, and no other starts inside it.
LEMMA NoneInside ==
    ASSUME NEW S, NEW text \in Seq(S), NEW i \in 1 .. Len(text),
           PlaceholderAt(text, i) # NoPlaceholder
    PROVE  /\ PlaceholderAt(text, i).next \in i + 1 .. Len(text) + 1
           /\ \A k \in i + 1 .. PlaceholderAt(text, i).next - 1 : text[k] # Dollar
<1> DEFINE n == Len(text)
           named == Letters \union Digits
           braced == i < n /\ text[i + 1] = "{"
           closing == {j \in i + 2 .. n : text[j] = "}"}
           word == {j \in i + 1 .. n : \A k \in i + 1 .. j : text[k] \in named}
           name == IF braced THEN SubSeq(text, i + 2, Min(closing) - 1)
                   ELSE SubSeq(text, i + 1, Max(word))
<1>1. n \in Nat /\ i \in 1 .. n
  BY LenProperties
<1>2. /\ PlaceholderAt(text, i)
           = [name |-> name, next |-> IF braced THEN Min(closing) + 1 ELSE Max(word) + 1]
      /\ ~(braced /\ closing = {}) /\ ~(~braced /\ word = {}) /\ IsIdent(name)
  BY DEF PlaceholderAt
<1>2a. ASSUME braced
       PROVE  /\ closing # {} /\ PlaceholderAt(text, i).next = Min(closing) + 1
              /\ IsIdent(SubSeq(text, i + 2, Min(closing) - 1))
  <2> HIDE DEF closing, word, n
  <2>1. name = SubSeq(text, i + 2, Min(closing) - 1)
    BY <1>2a
  <2> HIDE DEF name
  <2>2. PlaceholderAt(text, i) = [name |-> name, next |-> Min(closing) + 1]
    BY <1>2, <1>2a
  <2> HIDE DEF braced
  <2> QED
    BY <1>2, <1>2a, <2>1, <2>2
<1>2b. ASSUME ~braced PROVE word # {} /\ PlaceholderAt(text, i).next = Max(word) + 1
  <2> HIDE DEF closing, word, n, name
  <2>1. PlaceholderAt(text, i) = [name |-> name, next |-> Max(word) + 1]
    BY <1>2, <1>2b
  <2> HIDE DEF braced
  <2> QED
    BY <1>2, <1>2b, <2>1
<1> HIDE DEF n
<1>3. /\ closing \in SUBSET Nat /\ word \in SUBSET (0 .. n)
      /\ \A c \in closing : c \in i + 2 .. n /\ text[c] = "}"
      /\ \A c \in word : c \in i + 1 .. n /\ \A k \in i + 1 .. c : text[k] \in named
  <2>1. i + 2 .. n \subseteq Nat /\ i + 1 .. n \subseteq 0 .. n
    BY <1>1
  <2> QED
    BY <2>1
<1> HIDE DEF closing, word, named
<1>4. CASE braced
  <2> DEFINE c == Min(closing)
  <2>1. c \in closing
    BY <1>2a, <1>3, <1>4, MinIs
  <2>2. text[c] = "}" /\ text[i + 1] = "{"
    BY <1>3, <1>4, <2>1
  <2>3. c \in i + 2 .. n
    BY <1>3, <2>1
  <2>4. IsIdent(SubSeq(text, i + 2, c - 1)) /\ PlaceholderAt(text, i).next = c + 1
    BY <1>2a, <1>4
  <2> HIDE DEF c, name, braced
  <2> DEFINE a == i + 2  z == c - 1  sub == SubSeq(text, a, z)
  <2>5. a \in 1 .. n + 1 /\ z \in a - 1 .. n
    BY <1>1, <2>3
  <2>6. ToSet(sub) \subseteq named
    BY <2>4 DEF IsIdent, named
  <2> HIDE DEF a, z
  <2>7. /\ sub \in Seq(S) /\ Len(sub) = (z - a) + 1
        /\ \A j \in 1 .. (z - a) + 1 : sub[j] = text[(a + j) - 1]
    BY <2>5, SubSeqProperties DEF n
  <2> HIDE DEF sub
  <2>8. ASSUME NEW k \in i + 2 .. c - 1 PROVE text[k] # Dollar
    <3> DEFINE j == (k - a) + 1
    <3>1. j \in 1 .. (z - a) + 1 /\ (a + j) - 1 = k
      BY <1>1, <2>3 DEF a, z
    <3> HIDE DEF j
    <3>2. j \in DOMAIN sub
      BY <2>7, <3>1
    <3>3. sub[j] = text[k] /\ sub[j] \in ToSet(sub)
      BY <2>7, <3>1, <3>2 DEF ToSet
    <3> QED
      BY <2>6, <3>3, TextAssumption DEF named
  <2>9. ASSUME NEW k \in i + 1 .. c PROVE text[k] # Dollar
    <3>1. k = i + 1 \/ k = c \/ k \in i + 2 .. c - 1
      BY <1>1, <2>3
    <3> QED
      BY <2>2, <2>8, <3>1 DEF Dollar
  <2>10. c + 1 \in i + 1 .. n + 1 /\ (c + 1) - 1 = c
    BY <1>1, <2>3
  <2> QED
    BY <2>4, <2>9, <2>10 DEF n
<1>5. CASE ~braced
  <2> DEFINE c == Max(word)
  <2>1. c \in word
    BY <1>1, <1>2b, <1>3, <1>5, MaxIs
  <2>2. c \in i + 1 .. n
    BY <1>3, <2>1
  <2>2a. \A k \in i + 1 .. c : text[k] \in named
    BY <1>3, <2>1
  <2> HIDE DEF c
  <2>3. PlaceholderAt(text, i).next = c + 1
    BY <1>2b, <1>5 DEF c
  <2>4. \A k \in i + 1 .. c : text[k] # Dollar
    BY <2>2a, TextAssumption DEF named
  <2>5. c + 1 \in i + 1 .. n + 1 /\ (c + 1) - 1 = c
    BY <1>1, <2>2
  <2> QED
    BY <2>3, <2>4, <2>5 DEF n
<1> QED
  BY <1>4, <1>5

\* A walk over a text takes the placeholder at i, or the symbol there.
RefAt(text, i) == text[i] = Dollar /\ PlaceholderAt(text, i) # NoPlaceholder
PieceAt(text, i) == IF RefAt(text, i) THEN [ref |-> TRUE, val |-> PlaceholderAt(text, i).name]
                    ELSE [ref |-> FALSE, val |-> <<text[i]>>]
Behind(text, i) == IF RefAt(text, i) THEN PlaceholderAt(text, i).next ELSE i + 1

Walks(f, text) ==
    /\ f[Len(text) + 1] = <<>>
    /\ \A i \in 1 .. Len(text) : f[i] = <<PieceAt(text, i)>> \o f[Behind(text, i)]
    /\ Pieces(text) = f[1]

LEMMA GoesOn ==
    ASSUME NEW S, NEW text \in Seq(S), NEW i \in 1 .. Len(text)
    PROVE  /\ Behind(text, i) \in i + 1 .. Len(text) + 1
           /\ \A k \in i + 1 .. Behind(text, i) - 1 : text[k] # Dollar
<1>1. Len(text) \in Nat
  BY LenProperties
<1>2. CASE RefAt(text, i)
  <2>1. Behind(text, i) = PlaceholderAt(text, i).next
    BY <1>2 DEF Behind
  <2> QED
    BY <1>2, <2>1, NoneInside DEF RefAt
<1>3. CASE ~RefAt(text, i)
  <2>1. Behind(text, i) = i + 1
    BY <1>3 DEF Behind
  <2> QED
    BY <1>1, <2>1
<1> QED
  BY <1>2, <1>3

\* The walk's function is there: the pieces from each position on.
LEMMA WalkIs == ASSUME NEW S, NEW text \in Seq(S) PROVE \E f : Walks(f, text)
<1> DEFINE n == Len(text)
           turn(f, i) == IF i > n THEN <<>>
                         ELSE IF text[i] = Dollar /\ PlaceholderAt(text, i) # NoPlaceholder
                         THEN <<[ref |-> TRUE, val |-> PlaceholderAt(text, i).name]>>
                                \o f[PlaceholderAt(text, i).next]
                         ELSE <<[ref |-> FALSE, val |-> <<text[i]>>]>> \o f[i + 1]
           go(f, i) == IF i > n THEN <<>> ELSE <<PieceAt(text, i)>> \o f[Behind(text, i)]
           T == {m \in Nat : m <= n => \E f : f = [i \in (n + 1) - m .. n + 1 |-> go(f, i)]}
<1>1. n \in Nat
  BY LenProperties
<1>2. \A i \in 1 .. n : Behind(text, i) \in i + 1 .. n + 1
  BY GoesOn
<1>3. ASSUME NEW f, NEW i PROVE turn(f, i) = go(f, i)
  BY DEF PieceAt, Behind, RefAt
<1> HIDE DEF n
<1>4. 0 \in T
  <2> DEFINE f == [i \in n + 1 .. n + 1 |-> <<>>]
  <2>1. f = [i \in n + 1 .. n + 1 |-> go(f, i)]
    BY <1>1
  <2>2. (n + 1) - 0 = n + 1
    BY <1>1
  <2> QED
    BY <2>1, <2>2
<1>5. ASSUME NEW m \in Nat, m \in T PROVE m + 1 \in T
  <2>0. PICK k : k = n - m
    OBVIOUS
  <2> SUFFICES ASSUME m + 1 <= n PROVE \E f : f = [i \in (n + 1) - (m + 1) .. n + 1 |-> go(f, i)]
    OBVIOUS
  <2>1. k \in 1 .. n /\ (n + 1) - m = k + 1 /\ (n + 1) - (m + 1) = k /\ m <= n
    BY <1>1, <2>0
  <2>2. PICK f : f = [i \in k + 1 .. n + 1 |-> go(f, i)]
    BY <1>5, <2>1
  <2> HIDE DEF T
  <2> DEFINE v == go(f, k)
             g == [i \in k .. n + 1 |-> IF i = k THEN v ELSE f[i]]
  <2> HIDE DEF v
  <2>3. g[k] = v /\ \A i \in k + 1 .. n + 1 : g[i] = f[i]
    BY <1>1, <2>1
  <2> HIDE DEF go
  <2>4. \A i \in k + 1 .. n + 1 : f[i] = go(f, i)
    BY <2>2
  <2> HIDE DEF g
  <2>5. ASSUME NEW i \in k .. n + 1 PROVE g[i] = go(g, i)
    <3>1. CASE i > n
      <4>1. i \in k + 1 .. n + 1
        BY <1>1, <2>1, <3>1
      <4>2. go(f, i) = go(g, i)
        BY <3>1 DEF go
      <4> QED
        BY <2>3, <2>4, <4>1, <4>2
    <3>2. CASE ~(i > n)
      <4> DEFINE b == Behind(text, i)
      <4>1. i \in 1 .. n
        BY <1>1, <2>1, <3>2
      <4>2. b \in i + 1 .. n + 1
        BY <1>2, <4>1
      <4>3. b \in k + 1 .. n + 1
        BY <1>1, <2>1, <4>2
      <4>4. g[b] = f[b]
        BY <2>3, <4>3
      <4>5. go(f, i) = go(g, i)
        BY <4>4 DEF go
      <4>6. CASE i = k
        BY <2>3, <4>5, <4>6 DEF v
      <4>7. CASE i # k
        <5>1. i \in k + 1 .. n + 1
          BY <1>1, <2>1, <4>1, <4>7
        <5> QED
          BY <2>3, <2>4, <4>5, <5>1
      <4> QED
        BY <4>6, <4>7
    <3> QED
      BY <3>1, <3>2
  <2>6. g = [i \in k .. n + 1 |-> go(g, i)]
    BY <2>5 DEF g
  <2>7. \E h : h = [i \in k .. n + 1 |-> go(h, i)]
    BY <2>6
  <2> QED
    BY <2>1, <2>7
<1>6. n \in T
  <2> HIDE DEF T
  <2> QED
    BY <1>1, <1>4, <1>5, Inductive
<1>7. PICK w : w = [i \in 1 .. n + 1 |-> go(w, i)]
  <2>1. (n + 1) - n = 1 /\ n <= n
    BY <1>1
  <2> QED
    BY <1>6, <2>1
<1> HIDE DEF go, turn
<1>8. w = [i \in 1 .. n + 1 |-> turn(w, i)]
  <2>1. \A i \in 1 .. n + 1 : go(w, i) = turn(w, i)
    BY <1>3
  <2> QED
    BY <1>7, <2>1
<1> DEFINE r == CHOOSE f : f = [i \in 1 .. n + 1 |-> turn(f, i)]
<1>9. r = [i \in 1 .. n + 1 |-> turn(r, i)]
  BY <1>8
<1>10. Pieces(text) = r[1]
  BY DEF Pieces, turn, n
<1> HIDE DEF r
<1>11. \A i \in 1 .. n + 1 : r[i] = go(r, i)
  BY <1>3, <1>9
<1>12. r[n + 1] = <<>> /\ \A i \in 1 .. n : r[i] = <<PieceAt(text, i)>> \o r[Behind(text, i)]
  <2>1. n + 1 \in 1 .. n + 1 /\ n + 1 > n /\ \A i \in 1 .. n : i \in 1 .. n + 1 /\ ~(i > n)
    BY <1>1
  <2> QED
    BY <1>11, <2>1 DEF go
<1> QED
  BY <1>10, <1>12 DEF Walks, n

\* The names among pieces
PieceNames(ps) == {ps[i].val : i \in {j \in DOMAIN ps : ps[j].ref}}

LEMMA NamesInFront ==
    ASSUME NEW S, NEW p \in S, NEW ps \in Seq(S)
    PROVE  /\ <<p>> \o ps \in Seq(S)
           /\ PieceNames(<<p>> \o ps) = (IF p.ref THEN {p.val} ELSE {}) \union PieceNames(ps)
<1> DEFINE one == <<p>>  all == one \o ps  n == Len(ps)
<1>1. one \in Seq(S) /\ Len(one) = 1 /\ one[1] = p
  OBVIOUS
<1> HIDE DEF one
<1>2. /\ all \in Seq(S) /\ Len(all) = Len(one) + Len(ps)
      /\ \A i \in 1 .. Len(one) + Len(ps) :
            all[i] = IF i <= Len(one) THEN one[i] ELSE ps[i - Len(one)]
  BY <1>1, ConcatProperties, Zenon
<1> HIDE DEF all
<1>3. n \in Nat /\ DOMAIN ps = 1 .. n /\ DOMAIN all = 1 .. n + 1
  <2>1. n \in Nat /\ DOMAIN ps = 1 .. n
    BY LenProperties
  <2>2. Len(all) = n + 1
    BY <1>1, <1>2, <2>1
  <2> QED
    BY <1>2, <2>1, <2>2, LenProperties
<1>4. all[1] = p
  BY <1>1, <1>2, <1>3
<1>5. ASSUME NEW i \in 1 .. n PROVE all[i + 1] = ps[i]
  BY <1>1, <1>2, <1>3
<1>6. ASSUME NEW i \in 2 .. n + 1 PROVE i - 1 \in 1 .. n /\ all[i] = ps[i - 1]
  <2>1. i - 1 \in 1 .. n /\ (i - 1) + 1 = i
    BY <1>3
  <2> QED
    BY <1>5, <2>1
<1> HIDE DEF n
<1>7. ASSUME NEW x \in PieceNames(all) PROVE x \in (IF p.ref THEN {p.val} ELSE {}) \union PieceNames(ps)
  <2>1. PICK i \in 1 .. n + 1 : all[i].ref /\ x = all[i].val
    BY <1>3 DEF PieceNames
  <2>2. CASE i = 1
    BY <1>4, <2>1, <2>2
  <2>3. CASE i # 1
    <3>1. i \in 2 .. n + 1
      BY <1>3, <2>3
    <3> QED
      BY <1>3, <1>6, <2>1, <3>1 DEF PieceNames
  <2> QED
    BY <2>2, <2>3
<1>8. ASSUME NEW x \in PieceNames(ps) PROVE x \in PieceNames(all)
  <2>1. PICK i \in 1 .. n : ps[i].ref /\ x = ps[i].val
    BY <1>3 DEF PieceNames
  <2> DEFINE k == i + 1
  <2>2. k \in 1 .. n + 1 /\ all[k] = ps[i]
    BY <1>3, <1>5
  <2> HIDE DEF k
  <2> QED
    BY <1>3, <2>1, <2>2 DEF PieceNames
<1>9. p.ref => p.val \in PieceNames(all)
  <2>1. 1 \in 1 .. n + 1
    BY <1>3
  <2> QED
    BY <1>3, <1>4, <2>1 DEF PieceNames
<1> QED
  BY <1>2, <1>7, <1>8, <1>9 DEF all, one

\* What a walk looks up is what is collected, of every text: no placeholder that is
\* collected stands inside another, where the walk passes over it.
THEOREM LookedUpIsCollected == ASSUME NEW S, NEW text \in Seq(S) PROVE Wanted(text) = Names(text)
<1> DEFINE n == Len(text)
           pieces == {PieceAt(text, i) : i \in 1 .. n}
           refs(i) == {j \in References(text) : i <= j}
           names(i) == {PlaceholderAt(text, j).name : j \in refs(i)}
<1>1. n \in Nat /\ DOMAIN text = 1 .. n
  BY LenProperties
<1>2. PICK f : Walks(f, text)
  BY WalkIs
<1> DEFINE At(i) == f[i] \in Seq(pieces) /\ PieceNames(f[i]) = names(i)
           T == {m \in Nat : m <= n => \A i \in (n + 1) - m .. n + 1 : At(i)}
<1>3. /\ References(text) \subseteq 1 .. n
      /\ \A j \in 1 .. n : j \in References(text) <=> RefAt(text, j)
  BY <1>1 DEF References, RefAt
<1>4. f[n + 1] = <<>> /\ Pieces(text) = f[1]
      /\ \A i \in 1 .. n : f[i] = <<PieceAt(text, i)>> \o f[Behind(text, i)]
  BY <1>2 DEF Walks
<1>5. \A i \in 1 .. n : /\ Behind(text, i) \in i + 1 .. n + 1
                        /\ \A k \in i + 1 .. Behind(text, i) - 1 : text[k] # Dollar
  BY GoesOn
<1>6. \A i \in 1 .. n : PieceAt(text, i) \in pieces
  OBVIOUS
<1> HIDE DEF pieces, n
<1>7. At(n + 1)
  <2>1. refs(n + 1) = {}
    BY <1>1, <1>3
  <2>2. names(n + 1) = {}
    BY <2>1
  <2>3. <<>> \in Seq(pieces) /\ PieceNames(<<>>) = {}
    BY EmptySeq DEF PieceNames
  <2> QED
    BY <1>4, <2>2, <2>3
<1>8. ASSUME NEW i \in 1 .. n, \A k \in i + 1 .. n + 1 : At(k) PROVE At(i)
  <2> DEFINE b == Behind(text, i)  p == PieceAt(text, i)
  <2>1. b \in i + 1 .. n + 1
    BY <1>5
  <2> HIDE DEF At
  <2>2. At(b)
    BY <1>8, <2>1
  <2> USE DEF At
  <2>3. f[i] = <<p>> \o f[b] /\ p \in pieces
    BY <1>4, <1>6
  <2>4. f[b] \in Seq(pieces) /\ PieceNames(f[b]) = names(b)
    BY <2>2
  <2> HIDE DEF b, p
  <2>5. f[i] \in Seq(pieces) /\ PieceNames(f[i]) = (IF p.ref THEN {p.val} ELSE {}) \union names(b)
    BY <2>3, <2>4, NamesInFront
  <2>6. ASSUME NEW j \in References(text), i <= j, j # i PROVE b <= j
    <3> SUFFICES ASSUME ~(b <= j) PROVE FALSE
      OBVIOUS
    <3>1. j \in 1 .. n /\ RefAt(text, j)
      BY <1>3
    <3>2. j \in i + 1 .. b - 1
      BY <1>1, <2>1, <2>6, <3>1
    <3>3. text[j] # Dollar
      BY <1>5, <3>2 DEF b
    <3> QED
      BY <3>1, <3>3 DEF RefAt
  <2>7. CASE RefAt(text, i)
    <3>1. p.ref /\ p.val = PlaceholderAt(text, i).name
      BY <2>7 DEF p, PieceAt
    <3>2. refs(i) = {i} \union refs(b)
      <4>1. i \in References(text)
        BY <1>3, <2>7
      <4>2. i <= i /\ \A j \in 1 .. n : b <= j => i <= j
        BY <1>1, <2>1
      <4> QED
        BY <1>3, <2>6, <4>1, <4>2
    <3> HIDE DEF refs
    <3>3. names(i) = {PlaceholderAt(text, i).name} \union names(b)
      BY <3>2
    <3> QED
      BY <2>5, <3>1, <3>3
  <2>8. CASE ~RefAt(text, i)
    <3>1. ~p.ref
      BY <2>8 DEF p, PieceAt
    <3>2. refs(i) = refs(b)
      <4>1. i \notin References(text)
        BY <1>3, <2>8
      <4>2. \A j \in 1 .. n : b <= j => i <= j
        BY <1>1, <2>1
      <4> QED
        BY <1>3, <2>6, <4>1, <4>2
    <3> QED
      BY <2>5, <3>1, <3>2
  <2> QED
    BY <2>7, <2>8
<1> HIDE DEF At
<1>9. 0 \in T
  <2>1. \A i \in (n + 1) - 0 .. n + 1 : i = n + 1
    BY <1>1
  <2> QED
    BY <1>7, <2>1
<1>10. ASSUME NEW m \in Nat, m \in T PROVE m + 1 \in T
  <2> SUFFICES ASSUME m + 1 <= n, NEW i \in (n + 1) - (m + 1) .. n + 1 PROVE At(i)
    OBVIOUS
  <2>1. \A k \in (n + 1) - m .. n + 1 : At(k)
    BY <1>1, <1>10
  <2>2. CASE i \in (n + 1) - m .. n + 1
    BY <2>1, <2>2
  <2>3. CASE i \notin (n + 1) - m .. n + 1
    <3>1. i \in 1 .. n /\ i + 1 = (n + 1) - m
      BY <1>1, <2>3
    <3> QED
      BY <1>8, <2>1, <3>1
  <2> QED
    BY <2>2, <2>3
<1>11. At(1)
  <2>1. n \in T
    <3> HIDE DEF T
    <3> QED
      BY <1>1, <1>9, <1>10, Inductive
  <2>2. 1 \in (n + 1) - n .. n + 1 /\ n <= n
    BY <1>1
  <2> QED
    BY <2>1, <2>2
<1>12. refs(1) = References(text)
  BY <1>1, <1>3
<1>13. PieceNames(Pieces(text)) = {PlaceholderAt(text, j).name : j \in References(text)}
  <2> HIDE DEF refs
  <2> QED
    BY <1>4, <1>11, <1>12 DEF At
<1> QED
  BY <1>13 DEF Wanted, Names, PieceNames

\* The texts of params are texts.
ParamsInv == of = "params" => input \in Seq(TextSymbols)

\* Of every text, what a recipe declares is what its steps are filled in with.
THEOREM ParamsAreComplete == AlgorithmsSpec => []ParamsComplete
<1>1. AlgorithmsInit => ParamsInv
  BY EmptySeq DEF AlgorithmsInit, ParamsInv
<1>2. ParamsInv /\ [AlgorithmsNext]_algorithmVars => ParamsInv'
  <2> SUFFICES ASSUME ParamsInv, [AlgorithmsNext]_algorithmVars PROVE ParamsInv'
    OBVIOUS
  <2>1. CASE UNCHANGED algorithmVars
    BY <2>1 DEF ParamsInv, algorithmVars
  <2>2. CASE GrowText
    <3>1. of = "params" /\ UNCHANGED <<of, on>> /\ \E p \in TextSymbols : input' = Append(input, p)
      BY <2>2 DEF GrowText, Grow
    <3>2. input \in Seq(TextSymbols)
      BY <3>1 DEF ParamsInv
    <3> HIDE DEF TextSymbols
    <3>3. input' \in Seq(TextSymbols)
      BY <3>1, <3>2, AppendProperties
    <3> QED
      BY <3>3 DEF ParamsInv
  <2>3. CASE AlgorithmsNext /\ ~GrowText
    <3>1. of' # "params"
      BY <2>3 DEF AlgorithmsNext, GrowGoal, GrowClauses, GrowJev, GrowPlan, GrowLine, GrowStep,
                  GrowIntent, GrowStream, Grow
    <3> QED
      BY <3>1 DEF ParamsInv
  <2> QED
    BY <2>1, <2>2, <2>3
<1>3. ParamsInv => ParamsComplete
  <2> SUFFICES ASSUME ParamsInv, of = "params", NEW kind \in DOMAIN Filled, NEW f \in Filled[kind]
               PROVE LET op == [kind |-> kind,
                                fields |-> [g \in Filled[kind] |->
                                              IF g = f THEN input ELSE <<"a">>]]
                         params == ParamsOf(<<op>>)
                     IN \A set \in SUBSET params :
                           LET values == [n \in set |-> <<"$", "a">>]
                           IN Substitutable(op, values) <=> ParamsSet(params, values)
    BY DEF ParamsComplete
  <2> DEFINE fields == [g \in Filled[kind] |-> IF g = f THEN input ELSE <<"a">>]
             op == [kind |-> kind, fields |-> fields]
             params == ParamsOf(<<op>>)
  <2>1. ASSUME NEW g \in Filled[kind] PROVE Wanted(fields[g]) = Names(fields[g])
    <3>1. input \in Seq(TextSymbols)
      BY DEF ParamsInv
    <3>2. <<"a">> \in Seq({"a"})
      OBVIOUS
    <3>3. Wanted(input) = Names(input) /\ Wanted(<<"a">>) = Names(<<"a">>)
      BY <3>1, <3>2, LookedUpIsCollected
    <3> QED
      BY <3>3
  <2>2. Collected[kind] = Filled[kind]
    BY DEF Collected, Filled
  <2>3. DOMAIN fields = Filled[kind]
    OBVIOUS
  <2> HIDE DEF fields
  <2>4. params = OpNames(op)
    BY DEF ParamsOf
  <2>5. OpNames(op) = UNION {Names(fields[g]) : g \in Filled[kind]}
    BY <2>2, <2>3 DEF OpNames
  <2>6. UNION {Wanted(fields[g]) : g \in FilledIn(op)}
          = UNION {Names(fields[g]) : g \in Filled[kind]}
    BY <2>1, <2>3 DEF FilledIn
  <2>7. ASSUME NEW set
        PROVE LET values == [n \in set |-> <<"$", "a">>]
              IN Substitutable(op, values) <=> ParamsSet(params, values)
    BY <2>4, <2>5, <2>6 DEF Substitutable, ParamsSet
  <2> QED
    BY <2>7 DEF fields
<1> QED
  BY <1>1, <1>2, <1>3, PTL DEF AlgorithmsSpec

\* What is written in a recipe is what its runner gets, whatever it is: its words, its
\* parameters and its order.
THEOREM RecipeIsKept == AlgorithmsSpec => []RecipeKept
BY QuotedWordsRead, ParamsAreComplete, PlansKeepNeeds, PTL DEF RecipeKept
=============================================================================

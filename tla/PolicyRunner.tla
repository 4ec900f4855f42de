---------------------------- MODULE PolicyRunner ----------------------------
(***************************************************************************)
(* `run --goal` (gpui-agent-policy): the runner observes, lets the policy   *)
(* choose among the offered actions, dispatches with the fingerprint it     *)
(* saw, verifies by the next observation; on an abstain an endpoint may be  *)
(* asked.  The host's tree changes under it at any time.                    *)
(*                                                                         *)
(* Scores are left out: the policy may choose any offered action whose      *)
(* urge could reach the profile's threshold.  The order of its tests (done, *)
(* operation, danger, repetition) is kept.                                  *)
(***************************************************************************)
EXTENDS ActionSpace, SequencesExt

CONSTANTS
    Trees,          \* trees the host may show
    Texts,          \* payloads a pattern of the clause or an endpoint may give
    Profiles,       \* how a run is set up, see `setup`
    MaxSteps, MaxNoEffect, MaxStale,   \* RunnerCaps
    MaxPolls,       \* max_wait_ms / WAIT_POLL_MS
    MinConfidence,  \* the profile's threshold, 750 for Standard
    MaxChanges,     \* changes of the tree that are not the run's own
    MaxLost         \* answers lost on the way

(* A clause is [mode, verb, object, lits]: mode "act" or "wait", the words   *)
(* of what it acts on, and the quoted literals left to type.                *)

ASSUME RunnerAssumption == {MaxSteps, MaxNoEffect, MaxStale, MaxPolls} \subseteq Nat \ {0}

\* Only the caller of `act` has a choice of delivery (run_cmd.rs:89)
ASSUME DeliveryAssumption == \A s \in Profiles : s.tool = "run" => s.delivery = "semantic"

VARIABLES
    setup,      \* [tool, goal, endpoint, exits, delivery, window]: `run` or the
                \* `act` of the MCP server, the goal, is an endpoint configured,
                \* does its process end by itself; "semantic" or "virtual", and is
                \* the host the desktop window, which alone has a pointer
    pc,         \* where the runner is
    clause,     \* clause_idx + 1
    tree,       \* the tree as last observed
    host,       \* the host's tree
    history,    \* HistoryEntry rows, with the clause each was made in
    typed,      \* payloads sent so far
    noEffect, stale, waited,   \* the three counters
    decision,   \* the action chosen: offer, payload, fingerprint
    asking,     \* the endpoint's process, see AskNone
    outcome,    \* RunOutcome, "none" while running
    closings,   \* clauses closed by done-detection, with the clause whose step
                \* was the reason
    changes,    \* changes of the tree made by others
    lost,       \* answers lost
    done        \* every action the host carried out for this run

vars == <<setup, pc, clause, tree, host, history, typed, noEffect, stale, waited,
          decision, asking, outcome, closings, changes, lost, done>>

loopVars == <<clause, history, typed, noEffect, stale, waited, closings>>

Empty == [x \in {} |-> x]
NoDecision == [offer |-> [kind |-> "DONE", target |-> Root], label |-> {}, payload |-> "",
               fp |-> Empty]
AskNone == [state |-> "none", for |-> "none"]

Init ==
    /\ setup \in Profiles
    /\ pc = "start" /\ clause = 1
    /\ host \in Trees /\ tree = host
    /\ history = <<>> /\ typed = <<>>
    /\ noEffect = 0 /\ stale = 0 /\ waited = 0 /\ closings = <<>>
    /\ decision = NoDecision /\ asking = AskNone /\ outcome = "none"
    /\ changes = 0 /\ lost = 0 /\ done = <<>>

Clause == setup.goal[clause]

Finish(result) == outcome' = result /\ pc' = "ended"

-----------------------------------------------------------------------------
(* Observation                                                              *)

\* observe_full and keybinding_catalog, before the loop
ObserveFirst ==
    /\ pc = "start" /\ pc' = "loop" /\ tree' = host
    /\ UNCHANGED <<setup, host, loopVars, decision, asking, outcome, changes, lost, done>>

\* observe_since after a wait or a refusal: the tree becomes the host's
\* (HostSession shows that a diff rebuilds it)
Reobserve ==
    /\ pc = "reobserve" /\ pc' = "loop" /\ tree' = host
    /\ UNCHANGED <<setup, host, loopVars, decision, asking, outcome, changes, lost, done>>

\* Someone else changes what the host shows
OthersAct ==
    /\ changes < MaxChanges /\ pc # "ended"
    /\ host' \in Trees \ {host} /\ changes' = changes + 1
    /\ UNCHANGED <<setup, pc, tree, loopVars, decision, asking, outcome, lost, done>>

\* expect_ok is an error, but for a stale refusal: exit 1
CallFails ==
    /\ pc \in {"start", "reobserve", "dispatch", "verify"}
    /\ Finish("error")
    /\ UNCHANGED <<setup, tree, host, loopVars, decision, asking, changes, lost, done>>

-----------------------------------------------------------------------------
(* The top of the loop                                                      *)

AtTop == pc = "loop" /\ Len(history) < MaxSteps
AtClause == AtTop /\ clause <= Len(setup.goal)

StepsSpent ==
    /\ pc = "loop" /\ Len(history) >= MaxSteps
    /\ Finish("cap_hit")
    /\ UNCHANGED <<setup, tree, host, loopVars, decision, asking, changes, lost, done>>

\* No clause left: reached when the last one was a wait
ClausesDone ==
    /\ AtTop /\ clause > Len(setup.goal)
    /\ Finish("done")
    /\ UNCHANGED <<setup, tree, host, loopVars, decision, asking, changes, lost, done>>

WaitShown ==
    /\ AtClause /\ Clause.mode = "wait" /\ OnScreen(tree, Clause.object)
    /\ clause' = clause + 1
    /\ UNCHANGED <<setup, pc, tree, host, history, typed, noEffect, stale, waited,
                   closings, decision, asking, outcome, changes, lost, done>>

\* Fault: each wait has a budget of its own
PollAnew(spent) == pc' = "reobserve" /\ UNCHANGED <<waited, outcome>>

\* A pause of WAIT_POLL_MS out of the run's wait budget, then a look
Poll(spent) ==
    IF waited >= MaxPolls
    THEN Finish(spent) /\ UNCHANGED waited
    ELSE waited' = waited + 1 /\ pc' = "reobserve" /\ UNCHANGED outcome

WaitPolls ==
    /\ AtClause /\ Clause.mode = "wait" /\ ~OnScreen(tree, Clause.object)
    /\ Poll("blocked")
    /\ UNCHANGED <<setup, clause, tree, host, history, typed, noEffect, stale,
                   closings, decision, asking, changes, lost, done>>

-----------------------------------------------------------------------------
(* InstinctPolicy::decide                                                   *)

Satisfied(entry) == entry.verification \in {"success", "state-changed"}

\* habituation_weight: 250 off for each time the action last went nowhere
Habituation(offer) ==
    LET k == CHOOSE n \in 0 .. Len(history) :
               /\ \A i \in Len(history) - n + 1 .. Len(history) :
                     /\ history[i].offer = offer
                     /\ history[i].verification \in {"no-effect", "wrong-effect"}
               /\ n < Len(history) =>
                     LET e == history[Len(history) - n]
                     IN e.offer # offer \/ e.verification \notin {"no-effect", "wrong-effect"}
    IN IF k >= 4 THEN 0 ELSE 1000 - 250 * k

MayWin(offer) == Habituation(offer) >= MinConfidence

\* clause_effect_done: the label names what the clause is about, or is the
\* verb's own affordance with every literal on screen
EffectDone(label) ==
    \/ Clause.object # {} /\ Clause.object \subseteq label
    \/ /\ Clause.lits # {} /\ Clause.verb \in label
       /\ \A lit \in Clause.lits : LiteralInLabel(tree, lit)

\* Done-detection: the last action had an effect and is gone from the tree, or
\* its label satisfies the clause.  The last action may be an earlier clause's.
ClosedByHistory ==
    /\ history # <<>> /\ Satisfied(Last(history))
    /\ Last(history).offer \notin Offers(tree) \/ EffectDone(Last(history).label)

Repeats(offer) ==
    /\ history # <<>> /\ Satisfied(Last(history)) /\ Last(history).offer = offer
    /\ EffectDone(LabelOf(tree, offer))

Deciding == AtClause /\ Clause.mode = "act"

\* DONE: the next clause, or the end
CloseClause ==
    /\ clause' = clause + 1
    /\ IF clause >= Len(setup.goal) THEN Finish("done")
       ELSE pc' = "loop" /\ UNCHANGED outcome
    /\ UNCHANGED <<setup, tree, host, history, typed, noEffect, stale, waited,
                   decision, changes, lost, done>>

DecideClosed ==
    /\ Deciding /\ ClosedByHistory /\ CloseClause
    /\ closings' = Append(closings, [clause |-> clause, by |-> Last(history).clause])
    /\ UNCHANGED asking

\* Destructive offers are listed but never chosen
Allowed(offer) == ~Dangerous(offer)

\* Arbitration picks DONE, or the winner would only repeat what was done
DecideDone ==
    /\ Deciding /\ ~ClosedByHistory
    /\ \/ MayWin([kind |-> "DONE", target |-> Root])
       \/ \E a \in Offers(tree) : a.kind \notin Controls /\ MayWin(a)
                                  /\ Allowed(a) /\ Repeats(a)
    /\ CloseClause /\ UNCHANGED <<closings, asking>>

DecideBlocked ==
    /\ Deciding /\ ~ClosedByHistory /\ Finish("blocked")
    /\ UNCHANGED <<setup, tree, host, loopVars, decision, asking, changes, lost, done>>

DecideWait ==
    /\ Deciding /\ ~ClosedByHistory /\ Poll("cap_hit")
    /\ UNCHANGED <<setup, clause, tree, host, history, typed, noEffect, stale,
                   closings, decision, asking, changes, lost, done>>

\* An action is chosen: node-bound ones carry the fingerprint seen
Choose(offer) ==
    decision' = [offer |-> offer, label |-> LabelOf(tree, offer), payload |-> "",
                 fp |-> IF offer.kind \in NodeKinds THEN FingerprintIn(tree, offer)
                        ELSE Empty]

\* Where a chosen action goes: fields need their text first
AfterChoice(offer) == IF offer.kind \in {"TYPE", "SET_VALUE"} THEN "text" ELSE "dispatch"

DecideAction ==
    /\ Deciding /\ ~ClosedByHistory
    /\ \E a \in Offers(tree) :
          /\ a.kind \notin Controls /\ MayWin(a) /\ Allowed(a) /\ ~Repeats(a)
          /\ Choose(a) /\ pc' = AfterChoice(a)
    /\ UNCHANGED <<setup, tree, host, loopVars, asking, outcome, changes, lost, done>>

\* Operation abstain, target abstain, needs_confirmation.  The endpoint is asked
\* unless two contenders look the same to it.
DecideAbstain ==
    /\ Deciding /\ ~ClosedByHistory
    /\ \/ Finish("abstained") /\ UNCHANGED asking
       \/ /\ setup.endpoint /\ pc' = "ask"
          /\ asking' = [AskNone EXCEPT !.state = "spawn", !.for = "choose"]
          /\ UNCHANGED outcome
    /\ UNCHANGED <<setup, tree, host, loopVars, decision, changes, lost, done>>

-----------------------------------------------------------------------------
(* The text of a field                                                      *)

\* Quoted literals of the clause that no step of the run has sent
Untyped == Clause.lits \ ToSet(typed)

WithText(text) ==
    /\ decision' = [decision EXCEPT !.payload = text] /\ pc' = "dispatch"
    /\ UNCHANGED outcome

\* password fields are not asked about
Sensitive(id) == tree[id].role = "password" \/ "password" \in tree[id].label

\* DeterministicTextResolver: one literal left is it; of several, one the
\* field's label names, else none; a clause without any may follow a pattern
\* (type X into Y, fill Y with X)
ResolveText ==
    /\ pc = "text"
    /\ IF Clause.lits = {} THEN \E text \in Texts : WithText(text)
       ELSE \/ \E text \in Untyped : WithText(text)
            \/ /\ Cardinality(Untyped) # 1
               /\ Finish("abstained") /\ UNCHANGED decision
    /\ UNCHANGED <<setup, tree, host, loopVars, asking, changes, lost, done>>

\* TextError::Missing: the endpoint is asked, or the run abstains
TextMissing ==
    /\ pc = "text" /\ Clause.lits = {}
    /\ IF setup.endpoint /\ ~Sensitive(decision.offer.target)
       THEN /\ asking' = [state |-> "spawn", for |-> "text"]
            /\ pc' = "ask" /\ UNCHANGED outcome
       ELSE Finish("abstained") /\ UNCHANGED asking
    /\ UNCHANGED <<setup, tree, host, loopVars, decision, changes, lost, done>>

-----------------------------------------------------------------------------
(* CommandEscalation::call: a fresh process per question                    *)

Asked == UNCHANGED <<setup, tree, host, changes, lost, done>>

\* Spawned, the request written to it, its output read to the end
AskGoesOn ==
    /\ pc = "ask" /\ asking.state \in {"spawn", "writing", "reading"}
    /\ asking' = [asking EXCEPT !.state = CASE @ = "spawn"   -> "writing"
                                            [] @ = "writing" -> "reading"
                                            [] OTHER         -> "reaping"]
    /\ UNCHANGED <<pc, decision, outcome, loopVars>> /\ Asked

\* Not spawned, a broken pipe, or one of the two timeouts: killed, and the run
\* is blocked
AskFails ==
    /\ pc = "ask" /\ asking.state \in {"spawn", "writing", "reading"}
    /\ asking' = AskNone /\ Finish("blocked")
    /\ UNCHANGED <<decision, loopVars>> /\ Asked

\* child.wait() after the reply, with no timeout
AskReaped ==
    /\ pc = "ask" /\ asking.state = "reaping" /\ setup.exits
    /\ asking' = [asking EXCEPT !.state = "reply"]
    /\ UNCHANGED <<pc, decision, outcome, loopVars>> /\ Asked

Replied(for) == pc = "ask" /\ asking = [state |-> "reply", for |-> for]

\* Not one JSON object of the agreed form, too long, or an id or an operation
\* that was not offered
ReplyBroken ==
    /\ pc = "ask" /\ asking.state = "reply" /\ asking' = AskNone /\ Finish("blocked")
    /\ UNCHANGED <<decision, loopVars>> /\ Asked

\* {"abstain": ...}, or a choice that would need a confirmation
ReplyAbstains ==
    /\ \/ Replied("choose")
       \/ Replied("text")
    /\ asking' = AskNone /\ Finish("abstained")
    /\ UNCHANGED <<decision, loopVars>> /\ Asked

ReplyText ==
    /\ Replied("text") /\ asking' = AskNone
    /\ \E text \in Texts : WithText(text)
    /\ UNCHANGED loopVars /\ Asked

ReplyAction ==
    /\ Replied("choose") /\ asking' = AskNone
    /\ \E a \in Offers(tree) :
          /\ a.kind \notin Controls /\ Allowed(a)
          /\ Choose(a) /\ pc' = AfterChoice(a)
    /\ UNCHANGED <<outcome, loopVars>> /\ Asked

ReplyDone == Replied("choose") /\ asking' = AskNone /\ CloseClause /\ UNCHANGED closings

ReplyWait ==
    /\ Replied("choose") /\ asking' = AskNone /\ Poll("cap_hit")
    /\ UNCHANGED <<clause, history, typed, noEffect, stale, closings, decision>> /\ Asked

-----------------------------------------------------------------------------
(* Dispatch and verification                                                *)

\* Fault: the gate looks at nothing but the target's being there
GatePassesLoose == decision.offer.target \in DOMAIN host

\* The host's fingerprint gate for a node-bound operation
GatePasses ==
    /\ decision.offer.target \in DOMAIN host
    /\ FingerprintIn(host, decision.offer) = decision.fp

\* Op::is_virtual_input, and where the window answers it: dispatch_virtual plans
\* a click on the id it is given and compares no fingerprint
Virtual(offer) == setup.delivery = "virtual" /\ offer.kind \in {"CLICK", "TYPE", "KEY"}
ByPointer(offer) == setup.window /\ Virtual(offer)

Gated == decision.offer.kind \in NodeKinds /\ ~ByPointer(decision.offer)

\* What the host carries out: a gated operation on the node that was seen, virtual
\* ones in a window only and there on any node of that id.  A pointer that finds
\* no place to click is an error, as is virtual delivery elsewhere (CallFails)
HostAccepts ==
    IF Gated THEN GatePasses /\ ~Virtual(decision.offer)
    ELSE ByPointer(decision.offer) => decision.offer.target \in DOMAIN host

\* The host carries the action out; what it shows then is its own affair
Perform(payload) ==
    /\ host' \in Trees
    /\ done' = Append(done, [offer |-> decision.offer, payload |-> payload,
                             seen |-> decision.fp,
                             met |-> IF decision.offer.kind \in NodeKinds
                                     THEN FingerprintIn(host, decision.offer) ELSE Empty])

Dispatch ==
    /\ pc = "dispatch" /\ HostAccepts /\ Perform(decision.payload)
    /\ stale' = 0 /\ pc' = "verify"
    /\ UNCHANGED <<setup, clause, tree, history, typed, noEffect, waited, closings,
                   decision, asking, outcome, changes, lost>>

\* The host carries the action out, and the connection breaks before its answer is
\* read: the client writes the same line again, fingerprint included
DispatchLost ==
    /\ pc = "dispatch" /\ HostAccepts /\ lost < MaxLost
    /\ Perform(decision.payload) /\ lost' = lost + 1
    /\ UNCHANGED <<setup, pc, tree, loopVars, decision, asking, outcome, changes>>

\* stale_target or target_gone: look again and decide again, at most MaxStale
\* times in a row
DispatchStale ==
    /\ pc = "dispatch" /\ Gated /\ ~GatePasses
    /\ stale' = stale + 1
    /\ IF stale' > MaxStale THEN Finish("abstained")
       ELSE pc' = "reobserve" /\ UNCHANGED outcome
    /\ UNCHANGED <<setup, clause, tree, host, history, typed, noEffect, waited, closings,
                   decision, asking, changes, lost, done>>

\* A field is read back; anything else had an effect when the tree changed
Verification ==
    IF decision.offer.kind \in {"TYPE", "SET_VALUE"}
    THEN IF /\ decision.offer.target \in DOMAIN host
            /\ host[decision.offer.target].value = decision.payload
         THEN "success" ELSE "wrong-effect"
    ELSE IF host # tree THEN "state-changed" ELSE "no-effect"

\* Every payload sent counts as typed, whatever was read back
TypedAfter == IF decision.payload # "" THEN Append(typed, decision.payload) ELSE typed

Verify ==
    /\ pc = "verify" /\ tree' = host
    /\ noEffect' = IF Verification \in {"success", "state-changed"} THEN 0 ELSE noEffect + 1
    /\ history' = Append(history, [offer |-> decision.offer, label |-> decision.label,
                                   verification |-> Verification, clause |-> clause])
    /\ typed' = TypedAfter
    /\ IF noEffect' >= MaxNoEffect THEN Finish("blocked")
       ELSE pc' = "loop" /\ UNCHANGED outcome
    /\ UNCHANGED <<setup, clause, host, stale, waited, closings, decision, asking,
                   changes, lost, done>>

-----------------------------------------------------------------------------
Decide ==
    \/ DecideClosed \/ DecideDone \/ DecideBlocked \/ DecideWait
    \/ DecideAction \/ DecideAbstain

Ask ==
    \/ AskGoesOn \/ AskFails \/ AskReaped
    \/ ReplyBroken \/ ReplyAbstains \/ ReplyText \/ ReplyAction \/ ReplyDone \/ ReplyWait

Run ==
    \/ ObserveFirst \/ Reobserve \/ CallFails
    \/ StepsSpent \/ ClausesDone \/ WaitShown \/ WaitPolls
    \/ Decide \/ ResolveText \/ TextMissing \/ Ask
    \/ Dispatch \/ DispatchLost \/ DispatchStale \/ Verify

-----------------------------------------------------------------------------
(* Properties                                                               *)

\* Every variable has its type, and the counters stay within the caps
RunnerTypeOK ==
    /\ setup \in Profiles
    /\ pc \in {"start", "loop", "reobserve", "text", "ask", "dispatch", "verify", "ended"}
    /\ clause \in 1 .. Len(setup.goal) + 1
    /\ tree \in Trees /\ host \in Trees
    /\ \A i \in DOMAIN history : history[i].clause \in 1 .. Len(setup.goal)
    /\ noEffect \in 0 .. MaxNoEffect /\ stale \in 0 .. MaxStale + 1
    /\ waited \in 0 .. MaxPolls /\ changes \in 0 .. MaxChanges /\ lost \in 0 .. MaxLost
    /\ Len(history) <= MaxSteps /\ Len(typed) <= Len(history)
    /\ asking.state \in {"none", "spawn", "writing", "reading", "reaping", "reply"}
    /\ asking.for \in {"none", "choose", "text"}
    /\ outcome \in {"none", "done", "blocked", "abstained", "cap_hit", "error"}
    /\ (outcome = "none") <=> (pc # "ended")

\* policy.rs "Destructive offers are listed but never auto-chosen", and neither
\* does a reply of the endpoint get one carried out
NeverDangerous == \A i \in DOMAIN done : ~Dangerous(done[i].offer)

\* The fingerprint gate: what a node-bound action meets at the host is the node
\* the decision was made on, however the tree changed and however often the
\* runner had to decide again; not what the window's pointer does for `act`
ActsOnWhatItSaw ==
    \A i \in DOMAIN done :
       done[i].offer.kind \in NodeKinds /\ ~ByPointer(done[i].offer) => done[i].met = done[i].seen

\* A quoted literal of the goal is sent to the host once, whichever field it
\* went to, whatever was read back and however often the run decides again; an
\* answer lost on the way may cost one more
LiteralSentOnce ==
    \A lit \in UNION {setup.goal[i].lits : i \in DOMAIN setup.goal} :
       Cardinality({i \in DOMAIN done : done[i].payload = lit}) <= 1 + lost

\* docs/plans/2026-10-17-instinct-prd.md "Advance the clause on a non-empty diff
\* consistent with the op": a clause is closed by a step that was made for it
ClosedByItsOwnStep == \A i \in DOMAIN closings : closings[i].by = closings[i].clause
=============================================================================

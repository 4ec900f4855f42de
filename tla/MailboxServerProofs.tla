-------------------------- MODULE MailboxServerProofs --------------------------
(***************************************************************************)
(* Proofs about Mailbox, for any set of tickets and any MAX_MAILBOX_DEPTH, *)
(* and about MailboxServer, for any clients, requests, connection cap and  *)
(* length of jobs.  The server's steps are steps of the mailbox, so what   *)
(* the first part shows of the queue holds in the process that contains it.*)
(***************************************************************************)
EXTENDS MailboxServer, SequenceTheorems, FiniteSetTheorems, TLAPS

(***************************************************************************)
(* What the invariants of Mailbox rest on: the receiver is gone exactly    *)
(* when wait has returned, and a held request is one the UI thread ran.    *)
(***************************************************************************)
DroppedMeansReturned ==
    \A t \in Ticket : channel[t] = "dropped" <=> result[t] # "none"

HeldMeansRan == \A t \in held : InSeq(ran, t)

MailboxInv ==
    /\ MailboxTypeOK
    /\ OrderKept
    /\ AcceptedOnce
    /\ RepliedMeansRan
    /\ DroppedMeansReturned
    /\ HeldMeansRan

-----------------------------------------------------------------------------
\* Appending an element adds it, and only it, to a sequence.
LEMMA InSeqAppend ==
    ASSUME NEW S, NEW s \in Seq(S), NEW e \in S, NEW x
    PROVE  InSeq(Append(s, e), x) <=> (InSeq(s, x) \/ x = e)
BY AppendProperties DEF InSeq

\* The two queues between push and the UI thread, moved as Take moves them.
LEMMA TakeKeepsOrder ==
    ASSUME NEW S, NEW b \in Seq(S), NEW i \in Seq(S)
    PROVE  b \o i = (b \o i) \o <<>>
<1>1. b \o i \in Seq(S)
  BY ConcatProperties
<1> QED
  BY <1>1, ConcatEmptySeq

\* Moving the head of the backlog to the end of the history keeps the order.
LEMMA RunKeepsOrder ==
    \A r, b, i \in Seq(Ticket) :
        b # <<>> => r \o (b \o i) = Append(r, Head(b)) \o (Tail(b) \o i)
<1> SUFFICES ASSUME NEW r \in Seq(Ticket), NEW b \in Seq(Ticket), NEW i \in Seq(Ticket),
                    b # <<>>
             PROVE  r \o (b \o i) = Append(r, Head(b)) \o (Tail(b) \o i)
  OBVIOUS
<1> DEFINE h == Head(b)
           tl == Tail(b)
<1>1. h \in Ticket /\ tl \in Seq(Ticket) /\ <<h>> \in Seq(Ticket)
  BY HeadTailProperties
<1>2. b = <<h>> \o tl
  OBVIOUS
<1>3. tl \o i \in Seq(Ticket)
  BY <1>1, ConcatProperties
<1>4. b \o i = <<h>> \o (tl \o i)
  <2> HIDE DEF h, tl
  <2> QED
    BY <1>1, <1>2, ConcatAssociative
<1>5. Append(r, h) = r \o <<h>>
  BY <1>1, AppendIsConcat
<1>6. r \o (<<h>> \o (tl \o i)) = (r \o <<h>>) \o (tl \o i)
  <2> HIDE DEF h, tl
  <2>1. ASSUME NEW x \in Seq(Ticket), NEW y \in Seq(Ticket)
        PROVE  (r \o x) \o y = r \o (x \o y)
    BY ConcatAssociative
  <2> QED
    BY <1>1, <1>3, <2>1
<1> QED
  BY <1>4, <1>5, <1>6

\* A push at the end of the inbox is a push at the end of everything accepted.
LEMMA PushKeepsOrder ==
    \A r, b, i \in Seq(Ticket), e \in Ticket :
        Append(r \o (b \o i), e) = r \o (b \o Append(i, e))
<1> SUFFICES ASSUME NEW r \in Seq(Ticket), NEW b \in Seq(Ticket), NEW i \in Seq(Ticket),
                    NEW e \in Ticket
             PROVE  Append(r \o (b \o i), e) = r \o (b \o Append(i, e))
  OBVIOUS
<1>1. b \o i \in Seq(Ticket) /\ <<e>> \in Seq(Ticket) /\ r \o (b \o i) \in Seq(Ticket)
  BY ConcatProperties
<1>2. Append(r \o (b \o i), e) = (r \o (b \o i)) \o <<e>>
  BY <1>1, AppendIsConcat
<1>3. (r \o (b \o i)) \o <<e>> = r \o ((b \o i) \o <<e>>)
  BY <1>1, ConcatAssociative
<1>4. (b \o i) \o <<e>> = b \o (i \o <<e>>)
  BY <1>1, ConcatAssociative
<1>5. i \o <<e>> = Append(i, e)
  BY AppendIsConcat
<1> QED
  BY <1>2, <1>3, <1>4, <1>5

-----------------------------------------------------------------------------
\* Empty queues satisfy MailboxInv.
LEMMA InitInv == MailboxInit => MailboxInv
<1> SUFFICES ASSUME MailboxInit PROVE MailboxInv
  OBVIOUS
<1> USE DEF MailboxInit
<1>1. MailboxTypeOK
  BY DepthAssumption DEF MailboxTypeOK, ChannelState, WaitResult
<1>2. OrderKept /\ AcceptedOnce
  BY DEF OrderKept, AcceptedOnce, InSeq
<1>3. RepliedMeansRan /\ DroppedMeansReturned /\ HeldMeansRan
  BY DEF RepliedMeansRan, DroppedMeansReturned, HeldMeansRan
<1> QED
  BY <1>1, <1>2, <1>3 DEF MailboxInv

\* A ticket is pushed once, so `accepted` gains a new one at its end.
LEMMA PushQueuedInv ==
    ASSUME MailboxInv, NEW t \in Ticket, PushQueued(t)
    PROVE  MailboxInv'
<1> USE DEF MailboxInv, PushQueued
<1>1. MailboxTypeOK'
  BY DepthAssumption, AppendProperties DEF MailboxTypeOK, ChannelState
<1>2. OrderKept'
  <2>1. /\ ran \in Seq(Ticket) /\ batch \in Seq(Ticket)
        /\ inbox \in Seq(Ticket) /\ t \in Ticket
    BY DEF MailboxTypeOK
  <2>2. Append(ran \o (batch \o inbox), t) = ran \o (batch \o Append(inbox, t))
    BY <2>1, PushKeepsOrder
  <2> QED
    BY <2>2 DEF OrderKept
<1>3. AcceptedOnce'
  <2> USE DEF MailboxTypeOK, AcceptedOnce
  <2>1. ~InSeq(accepted, t)
    OBVIOUS
  <2>2. \A i, j \in 1..Len(accepted') : accepted'[i] = accepted'[j] => i = j
    BY <2>1, AppendProperties DEF InSeq
  <2>3. \A u \in Ticket : InSeq(accepted', u) <=> InSeq(accepted, u) \/ u = t
    BY InSeqAppend
  <2>4. channel'[t] = "waiting" /\ result'[t] # "full"
    BY DEF DroppedMeansReturned
  <2> QED
    BY <2>2, <2>3, <2>4
<1>4. RepliedMeansRan' /\ DroppedMeansReturned' /\ HeldMeansRan'
  BY DEF MailboxTypeOK, RepliedMeansRan, DroppedMeansReturned, HeldMeansRan
<1> QED
  BY <1>1, <1>2, <1>3, <1>4

\* A refused push reaches no queue.
LEMMA PushFullInv ==
    ASSUME MailboxInv, NEW t \in Ticket, PushFull(t)
    PROVE  MailboxInv'
<1> USE DEF MailboxInv, PushFull, queueVars
<1>1. MailboxTypeOK' /\ OrderKept'
  BY DEF MailboxTypeOK, ChannelState, OrderKept
<1>2. AcceptedOnce'
  BY DEF MailboxTypeOK, AcceptedOnce, InSeq
<1>3. RepliedMeansRan' /\ DroppedMeansReturned' /\ HeldMeansRan'
  BY DEF MailboxTypeOK, RepliedMeansRan, DroppedMeansReturned, HeldMeansRan, InSeq
<1> QED
  BY <1>1, <1>2, <1>3

\* Receiving a reply moves no request.
LEMMA ReceiveInv ==
    ASSUME MailboxInv, NEW t \in Ticket, Receive(t)
    PROVE  MailboxInv'
<1> USE DEF MailboxInv, Receive, queueVars
<1>1. MailboxTypeOK' /\ OrderKept'
  BY DEF MailboxTypeOK, ChannelState, WaitResult, OrderKept
<1>2. AcceptedOnce'
  BY DEF MailboxTypeOK, AcceptedOnce, InSeq
<1>3. RepliedMeansRan' /\ DroppedMeansReturned' /\ HeldMeansRan'
  BY DEF MailboxTypeOK, RepliedMeansRan, DroppedMeansReturned, HeldMeansRan, InSeq
<1> QED
  BY <1>1, <1>2, <1>3

\* A caller that times out leaves its request where it is.
LEMMA GiveUpInv ==
    ASSUME MailboxInv, NEW t \in Ticket, GiveUp(t)
    PROVE  MailboxInv'
<1> USE DEF MailboxInv, GiveUp, queueVars
<1>1. MailboxTypeOK' /\ OrderKept'
  BY DEF MailboxTypeOK, ChannelState, WaitResult, OrderKept
<1>2. AcceptedOnce'
  BY DEF MailboxTypeOK, AcceptedOnce, InSeq
<1>3. RepliedMeansRan' /\ DroppedMeansReturned' /\ HeldMeansRan'
  BY DEF MailboxTypeOK, RepliedMeansRan, DroppedMeansReturned, HeldMeansRan, InSeq
<1> QED
  BY <1>1, <1>2, <1>3

\* take() moves the whole inbox behind the backlog: what is waiting is unchanged.
LEMMA TakeInv ==
    ASSUME MailboxInv, Take
    PROVE  MailboxInv'
<1> USE DEF MailboxInv, Take
<1>1. MailboxTypeOK'
  BY DepthAssumption, ConcatProperties, EmptySeq DEF MailboxTypeOK
<1>2. OrderKept'
  BY TakeKeepsOrder DEF OrderKept, MailboxTypeOK
<1>3. AcceptedOnce' /\ RepliedMeansRan' /\ DroppedMeansReturned' /\ HeldMeansRan'
  BY DEF AcceptedOnce, RepliedMeansRan, DroppedMeansReturned, HeldMeansRan, InSeq
<1> QED
  BY <1>1, <1>2, <1>3

\* Running pops the backlog and extends `ran` by the same ticket.
LEMMA RunInv ==
    ASSUME MailboxInv, NEW t \in Ticket, Run(t)
    PROVE  MailboxInv'
<1> USE DEF MailboxInv, Run
<1>1. MailboxTypeOK'
  BY HeadTailProperties, AppendProperties DEF MailboxTypeOK
<1>2. OrderKept'
  <2>1. /\ ran \in Seq(Ticket) /\ batch \in Seq(Ticket)
        /\ inbox \in Seq(Ticket) /\ batch # <<>>
    BY DEF MailboxTypeOK
  <2>2. ran \o (batch \o inbox) = Append(ran, Head(batch)) \o (Tail(batch) \o inbox)
    BY <2>1, RunKeepsOrder
  <2> QED
    BY <2>2 DEF OrderKept
<1>3. AcceptedOnce' /\ DroppedMeansReturned'
  BY DEF AcceptedOnce, DroppedMeansReturned, InSeq
<1>4. \A u : InSeq(ran', u) <=> InSeq(ran, u) \/ u = t
  BY InSeqAppend DEF MailboxTypeOK
<1>5. RepliedMeansRan' /\ HeldMeansRan'
  BY <1>4 DEF RepliedMeansRan, HeldMeansRan
<1> QED
  BY <1>1, <1>2, <1>3, <1>5

\* A reply goes to a ticket that has run.
LEMMA ReplyInv ==
    ASSUME MailboxInv, NEW t \in Ticket, Reply(t)
    PROVE  MailboxInv'
<1> USE DEF MailboxInv, Reply
<1>1. MailboxTypeOK' /\ OrderKept'
  BY DEF MailboxTypeOK, ChannelState, OrderKept
<1>2. AcceptedOnce'
  BY DEF MailboxTypeOK, AcceptedOnce, InSeq
<1>3. RepliedMeansRan' /\ DroppedMeansReturned' /\ HeldMeansRan'
  BY DEF MailboxTypeOK, RepliedMeansRan, DroppedMeansReturned, HeldMeansRan, InSeq
<1> QED
  BY <1>1, <1>2, <1>3

\* MailboxInv is inductive.
LEMMA StepInv == MailboxInv /\ [MailboxNext]_mailboxVars => MailboxInv'
<1> SUFFICES ASSUME MailboxInv, [MailboxNext]_mailboxVars PROVE MailboxInv'
  OBVIOUS
<1>1. ASSUME NEW t \in Ticket, Push(t) PROVE MailboxInv'
  BY <1>1, PushQueuedInv, PushFullInv DEF Push
<1>2. CASE UNCHANGED mailboxVars
  BY <1>2 DEF mailboxVars, MailboxInv, MailboxTypeOK, OrderKept, AcceptedOnce,
              RepliedMeansRan, DroppedMeansReturned, HeldMeansRan, InSeq
<1> QED
  BY <1>1, <1>2, ReceiveInv, GiveUpInv, TakeInv, RunInv, ReplyInv DEF MailboxNext

\* What was accepted is what ran, then the backlog, then the inbox (AgentMailbox).
THEOREM MailboxInvariant == MailboxSpec => []MailboxInv
BY InitInv, StepInv, PTL DEF MailboxSpec

\* Types, and the cap on the queue (AgentMailbox::push).
THEOREM MailboxTypeCorrect == MailboxSpec => []MailboxTypeOK
BY MailboxInvariant, PTL DEF MailboxInv

\* First in, first out, nothing lost or repeated between push and execution.
THEOREM MailboxOrder == MailboxSpec => []OrderKept
BY MailboxInvariant, PTL DEF MailboxInv

\* At most one acceptance per call, none for a refused one.
THEOREM MailboxAcceptedOnce == MailboxSpec => []AcceptedOnce
BY MailboxInvariant, PTL DEF MailboxInv

\* No reply without an execution.
THEOREM MailboxRepliedMeansRan == MailboxSpec => []RepliedMeansRan
BY MailboxInvariant, PTL DEF MailboxInv

-----------------------------------------------------------------------------
(* Refinement of RpcService                                                *)

\* The head of the backlog was accepted and has not run yet: each position of
\* `accepted` belongs to one ticket, and the first Len(ran) are the ones run.
LEMMA HeadIsNew ==
    ASSUME MailboxInv, NEW t \in Ticket, batch # <<>>, t = Head(batch)
    PROVE  ~InSeq(ran, t) /\ InSeq(accepted, t)
<1> USE DEF MailboxInv, MailboxTypeOK
<1>1. /\ Len(ran) \in Nat /\ Len(batch) \in Nat \ {0} /\ Len(inbox) \in Nat
      /\ t = batch[1]
  BY LenProperties, EmptySeq
<1> DEFINE rest == batch \o inbox
           k == Len(ran) + 1
<1>2. /\ rest \in Seq(Ticket)
      /\ Len(rest) = Len(batch) + Len(inbox)
      /\ rest[1] = t
  BY <1>1, ConcatProperties
<1>3. accepted = ran \o rest
  BY DEF OrderKept
<1>4. /\ k \in 1..Len(accepted)
      /\ accepted[k] = t
      /\ \A i \in 1..Len(ran) : i \in 1..Len(accepted) /\ accepted[i] = ran[i] /\ i # k
  <2> HIDE DEF rest
  <2> QED
    BY <1>1, <1>2, <1>3, ConcatProperties
<1>5. \A i, j \in 1..Len(accepted) : accepted[i] = accepted[j] => i = j
  BY DEF AcceptedOnce
<1> QED
  <2> HIDE DEF k
  <2> QED
    BY <1>4, <1>5 DEF InSeq

\* Empty queues are an idle service.
LEMMA InitRefines == MailboxInit => Service!Init
BY DEF MailboxInit, Service!Init, OutcomeOf, InSeq

\* Every step of the mailbox is a step of the service or invisible to callers.
LEMMA StepRefines ==
    MailboxInv /\ [MailboxNext]_mailboxVars => [Service!Next]_(Service!vars)
<1> SUFFICES ASSUME MailboxInv, [MailboxNext]_mailboxVars
             PROVE  [Service!Next]_(Service!vars)
  OBVIOUS
<1> DEFINE oc == [t \in Ticket |-> OutcomeOf(t)]
<1> USE DEF MailboxInv
<1>1. ASSUME NEW t \in Ticket, Push(t) PROVE Service!Next
  <2>1. oc[t] = "unsent" /\ oc' = [oc EXCEPT ![t] = "open"] /\ ran' = ran
    BY <1>1 DEF Push, PushQueued, PushFull, OutcomeOf, DroppedMeansReturned, MailboxTypeOK,
                queueVars
  <2>2. Service!Ask(t)
    BY <2>1 DEF Service!Ask
  <2> QED
    BY <2>2 DEF Service!Next
<1>2. ASSUME NEW t \in Ticket, Receive(t) PROVE Service!Next
  <2>1. oc[t] = "open" /\ ran' = ran
    BY <1>2 DEF Receive, OutcomeOf, DroppedMeansReturned, MailboxTypeOK, queueVars
  <2>2. CASE channel[t] = "refused"
    <3>1. oc' = [oc EXCEPT ![t] = "full"]
      BY <1>2, <2>2 DEF Receive, OutcomeOf, MailboxTypeOK
    <3>2. ~InSeq(ran, t)
      <4>1. ~InSeq(accepted, t)
        BY <2>2 DEF AcceptedOnce
      <4>2. \A i \in 1..Len(ran) : i \in 1..Len(accepted) /\ accepted[i] = ran[i]
        BY ConcatProperties, LenProperties DEF OrderKept, MailboxTypeOK
      <4> QED
        BY <4>1, <4>2 DEF InSeq
    <3>3. Service!Answer(t, "full")
      BY <2>1, <3>1, <3>2 DEF Service!Answer, Service!Done, InSeq
    <3> QED
      BY <3>3 DEF Service!Next
  <2>3. CASE channel[t] = "replied"
    <3>1. oc' = [oc EXCEPT ![t] = "reply"]
      BY <1>2, <2>3 DEF Receive, OutcomeOf, MailboxTypeOK
    <3>2. InSeq(ran, t)
      BY <2>3 DEF RepliedMeansRan
    <3>3. Service!Answer(t, "reply")
      BY <2>1, <3>1, <3>2 DEF Service!Answer, Service!Done, InSeq
    <3> QED
      BY <3>3 DEF Service!Next
  <2> QED
    BY <1>2, <2>2, <2>3 DEF Receive
<1>3. ASSUME NEW t \in Ticket, GiveUp(t) PROVE Service!Next
  <2>1. oc[t] = "open" /\ oc' = [oc EXCEPT ![t] = "timeout"] /\ ran' = ran
    BY <1>3 DEF GiveUp, OutcomeOf, DroppedMeansReturned, MailboxTypeOK, queueVars
  <2>2. Service!Answer(t, "timeout")
    BY <2>1 DEF Service!Answer
  <2> QED
    BY <2>2 DEF Service!Next
<1>4. ASSUME NEW t \in Ticket, Run(t) PROVE Service!Next
  <2>1. ~InSeq(ran, t) /\ InSeq(accepted, t)
    BY <1>4, HeadIsNew DEF Run
  <2>2. oc' = oc /\ ~InSeq(ran, t)
    BY <1>4, <2>1 DEF Run, OutcomeOf
  <2>3. ran' = Append(ran, t)
    BY <1>4 DEF Run
  <2>4. oc[t] \in {"open", "timeout"}
    BY <2>1 DEF OutcomeOf, AcceptedOnce, RepliedMeansRan, MailboxTypeOK, WaitResult,
                DroppedMeansReturned
  <2>5. Service!Perform(t)
    BY <2>2, <2>3, <2>4 DEF Service!Perform, Service!Done, InSeq
  <2> QED
    BY <2>5 DEF Service!Next
<1>5. CASE \/ Take
           \/ \E t \in Ticket : Reply(t)
           \/ UNCHANGED mailboxVars
  <2>1. oc' = oc /\ ran' = ran
    BY <1>5 DEF Take, Reply, mailboxVars, OutcomeOf, MailboxTypeOK
  <2> QED
    BY <2>1 DEF Service!vars
<1> QED
  BY <1>1, <1>2, <1>3, <1>4, <1>5 DEF MailboxNext

\* The queue, its cap, its timeouts and its backlog implement the promise made
\* to callers: at most one execution per call, "reply" only after it, "mailbox
\* full" only instead of it.
THEOREM MailboxImplementsService == MailboxSpec => ServiceSpec
BY InitRefines, StepRefines, MailboxInvariant, PTL DEF MailboxSpec, ServiceSpec, Service!Spec

-----------------------------------------------------------------------------
(* The desktop host around the mailbox                                     *)

\* A handler that waits has posted a ticket.
ConnInv ==
    /\ phase \in [Conn -> {"new", "closed"} \cup Alive]
    /\ current \in [Conn -> Ticket \cup {NoTicket}]
    /\ \A c \in Conn : phase[c] = "waiting" => current[c] \in Ticket

Live == {c \in Conn : phase[c] \in Alive}
CountInv ==
    /\ IsFiniteSet(Live)
    /\ inflight = Cardinality(Live)
    /\ inflight <= MaxConn

\* Where the UI thread is in a frame says what it owes: nothing while it drains,
\* one reply while it is about to send it, the deferred request otherwise.
TurnInv ==
    /\ ui \in {"idle", "draining", "replying", "advancing"}
    /\ pending \in Ticket \cup {NoTicket}
    /\ pending # NoTicket => held = {pending}
    /\ ui \in {"idle", "draining"} /\ pending = NoTicket => held = {}
    /\ ui = "draining" => pending = NoTicket
    /\ ui = "replying" => pending = NoTicket /\ \E t \in Ticket : held = {t}
    /\ ui = "advancing" => pending # NoTicket

ServerInv ==
    /\ MailboxInv
    /\ op \in [Ticket -> OpKind \cup {"none"}]
    /\ ConnInv
    /\ CountInv
    /\ TurnInv
    /\ QuitAfterReply

-----------------------------------------------------------------------------
\* Each step of the server is one step of the mailbox, or none.
LEMMA StepUsesMailbox ==
    ConnInv /\ TurnInv /\ [Next]_vars => [MailboxNext]_mailboxVars
<1> SUFFICES ASSUME ConnInv, TurnInv, [Next]_vars PROVE [MailboxNext]_mailboxVars
  OBVIOUS
<1>1. CASE Listener \/ FrameDone \/ AdvanceJob \/ Exit \/ UNCHANGED vars
  BY <1>1 DEF Listener, ListenerCheck, ListenerNoConnection, Accept, FrameDone, AdvanceJob,
              Exit, vars
<1>2. ASSUME NEW c \in Conn, Handler(c) PROVE [MailboxNext]_mailboxVars
  <2>1. CASE HangUp(c)
    BY <2>1 DEF HangUp
  <2>2. ASSUME NEW t \in Ticket, NEW kind \in OpKind, Post(c, t, kind)
        PROVE  MailboxNext
    BY <2>2 DEF Post, MailboxNext
  <2>3. CASE RespondAnswer(c) \/ RespondTimeout(c)
    BY <2>3 DEF RespondAnswer, RespondTimeout, MailboxNext, ConnInv
  <2> QED
    BY <1>2, <2>1, <2>2, <2>3 DEF Handler
<1>3. CASE Frame
  BY <1>3 DEF Frame, MailboxNext
<1>4. ASSUME NEW t \in Ticket,
             ReplyNow(t) \/ RunDeferred(t) \/ \E ok \in BOOLEAN : RunNow(t, ok)
      PROVE  MailboxNext
  BY <1>4 DEF ReplyNow, RunDeferred, RunNow, MailboxNext
<1>5. ASSUME NEW b \in BOOLEAN, FinishKey(b) \/ FinishJob(b) PROVE MailboxNext
  <2>1. Reply(pending) /\ pending \in held
    BY <1>5 DEF FinishKey, FinishJob, Reply
  <2>2. pending \in Ticket
    BY <1>5, <2>1 DEF TurnInv, FinishKey, FinishJob
  <2> QED
    BY <2>1, <2>2 DEF MailboxNext
<1> QED
  BY <1>1, <1>2, <1>3, <1>4, <1>5 DEF Next, UiWork

-----------------------------------------------------------------------------
(* What the threads of the TCP side keep                                   *)

\* Only an accept makes a handler alive, and only with its count below the cap.
LEMMA CountStep ==
    ConnInv /\ CountInv /\ [Next]_vars => CountInv'
<1> SUFFICES ASSUME ConnInv, CountInv, [Next]_vars PROVE CountInv'
  OBVIOUS
<1> USE DEF CountInv, ConnInv, Alive
<1>0. inflight \in Nat /\ MaxConn \in Nat
  BY FS_CardinalityType, ServerAssumption
<1>1. ASSUME UNCHANGED <<phase, inflight>> PROVE CountInv'
  BY <1>1 DEF Live
<1>2. ASSUME NEW c \in Conn, phase[c] \in Alive, phase' = [phase EXCEPT ![c] = "closed"],
             inflight' = inflight - 1
      PROVE  CountInv'
  <2>1. Live' = Live \ {c} /\ c \in Live
    BY <1>2 DEF Live
  <2> QED
    BY <1>0, <1>2, <2>1, FS_RemoveElement
<1>3. ASSUME NEW c \in Conn, Accept(c) PROVE CountInv'
  <2>1. CASE inflight >= MaxConn
    <3>1. Live' = Live
      BY <1>3, <2>1 DEF Live, Accept
    <3> QED
      BY <1>3, <2>1, <3>1 DEF Accept
  <2>2. CASE ~(inflight >= MaxConn)
    <3>1. Live' = Live \cup {c} /\ c \notin Live
      BY <1>3, <2>2 DEF Live, Accept
    <3> QED
      BY <1>0, <1>3, <2>2, <3>1, FS_AddElement DEF Accept
  <2> QED
    BY <2>1, <2>2
<1>4. ASSUME NEW c \in Conn, phase[c] = "idle" \/ phase[c] = "waiting",
             phase' = [phase EXCEPT ![c] = "waiting"] \/ phase' = [phase EXCEPT ![c] = "idle"],
             inflight' = inflight
      PROVE  CountInv'
  <2>1. Live' = Live
    BY <1>4 DEF Live
  <2> QED
    BY <1>4, <2>1
<1>5. ASSUME NEW c \in Conn, Handler(c) PROVE CountInv'
  <2>1. CASE HangUp(c)
    BY <1>2, <2>1 DEF HangUp
  <2>2. ASSUME NEW t \in Ticket, NEW kind \in OpKind, Post(c, t, kind) PROVE CountInv'
    BY <1>4, <2>2 DEF Post
  <2>3. ASSUME phase[c] = "waiting", NEW answered, Respond(c, answered) PROVE CountInv'
    BY <1>2, <1>4, <2>3 DEF Respond
  <2>4. CASE RespondAnswer(c) \/ RespondTimeout(c)
    BY <2>3, <2>4 DEF RespondAnswer, RespondTimeout
  <2> QED
    BY <1>5, <2>1, <2>2, <2>4 DEF Handler
<1>6. CASE Frame \/ UiWork \/ Exit \/ ListenerCheck \/ ListenerNoConnection \/ UNCHANGED vars
  <2>1. UNCHANGED <<phase, inflight>>
    BY <1>6 DEF Frame, UiWork, Exit, ListenerCheck, ListenerNoConnection, vars, connVars,
                FrameDone, ReplyNow, RunDeferred, RunNow, FinishKey, AdvanceJob, FinishJob
  <2> QED
    BY <1>1, <2>1
<1> QED
  BY <1>3, <1>5, <1>6 DEF Next, Listener

\* Handlers post one ticket and forget it when they answer.
LEMMA ConnStep ==
    ConnInv /\ [Next]_vars => ConnInv'
<1> SUFFICES ASSUME ConnInv, [Next]_vars PROVE ConnInv'
  OBVIOUS
<1> USE DEF ConnInv, Alive
<1>1. ASSUME NEW c \in Conn, Accept(c) \/ HangUp(c) PROVE ConnInv'
  BY <1>1 DEF Accept, HangUp
<1>2. ASSUME NEW c \in Conn, NEW t \in Ticket, NEW kind \in OpKind, Post(c, t, kind)
      PROVE  ConnInv'
  BY <1>2 DEF Post
<1>3. ASSUME NEW c \in Conn, NEW answered, Respond(c, answered) PROVE ConnInv'
  BY <1>3 DEF Respond
<1>4. CASE Frame \/ UiWork \/ Exit \/ ListenerCheck \/ ListenerNoConnection \/ UNCHANGED vars
  <2>1. UNCHANGED <<phase, current>>
    BY <1>4 DEF Frame, UiWork, Exit, ListenerCheck, ListenerNoConnection, vars, connVars,
                FrameDone, ReplyNow, RunDeferred, RunNow, FinishKey, AdvanceJob, FinishJob
  <2> QED
    BY <2>1
<1> QED
  BY <1>1, <1>2, <1>3, <1>4 DEF Next, Listener, Handler, RespondAnswer, RespondTimeout

-----------------------------------------------------------------------------
(* What the UI thread keeps                                                *)

\* The thread owes one reply at a time, and knows which by where it stands.
LEMMA TurnStep ==
    TurnInv /\ ConnInv /\ [Next]_vars => TurnInv'
<1> SUFFICES ASSUME TurnInv, ConnInv, [Next]_vars PROVE TurnInv'
  OBVIOUS
<1> USE ServerAssumption DEF TurnInv
<1>1. CASE Listener \/ Exit \/ (\E c \in Conn : Handler(c)) \/ UNCHANGED vars
  <2>1. UNCHANGED <<ui, pending, held>>
    BY <1>1 DEF Listener, ListenerCheck, ListenerNoConnection, Accept, Exit, Handler, Post,
                HangUp, RespondAnswer, RespondTimeout, Respond, Push, PushQueued, PushFull,
                Receive, GiveUp, queueVars, mailboxVars, uiVars, vars
  <2> QED
    BY <2>1
<1>2. CASE Frame
  BY <1>2 DEF Frame, Take
<1>3. CASE FrameDone \/ AdvanceJob
  BY <1>3 DEF FrameDone, AdvanceJob, mailboxVars
<1>4. ASSUME NEW t \in Ticket, NEW ok \in BOOLEAN, RunNow(t, ok) PROVE TurnInv'
  BY <1>4 DEF RunNow, Run
<1>5. ASSUME NEW t \in Ticket, RunDeferred(t) PROVE TurnInv'
  BY <1>5 DEF RunDeferred, Run
<1>6. ASSUME NEW t \in Ticket, ReplyNow(t) PROVE TurnInv'
  <2>1. held' = {}
    BY <1>6 DEF ReplyNow, Reply
  <2> QED
    BY <1>6, <2>1 DEF ReplyNow
<1>7. ASSUME NEW b \in BOOLEAN, FinishKey(b) \/ FinishJob(b) PROVE TurnInv'
  <2>1. held' = {}
    BY <1>7 DEF FinishKey, FinishJob, Reply
  <2> QED
    BY <1>7, <2>1 DEF FinishKey, FinishJob
<1> QED
  BY <1>1, <1>2, <1>3, <1>4, <1>5, <1>6, <1>7 DEF Next, UiWork

\* What ran was accepted.
LEMMA RanWasAccepted ==
    ASSUME MailboxInv, NEW t, InSeq(ran, t)
    PROVE  InSeq(accepted, t)
<1> USE DEF MailboxInv, MailboxTypeOK
<1>1. \A i \in 1..Len(ran) : i \in 1..Len(accepted) /\ accepted[i] = ran[i]
  BY ConcatProperties, LenProperties DEF OrderKept
<1> QED
  BY <1>1 DEF InSeq

\* The operation under a ticket that was posted is not overwritten.
LEMMA OpStep ==
    MailboxInv /\ op \in [Ticket -> OpKind \cup {"none"}] /\ [Next]_vars
    => /\ op' \in [Ticket -> OpKind \cup {"none"}]
       /\ \A t \in Ticket : InSeq(ran, t) => op'[t] = op[t]
<1> SUFFICES ASSUME MailboxInv, op \in [Ticket -> OpKind \cup {"none"}], [Next]_vars
             PROVE  /\ op' \in [Ticket -> OpKind \cup {"none"}]
                    /\ \A t \in Ticket : InSeq(ran, t) => op'[t] = op[t]
  OBVIOUS
<1>1. ASSUME NEW c \in Conn, NEW u \in Ticket, NEW kind \in OpKind, Post(c, u, kind)
      PROVE  /\ op' \in [Ticket -> OpKind \cup {"none"}]
             /\ \A t \in Ticket : InSeq(ran, t) => op'[t] = op[t]
  <2>1. ~InSeq(accepted, u)
    BY <1>1 DEF Post, Push, PushQueued, PushFull, MailboxInv, AcceptedOnce
  <2>2. ~InSeq(ran, u)
    BY <2>1, RanWasAccepted
  <2> QED
    BY <1>1, <2>2 DEF Post
<1>2. CASE \/ Listener \/ Frame \/ UiWork \/ Exit \/ UNCHANGED vars
           \/ \E c \in Conn : HangUp(c) \/ RespondAnswer(c) \/ RespondTimeout(c)
  <2>1. op' = op
    BY <1>2 DEF Listener, ListenerCheck, ListenerNoConnection, Accept, Frame, UiWork, Exit,
                FrameDone, ReplyNow, RunDeferred, RunNow, FinishKey, AdvanceJob, FinishJob,
                HangUp, RespondAnswer, RespondTimeout, Respond, connVars, vars
  <2> QED
    BY <2>1
<1> QED
  BY <1>1, <1>2 DEF Next, Handler

\* A step never forgets what ran, and holds anew only what it runs now.
LEMMA RanGrows ==
    ASSUME MailboxInv, [MailboxNext]_mailboxVars, NEW t \in Ticket, InSeq(ran, t), t \notin held
    PROVE  InSeq(ran, t)' /\ t \notin held'
<1>1. ASSUME NEW u \in Ticket, Run(u) PROVE InSeq(ran, t)' /\ t \notin held'
  <2>1. ~InSeq(ran, u)
    BY <1>1, HeadIsNew DEF Run
  <2>2. InSeq(ran', t)
    BY <1>1, InSeqAppend DEF Run, MailboxInv, MailboxTypeOK
  <2> QED
    BY <1>1, <2>1, <2>2 DEF Run, InSeq
<1>2. CASE \/ Take \/ UNCHANGED mailboxVars
           \/ \E u \in Ticket : Push(u) \/ Receive(u) \/ GiveUp(u) \/ Reply(u)
  <2>1. ran' = ran /\ held' \subseteq held
    BY <1>2 DEF Take, mailboxVars, Push, PushQueued, PushFull, Receive, GiveUp, Reply, queueVars
  <2> QED
    BY <2>1 DEF InSeq
<1> QED
  BY <1>1, <1>2 DEF MailboxNext

\* cx.quit() follows a reply: the ticket that asked has run and is not held.
LEMMA QuitStep ==
    ServerInv /\ [Next]_vars => QuitAfterReply'
<1> SUFFICES ASSUME ServerInv, [Next]_vars PROVE QuitAfterReply'
  OBVIOUS
<1> USE DEF ServerInv
<1>1. [MailboxNext]_mailboxVars
  BY StepUsesMailbox
<1>2. CASE quitting
  <2>1. PICK t \in Ticket : op[t] \in {"shutdown", "quit"} /\ InSeq(ran, t) /\ t \notin held
    BY <1>2 DEF QuitAfterReply
  <2>2. op'[t] = op[t]
    BY <2>1, OpStep
  <2>3. InSeq(ran, t)' /\ t \notin held'
    BY <1>1, <2>1, RanGrows
  <2> QED
    BY <2>1, <2>2, <2>3 DEF QuitAfterReply
<1>3. ASSUME NEW t \in Ticket, Reply(t), op[t] \in {"shutdown", "quit"}, op' = op
      PROVE  QuitAfterReply'
  <2>1. InSeq(ran, t)' /\ t \notin held'
    BY <1>3 DEF Reply, MailboxInv, HeldMeansRan, InSeq
  <2> QED
    BY <1>3, <2>1 DEF QuitAfterReply
<1>4. ASSUME ~quitting, quitting' PROVE QuitAfterReply'
  <2>1. ASSUME NEW t \in Ticket, ReplyNow(t) PROVE QuitAfterReply'
    BY <1>3, <1>4, <2>1 DEF ReplyNow, connVars
  <2>2. ASSUME NEW b \in BOOLEAN, FinishKey(b) PROVE QuitAfterReply'
    BY <1>3, <1>4, <2>2 DEF FinishKey, TurnInv, connVars
  <2>3. \/ \E t \in Ticket : ReplyNow(t)
        \/ \E b \in BOOLEAN : FinishKey(b)
    BY <1>4 DEF Next, Listener, ListenerCheck, ListenerNoConnection, Accept, Handler, Post,
                HangUp, RespondAnswer, RespondTimeout, Respond, Frame, UiWork, FrameDone,
                RunDeferred, RunNow, AdvanceJob, FinishJob, Exit, uiVars, vars
  <2> QED
    BY <2>1, <2>2, <2>3
<1> QED
  BY <1>2, <1>4 DEF QuitAfterReply

-----------------------------------------------------------------------------
\* No connection, no request: nothing is owed.
LEMMA ServerInit == Init => ServerInv
<1> SUFFICES ASSUME Init PROVE ServerInv
  OBVIOUS
<1> USE DEF Init
<1>1. MailboxInv
  BY InitInv
<1>2. CountInv
  <2>1. Live = {}
    BY DEF Live, Alive
  <2> QED
    BY <2>1, FS_EmptySet, ServerAssumption DEF CountInv
<1>3. TurnInv /\ ConnInv /\ QuitAfterReply /\ op \in [Ticket -> OpKind \cup {"none"}]
  BY DEF TurnInv, ConnInv, QuitAfterReply, MailboxInit
<1> QED
  BY <1>1, <1>2, <1>3 DEF ServerInv

\* ServerInv is inductive.
LEMMA ServerStep == ServerInv /\ [Next]_vars => ServerInv'
<1> SUFFICES ASSUME ServerInv, [Next]_vars PROVE ServerInv'
  OBVIOUS
<1>1. [MailboxNext]_mailboxVars
  BY StepUsesMailbox DEF ServerInv
<1>2. MailboxInv'
  BY <1>1, StepInv DEF ServerInv
<1> QED
  BY <1>2, OpStep, ConnStep, CountStep, TurnStep, QuitStep DEF ServerInv

\* The connection counter, the UI thread's debts and the queue, together, in
\* every state the process reaches (serve_mailbox, apply_agent).
THEOREM ServerInvariant == Spec => []ServerInv
BY ServerInit, ServerStep, PTL DEF Spec

\* The counter behind claim_connection is the number of live handlers.
THEOREM ServerInflightExact == Spec => []InflightExact
<1>1. ServerInv => InflightExact
  BY DEF ServerInv, CountInv, Live, InflightExact
<1> QED
  BY <1>1, ServerInvariant, PTL

\* apply_agent owes a reply for at most one request, the one it is serving.
THEOREM ServerOneRequestAtATime == Spec => []OneRequestAtATime
<1>1. ServerInv => OneRequestAtATime
  <2> SUFFICES ASSUME TurnInv PROVE OneRequestAtATime
    BY DEF ServerInv
  <2>1. held = {} \/ \E t \in Ticket : held = {t}
    BY DEF TurnInv
  <2>2. Cardinality(held) = 0 \/ Cardinality(held) = 1
    <3>1. CASE held = {}
      BY <3>1, FS_EmptySet
    <3>2. CASE \E t \in Ticket : held = {t}
      BY <3>2, FS_Singleton
    <3> QED
      BY <2>1, <3>1, <3>2
  <2> QED
    BY <2>2 DEF TurnInv, OneRequestAtATime
<1> QED
  BY <1>1, ServerInvariant, PTL

\* The app quits only after the request that asked for it was replied to.
THEOREM ServerQuitAfterReply == Spec => []QuitAfterReply
BY ServerInvariant, PTL DEF ServerInv

\* The whole process, seen from its queue, is a Mailbox: handlers, deferred
\* keybindings, scrolled screenshots and quits touch it only through push, wait,
\* take and reply.
THEOREM ServerUsesMailbox == Spec => MailboxSpec
<1>1. Init => MailboxInit
  BY DEF Init
<1>2. ServerInv /\ [Next]_vars => [MailboxNext]_mailboxVars
  BY StepUsesMailbox DEF ServerInv
<1> QED
  BY <1>1, <1>2, ServerInvariant, PTL DEF Spec, MailboxSpec

\* Requests run in the order they were accepted, in the composed process too.
THEOREM ServerOrder == Spec => []OrderKept
BY ServerUsesMailbox, MailboxOrder, PTL

\* What a TCP client of the desktop host is promised: at most one execution per
\* line, a reply only after it, "mailbox full" only instead of it.
THEOREM ServerImplementsService == Spec => ServiceSpec
BY ServerUsesMailbox, MailboxImplementsService, PTL
=============================================================================

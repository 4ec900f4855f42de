------------------------------- MODULE Mailbox -------------------------------
(***************************************************************************)
(* AgentMailbox (crates/gpui-agent/src/mailbox.rs): the bounded inbox that *)
(* carries requests from the TCP threads to the single UI thread, and the  *)
(* one-shot mpsc channel that carries each response back.                  *)
(*                                                                         *)
(* A ticket is one call of AgentMailbox::wait, with the channel it makes.  *)
(* `batch` is what the UI thread has taken and not yet run (the desktop    *)
(* app's keybinding_backlog), `held` the MailboxRequests it has run and    *)
(* not yet replied to.  `accepted` and `ran` are history: the order in     *)
(* which push queued tickets and the order in which the UI ran them.       *)
(***************************************************************************)
EXTENDS Naturals, Sequences

CONSTANTS
    Ticket,
    MaxDepth         \* MAX_MAILBOX_DEPTH

ASSUME DepthAssumption == MaxDepth \in Nat

VARIABLES
    inbox,           \* Arc<Mutex<Vec<MailboxRequest>>>
    batch,           \* taken by the UI thread, not yet run
    held,            \* run by the UI thread, reply not yet sent
    channel,         \* state of each ticket's mpsc pair
    result,          \* what wait() returned
    accepted, ran

queueVars == <<inbox, batch, held>>
mailboxVars == <<inbox, batch, held, channel, result, accepted, ran>>

(***************************************************************************)
(* "refused" and "replied" are a response sitting in the channel; after    *)
(* "dropped" the Receiver is gone and a send fails silently.               *)
(***************************************************************************)
ChannelState == {"unsent", "waiting", "refused", "replied", "dropped"}
WaitResult == {"none", "reply", "full", "timeout"}

InSeq(s, t) == \E i \in 1..Len(s) : s[i] = t

MailboxInit ==
    /\ inbox = <<>>
    /\ batch = <<>>
    /\ held = {}
    /\ channel = [t \in Ticket |-> "unsent"]
    /\ result = [t \in Ticket |-> "none"]
    /\ accepted = <<>>
    /\ ran = <<>>

-----------------------------------------------------------------------------
(* The TCP thread                                                          *)

\* push below the cap: the request and its Sender join the queue.
PushQueued(t) ==
    /\ channel[t] = "unsent"
    /\ Len(inbox) < MaxDepth
    /\ inbox' = Append(inbox, t)
    /\ accepted' = Append(accepted, t)
    /\ channel' = [channel EXCEPT ![t] = "waiting"]
    /\ UNCHANGED <<batch, held, result, ran>>

\* push at the cap: "mailbox full" is sent at once and nothing is queued.
PushFull(t) ==
    /\ channel[t] = "unsent"
    /\ Len(inbox) >= MaxDepth
    /\ channel' = [channel EXCEPT ![t] = "refused"]
    /\ UNCHANGED <<queueVars, result, accepted, ran>>

Push(t) == PushQueued(t) \/ PushFull(t)

\* recv_timeout finds a response.
Receive(t) ==
    /\ channel[t] \in {"refused", "replied"}
    /\ result' = [result EXCEPT ![t] = IF channel[t] = "refused" THEN "full" ELSE "reply"]
    /\ channel' = [channel EXCEPT ![t] = "dropped"]
    /\ UNCHANGED <<queueVars, accepted, ran>>

\* recv_timeout expires: the receiver is dropped, the queued request is not.
GiveUp(t) ==
    /\ channel[t] = "waiting"
    /\ result' = [result EXCEPT ![t] = "timeout"]
    /\ channel' = [channel EXCEPT ![t] = "dropped"]
    /\ UNCHANGED <<queueVars, accepted, ran>>

-----------------------------------------------------------------------------
(* The UI thread                                                           *)

\* Fault: new requests put in front of the backlog.
TakeInFront ==
    /\ batch' = inbox \o batch
    /\ inbox' = <<>>
    /\ UNCHANGED <<held, channel, result, accepted, ran>>

\* mem::take swaps the whole queue out; the app appends it to its backlog.
Take ==
    /\ batch' = batch \o inbox
    /\ inbox' = <<>>
    /\ UNCHANGED <<held, channel, result, accepted, ran>>

\* Fault: the backlog peeked at instead of popped.
RunWithoutPop(t) ==
    /\ batch # <<>>
    /\ t = Head(batch)
    /\ Len(ran) <= 2 * Len(accepted)
    /\ held' = held \cup {t}
    /\ ran' = Append(ran, t)
    /\ UNCHANGED <<inbox, batch, channel, result, accepted>>

\* Pop the oldest taken request and execute it.
Run(t) ==
    /\ batch # <<>>
    /\ t = Head(batch)
    /\ batch' = Tail(batch)
    /\ held' = held \cup {t}
    /\ ran' = Append(ran, t)
    /\ UNCHANGED <<inbox, channel, result, accepted>>

\* MailboxRequest::reply consumes the request; a failed send is ignored.
Reply(t) ==
    /\ t \in held
    /\ held' = held \ {t}
    /\ channel' = IF channel[t] = "waiting"
                  THEN [channel EXCEPT ![t] = "replied"]
                  ELSE channel
    /\ UNCHANGED <<inbox, batch, result, accepted, ran>>

-----------------------------------------------------------------------------
MailboxNext ==
    \/ \E t \in Ticket : Push(t) \/ Receive(t) \/ GiveUp(t) \/ Run(t) \/ Reply(t)
    \/ Take

MailboxSpec == MailboxInit /\ [][MailboxNext]_mailboxVars

-----------------------------------------------------------------------------
(* Properties                                                              *)

\* The variables have the types of the Rust fields, and the queue never holds
\* more than MAX_MAILBOX_DEPTH requests (AgentMailbox::push).
MailboxTypeOK ==
    /\ inbox \in Seq(Ticket)
    /\ Len(inbox) <= MaxDepth
    /\ batch \in Seq(Ticket)
    /\ held \in SUBSET Ticket
    /\ channel \in [Ticket -> ChannelState]
    /\ result \in [Ticket -> WaitResult]
    /\ accepted \in Seq(Ticket)
    /\ ran \in Seq(Ticket)

\* Requests run in the order push accepted them, none lost between the two
\* queues and none run twice, however pushes, drains, timeouts and late replies
\* interleave (AgentMailbox::push, take; the app's backlog.extend(take())).
OrderKept == accepted = ran \o (batch \o inbox)

\* Every ticket is accepted at most once, so OrderKept makes each run at most
\* once; a ticket refused with "mailbox full" is in no queue and never runs.
AcceptedOnce ==
    /\ \A i, j \in 1..Len(accepted) : accepted[i] = accepted[j] => i = j
    /\ \A t \in Ticket :
         channel[t] = "unsent" \/ channel[t] = "refused" \/ result[t] = "full"
             => ~InSeq(accepted, t)

\* A caller told "reply" had its request executed: the response it reads cannot
\* have been produced for a request that is still queued.
RepliedMeansRan ==
    \A t \in Ticket :
        channel[t] = "replied" \/ result[t] = "reply" => InSeq(ran, t)

(***************************************************************************)
(* The mailbox implements the promise made to its callers.                 *)
(***************************************************************************)
OutcomeOf(t) ==
    IF result[t] # "none" THEN result[t]
    ELSE IF channel[t] = "unsent" THEN "unsent" ELSE "open"

Service == INSTANCE RpcService WITH
    outcome <- [t \in Ticket |-> OutcomeOf(t)],
    performed <- ran

\* Every behaviour of the queue and its channels is one of RpcService: at most
\* one execution per call, "reply" only after it, "full" only instead of it.
ServiceSpec == Service!Spec
=============================================================================

----------------------------- MODULE RpcService -----------------------------
(***************************************************************************)
(* What AgentMailbox promises to the TCP threads that call                 *)
(* AgentMailbox::wait (crates/gpui-agent/src/mailbox.rs), with no queue,   *)
(* no channel and no UI frame: a caller asks once, the host performs a     *)
(* request at most once, "reply" is only ever returned for a request that  *)
(* was performed, "full" only for one that never will be, and "timeout"    *)
(* says nothing about whether the request ran or is still going to.        *)
(***************************************************************************)
EXTENDS Naturals, Sequences

CONSTANT Ticket      \* one per call of wait

VARIABLES
    outcome,         \* what the caller of each ticket knows
    performed        \* the requests the host has executed, in order, once per execution

vars == <<outcome, performed>>

Outcome == {"unsent", "open", "reply", "full", "timeout"}

TypeOK ==
    /\ outcome \in [Ticket -> Outcome]
    /\ performed \in Seq(Ticket)

Init ==
    /\ outcome = [t \in Ticket |-> "unsent"]
    /\ performed = <<>>

Done(t) == \E i \in 1..Len(performed) : performed[i] = t

Ask(t) ==
    /\ outcome[t] = "unsent"
    /\ outcome' = [outcome EXCEPT ![t] = "open"]
    /\ UNCHANGED performed

\* A caller that gave up does not withdraw its request.
Perform(t) ==
    /\ outcome[t] \in {"open", "timeout"}
    /\ ~Done(t)
    /\ performed' = Append(performed, t)
    /\ UNCHANGED outcome

Answer(t, what) ==
    /\ outcome[t] = "open"
    /\ what = "reply" => Done(t)
    /\ what = "full" => ~Done(t)
    /\ outcome' = [outcome EXCEPT ![t] = what]
    /\ UNCHANGED performed

Next ==
    \E t \in Ticket :
        \/ Ask(t)
        \/ Perform(t)
        \/ \E what \in {"reply", "full", "timeout"} : Answer(t, what)

Spec == Init /\ [][Next]_vars
=============================================================================

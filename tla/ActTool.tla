------------------------------- MODULE ActTool -------------------------------
(***************************************************************************)
(* The `act` tool of the MCP server (mcp.rs): the first clause of an        *)
(* instruction, decided and dispatched as in PolicyRunner, without a         *)
(* history, without an endpoint and without reading the effect back.         *)
(* `Next` is a run of either tool.                                          *)
(***************************************************************************)
EXTENDS PolicyRunner

\* The abstain envelope
ActAbstains ==
    /\ Finish("abstained")
    /\ UNCHANGED <<setup, tree, host, loopVars, decision, asking, changes, lost, done>>

\* Abstain, BLOCKED and WAIT are all answered with the envelope
ActDeclines == Deciding /\ ActAbstains

\* DONE is a success in which nothing was dispatched
ActDone ==
    /\ Deciding /\ MayWin([kind |-> "DONE", target |-> Root]) /\ Finish("done")
    /\ UNCHANGED <<setup, tree, host, loopVars, decision, asking, changes, lost, done>>

\* No endpoint is asked for a text a clause does not give
ActTextMissing == pc = "text" /\ Clause.lits = {} /\ ActAbstains

\* virtual_type clicks the field first; a text with a character no key types is an
\* error behind that.  The caller hears of it, or the line is written again
ActTypesInPart ==
    /\ pc = "dispatch" /\ ByPointer(decision.offer) /\ decision.offer.kind = "TYPE"
    /\ HostAccepts /\ Perform("")
    /\ \/ Finish("error") /\ UNCHANGED lost
       \/ lost < MaxLost /\ lost' = lost + 1 /\ UNCHANGED <<pc, outcome>>
    /\ UNCHANGED <<setup, tree, loopVars, decision, asking, changes>>

\* Fault: the answer of the dispatch is not enough, the clause is decided again
ActReplyLoops ==
    /\ pc = "verify" /\ tree' = host /\ pc' = "loop"
    /\ UNCHANGED <<setup, host, loopVars, decision, asking, outcome, changes, lost, done>>

\* The reply carries what changed since the decision, or the error of asking for it
ActReply ==
    /\ pc = "verify" /\ tree' \in {tree, host} /\ Finish("done")
    /\ UNCHANGED <<setup, host, loopVars, decision, asking, changes, lost, done>>

ActCallFails == pc # "verify" /\ CallFails

Act ==
    \/ ObserveFirst \/ Reobserve \/ ActCallFails
    \/ DecideAction \/ ActDeclines \/ ActDone \/ ResolveText \/ ActTextMissing
    \/ Dispatch \/ DispatchLost \/ ActTypesInPart \/ DispatchStale \/ ActReply

\* Ended, or waiting for a process that does not end
Rest ==
    /\ pc = "ended" \/ (asking.state = "reaping" /\ ~setup.exits)
    /\ UNCHANGED vars

Step == (setup.tool = "run" /\ Run) \/ (setup.tool = "act" /\ Act)

Next == Step \/ OthersAct \/ Rest

\* Both are one thread each, and every call they make has a timeout: they go on
Spec == Init /\ [][Next]_vars /\ WF_vars(Step)

-----------------------------------------------------------------------------
(* Properties                                                               *)

\* Every goal comes to an outcome: steps, refusals in a row and waiting are all
\* bounded, provided the endpoint's process ends (AskReaped has no timeout)
RunEnds == setup.exits => <>(pc = "ended")

\* `act` carries out one action of its instruction, however often the target was
\* refused and decided on again; an answer lost on the way may cost one more
ActActsOnce == setup.tool = "act" => Len(done) <= 1 + lost

\* mcp.rs "node-bound mutating ops carry the build-time fingerprint ...; the host
\* recomputes it on the dispatch path in the same call": whatever the delivery
EveryActIsChecked ==
    setup.tool = "act" =>
      \A i \in DOMAIN done : done[i].offer.kind \in NodeKinds => done[i].met = done[i].seen

\* mcp.rs "Abstains -> no dispatch, ever"
AbstainMeansNothingDone ==
    setup.tool = "act" /\ outcome = "abstained" => done = <<>>
=============================================================================

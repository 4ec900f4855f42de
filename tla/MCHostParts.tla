---------------------------- MODULE MCHostParts ----------------------------
(***************************************************************************)
(* Four parts of a host that share no state, side by side: each behaviour  *)
(* exercises one, `part`, and leaves the others where they started.        *)
(*   "wait"   three trees: one the spec wants, one it does not, one it     *)
(*            cannot judge                                                 *)
(*   "ring"   two pollers: one goes on from the last event of a short      *)
(*            page, the other from `latest` after a page that may hold the *)
(*            whole ring                                                   *)
(*   "store"  four texts: nothing, a blank, a title and the same title     *)
(*            with blanks                                                  *)
(*   "shot"   a list of up to six rows in a window of up to three          *)
(***************************************************************************)
EXTENDS WaitUntil, EventRing, TodoStore, ScrolledShot

CONSTANTS good, bad, odd, paging, whole

VARIABLE part

MCTree == {good, bad, odd}
MCWanted == {good}
MCUnanswerable == {odd}

MCPoller == {paging, whole}
MCLimit == [p \in MCPoller |-> IF p = paging THEN 2 ELSE 4]
MCByLatest == {whole}

MCText == {"", " ", "milk", " milk"}
MCTrimmed == [text \in MCText |-> IF text \in {"", " "} THEN "" ELSE "milk"]

vars == <<part, waitVars, ringVars, store, shotVars>>

\* A part that is left alone: the wait is over, the window has no list.
WaitStarts ==
    IF part = "wait" THEN WaitInit
    ELSE /\ tracks = TRUE /\ tree = bad /\ rev = 0 /\ pc = "done" /\ reply = NoReply
         /\ probed = NoRev /\ checked = NoRev /\ late = FALSE /\ verdict = "ok"
         /\ seen = {bad} /\ asserts = 0 /\ lost = 0 /\ refused = FALSE

Init ==
    /\ part \in {"wait", "ring", "store", "shot"}
    /\ WaitStarts
    /\ RingInit
    /\ StoreInit
    /\ ShotInit
    /\ part # "shot" => rows = <<>> /\ view = 0

Waiting(step) == part = "wait" /\ step /\ UNCHANGED <<part, ringVars, store, shotVars>>
Polling == part = "ring" /\ RingNext /\ UNCHANGED <<part, waitVars, store, shotVars>>
Storing == part = "store" /\ StoreNext /\ UNCHANGED <<part, waitVars, ringVars, shotVars>>
Shooting(step) == part = "shot" /\ step /\ UNCHANGED <<part, waitVars, ringVars, store>>

Next == Waiting(WaitNext) \/ Polling \/ Storing \/ Shooting(ShotNext)

\* The fairness of WaitFairSpec and ShotSpec
Spec ==
    /\ Init /\ [][Next]_vars
    /\ WF_vars(Waiting(PostProbe)) /\ WF_vars(Waiting(PostAssert))
    /\ WF_vars(Waiting(ReadProbe)) /\ WF_vars(Waiting(ReadAssert))
    /\ WF_vars(Waiting(ServeRevision)) /\ WF_vars(Waiting(ServeAssert))
    /\ WF_vars(Waiting(Deadline))
    /\ WF_vars(Shooting(Frame))
=============================================================================

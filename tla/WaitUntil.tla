------------------------------ MODULE WaitUntil ------------------------------
(***************************************************************************)
(* wait_until on a mailbox host: wait_until_via_mailbox (crates/           *)
(* gpui-agent/src/server.rs).  One TCP thread polls the UI thread: a cheap *)
(* `revision` probe first, and the tree-building `assert` only when the    *)
(* revision is not the one already asserted.  Meanwhile the human and the  *)
(* other connections change the tree.                                      *)
(*                                                                         *)
(* A call of mailbox.wait is posted, then visits the host (or is lost: the *)
(* drain timeout, or a full mailbox), then is read by the TCP thread.  The *)
(* queue in between is module Mailbox; here a request simply may take as   *)
(* long as it likes.  The host keeps the contract of module AgentHost.     *)
(***************************************************************************)
EXTENDS Naturals

CONSTANTS
    Tree,            \* the trees the host may show
    Wanted,          \* those that satisfy the AssertSpec
    Unanswerable,    \* those on which in_viewport cannot be evaluated (headless)
    NoRev,           \* revision() = None, and checked_rev = None
    MaxChanges,      \* bound: host changes explored
    MaxLost,         \* bound: probes lost
    SyncsDraft       \* every request bumps (TodoApp::sync_draft_from_input)

ASSUME WaitAssumption ==
    /\ Wanted \subseteq Tree
    /\ Unanswerable \subseteq Tree \ Wanted
    /\ NoRev \notin Nat
    /\ MaxChanges \in Nat
    /\ MaxLost \in Nat
    /\ SyncsDraft \in BOOLEAN

VARIABLES
    tracks,          \* the host reports revisions
    tree, rev,       \* the host's state and its revision counter
    pc,              \* where the TCP thread is
    reply,           \* the response on its way back
    probed,          \* probed_rev
    checked,         \* checked_rev
    late,            \* Instant::now() >= deadline
    verdict,         \* the response to the wait_until line
    seen,            \* history: the trees the host has shown since this poll began
    asserts,         \* history: asserts served since the last change (revision hosts)
    lost,            \* history: probes lost
    refused          \* history: an assert has met a full mailbox

hostVars == <<tracks, tree, rev>>
threadVars == <<pc, reply, probed, checked, late, verdict>>
history == <<seen, asserts, lost, refused>>
waitVars == <<hostVars, threadVars, history>>

None == "none"
Answer(kind) == [kind |-> kind, rev |-> NoRev]
NoReply == Answer(None)
Revision(at) == IF tracks THEN at ELSE NoRev

WaitInit ==
    /\ tracks \in BOOLEAN
    /\ tree \in Tree
    /\ rev = 0
    /\ pc = "probe"
    /\ reply = NoReply
    /\ probed = NoRev
    /\ checked = NoRev
    /\ late = FALSE
    /\ verdict = None
    /\ seen = {tree}
    /\ asserts = 0
    /\ lost = 0
    /\ refused = FALSE

-----------------------------------------------------------------------------
(* The host                                                                *)

\* A mutation: the revision is bumped whether or not the tree looks different.
HostChange(new) ==
    /\ rev < MaxChanges
    /\ rev' = rev + 1
    /\ tree' = new
    /\ seen' = seen \cup {new}
    /\ asserts' = 0
    /\ UNCHANGED <<tracks, threadVars, lost, refused>>

\* apply_agent calls sync_draft_from_input before it serves any request.
ServeBump == IF SyncsDraft THEN rev + 1 ELSE rev

ServeRevision ==
    /\ pc = "probing"
    /\ reply = NoReply
    /\ ServeBump <= MaxChanges
    /\ rev' = ServeBump
    /\ reply' = [kind |-> "rev", rev |-> Revision(ServeBump)]
    /\ UNCHANGED <<tracks, tree, pc, probed, checked, late, verdict, history>>

ServeAssert ==
    /\ pc = "asserting"
    /\ reply = NoReply
    /\ ServeBump <= MaxChanges
    /\ rev' = ServeBump
    /\ reply' = IF tree \in Wanted THEN Answer("ok")
                ELSE IF tree \in Unanswerable THEN Answer("unavailable")
                ELSE Answer("failed")
    /\ asserts' = IF tracks THEN asserts + 1 ELSE asserts
    /\ UNCHANGED <<tracks, tree, pc, probed, checked, late, verdict, seen, lost, refused>>

\* AgentMailbox::push at the cap answers for the host.
FullMailbox ==
    /\ pc = "asserting"
    /\ reply = NoReply
    /\ reply' = Answer("full")
    /\ refused' = TRUE
    /\ UNCHANGED <<hostVars, pc, probed, checked, late, verdict, seen, asserts, lost>>

-----------------------------------------------------------------------------
(* The TCP thread                                                          *)

Deadline ==
    /\ ~late
    /\ pc # "done"
    /\ late' = TRUE
    /\ UNCHANGED <<hostVars, pc, reply, probed, checked, verdict, history>>

PostProbe ==
    /\ pc = "probe"
    /\ pc' = "probing"
    /\ probed' = NoRev
    /\ UNCHANGED <<hostVars, reply, checked, late, verdict, history>>

\* Sleep (at most 10 ms, no longer than the deadline) and poll again.
NextPoll ==
    /\ pc' = "probe"
    /\ seen' = {tree}
    /\ UNCHANGED verdict

Return(answer) ==
    /\ pc' = "done"
    /\ verdict' = answer
    /\ UNCHANGED seen

\* Fault: no deadline test on the path that skips the assert.
ReadProbeSpins ==
    /\ pc = "probing"
    /\ reply # NoReply
    /\ reply' = NoReply
    /\ IF reply.rev # NoRev /\ checked = reply.rev
       THEN NextPoll /\ UNCHANGED probed
       ELSE /\ probed' = reply.rev
            /\ pc' = "assert"
            /\ UNCHANGED <<seen, verdict>>
    /\ UNCHANGED <<hostVars, checked, late, asserts, lost, refused>>

\* The revision already asserted needs no second look ("nothing to re-check").
ReadProbe ==
    /\ pc = "probing"
    /\ reply # NoReply
    /\ reply' = NoReply
    /\ IF reply.rev # NoRev /\ checked = reply.rev
       THEN /\ IF late THEN Return("timeout") ELSE NextPoll
            /\ UNCHANGED probed
       ELSE /\ probed' = reply.rev
            /\ pc' = "assert"
            /\ UNCHANGED <<seen, verdict>>
    /\ UNCHANGED <<hostVars, checked, late, asserts, lost, refused>>

\* A probe that timed out or met a full mailbox counts as "no revision".
LoseProbe ==
    /\ pc = "probing"
    /\ lost < MaxLost
    /\ reply' = NoReply
    /\ pc' = "assert"
    /\ lost' = lost + 1
    /\ UNCHANGED <<hostVars, probed, checked, late, verdict, seen, asserts, refused>>

PostAssert ==
    /\ pc = "assert"
    /\ pc' = "asserting"
    /\ UNCHANGED <<hostVars, reply, probed, checked, late, verdict, history>>

\* Fault: checked_rev never updated, the every-poll behaviour.
ReadAssertForgets ==
    /\ pc = "asserting"
    /\ reply # NoReply
    /\ reply' = NoReply
    /\ IF reply.kind = "ok" THEN Return("ok")
       ELSE IF reply.kind = "unavailable" THEN Return("error")
       ELSE IF late THEN Return("timeout") ELSE NextPoll
    /\ UNCHANGED <<hostVars, probed, checked, late, asserts, lost, refused>>

\* Fault: checked_rev taken from the host once the assert has answered.
ReadAssertReprobes ==
    /\ pc = "asserting"
    /\ reply # NoReply
    /\ reply' = NoReply
    /\ checked' = IF reply.kind # "ok" THEN Revision(rev) ELSE checked
    /\ IF reply.kind = "ok" THEN Return("ok")
       ELSE IF reply.kind = "unavailable" THEN Return("error")
       ELSE IF late THEN Return("timeout") ELSE NextPoll
    /\ UNCHANGED <<hostVars, probed, late, asserts, lost, refused>>

\* Any response that is not ok is taken for a failed assert of the probed revision.
ReadAssert ==
    /\ pc = "asserting"
    /\ reply # NoReply
    /\ reply' = NoReply
    /\ checked' = IF reply.kind # "ok" /\ probed # NoRev THEN probed ELSE checked
    /\ IF reply.kind = "ok" THEN Return("ok")
       ELSE IF reply.kind = "unavailable" THEN Return("error")
       ELSE IF late THEN Return("timeout") ELSE NextPoll
    /\ UNCHANGED <<hostVars, probed, late, asserts, lost, refused>>

\* The drain timeout on the assert ends the wait with that error.
LoseAssert ==
    /\ pc = "asserting"
    /\ reply' = NoReply
    /\ Return("error")
    /\ UNCHANGED <<hostVars, probed, checked, late, asserts, lost, refused>>

-----------------------------------------------------------------------------
Thread ==
    \/ PostProbe \/ ReadProbe \/ LoseProbe
    \/ PostAssert \/ ReadAssert \/ LoseAssert

Host ==
    \/ ServeRevision \/ ServeAssert \/ FullMailbox
    \/ \E new \in Tree : HostChange(new)

WaitNext == Thread \/ Host \/ Deadline

WaitSpec == WaitInit /\ [][WaitNext]_waitVars

(***************************************************************************)
(* The TCP thread runs (recv_timeout bounds each of its waits) and time    *)
(* passes; the UI thread serves what it is asked.  Nothing is asked of the *)
(* human or of other clients.                                              *)
(***************************************************************************)
WaitFairSpec ==
    /\ WaitSpec
    /\ WF_waitVars(PostProbe) /\ WF_waitVars(PostAssert)
    /\ WF_waitVars(ReadProbe) /\ WF_waitVars(ReadAssert)
    /\ WF_waitVars(ServeRevision) /\ WF_waitVars(ServeAssert)
    /\ WF_waitVars(Deadline)

-----------------------------------------------------------------------------
(* Properties                                                              *)

Reply == [kind : {None, "rev", "ok", "failed", "unavailable", "full"},
          rev : Nat \cup {NoRev}]

\* The TCP thread's locals keep their Rust types, and a response is in flight
\* only while the thread waits for one of that kind.
TypeOK ==
    /\ tracks \in BOOLEAN
    /\ tree \in Tree
    /\ rev \in Nat
    /\ pc \in {"probe", "probing", "assert", "asserting", "done"}
    /\ reply \in Reply
    /\ reply # NoReply => pc \in {"probing", "asserting"}
    /\ pc = "probing" => reply = NoReply \/ reply.kind = "rev"
    /\ pc = "asserting" => reply.kind # "rev"
    /\ reply.kind # "rev" => reply.rev = NoRev
    /\ probed \in Nat \cup {NoRev}
    /\ checked \in Nat \cup {NoRev}
    /\ late \in BOOLEAN
    /\ verdict \in {None, "ok", "timeout", "error"}
    /\ verdict # None => pc = "done"
    /\ seen \subseteq Tree
    /\ asserts \in Nat
    /\ lost \in Nat
    /\ refused \in BOOLEAN

\* "Revision the last Assert covered": while the host is still at checked_rev the
\* condition is false, so skipping the assert cannot miss it, however changes
\* fall between the probe, the assert and their replies.
AssertCovered == tracks /\ checked = rev => tree \notin Wanted

\* ... as long as no assert has met a full mailbox.
CheckedMeansFalse == ~refused => AssertCovered

\* wait_until never answers "timed out" for a condition that held during the
\* whole of its last poll, probe and assert included, under the same proviso.
NoFalseTimeout == verdict = "timeout" /\ ~refused => ~(seen \subseteq Wanted)

\* "An unchanged tree costs zero rebuilds": the first assert after a change may
\* follow a probe from before it, so a tree is built for this wait at most twice,
\* plus once for each probe that was lost.
RebuildsBounded == asserts <= 2 + lost

\* A wait_until always ends: ok, timed out or an error.
WaitReturns == <>(pc = "done")
=============================================================================

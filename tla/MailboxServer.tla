---------------------------- MODULE MailboxServer ----------------------------
(***************************************************************************)
(* The desktop host: AgentServer::serve_mailbox and handle_stream_mailbox  *)
(* (crates/gpui-agent/src/server.rs), one thread per TCP connection,       *)
(* posting onto the Mailbox that TodoApp::apply_agent (apps/todo/src/      *)
(* app.rs) drains on the GPUI UI thread at every frame.                    *)
(*                                                                         *)
(* Requests are told apart by how the UI thread serves them:               *)
(*   "plain"     run and replied to inside the frame;                      *)
(*   "key"       keybinding: the reply waits for the deferred Action;      *)
(*   "quit"      a confirmed quit keybinding;                              *)
(*   "job"       scrolled screenshot: the reply comes some frames later;   *)
(*   "shutdown"  Op::Shutdown.                                             *)
(* wait_until, which posts several requests for one line read from the     *)
(* socket, is module WaitUntil.                                            *)
(***************************************************************************)
EXTENDS Mailbox, FiniteSets

CONSTANTS
    Conn,            \* TCP connections that clients may open
    MaxConn,         \* ServerLimits::max_connections
    JobFrames,       \* most frames a scrolled screenshot takes
    NoTicket

ASSUME ServerAssumption ==
    /\ MaxConn \in Nat \ {0}
    /\ JobFrames \in Nat
    /\ NoTicket \notin Ticket

VARIABLES
    listener,        \* the accept loop
    inflight,        \* the connection counter behind claim_connection
    phase,           \* each connection's handler thread
    current,         \* the ticket a handler is waiting on
    op,              \* the operation posted under each ticket
    flag,            \* the AtomicBool shutdown_handle() hands out
    ui,              \* where the UI thread is inside a frame
    pending,         \* pending_keybinding or scrolled_job
    framesLeft,      \* frames the scrolled job may still take
    succeeded,       \* tickets whose response has ok = true
    wantsShutdown,   \* TodoStore::shutdown
    quitting,        \* cx.quit() has been called
    running          \* the process is alive

connVars == <<listener, inflight, phase, current, op, flag>>
uiVars == <<ui, pending, framesLeft, succeeded, wantsShutdown, quitting, running>>
vars == <<mailboxVars, connVars, uiVars>>

OpKind == {"plain", "key", "quit", "job", "shutdown"}
Alive == {"idle", "waiting"}

Init ==
    /\ MailboxInit
    /\ listener = "check"
    /\ inflight = 0
    /\ phase = [c \in Conn |-> "new"]
    /\ current = [c \in Conn |-> NoTicket]
    /\ op = [t \in Ticket |-> "none"]
    /\ flag = FALSE
    /\ ui = "idle"
    /\ pending = NoTicket
    /\ framesLeft = 0
    /\ succeeded = {}
    /\ wantsShutdown = FALSE
    /\ quitting = FALSE
    /\ running = TRUE

-----------------------------------------------------------------------------
(* The accept loop                                                         *)

\* `while !shutdown.load()`: an accept that follows may still win the race.
ListenerCheck ==
    /\ running
    /\ listener = "check"
    /\ listener' = IF flag THEN "stopped" ELSE "accept"
    /\ UNCHANGED <<mailboxVars, inflight, phase, current, op, flag, uiVars>>

\* accept() returns WouldBlock (sleep and look again) or another error (break).
ListenerNoConnection ==
    /\ running
    /\ listener = "accept"
    /\ listener' \in {"check", "stopped"}
    /\ UNCHANGED <<mailboxVars, inflight, phase, current, op, flag, uiVars>>

\* claim_connection: beyond the cap the stream is dropped and the count undone.
Accept(c) ==
    /\ running
    /\ listener = "accept"
    /\ phase[c] = "new"
    /\ listener' = "check"
    /\ IF inflight >= MaxConn
       THEN /\ phase' = [phase EXCEPT ![c] = "closed"]
            /\ UNCHANGED inflight
       ELSE /\ phase' = [phase EXCEPT ![c] = "idle"]
            /\ inflight' = inflight + 1
    /\ UNCHANGED <<mailboxVars, current, op, flag, uiVars>>

-----------------------------------------------------------------------------
(* A connection's handler thread                                           *)

\* A line is read, parsed and authorized, then posted onto the mailbox.
Post(c, t, kind) ==
    /\ running
    /\ phase[c] = "idle"
    /\ Push(t)
    /\ op' = [op EXCEPT ![t] = kind]
    /\ current' = [current EXCEPT ![c] = t]
    /\ phase' = [phase EXCEPT ![c] = "waiting"]
    /\ UNCHANGED <<listener, inflight, flag, uiVars>>

\* Fault: the InflightGuard not held by the handler thread.
HangUpLeaks(c) ==
    /\ running
    /\ phase[c] = "idle"
    /\ phase' = [phase EXCEPT ![c] = "closed"]
    /\ UNCHANGED <<mailboxVars, listener, inflight, current, op, flag, uiVars>>

\* EOF, idle timeout, a bad or unauthorized line: the loop breaks.
HangUp(c) ==
    /\ running
    /\ phase[c] = "idle"
    /\ phase' = [phase EXCEPT ![c] = "closed"]
    /\ inflight' = inflight - 1
    /\ UNCHANGED <<mailboxVars, listener, current, op, flag, uiVars>>

\* shutdown_op || (confirmed_quit && resp.ok), once the response is written
StopsServer(t, answered) ==
    \/ op[t] = "shutdown"
    \/ op[t] = "quit" /\ answered /\ t \in succeeded

Respond(c, answered) ==
    LET t == current[c] IN
    /\ IF StopsServer(t, answered)
       THEN /\ flag' = TRUE
            /\ phase' = [phase EXCEPT ![c] = "closed"]
            /\ inflight' = inflight - 1
       ELSE /\ phase' = [phase EXCEPT ![c] = "idle"]
            /\ UNCHANGED <<flag, inflight>>
    /\ current' = [current EXCEPT ![c] = NoTicket]
    /\ UNCHANGED <<listener, op, uiVars>>

\* mailbox.wait returned the UI's response, or "mailbox full".
RespondAnswer(c) ==
    /\ running
    /\ phase[c] = "waiting"
    /\ Receive(current[c])
    /\ Respond(c, channel[current[c]] = "replied")

\* Fault: recv() in place of recv_timeout().
RespondNoTimeout(c) == FALSE /\ phase[c] = "waiting" /\ UNCHANGED vars

\* mailbox.wait timed out: the client reads an error with id "?".
RespondTimeout(c) ==
    /\ running
    /\ phase[c] = "waiting"
    /\ GiveUp(current[c])
    /\ Respond(c, FALSE)

-----------------------------------------------------------------------------
(* The UI thread                                                           *)

\* Fault: no early return while a keybinding is pending.
FrameIgnoresPending ==
    /\ running
    /\ ui = "idle"
    /\ Take
    /\ ui' = IF pending # NoTicket /\ op[pending] = "job" THEN "advancing" ELSE "draining"
    /\ UNCHANGED <<connVars, pending, framesLeft, succeeded, wantsShutdown, quitting, running>>

\* render -> apply_agent: drain, then advance the job, wait, or run the batch.
Frame ==
    /\ running
    /\ ui = "idle"
    /\ Take
    /\ ui' = IF pending = NoTicket THEN "draining"
             ELSE IF op[pending] = "job" THEN "advancing" ELSE "idle"
    /\ UNCHANGED <<connVars, pending, framesLeft, succeeded, wantsShutdown, quitting, running>>

FrameDone ==
    /\ running
    /\ ui = "draining"
    /\ batch = <<>>
    /\ ui' = "idle"
    /\ UNCHANGED <<mailboxVars, connVars, pending, framesLeft, succeeded, wantsShutdown,
                   quitting, running>>

\* Fault: cx.quit() called as soon as Op::Shutdown is dispatched.
RunNowQuitsFirst(t, ok) ==
    /\ running
    /\ ui = "draining"
    /\ Run(t)
    /\ op[t] = "shutdown" => ok
    /\ op[t] \in {"key", "quit", "job"} => ~ok
    /\ succeeded' = IF ok THEN succeeded \cup {t} ELSE succeeded
    /\ wantsShutdown' = (wantsShutdown \/ op[t] = "shutdown")
    /\ quitting' = (quitting \/ op[t] = "shutdown")
    /\ ui' = "replying"
    /\ UNCHANGED <<connVars, pending, framesLeft, running>>

\* A request answered inside the frame: plain and shutdown operations, and a
\* keybinding or scrolled screenshot refused before it starts.
RunNow(t, ok) ==
    /\ running
    /\ ui = "draining"
    /\ Run(t)
    /\ op[t] = "shutdown" => ok
    /\ op[t] \in {"key", "quit", "job"} => ~ok
    /\ succeeded' = IF ok THEN succeeded \cup {t} ELSE succeeded
    /\ wantsShutdown' = (wantsShutdown \/ op[t] = "shutdown")
    /\ ui' = "replying"
    /\ UNCHANGED <<connVars, pending, framesLeft, quitting, running>>

\* Fault: a send that fails (the client timed out) skips the quit.
ReplyNowIfHeard(t) ==
    /\ running
    /\ ui = "replying"
    /\ Reply(t)
    /\ quitting' = (quitting \/ (op[t] = "shutdown" /\ channel[t] = "waiting"))
    /\ ui' = IF op[t] = "job" THEN "idle" ELSE "draining"
    /\ UNCHANGED <<connVars, pending, framesLeft, succeeded, wantsShutdown, running>>

\* posted.reply(response); if shutdown { cx.quit() }.  A scrolled screenshot
\* that was refused returns from the frame, anything else takes the next one.
ReplyNow(t) ==
    /\ running
    /\ ui = "replying"
    /\ Reply(t)
    /\ quitting' = (quitting \/ op[t] = "shutdown")
    /\ ui' = IF op[t] = "job" THEN "idle" ELSE "draining"
    /\ UNCHANGED <<connVars, pending, framesLeft, succeeded, wantsShutdown, running>>

\* start_keybinding_fire dispatches the Action, start_scrolled_job stores the
\* job: both leave the loop with the reply owed.
RunDeferred(t) ==
    /\ running
    /\ ui = "draining"
    /\ Run(t)
    /\ op[t] \in {"key", "quit", "job"}
    /\ pending' = t
    /\ framesLeft' = IF op[t] = "job" THEN JobFrames ELSE 0
    /\ ui' = "idle"
    /\ UNCHANGED <<connVars, succeeded, wantsShutdown, quitting, running>>

\* The deferred Action ran or did not; finish_keybinding_fire then replies, and
\* only after that may a confirmed quit call cx.quit().
FinishKey(handled) ==
    /\ running
    /\ ui = "idle"
    /\ pending # NoTicket
    /\ op[pending] \in {"key", "quit"}
    /\ Reply(pending)
    /\ succeeded' = IF handled THEN succeeded \cup {pending} ELSE succeeded
    /\ wantsShutdown' = (wantsShutdown \/ (handled /\ op[pending] = "quit"))
    /\ quitting' = (quitting \/ (op[pending] = "quit" /\ wantsShutdown'))
    /\ pending' = NoTicket
    /\ UNCHANGED <<connVars, ui, framesLeft, running>>

\* advance_scrolled_job keeps the job for another frame ...
AdvanceJob ==
    /\ running
    /\ ui = "advancing"
    /\ framesLeft > 0
    /\ framesLeft' = framesLeft - 1
    /\ ui' = "idle"
    /\ UNCHANGED <<mailboxVars, connVars, pending, succeeded, wantsShutdown, quitting, running>>

\* ... or finishes it, done or failed: restore the offset and reply.
FinishJob(ok) ==
    /\ running
    /\ ui = "advancing"
    /\ Reply(pending)
    /\ succeeded' = IF ok THEN succeeded \cup {pending} ELSE succeeded
    /\ pending' = NoTicket
    /\ framesLeft' = 0
    /\ ui' = "idle"
    /\ UNCHANGED <<connVars, wantsShutdown, quitting, running>>

\* cx.quit() takes effect between frames and ends every thread.
Exit ==
    /\ running
    /\ quitting
    /\ ui = "idle"
    /\ running' = FALSE
    /\ UNCHANGED <<mailboxVars, connVars, ui, pending, framesLeft, succeeded, wantsShutdown,
                   quitting>>

-----------------------------------------------------------------------------
Listener == ListenerCheck \/ ListenerNoConnection \/ \E c \in Conn : Accept(c)

Handler(c) ==
    \/ \E t \in Ticket, kind \in OpKind : Post(c, t, kind)
    \/ HangUp(c)
    \/ RespondAnswer(c)
    \/ RespondTimeout(c)

UiWork ==
    \/ FrameDone
    \/ \E t \in Ticket : ReplyNow(t) \/ RunDeferred(t) \/ \E ok \in BOOLEAN : RunNow(t, ok)
    \/ \E handled \in BOOLEAN : FinishKey(handled)
    \/ AdvanceJob
    \/ \E ok \in BOOLEAN : FinishJob(ok)

Next ==
    \/ Listener
    \/ \E c \in Conn : Handler(c)
    \/ Frame
    \/ UiWork
    \/ Exit

Spec == Init /\ [][Next]_vars

(***************************************************************************)
(* Fairness.  A handler blocked in recv_timeout always returns (the        *)
(* timeout is finite), so RespondAnswer or RespondTimeout is fair for each *)
(* connection; nothing obliges a client to send another line or to hang    *)
(* up.  The accept loop spins.  The UI thread is fair only while GPUI      *)
(* keeps painting: the app's 16 ms refresh timer (TodoApp::new) notifies   *)
(* it forever, but a stalled UI thread is what the timeout is for, so the  *)
(* two assumptions are kept apart.  cx.quit() is served by the platform's  *)
(* main loop between two frames, and frames recur, hence strong fairness.  *)
(* FairSpec assumes the first alone; the properties that need a painting   *)
(* window assume UiFairness themselves.                                    *)
(***************************************************************************)
TcpFairness ==
    /\ WF_vars(ListenerCheck) /\ WF_vars(ListenerNoConnection)
    /\ \A c \in Conn : WF_vars(RespondAnswer(c) \/ RespondTimeout(c))

UiFairness ==
    /\ WF_vars(Frame)
    /\ WF_vars(UiWork)
    /\ SF_vars(Exit)

FairSpec == Spec /\ TcpFairness

-----------------------------------------------------------------------------
(* Properties                                                              *)

ServerTypeOK ==
    /\ MailboxTypeOK
    /\ listener \in {"check", "accept", "stopped"}
    /\ inflight \in 0..MaxConn
    /\ phase \in [Conn -> {"new", "closed"} \cup Alive]
    /\ current \in [Conn -> Ticket \cup {NoTicket}]
    /\ op \in [Ticket -> OpKind \cup {"none"}]
    /\ flag \in BOOLEAN
    /\ ui \in {"idle", "draining", "replying", "advancing"}
    /\ pending \in Ticket \cup {NoTicket}
    /\ framesLeft \in 0..JobFrames
    /\ succeeded \in SUBSET Ticket
    /\ wantsShutdown \in BOOLEAN
    /\ quitting \in BOOLEAN
    /\ running \in BOOLEAN

\* The connection counter is exactly the number of live handler threads, through
\* refusals, hang-ups and shutdowns (claim_connection, InflightGuard): a leak
\* would lock every later client out, an extra decrement would lift the cap.
InflightExact == inflight = Cardinality({c \in Conn : phase[c] \in Alive})

\* Every request the UI thread owes a reply for is the one it is serving now, so
\* a deferred keybinding's listener result can only be its own (apply_agent
\* leaves the loop while pending_keybinding or scrolled_job is set).
OneRequestAtATime ==
    /\ Cardinality(held) <= 1
    /\ pending # NoTicket => held = {pending}
    /\ ui = "idle" /\ pending = NoTicket => held = {}

\* The accept loop is told to stop only for a client that sent Op::Shutdown, or
\* whose confirmed quit the app carried out: an app that refuses to quit keeps
\* its control plane (`confirmed_quit && resp.ok`).
FlagJustified ==
    flag => \E t \in Ticket :
        /\ result[t] # "none"
        /\ \/ op[t] = "shutdown"
           \/ op[t] = "quit" /\ t \in succeeded

\* cx.quit() is only called after the request that asked for it has been replied
\* to, on the inline path (apply_agent) and on the deferred one ("Confirmed agent
\* quit replies first, then quits").
QuitAfterReply ==
    quitting => \E t \in Ticket :
        /\ op[t] \in {"shutdown", "quit"}
        /\ InSeq(ran, t)
        /\ t \notin held

\* The server only ever uses the mailbox through its four operations: the desktop
\* host, with its backlog and deferred replies, is a Mailbox client.
MailboxUse == MailboxSpec

\* However long the UI thread stalls, no client waits forever for its line to be
\* answered (AgentMailbox::wait has a timeout).
EveryLineAnswered ==
    \A c \in Conn : phase[c] = "waiting" ~> (phase[c] # "waiting" \/ ~running)

\* A request the mailbox accepted is executed even if its caller gave up, unless
\* the process exits: deferred keybindings and scrolled screenshots never wedge
\* the drain.  A shutdown ends the process, whatever else is queued and whether or
\* not its client is still there to read the reply.
AcceptedTakesEffect ==
    UiFairness =>
        \A t \in Ticket : InSeq(accepted, t) ~>
                             (~running \/ (op[t] # "shutdown" /\ InSeq(ran, t)))
=============================================================================

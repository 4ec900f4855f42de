----------------------------- MODULE DirectServer -----------------------------
(***************************************************************************)
(* The daemon: AgentServer::serve_host and handle_stream_host (crates/     *)
(* gpui-agent/src/server.rs), one thread per connection around one mutex-  *)
(* protected host, and the main loop of todo-headless (apps/todo-headless/ *)
(* src/main.rs) that ends the process.                                     *)
(*                                                                         *)
(* A client may send lines without waiting for answers.  What a line holds *)
(* is told apart by how the handler treats it:                             *)
(*   form   "blank", "long" (read_limited_line_into refuses it), "garbled" *)
(*          (no request) or "request";                                     *)
(*   v      whether it names this protocol version;                        *)
(*   clear  whether it carries the token itself;                           *)
(*   proof  the session whose nonce it answers, or NoSession;              *)
(*   op     "read", "flip" (changes what wait_until looks for), "wait"     *)
(*          (wait_until), "shutdown" or "quit" (a confirmed quit).         *)
(***************************************************************************)
EXTENDS Naturals, Sequences, FiniteSets, SequencesExt

CONSTANTS
    Conn,            \* TCP connections clients may open
    MaxLines,        \* bound: lines sent, on all connections together
    Contents(_),     \* what a line sent on a connection may hold
    MaxConn,         \* ServerLimits::max_connections
    TokenSet,        \* GPUI_AGENT_TOKEN is configured
    NoSession,
    Nobody           \* the mutex is free

ASSUME DirectAssumption ==
    /\ MaxConn \in Nat \ {0}
    /\ TokenSet \in BOOLEAN
    /\ NoSession \notin Conn
    /\ MaxLines \in Nat
    /\ Nobody \notin Conn

VARIABLES
    listener,        \* the accept loop
    inflight,        \* connections claimed
    phase,           \* each connection's handler thread
    nonce,           \* session_nonce of each connection
    sent,            \* every line the client of a connection has sent
    unread,          \* those the handler has not read yet
    content,         \* what each line that was read turned out to hold
    current,         \* the line a handler is serving
    owner,           \* who holds the host's mutex
    poisoned,        \* a thread has panicked while holding it
    met,             \* the condition wait_until looks for
    wantsShutdown,   \* TodoStore::shutdown
    succeeded,       \* lines whose response has ok = true
    ran,             \* lines the host has served, in order
    answered,        \* lines answered on each connection, in order
    flag,            \* the AtomicBool shutdown_handle() hands out
    running          \* the process is alive

lineVars == <<sent, unread, content>>
hostVars == <<met, wantsShutdown, succeeded, ran>>
vars == <<listener, inflight, phase, nonce, lineVars, current, owner, poisoned,
          hostVars, answered, flag, running>>

Serving == {"locking", "holding", "writing"}
Line == 1..MaxLines
Alive == {"greeting", "reading"} \cup Serving

Init ==
    /\ listener = "check"
    /\ inflight = 0
    /\ phase = [c \in Conn |-> "new"]
    /\ nonce = [c \in Conn |-> NoSession]
    /\ sent = [c \in Conn |-> <<>>]
    /\ unread = [c \in Conn |-> <<>>]
    /\ content = [l \in {} |-> <<>>]
    /\ current = [c \in Conn |-> 0]
    /\ owner = Nobody
    /\ poisoned = FALSE
    /\ met = FALSE
    /\ wantsShutdown = FALSE
    /\ succeeded = {}
    /\ ran = <<>>
    /\ answered = [c \in Conn |-> <<>>]
    /\ flag = FALSE
    /\ running = TRUE

-----------------------------------------------------------------------------
(* Clients                                                                 *)

\* The next line, on any connection; what it holds matters once it is read.
Send(c) ==
    LET l == Cardinality(UNION {ToSet(sent[d]) : d \in Conn}) + 1 IN
    /\ running
    /\ phase[c] # "closed"
    /\ l \in Line
    /\ sent' = [sent EXCEPT ![c] = Append(@, l)]
    /\ unread' = [unread EXCEPT ![c] = Append(@, l)]
    /\ UNCHANGED <<listener, inflight, phase, nonce, content, current, owner, poisoned, hostVars,
                   answered, flag, running>>

-----------------------------------------------------------------------------
(* The accept loop                                                         *)

ListenerCheck ==
    /\ running
    /\ listener = "check"
    /\ listener' = IF flag THEN "stopped" ELSE "accept"
    /\ UNCHANGED <<inflight, phase, nonce, lineVars, current, owner, poisoned,
                   hostVars, answered, flag, running>>

\* WouldBlock: sleep and look again; any other error ends the loop.
ListenerNoConnection ==
    /\ running
    /\ listener = "accept"
    /\ listener' \in {"check", "stopped"}
    /\ UNCHANGED <<inflight, phase, nonce, lineVars, current, owner, poisoned,
                   hostVars, answered, flag, running>>

\* claim_connection, then a thread that starts with prepare_stream.
Accept(c) ==
    /\ running
    /\ listener = "accept"
    /\ phase[c] = "new"
    /\ listener' = "check"
    /\ phase' = [phase EXCEPT ![c] = IF inflight >= MaxConn THEN "closed" ELSE "greeting"]
    /\ inflight' = IF inflight >= MaxConn THEN inflight ELSE inflight + 1
    /\ UNCHANGED <<nonce, lineVars, current, owner, poisoned, hostVars, answered,
                   flag, running>>

-----------------------------------------------------------------------------
(* A connection's handler thread                                           *)

\* The thread's end, by return or by panic, drops its InflightGuard.
Leave(c) ==
    /\ phase' = [phase EXCEPT ![c] = "closed"]
    /\ inflight' = inflight - 1

\* begin_session sends a challenge when a token is configured, which may fail.
Greet(c) ==
    /\ running
    /\ phase[c] = "greeting"
    /\ \/ /\ phase' = [phase EXCEPT ![c] = "reading"]
          /\ nonce' = [nonce EXCEPT ![c] = IF TokenSet THEN c ELSE NoSession]
          /\ UNCHANGED inflight
       \/ TokenSet /\ Leave(c) /\ UNCHANGED nonce
    /\ UNCHANGED <<listener, lineVars, current, owner, poisoned, hostVars, answered,
                   flag, running>>

\* authorize_request
Authorized(c, line) ==
    /\ line.v
    /\ TokenSet => ~line.clear /\ nonce[c] # NoSession /\ line.proof = nonce[c]

Served(c, line) == line.form = "request" /\ Authorized(c, line)

\* read_limited_line_into, from_slice and authorize_request see what a line holds.
TakeLine(c, holds) ==
    /\ running
    /\ phase[c] = "reading"
    /\ unread[c] # <<>>
    /\ unread' = [unread EXCEPT ![c] = Tail(@)]
    /\ content' = [l \in DOMAIN content \cup {Head(unread[c])} |->
                       IF l \in DOMAIN content THEN content[l] ELSE holds]
    /\ UNCHANGED sent

SkipBlank(c, holds) ==
    /\ TakeLine(c, holds)
    /\ holds.form = "blank"
    /\ UNCHANGED <<listener, inflight, phase, nonce, current, owner, poisoned, hostVars, answered,
                   flag, running>>

\* Fault: the loop goes on after a line it could not read or parse.
RefuseAndContinue(c, holds) ==
    /\ TakeLine(c, holds)
    /\ holds.form # "blank"
    /\ ~Served(c, holds)
    /\ answered' = [answered EXCEPT ![c] = Append(@, Head(unread[c]))]
    /\ UNCHANGED <<listener, inflight, phase, nonce, current, owner, poisoned, hostVars, flag,
                   running>>

\* A line that cannot be read, parsed or authorized is answered with an error and
\* ends the connection; what the client sent after it is never read.
Refuse(c, holds) ==
    /\ TakeLine(c, holds)
    /\ holds.form # "blank"
    /\ ~Served(c, holds)
    /\ answered' = [answered EXCEPT ![c] = Append(@, Head(unread[c]))]
    /\ Leave(c)
    /\ UNCHANGED <<listener, nonce, current, owner, poisoned, hostVars, flag, running>>

ReadRequest(c, holds) ==
    /\ TakeLine(c, holds)
    /\ Served(c, holds)
    /\ current' = [current EXCEPT ![c] = Head(unread[c])]
    /\ phase' = [phase EXCEPT ![c] = "locking"]
    /\ UNCHANGED <<listener, inflight, nonce, owner, poisoned, hostVars, answered, flag, running>>

\* EOF, or idle_timeout without a line.
ReadNothing(c) ==
    /\ running
    /\ phase[c] = "reading"
    /\ unread[c] = <<>>
    /\ Leave(c)
    /\ UNCHANGED <<listener, nonce, lineVars, current, owner, poisoned, hostVars,
                   answered, flag, running>>

\* host.lock().expect("host"): a poisoned mutex panics this thread too.
Lock(c) ==
    /\ running
    /\ phase[c] = "locking"
    /\ owner = Nobody
    /\ IF poisoned
       THEN Leave(c) /\ UNCHANGED owner
       ELSE /\ phase' = [phase EXCEPT ![c] = "holding"]
            /\ owner' = c
            /\ UNCHANGED inflight
    /\ UNCHANGED <<listener, nonce, lineVars, current, poisoned, hostVars, answered,
                   flag, running>>

Unlock(c) ==
    /\ owner' = Nobody
    /\ phase' = [phase EXCEPT ![c] = "writing"]

Record(c, ok) ==
    /\ succeeded' = IF ok THEN succeeded \cup {current[c]} ELSE succeeded
    /\ ran' = Append(ran, current[c])

\* Fault: the guard outlives the request, which is dispatched again.
RunTwice(c, ok) ==
    LET op == content[current[c]].op IN
    /\ running
    /\ phase[c] = "holding"
    /\ op # "wait"
    /\ op \in {"flip", "shutdown"} => ok
    /\ Record(c, ok)
    /\ met' = (met # (op = "flip"))
    /\ wantsShutdown' = (wantsShutdown \/ op = "shutdown" \/ (op = "quit" /\ ok))
    /\ \/ Unlock(c)
       \/ current[c] \notin succeeded /\ UNCHANGED <<owner, phase>>
    /\ UNCHANGED <<listener, inflight, nonce, lineVars, current, poisoned, answered,
                   flag, running>>

\* handle_request_cached of anything but wait_until; a host may refuse to quit.
Run(c, ok) ==
    LET op == content[current[c]].op IN
    /\ running
    /\ phase[c] = "holding"
    /\ op # "wait"
    /\ op \in {"flip", "shutdown"} => ok
    /\ Record(c, ok)
    /\ met' = (met # (op = "flip"))
    /\ wantsShutdown' = (wantsShutdown \/ op = "shutdown" \/ (op = "quit" /\ ok))
    /\ Unlock(c)
    /\ UNCHANGED <<listener, inflight, nonce, lineVars, current, poisoned, answered,
                   flag, running>>

\* Fault: the deadline is never looked at.
EndWaitIfMet(c) ==
    /\ running
    /\ phase[c] = "holding"
    /\ content[current[c]].op = "wait"
    /\ met
    /\ Record(c, TRUE)
    /\ Unlock(c)
    /\ UNCHANGED <<listener, inflight, nonce, lineVars, current, poisoned, met,
                   wantsShutdown, answered, flag, running>>

\* wait_until_assert polls the host it holds the mutex of, so nothing but the
\* deadline can change what it sees.
EndWait(c) ==
    /\ running
    /\ phase[c] = "holding"
    /\ content[current[c]].op = "wait"
    /\ Record(c, met)
    /\ Unlock(c)
    /\ UNCHANGED <<listener, inflight, nonce, lineVars, current, poisoned, met,
                   wantsShutdown, answered, flag, running>>

\* A panic in the host unwinds its handler: no answer, and a poisoned mutex.
Panic(c) ==
    /\ running
    /\ phase[c] = "holding"
    /\ poisoned' = TRUE
    /\ owner' = Nobody
    /\ Leave(c)
    /\ UNCHANGED <<listener, nonce, lineVars, current, hostVars, answered, flag, running>>

StopsServer(l) ==
    \/ content[l].op = "shutdown"
    \/ content[l].op = "quit" /\ l \in succeeded

\* write_resp, whose failure nobody looks at, then the shutdown flag.
Write(c) ==
    LET l == current[c] IN
    /\ running
    /\ phase[c] = "writing"
    /\ answered' = [answered EXCEPT ![c] = Append(@, l)]
    /\ IF StopsServer(l)
       THEN flag' = TRUE /\ Leave(c)
       ELSE /\ phase' = [phase EXCEPT ![c] = "reading"]
            /\ UNCHANGED <<flag, inflight>>
    /\ UNCHANGED <<listener, nonce, lineVars, current, owner, poisoned, hostVars, running>>

-----------------------------------------------------------------------------
(* The main thread of todo-headless                                        *)

\* Every 50 ms: the flag, then the store itself behind its mutex (where a
\* poisoned mutex ends the process as well).
MainLooks ==
    /\ running
    /\ flag \/ owner = Nobody
    /\ flag \/ wantsShutdown \/ poisoned
    /\ running' = FALSE
    /\ UNCHANGED <<listener, inflight, phase, nonce, lineVars, current, owner, poisoned,
                   hostVars, answered, flag>>

-----------------------------------------------------------------------------
Listener == ListenerCheck \/ ListenerNoConnection \/ \E c \in Conn : Accept(c)

\* What a handler does once it has a line, except for getting the mutex.
Work(c) ==
    \/ \E holds \in Contents(c) :
           SkipBlank(c, holds) \/ Refuse(c, holds) \/ ReadRequest(c, holds)
    \/ \E ok \in BOOLEAN : Run(c, ok)
    \/ EndWait(c)
    \/ Write(c)

Next ==
    \/ Listener
    \/ \E c \in Conn : Send(c) \/ Greet(c) \/ ReadNothing(c) \/ Lock(c) \/ Panic(c)
    \/ \E c \in Conn : Work(c)
    \/ MainLooks

Spec == Init /\ [][Next]_vars

(***************************************************************************)
(* Fairness.  A handler that has a line goes on with it: reading, running  *)
(* and writing block on nothing but the write timeout, and a wait_until    *)
(* ends at its deadline.  std's mutex promises no order among the threads  *)
(* that wait for it, so a thread may lose it any number of times: strong   *)
(* fairness says it does not lose it for ever.  The main thread looks      *)
(* every 50 ms, behind the same mutex.                                     *)
(***************************************************************************)
FairSpec ==
    /\ Spec
    /\ \A c \in Conn : WF_vars(Work(c)) /\ SF_vars(Lock(c))
    /\ SF_vars(MainLooks)

-----------------------------------------------------------------------------
(* Properties                                                              *)

Lines(c) == ToSet(sent[c])
Read(c) == {l \in Lines(c) : l \in DOMAIN content /\ content[l].form # "blank"}
Increasing(s) == IsSorted(s, <)

\* On a connection every line that is not blank gets one answer, in the order the
\* lines were sent in (which numbers them), and nothing that was sent behind a line
\* that is refused (too long, no request, or not authorized for this session) is
\* run or answered (handle_stream_host breaks rather than resync).
AnsweredInOrder ==
    \A c \in Conn :
        LET replies == ToSet(answered[c]) IN
        /\ replies \subseteq Read(c)
        /\ Increasing(answered[c])
        /\ \A l \in replies : \A k \in Lines(c) :
               k < l => k \in DOMAIN content /\ (k \in Read(c) => k \in replies)
        /\ \A l \in Read(c) : \A k \in Lines(c) :
               ~Served(c, content[l]) /\ k > l => k \notin ToSet(ran) \cup replies

\* What a caller of a line knows, in the terms of RpcService: a line the handler
\* refused was never asked, an unanswered one whose connection ended is a timeout.
Settled(l) == \E c \in Conn : l \in ToSet(answered[c]) /\ Served(c, content[l])
OutcomeOf(l) ==
    IF Settled(l) THEN "reply"
    ELSE IF \E c \in Conn : current[c] = l
    THEN IF \E c \in Conn : current[c] = l /\ phase[c] = "closed" THEN "timeout" ELSE "open"
    ELSE "unsent"

\* The daemon keeps the promise the desktop host makes: each request is carried
\* out at most once, and answered only when it has been (serve_host).
Service == INSTANCE RpcService WITH
               Ticket <- Line, outcome <- [l \in Line |-> OutcomeOf(l)], performed <- ran
DirectServiceSpec == Service!Spec

\* A request that was read is answered, or its connection ends, whatever other
\* connections hold the mutex for (a wait_until holds it up to its deadline).
EveryRequestSettled ==
    \A c \in Conn : phase[c] \in Serving ~> (phase[c] \notin Serving \/ ~running)

\* The daemon's process goes away only after the client that asked for it has its
\* answer, so that `todo-headless shutdown` can tell that it worked.
StopIsAnswered ==
    ~running /\ ~poisoned =>
        \E c \in Conn : \E i \in DOMAIN answered[c] :
            LET l == answered[c][i] IN Served(c, content[l]) /\ StopsServer(l)
=============================================================================

----------------------------- MODULE AgentClient -----------------------------
(***************************************************************************)
(* AgentClient of client.rs: one caller's calls (rpc_op, rpc_pipeline) over *)
(* a reused connection, with the host at the other end performing lines one *)
(* by one and connections that break at any point.                          *)
(*                                                                         *)
(* A line on the wire is [call, op]; call counts the client's calls, as its *)
(* ids do, so that a line sent again has the call it had.  The client never *)
(* compares the id of an answer with the one it wrote.                      *)
(***************************************************************************)
EXTENDS Naturals, Sequences, FiniteSets, SequencesExt

CONSTANTS MaxConns,      \* connections a run may open
          MaxFaults,     \* closed connections, crashes, unreadable answers
          MailboxDepth   \* MAX_MAILBOX_DEPTH: the longest pipeline

ASSUME ClientAssumption == MaxConns \in Nat \ {0} /\ MaxFaults \in Nat
                             /\ MailboxDepth \in Nat \ {0, 1}

VARIABLES
    session,   \* LiveSession: the connection in use, 0 for None
    opened,    \* connections opened so far
    conns,     \* each connection: open at the host's end, lines up, answers down
    call,      \* the call under way, see NoCall and NewCall
    calls,     \* next_id: calls begun so far
    hostUp,    \* is the host process running?
    faults,    \* faults so far
    log        \* the lines the host performed, in order, with its answers

clientVars == <<session, opened, call, calls>>
netVars    == <<conns, hostUp, faults, log>>
wireVars   == <<session, opened, conns, call, calls, hostUp, faults, log>>

Conn == 1 .. MaxConns

\* A call: the ops of the chunk on its way, how many lines of it are written,
\* the answers read, the answers of earlier chunks, the chunks still to come.
\* It ends as "ok" with all answers or as "error".
NoCall == [state |-> "none", ops |-> <<>>, sent |-> 0, got |-> <<>>,
           earlier |-> <<>>, later |-> <<>>]

NewCall(chunks) == [NoCall EXCEPT !.state = "wire", !.ops = Head(chunks),
                                  !.later = Tail(chunks)]

\* rpc_pipeline splits a long list of ops; the last piece may be a single op
Chunks(ops) ==
    LET pieces == (Len(ops) + MailboxDepth - 1) \div MailboxDepth
        Least(a, b) == IF a < b THEN a ELSE b
    IN [k \in 1 .. pieces |->
          SubSeq(ops, (k - 1) * MailboxDepth + 1, Least(k * MailboxDepth, Len(ops)))]

\* Fault: pipeline_retry sends again after every error, as roundtrip_retry does
MayRetryAlways(c) == TRUE

\* A chunk of one op goes through roundtrip_retry, which sends again after any
\* error; a longer one through pipeline_retry, which does so only as long as
\* nothing of it has been written
MayRetry(c) == Len(c.ops) = 1 \/ c.sent = 0

ClientInit ==
    /\ session = 0 /\ opened = 0 /\ calls = 0
    /\ conns = [c \in Conn |-> [open |-> FALSE, up |-> <<>>, down |-> <<>>]]
    /\ call = NoCall /\ hostUp = TRUE /\ faults = 0 /\ log = <<>>

-----------------------------------------------------------------------------
(* The client                                                               *)

\* rpc_op and rpc_pipeline: the call takes the next id
Begin(ops) ==
    /\ call.state = "none"
    /\ call' = NewCall(Chunks(ops))
    /\ calls' = calls + 1
    /\ UNCHANGED <<session, opened, netVars>>

\* The caller takes the result
End ==
    /\ call.state \in {"ok", "error"}
    /\ call' = NoCall
    /\ UNCHANGED <<session, opened, calls, netVars>>

Busy == call.state = "wire"

\* LiveSession::open
Connect ==
    /\ Busy /\ session = 0 /\ opened < MaxConns /\ hostUp
    /\ session' = opened + 1 /\ opened' = opened + 1
    /\ conns' = [conns EXCEPT ![opened + 1].open = TRUE]
    /\ UNCHANGED <<call, calls, hostUp, faults, log>>

\* No connection before the deadline: "connect ... failed"
DeadlinePasses ==
    /\ Busy /\ session = 0
    /\ call' = [call EXCEPT !.state = "error"]
    /\ UNCHANGED <<session, opened, calls, netVars>>

\* The client's end is dropped: the host still reads the lines written to it,
\* then finds the end of the stream; nobody reads what it answers
Left(net) ==
    [net EXCEPT ![session] = [open |-> @.open /\ @.up # <<>>, up |-> @.up, down |-> <<>>]]

\* An error on the wire: the session is dropped; the call starts over or fails
Dropped ==
    /\ session' = 0 /\ conns' = Left(conns)
    /\ call' = IF MayRetry(call)
               THEN [call EXCEPT !.sent = 0, !.got = <<>>]
               ELSE [call EXCEPT !.state = "error"]

\* write_json_line; to a connection the host has closed the line goes nowhere
WriteLine ==
    /\ Busy /\ session # 0 /\ call.sent < Len(call.ops)
    /\ call' = [call EXCEPT !.sent = @ + 1]
    /\ conns' = IF conns[session].open
                THEN [conns EXCEPT ![session].up =
                         Append(@, [call |-> calls, op |-> call.ops[call.sent + 1]])]
                ELSE conns
    /\ UNCHANGED <<session, opened, calls, hostUp, faults, log>>

WriteFails ==
    /\ Busy /\ session # 0 /\ call.sent < Len(call.ops) /\ ~conns[session].open
    /\ Dropped
    /\ UNCHANGED <<opened, calls, hostUp, faults, log>>

Reading == Busy /\ session # 0 /\ call.sent = Len(call.ops)
                /\ Len(call.got) < Len(call.ops)

\* One answer; an answer over the line limit or not a Response is an error
ReadAnswer ==
    /\ Reading /\ conns[session].down # <<>>
    /\ IF Head(conns[session].down).readable
       THEN /\ call' = [call EXCEPT !.got = Append(@, Head(conns[session].down))]
            /\ conns' = [conns EXCEPT ![session].down = Tail(@)]
            /\ UNCHANGED session
       ELSE Dropped
    /\ UNCHANGED <<opened, calls, hostUp, faults, log>>

\* "connection closed": the host's end is gone and all it sent has been read
ReadEof ==
    /\ Reading /\ conns[session].down = <<>> /\ ~conns[session].open
    /\ Dropped
    /\ UNCHANGED <<opened, calls, hostUp, faults, log>>

\* Fault: the session outlives a timeout, and with it the answer still to come
ReadTimeoutKeepsSession ==
    /\ Reading /\ conns[session].down = <<>> /\ conns[session].open
    /\ call' = [call EXCEPT !.state = "error"]
    /\ UNCHANGED <<session, opened, calls, netVars>>

\* The read timeout is the whole budget of a call, so that no try follows it
ReadTimeout ==
    /\ Reading /\ conns[session].down = <<>> /\ conns[session].open
    /\ session' = 0 /\ conns' = Left(conns)
    /\ call' = [call EXCEPT !.state = "error"]
    /\ UNCHANGED <<opened, calls, hostUp, faults, log>>

\* All answers of a chunk: the next chunk, or the call's result
ChunkDone ==
    /\ Busy /\ Len(call.got) = Len(call.ops)
    /\ LET all == call.earlier \o call.got
       IN call' = IF call.later = <<>>
                  THEN [call EXCEPT !.state = "ok", !.got = all, !.earlier = <<>>]
                  ELSE [NewCall(call.later) EXCEPT !.earlier = all]
    /\ UNCHANGED <<session, opened, calls, netVars>>

ClientStep == \/ Connect \/ DeadlinePasses \/ WriteLine \/ WriteFails
              \/ ReadAnswer \/ ReadEof \/ ReadTimeout \/ ChunkDone

-----------------------------------------------------------------------------
(* The host's end                                                           *)

Closed(c) == [c EXCEPT !.open = FALSE, !.up = <<>>]

\* A handler thread reads a line, performs it and writes its answer, also when
\* the client has left.  After an exit op the process and its connections end.
Perform(c, ok, readable) ==
    /\ hostUp /\ conns[c].open /\ conns[c].up # <<>>
    /\ LET line   == Head(conns[c].up)
           answer == [call |-> line.call, op |-> line.op, ok |-> ok, readable |-> readable]
           rest   == Tail(conns[c].up)
           told   == [conns EXCEPT ![c] =
                        [open |-> c = session \/ rest # <<>>, up |-> rest,
                         down |-> IF c = session THEN Append(@.down, answer) ELSE @.down]]
           ends   == line.op.effect = "exit" /\ ok
       IN /\ log' = Append(log, answer)
          /\ hostUp' = ~ends
          /\ conns' = IF ends THEN [d \in Conn |-> Closed(told[d])] ELSE told
    /\ faults' = IF readable THEN faults ELSE faults + 1
    /\ UNCHANGED clientVars

\* The server closes an idle connection (idle_timeout) or refuses one
\* (max_connections): no line is being performed, unread ones are lost
ServerCloses(c) ==
    /\ faults < MaxFaults /\ conns[c].open
    /\ conns' = [conns EXCEPT ![c] = Closed(@)]
    /\ faults' = faults + 1
    /\ UNCHANGED <<clientVars, hostUp, log>>

\* The process dies; answers on their way may be lost with it.  Between
\* performing a line and writing its answer is the bad moment.
HostDies(lost) ==
    /\ faults < MaxFaults /\ hostUp
    /\ hostUp' = FALSE
    /\ conns' = [c \in Conn |->
                   IF lost THEN [Closed(conns[c]) EXCEPT !.down = <<>>]
                   ELSE Closed(conns[c])]
    /\ faults' = faults + 1
    /\ UNCHANGED <<clientVars, log>>

HostRestarts ==
    /\ ~hostUp /\ faults < MaxFaults
    /\ hostUp' = TRUE /\ faults' = faults + 1
    /\ UNCHANGED <<clientVars, conns, log>>

HostStep ==
    \/ \E c \in Conn, ok, readable \in BOOLEAN :
          (readable \/ faults < MaxFaults) /\ Perform(c, ok, readable)
    \/ \E c \in Conn : ServerCloses(c)
    \/ \E lost \in BOOLEAN : HostDies(lost)
    \/ HostRestarts
=============================================================================

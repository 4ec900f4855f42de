------------------------------ MODULE EventRing ------------------------------
(***************************************************************************)
(* The host's bounded event stream and the pollers that follow it:         *)
(* EventRing (crates/gpui-agent/src/event.rs) behind the `events` op of    *)
(* dispatch.rs and AgentClient::events (client.rs).                        *)
(*                                                                         *)
(* An event is its seq: `retained` is the VecDeque, whose order is that of *)
(* the seqs.  A poller asks for what follows its cursor, a page at a time; *)
(* events are pushed and evicted between the request, the answer and the   *)
(* next request, and an answer may be lost.                                *)
(***************************************************************************)
EXTENDS Integers, FiniteSets

CONSTANTS
    Poller,
    Capacity,        \* EVENT_RING_CAPACITY, or the embedder's
    Limit,           \* per poller: its requests' limit, or EVENTS_DEFAULT_LIMIT
    ByLatest,        \* pollers whose next `since` is the answer's `latest`, not its last event
    NoCursor,        \* since: None, a poller's first request
    MaxPushed        \* bound: events pushed

ASSUME RingAssumption ==
    /\ Capacity \in Nat
    /\ Limit \in [Poller -> Nat \ {0}]
    /\ ByLatest \subseteq Poller
    /\ NoCursor \notin Int
    /\ MaxPushed \in Nat

VARIABLES
    next,            \* RingBuf::next
    retained,        \* RingBuf::buf
    cursor,          \* per poller: its next `since`
    wire,            \* per poller: the request or the answer under way
    received,        \* history, per poller: events it was given
    warned           \* history, per poller: events it was told it lost

bufVars == <<next, retained>>
pollerVars == <<cursor, wire, received, warned>>
ringVars == <<next, retained, cursor, wire, received, warned>>

Idle == [kind |-> "idle"]

Oldest(events) == CHOOSE e \in events : \A other \in events : e <= other
Newest(events) == CHOOSE e \in events : \A other \in events : other <= e

RingInit ==
    /\ next = 1
    /\ retained = {}
    /\ cursor = [p \in Poller |-> NoCursor]
    /\ wire = [p \in Poller |-> Idle]
    /\ received = [p \in Poller |-> {}]
    /\ warned = [p \in Poller |-> {}]

-----------------------------------------------------------------------------
(* The ring                                                                *)

Push ==
    /\ next <= MaxPushed
    /\ next' = next + 1
    /\ retained' =
         IF Capacity = 0 THEN retained
         ELSE IF Cardinality(retained) = Capacity
         THEN (retained \ {Oldest(retained)}) \cup {next}
         ELSE retained \cup {next}
    /\ UNCHANGED pollerVars

Base == next - Cardinality(retained)
Latest == next - 1
PageSize(p) == IF Capacity = 0 THEN 1
               ELSE IF Limit[p] < Capacity THEN Limit[p] ELSE Capacity

\* Fault: the event at the cursor once more.
AfterInclusive(since) == {e \in retained : since = NoCursor \/ e >= since}

After(since) == {e \in retained : since = NoCursor \/ e > since}

\* The oldest of the events after `since`, as many as the page takes.
PageOf(p, since) ==
    {e \in After(since) : Cardinality({d \in After(since) : d < e}) < PageSize(p)}

\* Fault: lagged one event late.
LaggedLate(since) == since # NoCursor /\ since + 2 < Base

Lagged(since) == since # NoCursor /\ since + 1 < Base

-----------------------------------------------------------------------------
(* A poller                                                                *)

Ask(p) ==
    /\ wire[p] = Idle
    /\ wire' = [wire EXCEPT ![p] = [kind |-> "poll", since |-> cursor[p]]]
    /\ UNCHANGED <<bufVars, cursor, received, warned>>

Serve(p) ==
    /\ wire[p].kind = "poll"
    /\ wire' = [wire EXCEPT ![p] =
                  [kind |-> "answer",
                   since |-> wire[p].since,
                   events |-> PageOf(p, wire[p].since),
                   latest |-> Latest,
                   lagged |-> Lagged(wire[p].since)]]
    /\ UNCHANGED <<bufVars, cursor, received, warned>>

NextCursor(p, answer) ==
    IF p \in ByLatest \/ answer.events = {} THEN answer.latest ELSE Newest(answer.events)

\* Where the events it was given start.
FirstOf(answer) == IF answer.events = {} THEN answer.latest + 1 ELSE Oldest(answer.events)

\* What precedes a first page was before its time; otherwise `lagged` must say it.
Missed(answer) ==
    IF answer.since = NoCursor THEN 1..(FirstOf(answer) - 1)
    ELSE IF answer.lagged THEN (answer.since + 1)..(FirstOf(answer) - 1)
    ELSE {}

Receive(p) ==
    /\ wire[p].kind = "answer"
    /\ cursor' = [cursor EXCEPT ![p] = NextCursor(p, wire[p])]
    /\ received' = [received EXCEPT ![p] = @ \cup wire[p].events]
    /\ warned' = [warned EXCEPT ![p] = @ \cup Missed(wire[p])]
    /\ wire' = [wire EXCEPT ![p] = Idle]
    /\ UNCHANGED bufVars

\* The connection breaks: the client asks again from the same cursor.
Lose(p) ==
    /\ wire[p] # Idle
    /\ wire' = [wire EXCEPT ![p] = Idle]
    /\ UNCHANGED <<bufVars, cursor, received, warned>>

RingNext == Push \/ \E p \in Poller : Ask(p) \/ Serve(p) \/ Receive(p) \/ Lose(p)

RingSpec == RingInit /\ [][RingNext]_ringVars

-----------------------------------------------------------------------------
(* Properties                                                              *)

Cursor == Nat \cup {NoCursor}

AnswerOK(m) ==
    /\ m.since \in Cursor
    /\ m.events \subseteq 1..m.latest
    /\ m.latest \in 0..(next - 1)
    /\ m.lagged \in BOOLEAN

\* The retained events are the last ones pushed, without a hole, as many as the
\* capacity allows: what `lagged` computes its base from.
RingTypeOK ==
    /\ next \in Nat \ {0}
    /\ retained = Base..Latest
    /\ Cardinality(retained) = IF Latest < Capacity THEN Latest ELSE Capacity
    /\ cursor \in [Poller -> Cursor]
    /\ DOMAIN wire = Poller
    /\ \A p \in Poller :
         /\ wire[p].kind \in {"idle", "poll", "answer"}
         /\ wire[p].kind = "poll" => wire[p].since \in Cursor
         /\ wire[p].kind = "answer" => AnswerOK(wire[p])
    /\ {received, warned} \subseteq [Poller -> SUBSET (1..Latest)]

\* "The caller lost events to capacity eviction and must not treat the gap as nothing
\* happened": every event up to a poller's cursor was given to it, was older than its
\* first page, or was announced as lost.  A poller that goes on from `latest` must ask
\* for as much as the ring can hold.
CursorSound(p) == p \notin ByLatest \/ Limit[p] >= Capacity

NoSilentGap ==
    \A p \in Poller : CursorSound(p) /\ cursor[p] # NoCursor =>
        \A e \in 1..cursor[p] : e \in received[p] \cup warned[p]

\* "To avoid re-receiving": no event is given twice, nor after it was given up for
\* lost, lost answers and repeated requests included.
GivenOnce ==
    [][\A p \in Poller :
         (received'[p] # received[p] \/ warned'[p] # warned[p]) =>
           wire[p].events \cap (received[p] \cup warned[p]) = {}]_ringVars
=============================================================================

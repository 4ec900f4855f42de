---------------------------- MODULE HostPartsProofs ----------------------------
(***************************************************************************)
(* Proofs about three parts of a host and how hosts are found; they share  *)
(* no state.                                                               *)
(*   WaitUntil: for every set of trees, however often the host changes and *)
(*     however many probes are lost, the revision probe never hides a      *)
(*     condition that holds while there is room in the mailbox.            *)
(*   EventRing: no gap is silent, for every capacity, page size and number *)
(*     of pollers.  The retained events are an interval (RingInv), so a    *)
(*     page of them is one (PageIs), and what an answer accounts for joins *)
(*     the poller's cursor to its next one (AnswerInv).                    *)
(*   ScrolledShot: for every list, viewport, cap and number of tiles, the  *)
(*     list is put back and the image is the list.  While nobody is at it, *)
(*     what is captured is the list up to where the tiles so far end       *)
(*     (TilesInv); slices that meet are stitched to the whole.             *)
(*   Discovery: for any hosts, addresses, apps, ids and number of commands *)
(*     at a time, a live host's record stays and no match is passed over.  *)
(***************************************************************************)
EXTENDS WaitUntil, EventRing, ScrolledShot, Discovery, FiniteSetTheorems,
        SequenceTheorems, TLAPS

\* A revision in the TCP thread's hands is one the host has had.
RevisionsPast ==
    /\ probed # NoRev => tracks /\ probed <= rev
    /\ checked # NoRev => tracks /\ checked <= rev
    /\ reply.kind = "rev" => reply.rev = NoRev \/ (tracks /\ reply.rev <= rev)

\* The present tree is one of those seen in this poll.
TreeIsSeen == pc # "done" => tree \in seen

\* An assert that failed, failed on the tree of the probed revision or a later one.
FailedMeansFalse ==
    pc = "asserting" /\ reply.kind \in {"failed", "unavailable", "full"} /\ ~refused =>
        /\ ~(seen \subseteq Wanted)
        /\ probed # NoRev /\ probed = rev => tree \notin Wanted

\* A probe answering checked_rev: the condition was false inside this poll.
SkipJustified ==
    pc = "probing" /\ reply.kind = "rev" /\ reply.rev # NoRev /\ reply.rev = checked
      /\ ~refused =>
        ~(seen \subseteq Wanted)

WaitInv ==
    /\ TypeOK
    /\ RevisionsPast
    /\ CheckedMeansFalse
    /\ TreeIsSeen
    /\ FailedMeansFalse
    /\ SkipJustified
    /\ NoFalseTimeout

-----------------------------------------------------------------------------
\* Every step keeps the types, on every host, contract or not.
LEMMA TypeStep == TypeOK /\ [WaitNext]_waitVars => TypeOK'
<1> SUFFICES ASSUME TypeOK, [WaitNext]_waitVars PROVE TypeOK'
  OBVIOUS
<1> USE WaitAssumption DEF TypeOK, Reply, NoReply, Answer, None
<1>1. CASE PostProbe
  BY <1>1 DEF PostProbe, hostVars, history
<1>2. CASE ReadProbe
  BY <1>2 DEF ReadProbe, Return, NextPoll, hostVars
<1>3. CASE LoseProbe
  BY <1>3 DEF LoseProbe, hostVars
<1>4. CASE PostAssert
  BY <1>4 DEF PostAssert, hostVars, history
<1>5. CASE ReadAssert
  BY <1>5 DEF ReadAssert, Return, NextPoll, hostVars
<1>6. CASE LoseAssert
  BY <1>6 DEF LoseAssert, Return, hostVars
<1>7. CASE ServeRevision
  BY <1>7 DEF ServeRevision, ServeBump, Revision, history
<1>8. CASE ServeAssert
  BY <1>8 DEF ServeAssert, ServeBump
<1>9. CASE FullMailbox
  BY <1>9 DEF FullMailbox, hostVars, history
<1>10. CASE \E new \in Tree : HostChange(new)
  BY <1>10 DEF HostChange, threadVars
<1>11. CASE Deadline
  BY <1>11 DEF Deadline, hostVars, history
<1>12. CASE UNCHANGED waitVars
  BY <1>12 DEF waitVars, hostVars, threadVars, history
<1> QED
  BY <1>1, <1>2, <1>3, <1>4, <1>5, <1>6, <1>7, <1>8, <1>9, <1>10, <1>11, <1>12
  DEF WaitNext, Thread, Host

\* The initial states are well typed.
LEMMA TypeInit == WaitInit => TypeOK
<1> SUFFICES ASSUME WaitInit PROVE TypeOK
  OBVIOUS
<1> USE WaitAssumption DEF TypeOK, Reply, NoReply, Answer, None
<1>1. reply \in Reply /\ reply.kind = None
  BY DEF WaitInit
<1>2. seen \subseteq Tree
  BY DEF WaitInit
<1> QED
  BY <1>1, <1>2 DEF WaitInit

\* The TCP thread's locals keep their types, whatever the host does.
THEOREM WaitTypeCorrect == WaitSpec => []TypeOK
BY TypeInit, TypeStep, PTL DEF WaitSpec

-----------------------------------------------------------------------------
\* Every step keeps the invariant.
LEMMA WaitStep ==
    ASSUME WaitInv, [WaitNext]_waitVars
    PROVE  WaitInv'
<1>0. TypeOK'
  BY TypeStep DEF WaitInv
<1> USE WaitAssumption, <1>0
    DEF WaitInv, RevisionsPast, CheckedMeansFalse, AssertCovered, TreeIsSeen,
        FailedMeansFalse, SkipJustified, NoFalseTimeout, TypeOK, Reply, NoReply, Answer, None
<1>1. CASE PostProbe
  BY <1>1 DEF PostProbe, hostVars, history
<1>2. CASE ReadProbe
  <2>1. RevisionsPast'
    BY <1>2 DEF ReadProbe, Return, NextPoll, hostVars
  <2>2. CheckedMeansFalse'
    BY <1>2 DEF ReadProbe, Return, NextPoll, hostVars
  <2>3. TreeIsSeen'
    BY <1>2 DEF ReadProbe, Return, NextPoll, hostVars
  <2>4. FailedMeansFalse'
    BY <1>2 DEF ReadProbe, Return, NextPoll, hostVars
  <2>5. SkipJustified'
    BY <1>2 DEF ReadProbe, Return, NextPoll, hostVars
  <2>6. NoFalseTimeout'
    BY <1>2 DEF ReadProbe, Return, NextPoll, hostVars
  <2> QED
    BY <2>1, <2>2, <2>3, <2>4, <2>5, <2>6
<1>3. CASE LoseProbe
  BY <1>3 DEF LoseProbe, hostVars
<1>4. CASE PostAssert
  BY <1>4 DEF PostAssert, hostVars, history
<1>5. CASE ReadAssert
  <2>1. RevisionsPast'
    BY <1>5 DEF ReadAssert, Return, NextPoll, hostVars
  <2>2. CheckedMeansFalse'
    BY <1>5 DEF ReadAssert, Return, NextPoll, hostVars
  <2>3. TreeIsSeen'
    BY <1>5 DEF ReadAssert, Return, NextPoll, hostVars
  <2>4. FailedMeansFalse'
    BY <1>5 DEF ReadAssert, Return, NextPoll, hostVars
  <2>5. SkipJustified'
    BY <1>5 DEF ReadAssert, Return, NextPoll, hostVars
  <2>6. NoFalseTimeout'
    BY <1>5 DEF ReadAssert, Return, NextPoll, hostVars
  <2> QED
    BY <2>1, <2>2, <2>3, <2>4, <2>5, <2>6
<1>6. CASE LoseAssert
  BY <1>6 DEF LoseAssert, Return, hostVars
<1>7. CASE ServeRevision
  <2>1. RevisionsPast'
    <3>1. rev \in Nat /\ rev' \in Nat /\ rev <= rev'
      BY <1>7 DEF ServeRevision, ServeBump
    <3>2. reply'.rev = IF tracks THEN rev' ELSE NoRev
      BY <1>7 DEF ServeRevision, Revision
    <3>3. UNCHANGED <<tracks, probed, checked>>
      BY <1>7 DEF ServeRevision
    <3> QED
      BY <3>1, <3>2, <3>3
  <2>2. CheckedMeansFalse'
    BY <1>7 DEF ServeRevision, ServeBump, Revision, history
  <2>3. TreeIsSeen'
    BY <1>7 DEF ServeRevision, ServeBump, Revision, history
  <2>4. FailedMeansFalse'
    BY <1>7 DEF ServeRevision, ServeBump, Revision, history
  <2>5. SkipJustified'
    BY <1>7 DEF ServeRevision, ServeBump, Revision, history
  <2>6. NoFalseTimeout'
    BY <1>7 DEF ServeRevision, ServeBump, Revision, history
  <2> QED
    BY <2>1, <2>2, <2>3, <2>4, <2>5, <2>6
<1>8. CASE ServeAssert
  BY <1>8 DEF ServeAssert, ServeBump
<1>9. CASE FullMailbox
  BY <1>9 DEF FullMailbox, hostVars, history
<1>10. CASE \E new \in Tree : HostChange(new)
  BY <1>10 DEF HostChange, threadVars
<1>11. CASE Deadline
  BY <1>11 DEF Deadline, hostVars, history
<1>12. CASE UNCHANGED waitVars
  BY <1>12 DEF waitVars, hostVars, threadVars, history
<1> QED
  BY <1>1, <1>2, <1>3, <1>4, <1>5, <1>6, <1>7, <1>8, <1>9, <1>10, <1>11, <1>12
  DEF WaitNext, Thread, Host

\* wait_until's reasoning about revisions, as an invariant of every behaviour.
THEOREM WaitInvariant == WaitSpec => []WaitInv
<1>1. WaitInit => WaitInv
  <2> SUFFICES ASSUME WaitInit PROVE WaitInv
    OBVIOUS
  <2>1. TypeOK
    BY TypeInit
  <2>2. reply.kind = "none"
    BY DEF WaitInit, NoReply, Answer, None
  <2> QED
    BY <2>1, <2>2, WaitAssumption DEF WaitInit, WaitInv, RevisionsPast, CheckedMeansFalse,
        AssertCovered, TreeIsSeen, FailedMeansFalse, SkipJustified, NoFalseTimeout, None
<1> QED
  BY <1>1, WaitStep, PTL DEF WaitSpec

\* While the host is still at checked_rev, the condition does not hold.
THEOREM WaitCheckedMeansFalse == WaitSpec => []CheckedMeansFalse
BY WaitInvariant, PTL DEF WaitInv

\* A "timed out" was never true: some tree of the last poll failed the spec.
THEOREM WaitNoFalseTimeout == WaitSpec => []NoFalseTimeout
BY WaitInvariant, PTL DEF WaitInv

-----------------------------------------------------------------------------
\* The asserts a poll may still add: one for the present revision unless it is
\* the covered one, one for a probe from before the change, one per lost probe.
Covered == IF checked = rev THEN 1 ELSE 0
Allowed ==
    CASE pc \in {"probe", "probing"} ->
            IF reply.kind = "rev" /\ reply.rev # rev THEN lost ELSE 1 + Covered + lost
      [] pc \in {"assert", "asserting"} ->
            (IF reply = NoReply THEN 0 ELSE 1) +
            (IF probed = rev THEN 1 + lost
             ELSE IF probed = NoRev THEN Covered + lost ELSE lost)
      [] OTHER -> 2 + lost

BuildInv ==
    /\ TypeOK
    /\ pc = "probing" => probed = NoRev
    /\ IF tracks THEN asserts <= Allowed ELSE asserts = 0

\* Every step of a host that bumps only when it changes keeps the budget.
LEMMA BuildStep ==
    ASSUME ~SyncsDraft, BuildInv, [WaitNext]_waitVars
    PROVE  BuildInv'
<1>0. TypeOK'
  BY TypeStep DEF BuildInv
<1> USE WaitAssumption, <1>0
    DEF BuildInv, Allowed, Covered, TypeOK, Reply, NoReply, Answer, None
<1>1. CASE PostProbe
  BY <1>1 DEF PostProbe, hostVars, history
<1>2. CASE ReadProbe
  BY <1>2 DEF ReadProbe, Return, NextPoll, hostVars
<1>3. CASE LoseProbe
  BY <1>3 DEF LoseProbe, hostVars
<1>4. CASE PostAssert
  BY <1>4 DEF PostAssert, hostVars, history
<1>5. CASE ReadAssert
  BY <1>5 DEF ReadAssert, Return, NextPoll, hostVars
<1>6. CASE LoseAssert
  BY <1>6 DEF LoseAssert, Return, hostVars
<1>7. CASE ServeRevision
  BY <1>7 DEF ServeRevision, ServeBump, Revision, history
<1>8. CASE ServeAssert
  BY <1>8 DEF ServeAssert, ServeBump
<1>9. CASE FullMailbox
  BY <1>9 DEF FullMailbox, hostVars, history
<1>10. CASE \E new \in Tree : HostChange(new)
  BY <1>10 DEF HostChange, threadVars
<1>11. CASE Deadline
  BY <1>11 DEF Deadline, hostVars, history
<1>12. CASE UNCHANGED waitVars
  BY <1>12 DEF waitVars, hostVars, threadVars, history
<1> QED
  BY <1>1, <1>2, <1>3, <1>4, <1>5, <1>6, <1>7, <1>8, <1>9, <1>10, <1>11, <1>12
  DEF WaitNext, Thread, Host

\* A host that bumps only when it changes builds its tree at most twice for one
\* wait between two changes, plus once for every probe lost.
THEOREM WaitRebuildsBounded == ~SyncsDraft => (WaitSpec => []RebuildsBounded)
<1> SUFFICES ASSUME ~SyncsDraft PROVE WaitSpec => []RebuildsBounded
  OBVIOUS
<1>1. WaitInit => BuildInv
  <2> SUFFICES ASSUME WaitInit PROVE BuildInv
    OBVIOUS
  <2>1. TypeOK
    BY TypeInit
  <2>2. asserts = 0 /\ lost = 0 /\ pc = "probe" /\ reply.kind = "none"
    BY DEF WaitInit, NoReply, Answer, None
  <2> QED
    BY <2>1, <2>2 DEF BuildInv, Allowed, Covered
<1>2. BuildInv => RebuildsBounded
  BY DEF BuildInv, Allowed, Covered, TypeOK, RebuildsBounded
<1> QED
  BY <1>1, <1>2, BuildStep, PTL DEF WaitSpec

-----------------------------------------------------------------------------
(* The event ring                                                          *)

HeldCount == IF next - 1 < Capacity THEN next - 1 ELSE Capacity

RingInv ==
    /\ next \in Nat \ {0}
    /\ retained = (next - HeldCount)..(next - 1)

AnswerInv(p, m) ==
    /\ m.since \in Cursor
    /\ m.latest \in 0..(next - 1)
    /\ m.lagged \in BOOLEAN
    /\ m.events \subseteq 1..m.latest
    /\ NextCursor(p, m) \in 0..m.latest
    /\ m.since # NoCursor => m.since <= NextCursor(p, m)
    /\ m.events \cup Missed(m) \subseteq 1..NextCursor(p, m)
    /\ \A e \in m.events \cup Missed(m) : m.since # NoCursor => e > m.since
    /\ CursorSound(p) =>
         \A e \in 1..NextCursor(p, m) :
           \/ m.since # NoCursor /\ e <= m.since
           \/ e \in m.events \cup Missed(m)

WireInv(p, m, since) ==
    /\ m.kind \in {"idle", "poll", "answer"}
    /\ m.kind \in {"poll", "answer"} => m.since = since
    /\ m.kind = "answer" => AnswerInv(p, m)

CursorInv(p, at, accounted) ==
    /\ at \in Cursor
    /\ at # NoCursor => at <= next - 1 /\ accounted \subseteq 1..at
    /\ at # NoCursor /\ CursorSound(p) => 1..at \subseteq accounted
    /\ at = NoCursor => accounted = {}

PollersInv ==
    /\ cursor \in [Poller -> Cursor]
    /\ DOMAIN wire = Poller
    /\ received \in [Poller -> SUBSET Int]
    /\ warned \in [Poller -> SUBSET Int]
    /\ \A p \in Poller :
         /\ WireInv(p, wire[p], cursor[p])
         /\ CursorInv(p, cursor[p], received[p] \cup warned[p])

PollingInv == RingInv /\ PollersInv

-----------------------------------------------------------------------------
(* Intervals                                                               *)

\* The ends of an interval are its oldest and its newest event.
LEMMA IntervalEnds ==
    ASSUME NEW a \in Int, NEW b \in Int, a <= b
    PROVE  Oldest(a..b) = a /\ Newest(a..b) = b
<1>1. a \in a..b /\ \A other \in a..b : a <= other
  OBVIOUS
<1>2. \A e \in a..b : (\A other \in a..b : e <= other) => e = a
  OBVIOUS
<1>3. b \in a..b /\ \A other \in a..b : other <= b
  OBVIOUS
<1>4. \A e \in a..b : (\A other \in a..b : other <= e) => e = b
  OBVIOUS
<1>5. Oldest(a..b) = a
  BY <1>1, <1>2 DEF Oldest
<1>6. Newest(a..b) = b
  BY <1>3, <1>4 DEF Newest
<1> QED
  BY <1>5, <1>6

\* The first k of an interval are an interval.
LEMMA FirstOfInterval ==
    ASSUME NEW a \in Int, NEW b \in Int, NEW k \in Nat
    PROVE  {e \in a..b : Cardinality({d \in a..b : d < e}) < k}
             = {e \in a..b : e < a + k}
<1>1. \A e \in a..b : {d \in a..b : d < e} = a..(e - 1)
  OBVIOUS
<1>2. \A e \in a..b : Cardinality(a..(e - 1)) = e - a
  <2> SUFFICES ASSUME NEW e \in a..b PROVE Cardinality(a..(e - 1)) = e - a
    OBVIOUS
  <2>1. e - 1 \in Int
    OBVIOUS
  <2>2. Cardinality(a..(e - 1)) = IF a > e - 1 THEN 0 ELSE (e - 1) - a + 1
    BY <2>1, FS_Interval
  <2> QED
    BY <2>2
<1>3. \A e \in a..b : (Cardinality({d \in a..b : d < e}) < k) <=> (e < a + k)
  <2> SUFFICES ASSUME NEW e \in a..b
               PROVE  (Cardinality({d \in a..b : d < e}) < k) <=> (e < a + k)
    OBVIOUS
  <2>1. Cardinality({d \in a..b : d < e}) = e - a
    BY <1>1, <1>2
  <2> QED
    BY <2>1
<1> QED
  BY <1>3

-----------------------------------------------------------------------------
(* The ring                                                                *)

\* The number of events held, and the base `lagged` is computed from.
LEMMA RingCount ==
    ASSUME RingInv
    PROVE  /\ HeldCount \in Nat /\ HeldCount <= next - 1 /\ HeldCount <= Capacity
           /\ Cardinality(retained) = HeldCount
           /\ Base = next - HeldCount
           /\ Latest = next - 1
           /\ IsFiniteSet(retained)
<1>1. HeldCount \in Nat /\ HeldCount <= next - 1 /\ HeldCount <= Capacity
  BY RingAssumption DEF RingInv, HeldCount
<1>2. next - HeldCount \in Int /\ next - 1 \in Int
  BY <1>1 DEF RingInv
<1>3. Cardinality(retained) = HeldCount /\ IsFiniteSet(retained)
  <2>1. /\ IsFiniteSet((next - HeldCount)..(next - 1))
        /\ Cardinality((next - HeldCount)..(next - 1)) =
             IF next - HeldCount > next - 1 THEN 0 ELSE (next - 1) - (next - HeldCount) + 1
    BY <1>2, FS_Interval
  <2>2. (IF next - HeldCount > next - 1 THEN 0 ELSE (next - 1) - (next - HeldCount) + 1) = HeldCount
    BY <1>1 DEF RingInv
  <2> QED
    BY <2>1, <2>2 DEF RingInv
<1> QED
  BY <1>1, <1>3 DEF Base, Latest

\* A push keeps the interval and evicts its oldest event when it is full.
LEMMA PushInv ==
    ASSUME RingInv, Push
    PROVE  RingInv'
<1>1. /\ HeldCount \in Nat /\ HeldCount <= next - 1 /\ HeldCount <= Capacity
      /\ Cardinality(retained) = HeldCount
  BY RingCount
<1>2. next \in Nat /\ next >= 1 /\ Capacity \in Nat /\ next' = next + 1
  BY RingAssumption DEF RingInv, Push
<1>3. retained = (next - HeldCount)..(next - 1)
  BY DEF RingInv
<1>4. CASE Capacity = 0
  <2>1. HeldCount = 0 /\ HeldCount' = 0
    BY <1>1, <1>2, <1>4 DEF HeldCount
  <2>2. retained' = retained
    BY <1>4 DEF Push
  <2> QED
    BY <1>2, <1>3, <2>1, <2>2 DEF RingInv
<1>5. CASE Capacity # 0 /\ HeldCount = Capacity
  <2>1. Oldest(retained) = next - HeldCount
    <3>1. next - HeldCount \in Int /\ next - 1 \in Int /\ next - HeldCount <= next - 1
      BY <1>1, <1>2, <1>5
    <3> QED
      BY <3>1, <1>3, IntervalEnds
  <2>2. retained' = (retained \ {next - HeldCount}) \cup {next}
    BY <2>1, <1>1, <1>5 DEF Push
  <2>3. HeldCount' = Capacity
    BY <1>1, <1>2, <1>5 DEF HeldCount
  <2>4. retained' = ((next + 1) - Capacity)..next
    BY <2>2, <1>1, <1>2, <1>3, <1>5
  <2> QED
    BY <2>3, <2>4, <1>2 DEF RingInv
<1>6. CASE Capacity # 0 /\ HeldCount # Capacity
  <2>1. HeldCount = next - 1 /\ HeldCount' = next
    BY <1>1, <1>2, <1>6 DEF HeldCount
  <2>2. retained' = retained \cup {next}
    BY <1>1, <1>6 DEF Push
  <2> QED
    BY <2>1, <2>2, <1>2, <1>3 DEF RingInv
<1> QED
  BY <1>4, <1>5, <1>6

\* What follows a cursor, and the page of it that is answered, are intervals.
LEMMA PageIs ==
    ASSUME RingInv, NEW p \in Poller, NEW since \in Cursor
    PROVE  LET a == IF since # NoCursor /\ since >= Base THEN since + 1 ELSE Base
           IN  /\ a \in Int /\ a >= 1
               /\ PageOf(p, since) = {e \in a..Latest : e < a + PageSize(p)}
<1> DEFINE a == IF since # NoCursor /\ since >= Base THEN since + 1 ELSE Base
<1>1. /\ HeldCount \in Nat /\ HeldCount <= next - 1 /\ Base = next - HeldCount
      /\ Latest = next - 1 /\ next \in Nat
  BY RingCount DEF RingInv
<1>2. since # NoCursor => since \in Nat
  BY DEF Cursor
<1>3. a \in Int /\ a >= 1
  BY <1>1, <1>2
<1>4. After(since) = a..Latest
  BY <1>1, <1>2 DEF After, RingInv
<1>5. PageSize(p) \in Nat
  BY RingAssumption DEF PageSize
<1>6. PageOf(p, since) = {e \in a..Latest : Cardinality({d \in a..Latest : d < e}) < PageSize(p)}
  BY <1>4 DEF PageOf
<1>7. Latest \in Int
  BY <1>1
<1>8. PageOf(p, since) = {e \in a..Latest : e < a + PageSize(p)}
  <2> HIDE DEF a
  <2> QED
    BY <1>3, <1>5, <1>6, <1>7, FirstOfInterval
<1> QED
  BY <1>3, <1>8

\* The answer to a poll accounts for everything between its cursor and the next.
LEMMA ServeAnswer ==
    ASSUME RingInv, NEW p \in Poller, NEW since \in Cursor,
           since # NoCursor => since <= Latest,
           NEW m, m.since = since, m.events = PageOf(p, since), m.latest = Latest,
           m.lagged = Lagged(since)
    PROVE  AnswerInv(p, m)
<1> DEFINE a == IF since # NoCursor /\ since >= Base THEN since + 1 ELSE Base
           b == IF a + PageSize(p) - 1 < Latest THEN a + PageSize(p) - 1 ELSE Latest
<1>1. /\ HeldCount \in Nat /\ HeldCount <= next - 1 /\ Base = next - HeldCount
      /\ Latest = next - 1 /\ next \in Nat /\ next >= 1
  BY RingCount DEF RingInv
<1>2. since # NoCursor => since \in Nat
  BY DEF Cursor
<1>3. a \in Int /\ a >= 1 /\ m.events = {e \in a..Latest : e < a + PageSize(p)}
  BY PageIs
<1>4. PageSize(p) \in Nat /\ PageSize(p) >= 1
  BY RingAssumption DEF PageSize
<1>5. m.events = a..b /\ b \in Int /\ b <= Latest
  <2> HIDE DEF a
  <2> QED
    BY <1>1, <1>3, <1>4
<1>6. a <= Latest + 1
  BY <1>1, <1>2
<1>7. CursorSound(p) => (p \in ByLatest => b = Latest)
  <2>1. SUFFICES ASSUME CursorSound(p), p \in ByLatest, a + PageSize(p) - 1 < Latest PROVE FALSE
    BY DEF CursorSound
  <2>2. a >= Base
    BY <1>1, <1>2
  <2>3. HeldCount <= Capacity /\ Capacity \in Nat /\ Limit[p] \in Nat
    BY RingCount, RingAssumption
  <2>4. PageSize(p) >= HeldCount \/ Capacity = 0
    BY <2>1, <2>3, RingAssumption DEF PageSize, CursorSound
  <2>5. Capacity = 0 => HeldCount = 0
    BY <2>3, <1>1
  <2> HIDE DEF a
  <2> QED
    BY <2>1, <2>2, <2>3, <2>4, <2>5, <1>1, <1>3, <1>4
<1>8. m.lagged <=> since # NoCursor /\ since + 1 < Base
  BY DEF Lagged
<1>9. a = IF since # NoCursor /\ since >= Base THEN since + 1 ELSE Base
  OBVIOUS
<1>10. m.since = since /\ m.latest = Latest /\ m.lagged \in BOOLEAN
  BY DEF Lagged
<1>11. ASSUME a > b PROVE AnswerInv(p, m)
  <2>1. m.events = {} /\ a = Latest + 1
    <3> HIDE DEF a
    <3> QED
      BY <1>1, <1>3, <1>4, <1>5, <1>6, <1>11
  <2>2. NextCursor(p, m) = Latest /\ FirstOf(m) = Latest + 1
    BY <2>1, <1>10 DEF NextCursor, FirstOf
  <2>3. Missed(m) = IF since = NoCursor THEN 1..Latest
                    ELSE IF since + 1 < Base THEN (since + 1)..Latest ELSE {}
    BY <2>2, <1>1, <1>8, <1>10 DEF Missed
  <2>4. since # NoCursor /\ ~(since + 1 < Base) => since = Latest
    BY <2>1, <1>1, <1>2, <1>9
  <2>5. m.events \cup Missed(m) \subseteq 1..Latest
    BY <2>1, <2>3, <1>1, <1>2
  <2>6. \A e \in m.events \cup Missed(m) : m.since # NoCursor => e > m.since
    BY <2>1, <2>3, <1>1, <1>2, <1>10
  <2>7. \A e \in 1..Latest : (m.since # NoCursor /\ e <= m.since) \/ e \in m.events \cup Missed(m)
    BY <2>1, <2>3, <2>4, <1>1, <1>2, <1>10
  <2> HIDE DEF a
  <2> QED
    BY <2>1, <2>2, <2>5, <2>6, <2>7, <1>1, <1>2, <1>10 DEF AnswerInv
<1>12. ASSUME a <= b PROVE AnswerInv(p, m)
  <2>1. m.events # {} /\ Oldest(m.events) = a /\ Newest(m.events) = b
    <3> HIDE DEF a, b
    <3>1. a \in a..b /\ m.events = a..b
      BY <1>3, <1>5, <1>12
    <3>2. Oldest(a..b) = a /\ Newest(a..b) = b
      BY <1>3, <1>5, <1>12, IntervalEnds
    <3> QED
      BY <3>1, <3>2
  <2>2. NextCursor(p, m) = (IF p \in ByLatest THEN Latest ELSE b) /\ FirstOf(m) = a
    BY <2>1, <1>10 DEF NextCursor, FirstOf
  <2>3. Missed(m) = IF since = NoCursor THEN 1..(a - 1)
                    ELSE IF since + 1 < Base THEN (since + 1)..(a - 1) ELSE {}
    BY <2>2, <1>8, <1>10 DEF Missed
  <2>4. /\ since # NoCursor => since < a
        /\ since # NoCursor /\ ~(since + 1 < Base) => a = since + 1
    BY <1>1, <1>2, <1>9
  <2>5. NextCursor(p, m) \in b..Latest /\ (CursorSound(p) => NextCursor(p, m) = b)
    <3> HIDE DEF a, b
    <3>1. Latest \in Int /\ b \in Int /\ b <= Latest
      BY <1>1, <1>5
    <3>2. CASE p \in ByLatest
      BY <2>2, <1>7, <3>1, <3>2
    <3>3. CASE p \notin ByLatest
      BY <2>2, <3>1, <3>3
    <3> QED
      BY <3>2, <3>3
  <2> HIDE DEF a, b
  <2>6. m.events \cup Missed(m) \subseteq 1..b
    BY <2>3, <2>4, <1>2, <1>3, <1>5, <1>12
  <2>7. \A e \in m.events \cup Missed(m) : m.since # NoCursor => e > m.since
    BY <2>3, <2>4, <1>2, <1>3, <1>5, <1>10
  <2>8. \A e \in 1..b : (m.since # NoCursor /\ e <= m.since) \/ e \in m.events \cup Missed(m)
    BY <2>3, <2>4, <1>2, <1>3, <1>5, <1>10
  <2>9. NextCursor(p, m) \in 0..Latest /\ (m.since # NoCursor => m.since <= NextCursor(p, m))
    BY <2>4, <2>5, <1>1, <1>2, <1>3, <1>5, <1>10, <1>12
  <2>10. m.events \cup Missed(m) \subseteq 1..NextCursor(p, m)
    BY <2>5, <2>6, <1>1, <1>5
  <2>11. m.events \subseteq 1..m.latest
    BY <1>1, <1>3, <1>5, <1>10
  <2>12. m.latest \in 0..(next - 1)
    BY <1>1, <1>10
  <2> QED
    BY <2>5, <2>7, <2>8, <2>9, <2>10, <2>11, <2>12, <1>10 DEF AnswerInv
<1> HIDE DEF a, b
<1> QED
  BY <1>3, <1>5, <1>11, <1>12

-----------------------------------------------------------------------------
(* The invariant                                                           *)

\* An empty ring and pollers that have asked nothing.
LEMMA PollingInit == RingInit => PollingInv
<1> SUFFICES ASSUME RingInit PROVE PollingInv
  OBVIOUS
<1>1. HeldCount = 0 /\ retained = (next - HeldCount)..(next - 1) /\ next \in Nat \ {0}
  BY RingAssumption DEF RingInit, HeldCount
<1>2. PollersInv
  BY DEF RingInit, PollersInv, Cursor, Idle, WireInv, CursorInv
<1> QED
  BY <1>1, <1>2 DEF PollingInv, RingInv

\* A push leaves what pollers have been told true.
LEMMA PushPollers ==
    ASSUME PollingInv, Push
    PROVE  PollersInv'
<1>1. next' = next + 1 /\ next \in Nat
  BY DEF PollingInv, RingInv, Push
<1>2. UNCHANGED <<cursor, wire, received, warned>>
  BY DEF Push, pollerVars
<1>3. \A p, m : AnswerInv(p, m) => AnswerInv(p, m)'
  BY <1>1 DEF AnswerInv, Missed, FirstOf, NextCursor, Cursor, CursorSound
<1>4. \A p, m, since : WireInv(p, m, since) => WireInv(p, m, since)'
  BY <1>3 DEF WireInv
<1>5. \A p, at, accounted : CursorInv(p, at, accounted) => CursorInv(p, at, accounted)'
  BY <1>1 DEF CursorInv, Cursor, CursorSound
<1> QED
  BY <1>2, <1>4, <1>5 DEF PollingInv, PollersInv

\* A poller's step: only its own entries change.
LEMMA PollerStep ==
    ASSUME PollingInv, NEW p \in Poller, Ask(p) \/ Serve(p) \/ Receive(p) \/ Lose(p)
    PROVE  PollingInv'
<1>1. UNCHANGED <<next, retained>>
  BY DEF Ask, Serve, Receive, Lose, bufVars
<1>2. RingInv'
  BY <1>1 DEF PollingInv, RingInv, HeldCount
<1>3. PollersInv /\ RingInv
  BY DEF PollingInv
<1>4. WireInv(p, wire[p], cursor[p]) /\ CursorInv(p, cursor[p], received[p] \cup warned[p])
  BY <1>3 DEF PollersInv
<1>5. ASSUME NEW m, WireInv(p, m, cursor[p]), wire' = [wire EXCEPT ![p] = m],
             UNCHANGED <<cursor, received, warned>>
      PROVE  PollersInv'
  <2>1. \A q \in Poller : WireInv(q, wire'[q], cursor[q])
    BY <1>3, <1>5 DEF PollersInv
  <2>2. \A q \in Poller : CursorInv(q, cursor[q], received[q] \cup warned[q])
    BY <1>3 DEF PollersInv
  <2> QED
    BY <1>1, <1>3, <1>5, <2>1, <2>2
    DEF PollersInv, WireInv, CursorInv, AnswerInv, Missed, FirstOf, NextCursor, CursorSound
<1>6. CASE Ask(p)
  <2> DEFINE m == [kind |-> "poll", since |-> cursor[p]]
  <2>1. WireInv(p, m, cursor[p])
    BY DEF WireInv
  <2>2. wire' = [wire EXCEPT ![p] = m] /\ UNCHANGED <<cursor, received, warned>>
    BY <1>6 DEF Ask
  <2> HIDE DEF m
  <2> QED
    BY <1>2, <1>5, <2>1, <2>2 DEF PollingInv
<1>7. CASE Lose(p)
  <2>1. WireInv(p, Idle, cursor[p])
    BY DEF WireInv, Idle
  <2>2. wire' = [wire EXCEPT ![p] = Idle] /\ UNCHANGED <<cursor, received, warned>>
    BY <1>7 DEF Lose
  <2> QED
    BY <1>2, <1>5, <2>1, <2>2 DEF PollingInv
<1>8. CASE Serve(p)
  <2> DEFINE m == [kind |-> "answer", since |-> wire[p].since,
                   events |-> PageOf(p, wire[p].since), latest |-> Latest,
                   lagged |-> Lagged(wire[p].since)]
  <2>1. wire[p].since = cursor[p] /\ cursor[p] \in Cursor
    BY <1>4, <1>8 DEF Serve, WireInv, CursorInv
  <2>2. cursor[p] # NoCursor => cursor[p] <= Latest
    BY <1>4 DEF CursorInv, Latest
  <2>3. AnswerInv(p, m)
    BY <1>3, <2>1, <2>2, ServeAnswer
  <2>4. m.kind = "answer" /\ m.since = cursor[p]
    BY <2>1
  <2>5. wire' = [wire EXCEPT ![p] = m] /\ UNCHANGED <<cursor, received, warned>>
    BY <1>8 DEF Serve
  <2> HIDE DEF m
  <2>6. WireInv(p, m, cursor[p])
    BY <2>3, <2>4 DEF WireInv
  <2> QED
    BY <1>5, <2>5, <2>6, <1>2 DEF PollingInv
<1>9. CASE Receive(p)
  <2> DEFINE m == wire[p]
             to == NextCursor(p, m)
             given == m.events \cup Missed(m)
             had == received[p] \cup warned[p]
  <2>1. AnswerInv(p, m) /\ m.since = cursor[p]
    BY <1>4, <1>9 DEF Receive, WireInv
  <2>2. /\ cursor' = [cursor EXCEPT ![p] = to]
        /\ received' = [received EXCEPT ![p] = @ \cup m.events]
        /\ warned' = [warned EXCEPT ![p] = @ \cup Missed(m)]
        /\ wire' = [wire EXCEPT ![p] = Idle]
    BY <1>9 DEF Receive
  <2>3. to \in Nat /\ to <= next - 1 /\ given \subseteq 1..to
    BY <2>1, <1>3 DEF AnswerInv, RingInv
  <2>4. to # NoCursor
    BY <2>3, RingAssumption
  <2>5. /\ cursor[p] # NoCursor =>
             cursor[p] \in Nat /\ cursor[p] <= to /\ had \subseteq 1..cursor[p]
        /\ cursor[p] = NoCursor => had = {}
    BY <1>4, <2>1 DEF CursorInv, AnswerInv, Cursor
  <2>6. had \cup given \subseteq 1..to
    BY <2>3, <2>5
  <2>7. CursorSound(p) => 1..to \subseteq had \cup given
    <3> SUFFICES ASSUME CursorSound(p), NEW e \in 1..to PROVE e \in had \cup given
      OBVIOUS
    <3>1. \/ cursor[p] # NoCursor /\ e <= cursor[p]
          \/ e \in given
      BY <2>1 DEF AnswerInv
    <3>2. cursor[p] # NoCursor /\ e <= cursor[p] => e \in had
      BY <1>4, <2>5 DEF CursorInv
    <3> QED
      BY <3>1, <3>2
  <2>8. CursorInv(p, to, had \cup given)
    BY <2>3, <2>4, <2>6, <2>7 DEF CursorInv, Cursor
  <2>9. /\ cursor'[p] = to
        /\ received'[p] \cup warned'[p] = had \cup given
        /\ wire'[p] = Idle
    BY <2>2, <1>3 DEF PollersInv
  <2>10. \A q \in Poller : q # p =>
           /\ cursor'[q] = cursor[q] /\ wire'[q] = wire[q]
           /\ received'[q] = received[q] /\ warned'[q] = warned[q]
    BY <2>2, <1>3 DEF PollersInv
  <2>11. to \in Cursor /\ m.events \subseteq Int /\ Missed(m) \subseteq Int
    BY <2>3 DEF Cursor
  <2>12. /\ cursor' \in [Poller -> Cursor] /\ DOMAIN wire' = Poller
         /\ received' \in [Poller -> SUBSET Int] /\ warned' \in [Poller -> SUBSET Int]
    <3> HIDE DEF m, to
    <3> QED
      BY <2>2, <2>11, <1>3 DEF PollersInv
  <2>13. \A q \in Poller : WireInv(q, wire'[q], cursor'[q])
    <3>1. WireInv(p, Idle, to)
      BY DEF WireInv, Idle
    <3> HIDE DEF m, to
    <3> QED
      BY <2>9, <2>10, <3>1, <1>3 DEF PollersInv
  <2>14. \A q \in Poller : CursorInv(q, cursor'[q], received'[q] \cup warned'[q])
    <3> HIDE DEF m, to, had, given
    <3> QED
      BY <2>8, <2>9, <2>10, <1>3 DEF PollersInv
  <2>15. PollersInv'
    BY <1>1, <2>12, <2>13, <2>14
    DEF PollersInv, WireInv, CursorInv, AnswerInv, Missed, FirstOf, NextCursor, CursorSound
  <2> QED
    BY <1>2, <2>15 DEF PollingInv
<1> QED
  BY <1>2, <1>5, <1>6, <1>7, <1>8, <1>9 DEF PollingInv

\* PollingInv is inductive.
LEMMA PollingStep == PollingInv /\ [RingNext]_ringVars => PollingInv'
<1> SUFFICES ASSUME PollingInv, [RingNext]_ringVars PROVE PollingInv'
  OBVIOUS
<1>1. CASE Push
  BY <1>1, PushInv, PushPollers DEF PollingInv
<1>2. CASE \E p \in Poller : Ask(p) \/ Serve(p) \/ Receive(p) \/ Lose(p)
  BY <1>2, PollerStep
<1>3. CASE UNCHANGED ringVars
  <2>1. UNCHANGED <<next, retained, cursor, wire, received, warned>>
    BY <1>3 DEF ringVars
  <2>2. RingInv'
    BY <2>1 DEF PollingInv, RingInv, HeldCount
  <2>3. \A p, m : AnswerInv(p, m) => AnswerInv(p, m)'
    BY <2>1 DEF AnswerInv, Missed, FirstOf, NextCursor, CursorSound
  <2>4. \A p, m, since : WireInv(p, m, since) => WireInv(p, m, since)'
    BY <2>3 DEF WireInv
  <2>5. \A p, at, accounted : CursorInv(p, at, accounted) => CursorInv(p, at, accounted)'
    BY <2>1 DEF CursorInv, CursorSound
  <2>6. PollersInv'
    BY <2>1, <2>4, <2>5 DEF PollingInv, PollersInv
  <2> QED
    BY <2>2, <2>6 DEF PollingInv
<1> QED
  BY <1>1, <1>2, <1>3 DEF RingNext

-----------------------------------------------------------------------------
(* The theorems                                                            *)

\* The ring, the cursors and the answers stay in step.
THEOREM RingInvariant == RingSpec => []PollingInv
<1> QED
  BY PollingInit, PollingStep, PTL DEF RingSpec

\* The ring retains the last events pushed, without a hole (EventRing::push).
THEOREM RingTypeCorrect == RingSpec => []RingTypeOK
<1>1. PollingInv => RingTypeOK
  <2> SUFFICES ASSUME PollingInv PROVE RingTypeOK
    OBVIOUS
  <2>1. /\ Base = next - HeldCount /\ Latest = next - 1 /\ Cardinality(retained) = HeldCount
        /\ retained = (next - HeldCount)..(next - 1) /\ next \in Nat \ {0}
    BY RingCount DEF PollingInv, RingInv
  <2>2. HeldCount = IF Latest < Capacity THEN Latest ELSE Capacity
    BY <2>1 DEF HeldCount
  <2>3. \A p \in Poller : WireInv(p, wire[p], cursor[p])
    BY DEF PollingInv, PollersInv
  <2>4. \A p \in Poller :
          /\ wire[p].kind \in {"idle", "poll", "answer"}
          /\ wire[p].kind = "poll" => wire[p].since \in Cursor
          /\ wire[p].kind = "answer" => AnswerOK(wire[p])
    <3>1. \A p, m : AnswerInv(p, m) => AnswerOK(m)
      BY DEF AnswerInv, AnswerOK
    <3> QED
      BY <2>3, <3>1 DEF PollingInv, PollersInv, WireInv
  <2>5. \A p \in Poller : received[p] \subseteq 1..Latest /\ warned[p] \subseteq 1..Latest
    <3> SUFFICES ASSUME NEW p \in Poller
                 PROVE  received[p] \cup warned[p] \subseteq 1..Latest
      OBVIOUS
    <3>1. CursorInv(p, cursor[p], received[p] \cup warned[p])
      BY DEF PollingInv, PollersInv
    <3>2. CASE cursor[p] = NoCursor
      BY <3>1, <3>2 DEF CursorInv
    <3>3. CASE cursor[p] # NoCursor
      <4>1. cursor[p] \in Nat /\ cursor[p] <= Latest
        BY <3>1, <3>3, <2>1 DEF CursorInv, Cursor
      <4> QED
        BY <3>1, <3>3, <4>1, <2>1 DEF CursorInv
    <3> QED
      BY <3>2, <3>3
  <2>6. received \in [Poller -> SUBSET (1..Latest)] /\ warned \in [Poller -> SUBSET (1..Latest)]
    BY <2>5 DEF PollingInv, PollersInv
  <2> QED
    BY <2>1, <2>2, <2>4, <2>6 DEF RingTypeOK, PollingInv, PollersInv
<1> QED
  BY <1>1, RingInvariant, PTL

\* No gap is silent, for a client that pages by the last event it was given or asks
\* for at least what the ring can hold (EventRing::since, EventPoll::lagged).
THEOREM RingNoSilentGap == RingSpec => []NoSilentGap
<1>1. PollingInv => NoSilentGap
  BY DEF PollingInv, PollersInv, CursorInv, NoSilentGap
<1> QED
  BY <1>1, RingInvariant, PTL

\* Nothing is given twice, whatever cursor the client picks and however often an
\* answer is lost.
THEOREM RingGivenOnce == RingSpec => GivenOnce
<1>1. ASSUME PollingInv, RingNext, NEW p \in Poller,
             received'[p] # received[p] \/ warned'[p] # warned[p]
      PROVE  wire[p].events \cap (received[p] \cup warned[p]) = {}
  <2>1. PICK q \in Poller : Receive(q)
    BY <1>1 DEF RingNext, Push, Ask, Serve, Lose, pollerVars
  <2>2. p = q
    BY <1>1, <2>1 DEF Receive, PollingInv, PollersInv
  <2>3. AnswerInv(p, wire[p]) /\ wire[p].since = cursor[p]
    BY <1>1, <2>1, <2>2 DEF Receive, PollingInv, PollersInv, WireInv
  <2>4. CursorInv(p, cursor[p], received[p] \cup warned[p])
    BY <1>1 DEF PollingInv, PollersInv
  <2>5. CASE cursor[p] = NoCursor
    BY <2>4, <2>5 DEF CursorInv
  <2>6. CASE cursor[p] # NoCursor
    <3>1. \A e \in wire[p].events : e > cursor[p]
      BY <2>3, <2>6 DEF AnswerInv
    <3>2. received[p] \cup warned[p] \subseteq 1..cursor[p] /\ cursor[p] \in Nat
      BY <2>4, <2>6 DEF CursorInv, Cursor
    <3>3. wire[p].events \subseteq Int
      BY <2>3 DEF AnswerInv
    <3> QED
      BY <3>1, <3>2, <3>3
  <2> QED
    BY <2>5, <2>6
<1>2. PollingInv /\ [RingNext]_ringVars =>
        [\A p \in Poller :
           (received'[p] # received[p] \/ warned'[p] # warned[p]) =>
             wire[p].events \cap (received[p] \cup warned[p]) = {}]_ringVars
  BY <1>1
<1> QED
  BY <1>2, RingInvariant, PTL DEF RingSpec, GivenOnce

-----------------------------------------------------------------------------
(* Sequences put together                                                  *)

\* Induction over the naturals, for a set: there is no least number outside it.
LEMMA Inductive ==
    ASSUME NEW T, 0 \in T, \A n \in Nat : n \in T => n + 1 \in T
    PROVE  \A n \in Nat : n \in T
<1> DEFINE R == {ss \in Nat \X Nat : ss[1] < ss[2]}
<1>1. IsWellFoundedOn(R, Nat)
  BY NatLessThanWellFounded DEF OpToRel
<1> SUFFICES ASSUME NEW m \in Nat, m \notin T PROVE FALSE
  OBVIOUS
<1>2. PICK x \in Nat \ T : \A y \in Nat \ T : ~(<<y, x>> \in R)
  BY <1>1, WFMin
<1>3. x # 0 /\ x - 1 \in Nat /\ x = (x - 1) + 1
  BY <1>2
<1>4. x - 1 \in Nat \ T
  BY <1>2, <1>3
<1>5. <<x - 1, x>> \in R
  BY <1>3
<1> QED
  BY <1>2, <1>4, <1>5

\* What FlattenSeq has joined after each of n pieces
Joins(h, pieces, n) ==
    /\ h[1] = pieces[1]
    /\ \A i \in 2 .. n : h[i] = h[i - 1] \o pieces[i]
    /\ FlattenSeq(pieces) = h[n]

LEMMA Concatenated ==
    ASSUME NEW S, NEW n \in Nat \ {0}, NEW pieces \in [1 .. n -> Seq(S)]
    PROVE  \E h \in [1 .. n -> Seq(S)] : Joins(h, pieces, n)
<1> DEFINE joined(f, i) == IF i = 1 THEN pieces[i] ELSE f[i - 1] \o pieces[i]
           T == {m \in Nat : \E f : f = [i \in 1 .. m |-> joined(f, i)]}
<1>1. 0 \in T
  <2> DEFINE f == [i \in 1 .. 0 |-> <<>>]
  <2>1. f = [i \in 1 .. 0 |-> joined(f, i)]
    OBVIOUS
  <2> QED
    BY <2>1
<1>2. ASSUME NEW m \in Nat, m \in T PROVE m + 1 \in T
  <2>1. PICK f : f = [i \in 1 .. m |-> joined(f, i)]
    BY <1>2
  <2> DEFINE g == [i \in 1 .. m + 1 |-> IF i = m + 1 THEN joined(f, i) ELSE f[i]]
  <2>2. \A i \in 1 .. m : g[i] = f[i] /\ f[i] = joined(f, i)
    <3> HIDE DEF joined
    <3>1. \A i \in 1 .. m : f[i] = joined(f, i)
      BY <2>1
    <3>2. \A i \in 1 .. m : i # m + 1 /\ i \in 1 .. m + 1
      OBVIOUS
    <3> QED
      BY <3>1, <3>2
  <2>3. ASSUME NEW i \in 1 .. m + 1 PROVE g[i] = joined(g, i)
    <3>1. i = 1 => joined(g, i) = joined(f, i)
      OBVIOUS
    <3>2. i # 1 => i - 1 \in 1 .. m /\ g[i - 1] = f[i - 1]
      BY <2>2
    <3>3. joined(g, i) = joined(f, i)
      BY <3>1, <3>2
    <3> HIDE DEF joined
    <3>4. i # m + 1 => g[i] = joined(f, i)
      <4>1. i # m + 1 => i \in 1 .. m
        OBVIOUS
      <4> HIDE DEF g
      <4> QED
        BY <2>2, <4>1
    <3> QED
      BY <3>3, <3>4
  <2>4. g = [i \in 1 .. m + 1 |-> joined(g, i)]
    BY <2>3
  <2> HIDE DEF g, joined
  <2>5. \E h : h = [i \in 1 .. m + 1 |-> joined(h, i)]
    BY <2>4
  <2> QED
    BY <2>5
<1>3. n \in T
  <2> HIDE DEF T
  <2> QED
    BY <1>1, <1>2, Inductive
<1>4. Len(pieces) = n
  OBVIOUS
<1>5. PICK h : h = [i \in 1 .. n |-> joined(h, i)] /\ FlattenSeq(pieces) = h[n]
  <2> DEFINE h == CHOOSE f : f = [i \in 1 .. n |-> joined(f, i)]
  <2>1. h = [i \in 1 .. n |-> joined(h, i)]
    BY <1>3
  <2>2. FlattenSeq(pieces) = h[n]
    BY <1>4 DEF FlattenSeq
  <2> HIDE DEF h, joined
  <2> QED
    BY <2>1, <2>2
<1> DEFINE U == {m \in Nat : m + 1 <= n => h[m + 1] \in Seq(S)}
<1>6. h[1] = pieces[1] /\ \A i \in 2 .. n : h[i] = h[i - 1] \o pieces[i]
  <2>1. \A i \in 1 .. n : h[i] = joined(h, i)
    <3> HIDE DEF joined
    <3> QED
      BY <1>5
  <2>2. 1 \in 1 .. n /\ \A i \in 2 .. n : i \in 1 .. n /\ i # 1
    OBVIOUS
  <2>3. h[1] = joined(h, 1) /\ joined(h, 1) = pieces[1]
    BY <2>1, <2>2
  <2>4. ASSUME NEW i \in 2 .. n PROVE h[i] = h[i - 1] \o pieces[i]
    <3>1. h[i] = joined(h, i)
      BY <2>1, <2>2
    <3>2. joined(h, i) = h[i - 1] \o pieces[i]
      BY <2>2
    <3> QED
      BY <3>1, <3>2
  <2> QED
    BY <2>3, <2>4
<1>7. \A m \in Nat : m \in U
  <2>1. 0 \in U
    BY <1>6
  <2>2. ASSUME NEW m \in Nat, m \in U PROVE m + 1 \in U
    <3> SUFFICES ASSUME (m + 1) + 1 <= n PROVE h[(m + 1) + 1] \in Seq(S)
      OBVIOUS
    <3>1. (m + 1) + 1 \in 2 .. n /\ ((m + 1) + 1) - 1 = m + 1 /\ (m + 1) + 1 \in 1 .. n
          /\ m + 1 <= n
      OBVIOUS
    <3>2. h[(m + 1) + 1] = h[m + 1] \o pieces[(m + 1) + 1]
      BY <1>6, <3>1
    <3>3. h[m + 1] \in Seq(S) /\ pieces[(m + 1) + 1] \in Seq(S)
      BY <2>2, <3>1
    <3> QED
      BY <3>2, <3>3, ConcatProperties, Zenon
  <2> HIDE DEF U
  <2> QED
    BY <2>1, <2>2, Inductive
<1>8. \A i \in 1 .. n : h[i] \in Seq(S)
  <2> SUFFICES ASSUME NEW i \in 1 .. n PROVE h[i] \in Seq(S)
    OBVIOUS
  <2>1. i - 1 \in Nat /\ (i - 1) + 1 = i
    OBVIOUS
  <2>2. i - 1 \in U
    BY <1>7, <2>1
  <2>3. h[(i - 1) + 1] \in Seq(S)
    BY <2>1, <2>2
  <2> QED
    BY <2>1, <2>3
<1>9. h \in [1 .. n -> Seq(S)]
  <2> HIDE DEF joined
  <2> QED
    BY <1>5, <1>8
<1> QED
  BY <1>5, <1>6, <1>9 DEF Joins

-----------------------------------------------------------------------------
(* Scrolled screenshots                                                    *)

\* The job remembers where the list was from the moment it first moves it, and
\* has not moved it before.
Home ==
    /\ job.phase \in {"none", "metrics", "tiles"}
    /\ job.phase = "metrics" => home = -1
    /\ job.phase = "tiles" => home = job.original
    /\ job.phase # "none" =>
          DOMAIN job =
               {"phase", "cap", "plan", "captured", "clip", "original", "waited", "awaiting"}

Restores ==
    job.phase # "none" /\ job'.phase = "none" /\ home >= 0 =>
        offset' = IF page = "todos" THEN Clamped(home) ELSE home

\* Before a job nothing is to be restored.
LEMMA HomeInit == ShotInit => Home
  BY DEF ShotInit, Home, NoJob

\* Each frame, and each touch by the human, keeps what will be restored.
LEMMA HomeNext == Home /\ [ShotNext]_shotVars => Home' /\ Restores
  <1> SUFFICES ASSUME Home, [ShotNext]_shotVars PROVE Home' /\ Restores
    OBVIOUS
  <1> USE DEF Home, Restores
  <1>1. ASSUME NEW cap \in Caps, Start(cap) PROVE Home' /\ Restores
    BY <1>1 DEF Start
  <1>2. CASE WaitForMetrics
    BY <1>2 DEF WaitForMetrics, Finish, NoJob
  <1>3. CASE Begin
    <2>1. job.phase = "metrics" /\ UNCHANGED page
      BY <1>3 DEF Begin, listVars
    <2>2. CASE Plan(Metrics, job.cap) = <<>>
      <3>1. job' = NoJob /\ UNCHANGED home
        BY <1>3, <2>2 DEF Begin, Finish
      <3> QED
        BY <2>1, <3>1 DEF NoJob
    <2>3. CASE Plan(Metrics, job.cap) # <<>>
      <3> DEFINE plan == Plan(Metrics, job.cap)
      <3>1. /\ job' = [job EXCEPT !.phase = "tiles", !.plan = plan, !.clip = Metrics.view,
                                  !.original = Metrics.offset, !.awaiting = TRUE]
            /\ home' = offset
        BY <1>3, <2>3 DEF Begin
      <3>2. Metrics.offset = offset
        BY DEF Metrics
      <3> HIDE DEF plan
      <3>3. job'.phase = "tiles" /\ job'.original = Metrics.offset /\ DOMAIN job' = DOMAIN job
        BY <2>1, <3>1
      <3>4. job'.phase = "tiles" /\ job'.original = home'
        BY <3>1, <3>2, <3>3
      <3>5. DOMAIN job' = {"phase", "cap", "plan", "captured", "clip", "original", "waited",
                           "awaiting"}
        BY <2>1, <3>3
      <3>6. Home'
        BY <3>4, <3>5, Zenon
      <3> QED
        BY <3>4, <3>6
    <2> QED
      BY <2>2, <2>3
  <1>4. CASE LetPass
    BY <1>4 DEF LetPass
  <1>5. ASSUME NEW k \in 1..2, Capture(screen[k]) PROVE Home' /\ Restores
    <2> DEFINE n == Len(job.captured) + 1
               captured == Append(job.captured, Crop(screen[k], job.plan[n]))
    <2>1. job.phase = "tiles" /\ UNCHANGED <<page, rows, view, home>>
      BY <1>5 DEF Capture, listVars
    <2>2. CASE n < Len(job.plan)
      <3>1. job' = [job EXCEPT !.captured = captured, !.awaiting = TRUE]
        BY <1>5, <2>2 DEF Capture
      <3> HIDE DEF captured
      <3>2. job'.phase = "tiles" /\ job'.original = home' /\ DOMAIN job' = DOMAIN job
        BY <2>1, <3>1
      <3>3. DOMAIN job' = {"phase", "cap", "plan", "captured", "clip", "original", "waited",
                           "awaiting"}
        BY <2>1, <3>2
      <3>4. Home'
        BY <3>2, <3>3, Zenon
      <3> QED
        BY <3>2, <3>4
    <2>3. CASE ~(n < Len(job.plan))
      <3>1. Finish("ok")
        BY <1>5, <2>3 DEF Capture
      <3> QED
        BY <2>1, <3>1 DEF Finish, NoJob, Paint, Clamped
    <2> QED
      BY <2>2, <2>3
  <1>6. CASE CaptureFails
    BY <1>6 DEF CaptureFails, Finish, NoJob, Paint, Clamped, listVars
  <1>7. CASE IdleFrame
    BY <1>7 DEF IdleFrame
  <1>8. CASE Human
    BY <1>8 DEF Human, Scroll, Resize, AddRow, DeleteRow, Navigate, Touch
  <1>9. CASE UNCHANGED shotVars
    BY <1>9 DEF shotVars
  <1> QED
    BY <1>1, <1>2, <1>3, <1>4, <1>5, <1>6, <1>7, <1>8, <1>9 DEF ShotNext, Frame

\* A scrolled screenshot that moved the list puts it back where it was when it
\* first moved it, in every way it can end (finish_scrolled_job).
THEOREM ShotOffsetRestored == ShotSpec => OffsetRestored
  <1>1. Home /\ [ShotNext]_shotVars => [Restores]_shotVars
    BY HomeNext
  <1> QED
    BY HomeInit, HomeNext, <1>1, PTL DEF ShotSpec, OffsetRestored, Restores

\* A tile starts where the one before it ended, keeps inside the viewport and the
\* content, and is never empty: with the next one starting where it ends, a plan
\* shows every row once (plan_scroll_tiles).
THEOREM TileContinues ==
    ASSUME NEW content \in Nat, NEW height \in Nat \ {0}, content >= height,
           NEW covered \in 0 .. content - 1
    PROVE  LET tile == Tile(content, height, covered)
           IN /\ tile.offset \in 0 .. content - height
              /\ tile.offset + tile.skip = covered
              /\ tile.skip >= 0 /\ tile.take >= 1
              /\ tile.skip + tile.take <= height
              /\ tile.take = height \/ covered + tile.take = content
  BY DEF Tile, Lesser

\* The image a scrolled screenshot promises, and how a plan cuts it: its rows,
\* where tile k ends, and what tile k is for.
Blanks == Greater(0, view - Len(rows))
ListImage == rows \o [k \in 1 .. Blanks |-> Blank]
Content == view + Greater(0, Len(rows) - view)
TileCount == (Content + view - 1) \div view
EndOf(k) == Lesser(k * view, Content)
TileAt(k) == Tile(Content, view, (k - 1) * view)
Slice(k) == [j \in 1 .. EndOf(k) - EndOf(k - 1) |-> ListImage[EndOf(k - 1) + j]]

Undisturbed == ~touched /\ page = "todos"

\* With nobody at the list, a job measures the list there is, ...
MeasuresList ==
    /\ handle = [view |-> view, max |-> Greater(0, Len(rows) - view)]
    /\ job.captured = <<>>

\* ... has captured what its tiles are for, one by one, and sees the next.
TilesInv ==
    /\ view >= 1
    /\ job.plan = [k \in 1 .. TileCount |-> TileAt(k)]
    /\ \E n \in 0 .. TileCount - 1 :
          /\ job.captured = [k \in 1 .. n |-> Slice(k)]
          /\ offset = TileAt(n + 1).offset
          /\ screen[2] = Painted(offset)
          /\ ~job.awaiting => screen[1] = Painted(offset)

ShotRows == rows \in Seq(Nat) /\ view \in Nat /\ touches \in Nat

ImageInv ==
    /\ ShotRows
    /\ Home
    /\ Undisturbed /\ job.phase = "metrics" => MeasuresList
    /\ Undisturbed /\ job.phase = "tiles" => TilesInv
    /\ ImageIsList

\* Slices that continue one another are stitched to what they were cut from.
LEMMA StitchSlices ==
    ASSUME NEW S, NEW n \in Nat \ {0}, NEW ends \in [0 .. n -> Nat], ends[0] = 0,
           \A k \in 1 .. n : ends[k - 1] <= ends[k],
           NEW whole \in [1 .. ends[n] -> S]
    PROVE  Stitch([k \in 1 .. n |->
                      [j \in 1 .. ends[k] - ends[k - 1] |-> whole[ends[k - 1] + j]]]) = whole
<1> DEFINE slices == [k \in 1 .. n |->
                        [j \in 1 .. ends[k] - ends[k - 1] |-> whole[ends[k - 1] + j]]]
           part(k) == [j \in 1 .. ends[k] |-> whole[j]]
\* No end is past the last one
<1> DEFINE T == {m \in Nat : m <= n => ends[n - m] <= ends[n]}
<1>1. \A k \in 0 .. n : ends[k] <= ends[n] /\ ends[k] \in Nat
  <2>1. 0 \in T
    OBVIOUS
  <2>2. ASSUME NEW m \in Nat, m \in T PROVE m + 1 \in T
    <3> SUFFICES ASSUME m + 1 <= n PROVE ends[n - (m + 1)] <= ends[n]
      OBVIOUS
    <3>1. n - m \in 1 .. n /\ (n - m) - 1 = n - (m + 1) /\ n - (m + 1) \in 0 .. n
      OBVIOUS
    <3>2. ends[n - (m + 1)] <= ends[n - m] /\ ends[n - m] <= ends[n]
      BY <2>2, <3>1
    <3>3. ends[n - (m + 1)] \in Nat /\ ends[n - m] \in Nat /\ ends[n] \in Nat
      BY <3>1
    <3> QED
      BY <3>2, <3>3
  <2> HIDE DEF T
  <2>3. \A m \in Nat : m \in T
    BY <2>1, <2>2, Inductive
  <2> USE DEF T
  <2> SUFFICES ASSUME NEW k \in 0 .. n PROVE ends[k] <= ends[n] /\ ends[k] \in Nat
    OBVIOUS
  <2>4. n - k \in Nat /\ n - (n - k) = k /\ n - k <= n
    OBVIOUS
  <2> QED
    BY <2>3, <2>4
<1> HIDE DEF T
<1>2. \A k \in 0 .. n : part(k) \in Seq(S) /\ Len(part(k)) = ends[k]
  <2> SUFFICES ASSUME NEW k \in 0 .. n PROVE part(k) \in Seq(S) /\ Len(part(k)) = ends[k]
    OBVIOUS
  <2> DEFINE c == ends[k]  d == ends[n]
  <2>1. c \in Nat /\ d \in Nat /\ c <= d /\ whole \in [1 .. d -> S]
    <3>1. n \in 0 .. n
      OBVIOUS
    <3> QED
      BY <1>1, <3>1
  <2>2. part(k) = [j \in 1 .. c |-> whole[j]]
    OBVIOUS
  <2> HIDE DEF c, d, part
  <2>3. \A j \in 1 .. c : whole[j] \in S
    BY <2>1
  <2>4. part(k) \in Seq(S) /\ Len(part(k)) = c
    BY <2>1, <2>2, <2>3
  <2> QED
    BY <2>4 DEF c
<1>3. \A k \in 1 .. n : /\ slices[k] \in Seq(S) /\ Len(slices[k]) = ends[k] - ends[k - 1]
                        /\ \A j \in 1 .. Len(slices[k]) : slices[k][j] = whole[ends[k - 1] + j]
  <2> SUFFICES ASSUME NEW k \in 1 .. n
               PROVE /\ slices[k] \in Seq(S) /\ Len(slices[k]) = ends[k] - ends[k - 1]
                     /\ \A j \in 1 .. Len(slices[k]) : slices[k][j] = whole[ends[k - 1] + j]
    OBVIOUS
  <2> DEFINE b == ends[k - 1]  c == ends[k]  d == ends[n]
  <2>1. b \in Nat /\ c \in Nat /\ d \in Nat /\ b <= c /\ c <= d
    <3>1. k - 1 \in 0 .. n /\ k \in 0 .. n /\ n \in 0 .. n
      OBVIOUS
    <3> QED
      BY <1>1, <3>1
  <2>2. slices[k] = [j \in 1 .. c - b |-> whole[b + j]]
    OBVIOUS
  <2>3. whole \in [1 .. d -> S]
    OBVIOUS
  <2> HIDE DEF b, c, d, slices
  <2>4. \A j \in 1 .. c - b : b + j \in 1 .. d
    BY <2>1
  <2>5. \A j \in 1 .. c - b : whole[b + j] \in S
    BY <2>3, <2>4
  <2>6. c - b \in Nat
    BY <2>1
  <2>7. slices[k] \in Seq(S) /\ Len(slices[k]) = c - b
    BY <2>2, <2>5, <2>6
  <2> QED
    BY <2>2, <2>7 DEF b, c
<1>4. \A k \in 1 .. n : k # 1 => part(k - 1) \o slices[k] = part(k)
  <2> SUFFICES ASSUME NEW k \in 1 .. n, k # 1 PROVE part(k - 1) \o slices[k] = part(k)
    OBVIOUS
  <2> DEFINE p == part(k - 1)  q == slices[k]  r == part(k)  b == ends[k - 1]  c == ends[k]
  <2>1. k - 1 \in 0 .. n /\ k \in 0 .. n /\ b <= c /\ b \in Nat /\ c \in Nat
    <3>1. k - 1 \in 0 .. n /\ k \in 0 .. n
      OBVIOUS
    <3> QED
      BY <1>1, <3>1
  <2>2. p \in Seq(S) /\ Len(p) = b /\ r \in Seq(S) /\ Len(r) = c
    BY <1>2, <2>1
  <2>3. q \in Seq(S) /\ Len(q) = c - b /\ \A j \in 1 .. c - b : q[j] = whole[b + j]
    BY <1>3
  <2>4. (\A j \in 1 .. b : p[j] = whole[j]) /\ (\A j \in 1 .. c : r[j] = whole[j])
    BY <2>1
  <2> HIDE DEF p, q, r, b, c, slices, part
  <2>5. p \o q \in Seq(S) /\ Len(p \o q) = c
    <3>1. p \o q \in Seq(S) /\ Len(p \o q) = Len(p) + Len(q)
      <4>1. p \in Seq(S) /\ q \in Seq(S)
        BY <2>2, <2>3
      <4> QED
        BY <4>1, ConcatProperties, Zenon
    <3>2. b + (c - b) = c
      BY <2>1
    <3> QED
      BY <2>2, <2>3, <3>1, <3>2
  <2>6. ASSUME NEW i \in 1 .. c PROVE (p \o q)[i] = r[i]
    <3>1. (p \o q)[i] = IF i <= b THEN p[i] ELSE q[i - b]
      BY <2>1, <2>2, <2>3, ConcatProperties
    <3>2. CASE i <= b
      BY <2>1, <2>4, <3>1, <3>2
    <3>3. CASE ~(i <= b)
      <4>1. i - b \in 1 .. c - b /\ b + (i - b) = i
        BY <2>1, <3>3
      <4> QED
        BY <2>3, <2>4, <3>1, <3>3, <4>1
    <3> QED
      BY <3>2, <3>3
  <2>7. p \o q = r
    BY <2>2, <2>5, <2>6, SeqEqual
  <2> QED
    BY <2>7 DEF p, q, r
<1>5. slices[1] = part(1)
  <2>1. 1 - 1 = 0 /\ 1 \in 1 .. n /\ 1 \in 0 .. n /\ ends[1] \in Nat
    OBVIOUS
  <2>2. slices[1] = [j \in 1 .. ends[1] - ends[0] |-> whole[ends[0] + j]]
    BY <2>1
  <2>3. ends[1] - ends[0] = ends[1] /\ \A j \in 1 .. ends[1] : ends[0] + j = j
    BY <2>1
  <2> QED
    BY <2>2, <2>3
<1>6. part(n) = whole
  <2> DEFINE d == ends[n]
  <2>1. part(n) = [j \in 1 .. d |-> whole[j]] /\ whole \in [1 .. d -> S]
    OBVIOUS
  <2> HIDE DEF d, part
  <2> QED
    BY <2>1
<1>7. Len(slices) = n
  <2>1. slices = [k \in 1 .. n |-> slices[k]] /\ n \in Nat
    OBVIOUS
  <2> HIDE DEF slices, part
  <2> QED
    BY <2>1
<1> HIDE DEF part, slices
\* What is joined after each slice
<1>8. slices \in [1 .. n -> Seq(S)]
  <2>1. slices = [k \in 1 .. n |-> slices[k]]
    BY DEF slices
  <2> QED
    BY <1>3, <2>1
<1>9. PICK h \in [1 .. n -> Seq(S)] : Joins(h, slices, n)
  BY <1>8, Concatenated
\* is the whole up to that slice's end.
<1> DEFINE U == {m \in Nat : m + 1 <= n => h[m + 1] = part(m + 1)}
<1>10. 0 \in U
  BY <1>5, <1>9 DEF Joins
<1>11. ASSUME NEW m \in Nat, m \in U PROVE m + 1 \in U
  <2> SUFFICES ASSUME (m + 1) + 1 <= n PROVE h[(m + 1) + 1] = part((m + 1) + 1)
    OBVIOUS
  <2> DEFINE i == (m + 1) + 1
  <2>1. i \in 1 .. n /\ i # 1 /\ i - 1 = m + 1 /\ m + 1 <= n
    OBVIOUS
  <2>2. h[i - 1] = part(i - 1)
    BY <1>11, <2>1
  <2>3. h[i] = h[i - 1] \o slices[i]
    <3>1. i \in 2 .. n
      BY <2>1
    <3> HIDE DEF i
    <3> QED
      BY <1>9, <3>1 DEF Joins
  <2> QED
    BY <1>4, <2>1, <2>2, <2>3
<1>12. n - 1 \in U
  <2> HIDE DEF U
  <2>1. n - 1 \in Nat
    OBVIOUS
  <2> QED
    BY <1>10, <1>11, <2>1, Inductive
<1>13. Stitch(slices) = whole
  <2>1. (n - 1) + 1 = n
    OBVIOUS
  <2>2. h[n] = part(n)
    BY <1>12, <2>1
  <2> QED
    BY <1>6, <1>9, <2>2 DEF Joins, Stitch
<1> QED
  BY <1>13 DEF slices

\* Each of n tiles starts where the ones before it end, and ends where the next starts.
TilesMeet(n, v, c) ==
    \A k \in 1 .. n :
        /\ (k - 1) * v \in 0 .. c - 1 /\ Lesser((k - 1) * v, c) = (k - 1) * v
        /\ Lesser(k * v, c) = (k - 1) * v + Tile(c, v, (k - 1) * v).take

\* What a plan's tiles are, and where they end.
LEMMA TilesCut ==
    ASSUME NEW v \in Nat \ {0}, NEW c \in Nat, c >= v,
           NEW n, n = (c + v - 1) \div v
    PROVE  /\ n \in Nat \ {0}
           /\ Lesser(0 * v, c) = 0 /\ Lesser(n * v, c) = c
           /\ \A k \in 0 .. n : Lesser(k * v, c) \in 0 .. c
           /\ TilesMeet(n, v, c)
<1>1. n \in Nat /\ n * v <= c + v - 1 /\ c + v - 1 < n * v + v
  OBVIOUS
<1>2. n >= 1
  OBVIOUS
<1>3. n \in Nat \ {0}
  BY <1>1, <1>2
<1>4. c <= n * v
  BY <1>1
<1>5. Lesser(0 * v, c) = 0 /\ Lesser(n * v, c) = c
  BY <1>1, <1>4 DEF Lesser
<1>6. ASSUME NEW k \in 0 .. n PROVE Lesser(k * v, c) \in 0 .. c
  <2>1. k * v \in Nat
    OBVIOUS
  <2> QED
    BY <2>1 DEF Lesser
<1>7. ASSUME NEW k \in 1 .. n
      PROVE  /\ (k - 1) * v \in 0 .. c - 1 /\ Lesser((k - 1) * v, c) = (k - 1) * v
             /\ Lesser(k * v, c) = (k - 1) * v + Tile(c, v, (k - 1) * v).take
  <2> DEFINE from == (k - 1) * v
  <2>1. from \in Nat /\ k * v = from + v
    OBVIOUS
  <2>2. from + v <= n * v
    <3>1. k <= n /\ k \in Nat
      BY <1>1
    <3>2. k * v <= n * v
      BY <1>1, <3>1
    <3> QED
      BY <2>1, <3>2
  <2>3. n * v \in Nat
    BY <1>1
  <2> HIDE DEF from
  <2>4. from < c
    BY <1>1, <2>1, <2>2, <2>3
  <2>5. Lesser(from, c) = from /\ Lesser(from + v, c) = from + Tile(c, v, from).take
    BY <2>1, <2>4 DEF Lesser, Tile
  <2> QED
    BY <2>1, <2>4, <2>5 DEF from
<1> QED
  BY <1>3, <1>5, <1>6, <1>7 DEF TilesMeet

-----------------------------------------------------------------------------
\* The promised image has a row of the list, or below it a blank, per row of content.
LEMMA ListImageIs ==
    ASSUME ShotRows
    PROVE  /\ ListImage \in [1 .. Content -> Nat \cup {Blank}] /\ Len(ListImage) = Content
           /\ \A i \in 1 .. Content : ListImage[i] = IF i <= Len(rows) THEN rows[i] ELSE Blank
<1> DEFINE n == Len(rows)  c == Content
<1> DEFINE b == Blanks  blanks == [i \in 1 .. b |-> Blank]
<1>1. b \in Nat /\ n + b = c
  BY DEF Blanks, Content, ShotRows, Greater
<1> HIDE DEF b, n, c
<1>2. /\ blanks \in Seq(Nat \cup {Blank}) /\ Len(blanks) = b
      /\ \A i \in 1 .. b : blanks[i] = Blank
  BY <1>1
<1>3. rows \in Seq(Nat \cup {Blank}) /\ Len(rows) = n
  BY DEF ShotRows, n
<1>4. ListImage = rows \o blanks
  BY DEF ListImage, b
<1> HIDE DEF blanks
<1>5. /\ ListImage \in Seq(Nat \cup {Blank}) /\ Len(ListImage) = Len(rows) + Len(blanks)
      /\ \A i \in 1 .. Len(rows) + Len(blanks) :
            ListImage[i] = IF i <= Len(rows) THEN rows[i] ELSE blanks[i - Len(rows)]
  <2>1. rows \in Seq(Nat \cup {Blank}) /\ blanks \in Seq(Nat \cup {Blank})
    BY <1>2, <1>3
  <2> QED
    BY <2>1, <1>4, ConcatProperties, Zenon
<1>6. Len(ListImage) = c
  BY <1>1, <1>2, <1>3, <1>5
<1>7. ListImage \in [1 .. c -> Nat \cup {Blank}]
  BY <1>5, <1>6, LenProperties
<1>8. ASSUME NEW i \in 1 .. c
      PROVE ListImage[i] = IF i <= n THEN rows[i] ELSE Blank
  <2>1. ListImage[i] = IF i <= n THEN rows[i] ELSE blanks[i - n]
    BY <1>1, <1>2, <1>3, <1>5
  <2>2. ~(i <= n) => i - n \in 1 .. b
    BY <1>1 DEF n
  <2> QED
    BY <1>2, <2>1, <2>2
<1> QED
  BY <1>6, <1>7, <1>8 DEF n, c

\* What a tile's crop shows of the list, if the window is at the tile's offset.
LEMMA CropIsSlice ==
    ASSUME ShotRows, page = "todos", view >= 1,
           NEW k \in 1 .. TileCount
    PROVE  /\ Clamped(TileAt(k).offset) = TileAt(k).offset
           /\ Crop(Painted(TileAt(k).offset), TileAt(k)) = Slice(k)
<1> DEFINE n == Len(rows)  v == view  c == Content  y == TileAt(k).offset
           skip == TileAt(k).skip  take == TileAt(k).take  from == EndOf(k - 1)
<1>1. n \in Nat /\ v \in Nat \ {0} /\ c = Greater(n, v) /\ c \in Nat /\ c >= v /\ c >= n
  BY DEF ShotRows, Content, Greater
<1> DEFINE count == TileCount
<1>2. /\ from \in 0 .. c - 1 /\ TileAt(k) = Tile(c, v, from) /\ EndOf(k) = from + take
  <2>1. count = (c + v - 1) \div v /\ k \in 1 .. count
    BY DEF TileCount
  <2> HIDE DEF c, v, count
  <2>2. TilesMeet(count, v, c)
    <3>1. v \in Nat \ {0} /\ c \in Nat /\ c >= v
      BY <1>1
    <3> QED
      BY <2>1, <3>1, TilesCut
  <2> QED
    BY <2>1, <2>2 DEF EndOf, TileAt, c, v, TilesMeet
<1>3. /\ y \in 0 .. c - v /\ y + skip = from /\ skip \in Nat /\ take \in Nat \ {0}
      /\ skip + take <= v
  <2>1. y = Lesser(from, c - v) /\ skip = from - y /\ take = Lesser(c - from, v - skip)
    <3> HIDE DEF c, v, from
    <3> QED
      BY <1>2 DEF Tile, y, skip, take
  <2> HIDE DEF c, v, from, y, skip, take
  <2>2. v \in Nat \ {0} /\ c \in Nat /\ c >= v /\ from \in 0 .. c - 1
    BY <1>1, <1>2
  <2>3. y \in 0 .. c - v /\ y <= from /\ from - y < v
    BY <2>1, <2>2 DEF Lesser
  <2>4. skip \in Nat /\ skip < v /\ y + skip = from
    BY <2>1, <2>2, <2>3
  <2>5. take \in Nat \ {0} /\ take <= v - skip
    BY <2>1, <2>2, <2>4 DEF Lesser
  <2> QED
    BY <2>2, <2>3, <2>4, <2>5
<1>4. ListImage \in [1 .. c -> Nat \cup {Blank}] /\ Len(ListImage) = c
      /\ \A i \in 1 .. c : ListImage[i] = IF i <= n THEN rows[i] ELSE Blank
  BY ListImageIs
<1>5. Clamped(y) = y
  <2> HIDE DEF c, y
  <2> QED
    BY <1>1, <1>3 DEF Clamped, Greater, Lesser
\* What is painted at y
<1> DEFINE painted == Painted(y)
<1>6. /\ painted \in Seq(Nat \cup {Blank}) /\ Len(painted) = v
      /\ \A i \in 1 .. v : painted[i] = ListImage[y + i]
  <2> DEFINE row(i) == IF y + i <= n THEN rows[y + i] ELSE Blank
  <2>1. painted = [i \in 1 .. v |-> row(i)]
    BY DEF Painted
  <2>2. \A i \in 1 .. v : y + i \in 1 .. c
    <3> HIDE DEF y, c, v
    <3> QED
      BY <1>1, <1>3
  <2>3. \A i \in 1 .. v : row(i) = ListImage[y + i] /\ row(i) \in Nat \cup {Blank}
    <3> HIDE DEF y, c, v, n
    <3> QED
      BY <1>4, <2>2
  <2> HIDE DEF painted, row, v, y
  <2>4. v \in Nat
    BY <1>1
  <2> QED
    BY <2>1, <2>3, <2>4
<1> HIDE DEF painted, y, v, c, n
<1> DEFINE crop == SubSeq(painted, skip + 1, skip + take)
<1>7. Crop(painted, TileAt(k)) = crop
  <2>1. Lesser(skip + take, Len(painted)) = skip + take
    BY <1>1, <1>3, <1>6 DEF Lesser
  <2> QED
    BY <2>1 DEF Crop
<1> HIDE DEF skip, take, from
<1>8. /\ crop \in Seq(Nat \cup {Blank}) /\ Len(crop) = take
      /\ \A j \in 1 .. take : crop[j] = painted[skip + j]
  <2>1. \A i \in skip + 1 .. skip + take : i \in 1 .. v
    BY <1>1, <1>3
  <2>2. \A i \in skip + 1 .. skip + take : painted[i] \in Nat \cup {Blank}
    BY <1>6, <2>1
  <2>3. skip + 1 \in Int /\ skip + take \in Int /\ skip + 1 <= skip + take
        /\ (skip + take) - (skip + 1) + 1 = take
    BY <1>3
  <2>4. /\ crop \in Seq(Nat \cup {Blank})
        /\ Len(crop) = IF skip + 1 <= skip + take THEN (skip + take) - (skip + 1) + 1 ELSE 0
        /\ \A i \in 1 .. (skip + take) - (skip + 1) + 1 :
              crop[i] = painted[(skip + 1) + i - 1]
    BY <2>2, <2>3, SubSeqProperties
  <2>5. \A j \in 1 .. take : (skip + 1) + j - 1 = skip + j
    BY <1>3
  <2> HIDE DEF crop
  <2> QED
    BY <2>3, <2>4, <2>5
<1>9. \A j \in 1 .. take : crop[j] = ListImage[from + j]
  <2> SUFFICES ASSUME NEW j \in 1 .. take PROVE crop[j] = ListImage[from + j]
    OBVIOUS
  <2>1. skip + j \in 1 .. v /\ y + (skip + j) = from + j
    BY <1>1, <1>2, <1>3
  <2> QED
    BY <1>6, <1>8, <2>1
<1>10. crop = [j \in 1 .. take |-> crop[j]]
  <2> HIDE DEF crop
  <2> QED
    BY <1>3, <1>8
<1>11. Slice(k) = [j \in 1 .. take |-> ListImage[from + j]]
  <2>1. EndOf(k) - EndOf(k - 1) = take /\ EndOf(k - 1) = from
    BY <1>1, <1>2, <1>3 DEF from
  <2> QED
    BY <2>1 DEF Slice
<1>12. crop = Slice(k)
  <2> HIDE DEF crop
  <2> QED
    BY <1>9, <1>10, <1>11
<1> QED
  BY <1>5, <1>7, <1>12 DEF y, painted

\* All tiles of a plan, stitched, are the promised image.
LEMMA TilesAreList ==
    ASSUME ShotRows, view >= 1
    PROVE  TileCount \in Nat \ {0} /\ Stitch([k \in 1 .. TileCount |-> Slice(k)]) = ListImage
<1> DEFINE v == view  c == Content  n == TileCount  S == Nat \cup {Blank}
           ends == [k \in 0 .. n |-> EndOf(k)]
<1>1. v \in Nat \ {0} /\ c \in Nat /\ c >= v
  BY DEF ShotRows, Content, Greater
<1>2. n = (c + v - 1) \div v
  BY DEF TileCount
<1>3. /\ n \in Nat \ {0} /\ Lesser(0 * v, c) = 0 /\ Lesser(n * v, c) = c
      /\ \A k \in 0 .. n : Lesser(k * v, c) \in 0 .. c
      /\ TilesMeet(n, v, c)
  <2> HIDE DEF c, v, n
  <2> QED
    BY <1>1, <1>2, TilesCut
<1>4. ListImage \in [1 .. c -> S]
  BY ListImageIs
<1> HIDE DEF n
<1>5. \A k \in 0 .. n : EndOf(k) \in 0 .. c
  BY <1>3 DEF EndOf
<1>6. EndOf(0) = 0 /\ EndOf(n) = c
  BY <1>3 DEF EndOf
<1>7. ASSUME NEW k \in 1 .. n PROVE EndOf(k - 1) <= EndOf(k)
  <2>1. k - 1 \in 0 .. n /\ k \in 0 .. n
    BY <1>3
  <2>2. Lesser((k - 1) * v, c) = (k - 1) * v /\ (k - 1) * v \in Nat
        /\ (k - 1) * v <= c /\ k * v = (k - 1) * v + v
    BY <1>1, <1>3 DEF TilesMeet
  <2> HIDE DEF v, c
  <2>3. (k - 1) * v <= Lesser(k * v, c)
    BY <1>1, <2>2 DEF Lesser
  <2> QED
    BY <2>2, <2>3 DEF EndOf, v, c
<1>8. ends \in [0 .. n -> Nat] /\ ends[0] = 0 /\ ends[n] = c
  <2>1. 0 \in 0 .. n /\ n \in 0 .. n
    BY <1>3
  <2>2. \A k \in 0 .. n : EndOf(k) \in Nat
    BY <1>1, <1>5
  <2> QED
    BY <1>6, <2>1, <2>2
<1>9. \A k \in 1 .. n : /\ ends[k - 1] = EndOf(k - 1) /\ ends[k] = EndOf(k)
                        /\ ends[k - 1] <= ends[k]
  <2>1. \A k \in 1 .. n : k - 1 \in 0 .. n /\ k \in 0 .. n
    BY <1>3
  <2> QED
    BY <1>7, <2>1
<1> HIDE DEF ends, c, v, S
<1>10. Stitch([k \in 1 .. n |->
                 [j \in 1 .. ends[k] - ends[k - 1] |-> ListImage[ends[k - 1] + j]]]) = ListImage
  <2>1. ListImage \in [1 .. ends[n] -> S]
    BY <1>4, <1>8
  <2> QED
    BY <1>3, <1>8, <1>9, <2>1, StitchSlices
<1>11. [k \in 1 .. n |-> [j \in 1 .. ends[k] - ends[k - 1] |-> ListImage[ends[k - 1] + j]]]
         = [k \in 1 .. n |-> Slice(k)]
  BY <1>9 DEF Slice
<1> QED
  BY <1>3, <1>10, <1>11 DEF n

-----------------------------------------------------------------------------
\* What the promised image and its tiles are made of
SameList == UNCHANGED <<rows, view, page>>

LEMMA ListKept ==
    ASSUME SameList
    PROVE  /\ TileCount' = TileCount /\ ListImage' = ListImage
           /\ \A k : TileAt(k)' = TileAt(k) /\ Slice(k)' = Slice(k)
           /\ \A y : Painted(y)' = Painted(y)
  BY DEF SameList, TileCount, ListImage, Blanks, Content, TileAt, Slice, EndOf, Painted

\* A frame that puts the window at a tile's offset
LEMMA PaintTile ==
    ASSUME ShotRows, page = "todos", view >= 1, NEW k \in 1 .. TileCount,
           Paint(TileAt(k).offset)
    PROVE  /\ offset' = TileAt(k).offset
           /\ screen' = <<screen[2], Painted(TileAt(k).offset)>>
<1>1. Clamped(TileAt(k).offset) = TileAt(k).offset
  BY CropIsSlice
<1> QED
  BY <1>1 DEF Paint

\* A plan made of the list there is
LEMMA PlanOfList ==
    ASSUME ShotRows, handle = [view |-> view, max |-> Greater(0, Len(rows) - view)],
           NEW cap, Plan(Metrics, cap) # <<>>
    PROVE  view >= 1 /\ Plan(Metrics, cap) = [k \in 1 .. TileCount |-> TileAt(k)]
<1>1. Metrics.view = view /\ Metrics.content = Content
  BY DEF Metrics, Content
<1>2. Greater(Metrics.content, Metrics.view) = Content
  BY <1>1 DEF ShotRows, Content, Greater
<1>3. ~(Metrics.view < 1)
  BY DEF Plan
<1>4. Plan(Metrics, cap) = [k \in 1 .. TileCount |-> TileAt(k)]
  BY <1>1, <1>2 DEF Plan, TileCount, TileAt
<1> QED
  BY <1>1, <1>3, <1>4 DEF ShotRows

LEMMA ImageInit == ShotInit => ImageInv
<1> SUFFICES ASSUME ShotInit PROVE ImageInv
  OBVIOUS
<1>1. PICK n \in 0 .. MaxContent : rows = [k \in 1 .. n |-> k]
  BY DEF ShotInit
<1>2. rows \in Seq(Nat)
  BY <1>1, ShotAssumption
<1>3. ShotRows
  BY <1>2, ShotAssumption DEF ShotInit, ShotRows
<1>4. Home
  BY DEF ShotInit, Home, NoJob
<1> QED
  BY <1>3, <1>4 DEF ImageInv, ImageIsList, ShotInit, NoJob

\* The human changes the list, and is then not nobody.
LEMMA HumanKeepsImage ==
    ASSUME ImageInv, Human PROVE ImageInv'
<1>1. Home'
  BY HomeNext DEF ImageInv, ShotNext
<1>2. touched' = TRUE /\ touches' = touches + 1
  BY DEF Human, Scroll, Resize, AddRow, DeleteRow, Navigate, Touch
<1>3. rows' \in Seq(Nat) /\ view' \in Nat
  <2>1. rows \in Seq(Nat) /\ view \in Nat /\ touches \in Nat
    BY DEF ImageInv, ShotRows
  <2>2. CASE AddRow
    <3>1. MaxContent + touches + 1 \in Nat
      BY <2>1, ShotAssumption
    <3>2. rows' = Append(rows, MaxContent + touches + 1) /\ view' = view
      BY <2>2 DEF AddRow
    <3> QED
      BY <2>1, <3>1, <3>2, AppendProperties
  <2>3. CASE DeleteRow
    <3>1. rows # <<>> /\ rows' = Tail(rows) /\ view' = view
      BY <2>3 DEF DeleteRow
    <3> QED
      BY <2>1, <3>1, HeadTailProperties
  <2>4. CASE Scroll
    BY <2>1, <2>4 DEF Scroll, listVars
  <2>5. CASE Resize
    BY <2>1, <2>5, ShotAssumption DEF Resize
  <2>6. CASE Navigate
    BY <2>1, <2>6 DEF Navigate
  <2> QED
    BY <2>2, <2>3, <2>4, <2>5, <2>6 DEF Human
<1> QED
  BY <1>1, <1>2, <1>3 DEF ImageInv, ShotRows, Undisturbed, ImageIsList

\* No frame moves the list's rows, and only Capture reports an image.
LEMMA FrameKeepsList ==
    ASSUME ImageInv, Frame
    PROVE  /\ SameList /\ ShotRows' /\ Home'
           /\ touched' = touched \/ \E cap \in Caps : Start(cap)
           /\ \/ answer' # "ok"
              \/ UNCHANGED <<answer, file, touched>>
              \/ \E k \in 1 .. 2 : Capture(screen[k])
<1>1. Home'
  BY HomeNext DEF ImageInv, ShotNext
<1>2. SameList /\ touches' = touches
  BY DEF Frame, Start, WaitForMetrics, Begin, LetPass, Capture, CaptureFails, IdleFrame,
         listVars, SameList
<1>3. ShotRows'
  BY <1>2 DEF ImageInv, ShotRows, SameList
<1>4. touched' = touched \/ \E cap \in Caps : Start(cap)
  BY DEF Frame, WaitForMetrics, Begin, LetPass, Capture, CaptureFails, IdleFrame
<1>5. \/ answer' # "ok"
      \/ UNCHANGED <<answer, file, touched>>
      \/ \E k \in 1 .. 2 : Capture(screen[k])
  BY DEF Frame, Start, WaitForMetrics, Begin, LetPass, CaptureFails, IdleFrame, Finish
<1> QED
  BY <1>1, <1>2, <1>3, <1>4, <1>5

\* A job that has ended, or has not begun to capture, owes nothing to a plan.
LEMMA FrameKeepsImage ==
    ASSUME ImageInv, Frame,
           Undisturbed' /\ job'.phase = "metrics" => MeasuresList',
           Undisturbed' /\ job'.phase = "tiles" => TilesInv',
           \A k \in 1 .. 2 : Capture(screen[k]) => ImageIsList'
    PROVE  ImageInv'
<1>1. ShotRows' /\ Home' /\ SameList
  BY FrameKeepsList
<1>2. ImageIsList'
  <2>1. CASE answer' # "ok"
    BY <2>1 DEF ImageIsList
  <2>2. CASE UNCHANGED <<answer, file, touched>>
    <3>1. ListImage' = ListImage /\ page' = page
      BY <1>1, ListKept DEF SameList
    <3>2. ImageIsList => (answer = "ok" /\ ~touched /\ page = "todos" => file = ListImage)
      BY DEF ImageIsList, ListImage, Blanks
    <3>3. (answer = "ok" /\ ~touched /\ page = "todos" => file = ListImage)' => ImageIsList'
      BY DEF ImageIsList, ListImage, Blanks
    <3> QED
      BY <2>2, <3>1, <3>2, <3>3 DEF ImageInv
  <2> QED
    BY <2>1, <2>2, FrameKeepsList
<1> QED
  BY <1>1, <1>2 DEF ImageInv

LEMMA PaintedHandle ==
    ASSUME NEW y, Paint(y), SameList, page = "todos"
    PROVE  handle' = [view |-> view, max |-> Greater(0, Len(rows) - view)]'
  BY DEF Paint, SameList

LEMMA BeforeTiles ==
    ASSUME ImageInv, (\E cap \in Caps : Start(cap)) \/ WaitForMetrics \/ CaptureFails \/ IdleFrame
    PROVE  ImageInv'
<1>1. Frame /\ SameList
  BY FrameKeepsList DEF Frame
<1>2. ~(\E k \in 1 .. 2 : Capture(screen[k])) \/ answer' # "ok" \/ answer' = answer
  BY DEF Start, WaitForMetrics, CaptureFails, IdleFrame, Finish
<1>3. job'.phase # "tiles"
  BY DEF Start, WaitForMetrics, CaptureFails, IdleFrame, Finish, NoJob, ImageInv, Home
<1>4. Undisturbed' /\ job'.phase = "metrics" => MeasuresList'
  <2> SUFFICES ASSUME Undisturbed', job'.phase = "metrics" PROVE MeasuresList'
    OBVIOUS
  <2>1. page = "todos"
    BY <1>1 DEF SameList, Undisturbed
  <2>2. job'.captured = <<>> /\ \E y : Paint(y)
    <3>1. CASE \E cap \in Caps : Start(cap)
      BY <3>1 DEF Start
    <3>2. CASE WaitForMetrics
      <4>1. ~touched /\ job.phase = "metrics"
        BY <3>2 DEF WaitForMetrics, Undisturbed
      <4>2. job.captured = <<>>
        BY <4>1, <2>1 DEF ImageInv, Undisturbed, MeasuresList
      <4>3. DOMAIN job = {"phase", "cap", "plan", "captured", "clip", "original", "waited",
                          "awaiting"}
        BY <4>1 DEF ImageInv, Home
      <4>4. job' = [job EXCEPT !.waited = @ + 1] /\ Paint(offset)
        BY <3>2 DEF WaitForMetrics, Finish, NoJob
      <4>5. job'.captured = job.captured
        BY <4>3, <4>4
      <4> QED
        BY <4>2, <4>4, <4>5
    <3>3. CASE CaptureFails \/ IdleFrame
      BY <3>3 DEF CaptureFails, IdleFrame, Finish, NoJob
    <3> QED
      BY <3>1, <3>2, <3>3
  <2>3. handle' = [view |-> view, max |-> Greater(0, Len(rows) - view)]'
    BY <1>1, <2>1, <2>2, PaintedHandle
  <2> QED
    BY <2>2, <2>3 DEF MeasuresList
<1>5. \A k \in 1 .. 2 : Capture(screen[k]) => ImageIsList'
  <2>1. CASE CaptureFails \/ WaitForMetrics \/ \E cap \in Caps : Start(cap)
    BY <2>1 DEF CaptureFails, WaitForMetrics, Start, Capture, Finish, ImageIsList
  <2>2. CASE IdleFrame
    BY <2>2 DEF IdleFrame, Capture
  <2> QED
    BY <2>1, <2>2
<1> QED
  BY <1>1, <1>3, <1>4, <1>5, FrameKeepsImage

LEMMA BeginKeepsImage ==
    ASSUME ImageInv, Begin PROVE ImageInv'
<1>1. Frame /\ SameList
  BY FrameKeepsList DEF Frame
<1>2. job.phase = "metrics" /\ touched' = touched
  BY DEF Begin
<1>3. \A k \in 1 .. 2 : ~Capture(screen[k])
  BY <1>2 DEF Capture
<1>4. CASE Plan(Metrics, job.cap) = <<>>
  <2>1. job' = NoJob
    BY <1>4 DEF Begin, Finish
  <2> QED
    BY <1>1, <1>3, <2>1, FrameKeepsImage DEF NoJob
<1>5. CASE Plan(Metrics, job.cap) # <<>>
  <2> DEFINE plan == Plan(Metrics, job.cap)
  <2>1. /\ job' = [job EXCEPT !.phase = "tiles", !.plan = plan, !.clip = Metrics.view,
                              !.original = Metrics.offset, !.awaiting = TRUE]
        /\ Paint(plan[1].offset)
    BY <1>5 DEF Begin
  <2>2. DOMAIN job = {"phase", "cap", "plan", "captured", "clip", "original", "waited", "awaiting"}
    BY <1>2 DEF ImageInv, Home
  <2> HIDE DEF plan
  <2>3. job'.phase = "tiles" /\ job'.plan = plan /\ job'.awaiting = TRUE
        /\ job'.captured = job.captured
    BY <2>1, <2>2
  <2>4. ASSUME Undisturbed' PROVE TilesInv'
    <3>1. Undisturbed /\ page = "todos"
      BY <1>1, <1>2, <2>4 DEF SameList, Undisturbed
    <3>2. MeasuresList /\ ShotRows
      BY <1>2, <3>1 DEF ImageInv
    <3>3. view >= 1 /\ plan = [k \in 1 .. TileCount |-> TileAt(k)]
      BY <1>5, <3>2, PlanOfList DEF MeasuresList, plan
    <3>4. TileCount \in Nat \ {0}
      BY <3>2, <3>3, TilesAreList
    <3>5. 1 \in 1 .. TileCount /\ plan[1] = TileAt(1)
      BY <3>3, <3>4
    <3>6. offset' = TileAt(1).offset /\ screen' = <<screen[2], Painted(TileAt(1).offset)>>
      BY <2>1, <3>1, <3>2, <3>3, <3>5, PaintTile
    <3>7. job'.captured = <<>>
      BY <2>3, <3>2 DEF MeasuresList
    <3>8. \E n \in 0 .. TileCount - 1 :
             /\ job'.captured = [k \in 1 .. n |-> Slice(k)]
             /\ offset' = TileAt(n + 1).offset
             /\ screen'[2] = Painted(offset')
             /\ ~job'.awaiting => screen'[1] = Painted(offset')
      <4>1. 0 \in 0 .. TileCount - 1 /\ 0 + 1 = 1
        BY <3>4
      <4>2. <<>> = [k \in 1 .. 0 |-> Slice(k)]
        OBVIOUS
      <4> QED
        BY <2>3, <3>6, <3>7, <4>1, <4>2
    <3> QED
      BY <1>1, <2>3, <3>3, <3>8, ListKept DEF TilesInv, SameList
  <2> QED
    BY <1>1, <1>3, <2>3, <2>4, FrameKeepsImage
<1> QED
  BY <1>4, <1>5

LEMMA LetPassKeepsImage ==
    ASSUME ImageInv, LetPass PROVE ImageInv'
<1>1. Frame /\ SameList
  BY FrameKeepsList DEF Frame
<1>2. job.phase = "tiles" /\ touched' = touched /\ Paint(offset)
      /\ job' = [job EXCEPT !.awaiting = FALSE] /\ job.awaiting
  BY DEF LetPass
<1>3. \A k \in 1 .. 2 : ~Capture(screen[k])
  BY <1>2 DEF Capture
<1>4. DOMAIN job = {"phase", "cap", "plan", "captured", "clip", "original", "waited", "awaiting"}
  BY <1>2 DEF ImageInv, Home
<1>5. job'.phase = "tiles" /\ job'.plan = job.plan /\ job'.captured = job.captured
  BY <1>2, <1>4
<1>6. ASSUME Undisturbed' PROVE TilesInv'
  <2>1. Undisturbed /\ page = "todos"
    BY <1>1, <1>2, <1>6 DEF SameList, Undisturbed
  <2>2. TilesInv /\ ShotRows
    BY <1>2, <2>1 DEF ImageInv
  <2>3. PICK n \in 0 .. TileCount - 1 :
           /\ job.captured = [k \in 1 .. n |-> Slice(k)]
           /\ offset = TileAt(n + 1).offset
           /\ screen[2] = Painted(offset)
    BY <2>2 DEF TilesInv
  <2>4. n + 1 \in 1 .. TileCount
    BY <2>2, TilesAreList DEF TilesInv
  <2>5. offset' = offset /\ screen' = <<screen[2], Painted(offset)>>
    BY <1>2, <2>1, <2>2, <2>3, <2>4, PaintTile DEF TilesInv
  <2>6. \E m \in 0 .. TileCount - 1 :
             /\ job'.captured = [k \in 1 .. m |-> Slice(k)]
             /\ offset' = TileAt(m + 1).offset
             /\ screen'[2] = Painted(offset')
             /\ ~job'.awaiting => screen'[1] = Painted(offset')
    BY <1>5, <2>3, <2>5
  <2> QED
    BY <1>1, <1>5, <2>2, <2>6, ListKept DEF TilesInv, SameList
<1> QED
  BY <1>1, <1>3, <1>5, <1>6, FrameKeepsImage

LEMMA CaptureKeepsImage ==
    ASSUME ImageInv, NEW s \in 1 .. 2, Capture(screen[s]) PROVE ImageInv'
<1> DEFINE at == Len(job.captured) + 1
           captured == Append(job.captured, Crop(screen[s], job.plan[at]))
<1>1. Frame /\ SameList
  BY FrameKeepsList DEF Frame
<1>2. job.phase = "tiles" /\ ~job.awaiting /\ touched' = touched
  BY DEF Capture
<1>3. DOMAIN job = {"phase", "cap", "plan", "captured", "clip", "original", "waited", "awaiting"}
  BY <1>2 DEF ImageInv, Home
\* What is captured, if nobody is at the list
<1>4. ASSUME Undisturbed
      PROVE  /\ ShotRows /\ page = "todos" /\ view >= 1 /\ at \in 1 .. TileCount
             /\ job.plan = [k \in 1 .. TileCount |-> TileAt(k)]
             /\ captured = [k \in 1 .. at |-> Slice(k)]
  <2>1. TilesInv /\ ShotRows /\ page = "todos"
    BY <1>2, <1>4 DEF ImageInv, Undisturbed
  <2>2. PICK n \in 0 .. TileCount - 1 :
           /\ job.captured = [k \in 1 .. n |-> Slice(k)]
           /\ offset = TileAt(n + 1).offset
           /\ screen[2] = Painted(offset)
           /\ screen[1] = Painted(offset)
    BY <1>2, <2>1 DEF TilesInv
  <2>3. n \in Nat /\ n + 1 \in 1 .. TileCount
    BY <2>1, TilesAreList DEF TilesInv
  <2>4. at = n + 1
    BY <2>2, <2>3
  <2>5. screen[s] = Painted(TileAt(n + 1).offset)
    BY <2>2
  <2>6. view >= 1 /\ job.plan = [k \in 1 .. TileCount |-> TileAt(k)]
    BY <2>1 DEF TilesInv
  <2>7. job.plan[at] = TileAt(n + 1)
    BY <2>3, <2>4, <2>6
  <2>8. Crop(screen[s], job.plan[at]) = Slice(n + 1)
    BY <2>1, <2>3, <2>5, <2>6, <2>7, CropIsSlice
  <2>9. captured = Append([k \in 1 .. n |-> Slice(k)], Slice(n + 1))
    BY <2>2, <2>8
  <2>10. Append([k \in 1 .. n |-> Slice(k)], Slice(n + 1)) = [k \in 1 .. n + 1 |-> Slice(k)]
    BY <2>3
  <2> QED
    BY <2>1, <2>3, <2>4, <2>6, <2>9, <2>10
<1>5. CASE at < Len(job.plan)
  <2> HIDE DEF captured
  <2>1. /\ job' = [job EXCEPT !.captured = captured, !.awaiting = TRUE]
        /\ Paint(job.plan[at + 1].offset) /\ UNCHANGED <<answer, file>>
    BY <1>5 DEF Capture, captured
  <2>2. job'.phase = "tiles" /\ job'.plan = job.plan /\ job'.captured = captured /\ job'.awaiting
    BY <1>2, <1>3, <2>1
  <2>3. ASSUME Undisturbed' PROVE TilesInv'
    <3>1. Undisturbed
      BY <1>1, <1>2, <2>3 DEF SameList, Undisturbed
    <3>2. TileCount \in Nat \ {0}
      BY <1>4, <3>1, TilesAreList
    <3> HIDE DEF at
    <3>3. at \in 0 .. TileCount - 1 /\ at + 1 \in 1 .. TileCount
      <4>1. Len(job.plan) = TileCount
        BY <1>4, <3>1, <3>2
      <4> QED
        BY <1>4, <1>5, <3>1, <3>2, <4>1
    <3>4. job.plan[at + 1] = TileAt(at + 1)
      BY <1>4, <3>1, <3>3
    <3>5. offset' = TileAt(at + 1).offset
          /\ screen' = <<screen[2], Painted(TileAt(at + 1).offset)>>
      BY <1>4, <2>1, <3>1, <3>3, <3>4, PaintTile
    <3>6. \E m \in 0 .. TileCount - 1 :
             /\ job'.captured = [k \in 1 .. m |-> Slice(k)]
             /\ offset' = TileAt(m + 1).offset
             /\ screen'[2] = Painted(offset')
             /\ ~job'.awaiting => screen'[1] = Painted(offset')
      BY <1>4, <2>2, <3>1, <3>3, <3>5
    <3> QED
      <4>1. view >= 1 /\ job'.plan = [k \in 1 .. TileCount |-> TileAt(k)]
        BY <1>4, <2>2, <3>1
      <4> QED
        BY <1>1, <3>6, <4>1, ListKept DEF TilesInv, SameList
  <2>4. ImageIsList'
    <3>1. ListImage' = ListImage /\ page' = page /\ ImageIsList
      BY <1>1, ListKept DEF SameList, ImageInv
    <3>2. ImageIsList => (answer = "ok" /\ ~touched /\ page = "todos" => file = ListImage)
      BY DEF ImageIsList, ListImage, Blanks
    <3>3. (answer = "ok" /\ ~touched /\ page = "todos" => file = ListImage)' => ImageIsList'
      BY DEF ImageIsList, ListImage, Blanks
    <3> QED
      BY <1>2, <2>1, <3>1, <3>2, <3>3
  <2> QED
    BY <1>1, <2>2, <2>3, <2>4, FrameKeepsImage
<1>6. CASE ~(at < Len(job.plan))
  <2> HIDE DEF captured
  <2>1. job' = NoJob /\ file' = Stitch(captured)
    BY <1>6 DEF Capture, captured, Finish
  <2>2. ASSUME Undisturbed' PROVE file' = ListImage'
    <3>1. Undisturbed
      BY <1>1, <1>2, <2>2 DEF SameList, Undisturbed
    <3>2. /\ TileCount \in Nat \ {0}
          /\ Stitch([k \in 1 .. TileCount |-> Slice(k)]) = ListImage
      BY <1>4, <3>1, TilesAreList
    <3> HIDE DEF at
    <3>3. at = TileCount
      <4>1. Len(job.plan) = TileCount
        BY <1>4, <3>1, <3>2
      <4> QED
        BY <1>4, <1>6, <3>1, <3>2, <4>1
    <3>4. captured = [k \in 1 .. TileCount |-> Slice(k)]
      BY <1>4, <3>1, <3>3
    <3> QED
      BY <1>1, <2>1, <3>2, <3>4, ListKept
  <2>3. ImageIsList'
    <3>1. Undisturbed' => file' = ListImage'
      BY <2>2
    <3>2. (Undisturbed => file = ListImage)' => ImageIsList'
      BY DEF ImageIsList, ListImage, Blanks, Undisturbed
    <3> QED
      BY <3>1, <3>2
  <2> QED
    BY <1>1, <2>1, <2>3, FrameKeepsImage DEF NoJob
<1> QED
  BY <1>5, <1>6

LEMMA ImageStep == ImageInv /\ [ShotNext]_shotVars => ImageInv'
<1> SUFFICES ASSUME ImageInv, [ShotNext]_shotVars PROVE ImageInv'
  OBVIOUS
<1>1. CASE Frame
  BY <1>1, BeforeTiles, BeginKeepsImage, LetPassKeepsImage, CaptureKeepsImage DEF Frame
<1>2. CASE Human
  BY <1>2, HumanKeepsImage
<1>3. CASE UNCHANGED shotVars
  <2>1. SameList /\ UNCHANGED <<handle, job, touched, touches, offset, screen, answer, file>>
    BY <1>3 DEF shotVars, SameList
  <2>2. Home' /\ ShotRows'
    BY <2>1, HomeNext DEF ImageInv, ShotRows, SameList
  <2>3. (Undisturbed /\ job.phase = "metrics" => MeasuresList)'
    BY <2>1 DEF ImageInv, Undisturbed, MeasuresList, SameList
  <2>4. (Undisturbed /\ job.phase = "tiles" => TilesInv)'
    <3> SUFFICES ASSUME Undisturbed', job'.phase = "tiles" PROVE TilesInv'
      OBVIOUS
    <3>1. TilesInv
      BY <2>1 DEF ImageInv, Undisturbed, SameList
    <3>2. PICK n \in 0 .. TileCount - 1 :
             /\ job.captured = [k \in 1 .. n |-> Slice(k)]
             /\ offset = TileAt(n + 1).offset
             /\ screen[2] = Painted(offset)
             /\ ~job.awaiting => screen[1] = Painted(offset)
      BY <3>1 DEF TilesInv
    <3>3. /\ job'.captured = [k \in 1 .. n |-> Slice(k)]
          /\ offset' = TileAt(n + 1).offset
          /\ screen'[2] = Painted(offset')
          /\ ~job'.awaiting => screen'[1] = Painted(offset')
      BY <2>1, <3>2
    <3>4. view >= 1 /\ job'.plan = [k \in 1 .. TileCount |-> TileAt(k)]
      BY <2>1, <3>1 DEF TilesInv
    <3> QED
      BY <2>1, <3>3, <3>4, ListKept DEF TilesInv, SameList
  <2>5. ImageIsList'
    BY <2>1 DEF ImageInv, ImageIsList, SameList
  <2> QED
    BY <2>2, <2>3, <2>4, <2>5 DEF ImageInv
<1> QED
  BY <1>1, <1>2, <1>3 DEF ShotNext

\* The image a scrolled screenshot reports is the list, every row once and in
\* order, whatever the sizes of list and viewport, and whichever of the last two
\* frames each capture saw (plan_scroll_tiles, awaiting_paint, stitch_tiles_vertically).
THEOREM ShotImageIsList == ShotSpec => []ImageIsList
<1>1. ImageInv => ImageIsList
  BY DEF ImageInv
<1> QED
  BY <1>1, ImageInit, ImageStep, PTL DEF ShotSpec

-----------------------------------------------------------------------------
(* How hosts are found                                                      *)

HostStates == {"new", "bound", "listed", "unlisted", "gone"}

ProcInv ==
    /\ proc \in [Pids -> [state : HostStates, app : Apps \union {Nobody},
                          port : Ports \union {0}]]
    /\ \A p \in Pids : proc[p].state # "new" => proc[p].app \in Apps

\* A file in hosts/ tells the truth about the one process that wrote it, for as
\* long as anybody may read it: no process id comes back.
RecordsTrue ==
    \A r \in records :
        r.pid \in Pids /\ proc[r.pid].state # "new" /\ r = RecordOf(r.pid)

\* A command's state has these fields, and no others.
IsCli(s) ==
    s \in [pc : {s.pc}, id : {s.id}, saved : {s.saved}, candidates : {s.candidates},
          open : {s.open}, steady : {s.steady}, fd : {s.fd}, result : {s.result},
          target : {s.target}, via : {s.via}, there : {s.there}]

SamePort(s) == \A p \in s.steady : RecordOf(p).port = s.target.port

\* What a command may conclude from where it stands: a host that was listed when
\* it read the directory, and still is, is among the records yet to be probed or
\* found open, until the command has settled on that host's port.
CliOk(s) ==
    /\ IsCli(s)
    /\ s.steady \subseteq {p \in Pids : proc[p].state = "listed"}
    /\ s.pc = "probe" => \A p \in s.steady : RecordOf(p) \in s.candidates \union s.open
    /\ s.pc = "fallback" => s.via = LastSession
    /\ s.pc \in {"save", "write", "rename"} => SamePort(s)
    /\ s.pc # "ended" => s.result = Nobody
    /\ s.result = "ok" /\ s.via # "saved" => SamePort(s)
    /\ s.result = "missing" /\ s.via = "record" => s.steady = {}

CliInv ==
    /\ cli = [c \in Clis |-> cli[c]]
    /\ \A c \in Clis : CliOk(cli[c])

DiscoveryInv == ProcInv /\ RecordsTrue /\ LiveRecordKept /\ CliInv

-----------------------------------------------------------------------------
\* An empty directory and idle commands.
LEMMA DiscoveryInit == Init => DiscoveryInv
<1> SUFFICES ASSUME Init PROVE DiscoveryInv
  OBVIOUS
<1>1. ProcInv
  BY DEF Init, Unset, HostStates, ProcInv
<1>2. RecordsTrue /\ LiveRecordKept
  BY DEF Init, Unset, RecordsTrue, LiveRecordKept
<1>3. CliOk(IdleCli)
  BY DEF CliOk, IsCli, IdleCli, Nobody
<1>4. CliInv
  BY <1>3 DEF CliInv, Init
<1> QED
  BY <1>1, <1>2, <1>4 DEF DiscoveryInv

-----------------------------------------------------------------------------
(* Hosts                                                                    *)

\* The hosts of `away` are no longer counted among those that were up all along.
LostFrom(away) == cli' = [c \in Clis |-> [cli[c] EXCEPT !.steady = @ \ away]]

\* A command loses nothing it knows when a host starts, or when one that ends is
\* no longer counted among those that were up all along.
LEMMA HostKeepsCli ==
    ASSUME CliInv, NEW away \in SUBSET Pids, LostFrom(away),
           \A p \in Pids \ away : proc[p].state = "listed" =>
               proc'[p].state = "listed" /\ RecordOf(p)' = RecordOf(p)
    PROVE  CliInv'
<1> USE DEF LostFrom
<1>1. ASSUME NEW c \in Clis PROVE CliOk(cli[c])'
  <2> DEFINE s == cli[c]
             n == cli'[c]
  <2>1. CliOk(s)
    BY DEF CliInv
  <2>2. n = [s EXCEPT !.steady = @ \ away]
    OBVIOUS
  <2>3. /\ n.pc = s.pc /\ n.candidates = s.candidates /\ n.open = s.open /\ n.via = s.via
        /\ n.target = s.target /\ n.result = s.result /\ n.steady = s.steady \ away
        /\ IsCli(n)
    <3> HIDE DEF s, n
    <3> QED
      BY <2>1, <2>2 DEF CliOk, IsCli
  <2>4. \A p \in n.steady : /\ p \in s.steady /\ p \in Pids
                            /\ proc'[p].state = "listed" /\ RecordOf(p)' = RecordOf(p)
    <3> HIDE DEF s, n
    <3> QED
      BY <2>1, <2>3 DEF CliOk
  <2> HIDE DEF s, n
  <2>5. n.pc = "probe" => \A p \in n.steady : RecordOf(p)' \in n.candidates \union n.open
    BY <2>1, <2>3, <2>4 DEF CliOk
  <2>6. SamePort(s) => \A p \in n.steady : RecordOf(p)'.port = n.target.port
    BY <2>3, <2>4 DEF SamePort
  <2>7. n.steady \subseteq {p \in Pids : proc'[p].state = "listed"}
    BY <2>4
  <2> USE DEF n
  <2> QED
    BY <2>1, <2>3, <2>5, <2>6, <2>7 DEF CliOk, SamePort, IsCli
<1> QED
  BY <1>1 DEF CliInv

\* Hosts write true records, and remove none but their own.
LEMMA HostStep ==
    ASSUME DiscoveryInv, NEW p \in Pids, Bind(p) \/ Publish(p) \/ Withdraw(p) \/ Exit(p)
    PROVE  DiscoveryInv'
<1> USE DEF DiscoveryInv, ProcInv, HostStates
<1>1. CASE Bind(p)
  <2>1. PICK port \in Ports, app \in Apps :
            proc' = [proc EXCEPT ![p] = [state |-> "bound", app |-> app, port |-> port]]
    BY <1>1 DEF Bind
  <2>2. proc[p].state = "new" /\ UNCHANGED <<records, cli, slow>>
    BY <1>1 DEF Bind, Unset
  <2>3. ProcInv'
    BY <2>1
  <2>4. RecordsTrue' /\ LiveRecordKept'
    BY <2>1, <2>2 DEF RecordsTrue, LiveRecordKept, RecordOf
  <2>5. CliInv'
    <3>1. LostFrom({})
      <4>1. \A c \in Clis : [cli[c] EXCEPT !.steady = @ \ {}] = cli[c]
        BY DEF CliInv, CliOk, IsCli
      <4> QED
        BY <2>2, <4>1 DEF CliInv, LostFrom
    <3>2. \A q \in Pids : proc[q].state = "listed" =>
              proc'[q].state = "listed" /\ RecordOf(q)' = RecordOf(q)
      BY <2>1, <2>2 DEF RecordOf
    <3> QED
      BY <3>1, <3>2, HostKeepsCli
  <2> QED
    BY <2>3, <2>4, <2>5
<1>2. CASE Publish(p)
  <2>1. /\ proc[p].state = "bound" /\ UNCHANGED <<cli, slow>>
        /\ \/ records' = records \union {RecordOf(p)}
              /\ proc' = [proc EXCEPT ![p].state = "listed"]
           \/ records' = records /\ proc' = [proc EXCEPT ![p].state = "unlisted"]
    BY <1>2 DEF Publish
  <2>2. ProcInv' /\ \A q \in Pids : RecordOf(q)' = RecordOf(q)
    BY <2>1 DEF RecordOf
  <2>3. RecordsTrue' /\ LiveRecordKept'
    BY <2>1, <2>2 DEF RecordsTrue, LiveRecordKept, RecordOf
  <2>4. CliInv'
    <3>1. LostFrom({})
      <4>1. \A c \in Clis : [cli[c] EXCEPT !.steady = @ \ {}] = cli[c]
        BY DEF CliInv, CliOk, IsCli
      <4> QED
        BY <2>1, <4>1 DEF CliInv, LostFrom
    <3>2. \A q \in Pids : proc[q].state = "listed" =>
              proc'[q].state = "listed" /\ RecordOf(q)' = RecordOf(q)
      BY <2>1, <2>2
    <3> QED
      BY <3>1, <3>2, HostKeepsCli
  <2> QED
    BY <2>2, <2>3, <2>4
<1>3. CASE Withdraw(p) \/ Exit(p)
  <2>1. /\ proc[p].state # "new"
        /\ \/ proc' = [proc EXCEPT ![p].state = "unlisted"] /\ records' = records \ {RecordOf(p)}
           \/ proc' = [proc EXCEPT ![p].state = "gone"] /\ records' = records
        /\ Gone(p) /\ slow' = slow
    BY <1>3 DEF Withdraw, Exit, Alive
  <2>2. ProcInv' /\ \A q \in Pids : RecordOf(q)' = RecordOf(q)
    BY <2>1 DEF RecordOf
  <2>3. RecordsTrue' /\ LiveRecordKept'
    BY <2>1, <2>2 DEF RecordsTrue, LiveRecordKept, RecordOf
  <2>4. CliInv'
    <3>1. LostFrom({p})
      BY <2>1 DEF Gone, LostFrom
    <3>2. \A q \in Pids \ {p} : proc[q].state = "listed" =>
              proc'[q].state = "listed" /\ RecordOf(q)' = RecordOf(q)
      BY <2>1, <2>2
    <3> QED
      BY <3>1, <3>2, HostKeepsCli
  <2> QED
    BY <2>2, <2>3, <2>4
<1> QED
  BY <1>1, <1>2, <1>3

-----------------------------------------------------------------------------
(* Commands                                                                 *)

\* A command changes its own state only, and no host.
LEMMA SetKeepsCli ==
    ASSUME CliInv, proc' = proc, NEW c \in Clis, NEW new, CliOk(new), Set(c, new)
    PROVE  CliInv'
<1>1. ASSUME NEW d \in Clis PROVE CliOk(cli[d])'
  <2>1. CliOk(cli'[d])
    BY DEF Set, CliInv
  <2> QED
    BY <2>1 DEF CliOk, SamePort, RecordOf, IsCli
<1>2. cli' = [d \in Clis |-> cli'[d]]
  BY DEF Set, CliInv
<1> QED
  BY <1>1, <1>2 DEF CliInv

\* Pruning drops the records of processes that are gone, and of hosts that did not
\* answer a probe: one that is listed is from then on among the slow.
LEMMA CommandKeepsRecords ==
    ASSUME DiscoveryInv, NEW c \in Clis, StartCommand(c) \/ Command(c)
    PROVE  proc' = proc /\ ProcInv' /\ RecordsTrue' /\ LiveRecordKept'
<1> USE DEF DiscoveryInv, ProcInv
<1>1. proc' = proc
  BY DEF StartCommand, Command, Load, Probe, ProbeFails, Resolve, Fallback, SaveOpen, SaveWrite,
         SaveRename
<1>2. records' \subseteq records
  BY DEF StartCommand, Command, Load, Probe, ProbeFails, Resolve, Fallback, SaveOpen, SaveWrite,
         SaveRename, Live
<1>3. ProcInv' /\ RecordsTrue'
  BY <1>1, <1>2 DEF RecordsTrue, RecordOf
<1>4. /\ slow \subseteq slow'
      /\ \A p \in Pids : proc[p].state = "listed" /\ RecordOf(p) \in records
                          => RecordOf(p) \in records' \/ p \in slow'
  <2>1. CASE Load(c)
    <3>1. \A p \in Pids : proc[p].state = "listed"
                            => RecordOf(p).app # Nobody /\ Alive(RecordOf(p).pid)
      BY DiscoveryAssumption DEF RecordOf, Alive, Nobody
    <3> QED
      BY <2>1, <3>1 DEF Load, Live
  <2>2. CASE ProbeFails(c)
    <3>1. \A p \in Pids : RecordOf(p).pid = p /\ (proc[p].state = "listed" => Listening(p))
      BY DEF Listening, RecordOf
    <3> QED
      BY <2>2, <3>1 DEF ProbeFails
  <2>3. CASE \/ StartCommand(c) \/ Probe(c) \/ Resolve(c) \/ Fallback(c)
             \/ SaveOpen(c) \/ SaveWrite(c) \/ SaveRename(c)
    BY <2>3 DEF StartCommand, Probe, Resolve, Fallback, SaveOpen, SaveWrite, SaveRename
  <2> QED
    BY <2>1, <2>2, <2>3 DEF Command
<1>5. LiveRecordKept'
  BY <1>1, <1>4 DEF LiveRecordKept, RecordOf
<1> QED
  BY <1>1, <1>3, <1>5

\* A command that ends keeps what it knows of the hosts.
LEMMA EndedOk ==
    ASSUME NEW c \in Clis, CliOk(cli[c]), NEW result,
           result = "ok" /\ cli[c].via # "saved" => SamePort(cli[c]),
           result = "missing" /\ cli[c].via = "record" => cli[c].steady = {}
    PROVE  CliOk(Ended(c, result))
<1> DEFINE e == Ended(c, result)
<1>1. /\ IsCli(e) /\ e.pc = "ended" /\ e.result = result /\ e.via = cli[c].via
      /\ e.target = cli[c].target /\ e.steady = cli[c].steady
  BY DEF Ended, IsCli, IdleCli
<1> HIDE DEF e
<1>2. CliOk(e)
  BY <1>1 DEF CliOk, SamePort
<1> QED
  BY <1>2 DEF e

\* --connect: nothing is known yet.
LEMMA BeginOk ==
    ASSUME DiscoveryInv, NEW c \in Clis, StartCommand(c)
    PROVE  CliInv'
<1>1. ASSUME NEW i, NEW s, NEW v
      PROVE  /\ CliOk([IdleCli EXCEPT !.pc = "load", !.id = i, !.via = v])
             /\ CliOk([IdleCli EXCEPT !.pc = "load", !.id = i, !.saved = s, !.via = v])
             /\ CliOk([IdleCli EXCEPT !.pc = "ended", !.result = "no_session"])
  BY DEF CliOk, IsCli, IdleCli, Nobody
<1>2. \E new : CliOk(new) /\ Set(c, new)
  BY <1>1 DEF StartCommand
<1> QED
  BY <1>2, SetKeepsCli, CommandKeepsRecords DEF DiscoveryInv

\* load_live: every listed host among the matches has its record among them.
LEMMA LoadOk ==
    ASSUME DiscoveryInv, NEW c \in Clis, Load(c)
    PROVE  CliInv'
<1> DEFINE s == cli[c]
           found == Candidates(Live, s.id)
           n == [s EXCEPT !.pc = "probe", !.candidates = found,
                          !.steady = {r.pid : r \in found} \intersect
                                     {p \in Pids : proc[p].state = "listed"}]
<1>1. CliOk(s) /\ s.pc = "load" /\ Set(c, n)
  BY DEF DiscoveryInv, CliInv, Load, At
<1>2. \A r \in found : r = RecordOf(r.pid)
  BY DEF Candidates, Live, DiscoveryInv, RecordsTrue
<1>3. /\ IsCli(n) /\ n.pc = "probe" /\ n.candidates = found /\ n.result = s.result
      /\ n.steady = {r.pid : r \in found} \intersect {p \in Pids : proc[p].state = "listed"}
  <2> HIDE DEF s, found
  <2> QED
    BY <1>1 DEF CliOk, IsCli
<1>4. n.result = Nobody
  BY <1>1, <1>3 DEF CliOk
<1> HIDE DEF s, found, n
<1>5. \A p \in n.steady : RecordOf(p) \in n.candidates
  BY <1>2, <1>3
<1>6. CliOk(n)
  BY <1>3, <1>4, <1>5 DEF CliOk, Nobody
<1> QED
  BY <1>1, <1>6, SetKeepsCli, CommandKeepsRecords DEF DiscoveryInv, Command

\* tcp_open: who answers is found open.
LEMMA ProbeOk ==
    ASSUME DiscoveryInv, NEW c \in Clis, Probe(c)
    PROVE  CliInv'
<1> DEFINE s == cli[c]
           New(r) == [s EXCEPT !.candidates = @ \ {r}, !.open = @ \union {r}]
<1>1. CliOk(s) /\ s.pc = "probe"
  BY DEF DiscoveryInv, CliInv, Probe, At
<1>2. ASSUME NEW r \in s.candidates PROVE CliOk(New(r))
  <2> DEFINE n == New(r)
  <2> HIDE DEF s
  <2>1. /\ IsCli(n) /\ n.pc = "probe" /\ n.result = s.result /\ n.steady = s.steady
        /\ n.candidates = s.candidates \ {r} /\ n.open = s.open \union {r}
    BY <1>1 DEF CliOk, IsCli
  <2> HIDE DEF n
  <2>2. CliOk(n)
    BY <1>1, <2>1 DEF CliOk, Nobody
  <2> QED
    BY <2>2 DEF n
<1>3. \E r \in s.candidates : Set(c, New(r))
  BY DEF Probe
<1> HIDE DEF New
<1>4. \E new : CliOk(new) /\ Set(c, new)
  BY <1>2, <1>3
<1> QED
  BY <1>4, SetKeepsCli, CommandKeepsRecords DEF DiscoveryInv, Command

\* Who does not answer in time is not counted among those that were up all along.
LEMMA ProbeFailsOk ==
    ASSUME DiscoveryInv, NEW c \in Clis, ProbeFails(c)
    PROVE  CliInv'
<1> DEFINE s == cli[c]
           New(r) == [s EXCEPT !.candidates = @ \ {r}, !.steady = @ \ {r.pid}]
<1>1. CliOk(s) /\ s.pc = "probe"
  BY DEF DiscoveryInv, CliInv, ProbeFails, At
<1>2. ASSUME NEW r \in s.candidates PROVE CliOk(New(r))
  <2> DEFINE n == New(r)
  <2> HIDE DEF s
  <2>1. /\ IsCli(n) /\ n.pc = "probe" /\ n.result = s.result /\ n.steady = s.steady \ {r.pid}
        /\ n.candidates = s.candidates \ {r} /\ n.open = s.open
    BY <1>1 DEF CliOk, IsCli
  <2> HIDE DEF n
  <2>2. \A p \in n.steady : RecordOf(p) \in n.candidates \union n.open
    BY <1>1, <2>1 DEF CliOk, RecordOf
  <2>3. CliOk(n)
    BY <1>1, <2>1, <2>2 DEF CliOk, Nobody
  <2> QED
    BY <2>3 DEF n
<1>3. \E r \in s.candidates : Set(c, New(r))
  BY DEF ProbeFails
<1> HIDE DEF New
<1>4. \E new : CliOk(new) /\ Set(c, new)
  BY <1>2, <1>3
<1> QED
  BY <1>4, SetKeepsCli, CommandKeepsRecords DEF DiscoveryInv, Command

\* All probed: a host that was up all along is open, so it is the one, or one of
\* several.
LEMMA ResolveOk ==
    ASSUME DiscoveryInv, NEW c \in Clis, Resolve(c)
    PROVE  CliInv'
<1> DEFINE s == cli[c]
<1>1. CliOk(s) /\ s.pc = "probe" /\ s.candidates = {}
  BY DEF DiscoveryInv, CliInv, Resolve, At
<1>2. \A p \in s.steady : RecordOf(p) \in s.open
  BY <1>1 DEF CliOk
<1>3. s.result = Nobody
  BY <1>1 DEF CliOk
<1>4. ASSUME s.via = LastSession PROVE CliOk([s EXCEPT !.pc = "fallback"])
  <2> DEFINE n == [s EXCEPT !.pc = "fallback"]
  <2>1. /\ IsCli(n) /\ n.pc = "fallback" /\ n.result = Nobody /\ n.steady = s.steady
        /\ n.via = LastSession
    <3> HIDE DEF s
    <3> QED
      BY <1>1, <1>3, <1>4 DEF CliOk, IsCli
  <2> HIDE DEF s, n
  <2>2. CliOk(n)
    BY <1>1, <2>1 DEF CliOk, Nobody
  <2> QED
    BY <2>2 DEF n
<1>5. ASSUME NEW r, s.open = {r} PROVE CliOk(Target(c, "save", r.app, r.port))
  <2> DEFINE n == Target(c, "save", r.app, r.port)
  <2>1. /\ IsCli(n) /\ n.pc = "save" /\ n.result = Nobody /\ n.steady = s.steady
        /\ n.target.port = r.port
    BY <1>1, <1>3 DEF CliOk, IsCli, Target
  <2> HIDE DEF s, n
  <2>2. SamePort(n)
    BY <1>2, <1>5, <2>1 DEF SamePort
  <2>3. CliOk(n)
    BY <1>1, <2>1, <2>2 DEF CliOk, Nobody
  <2> QED
    BY <2>3 DEF n
<1>6. CliOk(Ended(c, "ambiguous"))
  BY <1>1, EndedOk
<1>7. ASSUME s.open = {} PROVE CliOk(Ended(c, "missing"))
  <2>1. s.steady = {}
    BY <1>2, <1>7
  <2> QED
    BY <1>1, <2>1, EndedOk
<1>8. \E new : CliOk(new) /\ Set(c, new)
  <2>1. CASE s.open = {}
    BY <1>4, <1>7, <2>1 DEF Resolve, ResolvedNone
  <2>2. CASE s.open # {}
    BY <1>4, <1>5, <1>6, <2>2 DEF Resolve, Resolved
  <2> QED
    BY <2>1, <2>2
<1> QED
  BY <1>8, SetKeepsCli, CommandKeepsRecords DEF DiscoveryInv, Command

\* The saved address is only tried for `--connect last`.
LEMMA FallbackOk ==
    ASSUME DiscoveryInv, NEW c \in Clis, Fallback(c)
    PROVE  CliInv'
<1> DEFINE s == cli[c]
           n == [Target(c, "ended", s.saved.id, s.saved.port)
                     EXCEPT !.result = "ok", !.via = "saved", !.saved = Torn,
                            !.there = {proc[p].app : p \in Listener(s.saved.port)}]
<1>1. CliOk(s) /\ s.pc = "fallback" /\ s.via = LastSession
  BY DEF DiscoveryInv, CliInv, CliOk, Fallback, At
<1>2. CliOk(n)
  <2>1. /\ IsCli(n) /\ n.pc = "ended" /\ n.result = "ok" /\ n.via = "saved"
        /\ n.steady = s.steady
    BY <1>1 DEF CliOk, IsCli, Target
  <2> HIDE DEF s, n
  <2> QED
    BY <1>1, <2>1 DEF CliOk
<1>3. CliOk(Ended(c, "missing"))
  BY <1>1, EndedOk DEF LastSession
<1>4. \E new : CliOk(new) /\ Set(c, new)
  BY <1>2, <1>3 DEF Fallback
<1> QED
  BY <1>4, SetKeepsCli, CommandKeepsRecords DEF DiscoveryInv, Command

\* save_session changes no choice.
LEMMA SaveOk ==
    ASSUME DiscoveryInv, NEW c \in Clis, SaveOpen(c) \/ SaveWrite(c) \/ SaveRename(c)
    PROVE  CliInv'
<1> DEFINE s == cli[c]
<1>1. CliOk(s) /\ s.pc \in {"save", "write", "rename"}
  BY DEF DiscoveryInv, CliInv, SaveOpen, SaveWrite, SaveRename, At
<1>2. SamePort(s) /\ s.result = Nobody
  BY <1>1 DEF CliOk
<1>3. ASSUME NEW f, NEW n, n = [s EXCEPT !.pc = "write", !.fd = f]
                              \/ n = [s EXCEPT !.pc = "rename"]
      PROVE  CliOk(n)
  <2> HIDE DEF s
  <2>1. /\ IsCli(n) /\ n.pc \in {"write", "rename"} /\ n.result = Nobody
        /\ n.steady = s.steady /\ n.target = s.target
    BY <1>1, <1>2, <1>3 DEF CliOk, IsCli
  <2> QED
    BY <1>1, <1>2, <2>1 DEF CliOk, SamePort, Nobody
<1>4. CliOk(Ended(c, "ok")) /\ CliOk(Ended(c, "bad_addr"))
  BY <1>1, <1>2, EndedOk
<1>5. \E new : CliOk(new) /\ Set(c, new)
  BY <1>3, <1>4 DEF SaveOpen, SaveWrite, SaveRename
<1> QED
  BY <1>5, SetKeepsCli, CommandKeepsRecords DEF DiscoveryInv, Command

-----------------------------------------------------------------------------
\* DiscoveryInv is inductive.
LEMMA DiscoveryStep == DiscoveryInv /\ [Next]_vars => DiscoveryInv'
<1> SUFFICES ASSUME DiscoveryInv, [Next]_vars PROVE DiscoveryInv'
  OBVIOUS
<1>1. ASSUME NEW c \in Clis, StartCommand(c) \/ Command(c) PROVE DiscoveryInv'
  <2>1. CliInv'
    BY <1>1, BeginOk, LoadOk, ProbeOk, ProbeFailsOk, ResolveOk, FallbackOk, SaveOk DEF Command
  <2> QED
    BY <1>1, <2>1, CommandKeepsRecords DEF DiscoveryInv
<1>2. CASE Rest \/ UNCHANGED vars
  BY <1>2 DEF Rest, vars, DiscoveryInv, ProcInv, RecordsTrue, LiveRecordKept, CliInv, CliOk,
              SamePort, RecordOf, IsCli
<1> QED
  BY <1>1, <1>2, HostStep DEF Next

\* What the directory, the hosts and the commands under way keep true together.
THEOREM DiscoveryInvariant == Spec => []DiscoveryInv
BY DiscoveryInit, DiscoveryStep, PTL DEF Spec

\* Pruning removes the record of no host that is up, but of one that kept a probe
\* waiting for too long (load_live, resolve_id).
THEOREM DiscoveryLiveRecordKept == Spec => []LiveRecordKept
BY DiscoveryInvariant, PTL DEF DiscoveryInv

\* A command passes over no host that matched, was up all along and answered it
\* (resolve_client_target): of two it reports the ambiguity.
THEOREM DiscoveryNoSilentPick == Spec => []NoSilentPick
<1>1. DiscoveryInv => NoSilentPick
  BY DEF DiscoveryInv, CliInv, CliOk, SamePort, NoSilentPick
<1> QED
  BY <1>1, DiscoveryInvariant, PTL
=============================================================================

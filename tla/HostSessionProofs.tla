-------------------------- MODULE HostSessionProofs --------------------------
(***************************************************************************)
(* Why revisions, diffs and the fingerprint gate can be trusted, for any   *)
(* number of connections, trees and revisions: on a host that bumps its    *)
(* revision with every change, everything cached under a revision is the   *)
(* tree the host had at that revision.                                     *)
(***************************************************************************)
EXTENDS HostSession, SequenceTheorems, TLAPS

HostInv ==
    /\ mailboxHost \in BOOLEAN
    /\ tracks \in BOOLEAN
    /\ tree \in Tree
    /\ rev \in Nat
    /\ was \in Seq(Tree) /\ Len(was) = rev + 1
    /\ tree = was[rev + 1]

\* t is the tree the host had at revision k, w being its history.
Honest(t, k, w) ==
    /\ k \in Nat /\ k < Len(w)
    /\ t \in Tree
    /\ t = w[k + 1]

RingInv(r, w) ==
    /\ r \in Seq(Entry)
    /\ Len(r) <= RevRingDepth
    /\ \A i \in 1..Len(r) : Honest(r[i].tree, r[i].rev, w)
    /\ \A i, j \in 1..Len(r) : i < j => r[i].rev < r[j].rev

WireInv(m, k, w) ==
    /\ WireOK(m)
    /\ m.kind = "snapshot" => m.since \in {NoRev, k.rev}
    /\ m.kind \in {"full", "diff"} => m.rev = NoRev \/ Honest(m.tree, m.rev, w)
    /\ m.kind = "diff" => m.base = k.tree

KnownInv(k, w) ==
    /\ k \in [rev : Nat \cup {NoRev}, tree : Tree \cup {NoTree, Torn}]
    /\ k.rev # NoRev => Honest(k.tree, k.rev, w)

ConnInv(r, m, k, w) == RingInv(r, w) /\ WireInv(m, k, w) /\ KnownInv(k, w)

SessionInv ==
    /\ HostInv
    /\ ring = [c \in Conn |-> ring[c]]
    /\ wire = [c \in Conn |-> wire[c]]
    /\ known = [c \in Conn |-> known[c]]
    /\ \A c \in Conn : ConnInv(ring[c], wire[c], known[c], was)

-----------------------------------------------------------------------------
(* TreeCache                                                               *)

RefreshedOK(r) ==
    /\ r \in Seq(Entry)
    /\ Len(r) <= RevRingDepth
    /\ \A i \in 1..Len(r) : Honest(r[i].tree, r[i].rev, was)
    /\ \A i, j \in 1..Len(r) : i < j => r[i].rev < r[j].rev

\* cache.snapshot keeps a ring in order and ends with the present tree.
LEMMA RefreshedInv ==
    ASSUME HostInv, NEW r, RingInv(r, was), tracks
    PROVE  /\ RefreshedOK(Refreshed(r))
           /\ Refreshed(r) # <<>>
           /\ Newest(Refreshed(r)).rev = rev
           /\ Honest(Newest(Refreshed(r)).tree, rev, was)
           /\ Newest(Refreshed(r)).tree = tree
<1>1. CASE Hit(r)
  <2>1. r \in Seq(Entry) /\ r # <<>>
    BY <1>1 DEF Hit, RingInv
  <2>2. Len(r) \in 1..Len(r)
    BY <2>1
  <2> QED
    BY <1>1, <2>1, <2>2 DEF Hit, Refreshed, RefreshedOK, RingInv, Newest, Honest, HostInv
<1>2. CASE ~Hit(r)
  <2> DEFINE e == [rev |-> rev, tree |-> tree]
             p == Append(r, e)
             q == Tail(p)
  <2>1. e \in Entry /\ Honest(e.tree, e.rev, was)
    BY DEF HostInv, Entry, Honest
  <2>2. r \in Seq(Entry) /\ Len(r) \in Nat
    BY DEF RingInv
  <2>3. \A i \in 1..Len(r) : r[i].rev < rev
    <3>1. CASE r = <<>>
      BY <3>1
    <3>2. CASE r # <<>>
      <4>1. Len(r) \in 1..Len(r) /\ Newest(r).rev # rev
        BY <1>2, <2>2, <3>2 DEF Hit
      <4>2. \A i \in 1..Len(r) : r[i] \in Entry /\ r[i].rev <= rev
        BY <2>2 DEF RingInv, Honest, HostInv
      <4>3. \A i \in 1..Len(r) : i < Len(r) => r[i].rev < r[Len(r)].rev
        BY <4>1 DEF RingInv
      <4>4. r[Len(r)].rev < rev
        BY <4>1, <4>2 DEF Newest, Entry, HostInv
      <4>5. ASSUME NEW i \in 1..Len(r) PROVE r[i].rev < rev
        <5>1. r[i].rev \in Nat /\ r[Len(r)].rev \in Nat /\ rev \in Nat
          BY <4>1, <4>2 DEF Entry, HostInv
        <5>2. r[i].rev <= r[Len(r)].rev
          BY <2>2, <4>3, <5>1
        <5> QED
          BY <4>4, <5>1, <5>2
      <4> QED
        BY <4>5
    <3> QED
      BY <3>1, <3>2
  <2>4. /\ p \in Seq(Entry) /\ Len(p) = Len(r) + 1 /\ p[Len(p)] = e
        /\ \A i \in 1..Len(r) : p[i] = r[i]
    BY <2>1, <2>2, AppendProperties
  <2> HIDE DEF e, p, q
  <2>5. /\ \A i \in 1..Len(p) : Honest(p[i].tree, p[i].rev, was)
        /\ \A i, j \in 1..Len(p) : i < j => p[i].rev < p[j].rev
    <3>1. \A i \in 1..Len(p) : i \in 1..Len(r) \/ i = Len(p)
      BY <2>2, <2>4
    <3>2. e.rev = rev
      BY DEF e
    <3> QED
      BY <2>1, <2>2, <2>3, <2>4, <3>1, <3>2 DEF RingInv
  <2>6. CASE Len(r) < RevRingDepth
    <3>1. Refreshed(r) = p
      BY <1>2, <2>6 DEF Refreshed, Pushed, p, e
    <3> QED
      BY <2>1, <2>2, <2>4, <2>5, <2>6, <3>1, SessionAssumption
      DEF RefreshedOK, Newest, e, Honest
  <2>7. CASE ~(Len(r) < RevRingDepth)
    <3>1. Refreshed(r) = q
      BY <1>2, <2>7 DEF Refreshed, Pushed, p, e, q
    <3>2. /\ q \in Seq(Entry) /\ Len(q) = Len(r)
          /\ \A i \in 1..Len(q) : q[i] = p[i + 1]
      BY <2>2, <2>4, HeadTailProperties DEF q
    <3>3. Len(r) > 0
      BY <2>2, <2>7, SessionAssumption
    <3>4. q[Len(q)] = e
      BY <2>2, <2>4, <3>2, <3>3
    <3>5. /\ \A i \in 1..Len(q) : Honest(q[i].tree, q[i].rev, was)
          /\ \A i, j \in 1..Len(q) : i < j => q[i].rev < q[j].rev
      <4>1. \A i \in 1..Len(q) : i + 1 \in 1..Len(p) /\ q[i] = p[i + 1]
        BY <2>2, <2>4, <3>2
      <4>2. \A i \in 1..Len(q) : Honest(q[i].tree, q[i].rev, was)
        BY <2>5, <4>1
      <4>3. ASSUME NEW i \in 1..Len(q), NEW j \in 1..Len(q), i < j
            PROVE  q[i].rev < q[j].rev
        <5>1. i + 1 \in 1..Len(p) /\ j + 1 \in 1..Len(p) /\ i + 1 < j + 1
          BY <4>1, <4>3
        <5> QED
          BY <2>5, <4>1, <5>1
      <4> QED
        BY <4>2, <4>3
    <3>6. RefreshedOK(q)
      <4>1. Len(q) <= RevRingDepth
        BY <3>2 DEF RingInv
      <4> QED
        BY <3>2, <3>5, <4>1 DEF RefreshedOK
    <3>7. q # <<>>
      BY <3>2, <3>3
    <3> QED
      BY <2>1, <3>1, <3>4, <3>6, <3>7 DEF Newest, e
  <2> QED
    BY <2>6, <2>7
<1> QED
  BY <1>1, <1>2

\* The tree a request is answered from is the host's, and the cache is left in order.
LEMMA SeenInv ==
    ASSUME HostInv, NEW r, RingInv(r, was)
    PROVE  /\ Seen(r) \in Tree
           /\ Seen(r) = tree
           /\ tracks => Honest(Seen(r), rev, was)
           /\ RefreshedOK(Refreshed(r))
           /\ RingInv(Kept(Refreshed(r)), was)
<1>1. CASE tracks
  <2>1. RefreshedOK(Refreshed(r)) /\ Refreshed(r) # <<>>
    BY <1>1, RefreshedInv
  <2>2. Seen(r) = Newest(Refreshed(r)).tree
    BY <1>1 DEF Seen
  <2>3. Honest(Seen(r), rev, was) /\ Seen(r) = tree
    BY <1>1, <2>2, RefreshedInv
  <2>4. RingInv(Kept(Refreshed(r)), was)
    <3>1. CASE mailboxHost
      BY <3>1, SessionAssumption DEF Kept, RingInv
    <3>2. CASE ~mailboxHost
      BY <2>1, <3>2 DEF Kept, RingInv, RefreshedOK
    <3> QED
      BY <3>1, <3>2
  <2> QED
    BY <1>1, <2>1, <2>3, <2>4 DEF Honest
<1>2. CASE ~tracks
  BY <1>2, SessionAssumption DEF Seen, Refreshed, Kept, RingInv, RefreshedOK, HostInv
<1> QED
  BY <1>1, <1>2

-----------------------------------------------------------------------------
(* Requests and answers                                                    *)

\* Whatever snapshot_response answers, it answers truly.
LEMMA AnswerInv ==
    ASSUME HostInv, NEW r, RingInv(r, was), NEW k, KnownInv(k, was),
           NEW since, since \in {NoRev, k.rev}
    PROVE  WireInv(SnapshotAnswer(r, since), k, was)
<1> DEFINE f == Refreshed(r)
<1>1. /\ Seen(r) \in Tree
      /\ tracks => Honest(Seen(r), rev, was)
      /\ RefreshedOK(f)
  BY SeenInv
<1>2. AnswerRev \in Nat \cup {NoRev} /\ (AnswerRev = NoRev \/ (tracks /\ AnswerRev = rev))
  BY DEF AnswerRev, HostInv
<1>3. WireInv(Unchanged, k, was)
  BY <1>2 DEF WireInv, WireOK, Unchanged, Answers
<1>4. WireInv(Full(r), k, was)
  BY <1>1, <1>2 DEF WireInv, WireOK, Full, Answers
<1>5. ASSUME tracks, since # NoRev, NEW i \in Holding(f, since)
      PROVE  WireInv(Diff(f, i), k, was)
  <2>1. i \in 1..Len(f) /\ f[i].rev = since /\ since = k.rev
    BY <1>5 DEF Holding
  <2>2. f[i].tree = k.tree
    BY <1>1, <1>5, <2>1 DEF RefreshedOK, Honest, KnownInv
  <2>3. Diff(f, i) = [kind |-> "diff", rev |-> AnswerRev, base |-> f[i].tree,
                      tree |-> Newest(Refreshed(f)).tree]
    BY <1>5 DEF Diff, Seen
  <2>4. Hit(f)
    <3>1. f # <<>> /\ Newest(f).rev = rev
      BY <1>5, RefreshedInv
    <3> QED
      BY <1>5, <3>1 DEF Hit
  <2>5. Diff(f, i).tree = Seen(r)
    BY <1>5, <2>3, <2>4 DEF Refreshed, Seen
  <2>6. /\ Diff(f, i).kind = "diff" /\ Diff(f, i).rev = AnswerRev
        /\ Diff(f, i).base = f[i].tree
    BY DEF Diff
  <2> HIDE DEF f
  <2> QED
    BY <1>1, <1>2, <2>2, <2>5, <2>6 DEF WireInv, WireOK, Answers
<1>6. CASE since # NoRev /\ tracks /\ since # rev /\ Holding(f, since) # {}
  <2>1. (CHOOSE i \in Holding(f, since) : TRUE) \in Holding(f, since)
    BY <1>6
  <2>2. SnapshotAnswer(r, since) = Diff(f, CHOOSE i \in Holding(f, since) : TRUE)
    BY <1>6 DEF SnapshotAnswer
  <2> QED
    BY <1>5, <1>6, <2>1, <2>2
<1> QED
  BY <1>3, <1>4, <1>6 DEF SnapshotAnswer

\* Applying a true answer leaves the client with a true tree.
LEMMA AppliedInv ==
    ASSUME NEW w \in Seq(Tree), NEW k, KnownInv(k, w), NEW m, WireInv(m, k, w)
    PROVE  KnownInv(Applied(k, m), w)
<1>1. CASE m.kind = "full"
  BY <1>1 DEF Applied, KnownInv, WireInv, WireOK, Answers, Honest
<1>2. CASE m.kind = "diff"
  BY <1>2 DEF Applied, KnownInv, WireInv, WireOK, Answers, Honest
<1>3. CASE m.kind \notin {"full", "diff"}
  BY <1>3 DEF Applied
<1> QED
  BY <1>1, <1>2, <1>3

\* A change bumps the revision: what was true of the past stays true.
LEMMA ChangeInv ==
    ASSUME HostInv, NEW new \in Tree, Change(new)
    PROVE  /\ HostInv'
           /\ \A r, m, k : ConnInv(r, m, k, was) => ConnInv(r, m, k, was')
<1>1. /\ was' \in Seq(Tree) /\ Len(was') = Len(was) + 1 /\ was'[Len(was) + 1] = new
      /\ \A i \in 1..Len(was) : was'[i] = was[i]
  BY AppendProperties DEF Change, HostInv
<1>2. HostInv'
  BY <1>1 DEF HostInv, Change
<1>3. \A t, k : Honest(t, k, was) => Honest(t, k, was')
  BY <1>1 DEF Honest, HostInv
<1>4. \A r : RingInv(r, was) => RingInv(r, was')
  BY <1>3 DEF RingInv
<1>5. \A m, k : WireInv(m, k, was) => WireInv(m, k, was')
  BY <1>3 DEF WireInv
<1>6. \A k : KnownInv(k, was) => KnownInv(k, was')
  BY <1>3 DEF KnownInv
<1> QED
  BY <1>2, <1>4, <1>5, <1>6 DEF ConnInv

-----------------------------------------------------------------------------
(* The specification                                                       *)

\* The invariant holds before the first request.
LEMMA SessionInit == Init => SessionInv
<1> SUFFICES ASSUME Init PROVE SessionInv
  OBVIOUS
<1>1. HostInv
  BY DEF Init, HostInv
<1>2. /\ ring = [c \in Conn |-> ring[c]]
      /\ wire = [c \in Conn |-> wire[c]]
      /\ known = [c \in Conn |-> known[c]]
      /\ \A c \in Conn : ring[c] = <<>> /\ wire[c] = Idle /\ known[c] = Nobody
  BY DEF Init
<1>3. RingInv(<<>>, was)
  BY SessionAssumption DEF RingInv
<1>4. WireInv(Idle, Nobody, was)
  BY DEF WireInv, WireOK, Idle, Answers
<1>5. KnownInv(Nobody, was)
  BY DEF KnownInv, Nobody
<1> QED
  BY <1>1, <1>2, <1>3, <1>4, <1>5 DEF SessionInv, ConnInv

\* A step of one connection that leaves the host alone.
LEMMA OneConn ==
    ASSUME SessionInv, UNCHANGED hostVars, NEW c \in Conn,
           NEW r, NEW m, NEW k, ConnInv(r, m, k, was),
           ring' = [ring EXCEPT ![c] = r],
           wire' = [wire EXCEPT ![c] = m],
           known' = [known EXCEPT ![c] = k]
    PROVE  SessionInv'
<1>1. HostInv' /\ was' = was
  BY DEF hostVars, HostInv, SessionInv
<1>2. /\ ring' = [d \in Conn |-> ring'[d]]
      /\ wire' = [d \in Conn |-> wire'[d]]
      /\ known' = [d \in Conn |-> known'[d]]
  BY DEF SessionInv
<1>3. \A d \in Conn : ConnInv(ring'[d], wire'[d], known'[d], was)
  BY DEF SessionInv
<1> QED
  BY <1>1, <1>2, <1>3 DEF SessionInv

\* A step of one connection that changes the host.
LEMMA OneConnChange ==
    ASSUME SessionInv, NEW new \in Tree, Change(new), NEW c \in Conn,
           NEW r, NEW m, ConnInv(r, m, known[c], was),
           ring' = [ring EXCEPT ![c] = r],
           wire' = [wire EXCEPT ![c] = m],
           known' = known
    PROVE  SessionInv'
<1>1. HostInv' /\ \A x, y, z : ConnInv(x, y, z, was) => ConnInv(x, y, z, was')
  BY ChangeInv DEF SessionInv
<1>2. /\ ring' = [d \in Conn |-> ring'[d]]
      /\ wire' = [d \in Conn |-> wire'[d]]
      /\ known' = [d \in Conn |-> known'[d]]
  BY DEF SessionInv
<1>3. \A d \in Conn : ConnInv(ring'[d], wire'[d], known'[d], was)
  BY DEF SessionInv
<1> QED
  BY <1>1, <1>2, <1>3 DEF SessionInv

\* Every step keeps the invariant.
LEMMA SessionStep == SessionInv /\ [Next]_vars => SessionInv'
<1> SUFFICES ASSUME SessionInv, [Next]_vars PROVE SessionInv'
  OBVIOUS
<1>0. /\ HostInv
      /\ \A c \in Conn : /\ ring' = ring => ring' = [ring EXCEPT ![c] = ring[c]]
                         /\ wire' = wire => wire' = [wire EXCEPT ![c] = wire[c]]
                         /\ known' = known => known' = [known EXCEPT ![c] = known[c]]
      /\ \A c \in Conn : /\ RingInv(ring[c], was)
                         /\ WireInv(wire[c], known[c], was)
                         /\ KnownInv(known[c], was)
  <2>1. HostInv /\ \A c \in Conn : ConnInv(ring[c], wire[c], known[c], was)
    BY DEF SessionInv
  <2>2. /\ ring = [c \in Conn |-> ring[c]]
        /\ wire = [c \in Conn |-> wire[c]]
        /\ known = [c \in Conn |-> known[c]]
    BY DEF SessionInv
  <2>3. ASSUME NEW f, f = [d \in Conn |-> f[d]], NEW c \in Conn
        PROVE  f = [f EXCEPT ![c] = f[c]]
    BY <2>3
  <2> QED
    BY <2>1, <2>2, <2>3 DEF ConnInv
<1>1. ASSUME NEW new \in Tree, HostChange(new) PROVE SessionInv'
  BY <1>1, ChangeInv DEF HostChange, SessionInv
<1>3. ASSUME NEW c \in Conn, NEW since, AskSnapshot(c, since) PROVE SessionInv'
  <2> DEFINE m == [kind |-> "snapshot", since |-> since]
  <2>1. since \in {NoRev, known[c].rev}
    BY <1>3 DEF AskSnapshot
  <2>2. ConnInv(ring[c], m, known[c], was)
    BY <1>0, <2>1 DEF ConnInv, WireInv, WireOK, Answers, KnownInv
  <2>3. wire' = [wire EXCEPT ![c] = m] /\ UNCHANGED <<hostVars, ring, known>>
    BY <1>3 DEF AskSnapshot
  <2> HIDE DEF m
  <2> QED
    BY <1>0, <2>2, <2>3, OneConn
<1>4. ASSUME NEW c \in Conn, NEW target \in Target, NEW virtual \in BOOLEAN,
             AskAct(c, target, virtual)
      PROVE  SessionInv'
  <2> DEFINE m == [kind |-> "act", virtual |-> virtual, target |-> target,
                   expect |-> Fingerprint(known[c].tree, target)]
  <2>1. ConnInv(ring[c], m, known[c], was)
    BY <1>0 DEF ConnInv, WireInv, WireOK, Answers
  <2>2. wire' = [wire EXCEPT ![c] = m] /\ UNCHANGED <<hostVars, ring, known>>
    BY <1>4 DEF AskAct
  <2> HIDE DEF m
  <2> QED
    BY <1>0, <2>1, <2>2, OneConn
<1>5. ASSUME NEW c \in Conn, Look(c) PROVE SessionInv'
  <2> DEFINE r == Kept(Refreshed(ring[c]))
  <2>1. ConnInv(r, wire[c], known[c], was)
    BY <1>0, SeenInv DEF ConnInv
  <2>2. ring' = [ring EXCEPT ![c] = r] /\ UNCHANGED <<hostVars, wire, known>>
    BY <1>5 DEF Look
  <2> HIDE DEF r
  <2> QED
    BY <1>0, <2>1, <2>2, OneConn
<1>6. ASSUME NEW c \in Conn, ServeSnapshot(c) PROVE SessionInv'
  <2> DEFINE r == Kept(Refreshed(ring[c]))
             m == SnapshotAnswer(ring[c], wire[c].since)
  <2>1. WireInv(m, known[c], was)
    <3>1. wire[c].since \in {NoRev, known[c].rev}
      BY <1>0, <1>6 DEF ServeSnapshot, WireInv
    <3> QED
      BY <1>0, <3>1, AnswerInv
  <2>2. ConnInv(r, m, known[c], was)
    BY <1>0, <2>1, SeenInv DEF ConnInv
  <2>3. /\ ring' = [ring EXCEPT ![c] = r] /\ wire' = [wire EXCEPT ![c] = m]
        /\ UNCHANGED <<hostVars, known>>
    BY <1>6 DEF ServeSnapshot
  <2> HIDE DEF r, m
  <2> QED
    BY <1>0, <2>2, <2>3, OneConn
<1>7. \A k : WireInv([kind |-> "stale"], k, was) /\ WireInv([kind |-> "acted"], k, was)
           /\ WireInv(Idle, k, was)
  BY DEF WireInv, WireOK, Answers, Idle
<1>8. ASSUME NEW c \in Conn, RefuseAct(c) PROVE SessionInv'
  <2> DEFINE r == Kept(Refreshed(ring[c]))
             m == [kind |-> "stale"]
  <2>1. ConnInv(r, m, known[c], was)
    BY <1>0, <1>7, SeenInv DEF ConnInv
  <2>2. /\ ring' = [ring EXCEPT ![c] = r] /\ wire' = [wire EXCEPT ![c] = m]
        /\ UNCHANGED <<hostVars, known>>
    BY <1>8 DEF RefuseAct
  <2> HIDE DEF r, m
  <2> QED
    BY <1>0, <2>1, <2>2, OneConn
<1>9. ASSUME NEW c \in Conn, MissVirtual(c) PROVE SessionInv'
  <2> DEFINE m == [kind |-> "stale"]
  <2>1. ConnInv(ring[c], m, known[c], was)
    BY <1>0, <1>7 DEF ConnInv
  <2>2. wire' = [wire EXCEPT ![c] = m] /\ UNCHANGED <<hostVars, ring, known>>
    BY <1>9 DEF MissVirtual
  <2> HIDE DEF m
  <2> QED
    BY <1>0, <2>1, <2>2, OneConn
<1>10. ASSUME NEW c \in Conn, NEW new \in Tree, DispatchAct(c, new) PROVE SessionInv'
  <2> DEFINE r == Kept(Refreshed(ring[c]))
             m == [kind |-> "acted"]
  <2>1. ConnInv(r, m, known[c], was)
    BY <1>0, <1>7, SeenInv DEF ConnInv
  <2>2. /\ ring' = [ring EXCEPT ![c] = r] /\ wire' = [wire EXCEPT ![c] = m]
        /\ Change(new) /\ known' = known
    BY <1>10 DEF DispatchAct
  <2> HIDE DEF r, m
  <2> QED
    BY <2>1, <2>2, OneConnChange
<1>11. ASSUME NEW c \in Conn, NEW new \in Tree, DispatchVirtual(c, new) PROVE SessionInv'
  <2> DEFINE m == [kind |-> "acted"]
  <2>1. ConnInv(ring[c], m, known[c], was)
    BY <1>0, <1>7 DEF ConnInv
  <2>2. wire' = [wire EXCEPT ![c] = m] /\ Change(new) /\ ring' = ring /\ known' = known
    BY <1>11 DEF DispatchVirtual
  <2> HIDE DEF m
  <2> QED
    BY <1>0, <2>1, <2>2, OneConnChange
<1>12. ASSUME NEW c \in Conn, Receive(c) PROVE SessionInv'
  <2> DEFINE k == Applied(known[c], wire[c])
  <2>1. KnownInv(k, was)
    BY <1>0, AppliedInv DEF HostInv
  <2>2. ConnInv(ring[c], Idle, k, was)
    BY <1>0, <1>7, <2>1 DEF ConnInv
  <2>3. /\ wire' = [wire EXCEPT ![c] = Idle] /\ known' = [known EXCEPT ![c] = k]
        /\ UNCHANGED <<hostVars, ring>>
    BY <1>12 DEF Receive
  <2> HIDE DEF k
  <2> QED
    BY <1>0, <2>2, <2>3, OneConn
<1>13. ASSUME NEW c \in Conn, Reconnect(c) PROVE SessionInv'
  <2>1. RingInv(<<>>, was)
    BY SessionAssumption DEF RingInv
  <2>2. ConnInv(<<>>, Idle, known[c], was)
    BY <1>0, <1>7, <2>1 DEF ConnInv
  <2> QED
    BY <1>0, <1>13, <2>2, OneConn DEF Reconnect
<1>14. CASE UNCHANGED vars
  BY <1>14 DEF vars, hostVars, SessionInv, HostInv
<1> QED
  BY <1>1, <1>3, <1>4, <1>5, <1>6, <1>8, <1>9, <1>10, <1>11, <1>12, <1>13, <1>14
  DEF Next, Session

\* Revisions, rings, answers and clients agree, in every behaviour.
THEOREM SessionInvariant == Spec => []SessionInv
BY SessionInit, SessionStep, PTL DEF Spec

\* Rings are in order, within REV_RING_DEPTH, and no revision is in one twice.
THEOREM SessionTypeCorrect == Spec => []SessionTypeOK
<1>1. SessionInv => SessionTypeOK
  <2> SUFFICES ASSUME SessionInv PROVE SessionTypeOK
    OBVIOUS
  <2>1. \A c \in Conn : RingOK(ring[c])
    <3> SUFFICES ASSUME NEW c \in Conn PROVE RingOK(ring[c])
      OBVIOUS
    <3>1. RingInv(ring[c], was) /\ HostInv
      BY DEF SessionInv, ConnInv
    <3>2. \A i \in 1..Len(ring[c]) : ring[c][i].rev <= rev
      BY <3>1 DEF RingInv, Honest, HostInv
    <3> QED
      BY <3>1, <3>2 DEF RingInv, RingOK
  <2>2. \A c \in Conn : WireOK(wire[c])
    BY DEF SessionInv, ConnInv, WireInv
  <2>3. known \in [Conn -> [rev : Nat \cup {NoRev}, tree : Tree \cup {NoTree, Torn}]]
    BY DEF SessionInv, ConnInv, KnownInv
  <2> QED
    BY <2>1, <2>2, <2>3 DEF SessionInv, HostInv, SessionTypeOK
<1> QED
  BY <1>1, SessionInvariant, PTL

\* A client's tree, patched together from snapshots, diffs and "unchanged", is the
\* tree the host had at that revision.
THEOREM SessionClientTreeTrue == Spec => []ClientTreeTrue
<1>1. SessionInv => ClientTreeTrue
  BY DEF SessionInv, ConnInv, KnownInv, Honest, ClientTreeTrue
<1> QED
  BY <1>1, SessionInvariant, PTL

\* The gate is exact: the cached tree it looks at is the host's tree of that moment
\* (handle_request_cached).
THEOREM SessionGateExact == Spec => GateExact
<1> DEFINE Exact(c) ==
      wire[c].kind = "act" /\ ~wire[c].virtual =>
        /\ MatchesAsDispatched(c)
        /\ wire'[c].kind = "stale" => Fingerprint(tree, wire[c].target) # wire[c].expect
<1>1. SessionInv /\ [Next]_vars => [\A c \in Conn : Exact(c)]_vars
  <2> SUFFICES ASSUME SessionInv, Next, NEW c \in Conn,
                      wire[c].kind = "act", ~wire[c].virtual
               PROVE  Exact(c)
    OBVIOUS
  <2>1. Seen(ring[c]) = tree
    BY SeenInv DEF SessionInv, ConnInv
  <2>2. DOMAIN wire = Conn
    BY DEF SessionInv
  <2>3. CASE RefuseAct(c)
    BY <2>1, <2>2, <2>3 DEF RefuseAct, ActPasses, MatchesAsDispatched
  <2>4. CASE \E new \in Tree : DispatchAct(c, new)
    BY <2>1, <2>2, <2>4 DEF DispatchAct, ActPasses, MatchesAsDispatched
  <2>5. CASE wire'[c] \in {wire[c], Idle}
    BY <2>5 DEF MatchesAsDispatched, Idle
  <2>6. RefuseAct(c) \/ (\E new \in Tree : DispatchAct(c, new)) \/ wire'[c] \in {wire[c], Idle}
    <3>1. CASE \E new \in Tree : HostChange(new)
      BY <3>1 DEF HostChange
    <3>2. CASE \E d \in Conn : d # c /\ Session(d)
      BY <2>2, <3>2 DEF Session, AskSnapshot, AskAct, Look, ServeSnapshot, RefuseAct,
          MissVirtual, DispatchAct, DispatchVirtual, Receive, Reconnect
    <3>3. CASE Session(c)
      BY <2>2, <3>3 DEF Session, AskSnapshot, AskAct, Look, ServeSnapshot,
          MissVirtual, DispatchVirtual, Receive, Reconnect, Idle
    <3> QED
      BY <3>1, <3>2, <3>3 DEF Next
  <2> QED
    BY <2>3, <2>4, <2>5, <2>6
<1> QED
  BY <1>1, SessionInvariant, PTL DEF Spec, GateExact
=============================================================================

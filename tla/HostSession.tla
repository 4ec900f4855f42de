---------------------------- MODULE HostSession ----------------------------
(***************************************************************************)
(* Snapshots, diffs and the fingerprint gate of one host: the revision     *)
(* contract of AgentHost (crates/gpui-agent/src/host.rs), the TreeCache    *)
(* ring each connection keeps of it and the requests answered from that    *)
(* ring (dispatch.rs), and the copy of the tree a client patches together  *)
(* from the answers.                                                       *)
(*                                                                         *)
(* serve_host holds the host's mutex for one whole request, so a request   *)
(* is one step; other connections act between two of them, and between a   *)
(* request, its answer and the client's use of it.  Each connection has a  *)
(* client with one request outstanding.  A mailbox host (the desktop app)  *)
(* answers on the UI thread, with a fresh TreeCache for every request, and *)
(* offers virtual delivery.  A host that reports revisions keeps the       *)
(* contract of module AgentHost.                                           *)
(***************************************************************************)
EXTENDS Naturals, Sequences

CONSTANTS
    Conn,
    Tree,                  \* trees a host may show
    Target,                \* ids a client acts on
    Fingerprint(_, _),     \* fingerprint_of: tree, target -> a hash, or Gone
    Gone,                  \* the target is not in the tree
    NoRev,                 \* rev: None
    NoTree, Torn,          \* a client without a tree; one patched on the wrong base
    RevRingDepth,          \* REV_RING_DEPTH
    MaxRev                 \* bound: host changes explored

ASSUME SessionAssumption ==
    /\ NoRev \notin Nat
    /\ NoTree \notin Tree
    /\ Torn \notin Tree
    /\ Torn # NoTree
    /\ RevRingDepth \in Nat \ {0}
    /\ MaxRev \in Nat

VARIABLES
    mailboxHost,\* requests are drained by apply_agent, not by serve_host
    tracks,     \* revision() is Some
    tree, rev,  \* the host
    ring,       \* per connection: TreeCache.ring
    wire,       \* per connection: the request or the answer under way
    known,      \* per connection: the client's tree and its revision
    was         \* history: the tree of every revision so far

hostVars == <<mailboxHost, tracks, tree, rev, was>>
vars == <<hostVars, ring, wire, known>>

Entry == [rev : Nat, tree : Tree]
Idle == [kind |-> "idle"]
Nobody == [rev |-> NoRev, tree |-> NoTree]

Init ==
    /\ mailboxHost \in BOOLEAN
    /\ tracks \in BOOLEAN
    /\ tree \in Tree
    /\ rev = 0
    /\ was = <<tree>>
    /\ ring = [c \in Conn |-> <<>>]
    /\ wire = [c \in Conn |-> Idle]
    /\ known = [c \in Conn |-> Nobody]

-----------------------------------------------------------------------------
(* The host                                                                *)

\* A mutation by an unguarded op, another connection or the human.
Change(new) ==
    /\ rev < MaxRev
    /\ tree' = new
    /\ rev' = rev + 1
    /\ was' = Append(was, new)
    /\ UNCHANGED <<mailboxHost, tracks>>

HostChange(new) == Change(new) /\ UNCHANGED <<ring, wire, known>>

-----------------------------------------------------------------------------
(* TreeCache                                                               *)

Newest(r) == r[Len(r)]

\* The cached tree answers while the revision has not moved.
Hit(r) == tracks /\ r # <<>> /\ Newest(r).rev = rev

Pushed(r) == Append(r, [rev |-> rev, tree |-> tree])

\* cache.snapshot(host): the ring afterwards.
Refreshed(r) ==
    IF ~tracks \/ Hit(r) THEN r
    ELSE IF Len(r) < RevRingDepth THEN Pushed(r) ELSE Tail(Pushed(r))

\* ... and the tree it returns.
Seen(r) == IF tracks THEN Newest(Refreshed(r)).tree ELSE tree

\* The cache outlives the request only where the connection owns it.
Kept(r) == IF mailboxHost THEN <<>> ELSE r

-----------------------------------------------------------------------------
(* Requests                                                                *)

\* snapshot, full or since the revision the client holds.
AskSnapshot(c, since) ==
    /\ wire[c] = Idle
    /\ since \in {NoRev, known[c].rev}
    /\ wire' = [wire EXCEPT ![c] = [kind |-> "snapshot", since |-> since]]
    /\ UNCHANGED <<hostVars, ring, known>>

\* click, type, set_value or key with the fingerprint the client last read.
AskAct(c, target, virtual) ==
    /\ wire[c] = Idle
    /\ known[c].tree \in Tree
    /\ Fingerprint(known[c].tree, target) # Gone
    /\ virtual => mailboxHost
    /\ wire' = [wire EXCEPT ![c] =
                  [kind |-> "act", virtual |-> virtual, target |-> target,
                   expect |-> Fingerprint(known[c].tree, target)]]
    /\ UNCHANGED <<hostVars, ring, known>>

\* assert, and each poll of wait_until: the tree is looked at, nothing else.
Look(c) ==
    /\ wire[c] = Idle
    /\ ring' = [ring EXCEPT ![c] = Kept(Refreshed(@))]
    /\ UNCHANGED <<hostVars, wire, known>>

Holding(r, since) == {i \in 1..Len(r) : r[i].rev = since}

AnswerRev == IF tracks THEN rev ELSE NoRev
Unchanged == [kind |-> "unchanged", rev |-> AnswerRev]
Full(r) == [kind |-> "full", rev |-> AnswerRev, tree |-> Seen(r)]
Diff(r, i) == [kind |-> "diff", rev |-> AnswerRev, base |-> r[i].tree, tree |-> Seen(r)]

\* Fault: an evicted revision is answered with a diff against the oldest one kept.
SnapshotAnswerOldest(r, since) ==
    IF since = NoRev \/ ~tracks THEN Full(r)
    ELSE IF since = rev THEN Unchanged
    ELSE Diff(Refreshed(r), 1)

\* snapshot_response (r is the ring before cache.snapshot refreshes it).
SnapshotAnswer(r, since) ==
    IF since = NoRev \/ ~tracks THEN Full(r)
    ELSE IF since = rev THEN Unchanged
    ELSE IF Holding(Refreshed(r), since) = {} THEN Full(r)
    ELSE Diff(Refreshed(r), CHOOSE i \in Holding(Refreshed(r), since) : TRUE)

ServeSnapshot(c) ==
    /\ wire[c].kind = "snapshot"
    /\ ring' = [ring EXCEPT ![c] = Kept(Refreshed(@))]
    /\ wire' = [wire EXCEPT ![c] = SnapshotAnswer(ring[c], wire[c].since)]
    /\ UNCHANGED <<hostVars, known>>

\* Fault: only the target's presence is tested.
ActPassesIfPresent(c) == Fingerprint(Seen(ring[c]), wire[c].target) # Gone

\* The gate of handle_request_cached: the target's fingerprint, in this very call.
ActPasses(c) == Fingerprint(Seen(ring[c]), wire[c].target) = wire[c].expect

\* stale_target or target_gone: nothing is dispatched.
RefuseAct(c) ==
    /\ wire[c].kind = "act" /\ ~wire[c].virtual
    /\ ~ActPasses(c)
    /\ ring' = [ring EXCEPT ![c] = Kept(Refreshed(@))]
    /\ wire' = [wire EXCEPT ![c] = [kind |-> "stale"]]
    /\ UNCHANGED <<hostVars, known>>

DispatchAct(c, new) ==
    /\ wire[c].kind = "act" /\ ~wire[c].virtual
    /\ ActPasses(c)
    /\ ring' = [ring EXCEPT ![c] = Kept(Refreshed(@))]
    /\ wire' = [wire EXCEPT ![c] = [kind |-> "acted"]]
    /\ Change(new)
    /\ UNCHANGED known

\* dispatch_virtual: the pointer goes to the target's bounds; no gate.
DispatchVirtual(c, new) ==
    /\ wire[c].kind = "act" /\ wire[c].virtual
    /\ Fingerprint(tree, wire[c].target) # Gone
    /\ wire' = [wire EXCEPT ![c] = [kind |-> "acted"]]
    /\ Change(new)
    /\ UNCHANGED <<ring, known>>

\* plan_click finds no bounds: the target is gone.
MissVirtual(c) ==
    /\ wire[c].kind = "act" /\ wire[c].virtual
    /\ Fingerprint(tree, wire[c].target) = Gone
    /\ wire' = [wire EXCEPT ![c] = [kind |-> "stale"]]
    /\ UNCHANGED <<hostVars, ring, known>>

-----------------------------------------------------------------------------
(* The client                                                              *)

\* A diff is a patch of the tree the client asked about.
Applied(k, answer) ==
    CASE answer.kind = "unchanged" -> k
      [] answer.kind = "full" -> [rev |-> answer.rev, tree |-> answer.tree]
      [] answer.kind = "diff" ->
            [rev |-> answer.rev,
             tree |-> IF answer.base = k.tree THEN answer.tree ELSE Torn]
      [] OTHER -> k

Receive(c) ==
    /\ wire[c].kind \in {"unchanged", "full", "diff", "stale", "acted"}
    /\ known' = [known EXCEPT ![c] = Applied(@, wire[c])]
    /\ wire' = [wire EXCEPT ![c] = Idle]
    /\ UNCHANGED <<hostVars, ring>>

\* The connection is lost at any point and opened again: a new TreeCache, and the
\* client keeps what it knew.
Reconnect(c) ==
    /\ ring' = [ring EXCEPT ![c] = <<>>]
    /\ wire' = [wire EXCEPT ![c] = Idle]
    /\ UNCHANGED <<hostVars, known>>

-----------------------------------------------------------------------------
Session(c) ==
    \/ \E since \in {NoRev, known[c].rev} : AskSnapshot(c, since)
    \/ \E target \in Target, virtual \in BOOLEAN : AskAct(c, target, virtual)
    \/ Look(c)
    \/ ServeSnapshot(c)
    \/ RefuseAct(c)
    \/ MissVirtual(c)
    \/ \E new \in Tree : DispatchAct(c, new) \/ DispatchVirtual(c, new)
    \/ Receive(c)
    \/ Reconnect(c)

Next ==
    \/ \E new \in Tree : HostChange(new)
    \/ \E c \in Conn : Session(c)

Spec == Init /\ [][Next]_vars

-----------------------------------------------------------------------------
(* Properties                                                              *)

Answers == {"unchanged", "full", "diff"}

WireOK(m) ==
    /\ m.kind \in Answers \cup {"idle", "snapshot", "act", "stale", "acted"}
    /\ m.kind = "snapshot" => m.since \in Nat \cup {NoRev}
    /\ m.kind = "act" => m.virtual \in BOOLEAN /\ m.target \in Target
    /\ m.kind \in Answers => m.rev \in Nat \cup {NoRev}
    /\ m.kind \in {"full", "diff"} => m.tree \in Tree

RingOK(r) ==
    /\ r \in Seq(Entry)
    /\ Len(r) <= RevRingDepth
    /\ \A i \in 1..Len(r) : r[i].rev <= rev
    /\ \A i, j \in 1..Len(r) : i < j => r[i].rev < r[j].rev

\* Every connection's ring is at most REV_RING_DEPTH trees, oldest revision first,
\* and no revision is in it twice: tree_at finds the one tree it can find.
SessionTypeOK ==
    /\ mailboxHost \in BOOLEAN
    /\ tracks \in BOOLEAN
    /\ tree \in Tree
    /\ rev \in Nat
    /\ was \in Seq(Tree) /\ Len(was) = rev + 1
    /\ DOMAIN ring = Conn
    /\ \A c \in Conn : RingOK(ring[c])
    /\ DOMAIN wire = Conn
    /\ \A c \in Conn : WireOK(wire[c])
    /\ known \in [Conn -> [rev : Nat \cup {NoRev}, tree : Tree \cup {NoTree, Torn}]]

\* "Never lie: a stale Some revision makes `snapshot since` diffs wrong": what a
\* client has put together from full trees, diffs and "unchanged" is the tree the
\* host had at that revision, whatever happened between request and answer.
ClientTreeTrue ==
    \A c \in Conn : known[c].rev # NoRev => known[c].tree = was[known[c].rev + 1]

MatchesAsDispatched(c) ==
    wire'[c].kind = "acted" => Fingerprint(tree, wire[c].target) = wire[c].expect

\* The gate of a semantic op lets it through exactly when the target still has the
\* expected fingerprint in the host's tree of that moment.
GateExact ==
    [][\A c \in Conn :
         wire[c].kind = "act" /\ ~wire[c].virtual =>
           /\ MatchesAsDispatched(c)
           /\ wire'[c].kind = "stale" =>
                Fingerprint(tree, wire[c].target) # wire[c].expect]_vars

\* "an agent cannot click a node that moved, renamed, or re-rendered since it last
\* observed", whichever way the click is delivered.
NoStaleClick ==
    [][\A c \in Conn : wire[c].kind = "act" => MatchesAsDispatched(c)]_vars
=============================================================================

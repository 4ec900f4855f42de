------------------------------ MODULE AgentHost ------------------------------
(***************************************************************************)
(* What the server assumes of an AgentHost that reports revisions          *)
(* (crates/gpui-agent/src/host.rs, revision): the counter never goes back, *)
(* and it moves with every change of the tree.  It may also move alone.    *)
(***************************************************************************)
EXTENDS Naturals

VARIABLES tree, rev

HostStep ==
    /\ rev' >= rev
    /\ tree' # tree => rev' > rev

HostSpec == rev \in Nat /\ [][HostStep]_<<tree, rev>>
=============================================================================

----------------------------- MODULE ActionSpace -----------------------------
(***************************************************************************)
(* action_space.rs: the finite set of actions a policy may choose from for  *)
(* one observed tree, and the evidence the policy reads from the same tree. *)
(*                                                                         *)
(* A tree maps the ids of its nodes to [role, parent, enabled, visible,     *)
(* label, value]; a label is a set of words, a value one literal.  An offer *)
(* is [kind, target], the ActionId.                                         *)
(***************************************************************************)
EXTENDS Naturals, Sequences, FiniteSets

CONSTANTS Keybindings,   \* the catalog: binding -> [label, dangerous]
          Invokes        \* the invoke schemas: name -> [label, dangerous]

Root == "root"           \* the parent of a window
Clickable == {"button", "link", "tab", "checkbox", "switch"}
Controls == {"DONE", "BLOCKED", "WAIT"}
NodeKinds == {"CLICK", "TYPE", "SET_VALUE", "KEY"}

\* A node under a hidden or disabled one is as good as hidden itself
Viable(tree, id) ==
    LET up[n \in DOMAIN tree] ==
          /\ tree[n].enabled /\ tree[n].visible
          /\ tree[n].parent # Root => up[tree[n].parent]
    IN up[id]

NodeOffers(tree, id) ==
    LET node == tree[id]
        kinds == IF node.role = "textbox" THEN {"TYPE", "SET_VALUE", "KEY"}
                 ELSE IF \/ node.role \in Clickable
                         \/ /\ node.role = "list_item" /\ node.parent # Root
                            /\ tree[node.parent].role = "navigation"
                      THEN {"CLICK"} ELSE {}
    IN {[kind |-> k, target |-> id] : k \in kinds}

\* ActionSpace::from_tree
Offers(tree) ==
    UNION {NodeOffers(tree, id) : id \in {n \in DOMAIN tree : Viable(tree, n)}}
    \union {[kind |-> "KEYBINDING", target |-> b] : b \in DOMAIN Keybindings}
    \union {[kind |-> "INVOKE", target |-> i] : i \in DOMAIN Invokes}
    \union {[kind |-> c, target |-> Root] : c \in Controls}

TargetsOf(offers, kind) == {a \in offers : a.kind = kind}

\* Bindings and schemas marked dangerous are offered; no node is
Dangerous(offer) ==
    \/ offer.kind = "KEYBINDING" /\ Keybindings[offer.target].dangerous
    \/ offer.kind = "INVOKE" /\ Invokes[offer.target].dangerous

LabelOf(tree, offer) ==
    CASE offer.kind = "KEY"         -> tree[offer.target].label \union {"submit"}
      [] offer.kind \in NodeKinds   -> tree[offer.target].label
      [] offer.kind = "KEYBINDING"  -> Keybindings[offer.target].label
      [] offer.kind = "INVOKE"      -> Invokes[offer.target].label
      [] OTHER                      -> {}

\* The fingerprint an offer carries: the node and its parent as they were seen
FingerprintIn(tree, offer) == tree[offer.target]

\* literal_in_label: the literal names something on screen, not just a draft
LiteralInLabel(tree, lit) ==
    \E n \in DOMAIN tree : Viable(tree, n) /\ lit \in tree[n].label

\* Runner::on_screen: a node that is itself visible carries the words
OnScreen(tree, words) ==
    \E n \in DOMAIN tree : tree[n].visible /\ words \subseteq tree[n].label
=============================================================================

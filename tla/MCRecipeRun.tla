----------------------------- MODULE MCRecipeRun -----------------------------
(***************************************************************************)
(* Recipes of one to four steps for RecipeRun: file order, a wide wave of   *)
(* reads that takes two chunks, mixed waves, exits by shutdown and by a     *)
(* parameter, and the refusals.                                             *)
(***************************************************************************)
EXTENDS RecipeRun

MCParams == {"$b"}
MCQuit == {"ctrl-q"}

Schema(kind, effects, idem) == [kind |-> kind, effects |-> effects, idempotent |-> idem]

MCRegistry ==
    "snapshot"   :> Schema("protocol", {"read"}, TRUE) @@
    "assert"     :> Schema("protocol", {"read"}, TRUE) @@
    "click"      :> Schema("protocol", {"write"}, FALSE) @@
    "keybinding" :> Schema("protocol", {"write"}, FALSE) @@
    "invoke"     :> Schema("protocol", {"write"}, FALSE) @@
    "shutdown"   :> Schema("protocol", {"exit"}, FALSE) @@
    "nav.where"  :> Schema("invoke", {"read"}, TRUE)

Op(op, arg) == [op |-> op, arg |-> arg, confirm |-> FALSE]
Step(id, needs, op) == [id |-> id, needs |-> needs, op |-> op, shot |-> id = 2]

Read  == Op("snapshot", "")
Check == Op("assert", "")
Write == Op("click", "")

Recipe(steps) == [recipe |-> [params |-> {}, steps |-> steps], set |-> <<>>]
WithParam(steps, binding) ==
    [recipe |-> [params |-> {"$b"}, steps |-> steps], set |-> ("$b" :> binding)]

InOrder == Recipe(<<Step(3, <<>>, Write), Step(2, <<>>, Read), Step(1, <<>>, Write)>>)

Wide == Recipe(<<Step(5, <<1, 2>>, Write), Step(1, <<>>, Read), Step(2, <<>>, Check),
                 Step(3, <<>>, Op("invoke", "nav.where"))>>)

Mixed == Recipe(<<Step(2, <<>>, Write), Step(1, <<>>, Op("events", "")),
                  Step(4, <<1, 1>>, Read), Step(3, <<2, 4>>, Write)>>)

Bound(b) == WithParam(<<Step(1, <<>>, Read), Step(2, <<1>>, Op("keybinding", "$b"))>>, b)

Closing == Recipe(<<Step(2, <<1>>, Op("shutdown", "")), Step(1, <<>>, Read)>>)

Cyclic  == Recipe(<<Step(1, <<2>>, Read), Step(2, <<1>>, Read)>>)
Unknown == Recipe(<<Step(1, <<7>>, Read)>>)
Unset   == [WithParam(<<Step(1, <<>>, Op("keybinding", "$b"))>>, "x") EXCEPT !.set = <<>>]

MCRecipes == {InOrder, Wide, Mixed, Bound("ctrl-q"), Bound("ctrl-s"), Closing,
              Cyclic, Unknown, Unset}
=============================================================================

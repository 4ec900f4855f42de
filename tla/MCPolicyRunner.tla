--------------------------- MODULE MCPolicyRunner ---------------------------
(***************************************************************************)
(* A window with a field, an Add button and a panel holding a Delete        *)
(* button.  The field holds nothing or the goal's text; the panel is shown, *)
(* hidden or gone.                                                          *)
(***************************************************************************)
EXTENDS ActTool

MCKeybindings == ("quit" :> [label |-> {"quit"}, dangerous |-> TRUE])
MCInvokes == [i \in {} |-> i]

Node(role, parent, visible, label, value) ==
    [role |-> role, parent |-> parent, enabled |-> TRUE, visible |-> visible,
     label |-> label, value |-> value]

Window(text) ==
    "field" :> Node("textbox", Root, TRUE, {"title"}, text)

Panel(visible) ==
    "panel" :> Node("group", Root, visible, {"list"}, "") @@
    "del" :> Node("button", "panel", TRUE, {"delete", "milk"}, "")

MCTrees == {Window("milk"), Window("milk") @@ Panel(TRUE),
            Window("") @@ Panel(TRUE), Window("") @@ Panel(FALSE)}

Add    == [mode |-> "act", verb |-> "add", object |-> {}, lits |-> {"milk"}]
Delete == [mode |-> "act", verb |-> "delete", object |-> {"milk"}, lits |-> {}]
Other  == [mode |-> "act", verb |-> "delete", object |-> {"bread"}, lits |-> {}]
Await  == [mode |-> "wait", verb |-> "wait", object |-> {"milk"}, lits |-> {}]

Setup(tool, goal, endpoint, exits) ==
    [tool |-> tool, goal |-> goal, endpoint |-> endpoint, exits |-> exits,
     delivery |-> "semantic", window |-> FALSE]

\* `act` with a delivery of the caller's choice, to the window or another host
ActSetup(goal, window) ==
    [Setup("act", goal, FALSE, TRUE) EXCEPT !.delivery = "virtual", !.window = window]

\* Two goals of two clauses without an endpoint; one clause with an endpoint that
\* answers and exits, and with one that answers and stays; the tool, for a field
\* and for a button, and with virtual delivery where it works and where not
MCProfiles ==
    {Setup("run", <<Add, Await>>, FALSE, TRUE), Setup("run", <<Delete, Other>>, FALSE, TRUE),
     Setup("run", <<Delete>>, TRUE, TRUE), Setup("run", <<Delete>>, TRUE, FALSE),
     Setup("act", <<Add>>, FALSE, TRUE), Setup("act", <<Delete>>, FALSE, TRUE),
     ActSetup(<<Add>>, TRUE), ActSetup(<<Delete>>, TRUE), ActSetup(<<Add>>, FALSE)}
=============================================================================

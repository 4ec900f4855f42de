------------------------------ MODULE TodoStore ------------------------------
(***************************************************************************)
(* The demo application's state and the operations an agent or a human     *)
(* reaches it by (crates/todo-core/src/lib.rs).  `store` is the TodoStore  *)
(* struct; an operation is an operator from one store to the next, and an  *)
(* operation that answers Err leaves the store as it was.                  *)
(***************************************************************************)
EXTENDS Naturals, Sequences, SequencesExt

CONSTANTS
    Text,          \* what a draft or a title may hold
    Empty,         \* ""
    Trimmed,       \* str::trim, on Text
    MaxTodos,      \* bound: todos created
    MaxRev,        \* bound: changes explored
    NavGo          \* invoke "nav.go" is among the operations served

ASSUME StoreAssumption ==
    /\ Empty \in Text
    /\ Trimmed \in [Text -> Text]
    /\ MaxTodos \in Nat
    /\ MaxRev \in Nat
    /\ NavGo \in BOOLEAN

VARIABLE store

Page == {"todos", "settings"}
Todo == [id : Nat \ {0}, title : Text \ {Empty}, done : BOOLEAN]

\* TodoStore::new
NewStore ==
    [items |-> <<>>, nextId |-> 1, draft |-> Empty, page |-> "todos",
     confirmDelete |-> FALSE, sidebarOpen |-> TRUE,
     shutdown |-> FALSE, focused |-> FALSE, rev |-> 0]

Ids(s) == {s.items[k].id : k \in DOMAIN s.items}
At(s, id) == CHOOSE k \in DOMAIN s.items : s.items[k].id = id

-----------------------------------------------------------------------------
(* Operations                                                              *)

\* bump_revision
Bump(s) == [s EXCEPT !.rev = @ + 1]

Go(s, page) == Bump([s EXCEPT !.page = page])
ToggleConfirmDelete(s) == Bump([s EXCEPT !.confirmDelete = ~@])
ToggleSidebar(s) == Bump([s EXCEPT !.sidebarOpen = ~@])
SetDraft(s, text) == Bump([s EXCEPT !.draft = text])

\* Fault: the next id taken from the number of todos.
AddByLength(s, title) ==
    IF Trimmed[title] = Empty THEN s
    ELSE Bump([s EXCEPT
           !.items = Append(@, [id |-> Len(@) + 1, title |-> Trimmed[title], done |-> FALSE]),
           !.nextId = @ + 1,
           !.draft = Empty])

\* A blank title is an error; a todo added by anyone clears the draft.
Add(s, title) ==
    IF Trimmed[title] = Empty THEN s
    ELSE Bump([s EXCEPT
           !.items = Append(@, [id |-> s.nextId, title |-> Trimmed[title], done |-> FALSE]),
           !.nextId = @ + 1,
           !.draft = Empty])

\* Fault: the checkbox changes and the revision does not.
ToggleUnbumped(s, id) ==
    IF id \in Ids(s) THEN [s EXCEPT !.items[At(s, id)].done = ~@] ELSE s

Toggle(s, id) ==
    IF id \in Ids(s) THEN Bump([s EXCEPT !.items[At(s, id)].done = ~@]) ELSE s

Delete(s, id) ==
    IF id \in Ids(s) THEN Bump([s EXCEPT !.items = RemoveAt(@, At(s, id))]) ELSE s

\* invoke "nav.go" assigns the page and returns.
InvokeNavGo(s, page) == [s EXCEPT !.page = page]

\* fire_keybinding on a headless host, authorize_keybinding having let it through.
FocusInput(s, activate) ==
    IF s.focused \/ activate
    THEN Bump([s EXCEPT !.page = "todos", !.focused = @ \/ activate])
    ELSE s
GoSettings(s) == Bump([s EXCEPT !.page = "settings"])
Quit(s, confirm) == IF confirm THEN Bump([s EXCEPT !.shutdown = TRUE]) ELSE s

\* Op::Shutdown
Shutdown(s) == [s EXCEPT !.shutdown = TRUE]

\* set_app_focused, by the embedder
SetFocused(s, focused) == [s EXCEPT !.focused = focused]

-----------------------------------------------------------------------------
(* The tree (TodoStore::tree): what the other page holds is not in it.     *)

TreeOf(s) ==
    [sidebar |-> s.sidebarOpen,
     page |-> s.page,
     body |-> IF s.page = "todos"
              THEN [items |-> s.items, draft |-> s.draft]
              ELSE [confirmDelete |-> s.confirmDelete]]

-----------------------------------------------------------------------------
(* The operations served, one by one                                       *)

Apply(new) == new # store /\ store' = new

Adding == \E title \in Text : store.nextId <= MaxTodos /\ Apply(Add(store, title))
AddingDraft == store.nextId <= MaxTodos /\ Apply(Add(store, store.draft))
Drafting == \E text \in Text : Apply(SetDraft(store, text))
Toggling == \E id \in 1..MaxTodos : Apply(Toggle(store, id))
Deleting == \E id \in 1..MaxTodos : Apply(Delete(store, id))
Navigating == \E page \in Page : Apply(Go(store, page))
Invoking == NavGo /\ \E page \in Page : Apply(InvokeNavGo(store, page))
Configuring == Apply(ToggleConfirmDelete(store)) \/ Apply(ToggleSidebar(store))
Firing ==
    \/ \E activate \in BOOLEAN : Apply(FocusInput(store, activate))
    \/ Apply(GoSettings(store))
    \/ \E confirm \in BOOLEAN : Apply(Quit(store, confirm))
Focusing == \E focused \in BOOLEAN : Apply(SetFocused(store, focused))
ShuttingDown == Apply(Shutdown(store))

StoreInit == store = NewStore

StoreNext ==
    /\ store.rev < MaxRev
    /\ \/ Adding \/ AddingDraft \/ Drafting \/ Toggling \/ Deleting
       \/ Navigating \/ Invoking \/ Configuring \/ Firing \/ Focusing \/ ShuttingDown

StoreSpec == StoreInit /\ [][StoreNext]_store

-----------------------------------------------------------------------------
(* Properties                                                              *)

\* The struct's types; todos are in the order of their ids, all below next_id.
StoreTypeOK ==
    /\ store \in [items : Seq(Todo), nextId : Nat \ {0}, draft : Text, page : Page,
                  confirmDelete : BOOLEAN, sidebarOpen : BOOLEAN,
                  shutdown : BOOLEAN, focused : BOOLEAN, rev : Nat]
    /\ \A k \in DOMAIN store.items : store.items[k].id < store.nextId
    /\ \A k, l \in DOMAIN store.items : k < l => store.items[k].id < store.items[l].id

\* A todo's id names that todo for good: once deleted it never comes back, and its
\* title never becomes another's, so a late click on todo-delete-<id> hits the todo
\* it was meant for or none.
IdsAreForGood ==
    [][\A id \in 1..(store.nextId - 1) :
         /\ id \notin Ids(store) => id \notin Ids(store')
         /\ id \in Ids(store) /\ id \in Ids(store') =>
              store.items[At(store, id)].title = store'.items[At(store', id)].title]_store

Contract == INSTANCE AgentHost WITH tree <- TreeOf(store), rev <- store.rev

\* The store keeps AgentHost's contract: "bumped by every mutator that can change
\* the tree -- items, draft, page, sidebar, settings, shutdown".
HostContract == Contract!HostSpec
=============================================================================

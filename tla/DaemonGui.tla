------------------------------ MODULE DaemonGui ------------------------------
(***************************************************************************)
(* The desktop window as a client of the headless daemon (ADR-001):        *)
(* apps/todo/src/daemon_bridge.rs and the client half of app.rs.           *)
(*                                                                         *)
(* A human types and clicks in the window, which posts commands to a       *)
(* worker thread; the worker calls the daemon for one command per turn,    *)
(* then asks it for a snapshot; a frame shows the last view received.      *)
(* Agents drive the same daemon.  `store` is the daemon's, of TodoStore.   *)
(*                                                                         *)
(* The daemon answers a request once it has the host's lock, which a       *)
(* wait_until of another connection holds for as long as it waits: a call  *)
(* may time out and still be carried out later, and a call whose           *)
(* connection broke is made again (client.rs, roundtrip_retry).            *)
(***************************************************************************)
EXTENDS TodoStore

CONSTANTS
    MaxSent,       \* bound: commands the human posts
    MaxViews,      \* bound: views waiting for a frame
    MaxFaults,     \* bound: calls lost and daemon restarts
    Restarts,      \* the daemon may be restarted; nothing of it is persisted
    AgentsEdit     \* agents add todos and write the draft as well

ASSUME GuiAssumption ==
    /\ MaxSent \in Nat
    /\ MaxViews \in Nat \ {0}
    /\ MaxFaults \in Nat
    /\ Restarts \in BOOLEAN
    /\ AgentsEdit \in BOOLEAN

VARIABLES
    input,         \* the text field of the window
    view,          \* TodoApp::view, the last snapshot applied
    daemonError,   \* TodoApp::daemon_error is some
    cmds,          \* channel to the worker
    views,         \* channel from the worker
    stage,         \* what the worker does: "turn", "call" or "snapshot"
    call,          \* the command being called
    late,          \* commands whose caller gave up or tried again, not yet carried out
    faults,
    sent,          \* commands posted
    entered,       \* history: titles the human entered
    added          \* history: titles of the todos created in this life of the daemon

gui == <<input, view, daemonError>>
worker == <<cmds, views, stage, call>>
vars == <<store, input, view, daemonError, cmds, views, stage, call, late,
          faults, sent, entered, added>>

Kinds == {"set_value", "add", "toggle", "delete",
          "go_todos", "go_settings", "toggle_sidebar", "toggle_confirm"}
Cmd == [kind : Kinds, id : Nat, text : Text]
Post(kind) == [kind |-> kind, id |-> 0, text |-> Empty]
NoCmd == Post("add")

\* TodoView::from_tree
View(s) ==
    [page |-> s.page,
     items |-> IF s.page = "todos" THEN s.items ELSE <<>>,
     draft |-> IF s.page = "todos" THEN s.draft ELSE Empty,
     confirmDelete |-> s.page = "settings" /\ s.confirmDelete,
     sidebarOpen |-> s.sidebarOpen]

\* TodoView::default
DefaultView == View(NewStore)

Ok(v) == [ok |-> TRUE, view |-> v]
Err == [ok |-> FALSE, view |-> DefaultView]

Init ==
    /\ StoreInit
    /\ input = Empty
    /\ view = DefaultView
    /\ daemonError = FALSE
    /\ cmds = <<>>
    /\ views = <<>>
    /\ stage = "turn"
    /\ call = NoCmd
    /\ late = <<>>
    /\ faults = 0
    /\ sent = 0
    /\ entered = <<>>
    /\ added = <<>>

-----------------------------------------------------------------------------
(* The window                                                              *)

Posted(new) ==
    /\ sent + Len(new) <= MaxSent
    /\ sent' = sent + Len(new)
    /\ cmds' = cmds \o new

\* The field is on the todos page.
HumanTypes ==
    /\ view.page = "todos"
    /\ \E text \in Text \ {input} : input' = text
    /\ UNCHANGED <<store, view, daemonError, worker, late, faults, sent, entered, added>>

\* Fault: the click on Add goes before the value.
EnterClicksFirst ==
    /\ view.page = "todos"
    /\ Trimmed[input] # Empty
    /\ Posted(<<Post("add"), [Post("set_value") EXCEPT !.text = input]>>)
    /\ entered' = Append(entered, Trimmed[input])
    /\ input' = Empty
    /\ UNCHANGED <<store, view, daemonError, views, stage, call, late, faults, added>>

\* add_from_input: the field is cleared as the two commands are posted.
HumanEnters ==
    /\ view.page = "todos"
    /\ Trimmed[input] # Empty
    /\ Posted(<<[Post("set_value") EXCEPT !.text = input], Post("add")>>)
    /\ entered' = Append(entered, Trimmed[input])
    /\ input' = Empty
    /\ UNCHANGED <<store, view, daemonError, views, stage, call, late, faults, added>>

\* What the last view offers to click; a row's command remembers the title shown.
Clickable ==
    {Post("toggle_sidebar")}
    \cup (IF view.sidebarOpen THEN {Post("go_todos"), Post("go_settings")} ELSE {})
    \cup (IF view.page = "settings" THEN {Post("toggle_confirm")} ELSE {})
    \cup {[kind |-> kind, id |-> view.items[k].id, text |-> view.items[k].title] :
            kind \in {"toggle", "delete"}, k \in DOMAIN view.items}

HumanClicks ==
    /\ \E cmd \in Clickable : Posted(<<cmd>>)
    /\ UNCHANGED <<store, gui, views, stage, call, late, faults, entered, added>>

\* apply_daemon, as a frame is drawn: of the views received only the last counts.
GuiFrame ==
    /\ views # <<>>
    /\ LET got == Last(views) IN
         /\ daemonError' = ~got.ok
         /\ view' = IF got.ok THEN got.view ELSE view
         /\ input' = IF got.ok /\ view.page = "todos" /\ got.view.draft = Empty
                     THEN Empty ELSE input
    /\ views' = <<>>
    /\ UNCHANGED <<store, cmds, stage, call, late, faults, sent, entered, added>>

-----------------------------------------------------------------------------
(* The daemon                                                              *)

\* TodoStore::click and set_value, for what the window sends.
Served(s, cmd) ==
    CASE cmd.kind = "set_value" -> SetDraft(s, cmd.text)
      [] cmd.kind = "add" -> Add(s, s.draft)
      [] cmd.kind = "toggle" -> Toggle(s, cmd.id)
      [] cmd.kind = "delete" -> Delete(s, cmd.id)
      [] cmd.kind = "go_todos" -> Go(s, "todos")
      [] cmd.kind = "go_settings" -> Go(s, "settings")
      [] cmd.kind = "toggle_sidebar" -> ToggleSidebar(s)
      [] cmd.kind = "toggle_confirm" -> ToggleConfirmDelete(s)

\* The todo a step creates, if it does.
Recorded ==
    added' = IF store'.nextId > store.nextId
             THEN Append(added, Last(store'.items).title) ELSE added

\* A request whose caller has gone gets the host's lock, in no particular order.
ServeLate ==
    /\ \E k \in DOMAIN late :
         /\ store' = Served(store, late[k])
         /\ late' = RemoveAt(late, k)
    /\ Recorded
    /\ UNCHANGED <<gui, worker, faults, sent, entered>>

\* Another client of the daemon.
AgentActs ==
    /\ store.rev < MaxRev
    /\ \/ Toggling \/ Deleting \/ Navigating \/ Invoking \/ Configuring
       \/ AgentsEdit /\ (Adding \/ AddingDraft \/ Drafting)
    /\ Recorded
    /\ UNCHANGED <<gui, worker, late, faults, sent, entered>>

\* The operator starts todo-headless again.
DaemonRestarts ==
    /\ Restarts
    /\ faults < MaxFaults
    /\ faults' = faults + 1
    /\ store' = NewStore
    /\ late' = <<>>
    /\ added' = <<>>
    /\ UNCHANGED <<gui, worker, sent, entered>>

-----------------------------------------------------------------------------
(* The worker thread                                                       *)

\* The turn starts with at most one command.
WorkerTurn ==
    /\ stage = "turn"
    /\ Len(views) < MaxViews
    /\ IF cmds = <<>>
       THEN stage' = "snapshot" /\ UNCHANGED <<cmds, call>>
       ELSE stage' = "call" /\ call' = Head(cmds) /\ cmds' = Tail(cmds)
    /\ UNCHANGED <<store, gui, views, late, faults, sent, entered, added>>

ServeCall ==
    /\ stage = "call"
    /\ store' = Served(store, call)
    /\ Recorded
    /\ stage' = "snapshot"
    /\ call' = NoCmd
    /\ UNCHANGED <<gui, cmds, views, late, faults, sent, entered>>

ServeSnapshot ==
    /\ stage = "snapshot"
    /\ views' = Append(views, Ok(View(store)))
    /\ stage' = "turn"
    /\ UNCHANGED <<store, gui, cmds, call, late, faults, sent, entered, added>>

\* The connection breaks within the timeout: the call, which the daemon may have
\* received, is made again.
CallRetried ==
    /\ stage = "call"
    /\ faults < MaxFaults
    /\ faults' = faults + 1
    /\ late' = Append(late, call)
    /\ UNCHANGED <<store, gui, worker, sent, entered, added>>

\* Fault: the worker returns on an error.
CallFailsForGood ==
    /\ stage = "call"
    /\ faults < MaxFaults
    /\ faults' = faults + 1
    /\ \E reached \in BOOLEAN : late' = IF reached THEN Append(late, call) ELSE late
    /\ views' = Append(views, Err)
    /\ stage' = "done"
    /\ call' = NoCmd
    /\ UNCHANGED <<store, gui, cmds, sent, entered, added>>

\* The timeout passes: the command is gone, whether or not the daemon received it.
CallFails ==
    /\ stage = "call"
    /\ faults < MaxFaults
    /\ faults' = faults + 1
    /\ \E reached \in BOOLEAN : late' = IF reached THEN Append(late, call) ELSE late
    /\ views' = Append(views, Err)
    /\ stage' = "snapshot"
    /\ call' = NoCmd
    /\ UNCHANGED <<store, gui, cmds, sent, entered, added>>

SnapshotFails ==
    /\ stage = "snapshot"
    /\ faults < MaxFaults
    /\ faults' = faults + 1
    /\ views' = Append(views, Err)
    /\ stage' = "turn"
    /\ UNCHANGED <<store, gui, cmds, call, late, sent, entered, added>>

Next ==
    \/ HumanTypes \/ HumanEnters \/ HumanClicks \/ GuiFrame
    \/ ServeLate \/ AgentActs \/ DaemonRestarts
    \/ WorkerTurn \/ ServeCall \/ ServeSnapshot
    \/ CallRetried \/ CallFails \/ SnapshotFails

Spec == Init /\ [][Next]_vars

\* The worker loops every 150 ms and so does the window's refresh timer; the
\* daemon's lock is released in the end.
FairSpec ==
    /\ Spec
    /\ WF_vars(WorkerTurn \/ ServeCall \/ ServeSnapshot)
    /\ WF_vars(GuiFrame)
    /\ WF_vars(ServeLate)

-----------------------------------------------------------------------------
(* Properties                                                              *)

ViewType ==
    [page : Page, items : Seq(Todo), draft : Text,
     confirmDelete : BOOLEAN, sidebarOpen : BOOLEAN]

\* The types; the worker holds a command while it calls and only then, no call is late
\* but by a fault, and no blank title is entered or created.
GuiTypeOK ==
    /\ StoreTypeOK
    /\ input \in Text
    /\ view \in ViewType
    /\ daemonError \in BOOLEAN
    /\ cmds \in Seq(Cmd)
    /\ views \in Seq([ok : BOOLEAN, view : ViewType])
    /\ Len(views) <= MaxViews + 1
    /\ stage \in {"turn", "call", "snapshot"}
    /\ call \in Cmd
    /\ stage # "call" => call = NoCmd
    /\ late \in Seq(Cmd)
    /\ Len(late) <= faults
    /\ faults \in 0..MaxFaults
    /\ sent \in 0..MaxSent
    /\ {entered, added} \subseteq Seq(Text \ {Empty})

\* Commands that still reach the daemon, in order
Coming == (IF stage = "call" THEN <<call>> ELSE <<>>) \o cmds

\* A title half way: its set_value is carried out, its click on Add comes next.
Drafted ==
    IF Coming # <<>> /\ Head(Coming).kind = "add" THEN <<Trimmed[store.draft]>> ELSE <<>>

\* The titles es are first, then those that the commands cs set, in their order.
MadeOf(es, first, cs) ==
    LET sets == {k \in DOMAIN cs : cs[k].kind = "set_value"}
    IN /\ IsPrefix(first, es)
       /\ \E at \in Bijection(sets, (Len(first) + 1)..Len(es)) :
            /\ \A k, l \in sets : k < l => at[k] < at[l]
            /\ \A k \in sets : es[at[k]] = Trimmed[cs[k].text]

\* No call lost and no agent writing the draft: what the human enters becomes todos,
\* each once and in order, although a title travels as two commands (set_value, then
\* a click on Add that adds whatever the daemon's draft holds) with snapshots, frames,
\* clicks and agents' navigation in between.
TitlesInOrder == MadeOf(entered, added \o Drafted, Coming)

\* A click on a row is carried out on the todo whose title the row showed, or on none:
\* it waits in the channel while agents delete and add todos.
ClicksMeanWhatWasShown ==
    \A cmd \in Range(cmds) \cup {call} \cup Range(late) :
      cmd.kind \in {"toggle", "delete"} /\ cmd.id \in Ids(store) =>
        store.items[At(store, cmd.id)].title = cmd.text

\* "an open GUI updates because it is a client of that same source of truth"
\* (docs/ADR-001-daemon-sot.md): once the daemon's state stays, the window shows it
\* for good with no error left, whatever calls failed and restarts there were.
WindowCatchesUp ==
    <>[][View(store') = View(store)]_store
      => <>[](view = View(store) /\ ~daemonError)

\* apply_daemon: "Only push daemon draft when an agent typed; skip if it matches after
\* our own clear".  With no agent writing the draft, the window's text is cleared only
\* by its own Enter or by the human.
TypingKept ==
    [][input' # input =>
         HumanTypes \/ HumanEnters]_vars
=============================================================================

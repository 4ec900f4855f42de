------------------------------ MODULE Discovery ------------------------------
(***************************************************************************)
(* Finding a running host: discovery.rs, used by every host that listens    *)
(* and every `gpui-agent --connect`.  Hosts leave a record in a directory   *)
(* when they listen; commands read, probe and prune the records; the choice *)
(* is kept in session.json for `--connect last`.  Hosts crash, and all of   *)
(* it runs concurrently in separate processes.                              *)
(*                                                                         *)
(* A process id is used once.  A record is [pid, port, app]; its file name  *)
(* is its pid and port.                                                     *)
(***************************************************************************)
EXTENDS Naturals, FiniteSets

CONSTANTS
    Pids,           \* processes that may host, each started once
    Ports, Apps,
    Ids,            \* what --connect may be given, besides LAST_SESSION
    Exact(_, _),    \* Exact(app, id): the id is a bundle id, connect id, executable or app
    Basename(_, _), \* Basename(app, id): only the last part of the path is
    Clis,           \* commands that may run at the same time
    MaxCommands,
    MaxSlow         \* hosts whose answer to a probe may come too late

ASSUME DiscoveryAssumption ==
    {MaxCommands, MaxSlow} \subseteq Nat /\ "last" \notin Ids /\ "none" \notin Ids /\ "none" \notin Apps

VARIABLES
    proc,       \* pid -> [state, app, port]
    records,    \* the files of hosts/
    inode,      \* contents of the session files: a sequence number -> a session
    names,      \* [session, tmp]: what session.json and .session.json.tmp name, 0: nothing
    cli,        \* command -> its state, see IdleCli
    commands,   \* commands started
    slow        \* hosts that were taken for dead: a connect to them timed out

vars == <<proc, records, inode, names, cli, commands, slow>>

Nobody == "none"
LastSession == "last"
Torn == [id |-> "torn", port |-> 0]    \* no JSON: empty, or one record over another
Unset == [state |-> "new", app |-> Nobody, port |-> 0]
IdleCli == [pc |-> "idle", id |-> Nobody, saved |-> Torn, candidates |-> {}, open |-> {},
            steady |-> {}, fd |-> 0, result |-> Nobody, target |-> Torn, via |-> Nobody,
            there |-> {}]

Session(id, port) == [id |-> id, port |-> port]

Init ==
    /\ proc = [p \in Pids |-> Unset]
    /\ records = {} /\ inode = <<>>
    /\ names = [session |-> 0, tmp |-> 0]
    /\ cli = [c \in Clis |-> IdleCli]
    /\ commands = 0 /\ slow = {}

Listening(p) == proc[p].state \in {"bound", "writing", "listed", "unlisted"}
Alive(p) == proc[p].state \notin {"new", "gone"}
Listener(port) == {p \in Pids : Listening(p) /\ proc[p].port = port}
RecordOf(p) == [pid |-> p, port |-> proc[p].port, app |-> proc[p].app]

-----------------------------------------------------------------------------
(* Hosts                                                                    *)

Bind(p) ==
    /\ proc[p] = Unset
    /\ \E port \in Ports, app \in Apps :
          /\ Listener(port) = {}
          /\ proc' = [proc EXCEPT ![p] = [state |-> "bound", app |-> app, port |-> port]]
    /\ UNCHANGED <<records, inode, names, cli, commands, slow>>

\* Fault: the record is written in place, in two steps
PublishInPlace(p) ==
    /\ \/ /\ proc[p].state = "bound"
          /\ records' = records \union {[RecordOf(p) EXCEPT !.app = Nobody]}
          /\ proc' = [proc EXCEPT ![p].state = "writing"]
       \/ /\ proc[p].state = "writing"
          /\ records' = {IF r.pid = p THEN RecordOf(p) ELSE r : r \in records}
          /\ proc' = [proc EXCEPT ![p].state = "listed"]
    /\ UNCHANGED <<inode, names, cli, commands, slow>>

\* publish_record: a temporary file of its own, renamed.  A host that cannot
\* write it serves without
Publish(p) ==
    /\ proc[p].state = "bound"
    /\ \/ /\ records' = records \union {RecordOf(p)}
          /\ proc' = [proc EXCEPT ![p].state = "listed"]
       \/ /\ proc' = [proc EXCEPT ![p].state = "unlisted"] /\ UNCHANGED records
    /\ UNCHANGED <<inode, names, cli, commands, slow>>

\* No longer steady for the commands under way
Gone(p) == cli' = [c \in Clis |-> [cli[c] EXCEPT !.steady = @ \ {p}]]

\* PublishedHost is dropped before the listener is closed
Withdraw(p) ==
    /\ proc[p].state = "listed"
    /\ records' = records \ {RecordOf(p)}
    /\ proc' = [proc EXCEPT ![p].state = "unlisted"]
    /\ Gone(p) /\ UNCHANGED <<inode, names, commands, slow>>

\* The end of a process, in order or by a crash that leaves its record
Exit(p) ==
    /\ Alive(p) /\ proc' = [proc EXCEPT ![p].state = "gone"]
    /\ Gone(p) /\ UNCHANGED <<records, inode, names, commands, slow>>

-----------------------------------------------------------------------------
(* resolve_client_target                                                    *)

At(c, pc) == cli[c].pc = pc
Set(c, new) == cli' = [cli EXCEPT ![c] = new]
Ended(c, result) ==
    [IdleCli EXCEPT !.pc = "ended", !.result = result, !.via = cli[c].via,
                 !.target = cli[c].target, !.there = cli[c].there, !.steady = cli[c].steady]

\* --connect <id>, or --connect last with a session.json that can be read
StartCommand(c) ==
    /\ At(c, "idle") \/ At(c, "ended")
    /\ commands < MaxCommands /\ commands' = commands + 1
    /\ \/ \E id \in Ids : Set(c, [IdleCli EXCEPT !.pc = "load", !.id = id, !.via = "record"])
       \/ IF names.session # 0 /\ inode[names.session] # Torn
          THEN LET saved == inode[names.session]
               IN Set(c, [IdleCli EXCEPT !.pc = "load", !.id = saved.id, !.saved = saved,
                                      !.via = LastSession])
          ELSE Set(c, [IdleCli EXCEPT !.pc = "ended", !.result = "no_session"])
    /\ UNCHANGED <<proc, records, inode, names, slow>>

\* Exact matches, and only when there is none the basename ones
Candidates(live, id) ==
    LET exact == {r \in live : Exact(r.app, id)}
    IN IF exact # {} THEN exact ELSE {r \in live : Basename(r.app, id)}

\* load_live: files that are no record (app: none) and the records of dead
\* processes are removed
Live == {r \in records : r.app # Nobody /\ Alive(r.pid)}

Load(c) ==
    /\ At(c, "load") /\ records' = Live
    /\ LET found == Candidates(Live, cli[c].id)
       IN Set(c, [cli[c] EXCEPT !.pc = "probe", !.candidates = found,
                                !.steady = {r.pid : r \in found} \intersect
                                           {p \in Pids : proc[p].state = "listed"}])
    /\ UNCHANGED <<proc, inode, names, commands, slow>>

\* tcp_open on a candidate that answers
Probe(c) ==
    /\ At(c, "probe")
    /\ \E r \in cli[c].candidates :
          /\ Listener(r.port) # {}
          /\ Set(c, [cli[c] EXCEPT !.candidates = @ \ {r}, !.open = @ \union {r}])
    /\ UNCHANGED <<proc, records, inode, names, commands, slow>>

\* Nobody listens, or the host does and has not answered within PROBE_TIMEOUT:
\* the record loses its file
ProbeFails(c) ==
    /\ At(c, "probe")
    /\ \E r \in cli[c].candidates :
          /\ Set(c, [cli[c] EXCEPT !.candidates = @ \ {r}, !.steady = @ \ {r.pid}])
          /\ records' = records \ {r}
          /\ slow' = slow \union {p \in {r.pid} : Listening(p)}
    /\ Cardinality(slow') <= MaxSlow
    /\ UNCHANGED <<proc, inode, names, commands>>

\* The app the command will say it acts on, and the address
Target(c, state, app, port) ==
    [cli[c] EXCEPT !.pc = state, !.open = {}, !.target = [id |-> app, port |-> port]]

\* Fault: the first of several is taken
ResolvedFirst(c, open) ==
    \E r \in open : Set(c, Target(c, "save", r.app, r.port))

\* One open candidate is it; several are an error
Resolved(c, open) ==
    \E r \in open :
       Set(c, IF open = {r} THEN Target(c, "save", r.app, r.port)
              ELSE IF cli[c].via = LastSession THEN [cli[c] EXCEPT !.pc = "fallback"]
              ELSE Ended(c, "ambiguous"))

ResolvedNone(c) ==
    Set(c, IF cli[c].via = LastSession THEN [cli[c] EXCEPT !.pc = "fallback"]
           ELSE Ended(c, "missing"))

Resolve(c) ==
    /\ At(c, "probe") /\ cli[c].candidates = {}
    /\ IF cli[c].open = {} THEN ResolvedNone(c) ELSE Resolved(c, cli[c].open)
    /\ UNCHANGED <<proc, records, inode, names, commands, slow>>

\* `last` when its app is not found: whatever answers at the saved address is
\* taken for it; when nothing does in time, session.json is removed
Fallback(c) ==
    /\ At(c, "fallback")
    /\ \/ /\ Listener(cli[c].saved.port) # {}
          /\ Set(c, [Target(c, "ended", cli[c].saved.id, cli[c].saved.port)
                       EXCEPT !.result = "ok", !.via = "saved", !.saved = Torn,
                              !.there = {proc[p].app : p \in Listener(cli[c].saved.port)}])
          /\ UNCHANGED names
       \/ Set(c, Ended(c, "missing")) /\ names' = [names EXCEPT !.session = 0]
    /\ UNCHANGED <<proc, records, inode, commands, slow>>

-----------------------------------------------------------------------------
(* save_session: every command writes the same temporary file, in three     *)
(* steps: opened and truncated, written, renamed.  A command that opened it *)
(* goes on writing to the same file after another one renamed it.           *)

SaveOpen(c) ==
    /\ At(c, "save")
    /\ LET fresh == Cardinality(DOMAIN inode) + 1
           file == IF names.tmp = 0 THEN fresh ELSE names.tmp
       IN /\ inode' = [i \in DOMAIN inode \union {file} |-> IF i = file THEN Torn ELSE inode[i]]
          /\ names' = [names EXCEPT !.tmp = file]
          /\ Set(c, [cli[c] EXCEPT !.pc = "write", !.fd = file])
    /\ UNCHANGED <<proc, records, commands, slow>>

SaveWrite(c) ==
    /\ At(c, "write")
    /\ LET new == Session(cli[c].id, cli[c].target.port)
       IN \/ inode' = [inode EXCEPT ![cli[c].fd] = new]
          \/ /\ inode[cli[c].fd] \notin {Torn, new}    \* over a longer one
             /\ inode' = [inode EXCEPT ![cli[c].fd] = Torn]
    /\ Set(c, [cli[c] EXCEPT !.pc = "rename"])
    /\ UNCHANGED <<proc, records, names, commands, slow>>

\* Without a file of that name the rename fails: `last` does not mind, a
\* --connect <id> ends with BadAddr
SaveRename(c) ==
    /\ At(c, "rename")
    /\ IF names.tmp # 0
       THEN names' = [session |-> names.tmp, tmp |-> 0] /\ Set(c, Ended(c, "ok"))
       ELSE /\ UNCHANGED names
            /\ Set(c, Ended(c, IF cli[c].via = LastSession THEN "ok" ELSE "bad_addr"))
    /\ UNCHANGED <<proc, records, inode, commands, slow>>

Command(c) ==
    \/ Load(c) \/ Probe(c) \/ ProbeFails(c) \/ Resolve(c) \/ Fallback(c)
    \/ SaveOpen(c) \/ SaveWrite(c) \/ SaveRename(c)

Rest ==
    /\ commands = MaxCommands /\ \A c \in Clis : At(c, "idle") \/ At(c, "ended")
    /\ UNCHANGED vars

Next ==
    \/ \E p \in Pids : Bind(p) \/ Publish(p) \/ Withdraw(p) \/ Exit(p)
    \/ \E c \in Clis : StartCommand(c) \/ Command(c)
    \/ Rest

Spec == Init /\ [][Next]_vars

-----------------------------------------------------------------------------
(* Properties                                                               *)

\* No command takes the record of a host that is up away from it, however many
\* commands probe and prune at the same time: only a host that has kept one of
\* them waiting for longer than PROBE_TIMEOUT loses its record
LiveRecordKept ==
    \A p \in Pids : proc[p].state = "listed" /\ p \notin slow => RecordOf(p) \in records

\* A --connect that answers "ok" does not pass over another host that matched
\* just as well, was up all along and answered it in time: of two it says so
\* instead of picking one, and `--connect last` goes where its app is now, not
\* where it was.  A --connect that answers "missing" has missed none
NoSilentPick ==
    \A c \in Clis :
       /\ cli[c].result = "ok" /\ cli[c].via # "saved" =>
             \A p \in cli[c].steady : RecordOf(p).port = cli[c].target.port
       /\ cli[c].result = "missing" /\ cli[c].via = "record" => cli[c].steady = {}

\* discovery.rs "writes one JSON record when it starts listening and removes it on
\* shutdown": as long as a host listens its record is there
ListedWhileUp == \A p \in Pids : proc[p].state = "listed" => RecordOf(p) \in records

\* docs/PROTOCOL.md "The CLI names the app it is about to act on": the app that
\* listens at an address taken from the saved session is the one named
SavedAddressIsItsApp ==
    \A c \in Clis : cli[c].via = "saved" =>
       \A app \in cli[c].there : Exact(app, cli[c].target.id) \/ Basename(app, cli[c].target.id)
=============================================================================

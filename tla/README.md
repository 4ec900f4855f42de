# gpui-agent in TLA+

gpui-agent gives a GPUI application a local control plane: agents connect over TCP,
read the semantic UI tree, act on it, wait for conditions and follow events; recipes and
goal-driven runs are built on top. This directory models the parts of it where threads,
channels, caches, processes and failures meet and the algorithms that decide what is
done, checks them with TLC on small instances, and proves the main results with TLAPS
for every value of the constants.

Paths below are relative to `src/`. `PROJECT.json` maps each definition to its lines.

Running: `tlc -config MCHostParts.cfg MCHostParts.tla`, `tlapm HostPartsProofs.tla`, and
likewise for the other modules.

## 1. Inventory

| Part | State | Operations | Interacts with |
| --- | --- | --- | --- |
| `AgentMailbox` (`crates/gpui-agent/src/mailbox.rs`) | `Vec<MailboxRequest>` under a mutex, one mpsc channel per call | `push` (cap 8), `take`, `wait` (timeout), `reply` | connection threads push and wait, the UI thread takes and replies |
| `serve_mailbox` (`server.rs`) | accept loop, `inflight` counter, stop flag, one thread per connection | accept, claim/refuse, post a line, answer, stop | the mailbox |
| `TodoApp::apply_agent` (`apps/todo/src/app.rs`) | backlog, `pending_keybinding`, `scrolled_job` | per-frame drain; deferred Actions; jobs over several frames; `cx.quit` | the mailbox, the store, GPUI |
| `wait_until_via_mailbox` (`server.rs`) | `checked_rev`, `probed_rev`, deadline | revision probe, assert, sleep | the mailbox, twice per poll |
| `serve_host` (`server.rs`), `todo-headless` | host mutex, one handler and `TreeCache` per connection, a main thread that polls | a line at a time under the mutex; refusal; shutdown | the store directly |
| NDJSON (`ndjson.rs`) | none | read a line with a limit, write a line | both ends of every connection |
| `dispatch.rs`, `TreeCache` | ring of 8 `(rev, tree)` | snapshot, diff, `unchanged`, assert, fingerprint gate | `AgentHost` |
| Todo store (`crates/todo-core`) | todos, next id, draft, page, settings, revision | click, type, set_value, key, invoke, keybinding, shutdown | every server |
| Daemon bridge (`apps/todo/src/daemon_bridge.rs`) | two mpsc channels, one client | one command then a snapshot, every 150 ms | the daemon over TCP, the window |
| Event ring (`event.rs`) | bounded `VecDeque`, `next` seq | push, `since`, `latest` | pollers over TCP |
| Scrolled screenshot (`scrolled_shot.rs`, `scroll_capture.rs`, `app.rs`) | one job: phase, plan, captured tiles, offset to restore | start, wait for metrics, scroll, let a frame pass, capture, stitch, restore | GPUI's `ScrollHandle`, the compositor, the human |
| Client (`client.rs`) | live session, next id | `rpc` with one replay, pipeline, read timeouts | every server |
| Discovery (`discovery.rs`) | files: one record per host, `session.json` | publish, withdraw, list and prune, resolve, `last`, save | other processes, crashed ones included |
| Recipes (`gpui-agent-recipe`) | the recipe, the registry, the plan, the receipt | parse, substitute, resolve an intent, compile into waves, run waves | client |
| Policy (`gpui-agent-policy`) | an episode's tree, clause, history, budgets | split a goal, observe, score, choose, resolve text, ask an endpoint, dispatch, verify | client, an external process or service |
| `act` (`crates/gpui-agent-cli/src/mcp.rs`) | one decision and what it observed | observe, decide, dispatch, re-observe when refused | client, policy |
| Keybindings, authentication, compact text, diffs, CLI, benchmarks | none of their own | checks of one request, renderings, argument mapping, measurement | dispatch, server, client |

What is hard here: requests that outlive their callers (timeouts do not withdraw a
request); replies owed across frames; several trees of different ages (the host's, the
connection's cache, the client's copy, the policy's); checks made on one revision and used
at another; two-command gestures that other actors interleave with; calls repeated after a
broken connection, and answers that are not matched to them; a mutex held for as long as a
wait lasts; a process that ends while others write their answer; files shared by processes
that crash; bounded queues and rings at their limit; scores in which many small bonuses
meet one hard rule. The `hazards` of `PROJECT.json` list these at their lines.

What makes each part correct: a call is executed at most once, in order, and "reply" is
only told of an executed one (mailbox, direct server); the counter counts the live
threads, quitting follows the reply (server, app); the shortcut misses nothing and the
wait ends (wait_until); a client's copy is a tree the host had and an act goes through
exactly when the target is as seen (sessions, gate, policy); ids are never reused and the
revision moves with the tree (store); titles arrive once and in order, clicks mean what was
shown, the window catches up (bridge); no silent gap and no repetition (events); the image
is the list and the list is put back (screenshots); answers belong to their lines and a
pipeline is never replayed (client); a live host's record stays and no host is passed over
silently (discovery); steps wait for what they need, nothing follows a failure, the receipt
is true, nothing exits unasked (recipes); an episode ends and acts on what it saw (policy);
what is named exactly is what is chosen and what is quoted is data (evidence, goals,
intents).

## 2. Modules

```
RpcService  <-refines-  Mailbox  <-extends-  MailboxServer  <- MCMailboxServer
        ^                                  ^- MailboxServerProofs (with the Mailbox's)
        '----refines-  DirectServer  <- MCDirectServer, DirectServerProofs
WaitUntil, EventRing, ScrolledShot, Discovery  <- HostPartsProofs (no two share a state)
AgentHost  <-refines-  TodoStore
WaitUntil + EventRing + TodoStore + ScrolledShot  <- MCHostParts
TodoStore  <-  DaemonGui  <- MCDaemonGui, DaemonGuiProofs
HostSession  <- MCHostSession, HostSessionProofs
Discovery  <- MCDiscovery, HostPartsProofs
RecipePlan  <- RecipePlanProofs
RecipePlan + AgentClient  <-  RecipeRun  <- MCRecipeRun, RecipeRunProofs
ActionSpace  <-  PolicyRunner  <-  ActTool  <- MCPolicyRunner, AlgorithmsProofs
Evidence  <-  Resolve;  Resolve + RecipeText + WantsStep + GoalText + Jev + Ndjson + RecipePlan
    <- MCAlgorithms  <- AlgorithmsProofs (with RecipePlanProofs)
```

### Servers and hosts

**RpcService** is the promise of `AgentMailbox::wait` to a caller, without queue or frame:
asked once, performed at most once, `reply` only after it was performed, `full` only if it
never is; `timeout` says nothing. `performed` is the sequence of executions, so a second
execution of a call is a step the service does not have.

**Mailbox** has one action per operation of `mailbox.rs` and what the UI thread does with a
`MailboxRequest`. A *ticket* is one call of `wait`; `inbox` is the mutexed queue, `batch`
the requests taken and not yet run (the app's `keybinding_backlog`), `held` those run with
the reply owed. `accepted` and `ran` are histories. `push` checks the cap and appends under
one lock, so it is one step.

**MailboxServer** composes it with `serve_mailbox`, `handle_stream_mailbox` and
`apply_agent`. Requests are told apart only by how a frame serves them: answered inside the
frame, a keybinding whose reply follows a deferred Action, a confirmed quit, a scrolled
screenshot taking several frames, a shutdown. A frame is `Frame` (drain, then decide), a
`RunNow`/`ReplyNow` or `RunDeferred` per request, `FrameDone`: connection threads act
between any two of these, as they do in the program. `Exit` ends the process and every
thread of it.

**DirectServer** is `serve_host` and `todo-headless`: `Accept` under the cap, a handler per
connection that reads a line (blank, too long, garbled, not authorized for this session,
or a request), locks the host, runs, unlocks and writes; a `wait_until` keeps the lock
until its condition or its deadline; the main thread looks for `wants_shutdown` behind the
same mutex and ends the process. `DirectServiceSpec` maps lines to the calls of RpcService,
so that both servers are shown to keep one promise.

**WaitUntil** is the polling thread of `wait_until_via_mailbox`, statement by statement
where the tree can change in between: post the probe, host answers, read it, post the
assert, host answers, read it. The queue in between is abstracted (it is Mailbox): a
request takes as long as it likes, is lost to the drain timeout, or meets a full mailbox.
`tracks` is whether the host reports revisions. `SyncsDraft` makes the host bump its
revision at every request, as the desktop app does.

**HostSession** is one host and its connections: `Refreshed` is `TreeCache::snapshot`'s
effect on the ring, `SnapshotAnswer` the order of tests of `snapshot_response`, `ActPasses`
the gate, `Applied` what a client makes of an answer. On a mailbox host the cache lives for
one request (`handle_request`) and acts may be delivered virtually. Trees are model values
with a fingerprint per target; a diff remembers its base, and applying it to another tree
gives `Torn`.

**AgentHost** is the contract of `AgentHost::revision` in `host.rs`; **TodoStore** is the
store with one operator per method (`store` to next store) and one action per op family,
and is checked to refine AgentHost with the tree it really shows (the hidden page is not in
it). An op that answers `Err` leaves the store alone and is a stutter.

**DaemonGui** is ADR-001's window: the human's gestures post commands, `WorkerTurn`,
`ServeCall`, `ServeSnapshot` are one turn of `worker`, `GuiFrame` is `apply_daemon`. A call
may time out or break and be made again (`CallFails`, `CallRetried`); what reached the
daemon waits for the host's lock in `late` and is carried out in any order.

**EventRing** is the ring and its pollers. An event is its seq. `Missed` is what an answer
tells the poller it lost.

**ScrolledShot** is the desktop's scrolled screenshot. Each `Frame` action is one call of
the job's driver in `apply_agent` followed by layout and paint; `Tile` is a row of
`plan_scroll_tiles`, `Capture(screen[k])` takes the picture of the last frame or the one
before it, since the compositor may be a frame late, and the answer is the stitched and
cropped column of rows. The human scrolls, resizes, adds, deletes and changes the page
between frames. GPUI's `ScrollHandle` (clamping at layout, bounds kept from the last
paint) is outside this repository and modelled from its use.

**Ndjson** is `read_limited_line_into` on a stream of bytes of five kinds, and the loops
that call it: a limit that counts the newline, CR LF, the unfinished last line, bytes that
are not UTF-8, blank lines.

### Clients, discovery, recipes

**AgentClient** is `rpc_op` and `rpc_pipeline` over one reused connection: connect with a
deadline, write, read, `roundtrip_retry`'s second write, the pipelines' chunks, with a host
that closes connections, dies, restarts, or answers too late or unreadably. Responses carry
their line, which the client does not look at.

**RecipePlan** is `validate_recipe` and `compile_plan` as operators: effects from the
registry, needs (declared ones, or file order), waves (`Released` step by step), parameters
put in before annotation. **RecipeRun** composes it with AgentClient: `run_plan` sends an
all-read wave as one pipeline and every other wave step by step, takes the flagged
screenshots, and writes the receipt.

**RecipeText** is `tokenize` as a fold over symbols and the two matches over every op
(`Collected`: the texts searched for placeholders, `Filled`: those in which they are
replaced). **WantsStep** is `parse_wants_step` with the readers it calls, token by token: a
token is a flag, a pair or a word, and a field has the token it was given; the case and padding
of words such as `semantic` or `viewport`, and an invoke's values as JSON, are left out.
**Resolve** is the registry's merge and both intent resolvers: by
keywords with synonyms, and by evidence with names, keywords, rarity, vetoes and
the margin, and the arguments `materialize` takes from quotes, ids and numbers.

**Discovery** is hosts, record files and command lines as separate processes: `Bind`,
`Publish` (a rename, so one step), `Withdraw` and `Exit`, in order or by a crash, for hosts;
`Load` (which prunes), `Probe` (answered in time) and `ProbeFails` (nobody listens, or the
host that does takes longer than `PROBE_TIMEOUT`; the record goes), `Resolve`, the `Fallback` of `last`, and
`SaveOpen`, `SaveWrite`, `SaveRename` through one temporary name for commands. Session
files are inodes, as a command goes on writing to one that another has renamed.

### Policy

**ActionSpace** is `build_action_space`: which actions a tree offers, whether a node may be
reached at all (`Viable`), what is listed but never chosen by itself. **PolicyRunner** is
the loop of `runner.rs` with the policy's order of tests and `escalate.rs`' process: which
action wins among those whose evidence suffices is left open (`MayWin`), everything else is
the code's: clauses and their closing, waiting, stale targets re-decided, texts, effects
read back, repetitions, every cap. The endpoint may break, abstain, lie or stay.
**ActTool** is the MCP tool `act` built from the same steps, and `Next` is a run of either.
`HostAccepts` is what the host carries out: with semantic delivery, the only one of `run`,
behind the fingerprint gate; with the virtual delivery a caller of `act` may ask for, in the
desktop window without a look at the node (`ByPointer`), elsewhere not at all.

**Evidence** is `evidence.rs` with the scores and thresholds of `policy.rs` and
`arbitration.rs`, in the code's integers; **GoalText** splits a goal into clauses and finds
its literals and the text for a field; **Jev** is the menu put to the service, the
validation of its answers, and the choice. Words are whole: case, Unicode folding and
punctuation are given.

Definitions marked `Fault:` stand beside the definition they vary: each is the mistake that
a property exists to catch, and no specification uses them.

## 3. What the runs check

Each run finishes within three minutes with two workers.

| Run (cfg) | Instance | What it shows |
| --- | --- | --- |
| `MCMailboxServer.cfg` | 3 clients, cap 2, 3 tickets, depth 1, jobs of at most 2 frames; 1.8 M states | FIFO without loss or repetition, exact connection count, one deferred request at a time, reply before quit |
| `MCMailboxServerFair.cfg` | 2 clients, 2 tickets; 149 k states | refinement of RpcService; every line is answered although the UI stalls; with a painting window accepted requests run and an accepted shutdown ends the process |
| `MCDirectServer.cfg` | 2 connections, 3 lines among seven contents | answers in the order of the lines and none behind a refused one, refinement of RpcService, every request settled although a wait_until holds the lock |
| `MCHostParts.cfg` | four parts that share no state, one per behaviour (below); 295 k states | wait_until, events, store, scrolled screenshots |
| `MCHostSession.cfg` | 2 connections, 3 trees, 2 targets, ring of 2, 4 revisions; 2.7 M states | the client's copy true, the gate exact; for mailbox and direct hosts, with and without revisions |
| `MCDaemonGui.cfg` | 2 titles, 2 todos, 5 commands, an agent that clicks | titles in order, clicks mean what was shown |
| `MCDaemonGuiFair.cfg` | a lost or repeated call or a restart, an agent that edits | the window catches up |
| `MCDiscovery.cfg` | 3 processes of two apps on two ports, 2 command lines, 3 commands, at most 2 hosts that once were too slow for a probe; 2.7 M states | the record of a live host that answers in time is never taken away, no such host passed over silently |
| `MCRecipeRun.cfg` | 9 recipes of one to four steps, 3 connections, 2 faults, pipelines of 2 | needs, fail-fast, honest receipts, no exit without `--yes`, answers matched, pipelines not replayed, a repeated write cost a fault |
| `MCPolicyRunner.cfg` | 9 set-ups of the runner and of `act` (three with virtual delivery), 4 trees, one foreign change, one lost answer; 1.1 M states | but for the window's pointer, acts meet what was seen, `act` acts once, every episode ends |
| `MCAlgorithms.cfg` | every goal of 4 words, clause text of 4 pieces, line of 2 words, text of 5 symbols, step of 4 parts (flags, switches, pairs, words, also repeated, unreadable or one field twice), intent of 3 items, stream of 6 bytes, pair of the service's answers, recipe of 3 steps in any order with up to two needs each; 266 k inputs | evidence, splitting, recipes' text, plans, intents, framing, the service's menu |
| `MCDirectServerStop.cfg` | as MCDirectServer | violated, see section 4 |

`MCHostParts` picks a `part` at the start and leaves the other three where they are, so its
states are those of four separate instances: *wait*, three trees (wanted, unwanted,
unjudgeable), 4 changes, 2 lost probes; *ring*, a ring of 3, 6 events, a paging poller
(2 per page) and one using `latest` (4); *store*, 4 texts, 3 todos, 6 changes; *shot*, a
list of up to 6 rows in a window of up to 3, caps of 5 and 6 rows, 3 tiles, 2 touches by
the human. Fairness is that of each part, on its own steps.

Bounds. A mailbox of one already overflows with two waiting calls, and a third ticket
gives a request that is queued while another is deferred and a further one refused. Two
live connections and a third show the cap. Two connections and three lines give the direct
server a pipelined pair behind a refusal, a shutdown or a wait, and another client that
wants the lock. In *wait* four revisions let a change fall before, between and after probe
and assert of two consecutive polls. A ring of two revisions with four changes evicts
twice; six events overrun a ring of three by its own length. Six rows and a window of
three need an overlapping last tile; a window of one with a cap of five exceeds the
tile limit. Three processes let one crash, a second reuse its port and a third compete. Two
faults suffice to lose an answer and the retry's. `MaxRev`, `MaxTodos`, `MaxSent`,
`MaxViews`, `MaxFaults`, `MaxLost`, `MaxSlow`, `MaxPushed`, `MaxLines`, `MaxCommands`, `MaxConns`,
`MaxChanges` and `MaxTouches` only bound exploration; the proofs do without the small sizes.
`MaxViews` bounds the worker's lead over the window, an unbounded channel in the code.
`MaxDepth`, `RevRingDepth`, `Capacity`, `MaxTiles`, `MetricsWait`, `MailboxDepth`,
`MaxSteps`, `MaxNoEffect`, `MaxStale` and `MaxPolls` are the code's limits, made small.

Deadlock checking is off where the system stops by itself (the process exits, a wait is
answered, the bound on changes is reached, tickets or inputs run out) and on elsewhere,
where `Rest` or `Done` stutters are the only stops allowed.

Symmetry is used for connections and tickets in the two largest safety runs and for
processes, ports and commands in MCDiscovery; no liveness property is checked under it.

Type invariants (`ServerTypeOK`, `StoreTypeOK`, `GuiTypeOK`, `RunTypeOK`, `RunnerTypeOK`,
and those proved below) stand in each module, with a few properties that hold on the same
instances and are not part of a run: `FlagJustified` and `MailboxUse` (MailboxServer; the
latter without SYMMETRY), `IdsAreForGood` (TodoStore), `JobEnds` (ScrolledShot),
`NeverDangerous` and `LiteralSentOnce` (PolicyRunner).
Adding their names to the cfg checks them.

### Fairness

`FairSpec` of MailboxServer assumes the accept loop and, per connection, that
`recv_timeout` returns: nothing about the UI thread, since the timeout exists for a stalled
one. `AcceptedTakesEffect` assumes `UiFairness` itself: frames recur
(the 16 ms timer of `TodoApp::new` notifies for ever), a frame's work proceeds, and
`cx.quit()` is served between two frames (strong fairness, since frames keep making it
momentarily impossible). DirectServer assumes that a handler with a line goes on, that
a `wait_until` ends at its deadline, and that no thread loses the host's mutex for ever
(strong fairness on `Lock`: `std::sync::Mutex` promises no order, the operating system's
queue gives no starvation in practice; without it `EveryRequestSettled` fails). WaitUntil
assumes that its thread runs, that time passes and that the UI answers; nothing of the
human. ScrolledShot assumes that frames recur. DaemonGui assumes the 150 ms loops of the
worker and the window, and that the host's lock is released in the end. PolicyRunner
assumes that its one thread goes on, each call having a timeout; `RunEnds` is about
endpoints whose process ends. Clients, humans and agents are never obliged to act.

## 4. Where the code and its words differ

One run ends in a counterexample, by design: `MCDirectServerStop.cfg`. The main thread of
`todo-headless` returns as soon as `wants_shutdown` holds, and may do so between a
handler's execution of a shutdown and its answer; `todo-headless shutdown` then reports a
failure.

The others are stated beside the model, each by a property that TLC refutes when the cfg is
changed as given.

| Property | What the code does, against what | How to see it |
| --- | --- | --- |
| `HostContract` | `invoke nav.go` (`todo-core/src/lib.rs:542`) changes the page without `bump_revision`, against lib.rs:144-146; so `snapshot since` says `unchanged`, wait_until skips the assert, the gate reads a cached tree | `NavGo = TRUE` in `MCHostParts.cfg` |
| `AssertCovered` | "mailbox full" for an assert is taken for a failed one and marks its revision as checked (server.rs:460): the wait may time out although the condition holds | INVARIANT in `MCHostParts.cfg` |
| `NoStaleClick` | virtual delivery ignores `expect_fingerprint`, which PROTOCOL.md describes without exception | PROPERTY in `MCHostSession.cfg` |
| `TypingKept` | `apply_daemon` empties the field under the human's hands when the daemon's draft is empty (app.rs:317) | PROPERTY in `MCDaemonGui.cfg`, with `MaxTodos = 1`, `MaxRev = 2`, `MaxSent = 2` |
| `ImageIsOfTheList` | a scrolled screenshot asked for on the Settings page shows that page (app.rs:464) | INVARIANT in `MCHostParts.cfg` |
| `UnmovedStays` | a job that fails before it moved the list still "restores" an offset (app.rs:533) | PROPERTY in `MCHostParts.cfg` |
| `ClosedByItsOwnStep` | a clause is closed by the effect of an earlier clause's step (policy.rs:222) | INVARIANT in `MCPolicyRunner.cfg` |
| `EveryActIsChecked` | with `delivery: "virtual"` (mcp.rs:906) the desktop window answers `act` in `dispatch_virtual` (app.rs:394-396, 832-865), which finds the id in the tree of the moment and compares nothing, against the comment in front of that dispatch (mcp.rs:897-900): the action is carried out although the node changed since it was decided on | INVARIANT in `MCPolicyRunner.cfg` |
| `AbstainMeansNothingDone` | `act` may abstain after an action that was carried out and whose answer was lost (mcp.rs:779) | INVARIANT in `MCPolicyRunner.cfg` |
| `ListedWhileUp` | a probe that gets no connection in 200 ms deletes the record of a host that is up (discovery.rs:319, 411), and no host publishes twice, against discovery.rs:3-4 "removes it on shutdown" | INVARIANT in `MCDiscovery.cfg` |
| `SavedAddressIsItsApp` | `--connect last` acts on whatever listens at the saved address (discovery.rs:277) | INVARIANT in `MCDiscovery.cfg`, with `Apps = {"todo", "files"}` |
| `CapExcludesNewline` | the newline counts for the limit (ndjson.rs:28, 40) | INVARIANT in `MCAlgorithms.cfg` |
| `QuotedIsPayload` | a schema's name inside quotes decides the operation (resolve.rs:432, 498) | INVARIANT in `MCAlgorithms.cfg` |
| `NeverGuesses` | of several literals the first with a word of the label before it is taken (text.rs:99, 110) | INVARIANT in `MCAlgorithms.cfg` |
| `RunEnds` | `child.wait()` after an answer has no bound (escalate.rs:249); checked with the proviso `setup.exits` | drop the proviso |

What the other modules assume: the HostContract (so their results hold for hosts that keep
it), `~refused` in `CheckedMeansFalse` and `NoFalseTimeout`, semantic delivery in
`GateExact`, pipelines of at least two in `RepeatsEarned`. `ActsOnWhatItSaw` is about both
deliveries but not about what the window's pointer does for `act`, for which
`EveryActIsChecked` shows that it cannot be had. `LiveRecordKept` and `NoSilentPick` leave
out a host from the moment a probe of it timed out (`slow`, and `steady` of the command that
probed). `QuitAfterReply` orders the reply in the mailbox's channel before `cx.quit()`: the
handler thread that then writes the line may still lose against the end of the process.

Met while reading, without a property of their own:

- SECURITY.md:227 has the flag set "after the `shutdown` op"; server.rs:391 sets it also
  when the op was refused by a full mailbox or timed out, and the app then lives on with
  no listener. `FlagJustified` allows this. SECURITY.md:228 lets a connection in flight
  "finish one more request"; handlers never look at the flag.
- `wait_until_via_mailbox` promises zero rebuilds for an unchanged tree, but
  `sync_draft_from_input` bumps the revision before every request of the desktop app, so
  there each poll rebuilds. `RebuildsBounded` is checked and proved with
  `SyncsDraft = FALSE`; the correctness properties are proved for both values.
- EventPoll's doc (event.rs:64) tells pollers to go on from `latest`; with a `limit` below
  the ring's content that skips events without `lagged`. `NoSilentGap` is about pollers
  that either go on from the last event given or ask for at least the ring's capacity
  (`CursorSound`).
- client.rs:262 says that nothing is retried once a line was written; a chunk of one op
  goes through `roundtrip_retry` and is. `pipeline_retry` ignores `timeout_for`.
- `Err(_) => break` on accept (server.rs:135, 188) ends the listener after one failed
  accept. PROTOCOL.md:101 has `rev` on every response; only `revision` and `snapshot`
  carry it.
- discovery.rs:271 turns "several hosts match" into "none" for `--connect last`;
  discovery.rs:388 uses one temporary name for all processes, so a saved session may be
  torn or a command fail with `BadAddr`.
- text.rs:14 speaks of a fingerprint "so stale resolves are dropped"; nothing compares it.
  runner.rs:660 takes a literal for typed before its effect was read back.
- Apostrophes are quotes for the goal's split and not for its literals; the keyword
  resolver reads `wait_until` as `wait`; words behind a recipe line's last argument are
  ignored; `validate_recipe` looks for unconfirmed quit bindings before parameters are put
  in (the plan's effects are annotated after, and `ExitOnlyWithYes` rests on that).

## 5. What is proved

Assumptions are the named ASSUMEs of the modules (natural bounds, distinct markers) and
nothing else; each is evaluated by a run.

- **MailboxServerProofs**, the mailbox. `MailboxInv` adds to the checked invariants that a receiver is gone
  exactly when `wait` has returned and that a held request has run; without the first a
  refused ticket could later be counted as accepted, without the second a reply could
  precede its execution. `OrderKept` follows from three lemmas on concatenation, one per
  move between queues. For the refinement, the head of the backlog is new
  (`HeadIsNew`): `accepted` has no repetition and `ran` is a prefix of it. Result:
  `MailboxSpec => ServiceSpec` for any tickets and depth.
- **MailboxServerProofs**, the process. `TurnInv` says what the UI thread owes by where it is in a frame
  (nothing while it drains, one reply while it sends it, the deferred request otherwise);
  `ConnInv` says that a waiting handler has a ticket. With them every step of the process is
  one of the mailbox's or none (`StepUsesMailbox`), hence `Spec => MailboxSpec`, and
  `MailboxInv`, `OrderKept` and `ServiceSpec` hold of the composed process. `QuitAfterReply`
  needs the mailbox's invariant: the ticket that asked to quit cannot be taken, run or
  posted a second time. `InflightExact` counts with the cardinality lemmas, one change of
  one handler per step. For any connections, cap, depth and length of jobs.
- **HostPartsProofs**, wait_until. The strengthening relates the revision a reply carries, `probed` and
  `checked` to the tree of that revision: a failed assert posted after a probe at r, with
  the host still at r, saw the tree of r. From it `CheckedMeansFalse` and `NoFalseTimeout`
  for any trees, predicate and number of lost probes, and `RebuildsBounded` for
  hosts that do not bump by themselves.
- **DirectServerProofs**. Lines are numbered as they are sent, so the order of a connection's
  lines is that of numbers: a handler has read a prefix of them (`ReadInOrder`), owes an
  answer to the last it read and to no other (`ServingInv`), and has closed behind a refused
  one (`AnswersInv`). Results: `AnsweredInOrder`, and `DirectServiceSpec` by a map from lines
  to calls in which a line behind a handler that has closed settles without having run. For
  any connections, cap, lines and contents; the wait that holds the lock, the poisoned
  mutex and the main thread's exit included.
- **HostSessionProofs**. Every entry of every ring, every answer under way and every client
  copy agrees with the history of trees `was`; a diff's base is the tree the client holds,
  as it has one request outstanding. Results: `SessionTypeOK`, `ClientTreeTrue`,
  `GateExact`, for any number of connections, trees and ring depth.
- **HostPartsProofs**, events. The ring is an interval of seqs, so what follows a cursor and a page
  of it are intervals; an answer accounts for all between its cursor and the next. Results:
  `RingTypeOK`, `NoSilentGap`, `GivenOnce` for any capacity, page size and pollers.
- **DaemonGuiProofs**, the store. One lemma per method: from a `Sound` store (ids increase
  and are below `nextId`) it gives a sound one that `Keeps` what ids mean, and whose revision
  grows with the tree shown (`Counted`). Results: `StoreTypeOK`, `IdsAreForGood`, and
  `HostContract` under `~NavGo`, which is the exception section 4 tells of.
- **DaemonGuiProofs**, the window. `GuiInv`: each row shown, in a view under way, or meant by
  a posted, running or repeated command is of a todo that no longer is or has that title
  (`Known`); every step of the store preserves it by `Keeps`. Hence `ClicksMeanWhatWasShown`
  with any number of lost and repeated calls, waiting views and agents, under `~Restarts` (a
  new daemon counts ids from 1 again). `TitlesInOrder` says which titles are still on the
  way: the inductive `TitlesInv` adds that Enter's two commands stand next to each other and
  that a set draft belongs to the pair half done. It holds under `MaxFaults = 0`,
  `~Restarts` and `~AgentsEdit`, as `MCDaemonGui.cfg` has them: a failed call does lose a
  title (app.rs:194), and an agent that writes the draft between the two changes one.
- **HostPartsProofs**, discovery. `DiscoveryInv` adds that every record tells the truth about the process
  that wrote it (no process id comes back), and what a command knows by where it stands
  (`CliOk`): a host that was listed when the command read the directory, and still is, is
  among the records yet to be probed or found open, until the command has settled on that
  host's port. Hosts only shrink the set this speaks of. Results: `LiveRecordKept` and
  `NoSilentPick` for any hosts, ports, apps, ids and commands at a time, whichever probes
  time out: a host leaves both when a probe of it does.
- **HostPartsProofs**, screenshots. While a job that moved the list is under way, what it will restore
  is where the list was when it was first moved (`Home`, inductive by one step per frame
  and per touch): `OffsetRestored` for any list, window, cap and wait, although the human
  may act between any two frames. `ImageInv`: with nobody at the list, a job in its tiles has
  the plan of the list there is, stands at the offset of the tile it captures next, has that
  tile on screen in both frames it may see, and what it captured is the list cut where the
  tiles end (`TilesInv`). A tile starts where the one before ended, the last overlapping
  it (`TilesMeet`, one division and its remainder), a crop of a window at the tile's offset
  is that cut (`CropIsSlice`), and cuts that meet are stitched to the whole, by induction
  over their number (`StitchSlices`). Hence `ImageIsList`, for any list, window, cap, wait
  and number of tiles.
- **AlgorithmsProofs**, the runner and `act`. Between a choice and its dispatch the runner looks
  at no other tree (`DecidedOnTree`), although the endpoint may be asked for a text in
  between and the host goes on: with the host's gate, where there is one, this gives
  `ActsOnWhatItSaw` and `PolicyTargetUnchanged`. Of `run` it holds without exception
  (`RunActsOnWhatItSaw`, from `DeliveryAssumption`: run_cmd.rs:89). `ActCount` relates what `act` has carried out to where it stands
  and to the answers lost, so that each of its rounds of re-deciding starts with nothing
  done: `ActActsOnce`. For any goals, trees, catalogs, caps and answers of the endpoint.
- **AlgorithmsProofs**, the menu. A valid answer's choice is a key that was asked about
  (`ValidIsOffered`), so the choice combined from several answers is on the menu, or nothing
  (`JevChoosesFromMenu`); and its operation and its target are each the likeliest the answers
  have among those the menu offers (`JevKeepsMenu`): for any offers and any answers.
- **AlgorithmsProofs**, framing. `HearsWhole`: of any stream, under any limit, what is heard are
  its lines, whole and in order, up to the first that is too long or is no text, and nothing
  behind that one. The loop is a recursive function of the bytes read; after k lines it stands
  behind the k-th (`HeardTo`), and `SplitAs` says where that is from the line feeds alone.
  `HeardAsWritten` is the two ends together: objects none longer with its line feed than the
  limit are heard as they were written.
- **AlgorithmsProofs**, plans. `PlansKeepNeeds` is the theorem of RecipePlanProofs, below, on the
  planner the run checks.
- **AlgorithmsProofs**, recipes' text. Any words of a step, quoted as `tokenize` wants them, are
  read back, one token each (`QuotedWordsReadBack`): behind k quoted words the tokenizer has
  those k, is outside of quotes and holds nothing (`WordRead`, by induction over the symbols of
  a word, within one over the words). A placeholder that is looked up while a text is filled in
  is one that was collected from it (`LookedUpIsCollected`), although the two walks are written
  apart (recipe.rs:308, 450): neither passes over an opening the other sees (`NoneInside`), and both go
  on at the same place behind a name (`GoesOn`). Together with the plan's promise `RecipeIsKept`. The assumption
  is that the dollar sign is neither a letter nor a digit (`TextAssumption`).

- **RecipePlanProofs**. `PlanKeepsPromise`: a recipe of any length that `compile_plan`
  accepts gets a plan of its own steps, each once; its waves are cut from that order, and
  what a step needs is in an earlier wave. `schedule` is a loop and sorts each wave, so the
  proof takes both apart: the sorted order of a wave exists, by the ranks of its ids, and
  any such order has each step once (`SortIs`); the loop's function exists and every turn
  keeps `RoundInv` (`LastRoundOK`). Both need induction over numbers, which the library
  states for an operator; for a set it follows from its theorem that < is well-founded
  (`Inductive`). `RoundInv` is stronger than the promise: the count a step still waits for is
  the number of its needs no placed step meets, a need written twice counted twice, and who
  is ready waits for none (`Counting`); without the counts a released step could have an open
  need. That no step is lost is a count too: distinct indices, as many as there are steps.
  TLC checks the promise of every recipe of up to three steps (`PlanKeepsNeeds`, in `RecipeKept`), with the
  faults a proof does not show.
- **RecipeRunProofs**, the client. `WireInv`: between calls the connection in use is empty in
  both directions; during one, what was read, what is on its way down and what is on its way
  up are consecutive lines of this call, in this order (`OnWire`), since every error ends
  the session and a session that was left is read no more. Hence `AnswersMatch`, although
  ids are never compared.
- **RecipeRunProofs**, the run. `RunInv` places every line on the wire, or performed, in the
  plan: none is further than the run (`LinesInv`), a place behind the run is a step reported
  ok, a failed step is one of the wave in hand (`RowsInv`), and a call under way serves a
  piece of what is in hand, its answers that of the pieces before (`CallInv`, by what
  `rpc_pipeline` cuts a list into). Hence `FailFast`, `NeedsHonoured`, `ReceiptHonest` and
  `ExitOnlyWithYes` for any recipes, registry, pipeline depth, connections and faults. What
  the run takes for granted of its plan (`PlanSound`) is what RecipePlanProofs proves of the
  planner, and it stays in hand for the whole run (`PlanStaysSound`); the one assumption is
  that recipes have the fields their type gives them (`RecipesAssumption`). That something
  which quits the app needs `--yes` is proved, from `annotate` itself and the
  registry's built-in `shutdown` (`RegistryAssumption`, registry.rs:190).
- **RecipeRunProofs**, what is sent once. `OnceInv`: the line of a step in a chunk of several
  is at one place at most, of all that was performed and all that is on any connection
  (`Single`), and while the call has it still to write it is at none (`Unsent`). A try that
  starts over has written nothing, or its chunk is the odd single line at a wave's end
  (`LoneChunk`), and a wave's lines are nowhere when the run comes to it, by `LinesInv`
  (`FreshStep`). Hence `PipelinedOnce`, although lines of a dropped connection may still be
  performed later.
- **RecipeRunProofs**, what a repeat costs. `CostInv` keeps accounts for each step: its lines
  performed or still on their way are at most one more than the faults so far (`Spent`), and
  while the call may write it again they are at most the faults (`Owed`); a chunk of one line
  that waits unanswered on a connection that is gone has its fault paid for (`LoneInv`). A step
  of the peer only moves lines or loses them, shown by injections between the places before
  and after (`LinesMove`), and a fault pays for whatever it makes the client write again
  (`CostPaid`). Hence `RepeatsCostFaults`, and with `PipelinedOnce` `RepeatsEarned`. The
  bound is tight: TLC reaches three performances with two faults.

Only model-checked, and why:

- `NamedIsChosen` and `QuotedTextIsData` say what scores over sets of words, `SelectSeq`
  and nested scans of a goal come to. The prover knows no fact about `SelectSeq` and
  cannot instantiate the library's induction for folds.
- `StepMeansItsParts`: `parse_wants_step` is a fold over a record of several fields, which
  the provers do not open. The property compares it with a definition by what each part gives
  (`OpMeant`), for the four operations that read flags and one that reads nothing. Order is
  not free in the code, and the property says so: `assert btn --id x` is accepted and
  `assert --id x btn` is refused (recipe.rs:767, 825), the last of several values counts, and
  a bare `true` or `false` behind a switch belongs to the switch.
- Every liveness property (`EveryRequestSettled`, `RunEnds` and their like): fairness and
  ENABLED are outside the prover's reach.

## 6. What is not modelled, and why

Screenshots of the window and virtual input: one system call, and geometry (where a virtual
click lands is the node of the id it was planned for). The bodies of
`diff_trees`, `apply_diff` and `fingerprint`, compact text and JSON: computations over
whole trees of strings; HostSession takes diffs as exact. How tokens and HMACs are
computed: pure functions of one line; DirectServer has what a refusal does. Durations: a
timeout may fire at any time. Poisoned mutexes, but for the daemon's (DirectServer). The
human's keyboard in the embedded desktop app, in particular a key press between an agent's
dispatched Action and its `finish_keybinding_fire`. Unicode folding, stemming and
punctuation of words. Loading of recipe files, and the fields `materialize` only moves. The
command line's mapping of arguments to calls. Benchmarks. `PROJECT.json` lists every
component with its status.

## 7. Plan

Done: the control plane's core (mailbox, both servers, wait_until), sessions and gate,
store, bridge, events, scrolled screenshots, framing, client, discovery, recipes from text
to receipt, the policy from goal to verified effect, with the proofs above.

Next, in order of importance:

1. Proofs: one row per step of a run of RecipeRun; `StepMeansItsParts`, by the induction over
   positions that AlgorithmsProofs has for the tokenizer.
2. *TreeDiff*: `diff_trees`/`apply_diff` and `fingerprint` over small trees, checked as
   inverse functions; this discharges what HostSession assumes.
3. *DesktopKeybinding*: human keys and agent keybindings in one window.

# NEXT HMI: models, checks and proofs

NEXT HMI is a builder and runtime for operator panels (HMIs). This directory
holds TLA+ models of the parts of it whose correctness depends on the order in
which things happen, TLC configurations that check them on small instances, and
TLAPS proofs about them for instances of any size. Sources are named by their
path in the repository, with `backend/` for `src/backend/`.

## 1. The system

One **manager** process serves the project dashboard and is a reverse proxy. For
every running project it keeps one **instance** process (the same code base,
started with `launcher.py --serve-project`) that talks to PLCs over OPC-UA,
evaluates alarms, records history and serves the panels over one WebSocket per
browser tab. Projects are folders of JSON files; the manager's own file,
`manifest.json`, lists them and records which should be running. The manager also
hosts an MCP server through which agents edit project files, and exchanges whole
projects with managers on other machines (peers).

A project is edited in the browser: an editor tab holds a working copy of the
pages, and saves it document by document to the project's API. Agents write the
same documents through MCP, and other tabs do.

Concurrency comes in four kinds. The manager's supervisor is called from
threads: one per request, one monitor, one per resumed project. In an instance,
sockets, API coroutines and OPC-UA callbacks share an event loop, which a handler
gives up at each `await`. And the two meet: synchronous routes run in a pool of
threads, alarm acknowledgements and password hashing in `to_thread` workers, the
manager's MCP server in another process that writes the same files. Browsers hold
copies of all this state and learn of changes late, in batches, or not at all.

### 1.1 Components

State is what survives between two operations; "correct" is what has to hold for
the component to do its job. The last column says where it is modelled.

| Component (source) | State | Operations and who calls them | Correct when | Model |
|---|---|---|---|---|
| Project supervisor (`services/supervisor.py`) | `_instances` (status, process, port, restart times), `_stopping`, operation locks, monitor thread | `start`, `stop` (REST threads), `resume_all`, `shutdown` (lifespan), `_monitor_loop` | one child per running project, none of a stopped or replaced one, crashes are handled within a budget, every call returns | `Supervisor` |
| Manifest (`core/manifest.py`) | projects, running set | transactions under a thread and file lock | the running set names what has to come back | `Supervisor` (running set) |
| Project API (`api/projects_api.py`) | project folders | create, import, rename, duplicate, delete | a project in use is not deleted | `Supervisor` (delete) |
| Peer transfers (`api/manager_peers_api.py`) | three journals, staging and backup folders | send, receive, pull, cancel, reconcile at boot | a failed or interrupted install leaves the old project or the new one, and the journal says which | `PeerTransfer`; `Supervisor` (exclusion) |
| Peer trust, discovery | trust records, peer table | pair, revoke, probe | - | not modelled |
| Front door (`manager.py`, `core/manager_auth.py`) | sessions in signed cookies, login throttle | gate, proxy, `/ws` pump | - | lifespan in `Supervisor` |
| MCP server (`mcp_server/`) | artifact locks, idempotency cache | tools that edit files | a retry does not write twice; changes reach the child in order | `EditorProject` (another writer) |
| Datasource manager (`services/datasource_manager.py`) | registry, value cache, static values, listeners | values from OPC-UA, writes, saves of datasources | the cache holds the latest value; listeners hear of it | partly `AlarmManager`, `PanelLink` |
| OPC-UA engine and pool (`opcua/`) | client, subscriptions, priority paths | connect, reconnect, promote, demote, close | every enabled variable has exactly one monitored item | `PanelLink` (its reports and reads) |
| Write service (`services/write_service.py`) | none | write, toggle, verify | what is written is what was asked, or the panel is told that it was not | `WriteCoercion`, `WritePath` |
| Recipes (`services/recipe_manager.py`) | datasets, loaded state | download, upload, edit | an edit is not lost; what is recorded as loaded was | not modelled |
| Alarm manager (`services/alarm_manager.py`) | definitions, active alarms, history, `alarm_state.json` | value changes (event loop), saves (thread pool), acknowledgements (workers), reload | see section 3.2 | `AlarmManager` |
| Historian (`services/historian_manager.py`) | buffer, SQLite file | sample, flush, retention, stop | a sample is stored once | not modelled |
| Sign-ins (`services/websocket_manager.py`, `services/users_manager.py`) | `_connections`, `_client_users`, `_client_panels`, `_sessions` | login, logout, resume, panel sign-in and sign-out, refresh | see section 3.3 | `Sessions` |
| Broadcast hub (same file) | pending value maps, page contexts, page configuration cache | enqueue, flush, connect, set_context, recompute | a panel ends up with the values of what it shows | `PanelLink`; alarm updates in `AlarmManager` |
| Users (`api/users_api.py`, `core/users_document.py`, `core/user_auth_throttle.py`) | `users.json`, failed attempts | writes, authenticate | an attempt under lockout is refused | writes in `Sessions` |
| Page documents (`api/config_api.py`) | `config.json`, page files, revisions | read, save the index, save a page | a save does not replace what its sender has not seen | `SharedDocument`, `EditorProject` |
| Editor store (`frontend/src/shared/store/configStore.ts`, `projectStore.ts`, `config/utils/editorLiveSync.ts`) | working copy, undo history, dirty and loaded pages, revisions | edit, undo, save, live reload, fetch | what is unsaved is known to be; nobody's change is lost | `EditorProject` |
| Editor tree (`configStoreHelpers.ts`, `config/components/editor/WidgetTree`, `clipboardDispatch.ts`) | pages, groups, widgets, clipboard | drag, paste, duplicate, delete | a move loses nothing, ids stay unique, changed pages are dirty | `WidgetTree` |
| Panel frontend (`frontend/src/hmi`) | socket, value store, frame queue, pending writes, session storage | connect, frames, navigate, write | see sections 3.6 and 3.7 | `PanelLink`, `WritePath`, partly `Sessions`, `AlarmManager` |
| Widgets (`services/widget_compiler.py` ...) | compiled modules, status | compile, scan | the module is that of the source | not modelled |
| Validation, manager frontend, property editors, launcher, TLS, migrations, themes, build | | | | not modelled, see section 7 |

`PROJECT.json` has the complete list under "components".

### 1.2 Interactions

- A REST thread starts a project: supervisor, manifest, child process, health
  check over HTTP. The crash monitor does much of the same without the operation
  lock, while a transfer or a deletion touches the project's folder.
- A value arrives from the PLC: engine, datasource manager (cache, then
  listeners), alarm manager (evaluate, save, broadcast) and historian, then the
  hub's batches and the panels.
- An operator acknowledges: socket handler, worker thread, alarm manager, audit,
  broadcast through `call_soon_threadsafe`.
- An operator signs in on one screen of a panel: password hash in a thread,
  session, identities of every socket of the panel, answers to every tab. A write
  of `users.json` in the thread pool is followed by a refresh on the loop.
- An agent edits a file through the manager's MCP server, which posts to the
  child's reload hook; the editor may be saving the same file to the child.
- An author edits: working copy, undo history, dirty pages; a save sends the index
  and each dirty page with the revision it was read under. A change event from
  another writer makes an editor without unsaved changes fetch anew, one with
  unsaved changes show a banner.
- A manager sends a project to a peer, or fetches one: the archive over HTTP, a
  staging folder, renames, the manifest, the journal, the supervisor's start; at a
  manager's start the reconciliation, before `resume_all`.
- An operator writes a value: a check in the panel, a frame, the write service,
  the controller, and an answer that the dispatcher awaits for ten seconds.

### 1.3 Hard behaviours

`PROJECT.json` lists the hazards at their lines. In short: the monitor's sleep
between forgetting a dead child and starting another; waits outside a lock; a
manager that is killed; saves that raise halfway; ids that are given back while a
request that names them is on its way; audit events after the lock is released;
identities listed before an `await` and written after it; tabs that reload in the
middle of all this; edits, undos and reloads during a save of several requests, of
which some fail and some are carried out with their answer lost; moves whose
target the move itself takes away; batches, snapshots, removals and page contexts
that overtake each other, across two connections and a queue that a hidden tab
does not empty; answers to writes that time out or lose their connection while
handlers make new ones; an install of several renames and journal writes, any of
which fails or is the manager's last.

These hazards are real as well; no model reaches them yet, and they are not in
`PROJECT.json`, which keeps to those some property covers and the most serious of
the others: a save that raises inside `ack_alarm` (`alarm_manager.py:438`); a
definition that is deleted under its active alarm (`:156`); a reload that reads
`alarms.json` before a save and applies it after (`api/internal_api.py:67`); the
refresh that writes back identities it listed before an `await`
(`websocket_manager.py:1153`) and a panel sign-in that is overtaken (`:1103`);
writers of `users.json` in a thread pool without a lock (`users_api.py:308`); an
invalidation of the page configuration cache that a running read undoes
(`websocket_manager.py:1309`); a historian's batch lost with a failed insert and a
stop during its flush (`historian_manager.py:209`, `:149`); two recomputations of the
priority set (`websocket_manager.py:557`); a connect, a status change and a
disconnect that all close an engine's client (`opcua/engine.py:430`); two starts of
one engine (`opcua/pool.py:33`); two saves of one datasource that apply deltas of
the same old set (`datasource_sync.py:142`); an upload that replaces a recipe
edited meanwhile (`recipe_manager.py:311`); the lockout counted after the password
is hashed (`user_auth_throttle.py:68`); two retries of one MCP call in flight
(`mcp_server/idempotency.py:61`) and reloads announced by separate tasks
(`mcp_server/write_helpers.py:90`); two compilations of one widget
(`widget_compiler.py:675`).

## 2. Modules

| Module | What it is |
|---|---|
| `Supervisor.tla` | supervisor, running set, children, transfers and deletion as they exclude each other |
| `MCSupervisor.tla` | symmetry sets for TLC |
| `SupervisorProofs.tla` | types, the operation lock, the respawn budget, and what holds of the children and the running set, for every instance |
| `AlarmManager.tla` | alarm manager, its files, one display, acknowledging operators |
| `MCAlarmManager.tla` | two tags and two configurations that collide in their ids |
| `AlarmProofs.tla` | `slug_id`, and all the properties of the alarms, for every instance |
| `Sessions.tla` | sign-ins of sockets and panels, the tabs, `users.json` |
| `MCSessions.tla` | symmetry sets |
| `SessionsProofs.tla` | types, what tabs show, and where revoked logins may be, for every instance |
| `SharedDocument.tla` | what revisions promise to those who share documents: the abstract specification of `EditorProject` |
| `EditorProject.tla` | an editor tab, the page documents on the server, other writers |
| `MCEditor.tla` | symmetry sets |
| `EditorProofs.tla` | types, flags, the undo history, the books of unsaved changes, and that the tab implements `SharedDocument`, for every instance |
| `WidgetTree.tla` | the editor's tree and what drag, paste, duplicate and delete do to it |
| `MCTree.tla` | a starting tree of two pages, one in a group, and nested containers |
| `TreeProofs.tla` | the tree stays a tree, no move loses a node, what changes is dirty, what is dropped lands where it was shown, for every instance |
| `PanelLink.tla` | values from the controller through the hub to a panel's store |
| `MCPanel.tla` | what the pages bind |
| `PanelProofs.tla` | all the safety properties of the value channel, for every instance |
| `WriteCoercion.tla` | what the panel and what the backend make of an entered value |
| `WritePath.tla` | a write and its answer, with time limits, lost connections and restarts |
| `MCWrite.tla` | the variables and values that are tried |
| `WriteProofs.tla` | what a panel is told of its writes is true, and its check is harmless, for every instance |
| `PeerTransfer.tla` | pushes and pulls to one destination, with journals, failures, crashes and retries |
| `MCTransfer.tla` | the requests that are tried |
| `PeerProofs.tla` | types, that no project is lost or left out of place by a transfer, and that its verdicts are true, for every instance |

Every module is written the same way: constants with named assumptions, variables
with the name of the code's variable they stand for, `Init`, one action per
handler or per part of a handler between two points where another one can run,
`Next`, `Spec`, the type invariant, the safety properties. Operators that no action
uses, most with a name in `Mutant`, are variants of a definition, each with a
plausible mistake; `PROJECT.json` names them under "mutants", and they serve to
test that the properties notice the mistake.

### 2.1 `Supervisor`

| Model | Code |
|---|---|
| `status`, `proc`, `port`, `error` | `ChildInstance`; the error by kind |
| `starts`, `autos` | `_restart_times`, the stamps of user starts and of respawns counted apart; `WindowSlides` lets one fall out of the window |
| `stopping`, `oplock`, `monstop` | `_stopping`, `_operation_locks`, `_monitor_stop` |
| `running` | `manifest.running`, the recorded port |
| `op[c]` | a request thread: what it does and its locals |
| `mon`, `shut`, `resume`, `phase` | the monitor thread, the shutdown, `resume_all` |
| `cond` | what `start`'s checks find: fine, refused by a guard, unusable (entry, folder or credentials), a format that needs a confirmed upgrade |
| `kid` | operating system processes, which boot, bind their port, serve and exit at any time |

A section under `Supervisor._lock` is one action. Waiting for health, terminating
a child and writing the manifest happen outside it and are steps of their own:
`start` is `Start`, `StartSpawn`, `StartHealthy` or `StartUnhealthy`,
`StartMarkRunning`, `StartUpsert`, with `StartTeardown` and `StartReap` after a
failed health check. `_handle_crash` is `MonHandleCrash` up to its sleep and
`MonStopped`, `MonRefused`, `MonRespawn` or `MonRespawnFails` after it. A process
id is reused only when no handle names it. Backoff times, log files and messages
are left out; a health check may fail at any time, as its deadline may have
passed.

### 2.2 `AlarmManager`

`config`, `active` and `history` are the manager's fields, `disk` is
`alarms.json` and `alarm_state.json`, `cache` the datasource manager's values.
`_lock` is taken by three kinds of threads. A handler that evaluates triggers
(`on_variable_change`, `evaluate_cached`) keeps it through a loop over
definitions, then saves and broadcasts: `work` is that handler, with the
definitions it has still to evaluate (`Fire`, `Clear`, `Keep`, then `Finish` or
`FinishSaveFails`), and the sections of other threads wait until it is
`NoWork`. `ack[c]` is a worker thread that acknowledges: asked, applied under the
lock (`AckApply`), audit event emitted after it (`AckEmit`). `queue` holds the
broadcasts handed to the event loop, `panel` and `view` one display with its
registration, its snapshot and what it shows. `Restart` ends the process anywhere
and starts one that loads `disk`. Slugs are sequences of their parts, so that the
second alarm `a` and an alarm whose own id is `a-1` can collide as in the code.
`SeedCachedValues` is the answer to a read that was made for a page context or a
saved datasource: it comes after any changes meanwhile and replaces the cached value
without a word to the alarms. `stale` (tags whose cached value has not been evaluated
under the present configuration) and `unsaved` are history variables that properties
refer to.

Left out: texts, levels and colours; several variables in one trigger expression
(a trigger compares one value); the time of day (`clock` ticks at each alarm fired
or cleared); the export of history.

### 2.3 `Sessions`

`loop` names the handler that runs until its next `await`, or `Free`. A handler
belongs to a socket, which handles one message after the other, or to an API
request: `task[k]` says where it is and holds its locals, among them the lists
that the code made before an `await` (`snap`, `pairs`, `clients`, `doc`), which
is where the difficulty lies. `held` is `_client_users`, by connection and scope
(a scope is one mount of the panel view in a tab), `sessions` the resumable
logins with the credential they were granted against, `panels` the connections
named for the panel, `doc` the users document. A tab has `sock`, `live` (the scope
it shows), `saved` (the token in its session storage) and `shown` (what it was
told). Sending is an `await`; a message to a closed tab is lost. `raced` is a
history variable: sign-ins that were revoked, or whose user was written, before
they were over, or that a panel sign-out ended in its last pass.

Left out: wrong passwords and the throttle; the expiry of a session that nobody
resumes for days; the auto-login user is guest throughout; audit events. A
message of a tab is sent and handled in one step, and a write of `users.json`
happens in one step, which is how a handler on the loop sees it: each loads the
document once.

### 2.4 `SharedDocument` and `EditorProject`

| Model | Code |
|---|---|
| `tab` (`place`, `shell`, `body`) | `configStore`: the index and the content of every page |
| `loaded`, `dirtyPages`, `revs` | `loadedPageIds`, `dirtyPageIds`, `indexRevision` and `pageRevisions` |
| `past`, `future` | the undo history, cut at `MAX_HISTORY` |
| `dirty` | `projectStore.dirty`; that `_dirtySeq` moved is `stale` in `save` and `sync` |
| `save` | the `saveAll` that runs: what it copied when it began, what is left to send |
| `sync`, `loose` | the live reload; any other fetch (`useConfig` at a mount, `loadPageContent`) |
| `news`, `banner` | change events on their way, the banner that warns |
| `disk` | `config.json` and the page documents of both directories |

A handler of the API holds the event loop from beginning to end, so a request is
one step of the server, and the steps of a save are its requests: `PutIndex`,
`PutPage` for each dirty page, `PagesDone`, `RestDone`. A request may fail, or be
carried out with its answer lost. A revision is a hash of the content; the model
takes the content itself. `disk.stamp` and `tab.seen` count changes by others and
are there for properties only, like `missed`, `forgotten` (documents whose change
the tab lost count of, section 6) and `unguarded`: documents that came into the
tab by a path that does not clear the history, that changed and came back to a
content the tab knows, which a hash cannot tell from no change, or that the tab
made anew where another writer had changed the one before.

`EditorProject` implements `SharedDocument`: the tab replaces a document only if
its copy reflects every change that other writers made to it. In the mapping
`reflects` is what the running save copied, else what the tab shows.

### 2.5 `WidgetTree`

`kids` is what every host holds, in order; nodes outside of every list are not in
the project. The operations are those of the store as the tree panel calls them,
with the checks of the panel, since the store makes some of them only through the
panel: `DragWidgets`, `DragPage`, `AddWidget`, `AddPageNode`, `DeleteWidgets`,
`DeletePageNode`, `DuplicateWidgets`, `CopyOrCut`, `ClearCut`, `PasteMove`,
`PasteCopy`. A move is a deletion and an insertion, as in the code, and so are its
effects on the books. `last` says what the last step was, for the properties.
A walk over the tree is `Below`, the nodes with everything under them, which grows
by what its nodes hold until it does not; document order is the order of two nodes
of one list with everything under them (`Precedes`); and what an edit makes of a list
is what it puts in the place of each node (`Spread`): nothing for a node that leaves,
two nodes for one that is duplicated.
A page has one section, a group one chrome area, the shell one region, and there
are no slots of component instances.

### 2.6 `PanelLink`

`hub` is one panel's part of the broadcast hub: the value cache, the two pending
batches, `_connections`, what `connect` has still to send, the `set_context` that
is handled and the reads it started (`prefetch`). `wire` and `uplink` are the
socket. `queue` is what waits for the next animation frame and `panel` the store:
values with the socket they came on, the snapshot it has (`gen`), the pages that
are ready, the page that is shown, the context that was asked for. A value is the
number of the change that made it. `ConnectionLost`, `DropClient` (the hub gives up
a client whose send takes too long), `Restart`, `Disable` (an edit that removes a
variable) and `Navigate` are the environment. `late` is a history variable.

### 2.7 `WriteCoercion` and `WritePath`

The two coercions, `coerceOpcuaWrite` of the panel and `coerce_entry_write_value`
of the backend, are operators over values that are landmarks on an axis: the
limits of the types, of the integers a JavaScript number holds exactly, of the
configured ranges, a fraction and the float32 beside it, and what overflows.
`Double` and `Float32` round as the languages do, and `Framed` is JSON, which has no
NaN. A bound of a range is the number of its JSON text; `PanelEntry` is the descriptor
as the panel has it, with the doubles of these. JavaScript saves a bound of 2^63 as
9223372036854776000, a landmark of its own. `WritePath` puts them at both ends of a connection: `pending` is the
dispatcher's table, `handlers` the writes that the backend awaits, `landed` what
the controller took. The handlers of an outcome may write in turn, which is the
hard part of `flushAllAsDisconnected`. Left out: frames that queue behind one that is
being handled are lost with their connection, though the server may have received them
and handle them yet. Such a write would land after its request was told lost, as one of
`handlers` may; no property depends on it.

### 2.8 `PeerTransfer`

| Model | Code |
|---|---|
| `ask` | what a transfer is: push or pull, conflict policy, start afterwards |
| `target` | the identity of the destination folder (`_directory_identity`), `None` where there is none |
| `backup`, `aside` | the transfer's backup folder, and where the reconciliation quarantines an install |
| `listed`, `running` | the manifest's entry, and the supervisor's word |
| `journal` | the receiver's two journal files, of received pushes and of pulls, by transfer |
| `run` | where `_stage_and_install` or `_run_pull` is, and how many attempts there were |
| `manager`, `todo`, `mem` | the reconciliation at a start: what it has still to look at, and the entries as it has changed them in memory |
| `sender` | a push on the sending side: its state, what its journal says, the answer, and whether it still asks the receiver |

From the renames to the journal's last word `_stage_and_install` does not give up
the event loop, so nobody comes between its steps (`Busy`); a crash does, and each
step is an action so that it can. The awaits are the download, the unpacking in a
thread and the wait for the locks after it, and the supervisor's start. Each
journal write (`Note`) is a step before the one that it announces; any of them, a
rename, an undo, or the write that reports a failure may fail (`Fails`,
`FailsLate`, and the second half of `UndoInstall`, `UndoBackup`, `GiveUp`,
`Settle`, `SettleCommitted`). `Crash` may come anywhere, in the reconciliation
too, which keeps its verdicts in memory until each journal is written as a whole
(`WriteReceipts`, `WritePulls`). The reconciliation is `ReconcileUntouched`,
`ReconcileCommitted`, `RestoreBackup`, `Quarantine` or `RequireRecovery`, by what
journal, disk and manifest say together. A sender may lose the answer, give up,
retry under the same id and ask for the outcome.

Abstractions: `claimed` and `validated` are `extracting` and `queued` is
`downloading`, which no branch tells apart; `cancelled` is `error`; `copy` is
`reject` under another id; a directory's identity is not given to another one
later; failures and crashes share one bound. Left out: a second retry of an
applied transfer while the first waits for the start, removal of staging
containers, pruning of old entries, tokens other than their revocation.

## 3. What is checked

TLC 2 with two workers; the numbers are distinct states of one such run.

### 3.1 Supervisor

| Run | Instance | States | Shows |
|---|---|---|---|
| `sup_lifecycle` | 1 project, 2 threads, 2 ports, 2 processes, 1 restart, 2 stamps; no start request after the resume; fairness | 33,742 | the first five properties below |
| `sup_reboot` | 1 project, 1 thread, 1 process, 2 restarts, 3 stamps, 2 manager processes, failing spawns, kills, unkillable children | 500,664 | `TypeOK`, `RespawnBudget`, `RunningIsRecorded` |
| `sup_two_children` | 1 project, 1 thread, 3 processes | | violates `OneChildPerProject` |

- `OneOperationPerProject`: the thread inside start, stop or replacement is the
  one that holds the operation lock, on every path in and out.
- `OneChildPerProject`, `DownIsDown`, `ShutdownTerminatesAll`: while the monitor
  may be anywhere in the handling of a crash, there is one child, and none after a
  stop, during a replacement, at a deletion, at the manager's exit.
- `NobodyHangs`: no request and no crash handling hangs, and a running project
  always has a monitor.
- `RespawnBudget`: at most `_MAX_RESTARTS` respawns in a window, whatever users do
  during the backoff.
- `RunningIsRecorded`: once its start has returned, a project is in the running set
  as long as it runs and at every step of the monitor's restarts, so that a manager
  that dies then is followed by one that resumes it. A manager that dies within a
  first start loses the project (section 6). `sup_reboot` has no stops; with them
  the property is false (section 6).

`sup_lifecycle` excludes starts after the resume, because with them
`OneChildPerProject` is false, which is what `sup_two_children` shows
(`supervisor.py:467`): a start that lands in the monitor's sleep finds no live
child and spawns one; the monitor then spawns another and loses the handle of the
first. For the same reason a stop and a failing start during the sleep make the
project look fully stopped, and the monitor spawns in the folder that is being
replaced (`:443`), which the transfer's comment argues cannot happen.

One project and two request threads are enough for these: operations on different
projects share only the monitor, which handles them one after the other, and
ports. Two stamps beside `MaxRestarts = 1` let the breaker trip and not trip. The
second manager process in `sup_reboot` is the point of that run; a third would
only repeat it.

**Fairness** (`FairSpec`). Strong fairness for each request thread: its waits have
deadlines, and it waits for an operation lock that others release again and again.
Weak fairness for the monitor thread, the end of the resume and the passing of
time. No fairness for requests, crashes, health or the environment.

### 3.2 Alarms

`alarms`: two tags (one OPC-UA, one static), two definitions with colliding ids
or one definition bound to the other tag, two operators, one display, a history of one
entry (500 in the code), four alarms fired or cleared, one edit or failed save or
restart, one queued broadcast; 1,268,488 states.

- `AlarmsAreDistinct`: one active instance per alarm, and no two instances of one
  id, active or past: what acknowledgements by id rest on.
- `AlarmFollowsTag`: once its tag has been evaluated under the present
  configuration, an alarm is active exactly while the cached value triggers it,
  also after restarts, evictions and silent seeds of static values. A read that
  replaces the cached value of an OPC-UA tag makes it stale again: the alarms do not
  follow it (section 6).
- `DiskIsCurrent`, `OccurrencesStand`: a crash loses no alarm, no acknowledgement
  and no captured value. The second is about steps and holds across restarts: an
  alarm leaves the active ones only for the history, an acknowledgement is not
  taken back, a captured value does not change.
- `TrailAgrees`: the audit trail never names another operator than the state, nor
  two of them.
- `ViewIsCurrent`: whatever the order of registration, snapshot and broadcasts, a
  display shows the active alarms when the queue is empty.

The bounds: two definitions are what an id collision takes, and four clock ticks
let one alarm fire, clear, fire and clear, or two do so once, with a history that
overflows. One edit at a time meets every state of the rest; more edits in a row were not
run. A queue of one still lets a broadcast wait while other threads go on.

### 3.3 Sign-ins

`sessions`: two tabs of one panel, one user, three connections, two mounts a tab, two
sign-ins, two API requests (symmetric), two events among panel sign-in,
panel sign-out, deletion of the user, closing a tab, dropping a connection;
505,074 states.

- `RevokedIsOut`: when the handlers are done, no connected scope holds a revoked
  login, and no connection is signed in as a deleted user, dropped connections
  included.
- `TabShowsWhatIsHeld`: a connected tab shows the identity the server holds, and a
  reload would resume it.

Both are about quiet states, since during a reset they are false by design. The
first excepts a sign-in that was overtaken while under way (`raced`).

`sessions_old_password` violates `OldPasswordIsOut`: a monitor that reloads after
the new password was written and before the refresh runs deletes the outdated
login, the refresh no longer finds it, and the panel's other monitor stays
signed in with the old password.

Two tabs suffice for one to act while the other is being reset. Three connections let a tab
that closed come back while the handler of its old socket still runs. Two
sign-ins give a login that is replaced. No fairness is assumed and nothing is
claimed to happen eventually.

### 3.4 The editor and the page documents

`editor`: two pages, two steps of the author and their redos, one change by
another writer, one upset (a request that fails or whose answer is lost, a lost
event, or a fetch beside the live reloads); 1,312,058 states.

- `NoEditForgotten`: a page whose content differs from the server's, with nobody
  else's change in between, is one that the next save sends; and when the editor says
  that nothing is unsaved, the server holds what the tab shows, whichever requests
  failed and whatever was edited, undone or reloaded meanwhile.
- `ReloadKeepsEdits`: a live reload that meets an edit made while it was fetching
  takes nothing away.
- `UndoKeepsOthers`: undo and redo never step back over another writer's change.
- `ReplacesNothingUnseen`: the refinement of `SharedDocument`.
- `ChangesAreNoticed`: when the events were heard, the tab shows every change by
  others or has warned.

The first excepts `forgotten`, the others `unguarded`: each of the places where
a document gets there is a defect that section 6 describes, and `editor_midsave`
shows the first of them as a finding, with one page and no other writer: a page
that is edited while its own request is on its way is taken off the dirty pages.
Two pages let one be saved while the other fails, moves or is edited; two steps of
the author are an edit and its undo, or an edit before and one during a save; one
foreign change is what a revision can miss. Three steps or two changes take longer
than a run should: for those all the properties are proved (section 4). The proofs
found cases that the run is too small for: the last two of `unguarded`, which need
two foreign changes, and one of `forgotten`, a page that is fetched at its first
visit over a change which the tab has seen of it.

### 3.5 The editor's tree

`tree`: two pages of which one in a group, four widgets of which three containers,
two groups, two changes, one filled clipboard, batches of two; 87,317 states.

- `TypeOK` includes that no id occurs twice, which every walk of the code relies
  on, after any copy, duplicate, cut and paste.
- `MovesLoseNothing`: a batch that lands in a host which the batch itself removed
  would be gone.
- `ChangedPagesAreDirty`: of every page whose widgets change the save knows, the
  giving pages included; nothing but its deletion takes a page out of the books,
  though a move of a group is made of a deletion and an insertion.
- `LandsWhereShown`: what is dropped at the edge of a row lands together at that
  edge, though the indices shift as the batch is taken out.

Batches of two with containers nested twice give every relation that matters: one
inside the other, siblings on both sides of the target, two hosts. `StaleCuts =
FALSE` leaves out the paste of a cut whose source was changed since; with it the
ids are not unique (section 6).

### 3.6 Values to a panel

`panel`: two variables, a page that binds one and a page that binds both, two
events of which one fault, two frames on their way; fairness; 622,483 states.

- `ReadyMeansDelivered`: a page that is shown as ready has in the store the values
  that the hub sent for it.
- `NothingOfAnEarlierSocket`: after the snapshot of a connection no value of an
  earlier one is in the store or comes back, frames queued in a hidden tab included.
- `TheLastFrameCounts`: collecting frames for an animation frame loses none.
- `PageSettles`: the page that is shown becomes ready, as long as it is shown and
  the connection holds, also when its variables cannot be read; and it stays so: the
  answer to a superseded context does not put its spinner back.

**Fairness.** Weak fairness for the hub's greeting of a socket, its handling of a
context and its reads (an event loop runs them), for the browser's delivery of
frames, its effects and timers, and for the flush of the queue: a hidden tab comes
to the front sooner or later. None for the broadcast loop and the news of a
datasource edit, which no page waits for, nor for reports, navigation, loss and
reconnection.

### 3.7 Writes

`write`: two requests, the second of which may be the first one's handler, one
loss of the connection or restart; every type with its documented mislabels, every
shape, ranges, and values of every kind at the landmarks; 1,029,453 states.

- `PreflightChangesNothing`: where the panel and the backend were told the truth
  about a type (or nothing), the panel's check neither refuses nor changes a value
  that the backend would have taken. `ComparedAlike` leaves out the places where
  rounding makes the two compare different numbers (section 6): a range that only one
  side finds crossed, digits that no double holds next to a bound that is none, and
  such digits for a Float of which the panel knows only the range. The run has cases
  of each, and without any one of the three the property fails.
- `AnswersAreTrue`: what a panel was told is final; what it was told has succeeded
  is in the controller, and what it refused itself never gets there.
- `EveryWriteIsTold`: each request that waits is told, also one that a handler makes
  of the loss of the connection.

**Fairness.** Only the ten-second timers are fair: every request is told even if
nothing else ever happens.

### 3.8 Peer transfers

`transfer`: two transfers to one destination (an install and a replacement, two
replacements of which one is pulled, an install pushed and one pulled), two attempts
each, two failures or crashes; 1,383,637 states.

- `ProjectInPlace`: where nothing is at work and nothing waits for an administrator,
  the manifest names the project exactly if its folder is there, whatever failed and
  wherever the manager died; no transfer is installed twice, however often it is
  retried; and a running project is never moved.
- `NothingIsLost`: no step takes a committed project or a backup off the disk.
- `VerdictsAreTrue`: what the receiver's journal or the sender reports as installed
  has been installed, and, where at most two things went wrong, an attempt that is
  reported as failed left neither its directory nor the old project in a backup.

Two transfers give every conflict of two, and two attempts a retry that meets what
the first one left. Two troubles let an operation and its undo fail, an operation
fail and the manager die, or the manager die in an install and again in its
reconciliation. With three, an entry can say "error" of what was not undone (section
6), which is why `ProjectInPlace` and the second half of `VerdictsAreTrue` speak of
at most two; `NothingIsLost` and the successes of `VerdictsAreTrue` hold of any
number. No fairness is assumed.

### 3.9 Deadlock

The bounds stop the author, the operator, the faults and the other writers, and
then the system rightly has nothing left to do; deadlock is therefore not checked.
Waiting forever is excluded by `NobodyHangs`, `PageSettles` and `EveryWriteIsTold`
where the code promises it.

## 4. What is proved

Every safety invariant and action property that a passing run checks is a theorem
for every value of the constants, except those named at the end of this section.
All follow the same plan: an invariant that is inductive, one lemma per action or per
group of actions, and the temporal step at the end.

### 4.1 Supervisor

From `ParamAssumption` (the bounds are natural numbers) and `NullAssumption` (the
null values are none of the real ones). `SupervisorProofs`:

- `TypeCorrect`: `Spec => []TypeOK`. Inductive with `HandlesSpawned`: a thread that
  waits for a child waits for one that was spawned, else the step in which the
  child dies would not be typed.
- `OperationsSerialized`: `Spec => []OneOperationPerProject`, which is inductive
  given types: only a thread's own steps change its place or the lock it holds.
- `RespawnsBounded`: `Spec => []RespawnBudget`. Not inductive alone, as the
  monitor checks the budget before its sleep and spends it afterwards;
  `BudgetInv` adds that while it sleeps the budget has room, which no start or
  stop of a user takes away.
- `OneChild`, `DownStaysDown`, `ShutdownIsComplete`: `OneChildPerProject`, `DownIsDown`
  and `ShutdownTerminatesAll` where `Orderly`: no starts after the resume, no child
  that survives SIGKILL, and no manager after one that was killed. The first is what
  `sup_two_children` needs to be violated; without the others TLC finds two children
  or one left over at once. `Owned` says that the supervisor has the handle of every
  live child. It is inductive only with what each thread and the monitor know of a
  project: while the monitor handles its crash there is no live child, and the status
  says so unless a stop came in (`HandInv`); a resume finds what it starts untouched
  (`AwaitInv`); a project that is being stopped has a child only as long as somebody
  waits for its end (`StopInv`); a shutdown spares nobody and nobody spawns beside it
  (`ShutInv`).
- `RunningSurvives`: `RunningIsRecorded` where nobody stops projects, with starts,
  kills and any number of managers. `RecInv` adds that `resume_all` starts a project
  once, that what a thread is about to record is a port, and that the monitor restarts
  only what is recorded (`ListedIsRecorded`). With stops it is false:
  one that meets the monitor between the respawn and the record leaves a project
  that is "running" without a child or a record (section 6).

### 4.2 Alarms

From the assumptions of `AlarmManager` (bounds, static tags are tags, null values,
slugs are sequences of numbers). `AlarmProofs`:

- `AlarmTypeCorrect`, `AlarmsDistinct`, both from one inductive invariant
  `IInv == TypeOK /\ Busy /\ Good(SavedState) /\ Good(disk.state)`. `Good` says
  that a state has finitely many active alarms, one per alarm, and unique ids. It
  has to hold of the file too, as a restart brings it back; finiteness is what
  makes `slug_id` find a free id. `Busy` says that the handler with the lock has
  room for what it has still to do. `SlugFree`, `SlugFirst` and `SlugIdFresh` prove
  what `slug_id` returns, by the pigeonhole principle and the least number
  principle of the library: a slug that is not taken.
- `SavedIsCurrent` and `ViewsAreCurrent`, from `Current`: between handlers whose save
  did not fail, the file and the last queued broadcast both have the state in memory.
- `AlarmsFollowTags`, from `Follow`, which is the property for every definition that
  the present handler is through with (`Evaluated`), and whose tag no read has replaced
  since.
- `DiskStands` and `TrailsAgree`, from `Accounted`: what the file says of an occurrence,
  what the audit trail says and what a worker is about to say all hold of the state
  in memory (`Keeps`, `Claimed`). `Evolves` is what one step may do to that state, one
  lemma for each action, and `Stands`, which is transitive, what a later record has
  to keep of an earlier one.

### 4.3 Sign-ins

From the assumptions of `Sessions` (bounds; null values; which tabs are of the
panel; requests are not connections). `SessionsProofs`:

- `SessionsTypeCorrect`: `Spec => []TypeOK`, and `TabsAreTold`:
  `Spec => []TabShowsWhatIsHeld`, for all events. `SessionInv` types each handler by
  what it is doing (`JobOK`), and `ToldInv` says that the only scope for which tab and
  server may differ is the one whose sign-in was stored and will be announced when
  its reset is over (`Announces`).
- `RevokedGoesOut`: `RevokedIsOut` where no password and no group is changed
  (`OnlyDeletes`). `ComingInv` says that whoever still holds a login that is gone is on
  the list of a handler that has yet to come to them: a reset (`Resets`) or the refresh
  after a deletion (`Removes`). A list is made before an `await` and used after it, so
  that also what was made since has to be covered; `Ordered` says that a handler
  looks at the connections that came later. `TokenInv` gives a token to one sign-in,
  `OwnerInv` one user to a token, `PlanInv` says that such a refresh only signs out.
  With changes of passwords or groups the property is false, as section 6 and
  `sessions_old_password` show.

### 4.4 The editor

From the two assumptions of `EditorProject` (bounds; the null contents are none of
the real ones, and the changes of other writers are new). `EditorProofs`:

- `EditorTypeCorrect`: `Spec => []TypeOK`, from `TypeInv`, which types every document
  by what has been written so far, so that a new change is new to everyone.
- `EditsSurviveReloads`: `Spec => ReloadKeepsEdits`. `FlagsInv`: a save that runs is of
  unsaved changes, and a reload that runs beside unsaved changes is marked stale.
- `OthersSurviveUndo`: `Spec => UndoKeepsOthers`. `SeenInv`: every step of the history
  reflects the same foreign changes as the tab, except of unguarded documents.
- `EditorKeepsTheSharedDocument`: `Spec => ReplacesNothingUnseen`, the refinement.
  `Knows` says what a revision tells: whoever holds the revision that a document
  still has, has seen every foreign change to it. That is stated of the tab
  (`TabKnows`), of the save that runs (`SaveKnows`) and of a reload that is not stale
  (`SyncKnows`), each of which becomes the tab's knowledge when it ends. It rests on
  `Placement`: a page has one document, in the directory of its root, and that is
  where a running save will write it, since `put_config` moves documents before
  the pages are sent and other writers only remove pages.
- `OthersAreNoticed`: `Spec => []ChangesAreNoticed`, with `OnItsWay`: a reload that
  runs, is not stale and will not run again brings every change.
- `EditsAreKept`: `Spec => []NoEditForgotten`. `BookInv` follows the content of a page
  from the tab through the running save to the server: what differs from the server
  is dirty (`CoverInv`), a page that the save has in flight is dirty and the same in
  both (`FlightInv`), a page that is not in its index is dirty (`NewPages`), and as long
  as nothing was edited the save holds what the tab shows (`SavedCopy`). `AgesInv`: no
  copy reflects a change that has not been made.

### 4.5 Values to a panel

From the assumptions of `PanelLink` (bounds; finitely many variables, and bindings
to them). `PanelProofs`:

- `NoEarlierValue`: `Spec => []NothingOfAnEarlierSocket`. The store alone is not
  inductive: what is queued in a hidden tab reaches it later. `GenerationsInv`
  adds that once the snapshot of a socket is queued, all that is queued came on
  that socket, and that both generations are at most the number of sockets.
- `LastFrames`: `Spec => []TheLastFrameCounts`.
- `PanelTypeCorrect`: `Spec => []TypeOK`, from `PanelTypes`.
- `ReadyPagesAreComplete`: `Spec => []ReadyMeansDelivered`. `ReadyInv` follows each
  variable of a ready page on its way: the panel has it, or a frame before the word
  that the page is ready carries it, or it is gone for the panel, for the hub and in
  every frame on its way (`Given`). That what is gone does not come back is
  `MetadataShrinks`.
- `PagesStaySettled`: `Spec => [][StaysSettled]_vars`, the safety half of `PageSettles`.

### 4.6 Writes

From the assumptions of `WriteCoercion` and `WritePath` (`Unset` is no number, a
bound, and the cases are variables and values of the kinds that the code can meet:
`Entries` and `Payloads`, with arrays of any length and words of any spelling).
`WriteProofs`:

- `WritesAreAnsweredTruly`: `Spec => AnswersAreTrue`. A request that waits may be
  told anything; `AnswersInv` says what is true of an answer on its way (`WireInv`:
  a success is about something that landed), that frames and handlers belong to
  requests that were asked (`UplinkInv`, `HandlersInv`), and that a handler holds no
  refused value, so that a write that lands can be told from none. It holds for
  any set of values and descriptors: the coercions stay unexpanded.
- `PreflightIsHarmless`: `Spec => []PreflightChangesNothing`, in four layers. `Ranks` and
  `Widest` order the landmarks. One lemma for each pair of the type that the metadata
  names and the one that the variable has (`TextForFloat`, `FloatPasses`,
  `IntegerPasses`, ...) takes a value that the backend takes and shows that the panel
  takes it for the same, and that the number which the panel compares with the range is
  the one that the backend compares; for `int64` it says which values are left to the
  second try with `uint64`. `ItemsPass` goes from items to payloads, through shape,
  first refusal and range on both sides. `HonestlyPaired` goes from what a browse said
  to the pairs, and `RangePasses` treats the fields of which only the range is known.
  `ValuesInv` is the invariant of the steps: handlers and controller hold what was
  entered or what was sent, and a request is told of a refusal only if there was one.
  The panel judges by rounded bounds: `RoundingKeepsOrder` says that a double keeps its
  place among them, and `RangeJudgedAlike` that the panel so takes what the backend
  takes, under `ComparedAlike`.

### 4.7 Peer transfers

From the three assumptions of `PeerTransfer` (requests, bounds, and the null
directory and the old project are none of the unpacked ones). `PeerProofs`:

- `TransferTypeCorrect`: `Spec => []TypeOK`, which includes that an attempt without an
  outcome is active in the journal, so that a restart looks at it.
- `ProjectsAreKept`: `Spec => NothingIsLost`. `RunsOK` says that at most one attempt
  holds the event loop, and none unless the manager is up; `FoldersOK` says what the
  one that holds it knows: that its backup is still to be made, that the
  destination is its own directory, or that it is empty. So what is removed to be
  undone is the attempt's own, a backup goes back only into an empty place, and the
  reconciliation sets aside only what the manifest does not name. `GoesOn` and
  `MovesOn` are the common part of all steps of an attempt.
- `ProjectsStayInPlace`: `Spec => []ProjectInPlace`. `PlacesInv` counts the troubles: as
  long as there were two, the manifest and the disk disagree only where the journal
  says so, or where the entry in memory of a reconciliation does (`OrderInv`,
  `NotedInv`); and the directory of an attempt is in one place (`OnceInv`).
- `VerdictsHold`: `Spec => VerdictsAreTrue`, from `VerdictInv`, which adds four parts to
  `PlacesInv`. `HonestInv`: a success that an entry, an attempt or an answer on its way
  stands for is a directory that was committed, and what was committed stays on
  disk, whoever replaces it later (`LandedStays`, from the proof of
  `ProjectsAreKept`); so it does not matter when the sender hears of it. `IdInv`: an
  entry that announced an install has the identity of the present attempt's
  directory. `EarlyInv`: with a phase before that, the directory has not moved in, even
  if an earlier attempt's journal is merged into a later one. `CleanInv`, for two
  troubles: a backup without its install belongs to an attempt in between, or the
  journal has its trace; so whoever writes "error", the attempt or the reconciliation,
  has undone it. `OwnClean`, `OwnFailed`, `ReconcileClean` and `ReconcileFailed` are its steps.

### 4.8 The editor's tree

From `TreeAssumption` (finitely many nodes, of kinds that are apart; a chrome area
for each group), `StartAssumption` (the tree at the beginning is one) and
`BoundsAssumption`, each theorem where `StaleCuts = FALSE`: a cut is pasted before what
was cut changes. With stale cuts `TypeOK` is false (section 6), and a tree that has a
node twice has no place for it to speak of. `TreeProofs`:

- `TreeStaysATree`: `Spec => []TypeOK`, unique ids included. `IInv` adds to it what a
  paste needs of the clipboard (`ClipInv`): its nodes are apart and of one kind, and so
  are the lists below them.
- `NoMoveLosesANode`: `Spec => MovesLoseNothing`, `WhatChangesIsDirty`:
  `Spec => ChangedPagesAreDirty`. `Kept` is what every step does, and `Booked` what it
  owes to the books.
- `MovesLandWhereShown`: `Spec => LandsWhereShown`. `StaysAt` says where in a list a row
  is when the nodes before it have left, which is what `IndexAfterRemoval` counts.

The argument is in three layers. `BelowIsLeast` says that what a walk comes to is the
least set that has the nodes it begins with and is closed under what its nodes hold.
The definition grows a set, and the prover has no induction for that; the proof takes a
counterexample with the fewest nodes still outside, which there is by the least number
principle, and grows it once more. All other facts about walks come from the least
set, without an induction of their own: two walks agree where their lists do, a walk from two nodes
is the two walks, a node is not below itself (`NotBelowItself`), what is reached has
one place (`ReachedIsPlaced`). The second layer is about any tree, whatever an action
takes for host and position: `MoveTree` takes nodes out and puts them in elsewhere,
`DeleteTree` drops them with what is below, `AddTree` and `CopyTree` bring new ones in;
each says that the result is a tree and what its walks come to. In the third, every
action is an instance of one of these: a paste of a cut, which deletes and inserts, is
the move of what was cut (`PasteIsMove`), since the clipboard has the lists that were
deleted; that is where the stale cuts come in.

### 4.9 Only model-checked

- Liveness: `NobodyHangs`, `EveryWriteIsTold`, and that a page becomes ready in
  `PageSettles`. They need fairness and ENABLED, which the prover does not handle.

Some properties are proved under a condition only, because the code breaks them
without it: `RevokedIsOut` where no password and no group changes; `OneChildPerProject`,
`DownIsDown` and `ShutdownTerminatesAll` where nobody starts a project after the resume;
`RunningIsRecorded` where nobody stops one; those of `WidgetTree` without stale cuts.

## 5. Plan

To model next, each with a run of its own where there is room:

1. `OpcuaEngine` with the pool and subscription deltas, and the read, modify, write
   of elements and bits.
2. Recipes, the historian, the login throttle, the MCP server's idempotency cache.

Compositions: `AlarmManager` includes the part of the datasource manager, of the
hub and of the audit trail that alarms depend on, `Supervisor` the part of the
manifest, of transfers and of deletion that children depend on, `PanelLink` both
ends of the value channel, `WritePath` both ends of a write, with both coercions,
`PeerTransfer` the sender, the receiver, its supervisor and its reconciliation, and
`EditorProject` the tab, the API and the other writers.

## 6. Disagreements with the code's own words

The findings of `PROJECT.json` have a run each. The following were found the same
way, by a run or on the way to one, and have none.

Supervisor:

- `start` marks a child as running before it records it (`supervisor.py:257`): a
  manager that is killed in between forgets a project that runs, although the manifest
  "is the source of truth for which projects should be up" (`:20`).
- A respawned child that exits or fails its health check is left at "starting",
  which no round of the monitor selects (`supervisor.py:468`), against the module's
  docstring (`:13`).
- A stop that meets the monitor's health check is undone: the monitor marks the
  project as running although its child was terminated (`supervisor.py:470`), and
  records it after the stop removed it (`:471`). No round of the monitor looks at it
  again, as it has no process.
- The breaker counts the first start (`:427`): it gives up after one restart fewer
  than the comment (`:55`) and `docs/dev/architecture/backend.md:304` say.
- A project can be deleted while its child is starting (`:258`,
  `api/projects_api.py:797`).
- A start that waits for its operation lock while `shutdown` takes its list leaves
  a child alive (`:545`).
- A spawn that raises ends the monitor thread (`:467`).
- `resume_all` keeps a project that a guard refuses (`:503`), which its comment
  explains and `backend.md:305` denies.
- A health check can be answered by another project's child (`:140`, `:381`).
- Orphans of a killed manager hold their ports and folders; the next manager starts
  others (`:475`).

Peer transfers:

- A replacement that is cut off between the journal's word `installing` and the
  rename, or in its rollback, ends in `recovery_required`, although a branch exists
  that would restore the backup (`manager_peers_api.py:1167`): the test for a
  committed install looks at the missing folder first and raises (`:1038`).
  `docs/dev/reference/peer-transfer.md:138` says that this is only for a state that
  cannot be proven safe.
- A pull that is cut off while it is queued or downloading ends there too: these
  phases are not in the set of `:1015`, whose comment says that nothing was moved.
- If an operation, its undo and the journal's `recovery_required` all fail, the entry
  says `error`, as if the install had been undone (found with three troubles).
- After a commit whose two last journal writes fail, the entry stays `active`; a
  retried pull is refused because the project exists now, and is journaled as an
  error though it is installed.

Sign-ins and alarms:

- An alarm instance takes the smallest free slug and gives it back when it clears
  (`alarm_manager.py:363`): an acknowledgement on its way reaches the next
  occurrence, which nobody has seen. `ack_alarm` (`:419`) calls a double click or a
  resent `alarm_ack` a non-event; it is one unless the alarm cleared and fired in
  between.

- The refresh after a group change can give a scope back a login that was revoked
  while it was sending (`websocket_manager.py:1153`).
- An alarm stays active when its definition is deleted or bound to another tag, or its
  datasource is removed (`alarm_manager.py:156`).
- A read that was made for a page context, or after a datasource was saved, is put in
  the cache without telling the listeners (`datasource_manager.py:1175`, from
  `websocket_manager.py:1187` and `datasource_sync.py:194`). It may be older than the
  cached value, which a change has set while it was awaited, or fill in for an evicted
  one: alarms, and the panels that show the tag, keep to the earlier value until the
  next change.
- A `set_config` whose save raises has replaced the definitions that the API returns,
  and not those that are evaluated (`alarm_manager.py:122`).
- `alarms.json` and the running definitions differ after a save that falls between
  the two halves of a reload (`api/internal_api.py:67`).

Editor (each makes a document `forgotten` or `unguarded`, or is left out by a guard
of the model):

- Undo or redo to an empty page takes the page off the dirty ones, though the server
  holds widgets (`restoreSnapshot`; its comment says the pages are marked).
- A page that was not loaded and is edited all the same is sent without its content
  and then counts as saved.
- `deletePage` keeps the page's revision: the undo of a saved deletion, or a new page
  of the same slug, is refused by the tab's own stale revision.
- A pasted copy of a page group leaves its pages neither loaded nor dirty, so they are
  never sent (`addPageGroup`).
- A cut whose source changed before it is pasted brings back the old copy: ids occur
  twice, or edits are lost (`clipboardDispatch`: "re-homes it rather than
  duplicating it").
- `useConfig` at a mount and `loadPageContent` take over what arrives without a look
  at edits made since, and keep the history, so that an undo steps back over
  another writer's change (`docs/dev/architecture/websocket.md:468`).
- The sweep after an index save deletes documents of pages that another writer changed
  unseen; a save whose answer is lost makes the tab's next save refused; since a
  revision is a hash, a foreign change that brings the index back to what the tab
  last heard of is overwritten without a word.
- An edit of a draft component during its save is dropped from the drafts
  (`saveComponentDrafts`); an edit within half a second after an undo keeps the redo
  stack; a page that was moved to the other tree and not saved is fetched as an
  empty one.
- Closing a page that is not on top runs the events of the overlays above it.

Values and writes:

- In a hidden tab the word that a page is ready, and queued values, survive a
  reconnection (`late`).
- A removed variable's value that is still queued, or in a batch of the hub, comes
  back after its removal.
- An older value of the normal batch, a later chunk of the snapshot or a late read can
  overwrite a newer one of the priority batch.
- A client whose send takes longer than five seconds is dropped but not closed: it
  shows frozen values and its contexts are never answered.
- Two panels that write different bits of a word, or elements of an array, at once can
  lose one though both are told of success; `docs/user/subscribing.md:21` warns of the
  controller only.
- The handler of a dropped connection goes on beside those of the new one; a failed
  write may have reached the controller.
- Behind a label of another kind than the server's type (an Integer that is a Double)
  the panel refuses what the backend would take, which the comment of
  `useWriteVariable` calls a block of valid writes; behind no label a number beyond
  the safe ones goes through as text.
- The panel compares integers beyond the safe ones "against a number bound exactly, as
  Python does" (`opcuaWriteCoercion.ts:239`, and `useWriteVariable.ts:143`), but its
  bound is a double and the backend's the integer of the JSON text
  (`write_service.py:387`). With a maximum of 2^63, which the panel saves as
  9223372036854776000, the UInt64 9223372036854775900 is refused by the panel and taken
  by the backend. Bounds that no double tells apart may be crossed on one side only: a
  minimum of 2^63 with a maximum of 2^63-1 is not enforced by the backend, and is by
  the panel, which then takes 2^63 alone.
- Of a Float field of which the panel knows only the range (an element of a struct
  array), digits just below a minimum of 2^63 are refused: `outOfRange` compares them
  exactly, "as the backend does" (`useWriteVariable.ts:144`), which makes a double of
  them first and takes them (`write_service.py:363`).

## 7. Not modelled, and why

- Pure data: validation of pages and widgets, migrations, expressions, theme and
  translation documents. They are functions of a document, large, and better served
  by the repository's tests.
- Protocol and process I/O: OPC-UA browsing and certificates, the reverse proxy,
  TLS, the launcher, discovery, telemetry. Their state is that of the operating
  system or of a library.
- Rendering in the browser, and the property editors: forms over one document,
  whose result is an edit of `EditorProject`. They are most of the repository's
  lines.
- Within what is modelled: component instances and their slots, translations and
  drafts (one request in `RestDone`), the priority recompute and the page
  configuration cache of the hub, recipes and alarms on the panel's socket, writes by
  bit or element and over REST.
- The parts of section 5.
- Times. Where a deadline matters the model lets it pass at any moment, which
  covers every duration and says nothing about how long things take.

## 8. Running it

    tlc -workers 2 -config alarms.cfg MCAlarmManager
    tlapm AlarmProofs.tla

`PROJECT.json` names the module and the properties of every configuration, the
mutant that each property is tested with, and for each definition the lines of code
it stands for.

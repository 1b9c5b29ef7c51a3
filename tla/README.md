# A TLA+ verification project for Brunomnia

Brunomnia is a local API client: a Tauri 2 desktop application whose renderer
(TypeScript, `src/App.tsx`, `src/components`, `src/lib`) calls commands of a Rust
backend (`src-tauri/src`), with a command line interface (`cli`) and a separate
mock server (`mock-server`). This directory holds TLA+ models of the parts that
keep state across calls, threads, awaits and crashes, the TLC configurations that
check them on small instances, and TLAPS proofs that remove those bounds for the
properties that matter most.

All paths below are relative to the repository's root.

Contents: 1 inventory · 2 what makes these parts hard · 3 modules and how they
correspond to the code · 4 runs, bounds and results · 5 fairness · 6 proofs ·
7 what is only model-checked, and what is not modelled · 8 disagreements found ·
9 plan · 10 how to run.

## 1. Inventory

### How the parts interact

The renderer owns the open workspace in memory and calls the backend with
`invoke`. Three things decide what can interleave:

* the *store* commands (load, save, create, delete, trash, snapshots) are plain
  functions (`src-tauri/src/lib.rs`): Tauri runs them one after the other on its
  main thread, so two store operations never overlap, but the process may be killed
  inside any of them;
* *asynchronous* commands (streams, MCP, mock servers, SCIM, vault, HTTP) run
  concurrently on Tokio tasks or blocking threads and share registries behind
  mutexes. Events go back through channels, independently of command replies;
* the renderer is single-threaded, but nearly every handler reads the workspace,
  awaits something and writes the workspace back. Between the two, anything may
  have changed. Most models below are about that window.

### Components that keep state

| component | state | operations | what makes it correct |
|---|---|---|---|
| project files (`workspace_store.rs`, `workspace_physical_store.rs`) | primary and backup copy, each a manifest and a record directory; hidden staged and previous copies | save, migrate a document copy, restore the backup, read with fallback | a copy is never a mixture of two saves; a failed save leaves the previous one; the backup is the previous save |
| the same in a browser (`workspaceCatalog.ts`, `workspacePhysicalStore.ts`) | keys of local storage, under a quota | save, rotate, delete, restore, purge, move a file | a full quota loses no project, and a moved file only when the roll-back is refused too |
| contents of a project (`projectWorkspaces.ts`, `storage.ts`, `interchange/`) | sections that refer to each other | split into files, assemble, migrate, secure, import | what is read is what was written; any document loads as a sound project; imports keep together what belongs together |
| catalog file (`workspace_store.rs`) | `catalog.json`, its backup, temporary and previous files | write, read with fallback, rebuild | behaves as one atomic value; a damaged file costs at most the last change |
| catalog and trash commands (`workspace_store.rs`, `vault_keychain.rs`) | listed projects, active project, trash groups, retained vault keys | load, open, save, create, rename, reorder, snapshot, delete, restore, purge, empty | listed projects are those with files; deletion is reversible; keys of live projects survive |
| streams (`streaming.rs`, `protocol.ts`, `App.tsx`) | session tasks, the registry of senders, the console's current session | connect, emit, reconnect, resume, disconnect, sample | order and exactly-once emits, exact resume, no live session without an owner, every end is reached |
| MCP (`mcp_stdio.rs`, `mcp.ts`, `mcpHistory.ts`, `mcpOAuthDiscovery.ts`, `IntegrationWorkbench.tsx`) | child processes, waiters, cancelled ids; the renderer's session, connections and settings | execute, cancel, close; connect, call, answer server requests, authorise | an answer reaches its own call; nobody waits for a dead dispatcher; what is shown as connected is; one retry, with one authority |
| autosave and project switching (`App.tsx`, `workspaceCatalog.ts`) | delayed save, save generation, workspace in memory | edit, delayed save, project operation, maintenance, background work | every edit is saved or still pending; edits go to their own project |
| vault (`secure_store.rs`, `security.ts`, `SecurityWorkbench.tsx`) | encrypted file, unlocked session, delayed save, kept keys | unlock, edit, save, lock, reset | the newest secret is somewhere it will be saved from |
| sharing (`secure_store.rs`, `collaboration.ts`, `project.rs`, `ProjectWorkbench.tsx`) | one revisioned sync file; branches and commits of a collection; a Git working copy | push, pull, commit, merge, check out, plan commits | no edit is lost by accident; merges go forward; a commit contains its group |
| HTTP sending (`http.ts`, `cookies.ts`, `auth.ts`, `http_client.rs`, `App.tsx`) | exchanges, cookie jar, cancellations, schedules, stored responses | send, cancel, schedule, commit | cookies, signatures and certificates stay where they belong; stopping stops |
| OAuth 2 (`oauth2.ts`, `App.tsx`, `oauth2_callback.rs`) | tokens, flows, the dialog | acquire, refresh, authorise, cancel | the dialog cancels the flow it shows; the stored refresh token of a provider that rotates them stays one it honours |
| scripts, templates, plugins (`scriptSandbox.ts`, `templates.ts`, `plugins.ts`, `PluginWorkbench.tsx`) | worker and host, prompt queue, installed records with grants | run, ask, resend, install, grant, act | verdicts are final; resends end; authority is never older than the code |
| runner and tests (`runner.ts`, `runnerPlan.ts`, `unitTests.ts`, workbenches) | plan, iteration, results, abort flag | run, retry, jump, bail, cancel, commit | the report accounts for what was sent; old responses are kept; it ends |
| workspace editing (`resources.ts`, `requestTabs.ts`, `requestPins.ts`, environment panel) | tree of folders, environments, tabs, pins | create, move, delete, open, close, pin | nothing hidden, no cycle, private stays private, one active tab |
| governance (`identityGovernance.ts`, `identity_control_plane.rs`) | one record in two places, SCIM connector | edit, synchronise, SCIM request | both copies agree when quiet, if the record sent last arrived last; only who may edits |
| mock servers (`App.tsx`, `mock_server.rs`, `mock-server`) | routes, listeners | start, update, stop, deploy | what listens serves the edited routes; a listener nobody lists has a known cause |
| Konnect (`konnectCatalog.ts`, `konnect.ts`) | managed projects per control plane | pull by region and page | only what is gone is deleted; the user's part is kept |
| command line (`cli/brunomnia.ts`) | invocation, child processes, exit code | discover, select, run, report | the exit code is honest; a `--ci` run ends |

Stateless or external parts (gRPC conversion, code generation, model calls, cloud
vaults, updates, rendering) are listed in `PROJECT.json` with the reason they are
left out.

## 2. What makes these parts hard

* **Crash between two renames.** A copy of a project is two paths; no file system
  renames both at once. Every intermediate state may be what the next start finds.
* **A failing step and a failing undo.** Every handler rolls back by hand, and the
  roll-back itself consists of calls that may fail and whose results are ignored.
* **Late and reordered messages.** Replies and events overtake each other; a
  cancelled request is answered later; vault saves land in any order.
* **State read before an await and used after it.** Whole workspaces, plugin
  records, cookie jars and stored responses are captured, and written back later.
* **Things that must end.** Tasks, child processes, busy flags and prompts outlive
  the call that started them, and are ended by another one that may come too early.
* **Limits.** A full catalog, a full registry, a full quota, a full set of early
  cancellations, a limit of zero, a delay out of range.
* **Documents nobody wrote with this program.** Cycles, dangling names and
  duplicates reach normalisation, which makes a fixed number of passes.

`PROJECT.json` lists each hazard at its line, with the properties that cover it.
Smaller observations that no property is about: staged copies of a killed save
stay on disk under hidden names; restoring a project whose earlier restore was
killed is refused because its files exist; command channels of sessions are
unbounded; packets that follow the namespace confirmation in the same polling
response are dropped; cancelled ids beyond `MAX_CANCELLATION_IDS` are forgotten
all at once; a grandchild of an MCP process that keeps its output pipe open delays
the close; and the clean-up of an OAuth flow compares only the flow's id.

## 3. Modules

Each module is one component. `MC…` modules put several components into one TLC
run: a constant choice `part` in the initial state says which of them moves, the
others stay at rest, so the states add up and do not multiply. Components that
really interact share a module (the renderer's console and the registry of
sessions; the renderer's and the connector's governance record; the editor, the
folder and Git).

| run family | modules | models |
|---|---|---|
| `MCProjects` | `ProjectStore` | the files of one project, rename by rename |
| | `GitProject` | the workbench's Git commands beside the debounced save |
| | `SyncFile` | devices sharing one encrypted file |
| | `CollaborationRepository` | commits and branches of one collection |
| | `ArtifactImport` | what an import keeps together |
| `MCContents` | `CatalogCell`, `CatalogFile` | one atomic value, and the four files that implement it |
| | `BrowserCatalog` | the catalog in local storage under a quota |
| | `ProjectFiles` | splitting a project into files and joining them |
| | `WorkspaceLoad` | normalisation of whatever a file holds |
| | `ResourceTree` | folders, requests, their order and moves |
| | `KonnectSync` | the pull of control planes |
| `MCEditing` | `WorkspaceCatalog` | all catalog and trash commands over several projects |
| | `EnvironmentTree` | environments, secrets and cookie jars |
| | `RequestTabs` | tabs, previews and their reconciliation |
| | `HttpExchange` | one exchange, its cookies, signature, certificate and cancellation |
| | `ScriptSandbox` | a script, its tests, secondary requests and file budget |
| `MCIntegrations` | `Governance` | one record in two copies and the authority filter |
| | `Plugins` | installation, grants, hooks and actions |
| | `McpClient`, `McpAuthorization` | the renderer's MCP client and its authorization |
| | `TemplateRender` | prompts and resends while rendering |
| | `OAuthFlow` | tokens and the authorization dialog |
| `MCWorkbench` | `StreamConsole` | renderer and session registry together |
| | `MockServers` | routes, listeners and late answers |
| | `TestSuites`, `RunnerPlan` | test runs, plans, reports and pins |
| | `VaultSession` | the vault session and its delayed saves |
| `MCSending` | `SseSession`, `StreamConsole`, `StreamSample` | streams that must end |
| | `RequestSend` | sends, schedules and the project guard |
| | `CliRun` | the command line and its child processes |
| `MCSaving` | `Autosave` | the workspace in memory and everything that saves or replaces it |
| | `Runner` | a collection run |
| alone | `SocketIoSession` | one Socket.IO session task with its server |
| alone | `McpStdio` | registry, calls, dispatchers and processes of MCP STDIO |

How the larger ones correspond to the code:

**ProjectStore.** `man[p]` and `rec[p]` are the manifest and record directory of
the places primary, backup, staged and previous. Contents are one revision number
per save: `workspace_physical_store.rs` splits a workspace into records and checks
on assembly that those the manifest names are present, and it never compares
revisions, which is why a mixture would be readable. `pc` names the next
file-system call of the operation in flight (`write_workspace`,
`write_physical_copy`, `move_store_copy`, `install_staged_copy`,
`remove_store_copy`, `preserve_invalid_store`, `restore_backup`,
`migrate_stored_workspace_copy`). `Crash` ends the operation at any call; the
`Fail…` actions are the error returns with the roll-backs the code makes, each of
which may fail in turn. `Damage` is a file spoiled by something else.
`committed`, `clean` and `lastRev` are history variables.

**CatalogFile / CatalogCell.** One action per call of `write_catalog` and
`write_bytes_atomic`; `Value` is what `load_or_rebuild_catalog` would return.
`Stop`, `StopHalfway` and `FailInstall` are the crashes, the half-written
temporary or backup, and the failing install with its undo.

**WorkspaceCatalog.** A trash entry is the group of paths moved together with its
metadata. Deletion, restoration and purging take one step per path and per keychain
call, because every one may be the last. Saving, creating and restoring a copy are
single steps: `ProjectStore` covers their inside.

**BrowserCatalog.** An operation is a sequence of `setItem` and `removeItem` calls;
any `setItem` may throw, also again and again, and what was done before it stays
done. Moving a file between projects is two saves with a hand-written roll-back,
whose saves may throw as well: `failed` records that the one of the source did, and
`MoveKeepsFile` then claims the file only of the copies a project can be recovered
from.

**WorkspaceLoad, ProjectFiles, ArtifactImport, ResourceTree.** The pure parts:
`migrateWorkspace`, the split and the assembly, the import and the tree operations
are operators from a document to a document, applied to every document of a bounded
set: three folders with any parents, three environments with any privacy, members
and teams with dangling names, suites, files and versions on both sides of the
migration. A resource is its id and its parent: what `mapInsomniaRequest`,
`folderConfig` and `v4Environments` copy from an export's request, folder or
environment besides is left out.

**SyncFile.** A push is two steps, `PushReads` (the revision check) and
`PushWrites` (the rename), because nothing locks the file between them.

**SocketIoSession.** WebSocket and polling transports run the same `select!` loop
over different wires, so one model stands for both. A write runs inside a branch of
that loop and has no deadline: `WriteStalls` is one the peer never takes, and `stuck`
the loop that sees nothing any more. `queue` is the command
channel, `pendingEmits` the offline queue, `nextAckId` the number that survives
transports, `pendingAcks` the waiters that do not, `pendingBinary` a packet whose
attachments are incomplete. The server (external) reads the wire in order,
acknowledges at any time while the transport lives, and may also send attachments
nobody announced.

**SseSession.** The server makes numbered events, and each is sent in two chunks,
so a response may end inside one. `config` is chosen at `Connect`: resume or not,
ids or not, automatic reconnection or not, the limit and the delay.

**StreamConsole.** `call[id]` is the progress of a connect promise, `closes` the
disconnect commands under way, `events[id]` the channel of a session, `senders`
the registry. `misled` and `early` record the two ways in which the console can
lose a session; `given` and `stopped` record sessions the user or a project change
gave up.

**McpStdio.** A step is what a thread does under one lock. A process is named by
the call that opened it. `Issue`, `Cancel` and `CloseKey` are the commands;
`Step(c)` is the thread of call `c` from the registry lookup through
initialization, publication, the session mutex, registration of the response
waiter and the wait, to release or removal; `DispatcherStep(p)` routes a line,
records a transport error and drains the waiters; `CloseProcess(p)` is `close` and
`Drop`. `Answer` and `Trouble` are the server process (external). A write to its
input has no deadline and is made under the mutex of the session: `MayBlock(c)` says
when call `c` is in one, and nothing makes it leave. A cancel that
arrives after its call has returned is left out: it only leaves an id in the table
of early cancellations.

**Autosave.** A workspace is the set of changes it contains. `state` is the React
state, `seen` the last render (what closures and refs see), `timer` the delayed save
of the effect in `App.tsx`, `gen` its generation, `ipc` the store commands invoked
and not yet executed. `BeginOp` is a project operation or maintenance: it advances
the generation and saves `seen`, then stops the runtime, submits its command and
adopts the reply. `BeginJob`/`FinishJob` are a Konnect pull, a Git clone or reload,
and a plugin action, of which only the last looks whether the project is still open.
`homes`, `replaced`, `unsaved`, `late` and `strays` are history: where a change
belongs, and why it may be missing or elsewhere.

**VaultSession.** The session the renderer keeps while the vault is unlocked, the
debounced save with its generation and pending flag, the flush before a lock or a
project change, and the file. Saves run on threads of their own and land in any
order. Whether the workbench unlocks a vault or creates one over it depends on what it
knows of the file, which is nothing until both status commands have answered, so both
are possible while there is a vault. A project change clears the session and then
awaits its operation, so a vault can be opened and edited in between. `excused`
records the races in which the newest secret is given up.

**TestSuites.** A suite belongs to a collection, and a request may move to another one,
be deleted or be chosen for another test while suites, and runs, refer to it. What a
run offers is the collection of the moment it started.

**HttpExchange.** From `sendRequest` to the stored cookies: the jar captured at the
start, the headers a signature covers, the client certificate chosen for the host,
and a cancellation that may overtake the registration of its request.

**Plugins.** A review describes a candidate in a worker and installs it after that
await with a copy of all records; a send runs hooks on a copy of their data and
writes it back; an action is applied under the authority it began with.

**Governance.** Every change of the workspace passes the filter of
`App.setWorkspace`; each changed record is sent whole to the desktop process, whose
connector changes its own copy and sends that back, whole. The command is
asynchronous and nobody awaits it, and the event is emitted after the lock was
released, so records may be received in any order in both directions (`syncs`,
`updates` are sets); `syncedLast` is the number of the one received last.

**OAuthFlow.** Several senders share the one slot and dialog of `App.tsx`: the editor,
its scripts, plugin actions, streams and MCP clients (the runner, the unit tests and
the authentication editor keep their own). Each works with the tokens it copied when it
began, and some store what they got, some do not (`unstored`). The stop of the
project's runtime empties the slot and cancels at once, and closes the dialog only
after it awaited the cancellation (`stopping`); a flow that was still preparing then
opens its dialog without owning the slot (`missed`). `honoured` are the refresh tokens
the provider (external) accepts; one that rotates them ends a token when it is used.

**McpClient.** One client, over HTTP or STDIO, its session entry, the operation under
way and the saved connections. A resource is subscribed to and unsubscribed from; the
answer to an unsubscribe may be lost before or after the server carried it out
(`unheard`), in which case what the renderer shows and what the server holds differ.
A saved connection has ended once it has an `endedAt`; its status is left out.

**Runner.** The user acts only where the run awaits: the delay, a script or the
transport. What a script may do to the flow is kept (fail, skip its request, name
the next one). The limit on the items of an iteration is the length of the plan plus
`ExtraSteps`, which is 10 000 in the code.

The other modules say in their header what their state stands for. `PROJECT.json`
maps every definition to the lines it stands for.

## 4. Runs, bounds and results

Passing runs, with the number of distinct states TLC finds:

| run | components and bounds | states | properties |
|---|---|---|---|
| `projects` | store: 0–2 legacy copies, 3 revisions, 1 damage, any number of crashes and failures; Git: 2 files, 2 branches, 2 edits, 2 commits, 2 groups, 3 commands; sync: 2 devices, 2 edits, 3 revisions; repository: 2 branches, 4 commits, 3 retained; import: 2 files, one batch, any parents | 1.8 M | `NoMixedRevision`, `StoreKeepsWork`, `GroupsExact`, `SyncLosesNothing`, `RepositorySound`, `ImportSound` |
| `contents` | catalog file: 3 catalogs, 3 faults, 2 damages; browser: 2 projects, 3 failing calls, 4 operations, 1 deletion; files: 3 start projects; load: documents of 5 families; tree: 3 resources beside an import; Konnect: 2 planes in 2 regions, 2 pulls, 2 gateway edits | 0.3 M | `ImplementsCell`, `FallbackIsRecent`, `BrowserSound`, `FilesSound`, `LoadSound`, `TreeSound`, `KonnectSound` |
| `editing` | catalog commands: 2 projects, limit 2, 1 deletion, 1 fault; environments: 3; tabs: 4 documents, 2 open, 2 in the history; exchange: 2 sends, 3 hosts, 4 settings, 4 cookies, 1 early cancellation; script: 2 tests, 3 secondary requests, budget 3 | 0.9 M | `CatalogSound`, `EnvironmentTreeSound`, `TabsSound`, `HttpSound`, `SandboxSound` |
| `integrations` | governance: 2 members, 2 edits, 1 SCIM call; plugins: 1 plugin, 2 packages; MCP client: 2 settings, 2 connections, both kept, 1 change; authorization: 2 servers, 3 locations, 3 calls; templates: 2 requests, 2 jobs; OAuth: 2 senders, 3 tokens, any number of stops | 2.8 M | `GovernanceSound`, `PluginsSound`, `McpClientSound`, `McpAuthorizationSound`, `TemplateSound`, `OAuthSound` |
| `workbench` | console: 2 Socket.IO sessions, 1 trouble, 1 command; mocks: 2 servers, 2 projects, 1 edit, 2 calls; suites: 2 tests, 2 requests, of which 1 moves and is deleted; plan: 2 requests, 2 reports; vault: 2 projects, 2 edits, 2 saves, 2 unlocks at a time, 1 project change, five of these seven in one behaviour | 2.3 M | `OrphansExplained`, `MocksSound`, `TestRunsAccount`, `PlanSound`, `SecretsKept` |
| `sending` | SSE: 3 events, 4 breaks, limits 0–2, delays below, inside and above the range; console: 1 session of each of 3 protocols, 2 troubles; samples: 2; sends: 2, 2 schedules; command line: 1 config, depth 2 | 0.2 M | `SseSound`, `ConsoleSettles`, `SampleCloses`, `SendSound`, `CliSound` |
| `socketio_session` | 2 emits, 2 packets, 1 loss, 1 failed reconnect, 2 event names, 1 listener, extreme jitters, a stalled write anywhere | 0.6 M | `EmitsExact`, `SessionSettles` |
| `mcp_stdio` | 2 calls on the same session, on the same key with another fingerprint, or on two keys; 1 session; 2 troubles | 0.7 M | `CallsExact`, `CallsSettle` |
| `saving` | autosave: 2 projects, 2 changes, 2 operations, 3 inputs together, 1 fault; runner: 2 requests of one name, 1 retry, 1 item beyond the plan's length, 2 stored responses | 0.9 M | `SavesSound`, `RunSound` |

Runs that end in a counterexample (section 8): `project_store_killed`,
`workspace_catalog_full`, `stream_project_change`.

A property named `…Sound` is the conjunction of what the component promises; its
parts are stated, with a comment each, above it in the module.

Why the bounds are enough for the question asked:

* The store has two readable places and two hidden ones. Three saves fill them and
  rotate a full store; crashes and failures are not bounded, so an operation that
  starts from the remains of several killed ones is explored.
* Catalog values are compared only for equality: three tell the old, the new and the
  value before the old apart.
* Catalog commands are about one project at a time; a second one is needed for the
  properties about the *other* projects and for ordering. The limit of two is met
  by create and restore.
* A Socket.IO order violation needs two emits and one loss; an acknowledgement
  mix-up needs two emits and a new transport. The failed reconnect reaches a delay
  other than the first, and the extreme jitters bound the rest.
* SSE: four breaks exceed the largest limit by two. Three events allow one before,
  one inside and one after a break.
* The console holds one current session: two are enough to replace one. One
  command places a view close, a request switch or a project change anywhere.
* The MCP client: subscriptions that are toggled, notices of changed roots and changed
  settings meet two at a time; a behaviour leaves out one of the three. Two kept
  connections are what makes `OneOpenConnection` say something: a second one does not
  push the first out.
* OAuth: two senders overlap, refresh with the same token and store over each other; the
  third token is the successor of a successor.
* The runner: two requests and one item more than the plan is long let a script jump
  back, forward and to a missing name, let the items after a jump run, and still reach
  the limit. Two stored responses may both be old, one or none.
* MCP STDIO: with one session allowed, two calls meet the limit, the replacement of a
  session by another fingerprint, the eviction and the wait for the mutex. Two
  troubles allow a cancel and a late answer, or a close and an exit.
* Autosave, vault, plugins, mocks, sends: the hazard is one stale write over one
  newer one, so two edits, two asynchronous answers and one change of project or
  record in any order are enough; two projects tell a change's own project apart.
* Sync needs two devices and three revisions: two that race and one more that would
  build on the loser.
* Trees and documents: three members give cycles of every length a fixed number of
  passes could miss next to a member outside the cycle.

Deadlock checking is off where the system may legitimately stop: the user may stop
asking, the bounded environment has nothing left to do, or all calls are done; and
in every run that puts components together, since one of them reaching its bounds
would be reported.

Every property of a passing run has a mutant in `PROJECT.json`: a plausible bug in
a mapped definition under which TLC finds the property violated.

## 5. Fairness

The storage, document and integration modules have none: they check safety only.
The others use weak fairness on what the program and its runtime do by themselves:
timers fire, tasks are scheduled, ready messages are received, settled promises
continue. The user, the peer and the network need not act. Where the code waits for
one of them without a bound, there is no fairness, and the property names the wait it
has to except: as a hypothesis `[]<>~...` (the wait ends every time) or as a state in
which the system may stay. In the joined runs it is the fairness of the component's
own specification, which is vacuous while another component is the one that moves.

* `Fairness` of `SocketIoSession`: the task is scheduled, a sleep ends, a ready channel
  message is seen (Tokio's `select!` picks ready branches at random). Nothing makes a
  handshake end, whose timeout may be 0, or a write (`streaming.rs:2103`, `2206`,
  `2321`, `2342`). So `DisconnectEnds` excepts a loop that is `stuck` in a write, and
  `EmitsLeave` that and a handshake that goes on for ever.
* `SseFairness`: the same for the event stream, which writes nothing. `DisconnectEnds`
  holds in a handshake too; `ReadsAgain` excepts one that never ends, and speaks of a
  server that stops failing (`MaxBreaks`).
* `Fairness` of `StreamConsole`: settled promises continue, commands are executed, events
  are delivered, a told task ends. Nothing on reconnects, on a connect that renders its
  request (which may ask the user) or on its handshake: `SendingEnds` excepts both
  (`WaitsOutside`). `TaskCloses` takes the last write of a told task as one that ends;
  a task held in it is what `SocketIoSession` excepts.
* `Fairness` of `McpStdio`: threads run and the wait for an answer has a deadline, since
  `timeout_ms` is clamped to between 1 and 120 seconds. A call takes the mutex of a
  process once, so weak fairness is enough to obtain it. Nothing makes a write to the
  server's input end (`MayBlock`), and nothing the dispatcher, which answers requests of
  the server: `CallsEnd` excepts a call that is in a write or needs the mutex of one
  that is (`Stalled`), `UnregisteredEnds` a process somebody stays blocked on. A killed
  child closes its output; one whose own children keep the pipe open is left out.
* `SendFairness` of `RequestSend`: scripts have timeouts, timers fire, promises
  continue. A send may wait for the user (an OAuth window, a prompt) or for a server
  without a timeout, and stopping a schedule does not reach it: `StopEnds` excepts a
  schedule whose send does so for ever (`Held`).
* `RunnerFairness` of `Runner`: delays end and scripts have a timeout. `RunEnds` excepts
  a run one of whose requests never ends.
* `CliStep` of `CliRun`: the process runs and a child process ends; only an answer at
  a prompt is the user's, and with `--ci` there is none. `--requestTimeout 0`
  (`cli/brunomnia.ts:503`) takes the bound from a request; such runs are left out.
* `Fairness` of `Autosave`: renders, timers and promises are processed, commands are
  executed, and stopping the runtime settles. Nothing is assumed of background work.

## 6. Proofs

Each theorem removes the bounds of the run that checks the same property. What is
assumed of the constants is that bounds are natural numbers and that markers such as
`None` or `NoSender` are not among the values they stand beside; other assumptions
are named below.

| theorem | module | says | rests on |
|---|---|---|---|
| `TypeCorrect`, `NeverMixed`, `WorkIsKept` | `ProjectProofs` | `TypeOK`, `NoMixedRevision`, `StoreKeepsWork` | `MixInv`, `KeepInv` |
| `CatalogIsAtomic` | `CatalogFile` | `Spec => ImplementsCell` (a refinement) | `FileInv`, `UntilDamage` |
| `FallbackStaysRecent` | `CatalogFile` | `[]FallbackIsRecent` | `RecentInv` |
| `NoEditLost` | `ProjectProofs` | `SyncLosesNothing` (an action property) | `SyncInv` |
| `AuthorityIsReviewed` | `Plugins` | `PluginsSound` (an invariant and an action property) | `PluginsInv` |
| `NoSecretLost` | `WorkbenchProofs` | `[]SecretsKept` | `VaultInv` |
| `OrphansStayExplained` | `WorkbenchProofs` | `[]OrphansExplained` | `ConsoleInv` |
| `MocksStaySound` | `WorkbenchProofs` | `[]MocksSound` | `MockInv` |
| `SamplesClose` | `WorkbenchProofs` | `[]SampleCloses` | `SampleInv` |
| `ScriptsStaySound` | `WorkbenchProofs` | `[]SandboxSound` | `SandboxInv` |
| `TestRunsStayAccounted` | `WorkbenchProofs` | `[]TestRunsAccount` | `SuiteInv` |
| `TemplatesStaySound` | `WorkbenchProofs` | `[]TemplateSound` | `TemplateInv` |
| `PlansStaySound` | `WorkbenchProofs` | `PlanSound` (an invariant and action properties) | `PlanInv` |
| `TabsStaySound` | `WorkbenchProofs` | `[]TabsSound` | `TabsInv` |
| `OAuthStaysSound` | `OAuthFlow` | `[]OAuthSound` | `OAuthInv` |
| `ExchangesStaySound` | `HttpExchange` | `[]HttpSound` | `HttpInv` |
| `CallsStayExact` | `McpProofs` | `[]CallsExact` | `McpInv` |
| `ClientStaysSound` | `McpProofs` | `[]McpClientSound` | `ClientInv` |
| `AuthorizationStaysSound` | `McpProofs` | `[]McpAuthorizationSound` | `AuthInv` |
| `EmitsStayExact` | `SocketIoSession` | `[]EmitsExact` | `SessionInv` |
| `GroupsStayExact` | `ProjectProofs` | `[]GroupsExact` | `GitInv` |
| `PullsStaySound` | `ProjectProofs` | `KonnectSound` (action properties) | `KonnectInv` |
| `GovernanceStaysSound` | `ProjectProofs` | `GovernanceSound` (an invariant and an action property) | `GovInv` |

* **The store.** `NoMixedRevision` is not inductive: an operation that is half-way
  through moving a copy will pair the record directory it moves next with the
  manifest it has already moved. `MixInv` therefore says, beside types, that the
  operation in flight has the shape of its kind (`OpFits`), that staged files are the
  operation's own revision (`StagedFits`), that a destination is clear before
  something is moved there (`Cleared`, `PreviousFits`), and that between the two
  renames of a move the manifest already moved matches the records still to be moved
  (`MovedFits`). `KeepInv` adds where the last committed revision lies at each call,
  which is what a failure, a crash and a restore rest on. There is one lemma per group
  of actions; the failing actions need the same facts, because a roll-back moves the
  same pair back.
* **The catalog file.** `FileInv` says which file holds the value at each call: in
  particular that the catalog about to be moved away is also the backup, so that the
  moment without `catalog.json` still has the old value. It holds until the first
  damage (`UntilDamage`); from then on `CatalogCell` allows anything, and
  `DamageGrows` shows that damage is never forgotten. `StepSimulation` maps the
  install to `Commit`, the last call to `Succeed`, errors and crashes to `Abandon`,
  and everything else to a stutter. `RecentInv` is the other half: without failing
  calls the last two acknowledged catalogs are in the two files between writes
  (`QuietFits`), and during one the backup is what is being replaced
  (`BackupIsPrevious`), so one damaged file costs one change.
* **The sync file.** A push writes what it read of its own device some time ago.
  `SyncInv` says that, as long as nothing raced or was forced, whoever knows the
  revision of the file (a device, a push or a pull under way) holds what is in it and
  nobody knows a later one (`RevisionsKnown`); that what a push sends stays in the
  workspace until it is over; and that a poll runs only on a clean workspace
  (`OperationsFit`).
* **Plugins.** A review installs a copy of *all* records, so the invariant has to hold
  of every copy under way, not of the plugins alone: whatever is in a record that has
  a grant or is enabled was reviewed with that code (`ReviewedRecords`).
* **The vault.** A project is at risk while its newest secret is not in its file and
  nothing excuses that. The invariant says that only the active project is ever at
  risk; that its secret is then in the open session with the pending flag up; and that
  what could take the session or the flag away (a save of the same generation, an
  unlock, a project change that has stopped the timers) either carries the secret or
  is older than it (`Guarded`). A new vault carries none; the project it opens over is
  excused.
* **OAuth.** Tokens are numbered by issue, so a new refresh token is none that a sender
  copied before. With a provider that rotates them, what a sender has yet to store is
  therefore its own and honoured (`OwnUntilStored`), which gives `RefreshKept` whatever
  the order in which senders store. Before two authorizations overlap, at most one is
  under way (`OneAuthorization`); a flow that began does not begin again, so a slot once
  taken from it stays another's (`SlotsFit`). `NoSender` is not a sender.
* **The exchange.** Cookies carry their domain and setter from the jar to the wire, for
  every jar a send may have captured; the plan of a request is honest before it is
  sent; and a cancellation is always somewhere: on its way, held for its request, or
  signalled. `HttpAssumptions` types the constants. The certificate of a host is the
  first of the list that fits; that a set of indices has a least one (`LeastIndex`)
  comes from the library's theorem that `<` is well-founded on the naturals.
* **MCP STDIO.** An answer is found by a number, so `OwnAnswer` needs to know where
  every number is. `McpInv` relates four places where the progress of a call is
  written down: its thread (`CallFits`, `IdFits`), the table of waiters (`WaiterFits`),
  the lines on their way from the process (`SentFits`: every line answers a request
  that was sent, with the number it was sent with) and the dispatcher
  (`DispatcherFits`: who ended has drained). `ProcessHealth` and `CallHealth` say who
  may have broken or closed a process, which is what `HealthyStaysRegistered` rests
  on, and `RegistryFits` that what is registered was published under its own key. TLC
  checked `McpInv` on the `mcp_stdio` run, and by simulation with three calls, before
  it was proved. The bound on the registry is a statement about a cardinality, proved
  from the library's theorems about finite sets.
* **Socket.IO.** An emit lies in four places in turn: the command channel, the offline
  queue, the wire and what the server read. `OrderInv` is `InOrderOnce` with
  `NumbersGiven` (nothing on its way has a number that was not given out yet), since a
  new emit may only be larger than all others. `AcksInv` says that an
  acknowledgement id stands for one emit over all transports (`IdsUnique`: that
  `nextAckId` survives a reconnection is what this rests on), that what awaits an
  acknowledgement was read by the server or is on the wire (`AcksTraced`) and that
  what was shown no longer awaits one (`AnsweredOnce`). `FramesInv` equates the
  attachments the task misses with those a server that keeps its framing owes
  (`FramesAgree`). The reconnection delay is bounded by cases on the attempt.
* **Git.** A grouped commit promises something about commits, and keeps it by what it
  did to the index before. `GroupedFits` follows the index: outside the files still to
  be unstaged, then nowhere, then outside the group being committed it may differ from
  the commit checked out, provided the status shown was current when the plan was
  accepted; and `gitOp.done` counts `MadeSince`. That a commit by somebody else, or a
  merge left from before, adds nothing to that set follows from the numbering of
  commits (`CommitsFit`: a commit knows earlier ones only). `HeadsFit` keeps branches,
  the remote and an unfinished merge pointing at commits that exist, and `GitOpFits`
  what the buttons guarantee of an operation until it ends. Assumed: `"main"` is a
  branch.

* **Konnect.** That a finished pull leaves one project of each plane is decided long
  before its end, region by region. `CreatedFits` keeps what the pull created apart from
  what it read: one of each, of planes that had none, in regions it has dealt with.
  `RegionsFit` says that a region seen in full has a project of each plane discovered
  there, and `RemovalFits` that what is planned for deletion is not needed: its plane is
  gone or an earlier project of the plane stays, whose existence is the least-number
  principle. Assumed: the marker for no plane is not a plane.
* **Governance.** The two copies differ most of the time, and records are received in
  any order; `CopiesFit` says what is left to rely on. The record sent last is the
  renderer's own, for it sends every record it adopts or makes; so once that one was
  received last, the desktop process holds it or a change on top of it, whose update is
  still on its way. That the filter of `App.setWorkspace` takes nothing
  but group memberships from a member who does not manage is `FilterIsLawful`.
* **The stream console.** A live session is lost when no status, call or close points
  at it any more, so the invariant says who still does. `LeftIsClosed`: a live session
  that is not current has a connect call about to close it, or a close on its way.
  That needs to know that the busy flag belongs to one connect or one awaited
  disconnect at a time (`OneBusy`, or the answer of one could clear what the other
  shows), that the status tells the truth about the current session's task
  (`StatusFits`), that a disconnect answered leaves no task that goes on unless it came
  before the task (`ClosesFit`), and in which phases of its call a session has a task
  and a sender in the registry (`CallsFit`).
* **Mock servers.** Commands carry the number they were sent with, and that number is
  the identity of the instance a start makes (`NumbersFit`, `OwnNumbers`).
  `EditsArrive` strengthens `ServesEdits` to say where the newest routes are: in the
  timer, in an update that no other update to this server follows, or in the instance,
  with no newer update left to arrive. `StopsFit` says that an instance whose stop was
  executed does not come back and that a listed server without an instance has the
  answer of its stop under way; `StoppingFits` the same of a project change, which
  reads the list once and awaits one stop per entry, so that a start it did not see is
  either answered during it (`missed`) or still to be answered. `StartsFit` and
  `ListenersFit` keep a closed socket apart from a start that is not registered yet:
  the clean-up of a listener that ended removes the instance it belongs to and no
  later one. `MockAssumptions` asks for finitely many servers, at least one server and
  one project; that a free port exists for a new server (`NextMockPort`) is the
  pigeonhole principle, from the library's theorems on cardinalities and on `<`.

* **The MCP client.** An id of a remote session is given out once, to one fingerprint
  of settings; the entry of the client, the operation and the notice under way may all
  three hold it (`IdsUsed`, `IdsOwned`), and an entry with subscriptions that was not
  moved by a late notice has the id the operation works with (`EntryFits`); what is shown
  as subscribed is so, but for an unsubscribe that was answered or never will be
  (`ShownFits`), and a subscribe that was answered took effect (`SubscribedThere`). Over
  STDIO a call of an old revision has no entry it could renew, and what was answered
  while a close goes on is noted as missed (`StdioFits`): that is why a process closed
  behind a later call's back never leaves a client shown as connected without anybody
  having missed its end. `AnswersFit` keeps the owner of the channel apart from the rest.
* **MCP authorization.** A bound on the requests of a call is not inductive without
  saying what is left to spend: `BudgetFits` gives each stage the allowance of the
  stages after it, counting the addresses still to be tried with their redirects
  (`Cost`). `AuthorityFits` says that the endpoints a discovery began without come
  together, and that the client is registered after they are known.
  `McpAuthorizationAssumption` keeps the origin apart from the other authorities.
* **Samples.** A sample that was not given up knows how its connect ended as soon as it
  is past it, and one that is over has a disconnect on its way as long as its session
  is open (`SessionFits`); it is given up only while it connects (`GivenUpFits`).
* **Scripts.** The count the worker checks before it posts a request is the number of
  requests the host has seen (`CountFits`), and what the host lets through was charged
  first (`BudgetFits`), so two requests of one script cannot pass the limits side by
  side. `VerdictsFit` says what the worker still waits for at each stage.
  `SandboxAssumptions` types the limits.
* **Test suites.** `RunFits` cuts what a run was started with into the verdicts it has
  and the tests still to do, in their order; deleting or moving the suite replaces the
  tests, never this record. That reordering keeps every test once rests on lemmas about
  taking an element out of a sequence and putting one in (`RemovedAt`, `InsertedAt`).
* **Rendering.** The requests resent on the way to the current one are in the chain and
  each only once (`ChainFits`), so a chain is no longer than the requests there are; what
  a job waits for is pending (`WaitFits`), and what is pending is the dialog's prompt
  or once in the queue (`QueueFits`). `TemplateAssumptions`: the marker for no prompt
  is not the key of one.
* **Filters.** The plan and the tabs are made by filters. They are written by the rank of
  the places kept (`EntriesAt`, `Part`), which says the same as `SelectSeq`, whose
  recursion the provers cannot unfold: `PlacesRanked` shows that every rank is taken once
  (an injection of a finite set into an interval of its size), and from it `EntriesAre`
  that a filter returns the entries at those places, each once.
* **The runner's page.** The plan lists the requests of the collection, each once
  (`PlanOf`); `ReorderFits` follows a drag through the two filters, the cut and the two
  concatenations. `PendingFits` says that the report that waits to be confirmed is the
  one clicked last. `PlanAssumption`: finitely many requests, and no report has the
  empty id.
* **Tabs.** `TabsSound` speaks of settled states only; what holds in between is weaker:
  the strip has documents that may be gone, each once, with at most one temporary tab
  (`FitsIn`), and the request in the editor is a document (`TabsInv`). `Reconciles` and
  `OpensFit` show that the effect turns such a strip into one a user can work with
  (`Clean`), whatever it was, so every settled state is clean; for each handler there is
  a lemma that it keeps `FitsIn`. The one way in which the editor's request is not the
  active tab is the last disjunct of `OpensFit`: the strip is full. `TabsAssumption`:
  a request exists, requests are no other documents, and no document has the empty id.

`SessionInv`, `GitInv`, `ConsoleInv`, `MockInv`, `KonnectInv` and `TabsInv` were checked by TLC on the instances of
the runs that check their properties (`MockInv` and `TabsInv` also on part of a larger one) before they
were proved.

## 7. Limits

Only model-checked:

* all liveness properties (`CallsSettle`, `SessionSettles`, `ConsoleSettles`, and the
  liveness parts of `SseSound`, `SendSound`, `CliSound`, `SavesSound`, `RunSound`):
  fairness and `ENABLED` are beyond the prover;
* what pure algorithms compute for every document (`LoadSound`, `FilesSound`,
  `TreeSound`, `ImportSound`): induction over data is beyond it too;
* the safety properties of the modules without a theorem above:
  `RepositorySound`, `BrowserSound`, `CatalogSound`,
  `EnvironmentTreeSound`. The first and the last climb from a node to its ancestors with
  a recursive definition, which puts them with the algorithms above; the others are
  within reach.

Claims that hold only within limits worth knowing:

* `MovedFileKept` (a file moved between projects is in one of them) holds with one
  failing command. A second failure, of the roll-back itself, loses the file: TLC
  shows it with `MaxFaults = 2`.
* `SyncLosesNothing` excludes pushes that overlap: the revision is checked and the file
  renamed without a lock (`secure_store.rs:924`), so the later of two wins.
* `MoveKeepsFile` of `BrowserCatalog`: when the quota refuses the roll-back of the source
  project too, the moved file may be in neither open project, only in a recoverable
  copy. `PurgeSparesLiveKeys` excludes groups torn by a kill.
* `SecretsKept` excuses the races recorded in `excused`: a save that lands over a newer
  one, a vault created over an existing one whose status was not known, an answer over
  an edited session, and an edit made while a flush or a project change was awaited. An
  edit in a vault of another project, opened while a project change was awaited, counts
  for none.
* `TestRunsAccount` does not say that a suite keeps what another handler wrote since the
  run read it: the model writes the suite back as the code does.
* `RunKeepsOldResponses` speaks of the responses from before a run. What is stored while
  it goes on is lost, for it writes back the copy it made at its start
  (`AutomationWorkbench.tsx:607`).
* `CopiesAgree` of `Governance` speaks of the record sent last being received last.
  Nothing in the code makes it so: after two quick edits the desktop process may keep the
  first, until the next.
* `RefreshKept` of `OAuthFlow` speaks of a provider that always rotates refresh tokens or
  never does, answers a code with one if it rotates, and of tokens that are stored. Of a
  provider that rotates now and then, a sender that stores an older answer later puts a
  spent token back.
* `SubscriptionsReal` of `McpClient` is claimed over HTTP, and not after an unsubscribe
  whose answer was lost: the code keeps the resource as subscribed either way.
* `OrphansExplained` excuses a session whose error was shown as its end (`misled`), which
  is the disagreement below, and `MocksSound` a start that was under way when the project
  changed.
* `SavesSound` excuses a result that background work writes into another project
  (`strays`).
* `RepositorySound`: that a merge goes forward is claimed of a branch and an ancestor of
  its head that pruning left, where no merge commit is retained; other merges after a
  pruning may meet conflicts.
* `TabsSound` says nothing of the Runner's tab when its promotion is overwritten
  (`RunnerTabKept` below).
* `SandboxSound`, `CatalogSound`, `CliSound`: two tests of a script, one deletion and one
  CLI test at a time; the order of several CLI tests is left out.

Not modelled:

* power loss and the order in which a disk makes writes durable: a rename that
  returned is taken to have happened, as after a killed process;
* what other programs do to the files while a command runs, and the symbolic-link
  checks that refuse some of it; damage happens between commands;
* names, timestamps, the contents of snapshots, the fields of a request that nothing
  else refers to;
* the wire formats of the streams, TLS, proxies, redirects, the Engine.IO upgrade and
  the polling join;
* processes started by an MCP server process, and MCP HTTP idle expiry and eviction;
* the life cycle of the SCIM connector and its token lease;
* in `OAuthFlow`, the validation of the configuration before a request
  (`oauth2.ts:139`); the editor's own send, which holds off a stop of the runtime, is not
  kept apart from the other senders;
* in `McpClient`, the status of a saved connection (`mcpHistory.ts:108`); the server is
  taken to advertise subscriptions. In `McpAuthorization`, which of its requests made a
  discovery fail;
* in the store: a copy that needs protection for its vault key during a migration
  (`workspace_store.rs:727`), the error of reading metadata that returns without a
  roll-back (`:681`), the cap of a rebuilt catalog (`:951`), the single `workspace.json`
  of early versions (`:986`), and retaining keys beside a running operation
  (`lib.rs:869`, `vault_keychain.rs:212`);
* in `SyncFile`, the await between the read of a pull and its adoption
  (`SecurityWorkbench.tsx:303`); in `GitProject`, suggesting commits over accepted groups
  and the check for a rebase in progress (`ProjectWorkbench.tsx:186`); in `KonnectSync`,
  the pages of a region, which are listed in one step (`konnect.ts:133`);
* in `HttpExchange`, redirects (`http_client.rs:262`) and the jar a failed send keeps
  (`App.tsx:3087`); in `StreamConsole`, the await between the guard of a project change
  and the stop, and that the status changes only after all closes settled
  (`App.tsx:3124`, `3166`); in `SocketIoSession`, a polling POST that failed after the
  server had read it (`streaming.rs:2147`); in `McpStdio`, the error of draining the
  child's messages, which drops a healthy process (`mcp_stdio.rs:680`, `694`); in
  `Governance`, the moment between a SCIM change and its event
  (`identity_control_plane.rs:1102`), after which the event is on its way at any time;
* the components marked `not_modelled` in `PROJECT.json`.

## 8. Disagreements found

With a run each:

1. **A killed save can make a project unopenable** (`workspace_store.rs:681`). The
   rotation renames the manifest and then the records, after the old backup was
   removed. Killed in between, the backup has no records and the primary no manifest.
   Nothing is lost on disk (`CommittedOnDisk` holds) but nothing opens it.
   `README.md:52` promises "Atomic per-project persistence … with recoverable prior
   revisions". Run `project_store_killed`.
2. **`load` can overfill the catalog** (`workspace_store.rs:1101`). With the catalog
   full and no project openable it adds one without the size check. The next read
   rejects that catalog. `docs/LOCAL_PROJECTS.md:33`: "names and catalog size are
   bounded". Run `workspace_catalog_full`.
3. **A project change can leave a stream running** (`App.tsx:2612`). An error event
   shows a live session as disconnected; the next connect replaces the only
   reference to it. `docs/LOCAL_PROJECTS.md:8`. Run `stream_project_change`.

Stated in a module and not claimed by any run, because the code does otherwise (TLC
finds a short counterexample to each when it is added to the run of its module):

| statement | quoted from | code |
|---|---|---|
| `RequestSend!OneSchedule` | `docs/GRAPHQL_AND_PREFERENCES.md:34`, "One schedule is active at a time" | `App.tsx:3275`: starting a schedule resets the flag by which the one before, still awaiting its send, would have stopped |
| `RequestSend!AllResponsesKept` | `docs/GRAPHQL_AND_PREFERENCES.md:51`, "`-1` retains all saved responses" | `App.tsx:2890`: a send appends to the responses it copied at its start |
| `BrowserCatalog!PurgeTargetsOnlyGroup` | `docs/QA_MILESTONE_248.md:18`, "targets only that group's workspace" | `workspaceCatalog.ts:810`: records are removed by the manifest of the recovery copy, also when a listed project of the same id reads them |
| `RequestTabs!RunnerTabKept` | `docs/QA_MILESTONE_186.md:38`, "preserving the Runner's … draft instead of replacing a temporary Runner tab" | `App.tsx:3665`: both steps start from the tabs of the same render, so the promotion is overwritten |
| `CollaborationRepository!PrivateStays` | `docs/SECURITY_AND_SYNC.md:102`, "stay on the current device" | `collaboration.ts:121`: applying a snapshot replaces the collection with its private sub-environments |
| `Plugins!GrantsOnlyByUser` | `PluginWorkbench.tsx:466`, "Nothing is available until you grant it" | `PluginWorkbench.tsx:229`: an installation writes back the records it read before its review, with a grant revoked meanwhile |
| `Governance!ActiveOwner` (3 edits) | `docs/IDENTITY_GOVERNANCE.md:7`, "At least one active owner is required" | `IdentityGovernancePanel.tsx:152`: accepting an invitation rewrites the role of an existing member |
| `VaultSession!VaultOfProject` | `docs/LOCAL_PROJECTS.md:8`, "clears transient protocol/script/vault state" | `SecurityWorkbench.tsx:204`: an unlock answered after the session was cleared, while the operation of the project change is awaited or later, leaves the old project's vault open |
| `GitProject!SwitchKeepsWork` | `docs/GIT_PROJECTS.md:56`, "Git itself blocks a checkout that would overwrite uncommitted work" | `ProjectWorkbench.tsx:289`: edits the debounced save has not written yet are not in the folder Git looks at, and the reload replaces them |

Visible in the history variables of `Autosave`: a clone, reload or pull that finishes
after a project was opened replaces that project's workspace (`strays`); an edit made
between the first save of an operation and the adoption of its result survives only
if its delayed save fires in time (`late`). In `StreamConsole`, the reply of a connect
that is handled after a `reconnecting` event sets the status back to connected.

## 9. Plan

Modelled and checked: everything in section 3. Next:

1. Proofs: `CatalogSound` of `WorkspaceCatalog`, the safety parts of `SavesSound`,
   `ResponsesStayInProject` of `RequestSend`.
2. Models: the SCIM connector's life cycle with its token lease, MCP HTTP idle expiry
   and eviction, response and stream histories, the SSE boundary search over chunks.

## 10. How to run

    tlc -workers 2 -config MCProjects.cfg MCProjects
    tlapm McpProofs.tla

The module and configuration of every run are in `PROJECT.json`. The larger runs take
about three minutes with two workers. `WorkbenchProofs` takes the prover about 14
minutes, `McpProofs` four and `ProjectProofs` five, the others seconds to a minute.

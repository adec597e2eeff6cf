# Harmony in TLA+

Models, model-checking runs and machine-checked proofs of
[harmony-zed](../src/README.md): a sidecar (`harmony-mcp`) that records who
changed what, detects overlapping edits, and replicates a project's files
between the laptops of a team.

- [The system](#the-system): its parts, what each keeps, where it is hard
- [Modules](#modules) and how they correspond to the code: [file sync](#file-sync),
  [change tracking](#change-tracking), [agent sync](#agent-sync),
  [opening the store](#opening-the-store), [sessions](#sessions-and-configuration),
  [machine registry](#machine-registry), [live stream](#live-stream)
- [Runs](#runs), with their bounds and fairness
- [Proofs](#proofs)
- [What is not modelled](#what-is-not-modelled)
- [Plan](#plan)

To check everything again, in this directory:

    tlc -workers 2 -config FileSyncFaults.cfg MCFileSync     # and the other .cfg files
    tlc -workers 2 -config TrackingReports.cfg MCChangeTracking
    tlc -workers 2 -config AgentSyncCalls.cfg MCAgentSync
    tlc -workers 2 -config StoreOpen.cfg MCMigrations
    tlc -workers 2 -config SessionTeam.cfg MCMcpSession      # and SessionWindows.cfg
    tlc -workers 2 -config RegistryBeats.cfg MCMachineRegistry
    tlc -workers 2 -config LiveFeed.cfg MCLiveFeed
    tlapm FileSyncContentProofs.tla                          # and the other *Proofs.tla

## The system

One *host* process owns `memory.db` (SQLite) and serves MCP over stdio, HTTP and
TCP, a dashboard with a websocket, and the file-sync endpoints. *Client*
processes on other laptops forward MCP requests to it. Editors start the
processes; agents and people call their tools.

| Part | Code | State it keeps | Operations | What is hard |
|---|---|---|---|---|
| Automatic file sync | `harmony-mcp/src/file_sync.rs`, `server/mcp_http.rs` (push, events), `store.rs` (`file_sync_events`) | the host's event log; on each machine a cursor and the last scan, in memory and in `network-sync-state.json` | a loop: scan, diff, push, fetch, apply, save | users edit in the middle of a cycle; pushes refused or unanswered; crash between apply and save; two machines pushing at once |
| Change tracking | `tracking.rs`, `overlap.rs`, `store.rs` | provenance tags, agents, overlap events | `record_change`: validate, register the agent, insert the tag, detect, insert overlaps | several store calls under a lock taken per call; who counts as the same actor; what is already resolved |
| Overlap resolution, negotiation | `server/web.rs`, `tools.rs`, `negotiation.rs` | overlap status, decisions in memory | resolve, negotiate, list decisions | status updates from a snapshot read earlier; an answer of an LLM that cannot be parsed |
| Agent sync | `tools.rs` (`harmony_sync`), `main.rs` (`sync`) | `agent-sync-state.json` | report every file changed since the last call | two processes read, modify and write one file; signature read before content |
| Memory store | `store.rs`, `schema.rs` | SQLite tables, `schema_version` | open with migrations, queries | a crash between a migration and the record of it; two processes that migrate at once |
| Registry, heartbeat | `server/mod.rs` | the host's table of machines, in memory | register, heartbeat, snapshot | a ten-second window and posts that are late or lost; a host that forgets; two processes of one machine |
| Live stream and dashboard | `server/mod.rs`, `server/web.rs`, `dashboard/app.js` | broadcast channel of bounded size, a cursor per socket, the page's list | report, resolve and remember with a broadcast; subscribe, lag, reconnect, ask again | sockets that lag behind; events sent after the lock is released; answers that overtake one another |
| Transports and start-up | `transport.rs`, `server/ipc_tcp.rs`, `server/mcp_http.rs`, `main.rs` | which ports listen; the message at hand | framing, handling, bridging and proxying of requests | hosts that are not there, end in the middle of a call, or are another project's |
| Configuration | `harmony-core/src/config.rs` | `config.toml` | load with defaults, write the template | three sources of one default |
| Sidecar supervision | `harmony-extension/src/sidecar.rs`, `ipc.rs` | none: nothing calls it | | |
| Shadow diffs, sandbox, impact analysis, negotiation | `shadow.rs`, `sandbox.rs`, `harmony-analyzer`, `negotiation.rs` | none: only tests call them | | |
| Embeddings, panels, other commands | `embeddings.rs`, `panels.rs`, `main.rs` | none | parsing, formatting, floating point | little a model would find |

Interactions: every tool call, HTTP handler and loop of a process shares one
`Mutex<MemoryStore>`, locked per call; the file-sync loops reach the host's
store directly (host) or over HTTP (clients); events reach dashboards through a
broadcast channel of bounded size.

What makes each part correct:

- *File sync*: no machine takes an unpublished file for a replicated one; the
  loop destroys no bytes that exist nowhere else; every machine sees every
  event of the others, in order; nobody echoes what it received; when the edits
  end, the trees become equal.
- *Change tracking*: two changes of different actors that overlap give an
  overlap, once; a change of one actor never overlaps with itself.
- *Resolution*: a resolved overlap stays resolved; a decision belongs to it.
- *Agent sync*: a changed file is reported, and only once.
- *Store*: what `open` returns has the whole schema; openers that collide leave
  a database that opens.
- *Sessions*: each request is answered once, in its framing and order, and
  carried out at most once, whoever's host carries it out.
- *Configuration*: a restart runs with the settings of the start before.
- *Registry*: a machine that beats is shown online, and only such a machine.
- *Live stream*: events come in order, and the dashboard shows the store in the
  end, whatever its socket missed.

## Modules

| Module | What it is |
|---|---|
| `ProjectTree` | pure operators: a project directory, what a scan of it gives, the difference of two scans, the effect of file operations |
| `FileSync` | the replication loops of all machines, the host's log, users and faults; its properties |
| `MCFileSync` | the trees the runs use |
| `FileSyncProofs` | lemmas about trees; what a step leaves alone; type correctness; what the cursor says of the events looked at; the replay of the log, and machines that are replicas of it |
| `FileSyncContentProofs` | what remembered signatures say of the files: their bytes are published, and the newest known; machines without editors publish nothing |
| `ChangeTracking` | `record_change` of all threads and processes over the tables of `memory.db`, statement by statement; overlap detection; resolution; its properties |
| `MCChangeTracking` | the processes and reporters the runs use |
| `ChangeTrackingProofs` | type correctness, and every other property of its run |
| `AgentSync` | `harmony_sync` and `harmony-mcp sync` over one state file, while the project is edited; its properties |
| `MCAgentSync` | the files a call may name, and the symmetry of callers |
| `AgentSyncProofs` | type correctness, and the three properties of its run |
| `Schema` | the migrations of `schema.rs` as statements |
| `Migrations` | `MemoryStore::open` of several processes, statement by statement; its properties |
| `MCMigrations` | `Migrations` with the scripts of `Schema` |
| `MigrationsProofs` | type correctness and the safety properties, for any scripts |
| `McpMessages` | pure operators: the framings of MCP, the two readers, `handle_request` |
| `Configuration` | pure operators: `config.toml`, its defaults and its template |
| `McpSession` | processes of several projects, how they start and listen, and the requests editors send them; its properties |
| `MCMcpSession` | the command lines, configurations and messages of the runs |
| `McpSessionProofs` | lemmas about the readers and the template; type correctness and the safety properties |
| `MachineRegistry` | the host's list of machines and the clients' heartbeats, second by second; its properties |
| `MCMachineRegistry` | which window is on which machine |
| `MachineRegistryProofs` | type correctness and the safety properties, for any intervals |
| `EventFeed` | abstract: what a stream of events promises its subscribers |
| `LiveFeed` | the handlers that broadcast, the channel, the sockets and the dashboard; its properties; the mapping to `EventFeed` |
| `MCLiveFeed` | the tags of the records |
| `LiveFeedProofs` | type correctness, the safety properties, and that `LiveFeed` implements `EventFeed` |

How they compose: agent sync calls `record_change`, of which it needs to know
only that an error means that no tag was stored and an answer that one was; both
hold of `ChangeTracking`, whose `CallFails` ends a call before `InsertTag` and
whose calls answer after it. So `record_change` is one step of `AgentSync`. File
sync shares no state with the two: it never calls `record_change`, and the events
it applies make no provenance tags. `McpSession` extends `McpMessages` and
`Configuration`, and knows of a call that writes only that it wrote: what it
writes is the other modules'. `LiveFeed` takes what `record_change` found as a
choice of none or one new overlap, and adds what happens around it: the lock, the
broadcast, and who sees it. The store `Migrations` opens is the one they all
write to; its `OpenStoreIsWhole` is what they assume of it.

## File sync

`sync_once` runs as a sequence of awaits and file operations while users edit
the tree. `FileSync` cuts it where somebody else can get in between:

| Action | Code (`file_sync.rs`) |
|---|---|
| `Start` | `run_sync_loop` up to the loop: `AutoSyncState::load` |
| `Scan` | `collect_project_entries`, and the comparison in `build_local_events` |
| `ReadChanges`, `ReadFails` | the `fs::read` of each changed file in `build_event_for_current_path`; an unreadable or oversized file fails the cycle |
| `Push`, `PushRefused`, `PushUnanswered` | one `push_local_event`: answered (the cursor moves, 166), refused or unreachable (the host's own insert may fail as well, 198), or stored with the answer lost |
| `Fetch`, `FetchFails` | `sync_state.entries = current_entries` (169) and `fetch_remote_events`, or its error, on the host that of its own read (240) |
| `SkipOwn`, `ApplyFolder`, `ApplyFile`, `ApplyDeletion`, `ApplyFails` | one round of the loop over `remote_events` (172-180); the cursor moves first (173); `create_dir_all` may have made folders (`HalfMade`) before an application fails |
| `RecordFile`, `RecordFails` | `fs::metadata` and `entries.insert` after `fs::write` (514-522) |
| `Save`, `SaveFails` | `AutoSyncState::save` |
| `Crash`, `CrashInSave` | the process dies; in the second, inside `fs::write` of the state file, which truncates first and makes the next `load` start afresh |
| `UserWrites`, `UserMakesFolder`, `UserRemoves` | an editor or a shell |

| Variable | Code |
|---|---|
| `log` | the rows of `file_sync_events`; a row's `seq` is its index (AUTOINCREMENT, nothing is deleted) |
| `disk[m]` | the files below `project_root` |
| `last[m]`, `entries[m]` | `sync_state.last_remote_seq`, `sync_state.entries` |
| `saved[m]` | `network-sync-state.json` |
| `scan[m]`, `outbox[m]`, `inbox[m]` | `current_entries`, what is left of `local_events` and `remote_events` in the running `sync_once` |
| `pc[m]`, `writing[m]` | where in the loop the machine is |
| `applied`, `failed`, `raced` | history, read by properties only |
| `faults` | history: which faults happened to whom; their number is bounded |

Abstractions, all of data:

- Bytes are model values; base64, SHA-256, ids, times and summaries are left out.
- A signature (modification time in ms, size) is a *stamp*. Signatures are only
  compared for equality, so a write takes any stamp that the tree, the entries,
  the state file and the scan do not hold at that path: `FreshStamp`, which five
  stamps always provide (lemma `FifthStamp`). Two writes of one file within a
  millisecond and of one size are therefore outside the model.
- Paths are numbers in the order of the `BTreeMap`; `Ancestors` gives the tree
  they form. Paths the skip lists exclude are not among them.
- The directory walk is one step, and so is reading the changed files; each can
  be preceded by edits. A failing `fs::write` of a project file leaves the old
  file (a full disk that truncates it is left out).
- Machines have different names and addresses, so `is_self_event` compares
  identities.

### Hazards of file sync

`PROJECT.json` lists them at their lines, each with the properties that watch
it. Those that really bite, found by TLC:

- *Pushing moves the cursor* (164-171). If another machine's event was stored
  since the last fetch, it is skipped for good. `NothingMissed` fails in four
  steps of two machines (`file_sync_missed`). `MissedOnlyBehindOwnPush` says, and
  the proof shows for any configuration, that this is the only way an event is
  missed.
- *An oversized file stops everything* (387-394): the error leaves `sync_once`,
  and while the file is there the machine neither pushes nor fetches, although
  config.rs:358 says that such files are skipped. `file_sync_faults` has such a
  file: what was pushed before it is remembered rightly.
- *Lost answers*: an event that was stored without an answer is pushed again,
  and if its file is deleted before the next scan, no deletion is ever
  published: the file stays on the others. A folder that turned into a file
  during such a cycle may not arrive either. `EditorsFilesArrive` is what
  remains true; `Convergence` holds in runs without lost answers.
- *A crash between applying and saving* makes a machine publish what it had
  received, as its own changes, and apply old events over newer files. So
  `ReceiversNeverPublish` is checked without crashes, `InSyncFileIsNewestKnown`
  speaks of machines that did not crash and lost no answer (`Unsure`), whatever
  happens to the others, and `RememberedFilesArePublished` of all.
- *An edit between the fetch and `fs::write`* is overwritten unpublished;
  `OverwritesPublishedOrUnscanned` says that this window is the only one.
- *Folders made along the way are not remembered.* A file's event makes the
  folders above it (`create_dir_all`, 508-511) and enters only the file (514-522).
  If the folder's own event was followed by a deletion from another machine, the
  next scan finds the folder as new, and a machine on which nobody edits publishes
  it as its own. TLC shows it with two editors and a receiver, in 28 steps: the
  host makes a folder with a file in it, the other editor receives the folder and
  deletes it before the file's event is stored. A refused push or an event that
  cannot be applied leads there too. So `ReceiversNeverPublish` is proved
  for projects without folders and for one editor, and checked for the second.
- *A deletion of the other kind* drops the entries of the path whatever stands
  there (525-541), so that what stands there counts as new in the next cycle. The
  same two conditions exclude it.
- *A write between `fs::write` and `fs::metadata`* (513-514) is remembered as the
  loop's own and is never pushed; `raced` marks such files, and the properties
  about remembered files exclude exactly them.

## Change tracking

A process (the server, every command line that runs beside it) has one
connection and one mutex around it; a call of `record_change` holds the mutex
from beginning to end, but each of its statements commits by itself, so calls of
*different* processes interleave between any two statements.

| Action | Code |
|---|---|
| `Report` | `record_change` up to its first statement (`tracking.rs` 29-65): lock, `canonical_actor_id`, the range check, the tag |
| `FindAgent`, `RegisterAgent` | the two statements of `ensure_agent_registered` (163-192): read the agents, `INSERT OR REPLACE` the row made of what was read |
| `InsertTag` | `insert_provenance_tag` |
| `Detect` | `get_recent_tags_for_file` and `detect_overlaps` (71-73, `overlap.rs` 24-74) |
| `StoreOverlap`, `Answer` | the loop over the detected overlaps (74-80), and the return |
| `CallFails` | any error up to the insertion of the tag: `?` |
| `DetectFails` | an error in reading the recent tags: `unwrap_or_default` |
| `StoreFails` | an error in storing an overlap: logged, its id still in the answer |
| `Crash` | the process dies in a call |
| `Resolve` | the dashboard's `resolve_overlap` (`server/web.rs`): an unconditional update of the status, under the server's mutex |
| `Tick` | a minute passes |

| Variable | Code |
|---|---|
| `tags`, `agents`, `overlaps` | `provenance_tags` in order of insertion, `agents` by `actor_id` (UNIQUE), `overlap_events` |
| `pc`, `call`, `found`, `mine`, `todo` | the locals of each running call: next statement, arguments and tag, agent row read, index of the tag inserted, overlaps still to store |
| `done`, `silent` | history: answered tags; pairs whose error was swallowed |
| `reports`, `faults` | how much of the bounds is used; `reports` also numbers the calls, for the fresh ids of agents |

Abstractions, all of data: an actor id is a record of its name and the machine
it is qualified with; a tag is its actor, machine, file, lines and time (diffs,
sessions, embeddings and summaries are left out); of an agent's row the id and
the prompt are kept, since a report can only change those two in a way that
matters; nobody reports an id that itself names the machine `local`, which would be
a second id of an author that `canonical_actor_id` does not unite with the first; UUIDs are numbers never used before; rows get their index for an id.
`CallTime` bounds how long a call takes: the clock is read at the start of the
call for the tag's time and again for the query. The events a call broadcasts to
dashboards, and the impact graph it asks for, belong to other components.

### Hazards of change tracking

- *Statements of two processes interleave.* Both may insert before either
  detects; then both see the other's tag. No conflict is lost that way, because
  each call inserts before it reads (`EveryConflictReported`, proved), but the
  pair is stored twice, once in each direction. `OneOverlapPerPair` says, and the
  proof shows, that one process's mutex prevents it.
- *A resolved pair comes back.* The second of the two rows above may be stored
  after the first was resolved. Rule 5 of `is_real_overlap` (overlap.rs:41-42)
  leaves it to the caller to filter such pairs, and the only caller does not.
- *The window is a literal*: `record_change` looks back 30 minutes, whatever
  `overlap_window_minutes` is configured (docs/PROJECT.md:97).
- *The agent's row is read and written in two statements*: of two processes that
  register one agent, the later write takes away the id and the prompt of the
  earlier. `AgentKept` says that only another process can do this.
- *Errors are swallowed after the tag is in*: the conflicts of such a call are
  never reported. `silent` marks exactly these; everything else is reported.
- *A name can be qualified or not*, and two machines can use one name:
  `EveryConflictReported` and `OverlapsAreConflicts` compare authors (name and
  machine), the code compares actor ids.

## Agent sync

The tool `harmony_sync` (`tools.rs`) and the command `harmony-mcp sync`
(`main.rs`) are the same code written twice. Both read
`.harmony/agent-sync-state.json` at the beginning of a call and overwrite it at
the end; nothing guards it.

| Action | Code (`tools.rs`; its twin in `main.rs` is alike) |
|---|---|
| `Load` | `SyncState::load` (587-601); on a file that does not parse the call ends with an error and changes nothing |
| `ListCandidates` | the files named by the caller, or `discover_recent_text_files` (365-377, 713-762) |
| `Skip`, `Sign` | `sync_one_file` up to the comparison of the signature (621-635) |
| `Read`, `ReadFails` | `read_text_file` (637, 847-854): the file may be gone, or binary |
| `Record`, `RecordFails` | `record_change` and `state.files.insert` (650-702), or the error that skips the file |
| `Truncate`, `Save` | `SyncState::save` (603-609): `fs::write` truncates, then writes; what a concurrent call wrote in between, if it was longer, stands out behind and the file no longer parses |
| `ListFails` | `discover_recent_text_files` meets what it cannot read (366-374): the call ends |
| `SaveFails`, `Crash` | the file cannot be opened; the process dies, or the write to the emptied file fails |
| `Write`, `Remove`, `Tick` | agents and people edit the project; time passes |

| Variable | Code |
|---|---|
| `disk`, `stateFile` | the project's files; `agent-sync-state.json` |
| `pc`, `known`, `todo`, `current`, `signature`, `content` | the locals of each running call: its `SyncState`, the candidates left, the one at hand with its signature and content |
| `reported` | the contents in `provenance_tags` |
| `listed`, `failed`, `twice`, `disturbed` | history, read by properties only |

Abstractions, all of data: a write gives a file a new version number, which
stands for content and signature alike, so two writes of one size within a
millisecond, or a tool that restores the modification time, are outside the
model. The walk that discovers recent files is one step. Candidates are taken in any order. Files the skip lists exclude are not
among `Files`. `Since` is in ticks of the clock.

### Hazards of agent sync

- *An edit lands between the signature and the reading*, or between the reading
  and the report. Because the signature comes first, what is remembered is never
  newer than what was reported (`NoEditForgotten`, proved): the worst is a second
  report.
- *Two calls at once* overwrite each other's state. Files are then reported again,
  with new overlaps against the edits of others, but no edit is lost.
  `SyncedOnce` says that without such overlap, failures or edits in the middle of
  a reading nothing is reported twice.
- *The state file can break for good*: a crash inside `fs::write`, or two saves
  that cross, leave it empty or garbled, and every later call fails to load it
  until someone deletes it. The model has these states, and no call begins in
  them.

## Opening the store

Each process opens `memory.db` for itself (`MemoryStore::open`). SQLite makes a
statement atomic; nothing makes a script, or a script and its row in
`schema_version`, atomic.

| Action | Code (`store.rs`) |
|---|---|
| `Begin` | `open` up to the loop over `MIGRATIONS` |
| `Skip`, `Apply` | the query whether `schema_version` has the migration |
| `Execute`, `ExecuteFails` | one statement of `execute_batch`: accepted, or refused because its column is there |
| `Record`, `RecordFails` | the insertion of the row, whose id is the primary key |
| `Finish`, `Close`, `Fault` | `open` returns; the process ends; an error or a crash between two statements |

`objects` and `applied` are the tables, indexes and columns of the database and
the rows of `schema_version`; `pc`, `migration` and `statement` where each opener
is. A script is its sequence of statements; a statement is the object it makes,
its table, and whether it can be executed once only (`ALTER TABLE ADD COLUMN`).
Columns within `CREATE TABLE` and types are left out, and so is waiting for a
locked database, which ends in the statement or in an error (`Fault`).

What bites: an error or a crash between an `ALTER TABLE` of `V006` and the record
leaves a database that no later `open` gets through, until someone repairs it by
hand. `OnlyFaultsWedge` says that collisions alone never do this: one of two that
collide may fail, but then the other is still there to record, and a retry
succeeds (`SchemaCompletes`).

## Sessions and configuration

A process of `harmony-mcp` is started per project window (`main.rs`), as a stdio
server, as a host or as a client. `McpSession` has all ways a request can take:

| `Kind` of a channel | Code |
|---|---|
| `stdio` | `run_stdio_server`: stdin, the process's own store |
| `bridge` | `run_stdio_http_bridge`: stdin, by HTTP to the host at an address |
| `local` | `serve_local_client` (`ipc_tcp.rs`): TCP, the host's own store |
| `proxy` | `serve_proxy_client`: TCP to a client process, by HTTP to its host |

| Action | Code |
|---|---|
| `Start` | `bootstrap_project`, `run_serve_mode`, `resolve_runtime_mode`; `Loaded` and `AfterLoading` are `load_from_path` and the writing of the template |
| `Listen`, `ListenFails` | the binding of the ports in `run_host` and `run_client`; with a bridge, the error stays in the spawned task |
| `End` | the editor closes stdin, or the process is killed |
| `Write`, `Read` | a message in one of the framings; `read_stdio_message` (`ReadStdio`) and `read_message` (`ReadIpc`) |
| `HandleHere` | `handle_request` on the process's own store |
| `Forward`, `PassOn`, `LoseAnswer`, `LoseBody` | the post, `handle_mcp` at whatever host listens there, and the answer, or the end of that host before it, or between its headers and its body |
| `ForwardFails`, `ForwardMalformed`, `ForwardTooLarge` | nobody listens; the text does not parse; axum refuses the body with a text that is no JSON |

An answer that is no JSON, or not a whole one, ends a bridge and closes a proxy's
connection (`Breaks`). `CallTool` says what a call may end with and whether something
is recorded then: the `Recorders` store one record by their last statement that can
fail, or answer with a result that says `isError`; `harmony_sync` may skip every file
and give a result, or record and then fail to save.

`handling` is the message a channel is at, with the answer once there is one,
`output` what was answered, `calls` what was recorded in each project's store; `sent` and `repeated` are history.
Ports are pairs of a machine and a number. A message is its method, tool and
whether it has an id, parses, and is too large; a stream is a sequence of lines and
bodies. Editors write no bad length on stdin and no blank first line on a socket: the
readers' ends by those are in `ReadStdio` and `ReadIpc` but are not reached.

What bites: *a host's ports are taken*. A second window's host loses all its
listeners, nobody is told, and its bridge posts to the port all the same, where
another project's host records the calls in its own database. TLC finds it with
the settings that Harmony writes itself (`session_windows`, against
docs/PROJECT.md:137). *A host ends after a call and before its answer*: the
editor gets a bridge's error for what was recorded, or loses its channel;
`NoCallTwice` says that no transport sends it again, and `VerdictsAreTrue` that a
result is only given for what was recorded, and a tool's own error for what was not. *Defaults are written three times*: `RestartKeepsSettings`
compares the start that writes the template with the one that reads it, for every
key but the session id, which is drawn anew while no file holds one.

## Machine registry

| Action | Code (`server/mod.rs`) |
|---|---|
| `StartHost`, `StopHost` | `run_host` with its own entry; the process ends and its list with it |
| `Post` | `heartbeat_loop` posts, to register or to beat |
| `ReadClock`, `Upsert` | `upsert_machine`: `Utc::now`, then the lock and the entry |
| `Answered`, `Failed` | the answer, or another, or none; then the sleep |
| `StopClient`, `StartClient` | a window closes and opens again |
| `Tick` | a second passes, but not past a post that is due or an answer that must come (`MaxDelay`) |

`machines` is the list with the seconds since each `last_seen`; `at`, `left`,
`out` and `registered` are the loop's place and locals; `now` is how old the time
is that `upsert_machine` read. `missed` and `quiet` are history. A machine is its
`machine_key`: two windows of one laptop share it, and a client on the host's
machine has the host's.

What bites: *three, ten and late answers leave little room*. `SteadyMachineOnline`
holds under `RegistryAssumption`, which says how much: with the code's constants,
posts of up to one second and one loss in a row. *A host that restarts forgets*:
clients do not notice, since a heartbeat makes an entry like a registration;
`ClientsReturn` fails if it only refreshed one. *A client on the host's machine
takes over its entry*, role included (198): the host is then shown offline ten
seconds after that client's last beat, while it answers the very request, although
the comment at server/mod.rs:347-349 says that its entry never should be. TLC finds it
(`registry_host`). `OnlineMeansHeard` speaks of the other machines. That a host stores
a post its client has given up is left out.

## Live stream

| Action | Code |
|---|---|
| `Begin` | a request: `report_change`, `/api/resolve`, or a message of a dashboard's socket |
| `Report` | `handle_record_change`, which keeps the store locked until it has broadcast |
| `Resolve`, `Remember` | `resolve_overlap`, `add_memory_record` (`server/web.rs`), which release it before |
| `ReportFails`, `ResolveFails`, `RememberFails`, `ServeFails` | a statement of theirs fails, before or after something is committed; `api_overlaps` answers 500 |
| `Broadcast` | one `broadcast_event` |
| `Connect`, `Forward`, `Lag`, `Disconnect` | `connectWs` and `handle_socket`, with `RecvError::Lagged` |
| `Ask`, `Serve`, `Show` | the page's timer, `/api/overlaps`, `refreshOverlaps` (`dashboard/app.js`) |
| `StopHost`, `StartHost` | the process ends, with channel, sockets and handlers; the database stays |

`overlaps` and `memory` are the store; `lock`, `job`, `stage`, `out` and `answer`
the running handlers; `channel` the broadcast channel; `cursor` and `latest` each
socket; `fetches` and `view` the page. `published` and `first` are history: all
events, and how many came before this host. A page has at most one request of the
timer's and one of an event's under way; other processes with the same database
are outside this model.

`EventFeed` is what the stream promises, without channel, handlers or host:
events in order, each at most once, and some may be missed, but only the oldest
and only behind `Capacity` newer ones. `LiveFeed` is checked and proved to
implement it (`FeedInOrder` is `Feed!Spec`), and checked to serve each
subscriber (`FeedServed`, the abstract fairness).

What bites: a socket that lags, breaks or meets a new host misses events and is
told nothing; events are sent after the lock is released, so of two resolutions
the last event may be the first's; an overlap that is resolved and cannot be read back
(web.rs:352) is answered with an error and announced to nobody (`ChangesAnnounced`
says that there is no other way); and of two requests for the list the older answer
may come last. The page asks again, on each event and every few seconds:
`DashboardsShowStore` says that this is enough.

## Runs

Each run is one question. First file sync: `h` is the host, `a` a
client. Every bound is a constant of the module: `MaxEdits` user edits, `MaxFaults` faults,
`FetchLimit` events per fetch (1, so that the limit of 256 is always reached).

| Run | Instance | Shows |
|---|---|---|
| `file_sync_faults` | `h`, `a`, both edited; a folder and a file in it, of a content below or above the size limit; 2 edits, one fault of any kind | `TypeOK`, `RememberedFilesArePublished`, `MissedOnlyBehindOwnPush`, `InSyncFileIsNewestKnown`, `OverwritesPublishedOrUnscanned` |
| `file_sync_lost_answers` | `a` edits two files side by side, 3 edits; pushes refused or unanswered, fetches and saves fail | `EditorsFilesArrive` (liveness) |
| `file_sync_folders` | `a` edits a path that may be a folder or a file, and one below it; 3 edits, a failed fetch or save | `ReceiverReplaysLog`, `ReceiversNeverPublish`, `Convergence` (liveness) |
| `file_sync_missed` | `h`, `a` both edit | a violation: `NothingMissed` |

Then change tracking: `s1` and `s2` are threads of the server, `cli` a command
line. `MaxReports`, `MaxTime` and `MaxFaults` are the bounds.

| Run | Instance | Shows |
|---|---|---|
| `tracking_reports` | all three callers; an agent, and a person on the machine called `local`, with and without a prompt; files of two lines; 2 reports, 2 minutes with a window of 2 and calls of one, one fault; resolutions | `TypeOK`, `OneOverlapPerPair`, `EditorsAreRegistered`, `AgentKept`, `EveryConflictReported`, `OverlapsAreConflicts` |

Agent sync:

| Run | Instance | Shows |
|---|---|---|
| `agent_sync_calls` | a server and a command line, two files of any kind, a call may name one of them or look for recent ones; 2 edits, one tick beyond `Since`, one fault | `TypeOK`, `NoEditForgotten`, `CandidatesAreReported`, `SyncedOnce` |

And the other parts:

| Run | Instance | Shows |
|---|---|---|
| `store_open` | `host` and `cli` open, close and open again a database that is new or of release 5, 6 or 7, with the scripts of `schema.rs`; one error or crash | `TypeOK`, `OpenStoreIsWhole`, `OnlyFaultsWedge`, `LoneOpenSucceeds`, `SchemaCompletes` (liveness) |
| `session_team` | two projects in four set-ups: a host and a client on two laptops; a bridge on a broken file and a client by flag; two windows of which one cannot listen; stdio beside a client without a host. 2 messages of four kinds, 3 starts, one end of a process | `TypeOK`, `AnswersFollowRequests`, `NoCallTwice`, `VerdictsAreTrue`, `RequestsAnswered` (liveness), `RestartKeepsSettings` |
| `session_windows` | two projects, with the command line of the extension and the file it writes | a violation: `CallsStayInProject` |
| `registry_beats` | two windows on a laptop, one on the host's machine; 3 and 10 seconds as in the code, posts of up to one second, one lost in a row; one fault | `TypeOK`, `SteadyMachineOnline`, `OnlineMeansHeard`, `ClientsReturn` (liveness) |
| `registry_host` | the host and a window on its machine; one fault | a violation: `HostShownOnline` |
| `live_feed` | one dashboard, one overlap, a channel of two events; two requests, resolutions by known and unknown words; one disconnection, end of the host or failing statement | `TypeOK`, `AnswersAreOwn`, `ChangesAnnounced`, `FeedInOrder`, `FeedServed`, `DashboardsShowStore` (the last two liveness) |

*Why the bounds are enough.* For file sync, two edits give every pair of concurrent or
successive operations on a path and its folder (create, overwrite, delete, change
of kind); one fault can fall between any two steps of any cycle; two machines
are what a conflict needs; more are covered by the proofs. A fetch of
one event at a time makes the limit, and the gap it could leave, happen in every
cycle. The machines cycle without bound: nothing limits how often they scan,
push and fetch. For change tracking, overlaps are of pairs, so two reports make
every case of detection, at both ends of the window and of a range, whether the
two come from one process, from two at once, or follow each other; what more
reports and longer files would add is covered by the proofs, which bound neither. For
agent sync, two edits are a file and its change in the middle of a call, or two
files of which two calls each remember one; calls are not bounded, so calls that
overlap can be followed by calls that meet what they left. Callers are symmetric
there and all properties are invariants. These two runs do not check for
deadlock: nobody has to report an edit, once the bounds are used up the system
may stand still, and a broken state file stops agent sync. Nor do `session_team`,
`session_windows` and `live_feed`: an editor need not send anything, and when
every page is fed and no request is left nothing need happen.

For the store, the scripts are the real ones, and opening is not bounded; two
openers meet in every pair of statements, and a third would only repeat what one
of the two does (the proofs have any number). For sessions, two messages are a
request and one before or after it in the same stream, or one in each of two;
three starts are both processes and the restart of one. For the registry, time is
not bounded: ages are cut off where they no longer matter (`Older`, `VeryQuiet`).
One fault is a lost post, the end of the host or that of a window, at any second
of any beat. For the stream, two requests broadcast up to six events over a
channel of two, so that a socket lags at every distance.

*Fairness* (`FairSpec`): `run_sync_loop` is an infinite loop with a sleep, and a
process that is down is started with the editor, so each machine's loop is
weakly fair, as one action: which of its steps is enabled is determined by its
state, but for faults, whose number is bounded. Users and crashes are not fair.
Liveness therefore says: when the edits and faults have ended. Change tracking
and agent sync state no liveness property and assume no fairness: a call is a
straight line that waits for nothing but a mutex, and nothing makes anybody call.

In `Migrations`, who has begun to open goes on, since `run_migrations` waits for
nothing; nobody has to begin or to try again. In `McpSession`, the tasks of a
running process run on, one action per channel and per process; starts, ends and
what editors write are not fair. In `MachineRegistry`, the host is started again
with its editor, `heartbeat_loop` is an infinite loop, a post ends by an answer or
an error, and time passes; nobody has to start a window again, and `ClientsReturn`
speaks of running ones. In `LiveFeed`, the host is started again, handlers and
sockets run, the page's timer fires and a broken socket is opened again
(`app.js`), and each request of the page ends. It is stated per handler, per
dashboard and per request, as the runtime has a task for each.

*Mutants.* Beside the definitions they replace stand variants, marked `Variant:`,
of a plausible mistake in the code (the newest events fetched instead of the
oldest, a refused push that lets the cycle go on, a deletion that leaves what a
folder holds, ...). Each property fails under one of them, in its own run.

## Proofs

For every value of the constants (any machines, processes, tree, contents,
lines, faults, edits), from `TreeAssumption`, `SyncAssumption`,
`TrackingAssumption`, `AgentSyncAssumption`, `ScriptAssumption`, `OpenAssumption`,
`SessionAssumption`, `RegistryAssumption` and `LiveAssumption` only. Seven theorems of
file sync have a further hypothesis, on the constants: which faults happen, or
which shape the project has and who edits. Their tables name it, and the text why
it is needed; the runs that check the same properties meet it.

### File sync

| Theorem | Says |
|---|---|
| `TypeCorrect` | `Spec => []TypeOK` |
| `MissedOnlyBehindPush` | `Spec => []MissedOnlyBehindOwnPush` |
| `ReceiversMissNothing` | a machine that published nothing has missed nothing |
| `RememberedIsPublished` | `Spec => []RememberedFilesArePublished` |
| `OverwritesOnlyPublished` | `Spec => OverwritesPublishedOrUnscanned` |
| `InSyncIsNewest` | `Spec => []InSyncFileIsNewestKnown` |
| `ReceiversReplay` | `Spec /\ []ReceiversNeverPublish => []ReceiverReplaysLog`, if no machine crashes and events can be applied (`SureHands`) |
| `FlatReceiversNeverPublish` | `Spec => []ReceiversNeverPublish` in a project without folders (`Flat`), if no machine crashes, removals succeed and, where folders may be made, nothing fails after making some |
| `FlatReceiversReplay` | `Spec => []ReceiverReplaysLog` under `Flat` and `SureHands` |
| `SoloReceiversNeverPublish`, `SoloReceiversReplay` | both, in any tree, if one machine edits and nothing fails but fetches and saves (`Solo`) |
| `FlatFilesArrive` | `Spec => []RememberedFilesArrived` in a project without folders, if one machine edits and `SureHands` |
| `SoloTreesAgree` | `Spec => []SettledTreesAgree` in any tree, under `Solo` |

`TypeOK` is inductive with its two extra parts: `CycleOK` ties the variables of a
cycle to its phase (events to apply lie between the cursor and the end of the
log; the outbox is empty but when pushing), and `IsTree` says that what exists
lies in folders that exist. The lemmas `WithFoldersTree`, `WithFileTree` and
`AfterDeletionTree` carry the second.

`MissedOnlyBehindOwnPush` needs, besides itself, the same of the cursor in the
state file (a restart goes back to it) and that the inbox has no gap from the
cursor on (`CursorInv`): the oldest events are fetched, and taken in order.

`RememberedFilesArePublished` needs that the scan of a running cycle matches
only files that are in the log or still in the outbox with the bytes on the
disk, because the scan becomes the remembered state when the outbox is empty;
and that a file just written from an event is in the log, because its signature
is remembered next (`ContentInv`). A user's write changes the signature, so that
it can falsify neither. The action property follows: the loop only overwrites
while it applies, when the outbox is empty.

`InSyncFileIsNewestKnown` rests on `NewestInv`, which says the same of the scan of
the running cycle (a file of the scan is still to be pushed, or is the newest known
and nothing older of it is left to push), of the file just written, and that
whatever the machine knows of lies before its cursor, so that what it fetches is
newer than what it has. A crash takes the cursor back behind events already
applied, and after a lost answer the machine does not know of its own event; hence
both are about machines to which neither happened, as `faults` has it
(`FaultIsRecorded`, `UnsureStays`). What befalls the others does not matter.

The log replayed is defined by recursion over the log, and what such a definition
computes cannot be proved by induction here. It need not be: `OneReplay` says that
exactly one function satisfies the equations of `Replay` for the log at hand. It
holds of the empty log, and stays true when an event is appended, so it is an
invariant like any other (`AlwaysOneReplay`), and it gives the only two facts that
are needed: the replay of a longer log is that of the shorter, continued
(`NextReplayOfLog`), and `Replay[s] = After(Replay[s - 1], log[s])`. A receiver
without a gap in its inbox takes exactly the event behind its cursor
(`TakesTheNext`, from `CursorInv`), and what it does with it is what `After` does,
up to signatures (`View`). That is `ReceiversReplay`.

It needs that receivers publish nothing, because a machine skips its own events.
`QuietInv` is why they do not: between cycles the remembered entries of a machine
without editors are what a scan of its disk gives, so that the difference is empty.
Applying an event keeps it so if the event `Fits` the tree, that is if it changes no
path but its own and those of the folder it deletes; otherwise folders come to be
that nobody remembers (see the hazards). There are two reasons for events to fit.
In a flat project there are no folders to make (`FlatInv`: what is at a path, on any
disk or in any event, is of its one kind). In any tree, if one machine edits,
`SoloInv`: the published tree, the editor's entries and its scan are in step. What
the editor has still to push takes the kinds of the published tree to those of its
scan, path by path (`Waiting`), and in the order of pushing (deletions first, from
the bottom; then creations, from the top) each event fits the tree that those before
it made (`PushFits`); receivers replay that tree, so it fits theirs
(`ReceiversFit`). None of the hypotheses can be dropped: with folders and a second
editor, or a push refused, an answer lost or an event not applied, TLC finds a
receiver that publishes.

The last two theorems say what the liveness properties `EditorsFilesArrive` and
`Convergence` say, of a state in which there is nothing left to do: that there is
nothing wrong with it. Whoever is past the last event has every file that the
editor remembers, as it is on the editor's disk, and machines at rest (`Settled`)
have the same tree. Receivers are the log replayed, so what is to be shown is that
the published tree is the editor's. `SentInv` says that: a file the editor
remembers, in memory or in its state file, is in the published tree as it is on the
disk; a file of the running scan is there too, or is in the outbox with the bytes
that were read. It is kept because each push does what it says to the published
tree and takes nothing away that is not pushed again (`PushesWell`), which follows
from `Waiting`, or from `Flat`; and because the editor never applies an event, all of
them being its own. For agreement `BareInv` is needed besides: what is no file has no
bytes, on any disk and in the published tree.

`CursorInv` and `ContentInv` were checked with TLC on the instance of
`file_sync_faults` before they were proved, `NewestInv`, `QuietInv` and `FlatInv` on
one with two editors, a receiver and two files, and `SoloInv` with the editor on a
client, with the editor on the host, and in a tree three levels deep; `SentInv`,
`BareInv` and the two properties on these and with lost answers.

### Change tracking

| Theorem | Says |
|---|---|
| `TypeCorrect` | `Spec => []TypeOK` |
| `ConflictsReported` | `Spec => []EveryConflictReported` |
| `OverlapsSound` | `Spec => []OverlapsAreConflicts` |
| `PairsReportedOnce` | `Spec => []OneOverlapPerPair` |
| `EditorsRegistered` | `Spec => []EditorsAreRegistered` |
| `AgentsKept` | `Spec => AgentKept` |

All but the last two rest on `TrackingInv`. Its `OneCallPerProcess` is the mutex: two
callers of one process are never both in a call. `CallsOK` says what a call in
progress knows: its tag is in the table at its index, and no tag of its process
follows. `DetectedAll` takes over from `Detect` on: every earlier tag that the
call has to report is stored as its overlap or still to be stored. It holds when
`Detect` happens because the tag was inserted before the table was read, so
whatever precedes it in the table is read (`DetectionIsComplete`); that a tag
nearer than the window less `CallTime` is recent when the query runs is
arithmetic, lemma `WithinWindow`. When the call is answered nothing is left to
store, which gives `EveryConflictReported`.

`TagsWellFormed`, the form `CanonicalActor` gives every tag, makes comparing
actor ids the same as comparing authors (`ConflictIsOverlap`,
`OverlapIsConflict`); with `FoundOverlap`, that what is found really overlaps, it
gives `OverlapsAreConflicts`. `LaterSawEarlier` gives `OneOverlapPerPair`: of two
edits of one process only the later was compared with the other, because by
`CallsOK` the later was not in the table when the earlier one's call read it.

`EditorsAreRegistered` and `AgentKept` rest on `RegistryInv`: a call about to
insert an agent's tag has registered the agent (`InsertsRegistered`), and what a
call read of an agent is still there when it writes, unless another process
wrote the row since (`ReadIsCurrent`).

`TrackingInv` and `RegistryInv` were checked with TLC before they were proved.

### Agent sync

| Theorem | Says |
|---|---|
| `TypeCorrect` | `Spec => []TypeOK` |
| `EditsRemembered` | `Spec => []NoEditForgotten` |
| `CandidatesReported` | `Spec => []CandidatesAreReported` |
| `ReportedOnce` | `Spec => []SyncedOnce` |

The invariant is `SyncInv`: every version that anything mentions (the state file,
a call, a report) is `Past`, that is no newer than the file it is of; whatever is
remembered is `Covered`, by a report of that version *or a later one*; a call's
signature is no newer than its content (`CurrentOK`); and the candidates a call
is done with are reported (`DoneOK`). "Or a later one" is what an edit between
signature and reading leaves of "that version"; if the file is still as
remembered, being past makes the later version the same one, which is
`NoEditForgotten`. That in turn is why `Skip` may pass over a candidate, the hard
case of `CandidatesAreReported`. `OnceInv` adds that undisturbed calls follow one
another and hand on the signature of everything reported, so that a file with
another signature is new. `SyncInv` and `OnceInv` were checked with TLC before
they were proved.

### Opening the store

| Theorem | Says |
|---|---|
| `TypeCorrect` | `Spec => []TypeOK` |
| `OpenIsWhole` | `Spec => []OpenStoreIsWhole` |
| `CollisionsDoNotWedge` | `Spec => []OnlyFaultsWedge` |
| `AloneOpens` | `Spec => []LoneOpenSucceeds` |
| `CollisionsLeaveOneAtWork` | `Spec => []CollisionsLeaveOne`: safety half of `SchemaCompletes` |

The scripts are any in which every object is made by one statement, after its
table's (`ScriptAssumption`, which TLC evaluates for those of `schema.rs`).
`MadeInv` says that a recorded migration is made (`RecordedIsMade`), that an
opener in a script has made what lies behind its statement (`PrefixMade`) and
found every earlier migration recorded (`EarlierRecorded`); an opener that is
through has found all of them, which is `OpenIsWhole`.

`OnlyFaultsWedge` is inductive beside it: a column that is made and not recorded
lies behind an opener that is still in the script. Before it records, that opener
fails only if its next statement is refused, because the column it adds is there
(`RefusedIsMade`). Then, by the same property and because an object has one
statement (`ObjectMadeOnce`), that column lies behind a second opener, further on
in the script, and so does all that lay behind the first. `WedgeNext` is this
argument.

For `LoneOpenSucceeds`, two who open at once know it of each other
(`TogetherDisturbed`), and so does the one whose migration another records
(`OvertakenDisturbed`): an opener that knows of nobody finds only what it made
itself, unless there was a fault.

`CollisionsLeaveOne` says that openers that collide do not all fail: if one has
failed and there was no error or crash, the schema is whole or an opener is still at
work. `HopeInv` names one that will not fail for what is recorded already: it asks
for its migration, or executes one that is not recorded. When it loses a
statement to another, that other is, by `OnlyFaultsWedge`, further on in the same
script, which nobody has recorded; and whoever records a migration goes on to
the next. It was checked with TLC for three openers before it was proved.

### Sessions and configuration

| Theorem | Says |
|---|---|
| `TypeCorrect` | `Spec => []TypeOK` |
| `AnswersInOrder` | `Spec => []AnswersFollowRequests` |
| `CalledOnce` | `Spec => []NoCallTwice` |
| `VerdictsHold` | `Spec => []VerdictsAreTrue` |
| `SettingsKept` | `Spec => RestartKeepsSettings` |
| `NoRequestIsLost` | `Spec => []RequestsKept`: safety half of `RequestsAnswered` |

Messages go one way: written in the order of their numbers, waiting in the input,
handled one at a time, answered. `ChannelOK` says so of each channel. What waits
is as it was sent (`IsSent`) and ordered; what is handled, recorded or answered
came before all that waits (`Overtook`); a recorded call came before the message
that is about to be handled, and so cannot be handled again, which is
`NoCallTwice`; an answer's id is smaller than that of the message handled. What
handling a message may come to gives a true verdict (`RequestAnswer`); it is kept
until the answer is passed on, and stays true because what is recorded later belongs
to later messages.

That the readers keep this rests on the framing. `WellFramed`, a length is followed
by a blank line and a body, holds of whatever editors write (`PieceIsFramed`,
`WrittenWellFramed`) and of what is left when a message was taken
(`RestWellFramed`). Then both readers take a message that is in the stream, in the
framing it has, and leave what follows it (`StdioTakes`, `IpcTakes`): the first
blank line after a length is that length's own (`BlankAfterLength`).

`SettingsKept` is the invariant that `config.toml` is what was read or the
template written instead of nothing (`FileInv`), with `TemplateRunsAlike`, the
agreement of template, defaults and field defaults, key by key.

`RequestsKept` says of every moment what `RequestsAnswered` says of the end: a
well-formed request is answered, or its channel was closed, or somebody is at work on
it (`Busy`): its process handles a message, or will find a whole one when it reads
on. So there is no state in which a request waits and nothing is going to happen.
`KeptInv` has three parts. `IsKept`: a request on a channel that is not closed is
answered, at hand, or waiting in the input; a message leaves the input only into the
hands of a process, and those only with an answer, an error included, or by closing
the channel. `StaysOpen`: a channel with messages that is not closed has its process.
`Announced`: a body follows a length and a blank line, and on a socket, whose reader
takes a line that is no message for a header, such a line is followed by a length;
so none is skipped, and a reader never waits behind one that is there
(`StdioReads`, `IpcReads`).

`ChannelInv` was checked with TLC on the instance of `session_team` before it was
proved, `KeptInv` on that instance with three messages and two faults.

### Machine registry

| Theorem | Says |
|---|---|
| `TypeCorrect` | `Spec => []TypeOK` |
| `SteadyIsOnline` | `Spec => []SteadyMachineOnline` |
| `OnlineIsHeard` | `Spec => []OnlineMeansHeard` |

`SteadyInv` bounds the age of a machine's entry by each of its windows: `Since` is
how long ago the window can have stored its last post, given where its loop is,
and `Lost` adds one sleep and one answer for each post it lost since. The entry
may be `MaxDelay` older, because another window of the machine may have read the
clock before and stored after. With `LostBound` the sum is what
`RegistryAssumption` compares with `OfflineAfter`. `HeardInv` is the converse, from
the entry to the post: an entry is at most `MaxDelay` younger than the last post.

### Live stream

| Theorem | Says |
|---|---|
| `TypeCorrect` | `Spec => []TypeOK` |
| `StreamIsFeed` | `Spec => FeedInOrder`, that is `Spec => Feed!Spec` |
| `AnswersOwn` | `Spec => []AnswersAreOwn` |
| `ResolutionsAnnounced` | `Spec => []ChangesAnnounced` |

`StreamIsFeed` is the refinement, for any capacity of the channel. The abstract
feed has no channel: a subscriber at a position gets the event with that number,
or misses events when `Capacity` newer ones are there. `ChannelInv` makes the
two agree: the channel is a suffix of what was published, it is full unless it
holds everything since this host started, and no socket is older than the host
(`first`), so an event a socket still has to get is in the channel with the
index `Forward` computes (`ForwardsItsEvent`), or at least `Buffer` newer ones
are (`LagStep`). Broadcasts map to `Publish`, the end of the host to `Leave` of
everybody, and what handlers and pages do otherwise to stuttering.

`AnswersOwn` rests on the lock: a handler adds its record and reads the newest with
its first tag in one step, and the newest is then its own (`NewestIsOwn`).
`ResolutionsAnnounced` needs `AnnounceInv`: the event of an overlap's resolution is
published, or a handler still has it to broadcast, was ended by the end of its host,
or answered that it failed. The order of two broadcasts does not matter to it: whoever wrote the
store last has yet to broadcast.

### Only model-checked

All liveness properties, which are out of the prover's reach: `Convergence`,
`EditorsFilesArrive`, `SchemaCompletes`, `RequestsAnswered`, `ClientsReturn`,
`FeedServed` and `DashboardsShowStore`. Of the first four the safety half is proved,
that a state in which there is nothing left to do is a right one: `SoloTreesAgree`,
`FlatFilesArrive`, `CollisionsLeaveOneAtWork` and `NoRequestIsLost`. That such a state
is reached stays with TLC. Every invariant and every action property of
a passing run is a theorem.

## What is not modelled

`PROJECT.json` lists every component with the reason. In short:

- Shadow diffs, the sandbox, impact analysis, the negotiation of `negotiation.rs`
  and the helpers of `sidecar.rs` are library code that no running program calls.
  So overlap resolution is the dashboard's alone, and Zed supervises the process.
- Embeddings are floating-point vectors. What a query by tag returns is modelled
  where an answer depends on it (`LiveFeed`).
- The extension's panels and commands, `pulse`, `doctor` and the dashboard's other
  lists format what they read.
- Container runtimes, LLMs, SQLite, tree-sitter, axum and the network are external.

Of file sync, the model leaves
out what is listed under its abstractions, and a request that never ends
(`reqwest` has no time limit by default).

Some hazards have no property, each with its note in `PROJECT.json`: two saves
within a millisecond, the state file of agent sync that breaks for good, `u32`
arithmetic at its limit, requests that are answered by nobody by design of
`handle_request`.

## Plan

Every part that runs and keeps state is modelled, and every safety property of the
runs is proved, with the safety half of the liveness properties of file sync, of
opening the store and of the sessions. What is left is that half for the registry
and the live stream (a client that beats is in the table, a dashboard at rest shows
the store).

# TLA+ models of fctrl

fctrl runs a Factorio headless server and manages it remotely. Two processes do
the work. The **agent** runs beside the game server, installs versions of it,
starts and stops it, and keeps its saves, mods and configuration. The
**management server** talks to the agent over one WebSocket, offers a REST API
and streams the progress of long operations to browsers. Both are tokio
programs: each request is a task of its own, and anything can happen at an
`await`.

The modules here model what is hard to test in that: handlers that interleave
around locks, failures in the middle of an upgrade, a link that dies silently,
bounded channels, timeouts, files that are rewritten without a lock, and a
database that is read while it is written.
`PROJECT.json` holds, machine readable, the components, the runs, the source
lines behind each definition (`map`), one mutant per checked property, the
hazards and the theorems.

## 1. Inventory

### Components, their state and operations

| Component | State | Operations | Module |
|---|---|---|---|
| Installation and process control (`agent/main.rs`, `server/proc.rs`, `server/mod.rs`, `factorio.rs`) | version map behind an `RwLock`; `running_instance` behind a `Mutex`; child processes; installation directories; names of saves | `version_install`, `version_get`, `server_start`, `server_stop`, `server_status`, `save_create`, `save_delete`, `rcon_command`, `config_server_settings_get`, `mod_dlcs_set`, SIGINT, start-up scan | `AgentServer` |
| Agent link (`mgmt-server/clients.rs`, socket part of `agent/main.rs`) | connection, `ws_connected`, ping counter, three tasks per connection | connect and retry, ping/pong, forward, publish, API call and its timeout | `AgentLink` |
| Operation streams (`events/broker.rs`, `ws.rs`, `routes/download.rs`, response streams in `clients.rs`) | topics (bounded broadcast), paths waiting for a browser, one task per stream, its outgoing channel | subscribe, publish, wait for the Ack, register a path, handshake, forward, inactivity, download | `OperationStream` |
| Server output (`parse_process_stdout`, refresh task of `StartableInstance::start`) | RCON connection, internal server state, `player_count: AtomicU32` | read a line, connect RCON, refresh every 60 s, stop, wait | `ServerOutput` |
| Configuration files and mods (`settings.rs`, `mods.rs`, their handlers) | launch and server settings, secrets, lists, mod list, mod settings, mod archives | `config_*_get/set`, `mod_*_get/set`, `ModManager::apply`, the reads and the rewrite of a server start | `AgentFiles` |
| Save transfer and download links (`util/saves.rs`, `save_get`, `save_set`, upload and download routes, `link_download.rs`, the browser's `uploadSavefile`) | bytes of a save file, open handles, link map | selection of a file, PUT of a chunk and of the sentinel, its 10 s timeout, download, deletion, creation, link creation, expiry and cleanup | `SaveTransfer` |
| Server events (`tag_server_stdout_message`, `events/broker.rs`, subscribers of `mgmt-server/main.rs`, `discord.rs`, `rpc.rs`, `routes/logs.rs`) | the agent's broadcast bus, topics, channels to Discord, stored lines and data points, log streams | print, tag, publish, ingest, handle an RPC command, forward and post, mark and stream a log, restart | `ServerEvents` |
| Database paging (`db.rs`, `routes/logs.rs`, `routes/metrics.rs`, `metrics.rs`, the browser's `fetchPrevious`) | RocksDB column families, a client's position | write, read a range, next page | `Paging` |
| Archive cache (`util/downloader.rs`) | files in the temp directory | download, purge | outcome only, in `AgentServer` |
| Authentication (`auth.rs`, `guards.rs`) | none of its own | login, check | not modelled |
| Start arguments (`builder.rs`), REST conversions, `ws-client`, web UI, build | none, or presentation | | not planned |

### How they interact

A REST route calls `AgentApiClient`, which subscribes to the operation's replies
on the broker, publishes the request on the outgoing topic, and waits for an Ack
(500 ms) or a response. The link's forward task takes requests from the topic to
the agent; its incoming task publishes replies and output lines. For a long
operation the route answers with a `Location` and spawns `stream_at`, which hands
the replies to the browser that connects there. In the agent every message
spawns a handler; handlers share the version lock, the process mutex and the
file system, and reply on the socket. What the game prints goes another way: from
the agent's bus down the same socket, into topics by kind, and from there into
the database, to Discord, to RPC handlers and to browsers that watch a log.

### What is hard, and what correctness means

* *Interleaving handlers.* A start, a save creation and an upgrade race. One
  process at a time; none runs from a directory that is being removed; no child
  is lost unless a stop fails; an upgrade that reports success has restarted the
  server it stopped.
* *Partial failure and restart.* Download, unpacking, removal, stop, spawn and
  configuration reads can each fail in the middle of an upgrade; the agent can be
  killed. The version map must describe the disk, and each request must get
  exactly one terminal reply.
* *Waiting.* Handlers hold the mutex across awaits, some of them without a timeout.
  Nobody waits for ever for another handler.
* *An unreliable link.* Broken, closed, silent and slow connections. No request
  is handed to the agent twice, a dead link is noticed and replaced.
* *Bounded channels and timeouts.* Replies reach the browser once and in order
  unless a receiver lagged; no stream waits or forwards for ever.
* *A counter written from two sides.* The player count is exact, or is repaired.
* *Files without locks.* What was reported as set is still set later.
* *Chunks without a transaction.* A save that was reported as uploaded is the file
  that was uploaded, whatever timed-out attempts the agent still has to handle.
* *Many readers of one event.* A line is stored, posted and shown once, or the
  place that dropped it can be named.
* *Positions kept by clients.* Pages lose and repeat nothing although records are
  inserted between two requests.

`PROJECT.json` lists the hazards line by line, with the properties that would
catch each. Where the code does not keep something, the note says so, and which
property delimits what holds otherwise.

## 2. Modules and how they correspond to the code

**`ServerLifecycle`** is the abstract promise of the agent: a set of installed
versions and a set of live processes, never more than one; a process is launched
alone and from an installed version; a version goes away only when nothing runs.

**`AgentServer`** is the agent's implementation of it. A handler is a task `t`
with a control point `pc[t]`; an action is the code between two awaits at which
another handler can be noticed. `writer`/`readers` are the tokio `RwLock` around
`VersionManager`, `mutex`/`instance` the `Mutex<Option<StartedInstance>>`,
`proc` the child processes. `version_install` is a chain of steps (`vi_lock`, `st_*`,
`in_*`, `rm_*`, `start_*`), each with the failure exits of the code; the steps of
`stop_instance` and of `internal_server_start_with_version` are shared with
`server_stop` and `server_start` as in the source. An installation directory is
absent, partial or complete; a save is a name. A child whose stop or wait fails is
"dropped": nobody tracks it, and it lives until the kill on drop takes effect, which
is a step of its own. `Faults` is the set of failures
that may happen, so that a run can allow all, none or one of them. `Restart` is
crash and start-up together, with the scan of the installation directory as it
is written.

**`AgentLink`** has one state per connection: the three tasks `connect` spawns,
the ping counter, what is on the wire. The keep-alive task sends and counts in
two steps, because the pong can be read in between. Tasks of a connection that
was given up are *not* aborted, exactly as in the code. `outgoing` is the connection's
receiver of the outgoing topic, which keeps `Capacity` requests and skips the oldest
(`skipped`); `PublishOther` stands for the requests of everybody else. `missed` counts as
`consecutive_missed_pings` does; `lost` is a history variable that records that a ping failed
or was not answered in its interval.

**`OperationStream`** numbers the replies of an operation: 0 is the Ack, then the
Ongoing ones, then the terminal one. `queue` is a broadcast receiver, which drops
its oldest events beyond `Capacity`; `buffer` is `buffered(20)`, with `Prefetch`
for the 20. A poll takes events one at a time (`TakeAhead`), since other threads
publish while it does, and keeps the operation's own; `router` is the accept loop, which holds the mutex of the path map
during a handshake. A browser connects early, late or never, may stay silent in the
handshake, may not read, and may leave at any time.

**`ServerOutput`** has the game server and the pipe as an environment, the reading
task, the RCON connection and the refresh task. The counter has `Width` bits and
wraps as `AtomicU32` does.

**`AgentFiles`** writes each handler as the list of file operations it performs.
A file is missing, torn or ok: `fs::write` truncates first, so a reader or a
restart in between finds something it cannot parse. `jobs` are the downloads and
removals that `ModManager::apply` spawns; they outlive a handler that fails, a download
that fails may leave a part of an archive, and one that panics is reported as success.
A start reads launch and server settings, lists and mods (and so may write their
defaults); for a public server it also writes the server settings back from its copy,
with user name and token from the secrets (`server_start_public`). The field
"server" stands for all the other server settings.
`promised` records what was reported as set, and `disturbed` the files touched by
overlapping writers, a failure or a crash.

**`SaveTransfer`** follows one save's name. A file is a sequence of chunks, each
labelled with the content it is a part of, so that a mixture is visible. The browser
slices each chunk from the file that is selected when it sends it, under the name and
length noted when the upload began; `Select` may change the selection at any time. Handles
refer to inodes, which survive a removal of the name. The browser sends the next
chunk only after the last was answered; the agent handles each in a task that a
timeout does not stop. `mixed` records the uploads that met another writer,
`promised` what a download may expect. Links have an age in ticks; the cleanup job
is assumed to run when its interval is over.

**`ServerEvents`** gives a line its number, which is its timestamp and key as well:
timestamps are assumed distinct. A queue is a broadcast receiver together with what
its stream has taken ahead (`buffered(20)`). An event is published topic by topic
in any order, as the iteration over a `HashMap` does. `lost` collects the lines
that some full channel, failed write, dropped connection or restart has taken;
the properties say what holds for all others. `early` holds the lines that had been
published when a browser subscribed to a log. `overlap` records that a connection
was made while an earlier one still published.

**`Paging`** takes a column family for an ordered set of keys, and the key of a data
point for a number made of metric and tick. The client keeps only the position it
was given, as the browser does, while records are inserted on either side of it. Page sizes are
positive, as the REST schema demands.

The `MC...` modules only declare model values, sets of requests and faults, and
symmetry.

## 3. Runs

| Run | Bounds | Shows |
|---|---|---|
| `agent_faults` | 2 handlers, 2 versions (one with the new directory name), 1 save, 2 pids, the requests that change installations or processes (`version_install`, `server_start`, `server_stop`, `server_status`, `save_create`), every failure, SIGINT, crash | `IInv`, types included; one process, and no lost child, but for those a failed stop has dropped; installations present while they are used, quiet while they are replaced; reply protocol; an upgrade reported as completed has restarted the server it stopped; refinement of `ServerLifecycle` |
| `agent_live` | 2 handlers, every request, 1 pid, no failures, fair | every request is answered if RCON commands and downloads are, and some in any case; the map lists complete installations |
| `agent_scan` | a version of the new naming scheme, a restart | *violation*: installed and forgotten |
| `link` | 2 connections, 1 failure or late pong, 1 call among the requests of others, a topic that keeps 1, prefetch 1, fair | a link that answers is never given up; a request is served, and answered, at most once while pongs are in time; the link comes back; what is published is served unless a connection fails or the topic drops it |
| `stream` | 1 operation and 1 download, 1 Ongoing reply each, topic of 2, prefetch 2, fair | nothing missing without a lag; terminal reply before the close; whole downloads; no stream waits or forwards for ever, and all end if handshakes do; the terminal reply arrives at a browser that reads |
| `count` | 2 players, 4 moves, 3 unread lines, 3 bits, fair | exact while refreshes are quiet; repaired after any race |
| `files` | 2 handlers, 3 requests (no third one after a failure or crash), 1 mod, 1 failure or crash | settings and mods that were reported as set are kept; files stay readable |
| `files_whitelist` | 1 handler, 2 requests | *violation*: a white list switched on is read as off |
| `transfer` | 2 uploads of a file of 2 chunks or of 1, 1 download, 1 link, 5 inodes, 3 requests, 2 failures, timeouts or crashes | a completed upload is on disk exactly, over a longer file and after timed-out attempts at the same file too, unless another file was selected meanwhile; a download is one version of the file; links live for their promised time |
| `events` | 7 scripts of 2 lines with 1 failure, lost connection or restart, and 5 of 4 lines without; between them every kind of line, and two or more chats, joins, leaves, state changes and alerts; 2 connections, a bus of 1, topics of 2 | no line vanishes without a cause; Discord gets messages once and in order; the marker and the stream of a log fit together |
| `pages` | keys 0 to 3, 2 metrics, pages of 1 or 2, 4 writes, 5 pages | a query loses nothing that was stored when it began; pages of a log repeat nothing |
| `pages_metrics` | the same | *violation*: a page of a metric repeats a data point |

### Why these bounds are enough to mean something

Two handlers are the smallest number that can race, and the locks are exclusive,
so that a third mostly waits for the same lock; the theorems of section 5 are for
any number. Two versions are needed for an upgrade and for the state after a
failed removal, two pids so that "one process" can fail. Two connections are one
that is given up and its replacement. A topic of two events with three replies
per operation lags in some behaviours and not in others, and the properties
distinguish the two; a download of one chunk leaves the order of chunks to the theorem. Three bits of counter and two players reach the wrap below
zero. Three requests over two tasks reach "set, then overlap with two others", and
one failure at a time is what distinguishes the cases; with two, nearly every file
is disturbed and the properties say nothing.

Two uploads and contents of different lengths are what trimming and mixing need;
three requests are an upload, its repetition and a third party, two troubles a
timeout and a failure in one upload. Of the scripts of lines, the long ones repeat what is
ordered on its own (joins, leaves, state changes, chats, alerts) and can overflow a topic of
two; the short ones pair kinds that share a channel or a filter and leave room for a failure
at any point. Pages of
one and two over four keys give full, short and empty last pages, and an insertion
before, at and after the position.

Handlers that are done retire and their tasks are reused, so `AgentServer` has no
bound on the number of requests. The named bounds of the others are constants:
`MaxConns`, `MaxTrouble`, `Ongoing`, `MaxMoves`, `MaxUnread`, `MaxRequests`,
`Scripts`, `MaxTick`, `MaxWrites`, `MaxPages`.

Deadlock checking is off where the system may rest: all operations over
(`stream`), the server gone (`count`), the requests, lines or writes used up
(`files`, `transfer`, `events`, `pages`).

### Fairness

Weak fairness stands for "a task that can run is run, and timers fire", which the
tokio scheduler gives. The stronger assumptions are these.

* `AgentServer`: strong fairness of the steps that take the process mutex or the
  untimed read lock. tokio's `Mutex` and `RwLock` are first come, first served.
  A process told to terminate exits, and map creation ends; a running host need
  never exit. Lock attempts with a timeout may always time out instead. Nothing is
  assumed of the two waits without a timeout, for the answer to an RCON command
  (`rcon.rs:22-43`, with the process mutex held) and for the download of an archive:
  that none of them lasts for ever is a condition in the first half of `EveryRequestAnswered`,
  and the second half names the requests that are answered without it.
* `AgentLink`: strong fairness of `Connect`: the agent can be reached again and
  again. Nothing is assumed about a silent link; the keep-alive has to find it.
* `OperationStream`: strong fairness where the map's mutex is taken. Nothing is assumed of
  the agent, the network or the browser. Two properties have conditions on the browser
  instead: that a peer in a handshake sends its request or goes away (`HandshakesEnd`,
  for the part of `EveryStreamEnds` that needs the mutex, since `ws.rs:174-183` holds it
  without a timeout), and that a browser reads what is written to it or goes away
  (`BrowserReads`, for `TerminalDelivered`).
* `ServerOutput`: strong fairness of the RCON answer: a server that is asked again
  and again answers at last.

`SaveTransfer`, `ServerEvents` and `Paging` state safety only and need none: what
could fail to happen there is said as "it is still in a queue" or "still ahead".

## 4. Where the code departs from its comments and documentation

Three statements of the repository are refuted by a run.

1. The start-up scan knows one of the two directory naming schemes (`agent_scan`).
2. `LaunchSettings::read` drops `use_whitelist`, which its comment does not say: a
   white list that was switched on is never in effect (`files_whitelist`).
3. The metrics route gives as the next position the tick of whatever key follows a
   full page; if that key is another metric's, the tick leads back into the one
   asked for and data points are repeated, and a client that follows `next` may never reach an end (`pages_metrics`).

The others are behaviours of the models, which the properties of the passing runs delimit.

4. `version_install` assumes at most one installed version. When the removal of
   the old one fails there are two, and a later install can unpack over the
   installation a live server runs from. `OverwriteNeedsTwoVersions` shows, and a
   theorem proves, that this is the only way.
5. When a stop fails, `stop_instance` has already taken the instance out of the mutex and
   drops it (`proc.rs:93-101`). Its process lives, untracked, until the kill on drop takes effect,
   and the next one can be started beside it. An install whose stop failed finds no instance to
   restart and reports `Completed` with no server running. `NoLostChild` and
   `UpgradeRestarts` say this and what holds otherwise.
6. An RCON command waits for its answer for ever with the process mutex held, a download
   of an archive with the version lock held. `EveryRequestAnswered` has the condition.
7. `save_create` checks for an existing save before it waits for its locks; of two
   requests for one name the second overwrites.
8. A partly unpacked installation that is found at start-up is listed like a complete one;
   `MapListsCompleteInstalls` excludes what leads there.
9. The tasks of a connection that was given up go on. If it was only slow, each
   request is served and answered twice, and each line published twice. `ServedOnce`
   shows that late pongs are necessary for that; `DiscordInOrder` and
   `ViewerSeesEachOnce` hold while there is no such overlap.
10. The outgoing topic keeps 100 requests; what a slow connection has not taken by then is
    dropped with a warning (`broker.rs:71`) and its caller times out. `PublishedIsServed` names it.
11. The `Location` can be followed before the spawned `stream_at` has registered it;
    such a browser is refused with 400 (`OnRequest` in `OperationStream`).
12. A peer that connects to the WebSocket port and sends nothing holds the mutex of the
    path map: no stream can be registered or removed, and no other peer accepted, until it leaves
    (`EveryStreamEnds`). A receiver that lags loses replies, and a download that lost a chunk ends normally.
13. The start of a public server writes the server settings it has read back with the
    secrets in them (`main.rs:880-891`); settings stored in between are lost. `SettingsKept` holds
    where no two such writers overlap. A crash or a failure between truncation and write leaves a
    file that does not parse, between `create_dir_all` and the mod list a directory no mod request can
    use; `Readable` excludes files so touched.
14. A file selected in the browser while another is being uploaded is what the remaining
    chunks are cut from (`dashboard2.component.ts:233-234`); the mixture is reported complete.
    `UploadKept` has the condition.
15. The marker of a log stream is read before the subscription is made, so that it need not
    be "the last ingested log entry before the stream" (`openapi/mgmt-server-rest.yaml:1017`): lines
    that are stored, or published, between the two are in the stream no more and beyond the marker
    already. `ViewerSeesEachOnce` is stated around that gap and shows that there is no overlap.

## 5. Proofs

Eight `...Proofs` modules prove with TLAPS, for *every* value of the constants that
satisfies the `ConstantsAssumption` of the module, the safety properties that the runs
check on small instances. Each has the same layout: definitions that make up the
inductive invariant `IInv`; lemmas about sequences and sets; one lemma per action or
group of actions; `Invariance` (`Spec => []IInv`); and the theorems, which follow from
`IInv` by plain logic. Hardly any of the properties is inductive: what follows says what
had to be added to each, which is also what the code relies on.

**`AgentServerProofs`**, for any sets of tasks, versions, saves, pids, requests and
failures (assumed: the special values differ from the ordinary ones, and the requests and
faults are those the code knows). `TypeCorrectness`, `OneProcessTheorem`,
`NoLostChildTheorem`, `InstalledWhileRunningTheorem`, `QuietWhileReplacingTheorem`,
`OverwriteTheorem` and `RestartVersionTheorem` are invariants. `Refinement` says that the
agent implements `ServerLifecycle`, by mapping the version map to `installed` and the records
of live processes to `live`. `OneProcess`, for example, is kept by a start only because the
starter holds the mutex and no instance is tracked, which says something about processes
only if every live process is tracked or awaited. `IInv` adds what the locking discipline means:

* `ControlInv`: which requests can be at which control point;
* `LockInv`: the lock variables agree with the control points, and a writer
  excludes all readers;
* `ProcInv`: each child that was not dropped belongs to `running_instance` or to the one
  task that waits for it with the mutex held, and then no instance is tracked;
* `InstallInv`: mapped installations exist; live processes run from mapped ones; a
  handler that holds a lock relies only on versions the lock keeps in the map;
* `QuietWhileReplacing` itself, because the removal of a version preserves
  `InstallInv` only when nothing is alive.

For the refinement, `LiveStaysOrEnds` shows that the set of live processes stays or becomes
empty in every step that launches nothing, and `SpawnLaunches` that a spawn is a `Launch`.
Three more theorems stand on `IInv` with an invariant of their own:

* `ReplyProtocolTheorem` (`ReplyInv`): a handler's replies are an opening (nothing, or an Ack
  followed by progress) until it is done, and an opening closed by one terminal reply then.
  Progress is sent only with the write lock held, and whoever holds it has sent the Ack.
* `UpgradeRestartsTheorem` (`StopInv`), an action property: an upgrade that completes has
  found nothing to stop, or started the server again, or dropped it, and then none runs. A handler has no stopped server
  on its hands before it has called `stop_instance`.
* `MapListsTheorem` (`MapInv`): the version map lists complete installations whenever nobody
  holds the write lock, unless unpacking or removal fails or the agent is killed. While an
  installation is unpacked or removed, the handler that does it holds the lock.

**`AgentLinkProofs`**, for any number of connections, calls and failures:
`NoFalseDeadTheorem` and `ServedOnceTheorem`. `MissedBounded` relates the counter to the pings
under way at each point of the keep-alive task; that its increment races the reset by the pong
is why the bound differs between "sent" and "sleeping". `OneUp` says that, while no pong is
late, a connection that has been given up is not up, and `RequestOnce` and `ResponseOnce` that
a request, and its answer, is in one place.

**`OperationStreamProofs`**, for any number of operations and replies and any capacities:
`NothingMissingTheorem`, `ClosedAfterTerminalTheorem`, `DownloadWholeTheorem`, and
`TypeCorrectness`, which bounds the queues. Per operation, `StageInv`, `SocketInv` and `BodyInv` say
where call, receiver, stream, writer and browser can be together. `CompleteInv` says that a receiver which
has not lagged continues, without a gap, the run of replies that the browser, the channel
and the buffer hold, or that the operation failed at once. `OrderInv` holds even after a
lag: replies are in order, so that nothing follows the terminal one when it signals the
valve; `FuseInv` records that it is the last reply sent to the writer. `RouterInv`
keeps downloads and connected browsers out of the handshake.

**`ServerOutputProofs`**: `CountExactTheorem`, for any number of players, moves and unread
lines, and a counter of any width that can hold the players (`2^Width > MaxPlayers`, true of 32
bits). The count wraps nowhere only because, however much of the pipe has been read, the number
of players at that point is between 0 and `MaxPlayers`: `IInv` says so of every prefix of the
lines that wait, and that a quiet refresh finds nothing unread (`Exact`, `QuietRefresh`).

**`SaveTransferProofs`**, for any number of browsers, downloads and links, and files of any
length: `UploadKeptTheorem`, `DownloadExactTheorem`, `LinkWindowTheorem`. The browsers and downloads
are assumed to be finitely many, with more inodes than there can be handles, so that a new file
can always be created. An upload that nobody has met is alone with its content (`UnmetAlone`), its handlers have
the name open (`HandlesName`), its chunks are its own as long as no other file is selected
(`OwnChunks`), and what was answered with Ok is a prefix of the file (`SentStored`);
`PromiseStands` and `ReadSoFar` say the same of a download.

**`ServerEventsProofs`**, for any scripts, connections, capacities and failures:
`NothingVanishesTheorem`, `DiscordInOrderTheorem`, `ViewerSeesEachOnceTheorem`. While no connection has outlived
its replacement, one connection publishes (`Alone`); then every queue is in order and before what is still ahead of
the broker, and so is each stage behind it (`QueueInOrder`, `StoredFirst`, `DiscordOrder`,
`AlertsOnce`, `ViewerOrder`). That several connections may be ahead of one topic is why order has to
be stated over all of what is to come and not queue by queue.

**`PagingProofs`**, for any metrics, ticks, page sizes and writes: `PagerExactTheorem`. The page of an
ordered set of keys is a prefix of what is left, so that the position it leaves behind splits the
keys that were there when the query began into those delivered and those ahead. That there is a
first key ahead rests on the well-foundedness of finite sets.

**`AgentFilesProofs`**, for any number of handlers, mods, requests and failures (assumed: `Nobody`,
who waits for the jobs of a handler that has ended, is not a task): `ReadableTheorem`, `ModsKeptTheorem`,
`SettingsKeptTheorem` and `TypeCorrectness`. The inductive invariant is called `Inv` here. There is no lock to
lean on, so that it speaks of what is left of each handler and of who else may write the file:

* `Plan` (in `ControlInv`): the operations a handler has still to do keep the order of the source; a read
  that finds nothing replaces itself by what creates the file. Making the mod directory is followed at once
  by a write of the mod list; what a request sets is written last, each file once; `mod_list_set` spawns its
  jobs once and ends with the join.
* `OverlapInv` and `MixedInv`: two handlers that may write the same file have disturbed it. The invariant is kept
  only because a handler comes to write a file it did not announce in no other way than by finding it missing.
* `TornInv` and `DirInv`: a torn file is being written, and a directory without a mod list is about to get one.
  `Readable` follows, since that writer is involved in the file.
* `JobsInv` and `ModsInv`: a job's handler is between spawning and joining; meanwhile the jobs under way are
  exactly the difference between the mods on disk and the ones wanted. `ModsKept` is the case without such a handler.
* `SettingsInv`: what is promised is on disk or was just replaced by a handler about to reply, no default is
  about to be written over it, and a handler that has read the file and will write it back has it in its copy.
  That copy is where the property could be lost, and why it holds only while no two writers overlap.

`SettingsKept` speaks of each file by itself: the mod settings keep their value even while a handler is still
involved in the mod list beside them.

Only model-checked are all liveness properties (`EveryRequestAnswered`, `EventuallyConnected`,
`PublishedIsServed`, `EveryStreamEnds`, `TerminalDelivered`, `CountHeals`), since fairness and ENABLED are
outside what the prover handles.

## 6. What is not modelled

* The content of the archive cache. A crash in the middle of a write leaves a
  truncated archive there that is used again for a day; `AgentServer` has this as
  a failure to unpack. Authentication: a decision per request, without state.
* Discord messages and slash commands on their way to the game, and the `query` RPC;
  both end in calls like those of the routes.
* `set_savefile` for a whole file, which no caller uses; the ban list, whose code
  is that of the admin list; `config_secrets_get` and `mod_list_extract_from_save`,
  which change nothing.
* The agent's accept loop awaits the handshake of one peer before it accepts the next
  (`main.rs:120`), and a failed RCON connection is never retried (`proc.rs:273`). There
  is nothing in the code for a property to hold on to in either.
* Serialisation, log parsing by regular expressions, the command line of the
  server, the binary format of mod settings: data without control.
* Time: a timer is an action that may happen when the code waits for it.
* REST conversions, the command line client, the web interface and the build.

## 7. Plan

The components that keep state are modelled, and every safety property the passing runs check is proved.
What is left is to go deeper where the proofs cost little: lemmas for the liveness arguments (which step
each waiting task can take next).

Whatever is modelled next is to be checked by extending the instances above, so
that the whole suite stays quick enough to be run with each change.

## Running

    tlc -workers 2 -config AgentServer_faults.cfg MCAgentServer
    tlapm AgentServerProofs.tla

and likewise for the other configurations, with the `MC` module of the same name, and for
`AgentLinkProofs`, `OperationStreamProofs`, `ServerOutputProofs`, `AgentFilesProofs`,
`SaveTransferProofs`, `ServerEventsProofs` and `PagingProofs`.

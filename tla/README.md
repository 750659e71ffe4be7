# AdAway in TLA+

Models, model checking and proofs of [AdAway](../src/README.md), an ad blocker for Android.  AdAway downloads lists of
hosts, merges them into one table, and makes the device resolve the blocked hosts to nothing: with a local VPN that
answers DNS queries (no root), or with the hosts file of the system (root).

All paths below are relative to `app/src/main/java/org/adaway/` in the repository.

- [The system](#the-system): components, state, interactions, what is hard
- [The modules](#the-modules): which models what, and how it corresponds to the code
- [What the runs show](#what-the-runs-show): runs, bounds, fairness
- [What is proved](#what-is-proved): theorems, inductive invariants, assumptions
- [Where code and comments disagree](#where-code-and-comments-disagree)
- [What is not modelled](#what-is-not-modelled)
- [Plan](#plan)

To check one run: `tlc -config VpnWorker.cfg MCVpnWorker`.  To check the proofs of one module:
`tlapm VpnWorkerProofs.tla`.  `PROJECT.json` lists the runs, the lines of code each definition stands for, the
hazards, and for every property a plausible bug (a variant of one definition, kept in the module before it) that
breaks it.

Paths that begin with `webserver/` are relative to the root of the repository.

## The system

### Components

| component | code | state it keeps | operations |
|---|---|---|---|
| DNS event loop | `vpn/worker/VpnWorker.java` (`doOne`), `vpn/dns/DnsQueryQueue.java`, `DnsQuery.java`, `DnsPacketProxy.java` | pending queries with their sockets, packets to write | poll, handle answers, write, read one packet |
| connection throttler | `vpn/worker/VpnConnectionThrottler.java` | time out, time of the last call | `throttle` |
| watchdog | `vpn/worker/VpnWatchdog.java` | poll time out, penalty, times of the last packets | `initialize`, `handlePacket`, `handleTimeout` |
| VPN worker threads | `vpn/worker/VpnWorker.java`, `VpnConnectionMonitor.java`, `VpnBuilder.java` | executor, reference to the tunnel, monitored interface | `start`, `stop`, `work`, `runVpn`, `monitor` |
| VPN control | `vpn/VpnService.java`, `VpnServiceControls.java`, `VpnServiceHeartbeat.java`, `broadcast/BootReceiver.java` | status preference, types of the available networks, schedule of the heartbeat | start and stop, network callbacks, the check of the heartbeat |
| source loader | `model/source/SourceLoader.java` | two queues, a batch | `parse` |
| hosts entries | `db/dao/HostEntryDao.java` | table `host_entries` | `sync`, `getEntry` |
| hosts lists and sources | `db/dao/HostListItemDao.java`, `HostsSourceDao.java` | tables `hosts_lists`, `hosts_sources` | row edits, enable, clear |
| VPN ad block model | `model/vpn/VpnModel.java` | LRU cache of entries | `apply`, `revert`, `getEntry` |
| hosts sources | `model/source/SourceModel.java`, `SourceUpdateService.java`, `model/git/` | dates and ETag of each source, "update available" | check for update, retrieve |
| hosts file | `model/root/RootModel.java` | files of the application and of the system | `apply`, `revert` by shell commands |
| application update | `model/update/`, `ui/update/UpdateViewModel.java` | manifest, download | check, download, install |
| backup | `model/backup/` | none | export, import |
| home screen, tile, commands | `ui/home/HomeViewModel.java`, `tile/AdBlockingTileService.java`, `broadcast/CommandReceiver.java` | `pending`, `toggling` | toggle, update, sync |
| local web server | `webserver/jni/webserver.c`, `webserver/jni/mongoose/mongoose.c`, `util/WebServerUtils.java` | connections with their buffers, files under way | poll, accept, read, write, answer, stream a file, close |
| others | DNS server mapper, screens, preferences, log, adware scanner | see [What is not modelled](#what-is-not-modelled) | |

### How they interact

- Main thread: runs `VpnService` (commands, network callbacks, status messages) and every screen; calls
  `VpnWorker.start` and `stop`.
- Each start creates an executor with two threads, the *worker* (`work`: throttle, connect, event loop, again) and the
  *monitor* of the interface.  Workers report to the main thread through a `Handler`.  All executors of a process
  share the fields of one `VpnWorker`, one throttler and one watchdog.
- Threads of pools (one for the disk, three for the network), WorkManager and broadcast receivers call
  `VpnServiceControls`, `SourceModel` and `AdBlockModel` without a common lock.
- Lists flow from `SourceModel` (download) through `SourceLoader.parse` (five threads per load) into `hosts_lists`,
  through `HostEntryDao.sync` into `host_entries`, and through the cache of `VpnModel` to `DnsPacketProxy`.
- The same threads call `RootModel`, whose shell commands the library runs one list at a time: `diskIO` is one thread
  (toggles, commands, the first check), `networkIO` has three, and WorkManager has its own.
- The web server is a process of its own, started and killed by shell commands.  Blocked hosts are redirected to it; it
  answers browsers with an empty page or an icon.
- What survives the process: the database, the preferences (status of the VPN), the schedule of WorkManager, and the
  sticky start of the service by the system.

### What is hard

Listed line by line under `hazards` in `PROJECT.json`.  In short: workers that are replaced while they cannot be
interrupted; status messages of several workers; a stop and a start from two threads, each in several steps; a
process that dies between them; networks that come and go while callbacks queue up; answers, time outs and insertions
in one turn of the event loop; end markers in a pipeline where anything may fail; syncs that overlap statement by
statement; a cache filled while it is cleared; sources whose dates, ETag and rows are written by different steps of
several threads; a private file and a mount that two threads share; requests that come pipelined, in parts and
encrypted while a file is streamed through buffers that are full.

### What makes each component correct

- *Event loop*: no socket leaks; an answer that arrived is not thrown away by a limit of the queue; each packet gets
  one reply at most; replies leave.
- *Throttler*: connections are spaced; the sleep is within its limits.
- *Watchdog*: a connection is given up only after a packet was missing for the whole waiting time.
- *Worker threads*: no thread out of reach, no descriptor left open, a final status that is true, threads that end
  when they are interrupted, and reconnection.
- *Control*: a VPN that is meant to run has a heartbeat, is connected when there is a network, and comes back.
- *Loader*: every item that was read is inserted once, nothing after the return, everything ends.
- *Entries*: the table is what the lists describe and the cache follows it.
- *Sources*: the ETag that makes a server answer 304 names the rows there are; what changed is downloaded; rows are
  switched with their source; rows that changed are synced.
- *Hosts file*: the partition is mounted as it was, the file is no older than one before it, "applied" is true.
- *Web server*: answers come in order and whole, a header announces what follows, nothing is cut off or waits for ever,
  files are closed, a signal ends the process.

## The modules

`MC<Module>` instantiates `<Module>` for TLC, `<Module>Proofs` holds its theorems.  `RootProofs` holds those of what runs
with root, `RootModel` and `WebServer`; for the two to be extended together the definitions of the latter are called
`WebInit`, `WebNext`, `WebTypeOK`, ...

| module | models | state and actions |
|---|---|---|
| `DnsEventLoop` | one worker in `doOne`, applications, servers and the clock | `queries` is the list of `DnsQueryQueue`, `open` and `arrived` the sockets and what they received. One action per step of `doOne` (`Poll`, `HandleResponse`, `WriteToDevice`, `ForwardQuery`, ...), one per way out of it |
| `VpnConnectionThrottler` | `throttle` with its worker | the three paths of `throttle`, the end of its sleep, interruption; `established` remembers the last three connections |
| `VpnWatchdog` | the watchdog and the throttler under one worker (`work` and `doOne`) | extends `VpnConnectionThrottler`: `WorkNext` takes its actions as parts of `work`; the fields of the watchdog; `until` is the end of the current `poll`; `lost` remembers when it last gave up |
| `VpnWorker` | any number of executors | one program counter per worker and per monitor; `main` is inside `start` or `stop`; `owner` is whose tunnel the system uses; `posted` is the queue of the `Handler` |
| `VpnControl` | `VpnService` and the threads that control it | one program counter per calling thread; `intents`, `sticky`, `restart` are what Android keeps; `events` the posted network callbacks; `Kill` and `Reboot` end the process |
| `SourceLoad` | what `SourceLoader.parse` promises | abstract: clear, insert batches, return without a gap, or fail |
| `SourceLoader` | the threads of `parse` | reader, parsers, inserter and caller with their queues; a line is the shape that decides what the parsers make of it |
| `HostEntries` | `HostEntryDao.sync` on several threads, the rows it reads, the cache of `VpnModel` | one action per SQL statement, each its own transaction; `todo` is what a loop of `sync` read and has not come to; a lookup is its miss, its read and its put |
| `HostsSources` | `SourceModel`, the switches of `HostsSourceDao`, users, servers | one record per row of `hosts_sources`, the rows of each source by version and part; one action per statement or request of `checkForUpdate` and `retrieveHostsSources`; `toggling` is between the two statements of a toggle; `doubtful` and `switched` remember what the properties except |
| `RootModel` | `RootModel.apply`, `revert` and `checkApplied` on several threads | one program counter per thread; `file` is the inode of the private file, `writer` and `written` who writes an inode and what it has; `mount` and `hosts` are the partition and its file; one action per shell command or call that may fail |
| `WebServer` | `webserver.c` on the event loop of mongoose, its clients | `conn` is one `mg_connection` each, with the two queues of its socket and what its client sent and got; one action per turn of the pass of `mg_mgr_poll` over a connection (`Turn`: TLS handshake, read, `http_cb` on all whole requests, `static_cb`, write, close), one per step of a client |

Abstractions shared by the modules:

- Packets, hosts and lines are values or numbers; only what decides the control flow is kept.
- Clocks count abstract units and do not go back.
- Android is modelled as the code uses it: `Os.poll` is not interruptible; `Thread.sleep` is; closing a descriptor
  ends the tunnel; establishing a tunnel replaces the last one; commands of a service are delivered in order; a
  started service is restarted after a kill; a preference is written at once.
- A Room statement is one transaction; `LruCache.get` calls `create` outside its lock (in
  `HostEntries` `Put` and `Kill` stand for code outside the repository).
- The web server counts data in units: a part of a request, a TLS record, a header, a piece of a body.  Buffers and
  queues take some units.  A TLS record carries one unit.

`VpnWatchdog` implements `VpnConnectionThrottler`: every step of the composed worker is one of the throttler's
specification, or none (`ThrottlerImplemented`), so that its theorems hold of the composition.

`SourceLoader` implements `SourceLoad`: property `Loads` is `Load!LoadSpec` under the mapping that takes the table to
the set of its rows and the place of the caller to the state of the load.

## What the runs show

| run | question | states | answer |
|---|---|---|---|
| `dns_loop` | does the loop keep queue, sockets and replies consistent, and do replies leave? | 35 thousand | yes |
| `reconnection` | are connections spaced and given up only after a packet is missing, with throttler and watchdog together? | 8.4 million | yes |
| `worker` | are executors, tunnels and the final status right, however threads interleave? | 6.3 million | yes |
| `worker_live` | do interrupted threads end, do workers reconnect? | 12 thousand | yes |
| `control` | is a VPN that should run covered by its heartbeat, connected when there is a network whose type it was not told to be lost, and recovered? | 646 thousand | yes |
| `control_doc_start` | does `start` return true only for a VPN that is started? | | **no** |
| `source_loader` | does the pipeline load each item once, end, and implement `SourceLoad`? | 580 thousand | yes |
| `host_entries` | do overlapping syncs build the right table, does the cache follow? | 1.8 million (with symmetry) | yes |
| `web_server` | are requests answered in order and in whole, with and without TLS, and does the server stop? | 609 thousand | yes |
| `hosts_sources` | do conditions, dates and switches of the sources agree with their rows? | 2.5 million (with symmetry) | yes |
| `hosts_doc_not_modified` | does a source whose request got 304 hold what the server has? | | **no** |
| `hosts_file` | do overlapping applies and reverts keep the mount, the hosts file and the status right? | 3.7 million (with symmetry) | yes |

### Properties

- `DnsEventLoop`: `SocketsOwned` (open sockets and queued queries are the same), `OldestFirst`, `OneReplyPerRequest`,
  `NoAnswerDiscarded` (what `poll` reported is handled before an insertion may drop it), `GivesUpOldestOnly`; liveness
  `RepliesLeaveQueue`, `AnswersConsumed`.
- `VpnConnectionThrottler`: `Spaced` (among three connections the first and the last are a time out apart: the class
  does *not* space two), `SleepsInLimits`.
- `VpnWatchdog`: `WaitsForPacket`, `GivesUpApart`, of one step against the history before it.
- `VpnWorker`: `SupersededInterrupted`, `TunnelsHeld`, `QuietMeansStopped`; liveness `InterruptedSleeperEnds`,
  `InterruptedMonitorEnds`, `Reconnects`.
- `VpnControl`: `HeartbeatCovers`, `ConnectsToNetwork`, liveness `Recovers`.  The service counts *types* of networks, and
  `ConnectsToNetwork` holds for networks whose type it was not told to be lost since (`lastLost`); of all networks that
  are up it is false.
- `SourceLoader`: `InsertedOnce`, `NothingLost`, `Loads`, liveness `ThreadsEnd`.
- `HostEntries`: `SyncsExact`, `CacheFollows`.
- `HostsSources`: `EntityTagNamesRows`, `NewerIsRetrieved`, `ItemsFollowSource`, `ChangesSynced`.
- `RootModel`: `RemountedBack`, `NeverOlder`, `AppliedTells`.
- `WebServer`: `WebTypeOK`; `AnswersInOrder` (each request has one answer at most, and none is passed over but a malformed
  one and what was read with it), `Framed` (what a header announces follows it, and what is missing of the last answer is
  what `static_cb` has still to stream), `FilesClosed`, `DrainsFirst` (of the step that closes a connection: all requests
  up to the one that closes it were answered in whole, unless units are still unread, as when the
  buffer overflows, or a chunk is none); liveness `Answered`, `StopsOnSignal`.  They speak of the *stream*
  of a connection: all units written to it, be they with the client, in its socket or in a buffer.

The properties of `HostsSources` hold with exceptions, each of which is a way the code can go wrong:

- `doubtful` sources (`EntityTagNamesRows`, `NewerIsRetrieved`): two loads of the source overlapped, a load broke off
  after its ETag was stored, the page of a failed request was loaded, the process ended between ETag and last row, or a
  date alone made the server answer 304.
- `switched` sources (`ItemsFollowSource`, `ChangesSynced`): a user toggled the source while a thread had it to
  handle; the thread inserts enabled rows whatever the source is by then.
- `cut` sources (`ChangesSynced`): the process ended after their rows changed and before the sync.  The rows stay in the
  database, and `host_entries` does not know them until the next sync, which nothing at the start of the process makes.

Those of `RootModel` too:

- `doubtful` (`AppliedTells`), until an operation copies its file with no other at work, or the process ends: `dd` failed
  (no space, or no private file any more) but `chown` and `chmod` did not, so that `apply` returns; `dd` replaced the
  file but `chmod` or the shell failed, so that `apply` throws and nothing is posted; the first line of the file could
  not be read at the start; operations of different kinds, the first check included, overlapped.
- A file that is in parts (`hosts.kind = "part"`): two applies wrote the one private file, or `dd` ended early.
- `leftWritable`: remounting back failed, or the process ended before it.

### Bounds, and why they are enough

- `dns_loop`: three requests, a queue limit of 1, a time out of 1 and a clock up to 3.  Insertions then meet the
  space limit, the time limit and both; answers come before and after each.
- `reconnection`: throttler limits 2 and 8, poll time out 1, 2, 4, waiting time 3, penalty up to 3 in steps of 2 (its
  cap bites), clock up to 12: the time out of the throttler is doubled, divided and capped, and connections are lost
  one after the other with all growth between them.
- `worker`: two executors, two posted messages.  Two are what it takes for an old and a new worker to overlap; the
  proofs lift the bound.  `worker_live` has one executor: a second one adds interleavings and no way to stop.
- `control`: the main thread and one other, three networks, two of them of one type, three commands under way, one callback
  waiting, one kill.  A start and a stop overlap with each other, with the service and with the kill; `Restart` needs two
  commands at a time; one of two networks of a type is lost while the one of the other type comes and goes.
- `source_loader`: three parsers, as in the code, batches of two, four sources: five lines (a full batch, another and
  a remainder), a redirecting one, an allow list and an empty one.
- `host_entries`: two threads, one lookup, two hosts, five rows that block, allow and redirect the same hosts from two
  sources, a cache of one entry (`trimToSize` evicts).  Threads are symmetric.  The proofs lift all of it.

- `hosts_sources`: two sources, two threads, a clock up to 2, three checks or retrievals and one other event (four of
  both together, `MaxActs`); `MaxLoad` is two, so that one thread handles two sources or two threads overlap on one.
  Three jobs are a load, a check and the retrieval that relies on both, with a file that changes, a toggle, a failure
  or a kill anywhere in it.  The server of the first source knows ETags, that of the second dates.  Threads are
  symmetric.  `hosts_doc_not_modified` needs one check and one retrieval.
- `hosts_file`: the disk thread and one other, three inodes (one per thread and one unlinked), one change of the
  entries, three operations and two failures or kills.  Inodes are symmetric.  Both start with the partition read-only
  and writable.  Two applies overlap each other, a revert or the first check; a third operation sees what they left.
- `web_server`: one client on either port, two requests of seven kinds (all but `HEAD`, chunked bodies and plain
  `GET`, whose ways are those of others), or one of two talks of three requests: a malformed one between two others, and
  one that fills the receive buffer (`Talks`); files and send buffer of two units, receive
  buffer of three, socket queue of one, raw TLS buffer of two records, one or two descriptors.  Every buffer is full in
  some state: a file waits for the send buffer, that for the socket, and the file or the connection for a descriptor.
  Connections share only the descriptors and the signal.  The proofs of its safety lift all of it.

`MaxTime`, `MaxStarts`, `MaxPosted`, `MaxIntents`, `MaxEvents`, `MaxKills`, `MaxJobs`, `MaxActs`, `MaxLoad`,
`MaxEntries` and `MaxOps` bound counters and queues for TLC only.  Deadlock is checked everywhere but in
`source_loader`, `web_server` (the process ends) and `hosts_sources`, `hosts_doc_not_modified`, `hosts_file` (the
threads wait for work that is bounded).

### Fairness, and why the code justifies it

- `DnsEventLoop`: the worker thread runs (weak fairness of `Worker`); its loop has no wait but `poll`.  Strong fairness
  of `Poll` says that the tunnel accepts packets again and again and that a worker that lost its connection polls
  again; without it a tunnel that is never writable keeps its replies for ever.
- `VpnWorker`: every thread runs when it can.  A connection need not end: nothing in the code ends one.  The looper
  handles messages in between commands (strong fairness), and a worker is not held up by the handler's queue, which is
  unbounded in the code.  No fairness for starts, stops or lost tunnels.
- `VpnControl`: calls go on, the looper gets to the service, the tunnel of a stopped worker goes, and WorkManager runs
  the periodic check again and again while there is a network (its constraint).
- `SourceLoader`: every thread of the pool runs, reads end.  They do for a download, whose HTTP client has a read time
  out; a file of a content provider could block longer.
- `WebServer`: the one thread of the server never waits longer than a second in `epoll`: it goes on for ever or ends
  (`ServerRuns`).  A client that is there reads what comes (weak fairness of `Reads`); nothing says that it sends.
- `HostEntries`, `VpnConnectionThrottler`, `VpnWatchdog`, `HostsSources`, `RootModel`: none, only safety is stated.

## What is proved

For all values of the constants, under the named assumption of each module (`DnsAssumption`, `ThrottlerAssumption`,
`WatchdogAssumption`, `WorkerAssumption`, `ControlAssumption`, `LoaderAssumption`, `EntriesAssumption`,
`SourcesAssumption`, `RootAssumption`, `WebServerAssumption`: types of the constants, and limits in order).  The clock and queue bounds are
constants as well, so the theorems hold for each of them.  `SourcesAssumption` says that any sources have a first one,
which the order of the queries gives them, `RootAssumption` that there are more inodes than threads (one may be
unlinked and still written by each).

| module | theorems | inductive invariant |
|---|---|---|
| `DnsEventLoopProofs` | `Types`, `SocketsOwnedTheorem`, `QueueBoundedTheorem`, `OldestFirstTheorem`, `OneReplyTheorem`, `NoAnswerDiscardedTheorem`, `GivesUpOldestOnlyTheorem`, `InsertionPurgesTheorem` | The invariants together, with `QueriesTimed` (no query is younger than the clock, so that an insertion keeps the order) and `AnswersHandled` (queries are marked answered only while responses are handled, so that no other step can drop one). Lemmas say what `RemoveAt` and `SubSeq` keep of a sequence and what `addQuery` does |
| `VpnWatchdogProofs` | of the throttler `Types`, `SpacedTheorem`, `SleepsInLimitsTheorem`; `ThrottlerImplemented`, `WorkSpaced`, `WatchdogTypes`, `WaitsForPacketTheorem`, `PacketSentArmsTheorem`, `GrowsWhenAliveTheorem`, `GivesUpApartTheorem` | Throttler: `CallAfterLastButOne` (the call that allowed the last connection came after the one before) and `WakesInTime` (a sleeper wakes no earlier than a time out after the last connection but one). `PollLasts`: the poll under way ends after the last packet read and, with a check-alive packet that is not answered, no earlier than the waiting time after it was sent and after the watchdog last gave up. `WorkSpaced` follows from the throttler's theorem by `ThrottlerImplemented` |
| `VpnControlProofs` | `Types`, `HeartbeatCoversTheorem`, `ConnectsToNetworkTheorem` | `HeartbeatInv`: a VPN that will run once its commands are handled (`WillRun`) has the heartbeat, or a call about to schedule it or to send STOP (`Covered`). `NetworksTold` (the service knows the type of each network, or the last callback of it will tell) and `WorkerOn` (a started service without worker has no network or a command to handle). Networks and types are any: several networks may be of one type |
| `VpnWorkerProofs` | `Types`, `SupersededInterruptedTheorem`, `TunnelsHeldTheorem`, `QuietMeansStoppedTheorem` | `BornInOrder` (executors not started yet have no threads) and `LastMessageStopped` (when no worker can post any more the last message is STOPPED) |
| `SourceLoaderProofs` | `Types`, `InsertedOnceTheorem`, `NothingLostTheorem`, `QuietAfterReturnTheorem`, `LoadsTheorem` | `Markers` (end markers are behind all lines, the last one behind all items, and the count of the inserter is the number of parsers whose marker it took), `OnePlace` (a line is in one queue, hand, batch or row) and `Reached` (each accepted line that was read is somewhere) |
| `HostEntriesProofs` | `Types`, `SyncsExactTheorem`, `CacheFollowsTheorem` | `EntriesRight` (each entry is right, or some thread is still going to make it right), `Snapshots` (what a loop has left contains the redirections of older sources, so that the last one it inserts is of the oldest), `CacheRight` (the cache is right, or some thread is going to clear it) |
| `HostsSourcesProofs` | `Types`, `ItemsTheorem`, `SyncTheorem`, `EntityTagTheorem`, `NewerTheorem` | `ItemsInv`: between the statements of a toggle the source has the value its rows get (`ToggledFirst`), a thread knows the switch of what it has to handle unless a user turned it (`SeenSwitch`), it loads what it saw enabled (`LoadsEnabled`), and rows follow (`RowsFollow`). `SyncInv`: a thread that loads has counted a copy (`Copies`), and rows that changed have such a thread, unless it was cut off (`SyncPending`). `TagInv` and `DatesInv`: see below |
| `RootProofs` | of the hosts file `Types`, `RemountedBackTheorem`, `NeverOlderTheorem`, `AppliedTellsTheorem`; of the web server `WebInvariant`, `WebTypes`, `AnswersKeepOrder`, `AnswersFramed`, `FilesAreClosed`, `DrainsBeforeClosing` | `BackInv`, `NewerInv`, `TellsInv`, and `WebInv`: see below |

The invariants of the hosts sources and the hosts file say how far each thread is, for the properties only speak of
states where all is quiet; that of the web server says how the requests that wait and the answers that were written
belong together:

- `TagInv` (`EntityTagNamesRows`): a source that is not doubtful is loaded by one thread at most (`OneLoads`).  From the
  ETag on, the thread downloads what the ETag names; it has no rows, then those of the first part, then all
  (`Loaded`); when nobody loads it the source has its rows.  Only servers with ETags give one (`TagsOfServers`), so that
  a thread which skips the statement of the ETag leaves no old one.
- `DatesInv` (`NewerIsRetrieved`): no time is in the future (`StoredTimes`, `AskedTimes`).  If what is loaded is not the
  file any more, then the file changed after all that the load asked, and after the date the last load stored
  (`ChangedLater`).  The hard step is a 304: the ETag a thread read when it began is not newer than the stored one
  (`KnowsOlder`), no ETag is newer than the file, and the server compares the first with the last, so that all three
  are one.
- `BackInv` (`RemountedBack`): a thread that will remount found the partition read-only (`RemountersFoundReadOnly`), a
  partition the system has writable stays so (`WritableStays`), and while one is writable that should not be, a thread
  that found it so has not come to the end of its `finally` (`RemounterLeft`).
- `NewerInv` (`NeverOlder`): no version is newer than the entries (`NothingNewer`).  The private file is truncated before
  the entries are read: what is whole in it was read after every file copied before (`WholeIsNew`, `WriterIsNew`).
- `TellsInv` (`AppliedTells`): a thread posts what it did (`PostsItsOwn`); unless doubtful, all threads at work do the
  same operation (`SameOperation`), and a value that is not right yet will be corrected by one that has still to post
  (`TellsRight`, `SomeoneTells`).
- `WebInv` (all of the web server): each connection is `Fresh`, or lives and is `Fine`, or is closed and `Settled`
  (`ConnInv`).  `Fine` is about what *waits* (receive buffer, records and queue of the socket in a row) and the *stream* of
  answers.  What waits is in the order it was sent, a request whole unless the client has not sent the rest or its headers
  were dropped with a malformed one (`Queued`).  Each request sent was answered, dropped with a malformed one, waits, or
  was lost when its client left, and those that wait come after those answered (`Passed`).  The stream is well framed
  (`WellFramed`), owes what `static_cb` has to send (`Owes`) and has its answers in order (`InOrder`).  Until the end of the
  handshake there is nothing else (`Shaking`).  A connection that drains has answered all up to the request that asked
  for it (`Drains`).  The list of the event loop is the open connections, once each (`Listed`), `is_closing` and
  `is_readable` have their reasons (`Asked`), and the connections that handled a request on `MG_EV_CLOSE` count what
  leaks (`Leaks`).

The parts of a turn of the web server move units from one queue to the next, which changes neither what waits nor the stream
(`MovedOn`), or take a request and write its answer (`RequestAnswered`), or drop what was read (`MalformedDrains`).  Each
part is an operator with a lemma that says what it does to a `Fine` connection; the lemma of an action follows from
those.  The loop of `http_cb`, over however many requests were read, is a recursive function: `RoundsExist` and `HttpFine`
argue about the least number of rounds at which it would go wrong, which the theorem on minimal elements of a well-founded
relation gives without an operator as parameter.  `DrainsBeforeClosing` then says of the step that closes a connection
what `Drains` says of its stream, for without TLS nothing of the stream is left outside the queues of the socket.

TLC checked each of them as an invariant of the instance of the run before it was proved.

Each invariant is a conjunction of named parts, the proof that a step keeps it has one lemma or step per action, and a
temporal theorem follows by `PTL`.  `LoadsTheorem` maps each step of the pipeline to a step or a stutter of
`SourceLoad`; the invariant shows that a batch brings new rows only and that the return leaves no gap.

No run but `web_server` checks a type invariant, and none `QueueBounded`, `InsertionPurges`, `PacketSentArms`,
`GrowsWhenAlive` and `QuietAfterReturn`: they are theorems.

Checked by TLC only:

- liveness under fairness (`RepliesLeaveQueue`, `AnswersConsumed`, `InterruptedSleeperEnds`, `InterruptedMonitorEnds`,
  `Reconnects`, `Recovers`, `ThreadsEnd`, `Answered`, `StopsOnSignal`), which is out of the reach of the prover, as is
  anything about `ENABLED`.

All invariants and action properties the runs check are theorems.

Induction over data is out of reach in general: the library's induction theorems take an operator as parameter, which no
installed backend instantiates.  Where a loop is a function on the naturals the least counterexample does instead, as in
`http_cb`; what a function of sequences or sets computes for every argument is not proved.  No module declares a `RECURSIVE` operator.

## Where code and comments disagree

With a run that shows it (`findings` in `PROJECT.json`):

- `VpnServiceControls.start` right after `stop`, as `ui/prefs/PrefsRoutes.kt` does to restart the VPN: returns true and
  the VPN is stopped.
- `SourceModel.downloadHostSource`: a check stores the date of the server, and the next download sends it as
  `If-Modified-Since` although that file was never downloaded: a server without ETag answers 304, and the source is
  recorded as loaded without its rows.

Seen while modelling, without a run of their own:

- `DnsQueryQueue` holds one query more than `DNS_MAXIMUM_WAITING`; timed out queries are only removed when a query is
  added.
- `VpnConnectionThrottler`: the call time is taken before the sleep, so that a second connection may follow at once.
- `VpnWatchdog`: the penalty is only waited for in `initialize`, once per `work`; the reconnection that a time out
  forces does not wait for it, as the comment of `handleTimeout` says it does.
- `VpnWorker.stop` ("Stop the VPN worker.", line 130): a worker between the throttler and its event loop is not
  stopped; it establishes its tunnel afterwards and keeps it, with no executor left to stop it.
- `VpnWatchdog`: the poll time out starts at one second, not at four; `initialize` sends no initial packet.
- `VpnWorker.start` says it kills the current worker; a worker in `Os.poll` goes on until its descriptor is closed.
  `VpnConnectionMonitor.running` is never set to true again, so that later connections are not monitored.
- A status message of a replaced worker is published while the new one runs.
- `VpnServiceControls.isRunning` writes STOPPED while the VPN starts, waits for a network or is about to be restarted;
  the heartbeat then never brings it back (`Recovers` excepts it).  Network callbacks handled between `stopSelf` and
  `onDestroy` start a worker that nobody stops.
- A wall clock set back makes the throttler sleep for that long and the order of queries wrong.
- The `ParcelFileDescriptor` of a `DnsQuery` is never closed itself (its socket is).
- `SourceLoader.parseAllowListItem` cuts a comment only when `#` is the second character; reading errors are swallowed
  and the first part of the source is loaded silently; a refused batch leaves a partial table and `parse` returns.
- `HostEntryDao.sync`: two overlapping syncs may violate the primary key in `importBlocked`, an unchecked exception that
  ends the process on an executor and leaves the table partly filled; lists that change during a sync may leave the old
  redirection although a later sync completed; until `importBlocked` blocked hosts pass; `_` in an allowed name is a
  wildcard of `LIKE`.
- `SourceModel`: the ETag is stored before the body is parsed, so that a load that breaks off is not repeated; no status
  but 304 is looked at, so that the page of an error is parsed as a hosts file and the old ETag kept for it; a file that
  changed in the second of its last check is not flagged by the next one.
- `VpnService.removeNetworkType` ("Waiting for network…"): the service keeps types, so that losing one of two networks of a
  type removes the type; the worker may stop, and the VPN waits for a network while it has one.  `ConnectsToNetwork` excepts
  the types in `lastLost` for it.
- `RootModel.copyHostsFile`: the result of the commands is that of `chmod`, so that `apply` returns though `dd` failed;
  `AdBlockModel.apply` says it throws `HostErrorException` "If the model configuration could not be applied."
- `RootModel.copyHostsFile`: `dd` may have replaced the hosts file when `chmod` or the shell fails; `apply` throws, and the
  status stays what it was.
- `WebServer` (mongoose): `is_draining` promises to send what remains (mongoose.h:1663), but only the send buffer is
  looked at (mongoose.c:9414), not the TLS records the socket did not take, nor the rest of a file streamed for a request
  that came after the one to drain for.  `Connection: close` is only looked at when no file is streamed as the answer
  (mongoose.c:2556): such a connection stays open. A client that half-closes loses the rest of its file. A 404 answer
  to HEAD has a body. A file opened for a request that is handled on `MG_EV_CLOSE` is never closed. After a malformed
  request the connection drains, but `http_cb` does not look at `is_draining` (mongoose.c:2462): what the client sends
  before the connection closes is still handled, and a body whose headers were dropped is taken for another malformed
  request. A TLS record that waits keeps the loop from asking for writability.
- `VpnModel`: an entry a lookup read before `evictAll` stays in the cache after it.

## What is not modelled

- *Vendored C*: `tcpdump/` (libpcap and tcpdump) and the parts of mongoose the web server does not call (clients, DNS,
  WebSocket, MQTT, SNTP, a TCP/IP stack, drivers, cryptography) are most of the lines of C of the repository.  They
  are other projects' code that AdAway builds and does not change; modelling them would say nothing about AdAway.  The
  models cover AdAway's own logic, in Java, and the C that runs as its web server, which is a small share of all C.
- *DNS over HTTPS proxy*: no code creates it.
- *DNS server mapper and subnets, application update, backup*: planned, see below.
- *Home screen, tile, screens of lists and sources*: only what they call; `pending` and `toggling` exclude no overlap.
- *VpnBuilder*: only that establishing a tunnel succeeds or fails; routes, addresses and excluded applications are
  arguments of Android calls.
- *Git hosting services, manifest of updates*: one HTTP request each; its answer is the date of a source.
- *The shell and its library*: commands succeed or fail as `RootModel` uses them.
- *A source of a type that is no URL and no file* (`SourceModel.java:347`): the screen of a source and the import of a
  backup accept valid URLs only, and the migration of the database deletes the others.
- *The sync after a retrieval* is one step in `HostsSources`, as is that of an apply in `RootModel`; `HostEntries` has it
  statement by statement.
- *The worker of the watchdog*: `VpnWatchdog` has one worker, which a restart replaces at once.  A worker that was
  interrupted in the sleep of `initialize` still throttles once, and shares throttler and watchdog with the new one.
- *In the web server*: an unknown `Transfer-Encoding`, after which `http_cb` returns with what it read still in the buffer
  (mongoose.c:2499) and handles the requests before it again on `MG_EV_CLOSE`, whose answers nobody gets (an invalid chunk,
  `mg_error` as well, is modelled); a file that gets shorter while it is streamed; the text of headers, percent
  encoding, the bytes of TLS records; the variants of `mg_iotest` for `poll` and `select`, which are not compiled for
  Linux.
- *Log screen and tcpdump, adware scanner, notifications, themes, other screens, Sentry*: display, or one
  command to a vendored program (`tcpdump/`).
- *Regular expressions and `LIKE` patterns*: a line is the shape they give it, an allowed name the set of hosts it
  matches.
- *Thread interruption and lack of memory in the loader*: nobody interrupts its threads.

## Plan

Done, in this order: the event loop with its proofs; throttler; watchdog; worker threads; control; loader with its
abstract specification; entries and cache; throttler and watchdog composed; web server; hosts sources; hosts file; the
proofs of watchdog, control, hosts sources and hosts file, and of the web server.

What is left:

1. `AppUpdate`: the download, its receiver, the progress thread (which never ends when the download is removed), the
   periodic worker.
2. `DnsServerMapper`: fake addresses and servers, in signed bytes, against the function they should be.
3. Backup import against the lists and their readers.
4. `HostsSources` composed with `HostEntries`: one model of who changes the lists while a sync runs.

Each of these would get its proofs as the modules before it did.  Liveness stays with TLC.

# Verification of bscp-go

TLA+ models of bscp-go, the client (SDK, CLI, sidecar, node plugin) of the BSCP configuration
service. Paths are relative to the repository root.

## 1. Inventory

| Component | Source | State it keeps | Operations | Interacts with |
|---|---|---|---|---|
| Request gate | `internal/upstream/wait.go` | `state` (blocked?), `signal` (broadcast channel) under `lo` | `TryBlock`, `Unblock`, `WaitMS`, `WaitWithContext` | every RPC of `api.go` waits on it; `ReconnectUpstreamServer` closes and opens it |
| Upstream client | `internal/upstream/upstream.go`, `api.go` | `conn`, `client`, `cancelCtx`, `stateWatchCancel` | `dial`, `ReconnectUpstreamServer`, `waitForStateChange`, `Close`, the RPCs | watcher, bounce, downloader |
| Bounce | `internal/upstream/bounce.go` | `st`, `intervalHour` | `enableBounce`, `updateInterval` | periodic `ReconnectUpstreamServer` |
| Balancer | `internal/upstream/balancer.go` | `index` | `PickOne` | `dial` |
| Subscriber | `client/watch.go` (340-616) | `eventQueue` (capacity 1), `closed`, `CurrentReleaseID`, `CursorID`, status | `enqueueLatestEvent`, `processEvents`, `handleReleaseChangeEvent`, `closeEventQueue`, `resetForReconnect` | watcher feeds it; calls the user's callback |
| Watcher session | `client/watch.go` (43-338), `client/reconnect.go`, `client/heartbeat.go` | `vas`/`cancel` (the session), `reconnectChan` (capacity 1), `subscribers` | `StartWatch`, `StopWatch`, receive loop, heartbeat loop, `NotifyReconnect`, `waitForReconnectSignal`, `tryReconnect`, `Subscribe` | upstream, subscribers |
| Client | `client/client.go` | options, kv cache use | `Get`, `PullFiles`, `PullKvs`, `ResetLabels`, `Close` | upstream, watcher, kv cache |
| Release execution | `client/types.go` | the release, `AppMate` progress | `Execute`, `compareRelease`, `UpdateFiles`, `clearOldFiles`, `UpdateMetadata`, hooks | eventmeta, downloader, cache, upstream |
| Event metadata | `internal/util/eventmeta/metadata.go` | append-only `metadata.json`, `changeevent.json` | append, read the last line | release execution |
| Downloader | `internal/downloader/*.go` | semaphore, target file or buffer | range/direct HTTP download with retries, P2P download with fallback | release files, file cache |
| File cache | `internal/cache/cache.go` | directory of files named by SHA256, no lock | `CopyToFile`, `GetFileContent`, `AutoCleanupFileCache` | downloader, `ConfigItemFile` |
| KV cache | `internal/cache/memcache.go` | one entry per key, MD5 and value in one slice | `Get`/`Set` by `client.Get` | client, feed server |
| CLI / sidecar | `cmd/bscp` | command options, labels file watch | `watch`, `pull`, `get` | client |
| Node plugin | `build/nodemanPlugin` | pid file | `ensurePid`, `Watch` | client |
| Configuration | `internal/config` | `ClientConfig` | `Update`, `Validate` | CLI |
| Utilities | `internal/util`, `pkg` | none | pure helpers, host info, metrics, logging | everything |

What makes them correct:

- *Request gate, upstream client*: one goroutine reconnects at a time; a stopped request goes on
  when the reconnection ends and then finds the new connection; no connection is leaked.
- *Subscriber*: callbacks do not overlap; an accepted event is handled once or replaced by a newer
  one, and waits where somebody reads; an open subscriber has an open queue; the heartbeat says of an
  event what has become of it. The last three have exceptions in the code, which the properties name.
- *Watcher session*: a failure (but one of the heartbeat) or a label change leads to a new session; there is one at a
  time; none after `Close`; a reconnection does not wait for itself.
- *Release execution, event metadata*: what the records claim is on the disk, and a skip is safe.
- *Downloader*: success means the whole file; nothing goes on after a failure.
- *File cache*: what is taken from the cache is whole, unless somebody empties it meanwhile.
- *KV cache*: what is read is what was asked for, and current.
- *P2P download*: a file that was reported as saved is whole and stays so, whatever the agent still
  writes.
- *Sidecar*: a change of the labels file reaches the labels, and then a release for them is handled.
- *Progress*: an execution ends, and the number of files that is reported is that of the release.
- *Node plugin*: one instance at a time, and an instance that died does not stop the next.

## 2. What is hard here

Everything that reconnects shares state without a lock of its own. The receive loop, the heartbeat
loop, a label change and a user's `Close` all end in `NotifyReconnect`, `StopWatch`, `StartWatch`
or `ReconnectUpstreamServer`, which work on the fields `w.vas`, `w.cancel`, `uc.conn`, `uc.client`
and `uc.cancelCtx`. What keeps them apart is a try-lock made of an atomic flag and a channel
(`wait.go`), a channel of capacity 1 (`reconnectChan`), and an atomic flag per subscriber. The
second hard part is what is left on the disk: the skip of a release event rests on the last line
of two append-only files, written at different times, by a process that may be killed at any
moment. The third is the shared targets of concurrent downloads: the parts of one file, one file
of the file cache, and the temporary name of the P2P agent. The fourth is what processes agree on
through a file that others change meanwhile: the labels file and the pid file.

`PROJECT.json` lists the hazards at their lines with the properties about them. For some the
code does go wrong: the test-and-use of `Close` (upstream.go:297), the late event (watch.go:258), the
user's stop against a reconnection (reconnect.go:43), the labels file that is replaced
(common.go:142), the counter of pull (pull.go:148), the late store of the progress (watch.go:541), the
cache file that others empty (cache.go:156), overlapping starts of the plugin (main.go:254). There
the property names exactly that case as its exception. It shows that nothing else leads to the
same harm; it does not catch the hazard, which a finding reports, and the hazard's note says so.

## 3. Modules

| Module | Models | Composition |
|---|---|---|
| `ReconnectLock` | what `ReconnectUpstreamServer` needs of the gate: a try-lock | abstract, implemented by `Blocker` |
| `Blocker` | `wait.go`, load by load and store by store | `INSTANCE ReconnectLock` under a refinement mapping |
| `Upstream` | `upstream.go`, `api.go`, `balancer.go` around the gate | extends `Blocker`; every step of it is a step of the gate or leaves the gate alone |
| `Delivery` | what `enqueueLatestEvent` and `processEvents` promise: one callback at a time, an event waits until it gets one or a newer one replaces it | abstract, implemented by `Subscriber` |
| `Subscriber` | the event queue, its processors, closing and resetting it (`watch.go`) | `INSTANCE Delivery` under a refinement mapping |
| `Session` | a session that is asked for and opened with the labels of that moment | abstract, the interface between `Watcher` and `Sidecar` |
| `Watcher` | sessions, loops, reconnect signal, user calls (`watch.go`, `reconnect.go`, `heartbeat.go`, `client.go`) | `INSTANCE Session` under a refinement mapping; sees the queues of `Subscriber` as open or closed, and the dial of `Upstream` as one step |
| `Release` | `Execute`, its steps, and the two record files (`types.go`, `metadata.go`) | sees a download as a file that is begun and ended |
| `Downloader` | one download over HTTP (`http.go`) | what `Release` and `FileCache` see as one download |
| `FileCache` | one content in the cache directory (`cache.go`, `types.go`) | sees a download as blocks written in any order |
| `KvCache` | one key read by `client.Get` over the cache (`client.go`, `memcache.go`) | |
| `AsyncDownload` | downloads through the P2P agent and the fall back to HTTP (`async.go`, `downloader.go`) | sees the HTTP download of `Downloader` as blocks written in order |
| `Sidecar` | the labels from the file to the handled release (`config.go`, `common.go`, `cmd/bscp/watch.go`, `client/watch.go`) | sees a session of `Watcher` as a step of `Session`, and the queue of `Subscriber` with its callback as another |
| `Progress` | the counter of saved files and `SemaphoreCh` (`types.go`, `watch.go`, `pull.go`) | refines the files step of `Release`: the workers and who reads from them |
| `PidFile` | the pid file of the node plugin over starts and kills (`nodemanPlugin/main.go`) | |

`MCUpstream`, `MCSubscriber`, `MCRelease`, `MCKvCache` and `MCSidecar` give the constants of their modules
values; the other modules take numbers and model values and are run as they are. `*Proofs` modules
hold the theorems: those of `Progress` are in `SubscriberProofs`, those of `AsyncDownload` in
`DownloaderProofs`, those of `Sidecar` and `PidFile`, the programs on top of the client, in `ProgramProofs`.
Modules whose theorems share a proof module name their definitions apart (`ProgressSpec`, `AsyncSpec`, `PidSpec`). In every module a section *Plausible mistakes* holds mutated actions: replacing
an action by its mutant makes the property named with it in `PROJECT.json` fail, which shows that
the property can fail.

### Blocker and Upstream

`state`, `signal` and `lo` are the fields of `blocker`; channels are numbered as they are made, and
`closed` says which of them are closed. `rpc[b]` is where a reconnecting goroutine is: *making*
between the two assignments of `TryBlock` (wait.go:51 and 54), *held* until its deferred `Unblock`,
*closing* between the two statements of that. `wpc[w]` is where a request is: it has found the gate
closed (*checked*), it sleeps on the channel that `bl.signal` was when the `select` evaluated it
(*asleep*, `wch[w]`), or it has gone on (*passed*). `WaitWithContext` takes no lock, so all of these
interleave. `sawOpen` and `early` are history variables that only properties read.

`Upstream` adds the fields `conn`, `client`, `cancelCtx` (as `cancelSet`), the balancer's `index`
and the state watcher with its cancel function. `dial` is three steps (test `uc.conn`, close it,
connect), `Close` is five, because it takes no lock that `dial` takes: each test of a field and each
use of it is its own step, and using a field that has become nil meanwhile sets `panic`. A dial
succeeds at an address in `Reachable` and times out at any other.

### Subscriber

An event goes through `enqueueLatestEvent` in the steps of its two nested selects (`ev[e]` is
where it is); `enqueueMutex` serialises them. `Controllers` are the goroutines that run `StopWatch` and
`StartWatch`: the reconnect goroutine (reconnect.go:43-71) and the user's (client.go:220-239).
`closeEventQueue` takes no lock: the swap of the flag (`CloseFlag`) and the close (`CloseQueue`) are two
steps. `resetForReconnect` clears the flag (`ResetFlag`) before it makes the new queue and spawns a processor
(`ResetQueue`), under `enqueueMutex`. The processor reads `s.eventQueue` only when it gets to run.
It takes an event, waits for `s.processing`, writes `CursorID` (`HandleBegin`), then the status and
calls the callback (`HandleCall`), and on success the status (`HandleSucceed`) before the release
(`HandleEnd`). The heartbeat reads the cursor (`BeatCursor`, kept in `seen`) and then the status
(`BeatStatus`), at any time. History variables, which only properties read: `found` is the event that the
first select found pending, `crossed` remembers that two controllers closed and reset at once.

### Watcher

A thread is the user's goroutine or the reconnect goroutine of a session. `StopWatch` is cancel,
close the queues, wait; `tryReconnect` dials; `StartWatch` makes a session, takes the labels into
its payload, opens the stream, and spawns three goroutines one after the other. Loops read `w.vas`
whenever they test for cancellation, so that a loop can end by the context of its own session or of
the one that is current. `recvIn` and `beatIn` are the wait group a loop was added to, by the thread
that spawned it; `recvOut` and `beatOut` the one it will leave, which `w.vas.Wg.Done` evaluates only
when the loop runs (`RecvRun`, `BeatRun`). After a fast reconnection these differ (`Stray`), and a
wait group can be used again while a `Wait` on it has not returned, or its counter become negative:
`panic` is the end of the process by that. A heartbeat that cannot encode its payload ends its loop
without a signal (`BeatMute`). `NotifyReconnect` sets `signal`, or drops it if it is set. `clean` remembers
that the user's `StopWatch` met no reconnection; then `Close` must end everything.

### Release

`files[p]` is the content of a file, *Torn* while it is written; `metadata` and `changeevent` are
the last lines of the two files. `pc` runs through the pre-hook, the files (any order, several at a
time, each may fail), in watch mode the removal of old files, the post-hook and the metadata; the
change event is recorded after all of them whatever happened. A file that ends with success is whole
or torn: `torn` are the paths that `SaveToFile` has brought torn without an error, as it can through the
file cache (cache.go:173). Opening a record file and writing its
line are two steps. A file whose line breaks are converted after the download no longer has the
recorded SHA256, so it is always downloaded again. `Crash` kills the process at any step;
`unrecorded` remembers that the last execution left no line.

### Downloader

`Open` is `os.OpenFile` with truncation, `GetUrls` the call of `GetDownloadURL`, which has no deadline.
A byte is its position. `Parts`, `From` and `Until` are the arithmetic of `downloadWithRange`. Each
part is a goroutine that acquires the semaphore, requests, and writes: the right bytes, a body that
is too short, or one that goes over its end (`exceeded`). A body may also stall (`Stall`) and go on at some time
or never, with the unit of the semaphore in hand; so may those of other downloads (`stuck`). It retries; when it gives up the others
still finish, and the next address starts over on the same target.

### FileCache

About one content, hence one file name. A file is an object apart from its name: `entry` is the
file the name refers to, `fd[s]` the one a goroutine has open, and both outlive a removal of the
name. `CopyToFile` and `GetFileContent` hash the file block by block, `CopyToFile` downloads it in
place on a miss, and both open the name again and copy. The download is by HTTP, or first through the P2P agent: its
`<directory>/<signature>` (async.go:68-84) is the cache file itself, so a task writes in place too, the
rename does nothing, and the saver verifies the checksum and falls back to HTTP. A task that has
been given up, or whose process was killed, goes on: it opens the name with truncation (`AgentOpen`) and
writes (`AgentWrite`) whenever it likes. `disturbed[s]` remembers that somebody else emptied the cache
file while saver `s` relied on it, that is after it began to hash, verify or download it. The cleanup removes the name at any time; why it does (the
size of the directory, the age of the file) is left open.

### KvCache

The server publishes releases one after the other; `Content[r]` is the content of the key and
stands for its MD5 too. `Get` is: the MD5 call, the lookup, the value call, the store. A call may
fail, and then the entry is returned whatever its MD5; without a cache the code goes on to use a
nil response (`DegradedPanic`).

### AsyncDownload

A saver is a goroutine of `updateFiles` that saves one of several files of equal content into one
directory: it makes a task, waits for the ticker or the ten minutes (`waiting`), asks for the status (`polling`), renames the temporary file to its target,
verifies it, and falls back to HTTP when any of that fails. The ten minutes count only between two
status calls (`GiveUp`), because a call has no deadline and may not return. The agent is
external: a task opens the temporary name with truncation, writes block by block into the file it
opened even after that has been renamed, and ends with a success or a failure, at any speed. As in
`FileCache` a file is apart from its names. `Restart` kills the process and executes the release
again while the agent goes on.

### Sidecar

`main` follows `Watch` of the sidecar from the configuration to the goroutine that resets labels,
`reader` is the goroutine of `watchLabelsFile`, `old` its `oldLabels`, and `msg` what it sends on
`reloadChan`, which has no buffer: sending and receiving are one step. The file may be written in
place, replaced, broken, or removed at any time; only a write in place is an event that counts.
`base` is `conf.Labels` as they were read (the `pod_name` that is added to them after the client has
been made is `WithPodName`), `labels` those of the subscriber, `session` those that the stream was
opened with. Every event has a goroutine, which compares its labels with the subscriber's
(watch.go:289) in one step and has the release handled in another.

### Progress

`num[r]` is the counter of release `r`, `reader[r]` the goroutine that receives from its
`SemaphoreCh`. A worker adds, then sends; the goroutine receives, loads, stores. `mode` says where
it stores: watch into the subscriber (`shown`), pull back into the counter, and a program that uses
the SDK without a channel has no goroutine. The context of a watched release ends with the callback,
and then the goroutine ends when it gets back to its select.

### PidFile

`proc[p]` is what runs under a pid: a step of `Watch` of an instance, another program, or nothing.
`Read` and `Look` are the two halves of `checkProcess`, `Truncate` and `WritePid` those of
`os.WriteFile`. Nothing removes the file, and the host gives pids out again, also to other programs.

## 4. Runs

| Run | Asks | Shows |
|---|---|---|
| `upstream` | two reconnecting goroutines, a cancellable request, failing dials, `Close` at any time | The gate is a try-lock (`ImplementsLock`), wakes whoever sleeps on a channel (`NoLostWakeup`, `UpSleeperIsReleased`), and a request passes early only in the window of `TryBlock` (`PassesEarlyOnlyInWindow`). One connection at a time until `Close` runs (`OneConnection`); an open gate means a live client unless the last dial failed (`OpenGateHasLiveClient`); the balancer finds an address that answers (`SomeDialSucceeds`). |
| `subscriber` | two events, a watcher that two goroutines stop and start in any order, heartbeats | Accepted events go one at a time to the callback, or are replaced by a newer one before that (`ImplementsDelivery`). An accepted event waits where a processor reads or will read, unless a processor first ran after yet another reset (`AcceptedIsRead`); an open subscriber has an open queue with a reader, unless two goroutines closed and reset at once (`OpenQueueIsRead`); what a reader can get is handled (`QueuedIsHandled`). A heartbeat gives an event its own status, unless it falls between cursor and status (`ReportConsistent`). An event is dropped as "unexpected" only when a processor took the very event found pending (`DropOnlyAfterTake`). |
| `watcher` | two sessions, a label change, `Close` | A loop that failed is followed by a signal or a new session, but for the heartbeat loop that could not encode (`NoZombie`, `Recovers`), threads and loops together are the abstract session, in which new labels are followed by a session for them although signals are dropped (`ImplementsSession`), one session receives at a time (`OneLiveSession`), its queues are open (`LiveSessionDelivers`), a reconnection does not wait for itself (`StopReturns`), and after `Close` no session and no loop that is counted runs, unless a reconnection was under way or a loop has left another wait group than it joined (`CloseEndsAll`). |
| `release` | two releases, two match conditions, pull and watch, failures and crashes anywhere | The records never claim what is not on the disk, unless the last execution could not record (`RecordsAreTrue`); a recorded success is exact but for files that `SaveToFile` itself brought torn (`SuccessIsExact`); the two files agree (`LedgersAgree`). |
| `rollback_skipped` | is a skipped release on the disk? | No (`SkipIsSound`): after a crash in the middle of a new release the event that goes back to the old one is skipped. |
| `downloader` | three parts, two addresses, two tries, short, long and stalled bodies, a shared semaphore | Success means the whole file (`SuccessIsComplete`), nobody writes or holds the semaphore after the return (`NobodyLeftBehind`), and it ends unless `GetDownloadURL` does not answer or bodies stall for ever (`Terminates`). |
| `p2p` | two files of equal content, two tasks of a slow or failing agent, a crash | A file reported as saved is whole and stays so (`DoneIsWhole`); a file is left under the temporary name only by a saver that gave up (`LeftoverOnlyAfterGivingUp`); a saver ends whatever the agent does, unless a status call or an HTTP download never returns (`SaverEnds`). |
| `kv_cache` | two getters, five releases | A read is of a release that was published while it ran, unless its MD5 has come back (`ReadIsCurrent`); a cached value is never older than its MD5 (`EntryIsNotOlder`). |
| `file_cache` | two goroutines, a cache file that may be torn at the start, downloads by HTTP and by a P2P task that outlives its saver, failures and kills, cleanup | A torn copy is taken for good only if somebody else, another saver or a task of the agent, emptied the cache file after the saver began to hash, verify or download it (`TornOnlyByRival`). One saver alone is not safe: a task it gave up itself can do it. |
| `sidecar` | three edits of the labels file, from before the start on; reconnections and releases at any time | No change that was noticed is lost between the two goroutines (`RestMeansApplied`); events that are ignored because of their labels are made up for by the session that follows (`MismatchIsTemporary`); a release for the labels of the file is handled in the end (`FileIsFollowed`). |
| `progress` | two releases of three files, two workers, the three callers | An execution ends unless nobody reads its channel (`ExecutionEnds`); the subscriber shows the number of saved files, but for a late store of an earlier release and a release that saved none (`ShownIsSaved`); pull counts all files unless a worker adds between load and store (`PullCountsAll`). |
| `pidfile` | three pids, three kills, other programs | Two instances never watch at once unless two starts overlapped (`OneInstanceUnlessRaced`); a start succeeds in the end unless the file is empty or its pid is in use (`RestartSucceeds`). |

Where the code does not do what one would expect, the property names the exception, and without
that clause TLC finds the counterexample: the window of `TryBlock`, the heartbeat between two writes, crossed controllers, the file that others empty, the stalled body, the MD5 that
comes back, the late store, the overlapping starts. `PROJECT.json` lists them as findings together
with the sentence of the code that each contradicts, and `rollback_skipped` shows one as a
violation. The other findings come from reading and are marked by an empty run.

### Bounds

- `upstream`: `MaxRounds` = 3 closings of the gate. Two are needed for a request that carries the
  channel of an old round into the next, a third for the two goroutines to swap roles. Two
  addresses, one of which answers, so that failed and successful dials alternate.
- `subscriber`: `MaxEvents` = 2, one pending and one that replaces it; `MaxQueues` = 3, so that a
  processor can outlive two resets. Two controllers, which stop and start in any order.
- `watcher`: `MaxSessions` = 2, so the one reconnection meets label changes and `Close` in every
  order. A third session takes the run beyond what can be kept.
- `release`: two releases, the second of which changes one file and drops the other; two match
  conditions, one of which leaves a file out; one file that is converted. There is no bound on the
  number of executions: the states are finite as they are.
- `downloader`: `Size` 5 with a balance of 1 gives parts of 2, 2 and 1 bytes, so the last part is
  shorter and has equal ends (which is another form of the range header). Two tries and two
  addresses let every failure meet what it left behind; the semaphore has room for two of three parts.
- `kv_cache`: the releases have contents x, y, none, x, z: changed, deleted, brought back.
- `file_cache`: two blocks and two goroutines are enough for every order of writes and reads. One task of the
  agent is alive at a time, given up or not, and is used again when it has ended;
  `MaxFiles` = 2 lets the cleanup remove the name once under a goroutine that has the file open.
  A goroutine that would make a third file can only give up, so no run stops for the bound.
- `p2p`: two savers, two tasks and two blocks: one task can be moved away under the other, torn or
  whole, and a task of a killed process can meet the savers of the next. When the bound allows no
  more tasks the call that would make one fails, which the code allows at any time.
- `sidecar`: `MaxEdits` = 3, so that an edit falls before the configuration is read, between the two
  readings, and while a message waits; contents with and without the label. One event of a session
  and one or more of earlier sessions at a time.
- `progress`: three files and two workers, so that a worker waits for a free goroutine and another
  adds while the reader is between load and store; two releases for the late store.
- `pidfile`: three pids give the instance, its rival and another program; `MaxKills` = 3 lets a
  start be killed, the next one too, and a third find what they left. More instances end by
  failing, for which there is no bound.

Deadlock is not checked where a bound or an end of the process (`panic`, `Close`, a finished
download) stops the system; it is checked for `release`, which can always start another execution.

### Fairness

Fairness is assumed of goroutines whose next statement does not wait for anybody, and nothing else.

- `Upstream`: a goroutine in `TryBlock` makes the channel; one that dials ends its dial (it has a
  timeout) and runs its deferred `Unblock`; a request whose channel is closed wakes up. No fairness
  for new reconnections, cancellation or `Close`.
- `Subscriber`: some processor that can go on does. This takes the user's callback to return:
  the code has no timeout for it. No fairness for controllers, the enqueuing goroutines or the heartbeat.
- `Watcher`: one weak fairness condition on all that threads and loops do by themselves: somebody
  goes on while anybody can, and as nobody makes infinitely many of these steps within the bounds,
  each gets its turn. A cancelled stream or context is noticed; an attempt to open a session is
  answered, with the stream or a refusal. The failure of a live stream is never fair.
- `AsyncDownload`: savers go on between their calls, and a select that finds the ten minutes over again and
  again picks them once (strong fairness of `GiveUp`). Nothing is asked of the agent, of status
  calls or of HTTP bodies.
- `Sidecar`: goroutines go on, and a session that was signalled begins. No fairness for the editor of
  the file, for disturbances of the session or for further releases.
- `Progress`: workers and readers go on; saving a file and a hook end.
- `PidFile`: an instance goes on, somebody starts one when there is none, and one that tries
  again and again gets past its fallible calls in the end (strong fairness of `Serve`).
- `Downloader`: a request that does not stall ends, other downloads that do not stall give back the semaphore.
  Nothing is asked of `GetDownloadURL` or of a stalled body, for which the code has no timeout.
  `Acquire` is strongly fair because `semaphore.Weighted` serves its waiters in order.

The other specifications state safety only.

## 5. Proofs

Each theorem holds for every value of the constants that satisfies the named assumption of its
module. They have one shape: an inductive invariant, `Init => Inv`, one lemma per action or group
of actions, and a temporal step.

- `UpstreamProofs`, the gate (`Spec` of `Blocker`): `Inv` is `TypeOK`, `GateInv` (one goroutine is
  between its `TryBlock` and the end of its `Unblock`, and its location determines `state`, `lo` and which channels are closed) and
  `WaiterInv` (a request that never saw the gate open waits on the channel of the round under way). `OneReconnects` alone is not inductive: that a second goroutine is refused
  depends on `state` being true whenever someone holds the gate. It gives `TypeCorrect`,
  `Exclusion`, `UnblockSafe`, `WakeupNotLost`, `EarlyOnlyInWindow`, and `Refinement`: every step is
  a step of `ReconnectLock` or a stutter.
- `UpstreamProofs`, the client (`UpSpec`): every step of `Upstream` is a step of the gate or leaves it unchanged
  (`UpstreamUsesGate`), so the gate's theorems hold in it whatever `Close` does (`UpExclusion` is
  one). With exclusion at hand, `NoConnectionLeak` shows that dials leave one connection open, and
  `BalancerFindsReachable` that fewer dials than there are addresses fail in a row, because the
  addresses that failed since the last success lie directly behind the index and none of them answers.
  `OpenGateLive` adds `LiveInv`: outside of a dial, and unless the last one failed, the connection of the stub is open.
- `SubscriberProofs`, the queue: `Inv` is `TypeOK`, `LockInv` (who holds `enqueueMutex` and `processing`),
  `PlaceInv` and `KeptInv` (an event that is queued or taken is in exactly one buffer or with exactly one processor),
  `ProcInv` (a processor that waits or handles has an event, each queue that was made got a processor), `ExitInv` (a
  processor leaves a queue that is closed and empty) and `HandleInv` (what a handling processor has written in the fields so far). It gives
  `TypeCorrect`, `ReportsConsistent`, `AcceptedRead`, and `Delivers`: every step is a step of
  `Delivery` or a stutter. The event that waits may be in a buffer, in the hands of a processor, or between
  drain and push of its successor; `PlaceInv` is what makes the mapping a function, `LockInv` what
  gives the callback to one processor, also of two that a reset has left side by side.
  `DropExcused` rests on a part of `LockInv`: from the moment a goroutine has found an event pending until it
  leaves its selects, that event is in the queue or a processor has taken it.
  `CloseSafe` and `OpenIsRead` hold for any number of controllers; `ShutInv` says that, until two of them
  cross, one at a time closes or resets, and the queue in use is closed only while the flag is set or being reset, and `ReadInv`
  that a queue in use that is not closed has a reader or a processor that will take it.
- `SubscriberProofs`, the progress (`ProgressSpec`): `PhaseInv` says where an execution is with its
  workers and its goroutine, `CountInv` that the counter, and what pull's goroutine has loaded of it, is
  the number of files counted unless a worker added in between, `ShownInv` that what the subscriber
  shows lies between the files that have been sent and those that have been counted. The two meet when the files are
  done; neither bound alone is inductive. `ProgressTypeCorrect`, `ShownCorrect`, `PullCorrect`, for any
  number of files, workers and releases.
- `ReleaseProofs`: `IInv` adds to the properties `Reached` (what each step of an execution has
  brought to the disk), `TornInv` (what is in `torn` is torn on the disk) and `Pending` (a success that is not recorded yet is in `metadata.json` and on the disk).
  `TypeCorrect`, `RecordsTrue`, `RecordsAgree`, `SuccessExact`.
- `KvCacheProofs`: `Inv` adds `GetterInv`: the MD5 a getter holds is of a release since its start, and
  the value is of that release or a later one. `TypeCorrect`, `ReadsCurrent`, `EntryNotOlder`, for any number of
  getters and any history of releases.
- `FileCacheProofs`: `Inv` adds `Sound`, for every saver that nobody has disturbed: what it has hashed,
  verified or written is in the file it has open, which is the one under the name or has lost its
  name, and after a good hash, a good verification or its own download the file under the name, if
  there is one, is whole. `Mild` is what others may do without disturbing it: add right blocks, or take
  the name away. Every step of somebody else is mild or sets `disturbed`, so `Sound` is proved once for
  mild steps and once for the saver's own. `TypeCorrect`, `CopyWhole`, for any number of savers, tasks and blocks.
- `DownloaderProofs`: `PartsPartition`: for every size and balance the parts lie in the file, do
  not overlap, and cover it. On this rest the invariants of a download: `TaskInv` (only parts of the
  address in use run, and none once there is a result), `TargetInv` (while no server has sent too
  much, a part that is done has its bytes in the target, and nothing is past the end: no failed
  attempt writes a wrong byte) and `CountInv` (each unit of the semaphore belongs to a running part
  or another download). `TypeCorrect`, `SuccessComplete`, `NobodyLeft`.
- `DownloaderProofs`, the P2P download (`AsyncSpec`): `NameInv` (no file has two names, so that opening one
  name with truncation empties no other), `HttpInv` (what an HTTP download has written is in the file under
  the name) and `DoneIsWhole` are inductive together, whatever tasks write: a task only adds right
  blocks to a file it has open. `AwaitInv` follows the temporary file: as long as nobody gave up, each
  task that may write has a saver that waits for it, and a file under the temporary name has a saver that will
  move it. `FreeFile` counts names and tasks against files, to show that the bounded pool of file
  objects never runs out. `AsyncTypeCorrect`, `SavedWhole`, `LeftoverExcused`, for any number of savers, tasks,
  blocks and restarts.
- `WatcherProofs`: no lock says that there is one session at a time, the shape of the code does. The
  invariant makes it a token (`TokenInv`): the thread in `StartWatch` has it until it spawns the
  goroutine that waits for a signal, which takes it through the select, `StopWatch` and `tryReconnect` to the
  next `StartWatch`; the user's `StopWatch` does without. `MineInv` says that the holder works on the
  session in `w.vas`, `LiveInv` that nothing is live when a session is made, `LoopInv` that the loops of
  the current session that run will leave its wait group. On top of these, one invariant per property:
  `ZombieInv` and `QueueInv` name the token holder as the one who will make good (the user's
  `StopWatch`, which the properties admit too, only counts until it has cancelled), and `CloseInv` follows `Close`
  to its end: the lemma `CounterZero` counts who has joined and who has left, so that `Wait` returns
  only when every loop of the group has ended, unless one is stray. `TypeCorrect`, `OneSession`, `FailureNotLost`, `QueuesOpen`, `CloseComplete`, for any number
  of sessions and label changes.
- `WatcherProofs`, the session: `SessionRefined` says that every step of the watcher is a step of `Session`
  or a stutter. A session is *asked for* while the signal is set or a thread is on its way to the
  payload of the next one; it is *served* when the payload takes the labels, not when it is sent. That
  labels are not lost is then a matter of the four variables of `Session`, where `Promise` is inductive;
  `LabelsNotLost` brings it back through the refinement.
- `ProgramProofs`, the pid file (`PidSpec`): `PidInv` adds to the types that, as long as no two starts were
  between read and write, whoever is live is named by the file, and who is about to write has found
  nobody. `PidTypeCorrect`, `OneInstance`, for any set of pids and any number of kills.
- `ProgramProofs`, the sidecar (`Spec` of `Sidecar`): `ReadInv` says that what the goroutine read last is what it
  keeps or is about to send, and that this is the file unless a write waits for it; `LabelInv` that the
  labels are those of what it knows to be received. Together they are `RestCorrect`. `SessionInv` (a session
  for other labels is signalled to end, and its own events are for its labels) makes
  `MismatchIsTemporary` inductive: `MismatchCorrect`. `SidecarTypeCorrect`, for any contents and edits.
- The two sides of `Session`: `SessionUsed` says that the sidecar, where opening a session is one step, does
  with it only what `Session` allows, and `SessionRefined` that the watcher's threads do no more than that
  either; `Promise` therefore holds in both. What is not proved is the converse, that `Sidecar` takes every
  step of `Session`, so that nothing the watcher does surprises it. It rests on reading the actions: while
  the sidecar serves, `Disturb` is `Ask` at any moment and `Reconnect`, followed by `Disturb` or not, is `Serve`.

The type invariants are theorems (`TypeCorrect`, with the name of the module in front where two modules share
one) and no run repeats them. The assumptions are those of the constants: `Files` and `Savers` are finite, because the
code counts them, marker values are not among the data, and bounds are natural numbers.

Every invariant, action property and refinement that a run checks is a theorem. Only model-checked is
liveness (`UpSleeperIsReleased`, `QueuedIsHandled`, `StopReturns`, `Recovers`, `Terminates`, `SaverEnds`,
`FileIsFollowed`, `ExecutionEnds`, `RestartSucceeds`), because liveness and `ENABLED` are out of the prover's reach.
Induction over data is out of reach too, so no module here has a recursive definition. `SkipIsSound` is
violated, hence no theorem.

## 6. Not modelled

- **Downloads to a slice** (`DownloadToBytes`), and `MoveFile` across devices, which copies: the
  temporary file of a P2P download is in the directory of its target.
- **Bounce**: a timer that calls `ReconnectUpstreamServer`; in `Upstream` it is one of the
  reconnecting goroutines. Nothing outside its interface starts it.
- **Hooks** are a step that succeeds or fails; they have no timeout.
- **The choice of files in the cleanup** and the size limit of a cached file.
- **Pulls of the SDK and `get`**: they call the server and return or print the answer, and keep no state.
- **The labels of the node plugin**: it merges labels as the sidecar does, and has no labels file.
- **Validation of options, logging, metrics, resource monitoring, the HTTP server of sidecar and
  plugin**: input and output.

## 7. Plan

Done: all modules above. What is left, in this order:

1. Further composition: the queues that `Watcher` opens and closes as an interface that `Subscriber` implements,
   and the reconnection it asks for as one of `Upstream`; the events of `Sidecar` as clients of `Delivery`.
2. Several contents in `FileCache`, with the order in which the cleanup removes them.

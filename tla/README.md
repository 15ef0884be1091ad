# TLA+ specifications of sproxy

sproxy is a file service with tunnels: clients and servers talk over one
multiplexed connection (`pkg/tunnel`), files live on volumes under hierarchical
quotas (`pkg/quota`, `pkg/volume`), and background engines download, synchronise
and archive (`pkg/cloud`, `pkg/sync`). Nearly every feature stands on two pieces
of concurrent code, and these were specified first:

* **the stream multiplexer** `pkg/tunnel/mux`: many byte streams over one
  connection, with per-stream windows, retransmission and a shared stream table;
* **the quota ledger** `pkg/quota` with the wait queue `pkg/waitq`: a tree of
  counters that uploads, downloads and deletions of all users change at once.

On top of the ledger come the three engines with long-lived state of their own, a
table in memory, a record on disk, background goroutines and quota held for hours:

* **chunked uploads** (`pkg/files/chunked_*.go`), whose session ids are used again;
* **cloud download tasks** (`pkg/cloud`), with cancel, delete, resume and restart;
* **sync tasks** (`pkg/syncmgr`), with dedup, slots, retries and restart.

## 1. Inventory

| component | state | operations | interacts with | what is hard | what makes it correct |
|---|---|---|---|---|---|
| mux: stream receive path (`mux/stream.go`) | `dataCh`, overflow list `pending`, `rBuf`, `buffered`, `done` | `pushFrame`, `tryPull`, `waitForData`, `Read`, `Abort` | called by `readLoop` (producer) and the application (consumer) | two queues, one lock for only one of them; a peer that does not follow the window | each byte read once and in order, bounded memory, `readLoop` never blocks, no sleep over buffered data |
| mux: flow control (`stream.go`, `frame_handler.go`) | `windowSize`, `windowUpdateCh`, `pendingWindowUpdate` | `Write`, `sendWindowUpdateUnsafe`, `flushPendingWindowUpdates`, `handleWindowUpdateFrame` | both ends of a stream | debit after enqueue, credit that does not fit `writeCh`, a token separate from the window | credit is conserved, a waiting writer is released, an honest peer is never aborted |
| mux: write loop and retransmission (`loop.go`, `retransmit.go`) | `writeCh`, `retransmitQ` | `writeLoop`, `sendFrame`, `enqueueRetransmit`, `scanRetransmitQ` | transport `Send` | a failed `Send` on a connection that stays up | what is written arrives, in order, or the connection is closed |
| mux: stream table (`mux.go`) | `streams`, `activeStreams`, `nextID`, `acceptCh` | `Open`, `Accept`, `handleOpenFrame`, `handleCloseFrame`, `handleRejectFrame`, `removeStream(If)`, `Close` | application, `readLoop`, `writeLoop` | five paths unregister a stream; IDs can be reused by the peer | exact count, nobody ends a stream nobody asked to end, nothing survives `Close` |
| quota: ledger (`quota.go`) | per node `committed`, `reserved`, `maxBytes` | `TryReserve`, `Commit`, `Release`, `ReleaseUsage`, `Adjust`, setters | every writer and deleter of files | a call locks one node at a time on its way to the root | the limit is strict at every moment, nothing leaks, clamped releases stay local |
| quota: waiting (`wait.go`, `waitq_adapter.go`, `waitq.go`) | queue of waiters, `waitMu` | `WaitReserve`, `AcquireUnder`, `waitAcquire`, `NotifyAll` | the ledger | check-then-sleep against free-then-wake | no lost wake-up, every call returns |
| quota: allocation ledger (`allocation.go`) | `allocated` per node | `EnsureChild`, `TryAllocate`, `Set`, `Release` | ledger limits | undo of created nodes | sum of child limits within the parent |
| quota: settlement, task account, quota writer, staging tracker | their share of `reserved`/`committed` | `Reserve(Wait)`, `Reconcile`, `Commit(Up)`, `Release` | the ledger | waits without its own lock, retries, cancellation | the handle's share equals the ledger's |
| write-behind ledgers (`internal/savemerger`, `pkg/checksum`, `files/dedup.go`) | memory map, `dirty`, `saved`, timer | `Mark`, `Flush`, `Close`, timer flush | StateStore or file | overlapping saves, failed writes, crash | `saved` never claims more than is stored; a change is stored within the window |
| leader election (`pkg/leader`, `state/ext/mongo`) | lock file or lease, `isLeader` | `TryAcquire`, `Renew`, `Release`, `Authorize` | write routes | expiry against a write in progress | one writer |
| hub, mesh, relay (`pkg/tunnel/{hub,mesh,relay}`) | registries of leaves and peers | register, route, forward, expire | mux | reconnect against removal of the old connection | a live peer is reachable, a dead one is forgotten |
| transports (`pkg/tunnel/xfer`) | sockets | `Send`, `Receive`, `Close` | mux | partial failure | whole frames in order |
| cloud tasks, downloader (`pkg/cloud`, `server/cloudtasks`, `pkg/downloader`) | `tasks`, `running`, `cancelFuncs`, partial and final files, JSON record, `ReservedSize`, `TaskAccount` | create, resume, cancel, delete, expire, recover | quota, storage manager | cancel, delete and resume against the end of a download; removals outside the lock; restart | one goroutine per task, each byte charged once and released once, what is on disk is booked |
| chunked uploads (`files/chunked_upload.go`, `chunked_store.go`) | session map, in-flight file, `session.json`, chunk sums, reservation | `UploadInit`, `UploadChunk`, `UploadComplete`, `CleanupExpired`, `NewUploadStore` | quota, checksum | one id names several sessions after each other; files outside the lock; crash | what lands is what was declared, nothing of a later session is removed for an earlier one |
| rest of the file service (`pkg/files`, `files/meta`) | versions, trash, metadata | write, rename, delete, restore | quota, checksum, dedup | crash between rename and metadata | metadata describes what is stored |
| volumes, sealing, secret data (`pkg/volume`, `pkg/storage`) | volume set, capacity ledger, encrypted index | mount, unmount, read, write | quota, drivers | unmount in use, torn index | capacity ledger equals usage |
| sync manager (`syncmgr`) | `tasks`, `running`, `cancelFuncs`, `semaphore`, JSON records, `ReservedSize` | `SubmitAndStart`, `CancelTask`, `DeleteTask`, `executeSync`, sweep, recovery | quota, executor | five places release quota; dedup by status; saves outside the lock | books equal reservations, a started task ends, one run per destination |
| sync engine (`pkg/sync`, `syncexec`) | diff of two trees | plan, apply | client, volumes | changes during apply | converges, loses nothing |
| audit, recovery (`pkg/audit`, `pkg/recovery`) | log of scopes | append, mark done, resume | all task families | crash between two records | every open scope is resumed |
| server, auth, clients, UI, utilities | configuration, sessions | HTTP handlers | all of the above | mostly per request | - |

`PROJECT.json` lists all of them under `components` with their status, and under
`hazards` the places where this code can go wrong in ways a test hardly reaches.

## 2. Modules

| module | models | kind |
|---|---|---|
| `MuxStream` | receive side of one stream: `pushFrame` against `Read`, `Abort` and the peer's close | detailed |
| `MuxStream_proofs` | proofs about `MuxStream` | proofs |
| `MuxCredit` | what flow control promises: bytes and credit move between places, none is lost | abstract |
| `MuxFlow` | both ends of one stream and the two loops between them, implements `MuxCredit` | detailed |
| `MuxFlow_proofs` | proofs about `MuxFlow` and `MuxCredit`, the refinement between them included | proofs |
| `MuxTable` | stream table of one mux | detailed |
| `MuxTable_proofs` | proofs about `MuxTable` | proofs |
| `QuotaPool` | ledger and wait queue | detailed |
| `MCQuotaPool` | tree and limits for TLC | instance |
| `QuotaPool_proofs` | proofs about `QuotaPool` | proofs |
| `SaveMerger` | write-behind ledger: changes, merged saves, crash | detailed |
| `SaveMerger_proofs` | proofs about `SaveMerger` | proofs |
| `ChunkedUpload` | the sessions of one upload id | detailed |
| `ChunkedUpload_proofs` | proofs about `ChunkedUpload` | proofs |
| `CloudTask` | one cloud task and both its ledgers | detailed |
| `CloudTask_proofs` | proofs about `CloudTask` | proofs |
| `SyncTask` | sync tasks for one destination | detailed |
| `MCChunkedUpload`, `MCCloudTask`, `MCSyncTask` | symmetry for TLC | instance |
| `SyncTask_proofs` | proofs about `SyncTask` | proofs |

### MuxStream

State: `dataCh` (capacity `ChanCap`), `pending` (the overflow list), what `rBuf`
still holds, `buffered`, what closed `done`, and one program counter for `readLoop` inside `pushFrame` and one
for `Read`. A frame is its sequence number and its length; an EOF marker is a
frame of its own kind, as the nil payload in the code.
Actions follow the code's atomic steps: `PushBegin` (the early return on
`done`), `PushGate` (the byte limit), `PushMode` (pendingMu: append when overflow
is on), `PushSend`/`PushDrop`/`PushFull` (the three cases of the `select`),
`PushAccount` (the byte account follows the send, in a step of its own),
`PushSpill`; `ReadBegin`, `PullChan`, `PullPending`, `WaitData`, `WaitDone`,
`ReadGot`, `ReadCopy`; `LocalAbort`, `PeerClose`.
The peer is either compliant (respects its window) or not; a non-compliant one
may send any frame at any time. The choice is made once, in the initial state.

### MuxCredit and MuxFlow

`MuxCredit` has the sender's window, the bytes in flight, the bytes held by
the receiver and the credit on its way back. `MuxFlow` has the code's places:
the writer A between its check of the window, its wait for a token, its enqueue
and its debit; `writeCh` on both sides; the connection; `retransmitQ`; B's
two receive queues; `pendingWindowUpdate`. The receive queues are one sequence, of which the first `inChan` frames
are in `dataCh` (capacity `RecvCap`) and the rest in `pending`; that Read may look at them in the
wrong order is the subject of `MuxStream`. What matters across the connection is the moment between a full
`dataCh` and the lock of `pending`, so `PushFull` is a step of its own: if Read has emptied both queues by the time the frame is
spilled, it may already sleep in `waitForData`, which the overflow list never wakes, and every later frame follows into the
list. `stranded` is that state: until `done` closes, Read takes nothing, no credit goes back, and the writer runs
out of window. `ImplementsCredit` instantiates `MuxCredit` with
the refinement mapping (in flight = `writeCh` + connection + `retransmitQ`, and so
on), is checked by TLC as a property of `MuxFlow` and proved in `MuxFlow_proofs`.
The bytes of a queue are the number of its units (`Units`, `Sum`), not a recursive
sum, and a scan keeps and sends entries in the order of `Ascending`, so that both can be reasoned about. `Noise` stands for other
users of B's `writeCh` (other streams, datagrams), which make a window update
fail to fit. Only one writer per stream is modelled, as the code uses streams.

### MuxTable

State: the table (ID -> stream object), the objects (open or closed, who asked for
their end), `activeStreams`, `nextID`, `acceptCh`, the frame `readLoop` holds, and
the goroutines inside `Open`, `Abort`, `Close`. The step between changing the
table and changing the counter is explicit (`OpenCount`, `AcceptCount`,
`HandleEndCount`). Whether the peer uses an ID again is chosen initially
(`peerReuses`). A stream is aborted by the application that holds it or by `readLoop`, on a data frame
over the window, accepted or not (`MayAbort`). A sent Close frame names an ID only and counts as a request to end
whatever stream has that ID; `CountExact` is claimed for peers that do not reuse IDs.

### QuotaPool

State: per node `committed`, `reserved`, `maxBytes`; the root's operational
reserve; `waitMu`; the queue and a wake-up token per waiter; and for each goroutine the
call it is in (`job`: place, mode, node, bytes, level). Every level of a walk is one
step, because the code locks one node at a time (`ReserveLevel`, `Rollback`,
`CommitLevel`, `ReleaseLevel`, `DropLevel`, `AdjustLevel`). Calls that free room
run from `Lock` to `Unlock` under `waitMu` and then take the `NotifyAll` step. A
`Reservation` may be settled by any goroutine, as an upload and its cancellation
do. `exact` is chosen initially and says whether callers keep to commits within
their reservation and do not lower limits below usage by hand: the ledger
promises its bound only to such callers (`NoOvercommit`), everything else
holds for all. `Shares(m)` is what each goroutine accounts for in the reserved bytes of
a pool: what its open reservation promised, plus the levels a walk has already
charged or has still to give back. Sums are written as the number of units they consist of (`Total`), so that the
theorems on finite cardinalities apply to them. The usage at start is read bottom up
from the files, so an ancestor starts with at least what its children have
(`QuotaAssumption`).

### SaveMerger

Saves are snapshots of the whole map, so the ledger in memory (`mem`), the stored one
(`disk`) and the one loaded at start (`base`) are counts of changes. `dirty`, `saved`,
`timer` and `closed` are the merger's fields; `ticking` holds the timers of the runtime.
A writer changes the map, counts (`MarkDirty`) and arms (`MarkArm`) in three steps. A save
comes from a fired timer (`Fire`, `FlushPending`), `Flush` or `Close` and goes through
`LoadDirty`, `TestSaved`, `Snapshot` (with `saveMu`), `Write` or `WriteFails`, `StoreSaved`,
`Return`; only the timer's save is tried a second time. `Crash` ends the process at any point and starts one
that loads what is stored. `gaveUp` is a history variable: a save has failed for good and
nothing was marked since. `Serialised` says whether the backend holds `saveMu` from its
snapshot to its write, as `ChecksumStore.save` does; the run and the proofs are about such a
backend. `StateBackedChecksumStore.save` does not (see the plan).

### ChunkedUpload

Clients derive the upload id from the file, so after a session expired, failed or
finished the same id comes back, with the same directory, in-flight file and entry in
the lock table. The module looks at one id: `cur` is the generation in `us.sessions`,
`obj` the session objects, `temp`, `final` and `bytes` the in-flight file, the file at
the target and their content by the generation that created them, `dir` and `side` the
session directory (`session.json` and the `chunk-<i>.sha256` files), `resv` what became of each
reservation, `epoch` the lock object the table has for the id. A request (`req`) is a goroutine that alternates sections
under `us.mu` with file operations: `InitBegin`, `Route`, `CreateTemp`, `PublishTemp`, `InitSnapshot`,
`InitWrite`, `InitRollback`; `ChunkBegin`, `ChunkRecheck`, `ChunkOpen`, `ChunkPut`, `ChunkSidecar`,
`ChunkMark`; `CompleteBegin` (the copy of the session), `CompleteCheck` (all chunks there, by id), `BeginComplete`, `AcquireTarget`, `Verify`, `Rename`, `Finish`,
`EndComplete`, with their failures. Beside them run `CleanupExpired` (three `Sweep` steps: out of the map, the
release, the files), the writer of `session.json` (`PersistSnapshot`, `PersistWrite`), the delayed clean-up
and crashes with the three outcomes of recovery. Bytes are good, bad or never written.

`overlap` is a history variable: a generation was registered while a request of an earlier one
was still at work. In that case the code does mix the two (an open file of the earlier
generation is written after the later one took the name), so `VerifiedLands`, `ReservationOwned` and
`AckSurvives` are claimed without it, and `MergingOwned` names the request of the same session only without it
(`BeginComplete` and `EndComplete` go by id); `RecordOwned`, `TempKept` and `SessionKept` are
claimed always. `abandoned` marks a generation whose init failed to create its file after
its session had been swept: its reservation is not released by anybody.

### CloudTask

State: the task object, its `TaskAccount`, `running`, `cancelFn`, the JSON record, the
directory with partial and final file, and the task's part of two ledgers (`cloud`, the storage manager's
category; `usage`, the tenant's scope). Download goroutines (`Worker`) go through
`executeDownload`: `Register`, `Guard`, `MakeDir`, `MarkDownloading`, then attempts (`SendGet`, `OpenPartial`,
`WriteBlock`, `FinalizePartial`, `LandFile`, `AttemptFails`, `Retry`), then `Finalize` or one of the
failures, and `Exit`. Requests: `CreateTask`/`Submit`, `CancelTask`/`CancelRemove`, `DeleteTask` (capture, files,
record, release), `ResumeTask` (lookup, wait for the old goroutine, claim under the lock, rollbacks, launch), the
sweep (collect, record, remove, drop), the flush of dirty progress, `CrashRestart` with recovery.

Files and ledgers are changed outside `m.mu`, in steps of their own. A removal or a sweep decided for
one state of the task may therefore meet a request that has put the task into another; the
history variable `overlap` records it, and the properties on the ledgers and files are claimed
without it (see section 4, sweep). `OneWriter` and `TerminalKept` are claimed always.

Some code sections are one step because nothing can come between them that matters. `CheckRetry` and
`ResumeForce` give bytes back to a ledger after the lock was released or the file removed: only the owner of the mark
touches the account meanwhile, so the totals are the same. `ResumeForce` removes each file or fails to, and gives back only what
went. An attempt that fails before it has a sink leaves the files as they were, without the partial file that
did not match the answer, or with an empty one (`Discards`). A write of the record may fail and leaves the old one
(`SaveWrite`). `MarkArtifact` has no case for a nil result: only a goroutine that `markDownloading` refused
has none, and it finds its context cancelled or its task out of the table before it gets there.

### SyncTask

Pull tasks for one source and destination, which `CreateTask` has to deduplicate. State: the task
objects, `running`, the contexts, the semaphore (`holds`, and `other` for unrelated tasks), the JSON
records, `booked` (what the manager has reserved with the ledger for a task) and a program
counter for each goroutine and request. `saveTask` is two steps, the snapshot under the read
lock and the write without a lock. `DeleteTask` is three: it takes the reservation out of the
object under the lock, releases it, and removes the record. The result of `Executor.Run` is one of
`RunCompletes` (with `ReconcileQuota`), `RunFails`, `FailTask`, `RunCancelled`, `RunTransient`,
`SyncRetryExhausted`. `Restart` may cut short a record that was being written and starts syncing and retrying
tasks again. `perFile` (`config.PerFileReserve`) is chosen in the initial state. Two history variables:
`spent` (tasks that failed because their retries were used up) and `revived` (tasks a
restart took for active although they had ended or been deleted).

## 3. Runs

| run | expected | question |
|---|---|---|
| `MuxStream` | pass | memory bounded with an exact byte account, honest peer never aborted, each frame read exactly once, close reported after the data, `done` releases the reader |
| `MuxStream_fifo` | violation | are frames read in the order they arrived? |
| `MuxCredit` | pass | conservation, one frame of margin is enough |
| `MuxFlow` | pass | refinement of `MuxCredit`; a writer short of window is released unless the reader is stranded; what is written arrives; order while no send fails |
| `MuxTable` | pass | count exact, only asked-for ends, unregistered means closed |
| `QuotaPool` | pass | strict bound in the middle of walks, no leaked reservation, ancestors cover their buckets, lost wake-ups only by rollback, every call returns |
| `SaveMerger` | pass | recorded means stored, a save that returned nil stored what was marked, the stored ledger never goes back, changes are stored in the end |
| `ChunkedUpload` | pass | the file that lands is the declared one; reservation, record and merge mark always have an owner; no clean-up of one generation takes the file or the session of another; an acknowledged chunk survives a crash |
| `CloudTask` | pass | the running mark is a lock; nothing is released twice or forgotten; disk stays booked; a completed task has its file; an ended status stays |
| `SyncTask` | pass | the books are the reservations; only exhausted retries pin quota; one run per destination |
| `SyncTask_live` | pass | a task whose goroutine was started ends |
| `SyncTask_leak` | violation | does every failed task give its reservation back? |

Run one with `tlc -config QuotaPool.cfg MCQuotaPool` (the module is in
`PROJECT.json`). Each property of a passing run has a mutant in `PROJECT.json`: a
variant of one mapped definition with a plausible bug that breaks the property.

**Bounds.** `MuxStream`: a window of 2 bytes, frames up to 2 bytes, a channel of one
and 6 frames: enough to fill the channel, spill, leave overflow mode and enter it
again, and to exceed both limits. `MuxFlow`: window 2, three
writes (and one more that may wait for window), channels of one (`dataCh` too, so that it is full after one frame; the
token channel has room for eight in the code and drops tokens when full, which one token reaches sooner), three failed sends, two tries per frame, a retransmission
queue of one: the window runs out, the queue overflows, tries run out, a window update
does not fit. `MuxTable`: two local opens concurrent with two peer IDs,
four objects, `maxStreams` 2, `acceptCh` 1: reuse of an ID, refusal, full queue.
`QuotaPool`: a root and two buckets (three levels add no new
interleaving to a walk that locks one node at a time; the proofs do not
bound them), two goroutines, three calls: a call between two steps of another and a
settled reservation before them. The initial limits make either level the tight one.
`SaveMerger`: two writers, two overlapping saves, two changes, two failures (both tries
of a timer's save) and one crash: saves that finish in either order, a change during a
save, an orphaned timer, a crash at every point.
`ChunkedUpload`: two requests at a time, two generations of the id, a file of one chunk, one
expiry or crash: every pair of requests meets the sweep, the record writer and the delayed
clean-up, and a second generation meets what the first left. `CloudTask`: two goroutines one
after the other, two requests out of cancel, delete, resume, sweep and flush on top of the
creation, two attempts, a file of two units (so that an attempt can stop half way and the next resume it), one
failed removal, failed write of the file or crash; writes of the record fail at any time. `SyncTask`: two tasks for the destination, two requests in
progress together and three in all, one retry, two slots and one other task, one failed write
or crash; runs that report 0 or 2 units around a placeholder of 1, so that reconciliation goes both ways. In
`SyncTask_live` one slot is contended by both tasks and another one; requests come one at
a time. Task ids, requests, goroutines and resumers are symmetric sets in these runs, except in
`SyncTask_live`: symmetry is not sound for liveness.

**Deadlock checking** is off in all runs because all of them may really stop: streams
and connections end, and bounded callers run out of calls. Waiting for ever is
covered by liveness instead.

**Fairness.** `MuxStream`: weak fairness on the steps of a goroutine inside
`pushFrame` and `Read` (the Go scheduler runs ready goroutines); none on the
application or the peer. `MuxFlow`: one weak fairness condition for each goroutine, over all its
steps: the writer inside `Write`, both `writeLoop`s, both `readLoop`s and a reader that keeps
reading (its step is not enabled while it is stranded, so nothing is promised there); strong fairness on a scan that
sends or drops what is due (the 50 ms ticker fires for ever and each
entry's backoff ends); none on the closing of the
stream or on failing sends, which are bounded by `MaxFails`. `QuotaPool`: weak
fairness per goroutine inside a call, which includes the timeout of `WaitReserve`
(`DefaultWaitTimeout` bounds every wait). `SaveMerger`: weak fairness for a writer
inside `Mark`; strong fairness for a save under way, which competes for `saveMu` (Go's
mutex starves nobody), and for the firing of armed timers; none on changes, `Flush`,
`Close`, failures or crashes. `SyncTask`: weak fairness for each task's goroutine and its saves;
this includes that a back-off ends (it is a timer) and that `Executor.Run` returns, which the
manager relies on (it sets no timeout of its own: an executor that hangs keeps its slot until
the task is cancelled); strong fairness for taking a slot (senders waiting
on a Go channel are served in turn); weak fairness for the end of other tasks; none on
requests, failed writes or crashes. `ChunkedUpload` and `CloudTask` are checked for safety only.

**Type invariants** are defined in every module (`TypeOK`) and are not part of the runs: those of `MuxCredit`, `MuxFlow`,
`MuxStream`, `MuxTable`, `QuotaPool`, `ChunkedUpload`, `CloudTask` and `SyncTask` are conjuncts of the proved inductive
invariants, and `SaveMerger_proofs` proves the types its argument needs.

## 4. What the violations show

1. **FIFO** (`stream.go:319`, run `MuxStream_fifo`). `tryPull` finds `dataCh` empty; `readLoop` fills it and
   spills the next frame; `tryPull` takes the spilled one. The comment at
   `stream.go:307` argues that `dataCh` always holds older frames, which is true
   of the queues and not of the reader's two looks at them.
2. **FailedIsFree** (`syncmgr/manager.go:1112`, run `SyncTask_leak`). When the retries of a pull task are used
   up, `applyRunResultWithError` writes the error and returns before
   `applyRunResultStatus`, the only place that releases a failed task's placeholder. The sweep
   later drops the task without a release. `NothingPinned` shows it is the only such way.

The models contain further behaviours of this kind. They have no run of their own; the
properties of the passing runs say exactly how far they reach.

* `stream.go:415`: a frame spilled between the reader's last look and its wait wakes nobody: `pushFrame` takes its
  default branch (235), Read drains `dataCh`, sees both queues empty and sleeps (413-429), the frame and all later ones
  go to `pending` (211-217). No window update is sent, and a `Write` at the other end that is short of window waits for ever on a
  healthy connection. `MuxFlow` has the state (`stranded`); `WriterReleased` excuses it and nothing else, and fails without
  the excuse.
* `retransmit.go:197`: a data frame whose send failed goes behind newer ones and behind the close of its
  stream (`InOrderIfNoSendFails`).
* `frame_handler.go:93`: an Open frame in hand during `Mux.Close` is registered after the sweep of the table.
* `quota.go:350`: the rollback of a failed reservation frees room silently (`OnlyRollbackStrands`: nothing else does).
* `chunked_store.go:879`: the sweep takes a session out of the map before its files; an init that has not yet
  published its file leaves it on disk with nobody to remove it, and if creating the file fails its
  reservation is not released (`abandoned`).
* `chunked_upload.go:1684`: the sweep may release the reservation of a session whose file is being verified
  (`Verify`, `SweepCollect`, `SweepRelease`, `Rename`): the Commit that follows finds a settled handle, and the file at
  the target is charged to nobody until the next scan.
* `cloud/manager_task.go:1835`: before an integrity check downloads again, the bytes of the file are given back while the
  file stays on disk (the comment says so: it is overwritten later). Until then, and for good if the download does not
  succeed, the file is on disk and not booked in the scope. `ScopeCoversDisk` therefore speaks of the partial file and of the file
  of a completed task, not of such a leftover.
* `cloud/manager_persist.go:659`: the sweep releases amounts it noted before it removed the files; a
  delete or a resume in between makes it a second release (`overlap`).
* `syncmgr/manager.go:1305`: a snapshot written late puts a syncing record over a cancelled one, or back
  after `DeleteTask` removed it, and the next start runs the task again (`revived`).
* `syncmgr/manager.go:535`: dedup looks at the status, so a task that was cancelled or deleted, and whose executor has not
  noticed yet, runs together with the one submitted after it. `OneRunPerKey` excuses exactly such tasks (and revived ones).
* `syncmgr/manager.go:1226`: with `PerFileReserve`, which production sets (`cmd/sproxy/root.go:1504`), a completed task keeps
  its size in `ReservedSize` although the manager holds no reservation for it, and `DeleteTask` (772-779) releases that size.
  `BookedExact` excludes completed tasks in this mode.
* `savemerger.go:78`: after the second failed write of a timer's save nothing is armed; `StoredEventually` excuses it (`gaveUp`)
  until the next change.

## 5. Proofs

TLAPS checks the modules `*_proofs`; nothing is assumed but the `ASSUME` of
each base module.

**MuxFlow_proofs**, for every window and frame size, every capacity of the channels and the connection,
and any number of writes, failed sends and retries. First the contract, over variables of its own (`Credit`): `CreditInv`
joins `TypeOK`, `Conservation`, `WindowInRange` and `HeldBounded` to `NoViolation`. Alone `NoViolation` is not
inductive: that a frame never arrives over the limit needs conservation (the bytes in flight and queued come out of the
window), the bound on `window` (it never goes negative) and the one frame that was credited and
is not yet read. Theorems: `CreditInvariant`, `CreditConserved`, `NeverViolated`; the last two are the invariants
`Conservation` and `NoViolation` of the run `MuxCredit`, through the instance `Credit`.

Then the code's places. `FlowInv` is `TypeOK` with `AllSized` (a data frame has between one byte and
`MaxFrame`, at whatever place it is), `WriterKnows` (a `Write` that has settled on a length still has the window for it,
since only it lowers the window), `Balanced` (window, what is in flight, what is buffered and what is owed back add
up to `Window` until something is given up on, and to no more until the mux closes), `~violated`, `NothingFailed` and
`Ordered`. `Balanced` is what lets `~violated` be inductive: `WithinLimit` shows that the test of `pushFrame` cannot
fail on an arriving frame. Each step of the code is put into one of nine
classes (it moves no bytes, enqueues, debits, arrives, takes, consumes, credits, loses, or the mux is closing), and each class
both keeps the account and is a step of `MuxCredit` or a stutter; `FlowImplementsCredit` follows. The sums rest
on lemmas about units: appending adds, taking the head subtracts, and an ascending choice of a set of
positions splits a sum in two. `InOrderIfNoSendFails` speaks only of what has arrived; `Ordered` says of every frame on
its way which position of A's output it has, so the next to arrive is the next written, and the end is
behind all of them. Theorems: `FlowInvariant`, `FlowTypes`, `WindowAccounted`, `NeverAborted`, `InOrderWithoutFailure`,
`FlowImplementsCredit`.

**MuxStream_proofs**, for every window, frame size and channel capacity, any number of frames and any peer.
`StreamInv` is `TypeOK` with what each side knows at each place (`ProducerKnows`, `ReaderKnows`, `CloseKnows`), the byte
account (`BufferedExact`, `RoomKept`, `EntriesBounded`), `OneEOF`, `CreditKept` and the properties themselves. The
account is not exact between a send on `dataCh` and the `PushAccount` step after it, so
`BufferedExact` carries the frame in the producer's hands; that the limit still holds then needs
`RoomKept`, the result of the gate that a reader's progress can only improve. `NoFalseViolation` needs `CreditKept`: what a compliant peer
may still send and what is buffered stay within the window plus the frame already credited. Bytes of a queue are counted as units
(`Bytes`). Theorems: `StreamInvariant`, `StreamTypes`, `MemoryStaysBounded`, `CompliantIsSafe`, `FramesExactlyOnce`,
`ClosesAfterDrain`.

**MuxTable_proofs**, for every number of opens, peer IDs, stream objects and limits. `TableInv` says which object
each goroutine and the frame in `readLoop`'s hand refers to (`PhaseKnows`, `LoopKnows`), that the
table and the objects agree on IDs (`TableMatches`, `OwnIDs`, `UniqueIDs`), that an object is taken out and ended by one path only
(`HeldAreShared`, `EndsOnce`, `NotTakenEarly`) and that a request to end comes before the end (`AskedFirst`).
`CountInv` is the count while the table and the counter are changed in two steps;
its steps add or remove one element of a finite set. Theorems: `TableInvariant`, `TableTypes`,
`ActiveIsExact`, `OnlyAskedEnd`, `OutIsClosed`.

**QuotaPool_proofs**, for every finite tree, finite set of goroutines, amounts and limits.
`QuotaInv == TypeOK /\ CallOK /\ WakeOK /\ LedgerInv`. `CallOK` says what the place of a call
implies for its arguments (a fast commit commits at least what was
reserved, a sleeping goroutine is in the queue). `WakeOK`
is the heart of the waiting: a sleeping waiter without a token is short of room at some level,
or somebody who has freed room has yet to wake the queue. It is needed because
`OnlyRollbackStrands` speaks only of states in which nobody has yet to wake
the queue, and is not preserved step by step on the way there. The step lemmas go
one action at a time; those that add to the ledger keep every waiter short,
those that free room leave their goroutine in a waking place, and `NotifyAll`
gives a token to everyone who fits.
`LedgerInv` is about the books. `ReservedExact` is kept because a walk has charged exactly the
levels below its position and the nodes of a path to the root are distinct, so each level is counted once and undone once. `NoOvercommit`
needs that a commit takes off `reserved` what it adds to `committed` (`ArgsOK`, `NotBelowZero`) and that `reserved` is exact.
`AncestorCovers` holds only between calls; `Covers` states it inside a walk: what an ancestor has
committed plus what walks below it still owe it covers its children plus what walks will still take off it. The sums
rest on a few lemmas (`TotalType`, `TotalSplit`, `TotalSet`, `TotalSetTwo`, `TotalZero`): changing one or two
entries changes the total by their difference.
Theorems: `QuotaInvariant`, `QuotaTypes`, `OnlyRollbackStrandsWaiters`, `NeverOvercommitted`, `ReservedIsExact`,
`AncestorsCover`.

**SaveMerger_proofs**, for every number of writers, overlapping saves, changes, failures and
crashes, over a backend with `Serialised`. The properties are not inductive: that a save may
record its generation rests on its snapshot having contained it, and that on every marked
change being in memory. `SaveInv` therefore says what a save knows at each place
(`SaveKnows`: before the write its snapshot holds `base + gen` changes and no fewer than are stored,
and it owns `saveMu`; after it `base + gen` changes are stored), and `Counted` says that
memory holds what was loaded, what is marked and one change for each writer that has yet
to mark it. The last is a cardinality; its two lemmas use `FS_AddElement` and
`FS_RemoveElement`. Theorems: `SaveInvariant`, `SavedStored`, `ReturnedStored`,
`StoredGrows`.

**SyncTask_proofs**, for every number of tasks and requests, every retry limit, placeholder and set of
reported sizes, any number of failed writes and crashes. `SyncInv` is `TypeOK` with four parts:
`ReqShape` (what a request works on; a `DeleteTask` that has still to release what a task had
is the only one, and the task is out of the table), `TaskShape` (a goroutine still at work has a task
that is not completed; a retry is left when one is taken), `Exact` (the books per task) and
`Freed` (a failed or cancelled task has a reservation of 0 or is in `spent`). `BookedExact` alone is not
inductive: that a second `DeleteTask` cannot take over the same reservation needs the table, that
`CreateTask` does not meet an old releaser needs the status of its task, and that a run's
failure finds the placeholder untouched needs that the task is not already completed, since
the transition table allows completed to failed. The `Effect` lemmas say once, field by field,
what the longer actions do; the step lemmas go action by action. `RunInv` is a second invariant on top: at most one
task of the destination is live in the table, the task of a started goroutine is syncing,
retrying or cancelled, and a task without a status has no goroutine. `OneRunPerKey` follows from it and not from dedup alone, since
`CreateTask` looks at the status and a goroutine may outlive it. Theorems: `SyncTypes`, `SyncBooksExact`,
`SyncNothingPinned`, `SyncOneRun`.

**CloudTask_proofs**, for any number of goroutines, resumers, attempts, file sizes, failures and crashes.
`CloudInv` is `TypeOK` with `Places` (which places each kind of actor can be in), `Lock` (the running mark and its
one owner, through start, resume and hand-off), `AtWork`, `Known` and `Origins` (what an owner's
place says of the task and its account), `Sweeping`, `Quiet` and `Deleting` (what a removal has
noted, and that nothing has changed it unless `overlap` is set) and `UsageCovers`, `CloudCovers`
(each ledger holds at least what some actor is about to release). `NoDoubleRelease` is not inductive without the last two: a
release is decided in one step and carried out in a later one. `EndedStaysEnded` needs `AtWork`: the
owner of the mark that has not written its result finds its task pending, downloading or
cancelled, and a cancelled one is left as it is. Theorems: `CloudInvariant`, `CloudTypes`, `MarkIsALock`, `NothingReleasedTwice`, `EndedStaysEnded`.

`FileInv`, on top of it, relates files, account and ledgers in a clean state: one that no failed removal, failed write or crash
and no `overlap` came before. `CloudInv` bounds the ledgers from below, which is enough against a double
release but says nothing of the disk, and cannot show that an abandoned task holds nothing; so `Exact` gives both ledgers by equations, and `Account`
says that only a sink holds a reserve. `Tracked` is the relation at each place of a download: `Told` is what the goroutine knows of its
task (a task that is gone has cancelled its context, or the goroutine has yet to look), `Loaded` what is in the partial file, what of it is booked
and that a file that landed is whole. `Unmarked` keeps a stale `done` mark from turning an old file into a
result, `Removed` says what a removal in progress leaves and to whom, and `Resting` what a task at rest has on disk and what a
resume that may be rolled back has found. Most actions fall into five kinds, each with one lemma: nothing that matters moves
(`StillKeeps`), a goroutine goes on alone (`AloneKeeps`, `QuietKeeps`), the mark is given up (`StopKeeps`) or handed over (`StartKeeps`), a request
clears the files of a task that is gone (`ClearKeeps`). Theorems: `FilesInvariant`, `FilesAreBooked`, `CompletedKeepsFile`, `AbandonedHoldsNothing`.

**ChunkedUpload_proofs**, for any number of requests, generations, chunks, expiries and crashes. `UploadInv` is
`TypeOK` with what each request knows at its place (`Knows`, `CompleteKnows`, `InitAlone`, `EarlyAlone`), who may touch files
(`FileLock`, `SameLock`, `OneMerge`, `OneFile`), the order of generations (`Fresh`, `CurHeld`, `LaterDone`,
`DoneSettled`, `Published`), what a verification has seen (`Checked`), that a side file is written before
its chunk is marked (`SideFirst`) and the properties. `VerifiedLands` needs `Checked` and `OneFile`: between `Verify` and `Rename` only a
chunk request of the same session could change the bytes, and the lock object of the table excludes it as long as all
requests hold the same one (`SameLock`), which the delayed clean-up of an earlier generation could break. A completion may copy
its session before init has named the file, and pass the test for all chunks later: `EarlyAlone` says that such a copy is without the name, and
`CompleteKnows` that a copy with the name has the reservation too. `MergingOwned` is kept as `MergingSeen` (some request is in
the merge), and `CompleteKnows` makes that request one of the same session. The action
properties follow from the invariant one action at a time. Theorems: `UploadInvariant`, `UploadTypes`, `VerifiedBytesLand`,
`ReservedHasOwner`, `RecordHasOwner`, `MergingHasOwner`, `NamedFileKept`, `LiveSessionKept`, `AcknowledgedSurvives`.

**Only model-checked**: all liveness (`CallsReturn`, `WriterReleased`, `WrittenArrives`,
`DoneReleasesReader`, `StoredEventually`, `Settles`), which is out of the prover's reach under fairness, and the two properties
expected to fail. Every invariant and action property of the passing runs is a theorem.

## 6. Not modelled

Within the modelled parts: durations (a timeout may fire at any time it is
armed), deadlines of streams, buffer pools, metrics and logging, ping and padding
frames, several writers on one stream, the construction of the quota tree, priorities
and `Notify` of the wait queue. Of the uploads: the fallback reservation with the storage manager,
external volumes, overwriting and versions at the target, and volumes that encrypt at rest: there `UploadComplete`
copies the in-flight file into a truncated target and removes it afterwards (`encryptFinalizeRoot`, `chunked_upload.go:1775-1795`), which is not
atomic: a crash in between leaves part of a file at the target, which `VerifiedLands` does not cover. A failing rename of
`session.json` is modelled as one that leaves the old record; where rename cannot replace a file (Windows) the code removes the old
record first and falls back to a plain write (`chunked_store.go:1117-1133`), so that three failures in a row leave a
directory without a record. Of the mux: a peer that opens streams under IDs of the other side's
parity. `handleOpenFrame` takes any ID (`frame_handler.go:79-94`); the peers of `MuxTable` keep to theirs, as `Open` does
(`mux.go:438-464`), and a local `Open` would replace the stream of one that does not. Of the write-behind ledgers: a ledger file that
cannot be read, is too large or does not parse; the store then starts empty (`store.go:308-325`) and its next save replaces the
file, so that `StoredNeverShrinks` holds only over restarts that find a readable file. Of the cloud tasks: a source whose
size changes between attempts (`FileSize` is a constant, so the mismatch of a 206 answer, `http_downloader.go:666-670`, does not occur), groups, transfer
targets, `Save = false`, the second submitter of a deduplicated task, the audit sink. Of the
sync manager: fan-out tasks, `RetryRemote` and `RetryFiles`, push and two-way tasks (they hold no quota), the
executor's own per-file reservations, `Stop`. One point is outside the models but worth
knowing: a listener's first stream gets ID 0 (`mux.go:376` sets `nextID` for the
dialer only), which is the ID of control frames.
Other components: see the table of section 1 and the notes in `PROJECT.json`.

## 7. Plan

1. **Ledger clients.** Settlement (including `ReserveWait` racing `Commit` and `Release`)
   and StagingTracker as further calls of `QuotaPool`, with a share per handle; the allocation
   ledger with undo. Property: the handle's share equals what the ledger holds for it.
2. **Sync fan-out**: a parent task over its children, `RetryRemote`.
3. **SaveMerger**, the StateStore backend (`Serialised = FALSE`), its lazy load, and the dedup ledger.
4. **Leader**: electors with file lock and with lease, `WriteGuard`, crash and expiry; then hub registration.

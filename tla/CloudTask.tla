------------------------------ MODULE CloudTask ------------------------------
(***************************************************************************)
(* One cloud download task of pkg/cloud, from its creation to its removal: *)
(* the entry of the task table and its status, the download goroutine (and *)
(* the ones that succeed it after a disconnect, a resume or a restart),    *)
(* the requests that cancel, delete and resume the task, the sweep of      *)
(* expired tasks, the JSON record that survives a restart, the files, and  *)
(* the two ledgers the bytes are booked in: the cloud category of the      *)
(* storage manager and the scope of the tenant.                            *)
(*                                                                         *)
(* Every section of code under m.mu is one step; removals, the two halves  *)
(* of saveTask (the snapshot, the rename) and the steps of an attempt are  *)
(* steps of their own.  The ledgers count relative to what everyone else   *)
(* holds, so a negative number is space taken from someone else.  A file   *)
(* has FileSize units of data.  The task has no transfer target and keeps  *)
(* its file on the server (Transfer = nil, Save = true).                   *)
(***************************************************************************)
EXTENDS Integers

CONSTANTS
    Worker,      \* the download goroutines a run may start, one after the other
    NoWorker,    \* no goroutine
    Resumer,     \* the requests that resume the task
    FileSize,    \* units of data in the file
    MaxAttempts, \* attempts of one goroutine (config.MaxRetries)
    Placeholder, \* units CreateTask and ResumeTask reserve for an unknown size
    MaxRequests, \* bound on the cancels, deletes, resumes, sweeps and flushes
    MaxFaults    \* bound on failed removals, failed writes and crashes

ASSUME FileSizeAssumption == FileSize \in Nat \ {0}
ASSUME AttemptsAssumption == MaxAttempts \in Nat \ {0}
ASSUME PlaceholderAssumption == Placeholder \in Nat \ {0}
ASSUME BoundAssumption == MaxRequests \in Nat /\ MaxFaults \in Nat
ASSUME NoWorkerAssumption == NoWorker \notin Worker

VARIABLES
    task,     \* the CloudTask object; field in: it is in m.tasks
    acct,     \* its TaskAccount; field open: task.account # nil
    running,  \* m.running[id]
    cancelFn, \* the goroutine whose context m.cancelFuncs[id] cancels
    json,     \* the persisted record of the task
    disk,     \* the directory of the task and the files in it
    cloud,    \* the task's part of the global cloud ledger
    usage,    \* the task's part of the usage of the tenant's scope
    pc,       \* the next step of every goroutine and request
    save,     \* saveTask in progress: the snapshot and the step after it
    dl,       \* what a download goroutine holds
    del,      \* what DeleteTask captured under the lock
    res,      \* what ResumeTask captured: woken, the state before, its placeholder
    item,     \* the expiredCloudTask the sweep collected
    dirty,    \* the task is in dirtyTasks
    asked,    \* requests that have arrived so far
    faults,   \* failed removals, failed writes and crashes so far
    overlap,  \* a removal or a sweep has met a request it does not know of
    kept      \* DeleteTask kept the reservation: the directory was still there

vars == <<task, acct, running, cancelFn, json, disk, cloud, usage, pc, save,
          dl, del, res, item, dirty, asked, faults, overlap, kept>>

\* The ledgers; what the requests hold; the history kept for the properties.
books == <<cloud, usage>>
held == <<del, res, item>>
ghost == <<overlap, kept>>

Request == {"create", "cancel", "delete", "sweep", "flush"} \cup Resumer
Actor == Worker \cup Request

ASSUME ActorAssumption ==
    /\ Worker \cap Request = {}
    /\ Resumer \cap {"create", "cancel", "delete", "sweep", "flush"} = {}

Status == {"pending", "downloading", "completed", "failed", "cancelled"}
Terminal == {"completed", "failed", "cancelled"}

Least(a, b) == IF a < b THEN a ELSE b

\* What json.Marshal keeps of the task; account and ReservedSize are not kept.
Snapshot(t) == [status |-> t.status, submitted |-> t.submitted,
                done |-> t.done, damaged |-> t.damaged]
Record == [status : Status, submitted : BOOLEAN, done : BOOLEAN, damaged : BOOLEAN]
NoRecord == [status |-> "none", submitted |-> FALSE, done |-> FALSE,
             damaged |-> FALSE]

DiskUsage(d) == d.partial + d.dest
EmptyDisk == [dir |-> FALSE, partial |-> 0, dest |-> 0]
NoSave == [snap |-> NoRecord, next |-> "idle"]
NoDelete == [res |-> 0, run |-> FALSE]
NoResume == [woken |-> FALSE, prev |-> NoRecord, res |-> 0]
NoItem == [res |-> 0, com |-> 0]
NoSession == [cancelled |-> FALSE, sync |-> FALSE, gone |-> FALSE, err |-> FALSE,
              size |-> 0, old |-> 0, lost |-> FALSE, tries |-> 0]

\* The goroutines that have been started and have not ended.
Live == {w \in Worker : pc[w] \notin {"unused", "over"}}
Ready == {w \in Worker : pc[w] = "unused"}
Idle(a) == pc[a] = "idle"

\* A request arrives; a run has at most MaxRequests of them.
Arrives(a) == Idle(a) /\ asked < MaxRequests /\ asked' = asked + 1

\* The steps of a goroutine, those of a request, and what the actors hold.
WorkerStep == {"unused", "start", "guard", "mkdir", "loop", "get", "open",
               "recv", "ended", "check", "done", "mark", "final", "fail",
               "clean", "rm", "exit", "save", "write", "over"}
RequestStep == {"idle", "submit", "launch", "wait", "claim", "window", "rm",
                "json", "release", "drop", "save", "write", "over"}
Session == [cancelled : BOOLEAN, sync : BOOLEAN, gone : BOOLEAN, err : BOOLEAN,
            size : 0..FileSize, old : 0..FileSize, lost : BOOLEAN, tries : Nat]

TypeOK ==
    /\ task \in [in : BOOLEAN, status : Status \cup {"none"}, submitted : BOOLEAN,
                 done : BOOLEAN, damaged : BOOLEAN, reserved : Nat]
    /\ acct \in [open : BOOLEAN, com : Nat, res : Nat]
    /\ running \in BOOLEAN /\ dirty \in BOOLEAN
    /\ overlap \in BOOLEAN /\ kept \in BOOLEAN
    /\ cancelFn \in Worker \cup {NoWorker}
    /\ json \in Record \cup {NoRecord}
    /\ disk \in [dir : BOOLEAN, partial : 0..FileSize, dest : 0..FileSize]
    /\ cloud \in Int /\ usage \in Int
    /\ pc \in [Actor -> WorkerStep \cup RequestStep]
    /\ save \in [Actor -> [snap : Record \cup {NoRecord},
                           next : WorkerStep \cup RequestStep]]
    /\ dl \in [Worker -> Session]
    /\ del \in [res : Nat, run : BOOLEAN]
    /\ res \in [Resumer -> [woken : BOOLEAN, prev : Record \cup {NoRecord},
                            res : Nat]]
    /\ item \in [res : Nat, com : Nat]
    /\ asked \in 0..MaxRequests /\ faults \in 0..MaxFaults

Init ==
    /\ task = [in |-> FALSE, status |-> "none", submitted |-> FALSE,
               done |-> FALSE, damaged |-> FALSE, reserved |-> 0]
    /\ acct = [open |-> FALSE, com |-> 0, res |-> 0]
    /\ running = FALSE
    /\ cancelFn = NoWorker
    /\ json = NoRecord
    /\ disk = EmptyDisk
    /\ cloud = 0
    /\ usage = 0
    /\ pc = [a \in Actor |-> IF a \in Worker THEN "unused" ELSE "idle"]
    /\ save = [a \in Actor |-> NoSave]
    /\ dl = [w \in Worker |-> NoSession]
    /\ del = NoDelete
    /\ res = [r \in Resumer |-> NoResume]
    /\ item = NoItem
    /\ dirty = FALSE
    /\ asked = 0
    /\ faults = 0
    /\ overlap = FALSE
    /\ kept = FALSE

Goto(a, p) == pc' = [pc EXCEPT ![a] = p]

\* The next steps of a are those of saveTask, and next after them.
SaveThen(a, next) ==
    /\ pc' = [pc EXCEPT ![a] = "save"]
    /\ save' = [save EXCEPT ![a].next = next]

\* The goroutine w starts at the top of executeDownload.
Launch(w, sync) == dl' = [dl EXCEPT ![w] = [NoSession EXCEPT !.sync = sync]]

\* The step meets a request of rs that has yet to remove files or book entries.
Overlaps(b) == overlap' = (overlap \/ b)
Meets(rs) == Overlaps(\E r \in rs : pc[r] \notin {"idle", "save", "write"})

Fault == faults < MaxFaults /\ faults' = faults + 1

-----------------------------------------------------------------------------
(* The account of the task and the scope it books in (TaskAccount).         *)

\* releaseTaskScope: give back all the account holds and forget it.
ReleaseScope ==
    /\ usage' = IF acct.open THEN usage - acct.com - acct.res ELSE usage
    /\ acct' = IF acct.open THEN [open |-> FALSE, com |-> 0, res |-> 0] ELSE acct

\* ReleaseReserve, then ReleaseCommitted(n).
Settle(n) ==
    LET k == Least(n, acct.com) IN
    /\ usage' = usage - acct.res - k
    /\ acct' = [acct EXCEPT !.res = 0, !.com = @ - k]

\* AdjustCommitted on an account made for the purpose, if there is none.
AdjustTo(n) ==
    IF acct.open \/ n = 0
    THEN UNCHANGED <<acct, usage>>
    ELSE /\ acct' = [open |-> TRUE, com |-> n, res |-> 0]
         /\ usage' = usage + n

-----------------------------------------------------------------------------
(* saveTask and the flush loop.                                             *)

\* The task is looked up and marshalled under the read lock; a deleted task
\* is skipped.
SaveSnapshot(a) ==
    /\ pc[a] = "save"
    /\ IF task.in
       THEN /\ save' = [save EXCEPT ![a].snap = Snapshot(task)]
            /\ Goto(a, "write")
       ELSE /\ Goto(a, save[a].next)
            /\ save' = [save EXCEPT ![a] = NoSave]
    /\ UNCHANGED <<asked, task, acct, running, cancelFn, json, disk, books, dl,
                   held, dirty, faults, ghost>>

\* The snapshot reaches its file by an atomic rename, with no lock held; a
\* save that fails leaves the old record and nobody tries again.
SaveWrite(a) ==
    /\ pc[a] = "write"
    /\ json' \in {json, save[a].snap}
    /\ save' = [save EXCEPT ![a] = NoSave]
    /\ Goto(a, save[a].next)
    /\ UNCHANGED <<asked, task, acct, running, cancelFn, disk, books, dl, held,
                   dirty, faults, ghost>>

\* flushDirty: a task whose progress moved is saved by the flush loop.
FlushDirty ==
    /\ Arrives("flush")
    /\ dirty
    /\ dirty' = FALSE
    /\ IF task.in THEN SaveThen("flush", "idle") ELSE UNCHANGED <<pc, save>>
    /\ UNCHANGED <<task, acct, running, cancelFn, json, disk, books, dl,
                   held, faults, ghost>>

-----------------------------------------------------------------------------
(* Creating and submitting the task.                                        *)

\* CreateTask: reserve a placeholder, enter the table as pending, save.
CreateTask ==
    /\ Idle("create")
    /\ task.status = "none"
    /\ task' = [task EXCEPT !.in = TRUE, !.status = "pending",
                            !.reserved = Placeholder]
    /\ cloud' = cloud + Placeholder
    /\ SaveThen("create", "submit")
    /\ UNCHANGED <<asked, acct, running, cancelFn, json, disk, usage, dl, held, dirty,
                   faults, ghost>>

\* SubmitAndStart: a task that is still pending and that nobody runs is
\* marked running and submitted under one lock, then saved.
Submit ==
    /\ pc["create"] = "submit"
    /\ Meets({"sweep"})
    /\ IF task.in /\ task.status = "pending" /\ ~running
       THEN /\ running' = TRUE
            /\ task' = [task EXCEPT !.submitted = TRUE]
            /\ SaveThen("create", "launch")
       ELSE /\ Goto("create", "over")
            /\ UNCHANGED <<running, task, save>>
    /\ UNCHANGED <<asked, acct, cancelFn, json, disk, books, dl, held, dirty,
                   faults, kept>>

\* The goroutine starts; a synchronous one hangs on the client's request.
SubmitLaunch ==
    /\ pc["create"] = "launch"
    /\ \E w \in Ready, sync \in BOOLEAN :
          /\ pc' = [pc EXCEPT !["create"] = "over", ![w] = "start"]
          /\ Launch(w, sync)
    /\ UNCHANGED <<asked, task, acct, running, cancelFn, json, disk, books, save,
                   held, dirty, faults, ghost>>

\* The client of a synchronous download hangs up.
ClientGone(w) ==
    /\ w \in Live /\ dl[w].sync /\ ~dl[w].gone
    /\ dl' = [dl EXCEPT ![w].gone = TRUE]
    /\ UNCHANGED <<asked, task, acct, running, cancelFn, json, disk, books, pc,
                   save, held, dirty, faults, ghost>>

-----------------------------------------------------------------------------
(* The files of the task.                                                   *)

\* The directory goes with everything in it; a file that is still open lives
\* on without a name.
RemoveDir ==
    /\ disk' = EmptyDisk
    /\ dl' = [w \in Worker |->
                 IF pc[w] = "recv" THEN [dl[w] EXCEPT !.lost = TRUE] ELSE dl[w]]

\* A removal, or its failure.
TryRemoveDir(done, failed) ==
    \/ RemoveDir /\ done /\ UNCHANGED faults
    \/ Fault /\ failed /\ UNCHANGED <<disk, dl>>

-----------------------------------------------------------------------------
(* The download goroutine, executeDownload.                                 *)

\* The cancel function and the running mark, in one section.
Register(w) ==
    /\ pc[w] = "start"
    /\ cancelFn' = w
    /\ running' = TRUE
    /\ Goto(w, "guard")
    /\ UNCHANGED <<asked, task, acct, json, disk, books, save, dl, held, dirty, faults,
                   ghost>>

\* A task cancelled before its goroutine ran is left alone.
Guard(w) ==
    /\ pc[w] = "guard"
    /\ Goto(w, IF task.status = "cancelled" THEN "exit" ELSE "mkdir")
    /\ UNCHANGED <<asked, task, acct, running, cancelFn, json, disk, books, save, dl,
                   held, dirty, faults, ghost>>

\* The directory is made, unless the tenant has gone; a file that was
\* downloaded before a restart is used again.
MakeDir(w) ==
    /\ pc[w] = "mkdir"
    /\ \/ /\ disk' = [disk EXCEPT !.dir = TRUE]
          /\ Goto(w, IF task.done /\ disk.dest = FileSize THEN "final" ELSE "loop")
       \/ /\ Goto(w, "fail")
          /\ UNCHANGED disk
    /\ UNCHANGED <<asked, task, acct, running, cancelFn, json, books, save, dl, held,
                   dirty, faults, ghost>>

\* markDownloading: the task must still be in the table and not be ended.
MarkDownloading(w) ==
    IF task.in /\ task.status \in {"pending", "downloading"}
    THEN /\ task' = [task EXCEPT !.status = "downloading"]
         /\ SaveThen(w, "get")
         /\ dl' = [dl EXCEPT ![w].tries = @ + 1]
    ELSE /\ dl' = [dl EXCEPT ![w].err = dl[w].cancelled]
         /\ Goto(w, "done")
         /\ UNCHANGED <<task, save>>

\* The top of the retry loop: a client that hung up or a cancelled context
\* ends it; otherwise a slot is taken and the task is marked.
TryAttempt(w) ==
    /\ pc[w] = "loop"
    /\ IF dl[w].cancelled \/ dl[w].gone
       THEN /\ dl' = [dl EXCEPT ![w].err = TRUE]
            /\ Goto(w, "done")
            /\ UNCHANGED <<task, save>>
       ELSE MarkDownloading(w)
    /\ UNCHANGED <<asked, acct, running, cancelFn, json, disk, books, held, dirty,
                   faults, ghost>>

\* The attempt is over: its file is closed.
Closed(w, failed) == [dl[w] EXCEPT !.err = failed, !.size = 0, !.old = 0, !.lost = FALSE]

\* The size of the partial file is read before the request is sent.
SendGet(w) ==
    /\ pc[w] = "get"
    /\ dl' = [dl EXCEPT ![w].old = disk.partial]
    /\ Goto(w, "open")
    /\ UNCHANGED <<asked, task, acct, running, cancelFn, json, disk, books, save, held,
                   dirty, faults, ghost>>

\* downloadSinkFactory: the account is made once and kept for later attempts.
OpenSink(n) ==
    IF acct.open
    THEN UNCHANGED <<acct, usage>>
    ELSE /\ acct' = [open |-> TRUE, com |-> 0, res |-> n]
         /\ usage' = usage + n

\* The answer: 206 appends to the partial file that is still there, 200
\* starts it again (making the directory if need be).
OpenPartial(w) ==
    /\ pc[w] = "open"
    /\ ~dl[w].cancelled
    /\ \/ /\ dl[w].old \in 1..(FileSize - 1)
          /\ disk.partial = dl[w].old
          /\ dl' = [dl EXCEPT ![w].size = dl[w].old, ![w].old = 0]
          /\ OpenSink(FileSize - dl[w].old)
          /\ UNCHANGED disk
       \/ /\ disk' = [disk EXCEPT !.dir = TRUE, !.partial = 0]
          /\ dl' = [dl EXCEPT ![w].size = 0]
          /\ OpenSink(FileSize)
    /\ Goto(w, "recv")
    /\ UNCHANGED <<asked, task, running, cancelFn, json, cloud, save, held, dirty, faults,
                   ghost>>

\* 416: the partial file was complete (a crash before the rename); it is
\* renamed without a sink.
FinalizePartial(w) ==
    /\ pc[w] = "open"
    /\ ~dl[w].cancelled
    /\ dl[w].old = FileSize /\ disk.partial = FileSize
    /\ disk' = [disk EXCEPT !.dest = FileSize, !.partial = 0]
    /\ dl' = [dl EXCEPT ![w] = Closed(w, FALSE)]
    /\ Goto(w, "check")
    /\ UNCHANGED <<asked, task, acct, running, cancelFn, json, books, save, held, dirty,
                   faults, ghost>>

\* A block: it is booked (CommitUp), then written to the open file.
WriteBlock(w) ==
    /\ pc[w] = "recv"
    /\ dl[w].size < FileSize
    /\ acct' = [acct EXCEPT !.com = @ + 1, !.res = IF @ > 0 THEN @ - 1 ELSE 0]
    /\ usage' = IF acct.res > 0 THEN usage ELSE usage + 1
    /\ dl' = [dl EXCEPT ![w].size = @ + 1]
    /\ disk' = IF dl[w].lost THEN disk ELSE [disk EXCEPT !.partial = dl[w].size + 1]
    /\ dirty' = TRUE
    /\ UNCHANGED <<asked, task, running, cancelFn, json, cloud, pc, save, held, faults,
                   ghost>>

\* What an attempt that fails before it has a sink leaves: the files as they
\* were; no partial file, which did not match the answer and went before the
\* second request; or an empty one, made before there was no quota.
Discards(w) ==
    \/ UNCHANGED disk
    \/ dl[w].old > 0 /\ disk' = [disk EXCEPT !.partial = 0]
    \/ ~dl[w].cancelled /\ disk' = [disk EXCEPT !.dir = TRUE, !.partial = 0]

\* The attempt fails: the request is refused, cancelled or cut, or there is
\* no quota; Finish(false) gives back the reserve of an open sink.
AttemptFails(w) ==
    /\ pc[w] \in {"open", "recv"}
    /\ dl' = [dl EXCEPT ![w] = Closed(w, TRUE)]
    /\ IF pc[w] = "recv"
       THEN Settle(0) /\ UNCHANGED disk
       ELSE Discards(w) /\ UNCHANGED <<acct, usage>>
    /\ Goto(w, "ended")
    /\ UNCHANGED <<asked, task, running, cancelFn, json, cloud, save, held, dirty,
                   faults, ghost>>

\* The whole file is there: the old file is removed and the partial file
\* renamed; Finish(true, discarded), or Finish(false) if the name is gone.
LandFile(w) ==
    /\ pc[w] = "recv"
    /\ dl[w].size = FileSize
    /\ IF dl[w].lost
       THEN /\ disk' = [disk EXCEPT !.dest = 0]
            /\ dl' = [dl EXCEPT ![w] = Closed(w, TRUE)]
            /\ Settle(0)
            /\ Goto(w, "ended")
       ELSE /\ disk' = [disk EXCEPT !.dest = FileSize, !.partial = 0]
            /\ dl' = [dl EXCEPT ![w] = Closed(w, FALSE)]
            /\ Settle(dl[w].old)
            /\ Goto(w, "check")
    /\ UNCHANGED <<asked, task, running, cancelFn, json, cloud, save, held, dirty, faults,
                   ghost>>

\* After a failed attempt: a cancelled context stops the loop, a retryable
\* error goes round again, any other error (or the last attempt) stops it.
Retry(w) ==
    /\ pc[w] = "ended"
    /\ \/ ~dl[w].cancelled /\ dl[w].tries < MaxAttempts /\ Goto(w, "loop")
       \/ Goto(w, "done")
    /\ UNCHANGED <<asked, task, acct, running, cancelFn, json, disk, books, save, dl,
                   held, dirty, faults, ghost>>

\* The integrity check passes, lets a damaged file through, or blocks it.
CheckDone(w) ==
    /\ pc[w] = "check"
    /\ \E verdict \in {"pass", "damaged", "block"} :
          /\ task' = IF verdict = "damaged" THEN [task EXCEPT !.damaged = TRUE] ELSE task
          /\ dl' = [dl EXCEPT ![w].err = (verdict = "block")]
    /\ Goto(w, "done")
    /\ UNCHANGED <<asked, acct, running, cancelFn, json, disk, books, save, held, dirty,
                   faults, ghost>>

\* The check asks for another download: the bytes are given back to both
\* ledgers, one after the other, and the file stays.  Nobody but the goroutine
\* with the mark books in either meanwhile (releaseIntegrityRetryBytes).
CheckRetry(w) ==
    /\ pc[w] = "check"
    /\ ~dl[w].cancelled /\ dl[w].tries < MaxAttempts
    /\ LET n == Least(task.reserved, disk.dest)
           k == IF acct.open THEN Least(disk.dest, acct.com) ELSE 0 IN
       /\ task' = [task EXCEPT !.reserved = @ - n]
       /\ cloud' = cloud - n
       /\ usage' = usage - k
       /\ acct' = [acct EXCEPT !.com = @ - k]
    /\ Goto(w, "loop")
    /\ UNCHANGED <<asked, running, cancelFn, json, disk, save, dl, held, dirty, faults,
                   ghost>>

\* The block is booked but the disk refuses it.
WriteFails(w) ==
    /\ pc[w] = "recv"
    /\ dl[w].size < FileSize
    /\ Fault
    /\ acct' = [acct EXCEPT !.com = @ + 1, !.res = 0]
    /\ usage' = usage - acct.res + 1
    /\ dl' = [dl EXCEPT ![w] = Closed(w, TRUE)]
    /\ Goto(w, "ended")
    /\ UNCHANGED <<asked, task, running, cancelFn, json, disk, cloud, save, held, dirty,
                   ghost>>

\* The retry loop is over, and with it its counter.  handleDownloadDone: a
\* deleted task is swept up, a success goes on, a cancelled one is swept up,
\* any other error fails the task.
DownloadDone(w) ==
    /\ pc[w] = "done"
    /\ \/ ~task.in /\ Goto(w, "rm")
       \/ task.in /\ ~dl[w].err /\ Goto(w, "mark")
       \/ task.in /\ dl[w].err /\ dl[w].cancelled /\ Goto(w, "rm")
       \/ task.in /\ dl[w].err /\ ~dl[w].cancelled /\ ~dl[w].gone /\ Goto(w, "fail")
    /\ dl' = [dl EXCEPT ![w].tries = 0]
    /\ UNCHANGED <<asked, task, acct, running, cancelFn, json, disk, books, save,
                   held, dirty, faults, ghost>>

\* The client hung up: a new goroutine takes over the running mark, and the
\* cancel function stays that of the old one until it has registered.
HandOff(w) ==
    /\ pc[w] = "done"
    /\ task.in /\ dl[w].err /\ ~dl[w].cancelled /\ dl[w].gone
    /\ running' = TRUE
    /\ \E v \in Ready :
          /\ pc' = [pc EXCEPT ![w] = "over", ![v] = "start"]
          /\ dl' = [dl EXCEPT ![w] = NoSession, ![v] = NoSession]
    /\ UNCHANGED <<asked, task, acct, cancelFn, json, disk, books, save, held, dirty,
                   faults, ghost>>

\* The goroutine of a deleted or cancelled task removes the files.
RemoveAbandoned(w) ==
    /\ pc[w] = "rm"
    /\ TryRemoveDir(TRUE, TRUE)
    /\ Goto(w, "exit")
    /\ UNCHANGED <<asked, task, acct, running, cancelFn, json, books, save, held, dirty,
                   ghost>>

\* markDownloadArtifactDone: the file is on disk, which a restart may use.
\* (A goroutine that markDownloading refused has no result to mark, and does
\* not come here: its context is cancelled or its task out of the table.)
MarkArtifact(w) ==
    /\ pc[w] = "mark"
    /\ IF disk.dest > 0
       THEN /\ task' = [task EXCEPT !.done = TRUE]
            /\ SaveThen(w, "final")
       ELSE /\ Goto(w, "final")
            /\ UNCHANGED <<task, save>>
    /\ UNCHANGED <<asked, acct, running, cancelFn, json, disk, books, dl, held, dirty,
                   faults, ghost>>

\* Mutant: a task that has ended fails again.
FailTask_Twice(w) ==
    LET actual == DiskUsage(disk) IN
    /\ pc[w] = "fail"
    /\ cloud' = cloud - task.reserved + actual
    /\ IF acct.open THEN Settle(0) ELSE AdjustTo(actual)
    /\ task' = [task EXCEPT !.status = "failed", !.reserved = actual,
                            !.damaged = FALSE]
    /\ SaveThen(w, "clean")
    /\ UNCHANGED <<asked, running, cancelFn, json, disk, dl, held, dirty, faults, ghost>>

\* Mutant: the scope is released although the partial file stays.
FailTask_GivesBack(w) ==
    LET actual == DiskUsage(disk) IN
    /\ pc[w] = "fail"
    /\ task.status \notin Terminal
    /\ cloud' = cloud - task.reserved + actual
    /\ ReleaseScope
    /\ task' = [task EXCEPT !.status = "failed", !.reserved = actual,
                            !.damaged = FALSE]
    /\ SaveThen(w, "clean")
    /\ UNCHANGED <<asked, running, cancelFn, json, disk, dl, held, dirty, faults, ghost>>

\* failTask on a task that is not ended: the global ledger is brought to what
\* is on disk, the reserve of the account is given back, the files stay.
FailTask(w) ==
    LET actual == DiskUsage(disk) IN
    /\ pc[w] = "fail"
    /\ task.status \notin Terminal
    /\ cloud' = cloud - task.reserved + actual
    /\ IF acct.open THEN Settle(0) ELSE AdjustTo(actual)
    /\ task' = [task EXCEPT !.status = "failed", !.reserved = actual,
                            !.damaged = FALSE]
    /\ SaveThen(w, "clean")
    /\ UNCHANGED <<asked, running, cancelFn, json, disk, dl, held, dirty, faults, ghost>>

\* failTaskOnStorageFull: more is on disk than the ledger has room for, and
\* the files go; what they held is given back only if they went.
FailTaskStorageFull(w) ==
    /\ pc[w] = "fail"
    /\ task.status \notin Terminal
    /\ DiskUsage(disk) > task.reserved
    /\ TryRemoveDir(
          /\ cloud' = cloud - task.reserved
          /\ ReleaseScope
          /\ task' = [task EXCEPT !.status = "failed", !.reserved = 0],
          /\ task' = [task EXCEPT !.status = "failed"]
          /\ UNCHANGED <<books, acct>>)
    /\ SaveThen(w, "exit")
    /\ UNCHANGED <<asked, running, cancelFn, json, held, dirty, ghost>>

\* failTask leaves a task that has ended alone.
FailTaskEnded(w) ==
    /\ pc[w] = "fail"
    /\ task.status \in Terminal
    /\ Goto(w, "exit")
    /\ UNCHANGED <<asked, task, acct, running, cancelFn, json, disk, books, save, dl,
                   held, dirty, faults, ghost>>

\* cleanupTaskDirOnFail: a directory without a partial file goes (an empty
\* partial file, which has size 0 here as well, keeps it).
CleanOnFail(w) ==
    /\ pc[w] = "clean"
    /\ \/ disk.partial = 0 /\ RemoveDir
       \/ UNCHANGED <<disk, dl>>
    /\ Goto(w, "exit")
    /\ UNCHANGED <<asked, task, acct, running, cancelFn, json, books, save, held, dirty,
                   faults, ghost>>

\* Mutant: the status is not looked at again.
Finalize_NoRecheck(w) ==
    /\ pc[w] = "final"
    /\ task.in
    /\ cloud' = cloud - task.reserved + FileSize
    /\ AdjustTo(FileSize)
    /\ task' = [task EXCEPT !.status = "completed", !.reserved = FileSize]
    /\ SaveThen(w, "exit")
    /\ UNCHANGED <<asked, running, cancelFn, json, disk, dl, held, dirty, faults, ghost>>

\* finalizeCompleted: under one lock the task is looked up again, the global
\* ledger is brought to the size of the file and the status published.
Finalize(w) ==
    /\ pc[w] = "final"
    /\ task.in /\ task.status # "cancelled"
    /\ cloud' = cloud - task.reserved + FileSize
    /\ AdjustTo(FileSize)
    /\ task' = [task EXCEPT !.status = "completed", !.reserved = FileSize]
    /\ SaveThen(w, "exit")
    /\ UNCHANGED <<asked, running, cancelFn, json, disk, dl, held, dirty, faults, ghost>>

\* completeStorageFull: no room for the size of the file, which goes; what it
\* held is given back only if it went.
FinalizeStorageFull(w) ==
    /\ pc[w] = "final"
    /\ task.in /\ task.status # "cancelled"
    /\ FileSize > task.reserved
    /\ \/ /\ disk' = [disk EXCEPT !.dest = 0]
          /\ ReleaseScope
          /\ cloud' = cloud - task.reserved
          /\ task' = [task EXCEPT !.status = "failed", !.reserved = 0]
          /\ UNCHANGED faults
       \/ /\ Fault
          /\ task' = [task EXCEPT !.status = "failed"]
          /\ UNCHANGED <<disk, books, acct>>
    /\ SaveThen(w, "exit")
    /\ UNCHANGED <<asked, running, cancelFn, json, dl, held, dirty, ghost>>

\* A task deleted or cancelled meanwhile is not completed.
FinalizeAbandoned(w) ==
    /\ pc[w] = "final"
    /\ ~task.in \/ task.status = "cancelled"
    /\ Goto(w, "rm")
    /\ UNCHANGED <<asked, task, acct, running, cancelFn, json, disk, books, save, dl,
                   held, dirty, faults, ghost>>

\* signalStoppedLocked: whoever waits for the goroutine wakes up.
Woken(r) == [res[r] EXCEPT !.woken = pc[r] = "wait"]
SignalStopped == res' = [r \in Resumer |-> Woken(r)]

\* Mutant: the scope of an abandoned task is left to the request that ended it.
Exit_KeepsScope(w) ==
    /\ pc[w] = "exit"
    /\ running' = FALSE
    /\ cancelFn' = NoWorker
    /\ IF ~task.in \/ task.status = "cancelled"
       THEN UNCHANGED <<acct, usage>> /\ task' = [task EXCEPT !.reserved = 0]
       ELSE UNCHANGED <<acct, usage, task>>
    /\ SignalStopped
    /\ pc' = [pc EXCEPT ![w] = "over"]
    /\ dl' = [dl EXCEPT ![w] = NoSession]
    /\ UNCHANGED <<asked, json, disk, cloud, save, del, item, dirty, faults, ghost>>

\* cleanupRunning: the marks are cleared, what an abandoned task holds of the
\* scope is given back, and the waiters are woken, in one section.
Exit(w) ==
    /\ pc[w] = "exit"
    /\ running' = FALSE
    /\ cancelFn' = NoWorker
    /\ IF ~task.in \/ task.status = "cancelled"
       THEN ReleaseScope /\ task' = [task EXCEPT !.reserved = 0]
       ELSE UNCHANGED <<acct, usage, task>>
    /\ SignalStopped
    /\ pc' = [pc EXCEPT ![w] = "over"]
    /\ dl' = [dl EXCEPT ![w] = NoSession]
    /\ UNCHANGED <<asked, json, disk, cloud, save, del, item, dirty, faults, ghost>>

-----------------------------------------------------------------------------
(* CancelTask and DeleteTask.                                               *)

CallCancelFn ==
    /\ dl' = [w \in Worker |->
                 IF w = cancelFn THEN [dl[w] EXCEPT !.cancelled = TRUE] ELSE dl[w]]
    /\ cancelFn' = NoWorker

\* Mutant: the released reservation stays on the task.
CancelTask_KeepsReserved ==
    /\ Arrives("cancel")
    /\ task.in /\ task.status \in {"pending", "downloading"}
    /\ Meets({"sweep"})
    /\ cloud' = cloud - task.reserved
    /\ task' = [task EXCEPT !.status = "cancelled"]
    /\ IF running THEN UNCHANGED <<acct, usage>> ELSE ReleaseScope
    /\ CallCancelFn
    /\ Goto("cancel", "rm")
    /\ UNCHANGED <<running, json, disk, save, held, dirty, faults, kept>>

\* The status is published and the global ledger released at once; what the
\* scope holds is released here only if no goroutine can add to it.
CancelTask ==
    /\ Arrives("cancel")
    /\ task.in /\ task.status \in {"pending", "downloading"}
    /\ Meets({"sweep"})
    /\ cloud' = cloud - task.reserved
    /\ task' = [task EXCEPT !.status = "cancelled", !.reserved = 0]
    /\ IF running THEN UNCHANGED <<acct, usage>> ELSE ReleaseScope
    /\ CallCancelFn
    /\ Goto("cancel", "rm")
    /\ UNCHANGED <<running, json, disk, save, held, dirty, faults, kept>>

CancelRemove ==
    /\ pc["cancel"] = "rm"
    /\ TryRemoveDir(TRUE, TRUE)
    /\ SaveThen("cancel", "idle")
    /\ UNCHANGED <<asked, task, acct, running, cancelFn, json, books, held, dirty, ghost>>

\* The task leaves the table; what it held is captured, to be given back once
\* its files are gone.
DeleteTask ==
    /\ Arrives("delete")
    /\ task.in
    /\ Meets({"sweep"})
    /\ del' = [res |-> task.reserved, run |-> running]
    /\ task' = [task EXCEPT !.in = FALSE, !.status = "cancelled", !.reserved = 0]
    /\ CallCancelFn
    /\ Goto("delete", "rm")
    /\ UNCHANGED <<acct, running, json, disk, books, save, res, item, dirty,
                   faults, kept>>

DeleteFiles ==
    /\ pc["delete"] = "rm"
    /\ TryRemoveDir(TRUE, TRUE)
    /\ Goto("delete", "json")
    /\ UNCHANGED <<asked, task, acct, running, cancelFn, json, books, save, held, dirty,
                   ghost>>

DeleteRecord ==
    /\ pc["delete"] = "json"
    /\ json' = NoRecord
    /\ Goto("delete", "release")
    /\ UNCHANGED <<asked, task, acct, running, cancelFn, disk, books, save, dl, held,
                   dirty, faults, ghost>>

\* If the directory is still there (or there again) everything stays booked.
DeleteRelease ==
    /\ pc["delete"] = "release"
    /\ IF disk.dir
       THEN /\ kept' = TRUE
            /\ UNCHANGED <<task, acct, books>>
       ELSE /\ cloud' = cloud - del.res
            /\ IF del.run
               THEN UNCHANGED <<task, acct, usage>>
               ELSE ReleaseScope /\ task' = [task EXCEPT !.reserved = 0]
            /\ UNCHANGED kept
    /\ del' = NoDelete
    /\ Goto("delete", "idle")
    /\ UNCHANGED <<asked, running, cancelFn, json, disk, save, dl, res, item, dirty,
                   faults, overlap>>

-----------------------------------------------------------------------------
(* ResumeTask.                                                              *)

Resumable ==
    /\ task.in
    /\ \/ task.status \in {"failed", "cancelled"}
       \/ task.status = "completed" /\ task.damaged

ResumeLookup(r) ==
    /\ Arrives(r)
    /\ Resumable
    /\ Ready # {}
    /\ Goto(r, "wait")
    /\ res' = [res EXCEPT ![r] = NoResume]
    /\ UNCHANGED <<task, acct, running, cancelFn, json, disk, books, save, dl, del,
                   item, dirty, faults, ghost>>

\* waitTaskStopped returns when nothing runs or the goroutine signals; if
\* its time is up first, the request is refused.
ResumeWait(r) ==
    /\ pc[r] = "wait"
    /\ IF ~running \/ res[r].woken THEN Goto(r, "claim") ELSE Goto(r, "idle")
    /\ res' = [res EXCEPT ![r] = NoResume]
    /\ UNCHANGED <<asked, task, acct, running, cancelFn, json, disk, books, save, dl, del,
                   item, dirty, faults, ghost>>

\* The task as the second section of ResumeTask leaves it.
Claimed == [task EXCEPT !.status = "pending", !.damaged = FALSE, !.done = FALSE]

\* Mutant: the second section does not ask whether the task runs.
ResumeClaim_NoRecheck(r) ==
    /\ pc[r] = "claim"
    /\ Resumable
    /\ Meets({"cancel", "sweep"})
    /\ running' = TRUE
    /\ LET n == IF task.reserved = 0 THEN Placeholder ELSE 0 IN
       /\ task' = [Claimed EXCEPT !.reserved = @ + n]
       /\ cloud' = cloud + n
       /\ res' = [res EXCEPT ![r].prev = Snapshot(task), ![r].res = n]
    /\ Goto(r, "window")
    /\ UNCHANGED <<asked, acct, cancelFn, json, disk, usage, save, dl, del, item, dirty,
                   faults, kept>>

\* The second lookup: the task is made pending and running in one section
\* with the check that nobody runs it, and gets a placeholder if it has none.
ResumeClaim(r) ==
    /\ pc[r] = "claim"
    /\ Resumable /\ ~running
    /\ Meets({"cancel", "sweep"})
    /\ running' = TRUE
    /\ LET n == IF task.reserved = 0 THEN Placeholder ELSE 0 IN
       /\ task' = [Claimed EXCEPT !.reserved = @ + n]
       /\ cloud' = cloud + n
       /\ res' = [res EXCEPT ![r].prev = Snapshot(task), ![r].res = n]
    /\ Goto(r, "window")
    /\ UNCHANGED <<asked, acct, cancelFn, json, disk, usage, save, dl, del, item, dirty,
                   faults, kept>>

ResumeRefused(r) ==
    /\ pc[r] = "claim"
    /\ ~Resumable \/ running
    /\ Goto(r, "idle")
    /\ UNCHANGED <<asked, task, acct, running, cancelFn, json, disk, books, save, dl, held,
                   dirty, faults, ghost>>

\* rollbackResumeLocked, for a resume of task t that had reserved n units: the
\* placeholder and the status (if still pending) are restored, the mark is
\* cleared, and what a concurrent cancel or delete left to a goroutine that
\* will not exist is given back.
Rollback(r, t, prev, n) ==
    LET k == IF t.in /\ t.reserved >= n THEN n ELSE 0
        u == IF t.in /\ t.status = "pending"
             THEN [t EXCEPT !.status = prev, !.reserved = @ - k]
             ELSE [t EXCEPT !.reserved = @ - k]
    IN  /\ cloud' = cloud - k
        /\ running' = FALSE
        /\ IF ~u.in \/ u.status = "cancelled"
           THEN ReleaseScope /\ task' = [u EXCEPT !.reserved = 0]
           ELSE task' = u /\ UNCHANGED <<acct, usage>>
        /\ Goto(r, "idle")

\* No room for the placeholder: the resume is rolled back at once.
ResumeStorageFull(r) ==
    /\ pc[r] = "claim"
    /\ Resumable /\ ~running
    /\ task.reserved = 0
    /\ SignalStopped
    /\ Rollback(r, Claimed, task.status, 0)
    /\ UNCHANGED <<asked, cancelFn, json, disk, save, dl, del, item, dirty, faults, ghost>>

\* The tenant has gone: the resume is rolled back after its window.
ResumeTenantGone(r) ==
    /\ pc[r] = "window"
    /\ res' = [s \in Resumer |-> IF s = r THEN NoResume ELSE Woken(s)]
    /\ Rollback(r, task, res[r].prev.status, res[r].res)
    /\ UNCHANGED <<asked, cancelFn, json, disk, save, dl, del, item, dirty, faults, ghost>>

ResumeKeep(r) ==
    /\ pc[r] = "window"
    /\ SaveThen(r, "launch")
    /\ res' = [res EXCEPT ![r] = NoResume]
    /\ UNCHANGED <<asked, task, acct, running, cancelFn, json, disk, books, dl, del, item,
                   dirty, faults, ghost>>

\* The files that removeDiscardedTaskFiles leaves: none, or those that
\* cannot be removed.
Discarded(d) ==
    /\ disk' = d
    /\ \/ d.partial = 0 /\ d.dest = 0 /\ UNCHANGED faults
       \/ d # [disk EXCEPT !.partial = 0, !.dest = 0] /\ Fault

\* force: the files are discarded and the bytes that went are given back.
\* Only the owner of the mark touches the account, so the release under the
\* lock belongs to the removal before it.
ResumeForce(r) ==
    /\ pc[r] = "window"
    /\ \E p \in {0, disk.partial}, d \in {0, disk.dest} :
          Discarded([disk EXCEPT !.partial = p, !.dest = d])
    /\ LET n == DiskUsage(disk) - DiskUsage(disk')
           k == IF acct.open THEN Least(n, acct.com) ELSE 0 IN
       /\ usage' = usage - k
       /\ acct' = [acct EXCEPT !.com = @ - k]
    /\ SaveThen(r, "launch")
    /\ res' = [res EXCEPT ![r] = NoResume]
    /\ UNCHANGED <<asked, task, running, cancelFn, json, cloud, dl, del, item, dirty,
                   ghost>>

ResumeLaunch(r) ==
    /\ pc[r] = "launch"
    /\ \E w \in Ready : /\ pc' = [pc EXCEPT ![r] = "idle", ![w] = "start"]
                        /\ Launch(w, FALSE)
    /\ UNCHANGED <<asked, task, acct, running, cancelFn, json, disk, books, save, held,
                   dirty, faults, ghost>>

-----------------------------------------------------------------------------
(* The sweep of expired tasks, cleanupExpiredOnce.                          *)

\* The time to live of the task has passed (a pending one is not swept before
\* its creation is over).  It stays in the table; what it holds is noted.
SweepCollect ==
    /\ Arrives("sweep")
    /\ task.in
    /\ \/ task.status \in Terminal
       \/ task.status = "pending" /\ ~running /\ pc["create"] = "over"
    /\ Overlaps(running \/ pc["cancel"] = "rm")
    /\ item' = [res |-> task.reserved, com |-> IF acct.open THEN acct.com ELSE 0]
    /\ Goto("sweep", "json")
    /\ UNCHANGED <<task, acct, running, cancelFn, json, disk, books, save, dl, del,
                   res, dirty, faults, kept>>

SweepRecord ==
    /\ pc["sweep"] = "json"
    /\ json' = NoRecord
    /\ Goto("sweep", "rm")
    /\ UNCHANGED <<asked, task, acct, running, cancelFn, disk, books, save, dl, held,
                   dirty, faults, ghost>>

\* A directory that cannot be removed keeps its task, in the table again.
SweepRemove ==
    /\ pc["sweep"] = "rm"
    /\ TryRemoveDir(Goto("sweep", "drop") /\ UNCHANGED <<task, item>>,
                    /\ Goto("sweep", "idle")
                    /\ task' = [task EXCEPT !.in = TRUE]
                    /\ item' = NoItem)
    /\ UNCHANGED <<asked, acct, running, cancelFn, json, books, save, del, res, dirty,
                   ghost>>

\* The task leaves the table and what was noted of it is released.
SweepDrop ==
    /\ pc["sweep"] = "drop"
    /\ task' = [task EXCEPT !.in = FALSE, !.reserved = 0]
    /\ cloud' = cloud - item.res
    /\ usage' = usage - item.com
    /\ item' = NoItem
    /\ Goto("sweep", "idle")
    /\ UNCHANGED <<asked, acct, running, cancelFn, json, disk, save, dl, del, res, dirty,
                   faults, ghost>>

-----------------------------------------------------------------------------
(* A crash and the recovery that follows it.                                *)

\* Both ledgers are scanned from disk; a task that was downloading, or was
\* submitted and still waiting, starts again, one never submitted has failed.
CrashRestart ==
    /\ Fault
    /\ LET t == json
           restart == t.status = "downloading" \/ (t.status = "pending" /\ t.submitted)
           orphan == t.status = "pending" /\ ~t.submitted
           s == IF orphan THEN "failed" ELSE t.status
       IN  /\ task' = [in |-> t # NoRecord,
                       status |-> IF t = NoRecord THEN "cancelled" ELSE s,
                       submitted |-> t.submitted, done |-> t.done,
                       damaged |-> t.damaged,
                       reserved |-> IF t = NoRecord THEN 0 ELSE DiskUsage(disk)]
           /\ json' = IF orphan THEN [t EXCEPT !.status = "failed"] ELSE t
           /\ running' = restart
           /\ \E w \in Ready :
                 /\ pc' = [a \in Actor |->
                             IF a \in Worker
                             THEN IF restart /\ a = w THEN "start"
                                  ELSE IF pc[a] = "unused" THEN "unused" ELSE "over"
                             ELSE IF a = "create" THEN "over" ELSE "idle"]
    /\ cloud' = DiskUsage(disk)
    /\ usage' = DiskUsage(disk)
    /\ acct' = [open |-> FALSE, com |-> 0, res |-> 0]
    /\ cancelFn' = NoWorker
    /\ save' = [a \in Actor |-> NoSave]
    /\ dl' = [w \in Worker |-> NoSession]
    /\ del' = NoDelete
    /\ res' = [r \in Resumer |-> NoResume]
    /\ item' = NoItem
    /\ dirty' = FALSE
    /\ UNCHANGED <<asked, disk, ghost>>

-----------------------------------------------------------------------------
Step(w) ==
    \/ Register(w) \/ Guard(w) \/ MakeDir(w) \/ TryAttempt(w) \/ SendGet(w)
    \/ OpenPartial(w) \/ FinalizePartial(w) \/ WriteBlock(w) \/ WriteFails(w)
    \/ AttemptFails(w) \/ LandFile(w) \/ Retry(w) \/ CheckDone(w) \/ CheckRetry(w)
    \/ DownloadDone(w) \/ HandOff(w) \/ RemoveAbandoned(w) \/ MarkArtifact(w)
    \/ FailTask(w) \/ FailTaskStorageFull(w) \/ FailTaskEnded(w) \/ CleanOnFail(w)
    \/ Finalize(w) \/ FinalizeStorageFull(w) \/ FinalizeAbandoned(w) \/ Exit(w)

Resume(r) ==
    \/ ResumeLookup(r) \/ ResumeWait(r) \/ ResumeClaim(r) \/ ResumeRefused(r)
    \/ ResumeStorageFull(r) \/ ResumeTenantGone(r) \/ ResumeKeep(r)
    \/ ResumeForce(r) \/ ResumeLaunch(r)

Next ==
    \/ CreateTask \/ Submit \/ SubmitLaunch
    \/ \E w \in Worker : Step(w) \/ ClientGone(w)
    \/ \E a \in Actor : SaveSnapshot(a) \/ SaveWrite(a)
    \/ \E r \in Resumer : Resume(r)
    \/ FlushDirty
    \/ CancelTask \/ CancelRemove
    \/ DeleteTask \/ DeleteFiles \/ DeleteRecord \/ DeleteRelease
    \/ SweepCollect \/ SweepRecord \/ SweepRemove \/ SweepDrop
    \/ CrashRestart

Spec == Init /\ [][Next]_vars

-----------------------------------------------------------------------------
\* Who owns the running mark: the goroutine at work, or the submission or
\* the resume that has marked the task and has yet to start its goroutine.
Launching(a) ==
    \/ pc[a] \in {"window", "launch"}
    \/ pc[a] \in {"save", "write"} /\ save[a].next = "launch"
Holders == Live \cup {a \in {"create"} \cup Resumer : Launching(a)}

\* The running mark is a lock: at most one goroutine works on the files of
\* the task or is about to be started, it has the mark, and the mark is never
\* left with nobody to clear it, whatever the start, resume, rollback,
\* hand-off or restart.
OneWriter ==
    /\ \A a, b \in Holders : a = b
    /\ running <=> Holders # {}

\* A file on disk is booked in the scope of the tenant: the ledger is never
\* below the partial file, nor below the file of a completed task.
ScopeCoversDisk ==
    ~overlap /\ faults = 0 /\ pc["cancel"] # "rm" /\ pc["delete"] # "rm" =>
        /\ usage >= disk.partial
        /\ task.in /\ task.status = "completed" => usage >= DiskUsage(disk)

\* What someone can still give back of the two ledgers: the account of a task
\* that is in the table or at work, the reservation of the task, what
\* DeleteTask captured.
Claims == [usage |-> IF task.in \/ running \/ ~Idle("delete")
                     THEN acct.com + acct.res ELSE 0,
           cloud |-> task.reserved + del.res]

\* Both ledgers still hold what can be given back for the task; otherwise the
\* next release takes space that belongs to someone else (the comments of
\* DeleteTask and of cleanupExpiredCloudItem: no second release).
ReleasedOnce == usage >= Claims.usage /\ cloud >= Claims.cloud

\* Neither ledger gives back more than was booked for the task, whatever the
\* order of cancel, delete, resume, rollback, failure and restart, as long as
\* no removal or sweep works on a state that a later request has replaced.
NoDoubleRelease == ~overlap => ReleasedOnce

\* Once all is quiet, a task that was cancelled or removed has no files and
\* holds nothing of the scope; it holds nothing of the global ledger either,
\* unless DeleteTask found its directory made again by the goroutine and kept
\* the reservation (kept), which nobody gives back before a restart.
AbandonedIsFree ==
    /\ \A a \in Request : pc[a] \in {"idle", "over"}
    /\ Live = {} /\ ~overlap /\ faults = 0
    /\ ~task.in \/ task.status = "cancelled"
    => usage = 0 /\ (cloud = 0 \/ kept) /\ DiskUsage(disk) = 0

\* A completed task has its file.
CompletedHasFile ==
    ~overlap /\ faults = 0 /\ task.in /\ task.status = "completed"
        /\ pc["sweep"] # "drop" => disk.dest = FileSize

\* The manager starts again: every request and goroutine is gone, but for the
\* ones the recovery starts.
Restarts ==
    /\ faults' # faults
    /\ \A a \in Actor : pc'[a] \in {"unused", "start", "over", "idle"}

\* An ended task changes its status only in the step in which ResumeTask
\* claims it, in the one in which DeleteTask takes it out of the table (as
\* cancelled), or in a restart: never by its goroutine, by a result or a
\* failure that comes late, by a cancel, by the sweep or by a rollback.
TerminalKept ==
    [][(task.status \in Terminal /\ task'.status # task.status) =>
          \/ \E r \in Resumer : pc[r] = "claim" /\ pc'[r] = "window"
          \/ pc["delete"] = "idle" /\ pc'["delete"] = "rm"
          \/ Restarts]_vars
=============================================================================

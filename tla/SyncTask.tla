------------------------------ MODULE SyncTask ------------------------------
(***************************************************************************)
(* The task life cycle of pkg/syncmgr: pull tasks submitted for one and    *)
(* the same source and destination (so CreateTask has to deduplicate       *)
(* them), the goroutine of each, the semaphore they share with the other   *)
(* tasks of the manager, retries with back-off, cancellation, deletion,    *)
(* the sweep of expired tasks, the quota a task holds and the JSON record  *)
(* from which a restart continues.                                         *)
(*                                                                         *)
(* Every section of code under m.mu is one step.  saveTask is two: the     *)
(* snapshot under the read lock and the write of the file without a lock.  *)
(* Executor.Run is the stay at "run"; the step that leaves it is its       *)
(* result.  What other tasks do to the quota shows as a TryReserve that    *)
(* may fail.                                                               *)
(***************************************************************************)
EXTENDS Integers, FiniteSets

CONSTANTS
    Task,          \* task IDs, each used once
    Request,       \* the requests (and sweeps) that can be in progress together
    NoTask,        \* the task of a request that is not in progress
    MaxConcurrent, \* capacity of m.semaphore
    MaxOther,      \* bound on the slots other tasks hold
    MaxRetries,    \* config.MaxRetries
    Placeholder,   \* syncReservePlaceholder
    BytesDone,     \* the sizes a completed run may report
    MaxRequests,   \* bound on the requests of a run
    MaxFaults      \* bound on failed writes and crashes

ASSUME TaskAssumption == Task \cap Request = {} /\ NoTask \notin Task
ASSUME CapacityAssumption == MaxConcurrent \in Nat \ {0} /\ MaxOther \in Nat
ASSUME RetriesAssumption == MaxRetries \in Nat
ASSUME QuotaAssumption == Placeholder \in Nat \ {0} /\ BytesDone \subseteq Nat
ASSUME BoundAssumption == MaxRequests \in Nat /\ MaxFaults \in Nat

VARIABLES
    perFile, \* config.PerFileReserve: the executor books every file itself
    task,    \* the SyncTask objects; field in: it is in m.tasks
    running, \* m.running
    ctx,     \* the context of a goroutine: not registered, live, cancelled
    holds,   \* the goroutine holds a slot of the semaphore
    other,   \* slots held by other tasks
    json,    \* the persisted records
    booked,  \* what the manager has reserved and not released for a task
    pc,      \* the next step of every goroutine and request
    save,    \* the snapshot a saveTask in progress will write
    after,   \* the step after that saveTask
    req,     \* what a request works on
    asked,   \* requests so far
    faults,  \* failed writes and crashes so far
    spent,   \* history: tasks that failed because their retries were used up
    revived  \* history: tasks a restart took for active although they were not

vars == <<perFile, task, running, ctx, holds, other, json, booked, pc, save,
          after, req, asked, faults, spent, revived>>

slots == <<holds, other>>
ghosts == <<spent, revived>>
bounds == <<asked, faults>>

Actor == Task \cup Request
Active == {"pending", "syncing", "retrying"}
Terminal == {"completed", "failed", "cancelled"}
Status == Active \cup Terminal

\* What json.Marshal keeps; ReservedSize and Restored are not kept.
Snapshot(t) == [status |-> t.status, retries |-> t.retries]
Record == [status : Status, retries : 0..MaxRetries]
NoRecord == [status |-> "none", retries |-> 0]
NoRequest == [task |-> NoTask, owed |-> 0, gone |-> {}]

Fresh == [in |-> FALSE, status |-> "none", retries |-> 0, reserved |-> 0,
          restored |-> FALSE]
Submitted(size) == [in |-> TRUE, status |-> "pending", retries |-> 0,
                    reserved |-> size, restored |-> FALSE]

\* The types of the tasks, of what a request works on, and of pc.
Object == [in : BOOLEAN, status : Status \cup {"none"}, retries : 0..MaxRetries,
           reserved : Nat, restored : BOOLEAN]
Work == [task : Task \cup {NoTask}, owed : Nat, gone : SUBSET Task]
Step == {"none", "begin", "queue", "start", "run", "retry", "backoff", "exit",
         "over", "idle", "save", "write", "launch", "release", "remove"}

TypeOK ==
    /\ perFile \in BOOLEAN
    /\ task \in [Task -> Object]
    /\ running \in [Task -> BOOLEAN]
    /\ ctx \in [Task -> {"none", "live", "done"}]
    /\ holds \in SUBSET Task
    /\ other \in 0..MaxOther
    /\ json \in [Task -> Record \cup {NoRecord}]
    /\ booked \in [Task -> Int]
    /\ pc \in [Actor -> Step]
    /\ save \in [Actor -> Record \cup {NoRecord}]
    /\ after \in [Actor -> {"none", "run", "backoff", "exit", "launch", "idle"}]
    /\ req \in [Request -> Work]
    /\ asked \in 0..MaxRequests
    /\ faults \in 0..MaxFaults
    /\ spent \in SUBSET Task
    /\ revived \in SUBSET Task

Init ==
    /\ perFile \in BOOLEAN
    /\ task = [t \in Task |-> Fresh]
    /\ running = [t \in Task |-> FALSE]
    /\ ctx = [t \in Task |-> "none"]
    /\ holds = {}
    /\ other = 0
    /\ json = [t \in Task |-> NoRecord]
    /\ booked = [t \in Task |-> 0]
    /\ pc = [a \in Actor |-> IF a \in Task THEN "none" ELSE "idle"]
    /\ save = [a \in Actor |-> NoRecord]
    /\ after = [a \in Actor |-> "none"]
    /\ req = [r \in Request |-> NoRequest]
    /\ asked = 0
    /\ faults = 0
    /\ spent = {}
    /\ revived = {}

Goto(a, step) == pc' = [pc EXCEPT ![a] = step]

\* a goes through saveTask and continues at step; SaveOver forgets both.
SaveThen(a, step) ==
    /\ Goto(a, "save")
    /\ after' = [after EXCEPT ![a] = step]

SaveOver(a) ==
    /\ Goto(a, after[a])
    /\ after' = [after EXCEPT ![a] = "none"]
    /\ save' = [save EXCEPT ![a] = NoRecord]
    /\ req' = IF after[a] = "idle" THEN [req EXCEPT ![a] = NoRequest] ELSE req

\* validStatusTransitions, without the transition only RetryRemote uses.
Allowed(from, to) ==
    \/ from = "pending" /\ to \in {"syncing", "cancelled", "failed"}
    \/ from = "syncing" /\ to \in Status \ {"pending"}
    \/ from = "retrying" /\ to \in Status \ {"pending"}
    \/ from = "completed" /\ to = "failed"

-----------------------------------------------------------------------------
\* saveTask

Saved(a) == IF a \in Task THEN a ELSE req[a].task

\* The task is looked up and marshalled under the read lock; a task that is
\* no longer in the table is not written.
SaveSnapshot(a) ==
    /\ pc[a] = "save"
    /\ IF task[Saved(a)].in
       THEN /\ save' = [save EXCEPT ![a] = Snapshot(task[Saved(a)])]
            /\ Goto(a, "write")
            /\ UNCHANGED <<after, req>>
       ELSE SaveOver(a)
    /\ UNCHANGED <<perFile, task, running, ctx, slots, json, booked, bounds,
                   ghosts>>

\* os.WriteFile, outside every lock.
SaveWrite(a) ==
    /\ pc[a] = "write"
    /\ json' = [json EXCEPT ![Saved(a)] = save[a]]
    /\ SaveOver(a)
    /\ UNCHANGED <<perFile, task, running, ctx, slots, booked, bounds, ghosts>>

\* The directory or the file cannot be written; os.WriteFile may have cut the
\* file short by then.  The callers log it and go on.
SaveFails(a) ==
    /\ pc[a] = "write"
    /\ faults < MaxFaults
    /\ faults' = faults + 1
    /\ \E rec \in {json[Saved(a)], NoRecord} :
          json' = [json EXCEPT ![Saved(a)] = rec]
    /\ SaveOver(a)
    /\ UNCHANGED <<perFile, task, running, ctx, slots, booked, asked, ghosts>>

-----------------------------------------------------------------------------
\* The requests

Arrives(r) == pc[r] = "idle" /\ asked < MaxRequests /\ asked' = asked + 1

\* Mutant: the dedup forgets that a retrying task is active.
CreateTask_IgnoresRetrying(r) ==
    /\ Arrives(r)
    /\ \A t \in Task : ~(task[t].in /\ task[t].status \in Active \ {"retrying"})
    /\ \E t \in Task, size \in {0, Placeholder} :
          /\ task[t] = Fresh
          /\ task' = [task EXCEPT ![t] = Submitted(size)]
          /\ booked' = [booked EXCEPT ![t] = size]
          /\ req' = [req EXCEPT ![r].task = t]
    /\ SaveThen(r, "launch")
    /\ UNCHANGED <<perFile, running, ctx, slots, json, save, faults, ghosts>>

\* CreateTask: an active task for the same source and destination is used
\* again; otherwise a new one enters the table, with the placeholder reserved
\* if it fits.
CreateTask(r) ==
    /\ Arrives(r)
    /\ \A t \in Task : ~(task[t].in /\ task[t].status \in Active)
    /\ \E t \in Task, size \in {0, Placeholder} :
          /\ task[t] = Fresh
          /\ task' = [task EXCEPT ![t] = Submitted(size)]
          /\ booked' = [booked EXCEPT ![t] = size]
          /\ req' = [req EXCEPT ![r].task = t]
    /\ SaveThen(r, "launch")
    /\ UNCHANGED <<perFile, running, ctx, slots, json, save, faults, ghosts>>

CreateDuplicate(r) ==
    /\ Arrives(r)
    /\ \E t \in Task :
          /\ task[t].in
          /\ task[t].status \in Active
          /\ req' = [req EXCEPT ![r].task = t]
    /\ Goto(r, "launch")
    /\ UNCHANGED <<perFile, task, running, ctx, slots, json, booked, save, after,
                   faults, ghosts>>

\* The rest of SubmitAndStart: the task is launched if it is still in the
\* table, pending, and nobody has launched it.
SubmitAndStart(r) ==
    /\ pc[r] = "launch"
    /\ LET t == req[r].task
           free == task[t].in /\ task[t].status = "pending" /\ ~running[t]
       IN  /\ running' = [running EXCEPT ![t] = @ \/ free]
           /\ pc' = [a \in Actor |-> IF a = r THEN "idle"
                                     ELSE IF a = t /\ free THEN "begin"
                                     ELSE pc[a]]
    /\ req' = [req EXCEPT ![r] = NoRequest]
    /\ UNCHANGED <<perFile, task, ctx, slots, json, booked, save, after, bounds,
                   ghosts>>

\* cancelFuncs[id] is called and forgotten, if it is registered.
CancelContext(t) ==
    ctx' = [ctx EXCEPT ![t] = IF @ = "live" THEN "done" ELSE @]

CancelTask(r, t) ==
    /\ Arrives(r)
    /\ task[t].in
    /\ task[t].status \in Active
    /\ task' = [task EXCEPT ![t].status = "cancelled", ![t].reserved = 0]
    /\ booked' = [booked EXCEPT ![t] = @ - task[t].reserved]
    /\ CancelContext(t)
    /\ req' = [req EXCEPT ![r].task = t]
    /\ SaveThen(r, "idle")
    /\ UNCHANGED <<perFile, running, slots, json, save, faults, ghosts>>

\* Mutant: the object keeps its reservation.
DeleteTask_NotZeroed(r, t) ==
    /\ Arrives(r)
    /\ task[t].in
    /\ task' = [task EXCEPT ![t].in = FALSE]
    /\ CancelContext(t)
    /\ req' = [req EXCEPT ![r] = [task |-> t, owed |-> task[t].reserved,
                                  gone |-> {t}]]
    /\ Goto(r, "release")
    /\ UNCHANGED <<perFile, running, slots, json, booked, save, after, faults,
                   ghosts>>

\* DeleteTask takes the task out of the table and its reservation out of the
\* object under the lock; the status stays what it was.
DeleteTask(r, t) ==
    /\ Arrives(r)
    /\ task[t].in
    /\ task' = [task EXCEPT ![t].in = FALSE, ![t].reserved = 0]
    /\ CancelContext(t)
    /\ req' = [req EXCEPT ![r] = [task |-> t, owed |-> task[t].reserved,
                                  gone |-> {t}]]
    /\ Goto(r, "release")
    /\ UNCHANGED <<perFile, running, slots, json, booked, save, after, faults,
                   ghosts>>

DeleteRelease(r) ==
    /\ pc[r] = "release"
    /\ booked' = [booked EXCEPT ![req[r].task] = @ - req[r].owed]
    /\ req' = [req EXCEPT ![r].owed = 0]
    /\ Goto(r, "remove")
    /\ UNCHANGED <<perFile, task, running, ctx, slots, json, save, after, bounds,
                   ghosts>>

\* cleanupExpiredOnce takes ended tasks out of the table, and keeps their books.
CleanupExpired(r) ==
    /\ Arrives(r)
    /\ \E gone \in SUBSET {t \in Task : task[t].in /\ task[t].status \in Terminal} :
          /\ gone # {}
          /\ task' = [t \in Task |-> [task[t] EXCEPT !.in = @ /\ t \notin gone]]
          /\ req' = [req EXCEPT ![r].gone = gone]
    /\ Goto(r, "remove")
    /\ UNCHANGED <<perFile, running, ctx, slots, json, booked, save, after,
                   faults, ghosts>>

\* The files of the tasks taken out are removed one by one.
RemoveRecord(r) ==
    /\ pc[r] = "remove"
    /\ \E t \in req[r].gone :
          /\ json' = [json EXCEPT ![t] = NoRecord]
          /\ req' = [req EXCEPT ![r] =
                        IF req[r].gone = {t} THEN NoRequest
                        ELSE [req[r] EXCEPT !.gone = req[r].gone \ {t}]]
          /\ Goto(r, IF req[r].gone = {t} THEN "idle" ELSE "remove")
    /\ UNCHANGED <<perFile, task, running, ctx, slots, booked, save, after,
                   bounds, ghosts>>

-----------------------------------------------------------------------------
\* The goroutine of a task: executeSync

\* It registers its cancel function; a task cancelled before that is left.
Begin(t) ==
    /\ pc[t] = "begin"
    /\ ctx' = [ctx EXCEPT ![t] = "live"]
    /\ running' = [running EXCEPT ![t] = TRUE]
    /\ Goto(t, IF task[t].status = "cancelled" THEN "exit" ELSE "queue")
    /\ UNCHANGED <<perFile, task, slots, json, booked, save, after, req, bounds,
                   ghosts>>

\* syncAcquireSlot: a send on the semaphore, or the end of the context.
SyncAcquireSlot(t) ==
    /\ pc[t] = "queue"
    /\ Cardinality(holds) + other < MaxConcurrent
    /\ holds' = holds \cup {t}
    /\ Goto(t, "start")
    /\ UNCHANGED <<perFile, task, running, ctx, other, json, booked, save, after,
                   req, bounds, ghosts>>

QueueCancelled(t) ==
    /\ pc[t] = "queue"
    /\ ctx[t] = "done"
    /\ Goto(t, "exit")
    /\ UNCHANGED <<perFile, task, running, ctx, slots, json, booked, save, after,
                   req, bounds, ghosts>>

\* The check after the wait and syncMarkStarted.
SyncMarkStarted(t) ==
    /\ pc[t] = "start"
    /\ IF task[t].in /\ Allowed(task[t].status, "syncing")
       THEN /\ task' = [task EXCEPT ![t].status = "syncing"]
            /\ SaveThen(t, "run")
       ELSE /\ Goto(t, "exit")
            /\ UNCHANGED <<task, after>>
    /\ UNCHANGED <<perFile, running, ctx, slots, json, booked, save, req, bounds,
                   ghosts>>

\* applyRunResult leaves a task alone that was deleted, cancelled or ended.
Applies(t, status) ==
    /\ task[t].in
    /\ task[t].status # "cancelled"
    /\ Allowed(task[t].status, status)

\* The task ends with the given status, reservation and change of its books.
Settle(t, status, reserved, change) ==
    /\ task' = [task EXCEPT ![t].status = status, ![t].reserved = reserved]
    /\ booked' = [booked EXCEPT ![t] = @ + change]

\* reconcileQuotaLocked.  A restored task has been booked by the scan of the
\* disk, and files the executor booked itself leave only the placeholder to
\* give back; otherwise the books move from the placeholder to the bytes, and
\* the task fails if they do not fit.
ReconcileQuota(t, bytes) ==
    LET held == task[t].reserved
    IN  \/ /\ task[t].restored
           /\ Settle(t, "completed", bytes, 0)
        \/ /\ ~task[t].restored /\ perFile
           /\ Settle(t, "completed", bytes, -held)
        \/ /\ ~task[t].restored /\ ~perFile
           /\ Settle(t, "completed", bytes, bytes - held)
        \/ /\ ~task[t].restored /\ ~perFile /\ bytes > held
           /\ Settle(t, "failed", 0, -held)

RunCompletes(t) ==
    /\ pc[t] = "run"
    /\ IF Applies(t, "completed")
       THEN \E bytes \in BytesDone : ReconcileQuota(t, bytes)
       ELSE UNCHANGED <<task, booked>>
    /\ SaveThen(t, "exit")
    /\ UNCHANGED <<perFile, running, ctx, slots, json, save, req, bounds, ghosts>>

\* Mutant: the reservation stays with the failed task.
RunFails_KeepsReserved(t) ==
    /\ pc[t] = "run"
    /\ IF Applies(t, "failed")
       THEN Settle(t, "failed", task[t].reserved, 0)
       ELSE UNCHANGED <<task, booked>>
    /\ SaveThen(t, "exit")
    /\ UNCHANGED <<perFile, running, ctx, slots, json, save, req, bounds, ghosts>>

\* A failure that a retry would not cure: applyRunResultStatus gives the
\* reservation back.
RunFails(t) ==
    /\ pc[t] = "run"
    /\ IF Applies(t, "failed")
       THEN Settle(t, "failed", 0, -task[t].reserved)
       ELSE UNCHANGED <<task, booked>>
    /\ SaveThen(t, "exit")
    /\ UNCHANGED <<perFile, running, ctx, slots, json, save, req, bounds, ghosts>>

\* failTask: the remote is no longer configured, there is no executor, it
\* could not be set up, or it panicked.
FailTask(t) ==
    /\ pc[t] = "run"
    /\ IF task[t].status \in Terminal
       THEN /\ Goto(t, "exit")
            /\ UNCHANGED <<task, booked, after>>
       ELSE /\ Settle(t, "failed", 0, -task[t].reserved)
            /\ SaveThen(t, "exit")
    /\ UNCHANGED <<perFile, running, ctx, slots, json, save, req, bounds, ghosts>>

\* The context was cancelled: CancelTask or DeleteTask has ended the task, and
\* nothing is applied.
RunCancelled(t) ==
    /\ pc[t] = "run"
    /\ ctx[t] = "done"
    /\ SaveThen(t, "exit")
    /\ UNCHANGED <<perFile, task, running, ctx, slots, json, booked, save, req,
                   bounds, ghosts>>

\* A transient failure, with retries left.
RunTransient(t) ==
    /\ pc[t] = "run"
    /\ task[t].retries < MaxRetries
    /\ Goto(t, "retry")
    /\ UNCHANGED <<perFile, task, running, ctx, slots, json, booked, save, after,
                   req, bounds, ghosts>>

\* syncRetryExhausted: with an error of its own, applyRunResultWithError
\* returns before the reservation is given back.
SyncRetryExhausted(t) ==
    /\ pc[t] = "run"
    /\ task[t].retries >= MaxRetries
    /\ IF Applies(t, "failed")
       THEN /\ Settle(t, "failed", task[t].reserved, 0)
            /\ spent' = spent \cup {t}
       ELSE UNCHANGED <<task, booked, spent>>
    /\ SaveThen(t, "exit")
    /\ UNCHANGED <<perFile, running, ctx, slots, json, save, req, bounds, revived>>

MarkRetrying(t) ==
    /\ pc[t] = "retry"
    /\ IF task[t].in /\ task[t].status \in {"syncing", "retrying"}
       THEN /\ task' = [task EXCEPT ![t].status = "retrying", ![t].retries = @ + 1]
            /\ SaveThen(t, "backoff")
       ELSE /\ Goto(t, "exit")
            /\ UNCHANGED <<task, after>>
    /\ UNCHANGED <<perFile, running, ctx, slots, json, booked, save, req, bounds,
                   ghosts>>

\* waitRetryBackoff: the timer, or the end of the context.
BackoffOver(t) ==
    /\ pc[t] = "backoff"
    /\ Goto(t, "run")
    /\ UNCHANGED <<perFile, task, running, ctx, slots, json, booked, save, after,
                   req, bounds, ghosts>>

BackoffCancelled(t) ==
    /\ pc[t] = "backoff"
    /\ ctx[t] = "done"
    /\ Goto(t, "exit")
    /\ UNCHANGED <<perFile, task, running, ctx, slots, json, booked, save, after,
                   req, bounds, ghosts>>

\* Mutant: a cancelled goroutine leaves without giving its slot back.
Exit_KeepsSlot(t) ==
    /\ pc[t] = "exit"
    /\ holds' = IF ctx[t] = "done" THEN holds ELSE holds \ {t}
    /\ ctx' = [ctx EXCEPT ![t] = "none"]
    /\ running' = [running EXCEPT ![t] = FALSE]
    /\ Goto(t, "over")
    /\ UNCHANGED <<perFile, task, other, json, booked, save, after, req, bounds,
                   ghosts>>

\* The deferred calls: the slot is given back, cleanupRunning.
Exit(t) ==
    /\ pc[t] = "exit"
    /\ holds' = holds \ {t}
    /\ ctx' = [ctx EXCEPT ![t] = "none"]
    /\ running' = [running EXCEPT ![t] = FALSE]
    /\ Goto(t, "over")
    /\ UNCHANGED <<perFile, task, other, json, booked, save, after, req, bounds,
                   ghosts>>

-----------------------------------------------------------------------------
\* The other tasks of the manager, as far as they take slots.

OtherStarts ==
    /\ Cardinality(holds) + other < MaxConcurrent
    /\ other < MaxOther
    /\ other' = other + 1
    /\ UNCHANGED <<perFile, task, running, ctx, holds, json, booked, pc, save,
                   after, req, bounds, ghosts>>

OtherEnds ==
    /\ other > 0
    /\ other' = other - 1
    /\ UNCHANGED <<perFile, task, running, ctx, holds, json, booked, pc, save,
                   after, req, bounds, ghosts>>

-----------------------------------------------------------------------------
\* The process ends without warning and starts again

\* recoverTaskFile: what a record becomes.
Recovered(t, rec) ==
    IF rec = NoRecord THEN [task[t] EXCEPT !.in = FALSE, !.reserved = 0]
    ELSE [in |-> TRUE, status |-> rec.status, retries |-> rec.retries,
          reserved |-> 0, restored |-> TRUE]

\* A record that was being written may be cut short; recoverTaskFile skips it.
\* syncing and retrying tasks are started again, pending ones are not.  The
\* ledger is rebuilt from a scan of the disk and holds no reservation.
Restart ==
    /\ faults < MaxFaults
    /\ faults' = faults + 1
    /\ \E torn \in SUBSET {Saved(a) : a \in {b \in Actor : pc[b] = "write"}} :
          LET kept == [t \in Task |-> IF t \in torn THEN NoRecord ELSE json[t]]
              again == {t \in Task : kept[t].status \in {"syncing", "retrying"}}
          IN  /\ json' = kept
              /\ task' = [t \in Task |-> Recovered(t, kept[t])]
              /\ running' = [t \in Task |-> t \in again]
              /\ pc' = [a \in Actor |-> IF a \in Request THEN "idle"
                                        ELSE IF a \in again THEN "begin"
                                        ELSE "none"]
              /\ revived' = revived \cup
                    {t \in Task : /\ kept[t].status \in Active
                                  /\ ~task[t].in \/ task[t].status \in Terminal}
    /\ ctx' = [t \in Task |-> "none"]
    /\ holds' = {}
    /\ other' = 0
    /\ booked' = [t \in Task |-> 0]
    /\ save' = [a \in Actor |-> NoRecord]
    /\ after' = [a \in Actor |-> "none"]
    /\ req' = [r \in Request |-> NoRequest]
    /\ UNCHANGED <<perFile, asked, spent>>

-----------------------------------------------------------------------------
Requests(r) ==
    \/ CreateTask(r) \/ CreateDuplicate(r) \/ SubmitAndStart(r)
    \/ \E t \in Task : CancelTask(r, t) \/ DeleteTask(r, t)
    \/ DeleteRelease(r) \/ CleanupExpired(r) \/ RemoveRecord(r)

Save(a) == SaveSnapshot(a) \/ SaveWrite(a) \/ SaveFails(a)

Run(t) ==
    \/ RunCompletes(t) \/ RunFails(t) \/ FailTask(t) \/ RunCancelled(t)
    \/ RunTransient(t) \/ SyncRetryExhausted(t)

Goroutine(t) ==
    \/ Begin(t) \/ QueueCancelled(t) \/ SyncMarkStarted(t) \/ Run(t)
    \/ MarkRetrying(t) \/ BackoffOver(t) \/ BackoffCancelled(t) \/ Exit(t)

Next ==
    \/ \E r \in Request : Requests(r)
    \/ \E a \in Actor : Save(a)
    \/ \E t \in Task : SyncAcquireSlot(t) \/ Goroutine(t)
    \/ OtherStarts \/ OtherEnds
    \/ Restart

\* The scheduler runs every goroutine, an executor returns, a back-off ends,
\* other tasks end, and a sender waiting on the semaphore is served in turn.
Fairness ==
    /\ \A t \in Task : /\ WF_vars(Goroutine(t))
                       /\ WF_vars(Save(t))
                       /\ SF_vars(SyncAcquireSlot(t))
    /\ WF_vars(OtherEnds)

Spec == Init /\ [][Next]_vars /\ Fairness

-----------------------------------------------------------------------------
\* What a DeleteTask that has not released it yet will give back for t.
Owed(t) == {r \in Request : pc[r] = "release" /\ req[r].task = t}

\* The ledger holds for a task exactly its ReservedSize and what a DeleteTask
\* in progress has taken over, whichever of CancelTask, DeleteTask, failTask,
\* the result of a run and the reconciliation came first: nothing is given
\* back twice and nothing is forgotten.  (A completed task whose files the
\* executor booked, and a task from before a restart, record a size there that
\* the manager has not reserved.)
BookedExact ==
    \A t \in Task :
        ~task[t].restored /\ ~(perFile /\ task[t].status = "completed") =>
            IF Owed(t) = {} THEN booked[t] = task[t].reserved
            ELSE \E r \in Owed(t) : /\ Owed(t) = {r}
                                    /\ task[t].reserved = 0
                                    /\ booked[t] = req[r].owed

\* t did not complete, nobody is going to give anything back for it any more.
Abandoned(t) ==
    /\ ~task[t].restored /\ Owed(t) = {}
    /\ task[t].status \in {"failed", "cancelled"}

\* A task that failed or was cancelled keeps no quota, unless it failed because
\* its retries were used up.
NothingPinned ==
    \A t \in Task : Abandoned(t) /\ booked[t] # 0 => t \in spent

\* failed 终态释放预留配额: what applyRunResultStatus says of every failed task.
FailedIsFree ==
    \A t \in Task : Abandoned(t) => booked[t] = 0

\* Two executors work on the same destination only if one of the tasks has been
\* cancelled or deleted and has not noticed, or a restart revived it.
OneRunPerKey ==
    \A t, u \in Task :
        t # u /\ pc[t] = "run" /\ pc[u] = "run" =>
            \E v \in {t, u} : \/ ~task[v].in
                              \/ task[v].status = "cancelled"
                              \/ v \in revived

\* A task whose goroutine was started ends or is deleted, unless a crash finds
\* it still in the queue: no slot is lost, no retry loop and no wait lasts.
Settles ==
    \A t \in Task :
        pc[t] = "begin" ~> \/ ~task[t].in
                           \/ task[t].status \in Terminal
                           \/ task[t].restored /\ task[t].status = "pending"
=============================================================================

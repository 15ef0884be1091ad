--------------------------- MODULE SyncTask_proofs ---------------------------
(***************************************************************************)
(* The quota of sync tasks, for every number of tasks, requests, retries,  *)
(* crashes and other bounds: what the ledger holds for a task is what the  *)
(* task has reserved, a task that ended without completing holds nothing   *)
(* unless its retries were used up, and no two executors work on one       *)
(* destination.                                                            *)
(***************************************************************************)
EXTENDS SyncTask, TLAPS

\* The goroutine has not come to the result that ends its task.
Working(t) ==
    \/ pc[t] \in {"begin", "queue", "start", "run", "retry", "backoff"}
    \/ pc[t] \in {"save", "write"} /\ after[t] \in {"run", "backoff"}

\* r is the DeleteTask that still has to release what t had.
Releases(r, t) == pc[r] = "release" /\ req[r].task = t

\* Where the requests are, and what they work on.
ReqShape ==
    \A r \in Request :
        /\ pc[r] \in {"save", "write", "launch", "release"} => req[r].task \in Task
        /\ pc[r] \in {"save", "write"} => after[r] \in {"launch", "idle"}
        /\ \A t \in Task : Releases(r, t) => ~task[t].in /\ task[t].status # "none"
        /\ \A s \in Request, t \in Task : Releases(r, t) /\ Releases(s, t) => r = s

\* What the status of a task says about its goroutine, and the converse.
TaskShape ==
    \A t \in Task :
        /\ task[t].in => task[t].status # "none"
        /\ pc[t] \in {"save", "write"} => after[t] \in {"run", "backoff", "exit"}
        /\ pc[t] = "retry" => task[t].retries < MaxRetries
        /\ Working(t) => task[t].status # "completed"

\* The books of t are its reservation, wherever the manager keeps it there.
ExactAt(t) ==
    ~task[t].restored /\ ~(perFile /\ task[t].status = "completed") =>
        /\ (\A r \in Request : ~Releases(r, t)) => booked[t] = task[t].reserved
        /\ \A r \in Request :
              Releases(r, t) => booked[t] = req[r].owed /\ task[t].reserved = 0

Exact == \A t \in Task : ExactAt(t)

\* A task that did not complete holds nothing, or its retries were used up.
Freed ==
    \A t \in Task :
        task[t].status \in {"failed", "cancelled"} =>
            task[t].reserved = 0 \/ t \in spent

\* The inductive invariant.
SyncInv == TypeOK /\ ReqShape /\ TaskShape /\ Exact /\ Freed

-----------------------------------------------------------------------------
\* What the longer actions do to the tasks, field by field.

SameTask(u) == task'[u] = task[u] /\ booked'[u] = booked[u]

SameReleases ==
    \A r \in Request, u \in Task :
        /\ Releases(r, u)' <=> Releases(r, u)
        /\ Releases(r, u) => req'[r].owed = req[r].owed

\* A task whose books, reservation and releaser are the same keeps exact books.
LEMMA ExactKept ==
    ASSUME NEW u \in Task, ExactAt(u), perFile' = perFile,
           \A r \in Request : /\ Releases(r, u)' <=> Releases(r, u)
                              /\ Releases(r, u) => req'[r].owed = req[r].owed,
           booked'[u] = booked[u],
           task'[u].reserved = task[u].reserved,
           task'[u].restored = task[u].restored,
           task'[u].status = "completed" <=> task[u].status = "completed"
    PROVE  ExactAt(u)'
<1> SUFFICES ASSUME ~task'[u].restored,
                    ~(perFile' /\ task'[u].status = "completed")
             PROVE  /\ (\A r \in Request : ~Releases(r, u)') =>
                           booked'[u] = task'[u].reserved
                    /\ \A r \in Request :
                          Releases(r, u)' => /\ booked'[u] = req'[r].owed
                                             /\ task'[u].reserved = 0
  BY DEF ExactAt
<1>1. ~task[u].restored /\ ~(perFile /\ task[u].status = "completed")
  OBVIOUS
<1>2. /\ (\A r \in Request : ~Releases(r, u)) => booked[u] = task[u].reserved
      /\ \A r \in Request :
            Releases(r, u) => booked[u] = req[r].owed /\ task[u].reserved = 0
  BY <1>1 DEF ExactAt
<1> QED
  BY <1>2

\* syncMarkStarted and markRetrying.
Marks(t) == SyncMarkStarted(t) \/ MarkRetrying(t)

Marked(t) ==
    /\ \A u \in Task \ {t} : task'[u] = task[u]
    /\ task[t].in
    /\ task'[t].in
    /\ task'[t].status \in {"syncing", "retrying"}
    /\ task'[t].reserved = task[t].reserved
    /\ task'[t].restored = task[t].restored
    /\ task[t].status # "completed"
    /\ pc' = [pc EXCEPT ![t] = "save"]
    /\ \E step \in {"run", "backoff"} : after' = [after EXCEPT ![t] = step]

\* The steps that end a run for good.
Ends(t) == RunCompletes(t) \/ RunFails(t) \/ FailTask(t) \/ SyncRetryExhausted(t)

\* t has now the status s and the reservation n, and its books moved by c.
Settled(t, s, n, c) ==
    /\ \A u \in Task \ {t} : SameTask(u)
    /\ task'[t].in = task[t].in
    /\ task'[t].status = s
    /\ task'[t].reserved = n
    /\ task'[t].restored = task[t].restored
    /\ booked'[t] = booked[t] + c

\* That was in order.
Ended(t, s, n, c) ==
    /\ Settled(t, s, n, c)
    /\ s \in {"completed", "failed"} /\ n \in Nat
    /\ \/ task[t].restored
       \/ perFile /\ s = "completed"
       \/ c = n - task[t].reserved
    /\ task[t].in \/ n = 0
    /\ s = "failed" => n = 0 \/ t \in spent'

\* Settle, field by field.
LEMMA SettleEffect ==
    ASSUME TypeOK, NEW t \in Task, NEW s, NEW n, NEW c, Settle(t, s, n, c)
    PROVE  Settled(t, s, n, c)
<1>1. task \in [Task -> Object] /\ booked \in [Task -> Int]
  BY DEF TypeOK
<1>2. task' = [task EXCEPT ![t].status = s, ![t].reserved = n]
  BY DEF Settle
<1>3. booked' = [booked EXCEPT ![t] = booked[t] + c]
  BY DEF Settle
<1>4. \A u \in Task \ {t} : task'[u] = task[u]
  BY <1>1, <1>2
<1>5. /\ task'[t].in = task[t].in
      /\ task'[t].status = s
      /\ task'[t].reserved = n
      /\ task'[t].restored = task[t].restored
  BY <1>1, <1>2 DEF Object
<1>6. (\A u \in Task \ {t} : booked'[u] = booked[u]) /\ booked'[t] = booked[t] + c
  BY <1>1, <1>3
<1> QED
  BY <1>4, <1>5, <1>6 DEF SameTask, Settled

\* Every way a run ends leaves its task alone or ends it with its books in order.
LEMMA EndEffect ==
    ASSUME SyncInv, NEW t \in Task, Ends(t)
    PROVE  /\ pc[t] = "run"
           /\ perFile' = perFile /\ req' = req /\ spent \subseteq spent'
           /\ \/ pc' = [pc EXCEPT ![t] = "exit"] /\ after' = after
              \/ /\ pc' = [pc EXCEPT ![t] = "save"]
                 /\ after' = [after EXCEPT ![t] = "exit"]
           /\ \/ task' = task /\ booked' = booked
              \/ \E s, n, c : Ended(t, s, n, c)
<1>0. TypeOK /\ task[t].reserved \in Nat
  BY DEF SyncInv, TypeOK, Object
<1>1. CASE RunCompletes(t)
  <2>1. CASE Applies(t, "completed")
    <3>1. PICK bytes \in BytesDone : ReconcileQuota(t, bytes)
      BY <1>1, <2>1 DEF RunCompletes
    <3>2. bytes \in Nat
      BY QuotaAssumption
    <3>3. task[t].in
      BY <2>1 DEF Applies
    <3>4. CASE task[t].restored /\ Settle(t, "completed", bytes, 0)
      <4>1. Ended(t, "completed", bytes, 0)
        <5>1. Settled(t, "completed", bytes, 0)
          BY <1>0, <3>3, <3>4, SettleEffect
        <5> QED
          BY <1>0, <3>2, <3>3, <3>4, <5>1 DEF Ended
      <4> QED
        BY <1>1, <4>1 DEF RunCompletes, SaveThen, Goto, ghosts
    <3>5. CASE perFile /\ Settle(t, "completed", bytes, -task[t].reserved)
      <4>1. Ended(t, "completed", bytes, -task[t].reserved)
        <5>1. Settled(t, "completed", bytes, -task[t].reserved)
          BY <1>0, <3>3, <3>5, SettleEffect
        <5> QED
          BY <1>0, <3>2, <3>3, <3>5, <5>1 DEF Ended
      <4> QED
        BY <1>1, <4>1 DEF RunCompletes, SaveThen, Goto, ghosts
    <3>6. CASE Settle(t, "completed", bytes, bytes - task[t].reserved)
      <4>1. Ended(t, "completed", bytes, bytes - task[t].reserved)
        <5>1. Settled(t, "completed", bytes, bytes - task[t].reserved)
          BY <1>0, <3>3, <3>6, SettleEffect
        <5> QED
          BY <1>0, <3>2, <3>3, <3>6, <5>1 DEF Ended
      <4> QED
        BY <1>1, <4>1 DEF RunCompletes, SaveThen, Goto, ghosts
    <3>7. CASE Settle(t, "failed", 0, -task[t].reserved)
      <4>1. -task[t].reserved = 0 - task[t].reserved
        BY <1>0
      <4>2. Ended(t, "failed", 0, -task[t].reserved)
        <5>1. Settled(t, "failed", 0, -task[t].reserved)
          BY <1>0, <3>3, <3>7, <4>1, SettleEffect
        <5> QED
          BY <1>0, <3>3, <3>7, <4>1, <5>1 DEF Ended
      <4> QED
        BY <1>1, <4>2 DEF RunCompletes, SaveThen, Goto, ghosts
    <3> QED
      BY <3>1, <3>4, <3>5, <3>6, <3>7 DEF ReconcileQuota
  <2>2. CASE ~Applies(t, "completed")
    BY <1>1, <2>2 DEF RunCompletes, SaveThen, Goto, ghosts
  <2> QED
    BY <2>1, <2>2
<1>2. CASE RunFails(t)
  <2>1. CASE Applies(t, "failed")
    <3>1. -task[t].reserved = 0 - task[t].reserved
      BY <1>0
    <3>2. Settle(t, "failed", 0, -task[t].reserved)
      BY <1>2, <2>1 DEF RunFails
    <3>3. Ended(t, "failed", 0, -task[t].reserved)
      <4>1. Settled(t, "failed", 0, -task[t].reserved)
        BY <1>0, <3>1, <3>2, SettleEffect
      <4> QED
        BY <1>0, <3>1, <3>2, <4>1 DEF Ended
    <3> QED
      BY <1>2, <3>3 DEF RunFails, SaveThen, Goto, ghosts
  <2>2. CASE ~Applies(t, "failed")
    BY <1>2, <2>2 DEF RunFails, SaveThen, Goto, ghosts
  <2> QED
    BY <2>1, <2>2
<1>3. CASE FailTask(t)
  <2>1. CASE task[t].status \notin Terminal
    <3>1. -task[t].reserved = 0 - task[t].reserved
      BY <1>0
    <3>2. Settle(t, "failed", 0, -task[t].reserved)
      BY <1>3, <2>1 DEF FailTask
    <3>3. Ended(t, "failed", 0, -task[t].reserved)
      <4>1. Settled(t, "failed", 0, -task[t].reserved)
        BY <1>0, <3>1, <3>2, SettleEffect
      <4> QED
        BY <1>0, <3>1, <3>2, <4>1 DEF Ended
    <3> QED
      BY <1>3, <2>1, <3>3 DEF FailTask, SaveThen, Goto, ghosts
  <2>2. CASE task[t].status \in Terminal
    BY <1>3, <2>2 DEF FailTask, Goto, ghosts
  <2> QED
    BY <2>1, <2>2
<1>4. CASE SyncRetryExhausted(t)
  <2>1. CASE Applies(t, "failed")
    <3>1. Settle(t, "failed", task[t].reserved, 0) /\ spent' = spent \cup {t}
      BY <1>4, <2>1 DEF SyncRetryExhausted
    <3>2. Ended(t, "failed", task[t].reserved, 0)
      <4>1. Settled(t, "failed", task[t].reserved, 0)
        BY <1>0, <2>1, <3>1, SettleEffect
      <4>2. 0 = task[t].reserved - task[t].reserved
        BY <1>0
      <4> QED
        BY <1>0, <2>1, <3>1, <4>1, <4>2 DEF Ended, Applies
    <3> QED
      BY <1>4, <3>1, <3>2 DEF SyncRetryExhausted, SaveThen, Goto
  <2>2. CASE ~Applies(t, "failed")
    BY <1>4, <2>2 DEF SyncRetryExhausted, SaveThen, Goto
  <2> QED
    BY <2>1, <2>2
<1> QED
  BY <1>1, <1>2, <1>3, <1>4 DEF Ends

\* The two marks change the status of a task and not its books.
LEMMA MarkEffect ==
    ASSUME SyncInv, NEW t \in Task, Marks(t)
    PROVE  /\ booked' = booked /\ perFile' = perFile /\ req' = req
           /\ spent' = spent
           /\ pc[t] \in {"start", "retry"}
           /\ \/ Marked(t)
              \/ task' = task /\ after' = after /\ pc' = [pc EXCEPT ![t] = "exit"]
<1>1. task \in [Task -> Object]
  BY DEF SyncInv, TypeOK
<1>2. CASE SyncMarkStarted(t)
  <2>1. CASE task[t].in /\ Allowed(task[t].status, "syncing")
    <3>1. task' = [task EXCEPT ![t].status = "syncing"]
      BY <1>2, <2>1 DEF SyncMarkStarted
    <3>2. /\ \A u \in Task \ {t} : task'[u] = task[u]
          /\ task'[t].in = task[t].in
          /\ task'[t].status = "syncing"
          /\ task'[t].reserved = task[t].reserved
          /\ task'[t].restored = task[t].restored
      BY <1>1, <3>1 DEF Object
    <3>3. task[t].status # "completed"
      BY <2>1 DEF Allowed
    <3>4. Marked(t)
      BY <1>2, <2>1, <3>2, <3>3 DEF Marked, SyncMarkStarted, SaveThen, Goto
    <3> QED
      BY <1>2, <3>4 DEF SyncMarkStarted, ghosts
  <2>2. CASE ~(task[t].in /\ Allowed(task[t].status, "syncing"))
    BY <1>2, <2>2 DEF SyncMarkStarted, Goto, ghosts
  <2> QED
    BY <2>1, <2>2
<1>3. CASE MarkRetrying(t)
  <2>1. CASE task[t].in /\ task[t].status \in {"syncing", "retrying"}
    <3>1. task' = [task EXCEPT ![t].status = "retrying",
                               ![t].retries = task[t].retries + 1]
      BY <1>3, <2>1 DEF MarkRetrying
    <3>2. /\ \A u \in Task \ {t} : task'[u] = task[u]
          /\ task'[t].in = task[t].in
          /\ task'[t].status = "retrying"
          /\ task'[t].reserved = task[t].reserved
          /\ task'[t].restored = task[t].restored
      BY <1>1, <3>1 DEF Object
    <3>3. Marked(t)
      BY <1>3, <2>1, <3>2 DEF Marked, MarkRetrying, SaveThen, Goto
    <3> QED
      BY <1>3, <3>3 DEF MarkRetrying, ghosts
  <2>2. CASE ~(task[t].in /\ task[t].status \in {"syncing", "retrying"})
    BY <1>3, <2>2 DEF MarkRetrying, Goto, ghosts
  <2> QED
    BY <2>1, <2>2
<1> QED
  BY <1>2, <1>3 DEF Marks

\* The sweep takes tasks out of the table and changes nothing else in them.
LEMMA CleanupEffect ==
    ASSUME TypeOK, NEW r \in Request, CleanupExpired(r)
    PROVE  \A u \in Task : /\ task'[u].in => task[u].in
                           /\ task'[u].status = task[u].status
                           /\ task'[u].retries = task[u].retries
                           /\ task'[u].reserved = task[u].reserved
                           /\ task'[u].restored = task[u].restored
<1>1. task \in [Task -> Object]
  BY DEF TypeOK
<1>2. PICK gone :
        task' = [t \in Task |-> [task[t] EXCEPT !.in = @ /\ t \notin gone]]
  BY DEF CleanupExpired
<1> QED
  BY <1>1, <1>2 DEF Object

\* After a restart every task is what its record says, and holds nothing.
LEMMA RestartEffect ==
    ASSUME TypeOK, Restart
    PROVE  \A u \in Task :
              /\ task'[u].reserved = 0
              /\ booked'[u] = 0
              /\ task'[u].in => task'[u].status # "none"
              /\ pc'[u] = "begin" => task'[u].status \in {"syncing", "retrying"}
              /\ pc'[u] \in {"none", "begin"}
<1> SUFFICES ASSUME NEW u \in Task
             PROVE  /\ task'[u].reserved = 0
                    /\ booked'[u] = 0
                    /\ task'[u].in => task'[u].status # "none"
                    /\ pc'[u] = "begin" => task'[u].status \in {"syncing", "retrying"}
                    /\ pc'[u] \in {"none", "begin"}
  OBVIOUS
<1>1. task[u] \in Object
  BY DEF TypeOK
<1>2. json'[u] \in Record \cup {NoRecord}
  <2>1. json \in [Task -> Record \cup {NoRecord}]
    BY DEF TypeOK
  <2>2. PICK torn : json' = [t \in Task |-> IF t \in torn THEN NoRecord ELSE json[t]]
    BY DEF Restart
  <2> QED
    BY <2>1, <2>2
<1>3. task'[u] = Recovered(u, json'[u])
  BY DEF Restart
<1>4. /\ pc'[u] \in {"none", "begin"}
      /\ pc'[u] = "begin" => json'[u].status \in {"syncing", "retrying"}
  <2>1. PICK torn :
          LET kept == [t \in Task |-> IF t \in torn THEN NoRecord ELSE json[t]]
              again == {t \in Task : kept[t].status \in {"syncing", "retrying"}}
          IN  /\ json' = kept
              /\ pc' = [a \in Actor |-> IF a \in Request THEN "idle"
                                        ELSE IF a \in again THEN "begin"
                                        ELSE "none"]
    BY DEF Restart
  <2> QED
    BY <2>1, TaskAssumption DEF Actor
<1>5. booked'[u] = 0
  BY DEF Restart
<1>6. CASE json'[u] = NoRecord
  BY <1>1, <1>3, <1>4, <1>5, <1>6 DEF Recovered, NoRecord, Object, TypeOK
<1>7. CASE json'[u] \in Record /\ json'[u] # NoRecord
  BY <1>3, <1>4, <1>5, <1>7 DEF Recovered, Record, Status, Active, Terminal
<1> QED
  BY <1>2, <1>6, <1>7

\* Every step keeps the types.
LEMMA TypeStep ==
    ASSUME SyncInv, [Next]_vars
    PROVE  TypeOK'
<1>0. TypeOK /\ ReqShape /\ TaskShape
  BY DEF SyncInv
<1>1. ASSUME NEW r \in Request, CreateTask(r)
      PROVE  TypeOK'
  <2>1. task' \in [Task -> Object]
    <3>1. PICK u \in Task, size \in {0, Placeholder} :
              task' = [task EXCEPT ![u] = Submitted(size)]
      BY <1>1 DEF CreateTask
    <3>2. Submitted(size) \in Object
      BY RetriesAssumption, QuotaAssumption
      DEF Submitted, Object, Status, Active
    <3> QED
      BY <1>0, <3>1, <3>2 DEF TypeOK
  <2>2. booked' \in [Task -> Int]
    BY <1>0, <1>1, QuotaAssumption DEF CreateTask, TypeOK, Object
  <2>3. req' \in [Request -> Work]
    BY <1>0, <1>1 DEF CreateTask, TypeOK, Work
  <2>4. pc' \in [Actor -> Step]
    BY <1>0, <1>1, TaskAssumption
    DEF CreateTask, SaveThen, Goto, TypeOK, Step, Actor
  <2>5. after' \in [Actor -> {"none", "run", "backoff", "exit", "launch", "idle"}]
    BY <1>0, <1>1 DEF CreateTask, SaveThen, TypeOK, Actor
  <2>6. asked' \in 0..MaxRequests
    BY <1>0, <1>1, BoundAssumption DEF CreateTask, Arrives, TypeOK
  <2> QED
    BY <1>0, <1>1, <2>1, <2>2, <2>3, <2>4, <2>5, <2>6
    DEF CreateTask, TypeOK, slots, ghosts, bounds
<1>2. ASSUME NEW r \in Request, CreateDuplicate(r)
      PROVE  TypeOK'
  <2>1. req' \in [Request -> Work]
    BY <1>0, <1>2 DEF CreateDuplicate, TypeOK, Work
  <2>2. pc' \in [Actor -> Step]
    BY <1>0, <1>2, TaskAssumption
    DEF CreateDuplicate, Goto, TypeOK, Step, Actor
  <2>3. asked' \in 0..MaxRequests
    BY <1>0, <1>2, BoundAssumption DEF CreateDuplicate, Arrives, TypeOK
  <2> QED
    BY <1>0, <1>2, <2>1, <2>2, <2>3
    DEF CreateDuplicate, TypeOK, slots, ghosts, bounds
<1>3. ASSUME NEW r \in Request, SubmitAndStart(r)
      PROVE  TypeOK'
  <2>1. running' \in [Task -> BOOLEAN]
    BY <1>0, <1>3 DEF SubmitAndStart, TypeOK
  <2>2. pc' \in [Actor -> Step]
    BY <1>0, <1>3, TaskAssumption DEF SubmitAndStart, TypeOK, Step, Actor
  <2>3. req' \in [Request -> Work]
    BY <1>0, <1>3 DEF SubmitAndStart, NoRequest, TypeOK, Work
  <2> QED
    BY <1>0, <1>3, <2>1, <2>2, <2>3
    DEF SubmitAndStart, TypeOK, slots, ghosts, bounds
<1>4. ASSUME NEW r \in Request, DeleteRelease(r)
      PROVE  TypeOK'
  <2>1. booked' \in [Task -> Int]
    BY <1>0, <1>4, QuotaAssumption
    DEF DeleteRelease, TypeOK, Object, ReqShape, Work
  <2>2. req' \in [Request -> Work]
    BY <1>0, <1>4 DEF DeleteRelease, TypeOK, Work
  <2>3. pc' \in [Actor -> Step]
    BY <1>0, <1>4, TaskAssumption DEF DeleteRelease, Goto, TypeOK, Step, Actor
  <2> QED
    BY <1>0, <1>4, <2>1, <2>2, <2>3
    DEF DeleteRelease, TypeOK, slots, ghosts, bounds
<1>5. ASSUME NEW r \in Request, CleanupExpired(r)
      PROVE  TypeOK'
  <2>1. task' \in [Task -> Object]
    <3>1. PICK gone : task' = [t \in Task |-> [task[t] EXCEPT !.in = @ /\ t \notin gone]]
      BY <1>5 DEF CleanupExpired
    <3>2. task \in [Task -> Object]
      BY <1>0 DEF TypeOK
    <3> QED
      BY <3>1, <3>2 DEF Object
  <2>2. req' \in [Request -> Work]
    <3>1. PICK gone \in SUBSET Task : req' = [req EXCEPT ![r].gone = gone]
      BY <1>5 DEF CleanupExpired
    <3>2. req \in [Request -> Work]
      BY <1>0 DEF TypeOK
    <3> QED
      BY <3>1, <3>2 DEF Work
  <2>3. pc' \in [Actor -> Step]
    BY <1>0, <1>5, TaskAssumption DEF CleanupExpired, Goto, TypeOK, Step, Actor
  <2>4. asked' \in 0..MaxRequests
    BY <1>0, <1>5, BoundAssumption DEF CleanupExpired, Arrives, TypeOK
  <2> QED
    BY <1>0, <1>5, <2>1, <2>2, <2>3, <2>4
    DEF CleanupExpired, TypeOK, slots, ghosts, bounds
<1>6. ASSUME NEW r \in Request, RemoveRecord(r)
      PROVE  TypeOK'
  <2>1. json' \in [Task -> Record \cup {NoRecord}]
    BY <1>0, <1>6, RetriesAssumption
    DEF RemoveRecord, TypeOK, Record, NoRecord, Status, Active, Terminal
  <2>2. req' \in [Request -> Work]
    <3>1. req \in [Request -> Work]
      BY <1>0 DEF TypeOK
    <3>2. NoRequest \in Work
      BY DEF NoRequest, Work
    <3>3. ASSUME NEW t PROVE [req[r] EXCEPT !.gone = req[r].gone \ {t}] \in Work
      BY <3>1 DEF Work
    <3>4. PICK t : req' = [req EXCEPT ![r] =
                               IF req[r].gone = {t} THEN NoRequest
                               ELSE [req[r] EXCEPT !.gone = req[r].gone \ {t}]]
      BY <1>6 DEF RemoveRecord
    <3> QED
      BY <3>1, <3>2, <3>3, <3>4
  <2>3. pc' \in [Actor -> Step]
    BY <1>0, <1>6, TaskAssumption DEF RemoveRecord, Goto, TypeOK, Step, Actor
  <2> QED
    BY <1>0, <1>6, <2>1, <2>2, <2>3
    DEF RemoveRecord, TypeOK, slots, ghosts, bounds
<1>7. ASSUME NEW r \in Request, NEW t \in Task, CancelTask(r, t)
      PROVE  TypeOK'
  <2>1. task' \in [Task -> Object]
    <3>1. task' = [task EXCEPT ![t].status = "cancelled", ![t].reserved = 0]
      BY <1>7 DEF CancelTask
    <3>2. task \in [Task -> Object]
      BY <1>0 DEF TypeOK
    <3> QED
      BY <3>1, <3>2 DEF Object, Status, Terminal
  <2>2. booked' \in [Task -> Int]
    BY <1>0, <1>7, QuotaAssumption DEF CancelTask, TypeOK, Object
  <2>3. ctx' \in [Task -> {"none", "live", "done"}]
    BY <1>0, <1>7 DEF CancelTask, CancelContext, TypeOK
  <2>4. req' \in [Request -> Work]
    BY <1>0, <1>7 DEF CancelTask, TypeOK, Work
  <2>5. pc' \in [Actor -> Step]
    BY <1>0, <1>7, TaskAssumption
    DEF CancelTask, SaveThen, Goto, TypeOK, Step, Actor
  <2>6. after' \in [Actor -> {"none", "run", "backoff", "exit", "launch", "idle"}]
    BY <1>0, <1>7 DEF CancelTask, SaveThen, TypeOK, Actor
  <2>7. asked' \in 0..MaxRequests
    BY <1>0, <1>7, BoundAssumption DEF CancelTask, Arrives, TypeOK
  <2> QED
    BY <1>0, <1>7, <2>1, <2>2, <2>3, <2>4, <2>5, <2>6, <2>7
    DEF CancelTask, TypeOK, slots, ghosts, bounds
<1>8. ASSUME NEW r \in Request, NEW t \in Task, DeleteTask(r, t)
      PROVE  TypeOK'
  <2>1. task' \in [Task -> Object]
    <3>1. task' = [task EXCEPT ![t].in = FALSE, ![t].reserved = 0]
      BY <1>8 DEF DeleteTask
    <3>2. task \in [Task -> Object]
      BY <1>0 DEF TypeOK
    <3> QED
      BY <3>1, <3>2 DEF Object
  <2>2. ctx' \in [Task -> {"none", "live", "done"}]
    BY <1>0, <1>8 DEF DeleteTask, CancelContext, TypeOK
  <2>3. req' \in [Request -> Work]
    BY <1>0, <1>8 DEF DeleteTask, TypeOK, Work, Object
  <2>4. pc' \in [Actor -> Step]
    BY <1>0, <1>8, TaskAssumption DEF DeleteTask, Goto, TypeOK, Step, Actor
  <2>5. asked' \in 0..MaxRequests
    BY <1>0, <1>8, BoundAssumption DEF DeleteTask, Arrives, TypeOK
  <2> QED
    BY <1>0, <1>8, <2>1, <2>2, <2>3, <2>4, <2>5
    DEF DeleteTask, TypeOK, slots, ghosts, bounds
<1>9. ASSUME NEW a \in Actor, SaveSnapshot(a)
      PROVE  TypeOK'
  <2>1. save' \in [Actor -> Record \cup {NoRecord}]
    <3>1. save \in [Actor -> Record \cup {NoRecord}]
      BY <1>0 DEF TypeOK
    <3>2. CASE task[Saved(a)].in
      <4>1. Saved(a) \in Task
        BY <1>0, <1>9 DEF SaveSnapshot, Saved, Actor, ReqShape
      <4>2. task[Saved(a)] \in Object /\ task[Saved(a)].status # "none"
        BY <1>0, <3>2, <4>1 DEF TypeOK, TaskShape
      <4>3. Snapshot(task[Saved(a)]) \in Record
        BY <4>2 DEF Snapshot, Record, Object
      <4> QED
        BY <1>9, <3>1, <3>2, <4>3 DEF SaveSnapshot
    <3>3. CASE ~task[Saved(a)].in
      BY <1>9, <3>1, <3>3 DEF SaveSnapshot, SaveOver
    <3> QED
      BY <3>2, <3>3
  <2>2. pc' \in [Actor -> Step]
    BY <1>0, <1>9, TaskAssumption
    DEF SaveSnapshot, SaveOver, Goto, TypeOK, Step, Actor, ReqShape, TaskShape
  <2>3. after' \in [Actor -> {"none", "run", "backoff", "exit", "launch", "idle"}]
    BY <1>0, <1>9, TaskAssumption DEF SaveSnapshot, SaveOver, TypeOK, Actor
  <2>4. req' \in [Request -> Work]
    <3>1. req \in [Request -> Work] /\ NoRequest \in Work
      BY <1>0 DEF TypeOK, NoRequest, Work
    <3>2. req' = req \/ req' = [req EXCEPT ![a] = NoRequest]
      BY <1>9 DEF SaveSnapshot, SaveOver
    <3> QED
      BY <3>1, <3>2
  <2> QED
    BY <1>0, <1>9, <2>1, <2>2, <2>3, <2>4
    DEF SaveSnapshot, TypeOK, slots, ghosts, bounds
<1>10. ASSUME NEW a \in Actor, SaveWrite(a)
      PROVE  TypeOK'
  <2>1. json' \in [Task -> Record \cup {NoRecord}]
    BY <1>0, <1>10, RetriesAssumption, TaskAssumption
    DEF SaveWrite, Saved, TypeOK, Record, NoRecord, Status, Active, Terminal,
        Actor, ReqShape
  <2>2. save' \in [Actor -> Record \cup {NoRecord}]
    BY <1>0, <1>10, RetriesAssumption, TaskAssumption
    DEF SaveWrite, SaveOver, Saved, TypeOK, Actor, Record, NoRecord, Status,
        Active, Terminal
  <2>3. pc' \in [Actor -> Step]
    BY <1>0, <1>10, TaskAssumption
    DEF SaveWrite, SaveOver, Goto, TypeOK, Step, Actor, ReqShape, TaskShape
  <2>4. after' \in [Actor -> {"none", "run", "backoff", "exit", "launch", "idle"}]
    BY <1>0, <1>10, TaskAssumption DEF SaveWrite, SaveOver, TypeOK, Actor
  <2>5. req' \in [Request -> Work]
    BY <1>0, <1>10, TaskAssumption
    DEF SaveWrite, SaveOver, NoRequest, TypeOK, Work, Actor, ReqShape,
        TaskShape
  <2> QED
    BY <1>0, <1>10, <2>1, <2>2, <2>3, <2>4, <2>5
    DEF SaveWrite, TypeOK, slots, ghosts, bounds
<1>11. ASSUME NEW a \in Actor, SaveFails(a)
      PROVE  TypeOK'
  <2>1. faults' \in 0..MaxFaults
    BY <1>0, <1>11, BoundAssumption, TaskAssumption
    DEF SaveFails, TypeOK, Actor
  <2>2. json' \in [Task -> Record \cup {NoRecord}]
    BY <1>0, <1>11, RetriesAssumption, TaskAssumption
    DEF SaveFails, Saved, TypeOK, Record, NoRecord, Status, Active, Terminal,
        Actor, ReqShape
  <2>3. save' \in [Actor -> Record \cup {NoRecord}]
    BY <1>0, <1>11, RetriesAssumption, TaskAssumption
    DEF SaveFails, SaveOver, Saved, TypeOK, Actor, Record, NoRecord, Status,
        Active, Terminal
  <2>4. pc' \in [Actor -> Step]
    BY <1>0, <1>11, TaskAssumption
    DEF SaveFails, SaveOver, Goto, TypeOK, Step, Actor, ReqShape, TaskShape
  <2>5. after' \in [Actor -> {"none", "run", "backoff", "exit", "launch", "idle"}]
    BY <1>0, <1>11, TaskAssumption DEF SaveFails, SaveOver, TypeOK, Actor
  <2>6. req' \in [Request -> Work]
    BY <1>0, <1>11, TaskAssumption
    DEF SaveFails, SaveOver, NoRequest, TypeOK, Work, Actor, ReqShape,
        TaskShape
  <2> QED
    BY <1>0, <1>11, <2>1, <2>2, <2>3, <2>4, <2>5, <2>6
    DEF SaveFails, TypeOK, slots, ghosts, bounds
<1>12. ASSUME NEW t \in Task, SyncAcquireSlot(t)
      PROVE  TypeOK'
  <2>1. holds' \in SUBSET Task
    BY <1>0, <1>12 DEF SyncAcquireSlot, TypeOK
  <2>2. pc' \in [Actor -> Step]
    BY <1>0, <1>12, TaskAssumption
    DEF SyncAcquireSlot, Goto, TypeOK, Step, Actor
  <2> QED
    BY <1>0, <1>12, <2>1, <2>2
    DEF SyncAcquireSlot, TypeOK, slots, ghosts, bounds
<1>13. ASSUME NEW t \in Task, Begin(t)
      PROVE  TypeOK'
  <2>1. ctx' \in [Task -> {"none", "live", "done"}]
    BY <1>0, <1>13 DEF Begin, TypeOK
  <2>2. running' \in [Task -> BOOLEAN]
    BY <1>0, <1>13 DEF Begin, TypeOK
  <2>3. pc' \in [Actor -> Step]
    BY <1>0, <1>13, TaskAssumption DEF Begin, Goto, TypeOK, Step, Actor
  <2> QED
    BY <1>0, <1>13, <2>1, <2>2, <2>3 DEF Begin, TypeOK, slots, ghosts, bounds
<1>14. ASSUME NEW t \in Task, QueueCancelled(t)
      PROVE  TypeOK'
  <2>1. pc' \in [Actor -> Step]
    BY <1>0, <1>14, TaskAssumption
    DEF QueueCancelled, Goto, TypeOK, Step, Actor
  <2> QED
    BY <1>0, <1>14, <2>1 DEF QueueCancelled, TypeOK, slots, ghosts, bounds
<1>15. ASSUME NEW t \in Task, SyncMarkStarted(t)
      PROVE  TypeOK'
  <2>1. task' \in [Task -> Object]
    BY <1>0, <1>15, RetriesAssumption, QuotaAssumption
    DEF SyncMarkStarted, TypeOK, Object, Status, Active, Terminal
  <2>2. pc' \in [Actor -> Step]
    BY <1>0, <1>15, TaskAssumption
    DEF SyncMarkStarted, Goto, SaveThen, TypeOK, Step, Actor
  <2>3. after' \in [Actor -> {"none", "run", "backoff", "exit", "launch", "idle"}]
    BY <1>0, <1>15 DEF SyncMarkStarted, SaveThen, TypeOK, Actor
  <2> QED
    BY <1>0, <1>15, <2>1, <2>2, <2>3
    DEF SyncMarkStarted, TypeOK, slots, ghosts, bounds
<1>16. ASSUME NEW t \in Task, RunCompletes(t)
      PROVE  TypeOK'
  <2>1. task' \in [Task -> Object]
    <3>1. task \in [Task -> Object] /\ task[t].reserved \in Nat
      BY <1>0 DEF TypeOK, Object
    <3>2. \/ task' = task
          \/ \E s \in {"completed", "failed"}, n \in Nat :
                task' = [task EXCEPT ![t].status = s, ![t].reserved = n]
      BY <1>16, <3>1, QuotaAssumption DEF RunCompletes, ReconcileQuota, Settle
    <3> QED
      BY <3>1, <3>2 DEF Object, Status, Terminal
  <2>2. booked' \in [Task -> Int]
    BY <1>0, <1>16, QuotaAssumption
    DEF RunCompletes, ReconcileQuota, Settle, TypeOK, Object
  <2>3. pc' \in [Actor -> Step]
    BY <1>0, <1>16, TaskAssumption
    DEF RunCompletes, SaveThen, Goto, TypeOK, Step, Actor
  <2>4. after' \in [Actor -> {"none", "run", "backoff", "exit", "launch", "idle"}]
    BY <1>0, <1>16 DEF RunCompletes, SaveThen, TypeOK, Actor
  <2> QED
    BY <1>0, <1>16, <2>1, <2>2, <2>3, <2>4
    DEF RunCompletes, TypeOK, slots, ghosts, bounds
<1>17. ASSUME NEW t \in Task, RunFails(t)
      PROVE  TypeOK'
  <2>1. task' \in [Task -> Object]
    <3>1. task \in [Task -> Object] /\ task[t].reserved \in Nat
      BY <1>0 DEF TypeOK, Object
    <3>2. \/ task' = task
          \/ \E s \in {"completed", "failed"}, n \in Nat :
                task' = [task EXCEPT ![t].status = s, ![t].reserved = n]
      BY <1>17, <3>1 DEF RunFails, Settle
    <3> QED
      BY <3>1, <3>2 DEF Object, Status, Terminal
  <2>2. booked' \in [Task -> Int]
    BY <1>0, <1>17, QuotaAssumption DEF RunFails, Settle, TypeOK, Object
  <2>3. pc' \in [Actor -> Step]
    BY <1>0, <1>17, TaskAssumption
    DEF RunFails, SaveThen, Goto, TypeOK, Step, Actor
  <2>4. after' \in [Actor -> {"none", "run", "backoff", "exit", "launch", "idle"}]
    BY <1>0, <1>17 DEF RunFails, SaveThen, TypeOK, Actor
  <2> QED
    BY <1>0, <1>17, <2>1, <2>2, <2>3, <2>4
    DEF RunFails, TypeOK, slots, ghosts, bounds
<1>18. ASSUME NEW t \in Task, FailTask(t)
      PROVE  TypeOK'
  <2>1. task' \in [Task -> Object]
    <3>1. task \in [Task -> Object] /\ task[t].reserved \in Nat
      BY <1>0 DEF TypeOK, Object
    <3>2. \/ task' = task
          \/ \E s \in {"completed", "failed"}, n \in Nat :
                task' = [task EXCEPT ![t].status = s, ![t].reserved = n]
      BY <1>18, <3>1 DEF FailTask, Settle
    <3> QED
      BY <3>1, <3>2 DEF Object, Status, Terminal
  <2>2. booked' \in [Task -> Int]
    BY <1>0, <1>18, QuotaAssumption DEF FailTask, Settle, TypeOK, Object
  <2>3. pc' \in [Actor -> Step]
    BY <1>0, <1>18, TaskAssumption
    DEF FailTask, SaveThen, Goto, TypeOK, Step, Actor
  <2>4. after' \in [Actor -> {"none", "run", "backoff", "exit", "launch", "idle"}]
    BY <1>0, <1>18 DEF FailTask, SaveThen, TypeOK, Actor
  <2> QED
    BY <1>0, <1>18, <2>1, <2>2, <2>3, <2>4
    DEF FailTask, TypeOK, slots, ghosts, bounds
<1>19. ASSUME NEW t \in Task, RunCancelled(t)
      PROVE  TypeOK'
  <2>1. pc' \in [Actor -> Step]
    BY <1>0, <1>19, TaskAssumption
    DEF RunCancelled, SaveThen, Goto, TypeOK, Step, Actor
  <2>2. after' \in [Actor -> {"none", "run", "backoff", "exit", "launch", "idle"}]
    BY <1>0, <1>19 DEF RunCancelled, SaveThen, TypeOK, Actor
  <2> QED
    BY <1>0, <1>19, <2>1, <2>2 DEF RunCancelled, TypeOK, slots, ghosts, bounds
<1>20. ASSUME NEW t \in Task, RunTransient(t)
      PROVE  TypeOK'
  <2>1. pc' \in [Actor -> Step]
    BY <1>0, <1>20, TaskAssumption DEF RunTransient, Goto, TypeOK, Step, Actor
  <2> QED
    BY <1>0, <1>20, <2>1 DEF RunTransient, TypeOK, slots, ghosts, bounds
<1>21. ASSUME NEW t \in Task, SyncRetryExhausted(t)
      PROVE  TypeOK'
  <2>1. task' \in [Task -> Object]
    <3>1. task \in [Task -> Object] /\ task[t].reserved \in Nat
      BY <1>0 DEF TypeOK, Object
    <3>2. \/ task' = task
          \/ \E s \in {"completed", "failed"}, n \in Nat :
                task' = [task EXCEPT ![t].status = s, ![t].reserved = n]
      BY <1>21, <3>1 DEF SyncRetryExhausted, Settle
    <3> QED
      BY <3>1, <3>2 DEF Object, Status, Terminal
  <2>2. booked' \in [Task -> Int]
    BY <1>0, <1>21, QuotaAssumption
    DEF SyncRetryExhausted, Settle, TypeOK, Object
  <2>3. spent' \in SUBSET Task
    BY <1>0, <1>21 DEF SyncRetryExhausted, TypeOK
  <2>4. pc' \in [Actor -> Step]
    BY <1>0, <1>21, TaskAssumption
    DEF SyncRetryExhausted, SaveThen, Goto, TypeOK, Step, Actor
  <2>5. after' \in [Actor -> {"none", "run", "backoff", "exit", "launch", "idle"}]
    BY <1>0, <1>21 DEF SyncRetryExhausted, SaveThen, TypeOK, Actor
  <2> QED
    BY <1>0, <1>21, <2>1, <2>2, <2>3, <2>4, <2>5
    DEF SyncRetryExhausted, TypeOK, slots, ghosts, bounds
<1>22. ASSUME NEW t \in Task, MarkRetrying(t)
      PROVE  TypeOK'
  <2>1. task' \in [Task -> Object]
    BY <1>0, <1>22, RetriesAssumption, QuotaAssumption
    DEF MarkRetrying, TypeOK, Object, Status, Active, Terminal, TaskShape
  <2>2. pc' \in [Actor -> Step]
    BY <1>0, <1>22, TaskAssumption
    DEF MarkRetrying, SaveThen, Goto, TypeOK, Step, Actor
  <2>3. after' \in [Actor -> {"none", "run", "backoff", "exit", "launch", "idle"}]
    BY <1>0, <1>22 DEF MarkRetrying, SaveThen, TypeOK, Actor
  <2> QED
    BY <1>0, <1>22, <2>1, <2>2, <2>3
    DEF MarkRetrying, TypeOK, slots, ghosts, bounds
<1>23. ASSUME NEW t \in Task, BackoffOver(t)
      PROVE  TypeOK'
  <2>1. pc' \in [Actor -> Step]
    BY <1>0, <1>23, TaskAssumption DEF BackoffOver, Goto, TypeOK, Step, Actor
  <2> QED
    BY <1>0, <1>23, <2>1 DEF BackoffOver, TypeOK, slots, ghosts, bounds
<1>24. ASSUME NEW t \in Task, BackoffCancelled(t)
      PROVE  TypeOK'
  <2>1. pc' \in [Actor -> Step]
    BY <1>0, <1>24, TaskAssumption
    DEF BackoffCancelled, Goto, TypeOK, Step, Actor
  <2> QED
    BY <1>0, <1>24, <2>1 DEF BackoffCancelled, TypeOK, slots, ghosts, bounds
<1>25. ASSUME NEW t \in Task, Exit(t)
      PROVE  TypeOK'
  <2>1. holds' \in SUBSET Task
    BY <1>0, <1>25 DEF Exit, TypeOK
  <2>2. ctx' \in [Task -> {"none", "live", "done"}]
    BY <1>0, <1>25 DEF Exit, TypeOK
  <2>3. running' \in [Task -> BOOLEAN]
    BY <1>0, <1>25 DEF Exit, TypeOK
  <2>4. pc' \in [Actor -> Step]
    BY <1>0, <1>25, TaskAssumption DEF Exit, Goto, TypeOK, Step, Actor
  <2> QED
    BY <1>0, <1>25, <2>1, <2>2, <2>3, <2>4
    DEF Exit, TypeOK, slots, ghosts, bounds
<1>26. ASSUME OtherStarts PROVE TypeOK'
  <2>1. other' \in 0..MaxOther
    BY <1>0, <1>26, CapacityAssumption DEF OtherStarts, TypeOK
  <2> QED
    BY <1>0, <1>26, <2>1 DEF OtherStarts, TypeOK, slots, ghosts, bounds
<1>27. ASSUME OtherEnds PROVE TypeOK'
  <2>1. other' \in 0..MaxOther
    BY <1>0, <1>27, CapacityAssumption DEF OtherEnds, TypeOK
  <2> QED
    BY <1>0, <1>27, <2>1 DEF OtherEnds, TypeOK, slots, ghosts, bounds
<1>28. ASSUME Restart PROVE TypeOK'
  <2>1. faults' \in 0..MaxFaults
    BY <1>0, <1>28, BoundAssumption DEF Restart, TypeOK
  <2>2. json' \in [Task -> Record \cup {NoRecord}]
    <3>1. json \in [Task -> Record \cup {NoRecord}]
      BY <1>0 DEF TypeOK
    <3>2. PICK torn : json' = [t \in Task |-> IF t \in torn THEN NoRecord ELSE json[t]]
      BY <1>28 DEF Restart
    <3> QED
      BY <3>1, <3>2
  <2>3. task' \in [Task -> Object]
    <3>1. task' = [t \in Task |-> Recovered(t, json'[t])]
      BY <1>28 DEF Restart
    <3>2. ASSUME NEW t \in Task PROVE Recovered(t, json'[t]) \in Object
      <4>1. task[t] \in Object
        BY <1>0 DEF TypeOK
      <4>2. json'[t] \in Record \/ json'[t] = NoRecord
        BY <2>2
      <4>3. CASE json'[t] = NoRecord
        BY <4>1, <4>3 DEF Recovered, Object
      <4>4. CASE json'[t] \in Record /\ json'[t] # NoRecord
        BY <4>4 DEF Recovered, Object, Record
      <4> QED
        BY <4>2, <4>3, <4>4
    <3> QED
      BY <3>1, <3>2
  <2>4. running' \in [Task -> BOOLEAN]
    BY <1>0, <1>28 DEF Restart, TypeOK
  <2>5. pc' \in [Actor -> Step]
    BY <1>0, <1>28, TaskAssumption DEF Restart, TypeOK, Step, Actor
  <2>6. revived' \in SUBSET Task
    BY <1>0, <1>28 DEF Restart, TypeOK
  <2>7. ctx' \in [Task -> {"none", "live", "done"}]
    BY <1>0, <1>28 DEF Restart, TypeOK
  <2>8. holds' \in SUBSET Task
    BY <1>0, <1>28 DEF Restart, TypeOK
  <2>9. other' \in 0..MaxOther
    BY <1>0, <1>28, CapacityAssumption DEF Restart, TypeOK
  <2>10. booked' \in [Task -> Int]
    BY <1>0, <1>28, QuotaAssumption DEF Restart, TypeOK, Object
  <2>11. save' \in [Actor -> Record \cup {NoRecord}]
    BY <1>0, <1>28, RetriesAssumption
    DEF Restart, TypeOK, Actor, Record, NoRecord, Status, Active, Terminal
  <2>12. after' \in [Actor -> {"none", "run", "backoff", "exit", "launch", "idle"}]
    BY <1>0, <1>28 DEF Restart, TypeOK, Actor
  <2>13. req' \in [Request -> Work]
    BY <1>0, <1>28 DEF Restart, NoRequest, TypeOK, Work
  <2> QED
    BY <1>0, <1>28, <2>1, <2>2, <2>3, <2>4, <2>5, <2>6, <2>7, <2>8, <2>9,
       <2>10, <2>11, <2>12, <2>13
    DEF Restart, TypeOK, slots, ghosts, bounds
<1>29. CASE UNCHANGED vars
  BY <1>0, <1>29 DEF vars, TypeOK
<1> QED
  BY <1>1, <1>2, <1>3, <1>4, <1>5, <1>6, <1>7, <1>8, <1>9, <1>10, <1>11, <1>12,
     <1>13, <1>14, <1>15, <1>16, <1>17, <1>18, <1>19, <1>20, <1>21, <1>22,
     <1>23, <1>24, <1>25, <1>26, <1>27, <1>28, <1>29
  DEF Next, Requests, Save, Goroutine, Run
\* The end of a run keeps the books exact.
LEMMA EndExact ==
    ASSUME SyncInv, NEW t \in Task, Ends(t)
    PROVE  Exact'
<1>1. SameReleases
  <2>1. pc[t] = "run" /\ req' = req
    BY EndEffect
  <2>2. \A r \in Request : pc'[r] = pc[r]
    BY EndEffect, TaskAssumption DEF SyncInv, TypeOK, Actor
  <2> QED
    BY <2>1, <2>2 DEF SameReleases, Releases
<1>2. perFile' = perFile
  BY EndEffect
<1>3. CASE task' = task /\ booked' = booked
  BY <1>1, <1>2, <1>3 DEF SyncInv, Exact, ExactAt, SameReleases
<1>4. ASSUME NEW s, NEW n, NEW c, Ended(t, s, n, c)
      PROVE  Exact'
  <2>1. \A u \in Task \ {t} : SameTask(u)
    BY <1>4 DEF Ended, Settled
  <2>2. ASSUME NEW u \in Task \ {t} PROVE ExactAt(u)'
    <3>1. ExactAt(u)
      BY DEF SyncInv, Exact
    <3> QED
      BY <1>1, <1>2, <2>1, <3>1 DEF ExactAt, SameReleases, SameTask
  <2>3. ExactAt(t)'
    <3> SUFFICES ASSUME ~task'[t].restored, ~(perFile /\ task'[t].status = "completed")
                 PROVE  /\ (\A r \in Request : ~Releases(r, t)) =>
                               booked'[t] = task'[t].reserved
                        /\ \A r \in Request :
                              Releases(r, t) => /\ booked'[t] = req'[r].owed
                                                /\ task'[t].reserved = 0
      BY <1>1, <1>2 DEF ExactAt, SameReleases
    <3>1. /\ ~task[t].restored
          /\ c = n - task[t].reserved
          /\ booked'[t] = booked[t] + c
          /\ task'[t].reserved = n
          /\ task[t].in \/ n = 0
      BY <1>4 DEF Ended, Settled
    <3>2. task[t].status # "completed"
      BY EndEffect DEF SyncInv, TaskShape, Working
    <3>3. ExactAt(t)
      BY DEF SyncInv, Exact
    <3>4. task[t].reserved \in Nat /\ booked[t] \in Int /\ n \in Nat
      <4>1. n = 0 \/ n \in Nat
        BY <1>4 DEF Ended
      <4> QED
        BY <4>1 DEF SyncInv, TypeOK, Object
    <3>5. ASSUME \A r \in Request : ~Releases(r, t)
          PROVE  booked'[t] = task'[t].reserved
      <4>1. booked[t] = task[t].reserved
        BY <3>1, <3>2, <3>3, <3>5 DEF ExactAt
      <4> QED
        BY <3>1, <3>4, <4>1
    <3>6. ASSUME NEW r \in Request, Releases(r, t)
          PROVE  booked'[t] = req'[r].owed /\ task'[t].reserved = 0
      <4>1. booked[t] = req[r].owed /\ task[t].reserved = 0
        BY <3>1, <3>2, <3>3, <3>6 DEF ExactAt
      <4>2. n = 0
        BY <3>1, <3>6 DEF SyncInv, ReqShape
      <4>3. req'[r].owed = req[r].owed
        BY <1>1, <3>6 DEF SameReleases
      <4> QED
        BY <3>1, <3>4, <4>1, <4>2, <4>3
    <3> QED
      BY <3>5, <3>6
  <2> QED
    BY <2>2, <2>3 DEF Exact
<1> QED
  BY <1>3, <1>4, EndEffect


\* The requests stay where they can be.
LEMMA ReqStep ==
    ASSUME SyncInv, [Next]_vars
    PROVE  ReqShape'
<1>0. SyncInv /\ TypeOK /\ ReqShape /\ TaskShape
  BY DEF SyncInv
<1>1. ASSUME NEW r \in Request, CreateTask(r)
      PROVE  ReqShape'
  BY <1>0, <1>1, TaskAssumption
  DEF CreateTask, Arrives, SaveThen, Goto, Fresh, ReqShape, TaskShape,
      Releases, TypeOK, Actor, slots, ghosts, bounds
<1>2. ASSUME NEW r \in Request, CreateDuplicate(r)
      PROVE  ReqShape'
  BY <1>0, <1>2, TaskAssumption
  DEF CreateDuplicate, Arrives, Goto, ReqShape, TaskShape, Releases, TypeOK,
      Actor, slots, ghosts, bounds
<1>3. ASSUME NEW r \in Request, SubmitAndStart(r)
      PROVE  ReqShape'
  BY <1>0, <1>3, TaskAssumption
  DEF SubmitAndStart, NoRequest, ReqShape, TaskShape, Releases, TypeOK, Actor,
      slots, ghosts, bounds
<1>4. ASSUME NEW r \in Request, DeleteRelease(r)
      PROVE  ReqShape'
  BY <1>0, <1>4, TaskAssumption
  DEF DeleteRelease, Goto, ReqShape, TaskShape, Releases, TypeOK, Actor, slots,
      ghosts, bounds
<1>5. ASSUME NEW r \in Request, CleanupExpired(r)
      PROVE  ReqShape'
  <2>1. \A u \in Task : /\ task'[u].in => task[u].in
                        /\ task'[u].status = task[u].status
    BY <1>0, <1>5, CleanupEffect
  <2>2. \A s \in Request \ {r} : pc'[s] = pc[s] /\ req'[s] = req[s]
    BY <1>0, <1>5 DEF CleanupExpired, Goto, TypeOK, Actor
  <2>3. pc'[r] = "remove" /\ after' = after
    BY <1>0, <1>5 DEF CleanupExpired, Goto, TypeOK, Actor
  <2> QED
    BY <1>0, <2>1, <2>2, <2>3 DEF ReqShape, Releases
<1>6. ASSUME NEW r \in Request, RemoveRecord(r)
      PROVE  ReqShape'
  BY <1>0, <1>6, TaskAssumption
  DEF RemoveRecord, Goto, NoRequest, ReqShape, TaskShape, Releases, TypeOK,
      Actor, slots, ghosts, bounds
<1>7. ASSUME NEW r \in Request, NEW t \in Task, CancelTask(r, t)
      PROVE  ReqShape'
  BY <1>0, <1>7, TaskAssumption
  DEF CancelTask, Arrives, SaveThen, Goto, CancelContext, ReqShape, TaskShape,
      Releases, TypeOK, Actor, slots, ghosts, bounds
<1>8. ASSUME NEW r \in Request, NEW t \in Task, DeleteTask(r, t)
      PROVE  ReqShape'
  BY <1>0, <1>8, TaskAssumption
  DEF DeleteTask, Arrives, Goto, CancelContext, ReqShape, TaskShape, Releases,
      TypeOK, Actor, slots, ghosts, bounds
<1>9. ASSUME NEW a \in Actor, SaveSnapshot(a)
      PROVE  ReqShape'
  BY <1>0, <1>9, TaskAssumption
  DEF SaveSnapshot, SaveOver, Goto, Saved, Snapshot, NoRequest, ReqShape,
      TaskShape, Releases, TypeOK, Actor, slots, ghosts, bounds
<1>10. ASSUME NEW a \in Actor, SaveWrite(a)
      PROVE  ReqShape'
  BY <1>0, <1>10, TaskAssumption
  DEF SaveWrite, SaveOver, Goto, Saved, NoRequest, ReqShape, TaskShape,
      Releases, TypeOK, Actor, slots, ghosts, bounds
<1>11. ASSUME NEW a \in Actor, SaveFails(a)
      PROVE  ReqShape'
  BY <1>0, <1>11, TaskAssumption
  DEF SaveFails, SaveOver, Goto, Saved, NoRequest, ReqShape, TaskShape,
      Releases, TypeOK, Actor, slots, ghosts, bounds
<1>12. ASSUME NEW t \in Task, SyncAcquireSlot(t)
      PROVE  ReqShape'
  BY <1>0, <1>12, TaskAssumption
  DEF SyncAcquireSlot, Goto, ReqShape, TaskShape, Releases, TypeOK, Actor,
      slots, ghosts, bounds
<1>13. ASSUME NEW t \in Task, Begin(t)
      PROVE  ReqShape'
  BY <1>0, <1>13, TaskAssumption
  DEF Begin, Goto, ReqShape, TaskShape, Releases, TypeOK, Actor, slots, ghosts,
      bounds
<1>14. ASSUME NEW t \in Task, QueueCancelled(t)
      PROVE  ReqShape'
  BY <1>0, <1>14, TaskAssumption
  DEF QueueCancelled, Goto, ReqShape, TaskShape, Releases, TypeOK, Actor,
      slots, ghosts, bounds
<1>15. ASSUME NEW t \in Task, Marks(t)
      PROVE  ReqShape'
  BY <1>0, <1>15, TaskAssumption
  DEF Marks, SyncMarkStarted, MarkRetrying, SaveThen, Goto, ReqShape,
      TaskShape, Releases, TypeOK, Actor, slots, ghosts, bounds
<1>16. ASSUME NEW t \in Task, Ends(t)
      PROVE  ReqShape'
  <2>1. \A u \in Task : /\ task'[u].in => task[u].in
                        /\ task[u].status # "none" => task'[u].status # "none"
    BY <1>0, <1>16, EndEffect DEF Ended, Settled, SameTask
  <2>2. pc[t] = "run" /\ req' = req
    BY <1>0, <1>16, EndEffect
  <2>3. \A r \in Request : pc'[r] = pc[r] /\ after'[r] = after[r]
    BY <1>0, <1>16, EndEffect, TaskAssumption DEF TypeOK, Actor, SyncInv
  <2>4. \A r \in Request, u \in Task : Releases(r, u)' <=> Releases(r, u)
    BY <2>2, <2>3 DEF Releases
  <2>5. \A r \in Request :
          /\ pc'[r] \in {"save", "write", "launch", "release"} => req'[r].task \in Task
          /\ pc'[r] \in {"save", "write"} => after'[r] \in {"launch", "idle"}
    BY <1>0, <2>2, <2>3 DEF ReqShape
  <2>6. \A r \in Request, u \in Task :
          Releases(r, u)' => ~task'[u].in /\ task'[u].status # "none"
    <3> SUFFICES ASSUME NEW r \in Request, NEW u \in Task, Releases(r, u)'
                 PROVE  ~task'[u].in /\ task'[u].status # "none"
      OBVIOUS
    <3>1. Releases(r, u)
      BY <2>4
    <3>2. ~task[u].in /\ task[u].status # "none"
      BY <1>0, <3>1 DEF ReqShape
    <3> QED
      BY <2>1, <3>2
  <2>7. \A r, s \in Request, u \in Task : Releases(r, u)' /\ Releases(s, u)' => r = s
    BY <1>0, <2>4 DEF ReqShape
  <2> QED
    BY <2>5, <2>6, <2>7 DEF ReqShape
<1>17. ASSUME NEW t \in Task, RunCancelled(t)
      PROVE  ReqShape'
  BY <1>0, <1>17, TaskAssumption
  DEF RunCancelled, SaveThen, Goto, ReqShape, TaskShape, Releases, TypeOK,
      Actor, slots, ghosts, bounds
<1>18. ASSUME NEW t \in Task, RunTransient(t)
      PROVE  ReqShape'
  BY <1>0, <1>18, TaskAssumption
  DEF RunTransient, Goto, ReqShape, TaskShape, Releases, TypeOK, Actor, slots,
      ghosts, bounds
<1>19. ASSUME NEW t \in Task, BackoffOver(t)
      PROVE  ReqShape'
  BY <1>0, <1>19, TaskAssumption
  DEF BackoffOver, Goto, ReqShape, TaskShape, Releases, TypeOK, Actor, slots,
      ghosts, bounds
<1>20. ASSUME NEW t \in Task, BackoffCancelled(t)
      PROVE  ReqShape'
  BY <1>0, <1>20, TaskAssumption
  DEF BackoffCancelled, Goto, ReqShape, TaskShape, Releases, TypeOK, Actor,
      slots, ghosts, bounds
<1>21. ASSUME NEW t \in Task, Exit(t)
      PROVE  ReqShape'
  BY <1>0, <1>21, TaskAssumption
  DEF Exit, Goto, ReqShape, TaskShape, Releases, TypeOK, Actor, slots, ghosts,
      bounds
<1>22. ASSUME OtherStarts PROVE ReqShape'
  BY <1>0, <1>22, TaskAssumption
  DEF OtherStarts, ReqShape, TaskShape, Releases, TypeOK, Actor, slots, ghosts,
      bounds
<1>23. ASSUME OtherEnds PROVE ReqShape'
  BY <1>0, <1>23, TaskAssumption
  DEF OtherEnds, ReqShape, TaskShape, Releases, TypeOK, Actor, slots, ghosts,
      bounds
<1>24. ASSUME Restart PROVE ReqShape'
  BY <1>0, <1>24, TaskAssumption
  DEF Restart, Recovered, NoRequest, ReqShape, TaskShape, Releases, TypeOK,
      Actor, slots, ghosts, bounds
<1>25. CASE UNCHANGED vars
  BY <1>0, <1>25 DEF vars, ReqShape, TaskShape, Releases, TypeOK, Actor
<1> QED
  BY <1>1, <1>2, <1>3, <1>4, <1>5, <1>6, <1>7, <1>8, <1>9, <1>10, <1>11, <1>12,
     <1>13, <1>14, <1>15, <1>16, <1>17, <1>18, <1>19, <1>20, <1>21, <1>22,
     <1>23, <1>24, <1>25
  DEF Next, Requests, Save, Goroutine, Run, Ends, Marks

\* The goroutines stay in step with the status of their tasks.
LEMMA TaskStep ==
    ASSUME SyncInv, [Next]_vars
    PROVE  TaskShape'
<1>0. SyncInv /\ TypeOK /\ ReqShape /\ TaskShape
  BY DEF SyncInv
<1>1. ASSUME NEW r \in Request, CreateTask(r)
      PROVE  TaskShape'
  <2>1. PICK u \in Task, size \in {0, Placeholder} :
          task' = [task EXCEPT ![u] = Submitted(size)] /\ task[u] = Fresh
    BY <1>1 DEF CreateTask
  <2>2. task'[u].status = "pending" /\ task'[u].retries = task[u].retries
    BY <1>0, <2>1 DEF TypeOK, Submitted, Fresh
  <2>3. \A v \in Task \ {u} : task'[v] = task[v]
    BY <1>0, <2>1 DEF TypeOK
  <2>4. \A v \in Task : pc'[v] = pc[v] /\ after'[v] = after[v]
    BY <1>0, <1>1, TaskAssumption DEF CreateTask, SaveThen, Goto, TypeOK, Actor
  <2> QED
    BY <1>0, <2>2, <2>3, <2>4 DEF TaskShape, Working
<1>2. ASSUME NEW r \in Request, CreateDuplicate(r)
      PROVE  TaskShape'
  BY <1>0, <1>2, TaskAssumption
  DEF CreateDuplicate, Arrives, Goto, TaskShape, Working, TypeOK, Actor, slots,
      ghosts, bounds
<1>3. ASSUME NEW r \in Request, SubmitAndStart(r)
      PROVE  TaskShape'
  BY <1>0, <1>3, TaskAssumption
  DEF SubmitAndStart, NoRequest, TaskShape, Working, TypeOK, Actor, slots,
      ghosts, bounds
<1>4. ASSUME NEW r \in Request, DeleteRelease(r)
      PROVE  TaskShape'
  BY <1>0, <1>4, TaskAssumption
  DEF DeleteRelease, Goto, TaskShape, Working, TypeOK, Actor, slots, ghosts,
      bounds
<1>5. ASSUME NEW r \in Request, CleanupExpired(r)
      PROVE  TaskShape'
  <2>1. \A u \in Task : /\ task'[u].in => task[u].in
                        /\ task'[u].status = task[u].status
                        /\ task'[u].retries = task[u].retries
    BY <1>0, <1>5, CleanupEffect
  <2>2. \A u \in Task : pc'[u] = pc[u] /\ after'[u] = after[u]
    BY <1>0, <1>5, TaskAssumption DEF CleanupExpired, Goto, TypeOK, Actor
  <2> QED
    BY <1>0, <2>1, <2>2 DEF TaskShape, Working
<1>6. ASSUME NEW r \in Request, RemoveRecord(r)
      PROVE  TaskShape'
  BY <1>0, <1>6, TaskAssumption
  DEF RemoveRecord, Goto, NoRequest, TaskShape, Working, TypeOK, Actor, slots,
      ghosts, bounds
<1>7. ASSUME NEW r \in Request, NEW t \in Task, CancelTask(r, t)
      PROVE  TaskShape'
  BY <1>0, <1>7, TaskAssumption
  DEF CancelTask, Arrives, SaveThen, Goto, CancelContext, TaskShape, Working,
      TypeOK, Actor, slots, ghosts, bounds
<1>8. ASSUME NEW r \in Request, NEW t \in Task, DeleteTask(r, t)
      PROVE  TaskShape'
  BY <1>0, <1>8, TaskAssumption
  DEF DeleteTask, Arrives, Goto, CancelContext, TaskShape, Working, TypeOK,
      Actor, slots, ghosts, bounds
<1>9. ASSUME NEW a \in Actor, SaveSnapshot(a)
      PROVE  TaskShape'
  BY <1>0, <1>9, TaskAssumption
  DEF SaveSnapshot, SaveOver, Goto, Saved, Snapshot, NoRequest, TaskShape,
      Working, TypeOK, Actor, slots, ghosts, bounds
<1>10. ASSUME NEW a \in Actor, SaveWrite(a)
      PROVE  TaskShape'
  BY <1>0, <1>10, TaskAssumption
  DEF SaveWrite, SaveOver, Goto, Saved, NoRequest, TaskShape, Working, TypeOK,
      Actor, slots, ghosts, bounds
<1>11. ASSUME NEW a \in Actor, SaveFails(a)
      PROVE  TaskShape'
  BY <1>0, <1>11, TaskAssumption
  DEF SaveFails, SaveOver, Goto, Saved, NoRequest, TaskShape, Working, TypeOK,
      Actor, slots, ghosts, bounds
<1>12. ASSUME NEW t \in Task, SyncAcquireSlot(t)
      PROVE  TaskShape'
  BY <1>0, <1>12, TaskAssumption
  DEF SyncAcquireSlot, Goto, TaskShape, Working, TypeOK, Actor, slots, ghosts,
      bounds
<1>13. ASSUME NEW t \in Task, Begin(t)
      PROVE  TaskShape'
  BY <1>0, <1>13, TaskAssumption
  DEF Begin, Goto, TaskShape, Working, TypeOK, Actor, slots, ghosts, bounds
<1>14. ASSUME NEW t \in Task, QueueCancelled(t)
      PROVE  TaskShape'
  BY <1>0, <1>14, TaskAssumption
  DEF QueueCancelled, Goto, TaskShape, Working, TypeOK, Actor, slots, ghosts,
      bounds
<1>15. ASSUME NEW t \in Task, Marks(t)
      PROVE  TaskShape'
  <2>1. \A u \in Task \ {t} : /\ task'[u] = task[u]
                              /\ pc'[u] = pc[u]
                              /\ after'[u] = after[u]
    BY <1>0, <1>15, MarkEffect DEF Marked, TypeOK, Actor, SyncInv
  <2>2. /\ task'[t].in => task'[t].status # "none"
        /\ Working(t)' => task'[t].status # "completed"
        /\ pc'[t] \in {"save", "write"} => after'[t] \in {"run", "backoff", "exit"}
        /\ pc'[t] # "retry"
    BY <1>0, <1>15, MarkEffect
    DEF Marked, TaskShape, Working, TypeOK, Actor, SyncInv
  <2> QED
    BY <1>0, <2>1, <2>2 DEF TaskShape, Working
<1>16. ASSUME NEW t \in Task, Ends(t)
      PROVE  TaskShape'
  <2>1. \A u \in Task \ {t} : /\ task'[u] = task[u]
                              /\ pc'[u] = pc[u]
                              /\ after'[u] = after[u]
    BY <1>0, <1>16, EndEffect
    DEF Ended, Settled, SameTask, TypeOK, Actor, SyncInv
  <2>2. task'[t].in => task'[t].status # "none"
    BY <1>0, <1>16, EndEffect DEF Ended, Settled, TaskShape, SyncInv
  <2>3. pc'[t] = "exit" \/ (pc'[t] = "save" /\ after'[t] = "exit")
    <3>1. \/ pc' = [pc EXCEPT ![t] = "exit"]
          \/ /\ pc' = [pc EXCEPT ![t] = "save"]
             /\ after' = [after EXCEPT ![t] = "exit"]
      BY <1>0, <1>16, EndEffect
    <3> QED
      BY <1>0, <3>1 DEF TypeOK, Actor
  <2> QED
    BY <1>0, <2>1, <2>2, <2>3 DEF TaskShape, Working
<1>17. ASSUME NEW t \in Task, RunCancelled(t)
      PROVE  TaskShape'
  BY <1>0, <1>17, TaskAssumption
  DEF RunCancelled, SaveThen, Goto, TaskShape, Working, TypeOK, Actor, slots,
      ghosts, bounds
<1>18. ASSUME NEW t \in Task, RunTransient(t)
      PROVE  TaskShape'
  BY <1>0, <1>18, TaskAssumption
  DEF RunTransient, Goto, TaskShape, Working, TypeOK, Actor, slots, ghosts,
      bounds
<1>19. ASSUME NEW t \in Task, BackoffOver(t)
      PROVE  TaskShape'
  BY <1>0, <1>19, TaskAssumption
  DEF BackoffOver, Goto, TaskShape, Working, TypeOK, Actor, slots, ghosts,
      bounds
<1>20. ASSUME NEW t \in Task, BackoffCancelled(t)
      PROVE  TaskShape'
  BY <1>0, <1>20, TaskAssumption
  DEF BackoffCancelled, Goto, TaskShape, Working, TypeOK, Actor, slots, ghosts,
      bounds
<1>21. ASSUME NEW t \in Task, Exit(t)
      PROVE  TaskShape'
  BY <1>0, <1>21, TaskAssumption
  DEF Exit, Goto, TaskShape, Working, TypeOK, Actor, slots, ghosts, bounds
<1>22. ASSUME OtherStarts PROVE TaskShape'
  BY <1>0, <1>22, TaskAssumption
  DEF OtherStarts, TaskShape, Working, TypeOK, Actor, slots, ghosts, bounds
<1>23. ASSUME OtherEnds PROVE TaskShape'
  BY <1>0, <1>23, TaskAssumption
  DEF OtherEnds, TaskShape, Working, TypeOK, Actor, slots, ghosts, bounds
<1>24. ASSUME Restart PROVE TaskShape'
  BY <1>0, <1>24, RestartEffect DEF TaskShape, Working
<1>25. CASE UNCHANGED vars
  BY <1>0, <1>25 DEF vars, TaskShape, Working, TypeOK, Actor
<1> QED
  BY <1>1, <1>2, <1>3, <1>4, <1>5, <1>6, <1>7, <1>8, <1>9, <1>10, <1>11, <1>12,
     <1>13, <1>14, <1>15, <1>16, <1>17, <1>18, <1>19, <1>20, <1>21, <1>22,
     <1>23, <1>24, <1>25
  DEF Next, Requests, Save, Goroutine, Run, Ends, Marks

\* The books follow the reservations.
LEMMA ExactStep ==
    ASSUME SyncInv, [Next]_vars
    PROVE  Exact'
<1>0. SyncInv /\ TypeOK
  BY DEF SyncInv
<1>1. ASSUME NEW r \in Request, CreateTask(r)
      PROVE  Exact'
  <2>1. PICK u \in Task, size \in {0, Placeholder} :
          /\ task[u] = Fresh
          /\ task' = [task EXCEPT ![u] = Submitted(size)]
          /\ booked' = [booked EXCEPT ![u] = size]
    BY <1>1 DEF CreateTask
  <2>2. task'[u].reserved = size /\ booked'[u] = size
    BY <1>0, <2>1 DEF TypeOK, Submitted, SyncInv
  <2>3. \A v \in Task \ {u} : SameTask(v)
    BY <1>0, <2>1 DEF TypeOK, SameTask, SyncInv
  <2>4. SameReleases
    <3>1. \A s \in Request \ {r} : pc'[s] = pc[s] /\ req'[s] = req[s]
      BY <1>0, <1>1 DEF CreateTask, SaveThen, Goto, TypeOK, Actor, SyncInv
    <3>2. pc[r] = "idle" /\ pc'[r] = "save"
      BY <1>0, <1>1
      DEF CreateTask, Arrives, SaveThen, Goto, TypeOK, Actor, SyncInv
    <3> QED
      BY <3>1, <3>2 DEF SameReleases, Releases
  <2>5. \A s \in Request : ~Releases(s, u)
    BY <1>0, <2>1 DEF SyncInv, ReqShape, Fresh
  <2>6. perFile' = perFile
    BY <1>1 DEF CreateTask
  <2> QED
    BY <1>0, <2>2, <2>3, <2>4, <2>5, <2>6
    DEF SyncInv, Exact, ExactAt, SameReleases, SameTask
<1>2. ASSUME NEW r \in Request, CreateDuplicate(r)
      PROVE  Exact'
  BY <1>0, <1>2, TaskAssumption
  DEF CreateDuplicate, Arrives, Goto, SyncInv, Exact, ExactAt, Releases,
      ReqShape, TaskShape, TypeOK, slots, ghosts, bounds
<1>3. ASSUME NEW r \in Request, SubmitAndStart(r)
      PROVE  Exact'
  <2>1. SameReleases
    <3>1. \A s \in Request \ {r} : pc'[s] = pc[s] /\ req'[s] = req[s]
      BY <1>0, <1>3, TaskAssumption
      DEF SubmitAndStart, TypeOK, Actor, SyncInv, ReqShape
    <3>2. pc[r] = "launch" /\ pc'[r] = "idle"
      BY <1>0, <1>3 DEF SubmitAndStart, TypeOK, Actor, SyncInv
    <3> QED
      BY <3>1, <3>2 DEF SameReleases, Releases
  <2>2. task' = task /\ booked' = booked /\ perFile' = perFile
    BY <1>3 DEF SubmitAndStart
  <2> QED
    BY <1>0, <2>1, <2>2 DEF SyncInv, Exact, ExactAt, SameReleases
<1>4. ASSUME NEW r \in Request, DeleteRelease(r)
      PROVE  Exact'
  BY <1>0, <1>4, TaskAssumption
  DEF DeleteRelease, Goto, SyncInv, Exact, ExactAt, Releases, ReqShape,
      TaskShape, TypeOK, slots, ghosts, bounds
<1>5. ASSUME NEW r \in Request, CleanupExpired(r)
      PROVE  Exact'
  <2>1. \A u \in Task : /\ task'[u].reserved = task[u].reserved
                        /\ task'[u].restored = task[u].restored
                        /\ task'[u].status = task[u].status
    BY <1>0, <1>5, CleanupEffect DEF SyncInv
  <2>2. SameReleases
    <3>1. \A s \in Request \ {r} : pc'[s] = pc[s] /\ req'[s] = req[s]
      BY <1>0, <1>5 DEF CleanupExpired, Goto, TypeOK, Actor, SyncInv
    <3>2. pc[r] = "idle" /\ pc'[r] = "remove"
      BY <1>0, <1>5 DEF CleanupExpired, Arrives, Goto, TypeOK, Actor, SyncInv
    <3> QED
      BY <3>1, <3>2 DEF SameReleases, Releases
  <2>3. booked' = booked /\ perFile' = perFile
    BY <1>5 DEF CleanupExpired
  <2> QED
    BY <1>0, <2>1, <2>2, <2>3 DEF SyncInv, Exact, ExactAt, SameReleases
<1>6. ASSUME NEW r \in Request, RemoveRecord(r)
      PROVE  Exact'
  BY <1>0, <1>6, TaskAssumption
  DEF RemoveRecord, Goto, NoRequest, SyncInv, Exact, ExactAt, Releases,
      ReqShape, TaskShape, TypeOK, slots, ghosts, bounds
<1>7. ASSUME NEW r \in Request, NEW t \in Task, CancelTask(r, t)
      PROVE  Exact'
  <2>1. /\ task[t].in /\ task[t].status \in Active
        /\ task' = [task EXCEPT ![t].status = "cancelled", ![t].reserved = 0]
        /\ booked' = [booked EXCEPT ![t] = booked[t] - task[t].reserved]
        /\ perFile' = perFile
    BY <1>7 DEF CancelTask
  <2>2. SameReleases
    <3>1. \A s \in Request \ {r} : pc'[s] = pc[s] /\ req'[s] = req[s]
      BY <1>0, <1>7 DEF CancelTask, SaveThen, Goto, TypeOK, Actor, SyncInv
    <3>2. pc[r] = "idle" /\ pc'[r] = "save"
      BY <1>0, <1>7
      DEF CancelTask, Arrives, SaveThen, Goto, TypeOK, Actor, SyncInv
    <3> QED
      BY <3>1, <3>2 DEF SameReleases, Releases
  <2>3. \A u \in Task \ {t} : SameTask(u)
    BY <1>0, <2>1 DEF TypeOK, SameTask, SyncInv
  <2>4. /\ task'[t].reserved = 0
        /\ task'[t].restored = task[t].restored
    BY <1>0, <2>1 DEF TypeOK, Object, SyncInv
  <2>5. ~task[t].restored => booked[t] = task[t].reserved
    BY <1>0, <2>1 DEF SyncInv, Exact, ExactAt, ReqShape, Active
  <2>6. task[t].reserved \in Nat /\ booked[t] \in Int
    BY <1>0 DEF TypeOK, Object, SyncInv
  <2>7. ~task[t].restored => booked'[t] = 0
    BY <1>0, <2>1, <2>5, <2>6 DEF TypeOK, SyncInv
  <2>8. \A s \in Request : ~Releases(s, t)
    BY <1>0, <2>1 DEF SyncInv, ReqShape
  <2>9. ExactAt(t)'
    BY <2>2, <2>4, <2>7, <2>8 DEF ExactAt, SameReleases
  <2>10. ASSUME NEW u \in Task \ {t} PROVE ExactAt(u)'
    <3>1. ExactAt(u)
      BY <1>0 DEF SyncInv, Exact
    <3> QED
      BY <2>1, <2>2, <2>3, <3>1, ExactKept DEF SameTask, SameReleases
  <2> QED
    BY <2>9, <2>10 DEF Exact
<1>8. ASSUME NEW r \in Request, NEW t \in Task, DeleteTask(r, t)
      PROVE  Exact'
  <2>1. /\ task[t].in
        /\ task' = [task EXCEPT ![t].in = FALSE, ![t].reserved = 0]
        /\ booked' = booked /\ perFile' = perFile
    BY <1>8 DEF DeleteTask
  <2>2. \A s \in Request \ {r} : pc'[s] = pc[s] /\ req'[s] = req[s]
    BY <1>0, <1>8 DEF DeleteTask, Goto, TypeOK, Actor, SyncInv
  <2>3. /\ pc[r] = "idle" /\ pc'[r] = "release"
        /\ req'[r].task = t /\ req'[r].owed = task[t].reserved
    BY <1>0, <1>8 DEF DeleteTask, Arrives, Goto, TypeOK, Actor, SyncInv
  <2>4. \A s \in Request : ~Releases(s, t)
    BY <1>0, <2>1 DEF SyncInv, ReqShape
  <2>5. \A s \in Request, u \in Task : Releases(s, u)' <=> Releases(s, u) \/ (s = r /\ u = t)
    <3> TAKE s \in Request, u \in Task
    <3>1. CASE s = r
      BY <2>3, <3>1 DEF Releases
    <3>2. CASE s # r
      <4>1. pc'[s] = pc[s] /\ req'[s] = req[s]
        BY <2>2, <3>2
      <4> QED
        BY <3>2, <4>1 DEF Releases
    <3> QED
      BY <3>1, <3>2
  <2>6. \A u \in Task \ {t} : SameTask(u)
    BY <1>0, <2>1 DEF TypeOK, SameTask, SyncInv
  <2>7. /\ task'[t].reserved = 0
        /\ task'[t].restored = task[t].restored
        /\ task'[t].status = task[t].status
    BY <1>0, <2>1 DEF TypeOK, Object, SyncInv
  <2>8. ExactAt(t)'
    <3>1. ExactAt(t)
      BY <1>0 DEF SyncInv, Exact
    <3> QED
      BY <2>1, <2>3, <2>4, <2>5, <2>7, <3>1 DEF ExactAt
  <2>9. ASSUME NEW u \in Task \ {t} PROVE ExactAt(u)'
    <3>1. ExactAt(u)
      BY <1>0 DEF SyncInv, Exact
    <3>2. \A s \in Request : /\ Releases(s, u)' <=> Releases(s, u)
                             /\ Releases(s, u) => req'[s].owed = req[s].owed
      BY <2>2, <2>3, <2>5 DEF Releases
    <3>3. SameTask(u)
      BY <2>6
    <3>4. /\ perFile' = perFile
          /\ booked'[u] = booked[u]
          /\ task'[u].reserved = task[u].reserved
          /\ task'[u].restored = task[u].restored
          /\ task'[u].status = "completed" <=> task[u].status = "completed"
      BY <2>1, <3>3 DEF SameTask
    <3> QED
      BY <3>1, <3>2, <3>4, ExactKept, Zenon
  <2> QED
    BY <2>8, <2>9 DEF Exact
<1>9. ASSUME NEW a \in Actor, SaveSnapshot(a)
      PROVE  Exact'
  <2>1. SameReleases
    <3>1. \A s \in Request \ {a} : pc'[s] = pc[s] /\ req'[s] = req[s]
      BY <1>0, <1>9 DEF SaveSnapshot, SaveOver, Goto, TypeOK, Actor, SyncInv
    <3>2. a \in Request => pc[a] = "save" /\ pc'[a] # "release"
      BY <1>0, <1>9
      DEF SaveSnapshot, SaveOver, Goto, TypeOK, Actor, SyncInv, ReqShape
    <3> QED
      BY <3>1, <3>2 DEF SameReleases, Releases
  <2>2. task' = task /\ booked' = booked /\ perFile' = perFile
    BY <1>9 DEF SaveSnapshot
  <2> QED
    BY <1>0, <2>1, <2>2 DEF SyncInv, Exact, ExactAt, SameReleases
<1>10. ASSUME NEW a \in Actor, SaveWrite(a)
      PROVE  Exact'
  BY <1>0, <1>10, TaskAssumption
  DEF SaveWrite, SaveOver, Goto, Saved, NoRequest, SyncInv, Exact, ExactAt,
      Releases, ReqShape, TaskShape, TypeOK, slots, ghosts, bounds
<1>11. ASSUME NEW a \in Actor, SaveFails(a)
      PROVE  Exact'
  BY <1>0, <1>11, TaskAssumption
  DEF SaveFails, SaveOver, Goto, Saved, NoRequest, SyncInv, Exact, ExactAt,
      Releases, ReqShape, TaskShape, TypeOK, slots, ghosts, bounds
<1>12. ASSUME NEW t \in Task, SyncAcquireSlot(t)
      PROVE  Exact'
  BY <1>0, <1>12, TaskAssumption
  DEF SyncAcquireSlot, Goto, SyncInv, Exact, ExactAt, Releases, ReqShape,
      TaskShape, TypeOK, slots, ghosts, bounds
<1>13. ASSUME NEW t \in Task, Begin(t)
      PROVE  Exact'
  BY <1>0, <1>13, TaskAssumption
  DEF Begin, Goto, SyncInv, Exact, ExactAt, Releases, ReqShape, TaskShape,
      TypeOK, slots, ghosts, bounds
<1>14. ASSUME NEW t \in Task, QueueCancelled(t)
      PROVE  Exact'
  BY <1>0, <1>14, TaskAssumption
  DEF QueueCancelled, Goto, SyncInv, Exact, ExactAt, Releases, ReqShape,
      TaskShape, TypeOK, slots, ghosts, bounds
<1>15. ASSUME NEW t \in Task, Marks(t)
      PROVE  Exact'
  <2>1. SameReleases
    BY <1>0, <1>15, MarkEffect, TaskAssumption
    DEF Marked, SameReleases, Releases, TypeOK, Actor, SyncInv
  <2>2. \A u \in Task : /\ task'[u].reserved = task[u].reserved
                        /\ task'[u].restored = task[u].restored
                        /\ task[u].status = "completed" <=> task'[u].status = "completed"
    BY <1>0, <1>15, MarkEffect DEF Marked
  <2>3. booked' = booked /\ perFile' = perFile
    BY <1>0, <1>15, MarkEffect
  <2>4. ASSUME NEW u \in Task PROVE ExactAt(u)'
    <3>1. ExactAt(u)
      BY <1>0 DEF SyncInv, Exact
    <3>2. /\ perFile' = perFile
          /\ booked'[u] = booked[u]
          /\ task'[u].reserved = task[u].reserved
          /\ task'[u].restored = task[u].restored
          /\ task'[u].status = "completed" <=> task[u].status = "completed"
      BY <2>2, <2>3
    <3> QED
      BY <2>1, <3>1, <3>2, ExactKept, Zenon DEF SameReleases
  <2> QED
    BY <2>4 DEF Exact
<1>16. ASSUME NEW t \in Task, Ends(t)
      PROVE  Exact'
  BY <1>0, <1>16, EndExact
<1>17. ASSUME NEW t \in Task, RunCancelled(t)
      PROVE  Exact'
  BY <1>0, <1>17, TaskAssumption
  DEF RunCancelled, SaveThen, Goto, SyncInv, Exact, ExactAt, Releases,
      ReqShape, TaskShape, TypeOK, slots, ghosts, bounds
<1>18. ASSUME NEW t \in Task, RunTransient(t)
      PROVE  Exact'
  BY <1>0, <1>18, TaskAssumption
  DEF RunTransient, Goto, SyncInv, Exact, ExactAt, Releases, ReqShape,
      TaskShape, TypeOK, slots, ghosts, bounds
<1>19. ASSUME NEW t \in Task, BackoffOver(t)
      PROVE  Exact'
  BY <1>0, <1>19, TaskAssumption
  DEF BackoffOver, Goto, SyncInv, Exact, ExactAt, Releases, ReqShape,
      TaskShape, TypeOK, slots, ghosts, bounds
<1>20. ASSUME NEW t \in Task, BackoffCancelled(t)
      PROVE  Exact'
  BY <1>0, <1>20, TaskAssumption
  DEF BackoffCancelled, Goto, SyncInv, Exact, ExactAt, Releases, ReqShape,
      TaskShape, TypeOK, slots, ghosts, bounds
<1>21. ASSUME NEW t \in Task, Exit(t)
      PROVE  Exact'
  BY <1>0, <1>21, TaskAssumption
  DEF Exit, Goto, SyncInv, Exact, ExactAt, Releases, ReqShape, TaskShape,
      TypeOK, slots, ghosts, bounds
<1>22. ASSUME OtherStarts PROVE Exact'
  BY <1>0, <1>22, TaskAssumption
  DEF OtherStarts, SyncInv, Exact, ExactAt, Releases, ReqShape, TaskShape,
      TypeOK, slots, ghosts, bounds
<1>23. ASSUME OtherEnds PROVE Exact'
  BY <1>0, <1>23, TaskAssumption
  DEF OtherEnds, SyncInv, Exact, ExactAt, Releases, ReqShape, TaskShape,
      TypeOK, slots, ghosts, bounds
<1>24. ASSUME Restart PROVE Exact'
  <2>1. \A r \in Request : pc'[r] = "idle"
    BY <1>24 DEF Restart, Actor
  <2> QED
    BY <1>0, <1>24, <2>1, RestartEffect DEF Exact, ExactAt, Releases, SyncInv
<1>25. CASE UNCHANGED vars
  BY <1>0, <1>25
  DEF vars, SyncInv, Exact, ExactAt, Releases, ReqShape, TaskShape, TypeOK
<1> QED
  BY <1>1, <1>2, <1>3, <1>4, <1>5, <1>6, <1>7, <1>8, <1>9, <1>10, <1>11, <1>12,
     <1>13, <1>14, <1>15, <1>16, <1>17, <1>18, <1>19, <1>20, <1>21, <1>22,
     <1>23, <1>24, <1>25
  DEF Next, Requests, Save, Goroutine, Run, Ends, Marks

\* Only exhausted retries leave a reservation behind.
LEMMA FreedStep ==
    ASSUME SyncInv, [Next]_vars
    PROVE  Freed'
<1>0. SyncInv /\ TypeOK
  BY DEF SyncInv
<1>1. ASSUME NEW r \in Request, CreateTask(r)
      PROVE  Freed'
  <2>1. PICK u \in Task, size \in {0, Placeholder} :
          task' = [task EXCEPT ![u] = Submitted(size)]
    BY <1>1 DEF CreateTask
  <2>2. task'[u].status = "pending"
    BY <1>0, <2>1 DEF TypeOK, Submitted, SyncInv
  <2>3. \A v \in Task \ {u} : task'[v] = task[v]
    BY <1>0, <2>1 DEF TypeOK, SyncInv
  <2>4. spent' = spent
    BY <1>1 DEF CreateTask, ghosts
  <2> QED
    BY <1>0, <2>2, <2>3, <2>4 DEF Freed, SyncInv
<1>2. ASSUME NEW r \in Request, CreateDuplicate(r)
      PROVE  Freed'
  BY <1>0, <1>2
  DEF CreateDuplicate, Arrives, Goto, SyncInv, Freed, TypeOK, slots, ghosts,
      bounds
<1>3. ASSUME NEW r \in Request, SubmitAndStart(r)
      PROVE  Freed'
  BY <1>0, <1>3
  DEF SubmitAndStart, NoRequest, SyncInv, Freed, TypeOK, slots, ghosts, bounds
<1>4. ASSUME NEW r \in Request, DeleteRelease(r)
      PROVE  Freed'
  BY <1>0, <1>4
  DEF DeleteRelease, Goto, SyncInv, Freed, TypeOK, slots, ghosts, bounds
<1>5. ASSUME NEW r \in Request, CleanupExpired(r)
      PROVE  Freed'
  BY <1>0, <1>5, CleanupEffect DEF Freed, SyncInv, CleanupExpired, ghosts
<1>6. ASSUME NEW r \in Request, RemoveRecord(r)
      PROVE  Freed'
  BY <1>0, <1>6
  DEF RemoveRecord, Goto, NoRequest, SyncInv, Freed, TypeOK, slots, ghosts,
      bounds
<1>7. ASSUME NEW r \in Request, NEW t \in Task, CancelTask(r, t)
      PROVE  Freed'
  BY <1>0, <1>7
  DEF CancelTask, Arrives, SaveThen, Goto, CancelContext, SyncInv, Freed,
      TypeOK, slots, ghosts, bounds
<1>8. ASSUME NEW r \in Request, NEW t \in Task, DeleteTask(r, t)
      PROVE  Freed'
  BY <1>0, <1>8
  DEF DeleteTask, Arrives, Goto, CancelContext, SyncInv, Freed, TypeOK, slots,
      ghosts, bounds
<1>9. ASSUME NEW a \in Actor, SaveSnapshot(a)
      PROVE  Freed'
  BY <1>0, <1>9
  DEF SaveSnapshot, SaveOver, Goto, Saved, Snapshot, NoRequest, SyncInv, Freed,
      TypeOK, slots, ghosts, bounds
<1>10. ASSUME NEW a \in Actor, SaveWrite(a)
      PROVE  Freed'
  BY <1>0, <1>10
  DEF SaveWrite, SaveOver, Goto, Saved, NoRequest, SyncInv, Freed, TypeOK,
      slots, ghosts, bounds
<1>11. ASSUME NEW a \in Actor, SaveFails(a)
      PROVE  Freed'
  BY <1>0, <1>11
  DEF SaveFails, SaveOver, Goto, Saved, NoRequest, SyncInv, Freed, TypeOK,
      slots, ghosts, bounds
<1>12. ASSUME NEW t \in Task, SyncAcquireSlot(t)
      PROVE  Freed'
  BY <1>0, <1>12
  DEF SyncAcquireSlot, Goto, SyncInv, Freed, TypeOK, slots, ghosts, bounds
<1>13. ASSUME NEW t \in Task, Begin(t)
      PROVE  Freed'
  BY <1>0, <1>13 DEF Begin, Goto, SyncInv, Freed, TypeOK, slots, ghosts, bounds
<1>14. ASSUME NEW t \in Task, QueueCancelled(t)
      PROVE  Freed'
  BY <1>0, <1>14
  DEF QueueCancelled, Goto, SyncInv, Freed, TypeOK, slots, ghosts, bounds
<1>15. ASSUME NEW t \in Task, Marks(t)
      PROVE  Freed'
  BY <1>0, <1>15, MarkEffect DEF Marked, Freed, SyncInv
<1>16. ASSUME NEW t \in Task, Ends(t)
      PROVE  Freed'
  BY <1>0, <1>16, EndEffect DEF Ended, Settled, SameTask, Freed, SyncInv
<1>17. ASSUME NEW t \in Task, RunCancelled(t)
      PROVE  Freed'
  BY <1>0, <1>17
  DEF RunCancelled, SaveThen, Goto, SyncInv, Freed, TypeOK, slots, ghosts,
      bounds
<1>18. ASSUME NEW t \in Task, RunTransient(t)
      PROVE  Freed'
  BY <1>0, <1>18
  DEF RunTransient, Goto, SyncInv, Freed, TypeOK, slots, ghosts, bounds
<1>19. ASSUME NEW t \in Task, BackoffOver(t)
      PROVE  Freed'
  BY <1>0, <1>19
  DEF BackoffOver, Goto, SyncInv, Freed, TypeOK, slots, ghosts, bounds
<1>20. ASSUME NEW t \in Task, BackoffCancelled(t)
      PROVE  Freed'
  BY <1>0, <1>20
  DEF BackoffCancelled, Goto, SyncInv, Freed, TypeOK, slots, ghosts, bounds
<1>21. ASSUME NEW t \in Task, Exit(t)
      PROVE  Freed'
  BY <1>0, <1>21 DEF Exit, Goto, SyncInv, Freed, TypeOK, slots, ghosts, bounds
<1>22. ASSUME OtherStarts PROVE Freed'
  BY <1>0, <1>22 DEF OtherStarts, SyncInv, Freed, TypeOK, slots, ghosts, bounds
<1>23. ASSUME OtherEnds PROVE Freed'
  BY <1>0, <1>23 DEF OtherEnds, SyncInv, Freed, TypeOK, slots, ghosts, bounds
<1>24. ASSUME Restart PROVE Freed'
  BY <1>0, <1>24, RestartEffect DEF Freed, SyncInv
<1>25. CASE UNCHANGED vars
  BY <1>0, <1>25 DEF vars, SyncInv, Freed, TypeOK
<1> QED
  BY <1>1, <1>2, <1>3, <1>4, <1>5, <1>6, <1>7, <1>8, <1>9, <1>10, <1>11, <1>12,
     <1>13, <1>14, <1>15, <1>16, <1>17, <1>18, <1>19, <1>20, <1>21, <1>22,
     <1>23, <1>24, <1>25
  DEF Next, Requests, Save, Goroutine, Run, Ends, Marks

\* The manager starts with no task, no request and no books.
LEMMA SyncInit == Init => SyncInv
<1> SUFFICES ASSUME Init PROVE SyncInv
  OBVIOUS
<1>1. TypeOK
  <2>1. Fresh \in Object /\ NoRequest \in Work
    BY RetriesAssumption DEF Fresh, Object, NoRequest, Work
  <2>2. task \in [Task -> Object] /\ req \in [Request -> Work]
    BY <2>1 DEF Init
  <2>3. pc \in [Actor -> Step]
    BY DEF Init, Step
  <2> QED
    BY <2>2, <2>3, CapacityAssumption, BoundAssumption DEF Init, TypeOK
<1>2. /\ \A r \in Request : pc[r] = "idle"
      /\ \A t \in Task : pc[t] = "none" /\ task[t] = Fresh /\ booked[t] = 0
  BY TaskAssumption DEF Init, Actor
<1>3. ReqShape
  BY <1>2 DEF ReqShape, Releases
<1>4. TaskShape
  BY <1>2 DEF TaskShape, Working, Fresh
<1>5. Exact
  BY <1>2 DEF Exact, ExactAt, Releases, Fresh
<1>6. Freed
  BY <1>2 DEF Freed, Fresh
<1> QED
  BY <1>1, <1>3, <1>4, <1>5, <1>6 DEF SyncInv

\* The parts of SyncInv together are inductive.
LEMMA SyncStep == SyncInv /\ [Next]_vars => SyncInv'
BY TypeStep, ReqStep, TaskStep, ExactStep, FreedStep DEF SyncInv

\* SyncInv holds in every reachable state.
LEMMA SyncInvariant == Spec => []SyncInv
<1>1. Init => SyncInv
  BY SyncInit
<1>2. SyncInv /\ [Next]_vars => SyncInv'
  BY SyncStep
<1> QED
  BY <1>1, <1>2, PTL DEF Spec

\* At most one DeleteTask has taken the reservation of a task over.
LEMMA ExactBooks == SyncInv => BookedExact
<1> SUFFICES ASSUME SyncInv, NEW t \in Task,
                    ~task[t].restored, ~(perFile /\ task[t].status = "completed")
             PROVE  IF Owed(t) = {} THEN booked[t] = task[t].reserved
                    ELSE \E r \in Owed(t) : /\ Owed(t) = {r}
                                            /\ task[t].reserved = 0
                                            /\ booked[t] = req[r].owed
  BY DEF BookedExact
<1>1. ExactAt(t)
  BY DEF SyncInv, Exact
<1>2. Owed(t) = {r \in Request : Releases(r, t)}
  BY DEF Owed, Releases
<1>3. CASE Owed(t) = {}
  BY <1>1, <1>2, <1>3 DEF ExactAt
<1>4. CASE Owed(t) # {}
  <2>1. PICK r \in Request : Releases(r, t)
    BY <1>2, <1>4
  <2>2. Owed(t) = {r}
    BY <1>2, <2>1 DEF SyncInv, ReqShape
  <2> QED
    BY <1>1, <1>2, <1>4, <2>1, <2>2 DEF ExactAt
<1> QED
  BY <1>3, <1>4

\* With exact books, what is not reserved is not booked.
LEMMA NothingLeft == SyncInv => NothingPinned
<1> SUFFICES ASSUME SyncInv, NEW t \in Task, Abandoned(t), booked[t] # 0
             PROVE  t \in spent
  BY DEF NothingPinned
<1>1. BookedExact
  BY ExactBooks
<1>2. booked[t] = task[t].reserved
  BY <1>1 DEF BookedExact, Abandoned
<1>3. task[t].reserved = 0 \/ t \in spent
  BY DEF SyncInv, Freed, Abandoned
<1> QED
  BY <1>2, <1>3

-----------------------------------------------------------------------------
(* One executor per source and destination.                                 *)

\* The goroutine of t has gone through syncMarkStarted and has no result yet.
Started(t) ==
    \/ pc[t] \in {"run", "retry", "backoff"}
    \/ pc[t] \in {"save", "write"} /\ after[t] \in {"run", "backoff"}

\* A task CreateTask finds when it looks for a duplicate, and that no restart
\* has brought back.
Live(t) == task[t].in /\ task[t].status \in Active /\ t \notin revived

\* There is one such task for the source and destination, and a goroutine
\* that has started works for a task that is active or was cancelled.
RunInv ==
    /\ \A t, u \in Task : Live(t) /\ Live(u) => t = u
    /\ \A t \in Task :
          /\ Started(t) => task[t].status \in {"syncing", "retrying", "cancelled"}
          /\ task[t].status = "none" => pc[t] = "none"

\* Every step keeps one live task, and started goroutines with it.
LEMMA RunStep ==
    ASSUME SyncInv, RunInv, [Next]_vars
    PROVE  RunInv'
<1>0. SyncInv /\ TypeOK /\ TaskShape /\ RunInv
  BY DEF SyncInv
<1>1. ASSUME NEW r \in Request, CreateTask(r)
      PROVE  RunInv'
  <2>1. PICK u \in Task, size \in {0, Placeholder} :
          task[u] = Fresh /\ task' = [task EXCEPT ![u] = Submitted(size)]
    BY <1>1 DEF CreateTask
  <2>2. /\ task'[u].status = "pending" /\ pc[u] = "none" /\ u \in Actor
        /\ \A v \in Task \ {u} : task'[v] = task[v]
    BY <1>0, <2>1 DEF TypeOK, Submitted, Fresh, RunInv, Actor
  <2>3. \A v \in Task : pc'[v] = pc[v] /\ after'[v] = after[v]
    BY <1>0, <1>1, TaskAssumption DEF CreateTask, SaveThen, Goto, TypeOK, Actor
  <2>4. revived' = revived /\ \A v \in Task : ~Live(v)
    BY <1>1 DEF CreateTask, ghosts, Live
  <2>5. \A v \in Task : Live(v)' => v = u
    BY <2>2, <2>4 DEF Live
  <2>6. \A v \in Task : Started(v)' <=> Started(v)
    BY <2>3 DEF Started
  <2>7. ~Started(u)
    BY <2>2 DEF Started
  <2> QED
    BY <1>0, <2>2, <2>3, <2>5, <2>6, <2>7 DEF RunInv
<1>2. ASSUME NEW r \in Request, CreateDuplicate(r)
      PROVE  RunInv'
  <2>1. task' = task /\ revived' = revived
    BY <1>2 DEF CreateDuplicate, ghosts
  <2>2. \A v \in Task : pc'[v] = pc[v] /\ after'[v] = after[v]
    BY <1>0, <1>2, TaskAssumption DEF CreateDuplicate, Goto, TypeOK, Actor
  <2> QED
    BY <1>0, <2>1, <2>2 DEF RunInv, Live, Started
<1>3. ASSUME NEW r \in Request, SubmitAndStart(r)
      PROVE  RunInv'
  <2>1. task' = task /\ after' = after /\ revived' = revived
    BY <1>3 DEF SubmitAndStart, ghosts
  <2>2. \A v \in Task : \/ pc'[v] = pc[v]
                        \/ pc'[v] = "begin" /\ task[v].status = "pending"
    BY <1>0, <1>3, TaskAssumption DEF SubmitAndStart, TypeOK, Actor
  <2> QED
    BY <1>0, <2>1, <2>2 DEF RunInv, Live, Started
<1>4. ASSUME NEW r \in Request, DeleteRelease(r)
      PROVE  RunInv'
  <2>1. task' = task /\ revived' = revived
    BY <1>4 DEF DeleteRelease, ghosts
  <2>2. \A v \in Task : pc'[v] = pc[v] /\ after'[v] = after[v]
    BY <1>0, <1>4, TaskAssumption DEF DeleteRelease, Goto, TypeOK, Actor
  <2> QED
    BY <1>0, <2>1, <2>2 DEF RunInv, Live, Started
<1>5. ASSUME NEW r \in Request, CleanupExpired(r)
      PROVE  RunInv'
  <2>1. \A v \in Task : pc'[v] = pc[v] /\ after'[v] = after[v]
    BY <1>0, <1>5, TaskAssumption DEF CleanupExpired, Goto, TypeOK, Actor
  <2>2. revived' = revived
    BY <1>5 DEF CleanupExpired, ghosts
  <2> QED
    BY <1>0, <1>5, <2>1, <2>2, CleanupEffect DEF RunInv, Live, Started
<1>6. ASSUME NEW r \in Request, RemoveRecord(r)
      PROVE  RunInv'
  <2>1. task' = task /\ revived' = revived
    BY <1>6 DEF RemoveRecord, ghosts
  <2>2. \A v \in Task : pc'[v] = pc[v] /\ after'[v] = after[v]
    BY <1>0, <1>6, TaskAssumption DEF RemoveRecord, Goto, TypeOK, Actor
  <2> QED
    BY <1>0, <2>1, <2>2 DEF RunInv, Live, Started
<1>7. ASSUME NEW r \in Request, NEW t \in Task, CancelTask(r, t)
      PROVE  RunInv'
  <2>1. \A v \in Task : pc'[v] = pc[v] /\ after'[v] = after[v]
    BY <1>0, <1>7, TaskAssumption DEF CancelTask, SaveThen, Goto, TypeOK, Actor
  <2>2. revived' = revived
    BY <1>7 DEF CancelTask, ghosts
  <2>3. /\ \A v \in Task \ {t} : task'[v] = task[v]
        /\ task'[t].status = "cancelled"
    BY <1>0, <1>7 DEF CancelTask, TypeOK, Object
  <2> QED
    BY <1>0, <2>1, <2>2, <2>3 DEF RunInv, Live, Started, Active
<1>8. ASSUME NEW r \in Request, NEW t \in Task, DeleteTask(r, t)
      PROVE  RunInv'
  <2>1. \A v \in Task : pc'[v] = pc[v] /\ after'[v] = after[v]
    BY <1>0, <1>8, TaskAssumption DEF DeleteTask, Goto, TypeOK, Actor
  <2>2. revived' = revived
    BY <1>8 DEF DeleteTask, ghosts
  <2>3. /\ \A v \in Task \ {t} : task'[v] = task[v]
        /\ task'[t].in = FALSE /\ task'[t].status = task[t].status
    BY <1>0, <1>8 DEF DeleteTask, TypeOK, Object
  <2> QED
    BY <1>0, <2>1, <2>2, <2>3 DEF RunInv, Live, Started
<1>9. ASSUME NEW a \in Actor, SaveSnapshot(a)
      PROVE  RunInv'
  <2>1. task' = task /\ revived' = revived
    BY <1>9 DEF SaveSnapshot, ghosts
  <2>2. \A v \in Task :
           \/ pc'[v] = pc[v] /\ after'[v] = after[v]
           \/ pc[v] = "save" /\ pc'[v] = "write" /\ after'[v] = after[v]
           \/ pc[v] \in {"save", "write"} /\ pc'[v] = after[v]
    BY <1>0, <1>9 DEF SaveSnapshot, SaveOver, Goto, TypeOK, Actor
  <2>3. \A v \in Task : pc[v] \in {"save", "write"} => after[v] # "none"
    BY <1>0 DEF TaskShape
  <2>4. \A v \in Task : Started(v)' => Started(v)
    BY <1>0, <2>2, <2>3 DEF Started, TaskShape
  <2>5. \A v \in Task : pc[v] = "none" => pc'[v] = "none"
    BY <2>2
  <2> QED
    BY <1>0, <2>1, <2>4, <2>5 DEF RunInv, Live
<1>10. ASSUME NEW a \in Actor, SaveWrite(a)
      PROVE  RunInv'
  <2>1. task' = task /\ revived' = revived
    BY <1>10 DEF SaveWrite, ghosts
  <2>2. \A v \in Task :
           \/ pc'[v] = pc[v] /\ after'[v] = after[v]
           \/ pc[v] = "save" /\ pc'[v] = "write" /\ after'[v] = after[v]
           \/ pc[v] \in {"save", "write"} /\ pc'[v] = after[v]
    BY <1>0, <1>10 DEF SaveWrite, SaveOver, Goto, TypeOK, Actor
  <2>3. \A v \in Task : pc[v] \in {"save", "write"} => after[v] # "none"
    BY <1>0 DEF TaskShape
  <2>4. \A v \in Task : Started(v)' => Started(v)
    BY <1>0, <2>2, <2>3 DEF Started, TaskShape
  <2>5. \A v \in Task : pc[v] = "none" => pc'[v] = "none"
    BY <2>2
  <2> QED
    BY <1>0, <2>1, <2>4, <2>5 DEF RunInv, Live
<1>11. ASSUME NEW a \in Actor, SaveFails(a)
      PROVE  RunInv'
  <2>1. task' = task /\ revived' = revived
    BY <1>11 DEF SaveFails, ghosts
  <2>2. \A v \in Task :
           \/ pc'[v] = pc[v] /\ after'[v] = after[v]
           \/ pc[v] = "save" /\ pc'[v] = "write" /\ after'[v] = after[v]
           \/ pc[v] \in {"save", "write"} /\ pc'[v] = after[v]
    BY <1>0, <1>11 DEF SaveFails, SaveOver, Goto, TypeOK, Actor
  <2>3. \A v \in Task : pc[v] \in {"save", "write"} => after[v] # "none"
    BY <1>0 DEF TaskShape
  <2>4. \A v \in Task : Started(v)' => Started(v)
    BY <1>0, <2>2, <2>3 DEF Started, TaskShape
  <2>5. \A v \in Task : pc[v] = "none" => pc'[v] = "none"
    BY <2>2
  <2> QED
    BY <1>0, <2>1, <2>4, <2>5 DEF RunInv, Live
<1>12. ASSUME NEW t \in Task, SyncAcquireSlot(t)
      PROVE  RunInv'
  <2>1. task' = task /\ revived' = revived
    BY <1>12 DEF SyncAcquireSlot, ghosts
  <2>2. \A v \in Task \ {t} : pc'[v] = pc[v] /\ after'[v] = after[v]
    BY <1>0, <1>12 DEF SyncAcquireSlot, Goto, TypeOK, Actor
  <2>3. (Started(t)' => Started(t)) /\ pc[t] # "none"
    BY <1>0, <1>12 DEF SyncAcquireSlot, Goto, Started, TypeOK, Actor
  <2> QED
    BY <1>0, <2>1, <2>2, <2>3 DEF RunInv, Live, Started
<1>13. ASSUME NEW t \in Task, Begin(t)
      PROVE  RunInv'
  <2>1. task' = task /\ revived' = revived
    BY <1>13 DEF Begin, ghosts
  <2>2. \A v \in Task \ {t} : pc'[v] = pc[v] /\ after'[v] = after[v]
    BY <1>0, <1>13 DEF Begin, Goto, TypeOK, Actor
  <2>3. (Started(t)' => Started(t)) /\ pc[t] # "none"
    BY <1>0, <1>13 DEF Begin, Goto, Started, TypeOK, Actor
  <2> QED
    BY <1>0, <2>1, <2>2, <2>3 DEF RunInv, Live, Started
<1>14. ASSUME NEW t \in Task, QueueCancelled(t)
      PROVE  RunInv'
  <2>1. task' = task /\ revived' = revived
    BY <1>14 DEF QueueCancelled, ghosts
  <2>2. \A v \in Task \ {t} : pc'[v] = pc[v] /\ after'[v] = after[v]
    BY <1>0, <1>14 DEF QueueCancelled, Goto, TypeOK, Actor
  <2>3. (Started(t)' => Started(t)) /\ pc[t] # "none"
    BY <1>0, <1>14 DEF QueueCancelled, Goto, Started, TypeOK, Actor
  <2> QED
    BY <1>0, <2>1, <2>2, <2>3 DEF RunInv, Live, Started
<1>15. ASSUME NEW t \in Task, Marks(t)
      PROVE  RunInv'
  <2>1. revived' = revived
    BY <1>15 DEF Marks, SyncMarkStarted, MarkRetrying, ghosts
  <2>2. CASE Marked(t)
    <3>1. Live(t)' => Live(t)
      BY <2>1, <1>15 DEF Live, Marks, SyncMarkStarted, MarkRetrying, Allowed, Active
    <3>2. \A v \in Task \ {t} : pc'[v] = pc[v] /\ after'[v] = after[v]
      BY <1>0, <2>2 DEF Marked, TypeOK, Actor
    <3> QED
      BY <1>0, <2>1, <2>2, <3>1, <3>2 DEF RunInv, Live, Started, Marked
  <2>3. CASE task' = task /\ after' = after /\ pc' = [pc EXCEPT ![t] = "exit"]
    <3>1. pc[t] # "none"
      BY <1>0, <1>15, MarkEffect
    <3> QED
      BY <1>0, <2>1, <2>3, <3>1 DEF RunInv, Live, Started, TypeOK, Actor
  <2> QED
    BY <1>0, <2>2, <2>3, <1>15, MarkEffect
<1>16. ASSUME NEW t \in Task, Ends(t)
      PROVE  RunInv'
  <2>1. revived' = revived /\ pc[t] = "run"
    BY <1>16 DEF Ends, RunCompletes, RunFails, FailTask, SyncRetryExhausted, ghosts
  <2>2. /\ pc'[t] \in {"exit", "save"} /\ (pc'[t] = "save" => after'[t] = "exit")
        /\ \A v \in Task \ {t} : pc'[v] = pc[v] /\ after'[v] = after[v]
    BY <1>0, <1>16, EndEffect DEF TypeOK, Actor
  <2>3. CASE task' = task
    BY <1>0, <2>1, <2>2, <2>3 DEF RunInv, Live, Started
  <2>4. CASE \E s, n, c : Ended(t, s, n, c)
    <3>1. /\ \A v \in Task \ {t} : task'[v] = task[v]
          /\ task'[t].status \in {"completed", "failed"}
      BY <2>4 DEF Ended, Settled, SameTask
    <3> QED
      BY <1>0, <2>1, <2>2, <3>1 DEF RunInv, Live, Started, Active
  <2> QED
    BY <1>0, <2>3, <2>4, <1>16, EndEffect
<1>17. ASSUME NEW t \in Task, RunCancelled(t)
      PROVE  RunInv'
  <2>1. task' = task /\ revived' = revived
    BY <1>17 DEF RunCancelled, ghosts
  <2>2. \A v \in Task \ {t} : pc'[v] = pc[v] /\ after'[v] = after[v]
    BY <1>0, <1>17 DEF RunCancelled, SaveThen, Goto, TypeOK, Actor
  <2>3. (Started(t)' => Started(t)) /\ pc[t] # "none"
    BY <1>0, <1>17 DEF RunCancelled, SaveThen, Goto, Started, TypeOK, Actor
  <2> QED
    BY <1>0, <2>1, <2>2, <2>3 DEF RunInv, Live, Started
<1>18. ASSUME NEW t \in Task, RunTransient(t)
      PROVE  RunInv'
  <2>1. task' = task /\ revived' = revived
    BY <1>18 DEF RunTransient, ghosts
  <2>2. \A v \in Task \ {t} : pc'[v] = pc[v] /\ after'[v] = after[v]
    BY <1>0, <1>18 DEF RunTransient, Goto, TypeOK, Actor
  <2>3. (Started(t)' => Started(t)) /\ pc[t] # "none"
    BY <1>0, <1>18 DEF RunTransient, Goto, Started, TypeOK, Actor
  <2> QED
    BY <1>0, <2>1, <2>2, <2>3 DEF RunInv, Live, Started
<1>19. ASSUME NEW t \in Task, BackoffOver(t)
      PROVE  RunInv'
  <2>1. task' = task /\ revived' = revived
    BY <1>19 DEF BackoffOver, ghosts
  <2>2. \A v \in Task \ {t} : pc'[v] = pc[v] /\ after'[v] = after[v]
    BY <1>0, <1>19 DEF BackoffOver, Goto, TypeOK, Actor
  <2>3. (Started(t)' => Started(t)) /\ pc[t] # "none"
    BY <1>0, <1>19 DEF BackoffOver, Goto, Started, TypeOK, Actor
  <2> QED
    BY <1>0, <2>1, <2>2, <2>3 DEF RunInv, Live, Started
<1>20. ASSUME NEW t \in Task, BackoffCancelled(t)
      PROVE  RunInv'
  <2>1. task' = task /\ revived' = revived
    BY <1>20 DEF BackoffCancelled, ghosts
  <2>2. \A v \in Task \ {t} : pc'[v] = pc[v] /\ after'[v] = after[v]
    BY <1>0, <1>20 DEF BackoffCancelled, Goto, TypeOK, Actor
  <2>3. (Started(t)' => Started(t)) /\ pc[t] # "none"
    BY <1>0, <1>20 DEF BackoffCancelled, Goto, Started, TypeOK, Actor
  <2> QED
    BY <1>0, <2>1, <2>2, <2>3 DEF RunInv, Live, Started
<1>21. ASSUME NEW t \in Task, Exit(t)
      PROVE  RunInv'
  <2>1. task' = task /\ revived' = revived
    BY <1>21 DEF Exit, ghosts
  <2>2. \A v \in Task \ {t} : pc'[v] = pc[v] /\ after'[v] = after[v]
    BY <1>0, <1>21 DEF Exit, Goto, TypeOK, Actor
  <2>3. (Started(t)' => Started(t)) /\ pc[t] # "none"
    BY <1>0, <1>21 DEF Exit, Goto, Started, TypeOK, Actor
  <2> QED
    BY <1>0, <2>1, <2>2, <2>3 DEF RunInv, Live, Started
<1>22. ASSUME OtherStarts PROVE RunInv'
  BY <1>0, <1>22 DEF OtherStarts, RunInv, Live, Started, ghosts
<1>23. ASSUME OtherEnds PROVE RunInv'
  BY <1>0, <1>23 DEF OtherEnds, RunInv, Live, Started, ghosts
<1>24. ASSUME Restart PROVE RunInv'
  <2>1. \A v \in Task : Live(v)' => Live(v)
    <3> SUFFICES ASSUME NEW v \in Task, Live(v)' PROVE Live(v)
      OBVIOUS
    <3>1. PICK torn :
            LET kept == [u \in Task |-> IF u \in torn THEN NoRecord ELSE json[u]]
            IN  /\ task' = [u \in Task |-> Recovered(u, kept[u])]
                /\ revived' = revived \cup
                      {u \in Task : /\ kept[u].status \in Active
                                    /\ ~task[u].in \/ task[u].status \in Terminal}
      BY <1>24 DEF Restart
    <3> DEFINE rec == IF v \in torn THEN NoRecord ELSE json[v]
    <3>2. task'[v] = Recovered(v, rec)
      BY <3>1
    <3>3. rec # NoRecord /\ rec.status = task'[v].status
      <4>1. CASE rec = NoRecord
        <5>1. task'[v].in = FALSE
          BY <1>0, <3>2, <4>1 DEF Recovered, TypeOK, Object
        <5> QED
          BY <5>1 DEF Live
      <4>2. CASE rec # NoRecord
        BY <3>2, <4>2 DEF Recovered
      <4> QED
        BY <4>1, <4>2
    <3>4. rec.status \in Active
      BY <3>3 DEF Live
    <3>5. task[v].in /\ task[v].status \notin Terminal /\ v \notin revived
      BY <3>1, <3>4 DEF Live
    <3>6. task[v].status \in Active
      BY <1>0, <3>5 DEF TypeOK, Object, Status, TaskShape
    <3> QED
      BY <3>5, <3>6 DEF Live
  <2>2. \A v \in Task : ~Started(v)'
    BY <1>0, <1>24, RestartEffect DEF Started
  <2>3. \A v \in Task : task'[v].status = "none" => pc'[v] = "none"
    BY <1>0, <1>24, RestartEffect
  <2> QED
    BY <1>0, <2>1, <2>2, <2>3 DEF RunInv
<1>25. CASE UNCHANGED vars
  BY <1>0, <1>25 DEF vars, RunInv, Live, Started
<1> QED
  BY <1>1, <1>2, <1>3, <1>4, <1>5, <1>6, <1>7, <1>8, <1>9, <1>10, <1>11, <1>12,
     <1>13, <1>14, <1>15, <1>16, <1>17, <1>18, <1>19, <1>20, <1>21, <1>22,
     <1>23, <1>24, <1>25
  DEF Next, Requests, Save, Goroutine, Run, Ends, Marks

\* The manager starts with no live task.
LEMMA RunInit == Init => RunInv
BY TaskAssumption DEF Init, RunInv, Live, Started, Fresh, Actor

-----------------------------------------------------------------------------
\* The tasks of the sync manager, their records and the requests on them keep
\* their types, whatever the number of tasks, requests, retries and crashes.
THEOREM SyncTypes == Spec => []TypeOK
<1>1. SyncInv => TypeOK
  BY DEF SyncInv
<1> QED
  BY <1>1, SyncInvariant, PTL

\* The ledger holds for every sync task exactly its ReservedSize, or what the
\* one DeleteTask that took it over is about to release.
THEOREM SyncBooksExact == Spec => []BookedExact
BY ExactBooks, SyncInvariant, PTL

\* A sync task that failed or was cancelled holds quota only if it failed
\* because its retries were used up.
THEOREM SyncNothingPinned == Spec => []NothingPinned
BY NothingLeft, SyncInvariant, PTL
\* Two executors of the sync manager work on the same destination only if one
\* of their tasks was cancelled or deleted and has not noticed, or a restart
\* revived it, however many tasks are submitted, retried and cancelled.
THEOREM SyncOneRun == Spec => []OneRunPerKey
<1>1. SyncInv /\ RunInv /\ [Next]_vars => RunInv'
  BY RunStep
<1>2. RunInv => OneRunPerKey
  <2> SUFFICES ASSUME RunInv, NEW t \in Task, NEW u \in Task, t # u,
                      pc[t] = "run", pc[u] = "run"
               PROVE  \E v \in {t, u} : \/ ~task[v].in
                                        \/ task[v].status = "cancelled"
                                        \/ v \in revived
    BY DEF OneRunPerKey
  <2>1. ~Live(t) \/ ~Live(u)
    BY DEF RunInv
  <2>2. \A v \in {t, u} : task[v].status \in {"syncing", "retrying", "cancelled"}
    BY DEF RunInv, Started
  <2> QED
    BY <2>1, <2>2 DEF Live, Active
<1> QED
  BY RunInit, SyncInvariant, <1>1, <1>2, PTL DEF Spec
=============================================================================

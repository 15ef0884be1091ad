----------------------------- MODULE QuotaPool -----------------------------
(***************************************************************************)
(* The hierarchical quota ledger (pkg/quota: Pool, Scope, Reservation) and *)
(* the queue of callers that wait for room (pkg/waitq), for any number of  *)
(* goroutines.  Every public call walks from a node to the root and locks  *)
(* one node at a time, so each level is a step of its own; the calls that  *)
(* free room run under the root's waitMu and then wake the queue.          *)
(*                                                                         *)
(* Not here: the allocation ledger (allocated, setChildLimit), the order   *)
(* of the queue (NotifyAll wakes every waiter that fits) and Queue.Close,  *)
(* which the quota never calls.                                            *)
(***************************************************************************)
EXTENDS Integers, Sequences, FiniteSets

CONSTANTS
    Proc,       \* goroutines
    NoProc,     \* waitMu is free
    Node,       \* pools of the tree
    Root,       \* the pool that owns the queue and waitMu
    Bucket,     \* nodes that callers charge: they have no children
    Chain,      \* node -> the node, its parent, ..., the root
    Amount,     \* sizes of requests
    Limit,      \* values of maxBytes; 0 is "no limit"
    MaxBytes0,  \* maxBytes at start, per node
    Committed0, \* usage the start-up scan found, per node
    MaxCalls    \* bound: calls in a behaviour

\* The nodes under a node.
Children(m) == {c \in Node : Len(Chain[c]) > 1 /\ Chain[c][2] = m}

\* The sum of a function with values in Nat: its values laid out as sets of
\* units, and counted.
Units(f) == UNION {{h} \X (1..f[h]) : h \in DOMAIN f}
Total(f) == Cardinality(Units(f))

\* A tree of pools, and usage that covers the usage below it: what the scan
\* finds in a bucket is charged to the levels above it too (adjustUp).
ASSUME QuotaAssumption ==
    /\ Root \in Node /\ Bucket \subseteq Node /\ NoProc \notin Proc
    /\ Chain \in [Node -> Seq(Node)]
    /\ \A m \in Node : /\ Len(Chain[m]) > 0
                       /\ Chain[m][1] = m
                       /\ Chain[m][Len(Chain[m])] = Root
                       /\ \A i \in 1..Len(Chain[m]) :
                            Chain[Chain[m][i]] = SubSeq(Chain[m], i, Len(Chain[m]))
    /\ Amount \subseteq Nat \ {0} /\ Limit \subseteq Nat
    /\ MaxBytes0 \in [Node -> Limit] /\ MaxCalls \in Nat
    /\ Committed0 \in [Node -> Nat]
    /\ \A m \in Node : MaxBytes0[m] > 0 => Committed0[m] <= MaxBytes0[m]
    /\ IsFiniteSet(Proc) /\ IsFiniteSet(Node)
    /\ \A m \in Node \ Bucket :
          Committed0[m] >= Total([c \in Children(m) |-> Committed0[c]])

VARIABLES
    committed,  \* bytes on disk charged to a node and its subtree
    reserved,   \* bytes promised to a node and its subtree
    maxBytes,   \* limit of a node
    reserve,    \* operational reserve of the root
    res,        \* the unsettled Reservation a goroutine obtained, if any
    waitMu,     \* owner of the root's wait lock
    queue,      \* goroutines in Queue.waiters
    token,      \* a wake-up is in the waiter's channel
    job,        \* the call a goroutine is in
    calls,      \* calls begun
    exact,      \* callers never grow usage or lower a limit by hand
    rolledBack  \* history: some reserveUp failed above its first level

ledger == <<committed, reserved>>
limits == <<maxBytes, reserve>>
waiting == <<queue, token>>
history == <<calls, exact, rolledBack>>
vars == <<ledger, limits, res, waitMu, waiting, job, history>>

\* A call: where it is, which call it is, its node, its bytes, the actual
\* bytes of a Commit, and the level its walk has reached.
Idle == [pc |-> "idle", mode |-> "none", node |-> Root, n |-> 0, real |-> 0,
         lvl |-> 1]
NoRes == [node |-> NoProc, n |-> 0]

Reserve(m) == IF m = Root THEN reserve ELSE 0

\* usableLocked: what quota may use of a node's limit.
Usable(m) ==
    IF maxBytes[m] > Reserve(m) THEN maxBytes[m] - Reserve(m) ELSE 0

\* Mutant: promises are not counted.
Full_IgnoresReserved(m, n) ==
    maxBytes[m] > 0 /\ committed[m] + n > Usable(m)

Full(m, n) ==
    maxBytes[m] > 0 /\ committed[m] + reserved[m] + n > Usable(m)

Levels(b) == {Chain[b][i] : i \in 1..Len(Chain[b])}
Here(p) == Chain[job[p].node][job[p].lvl]
AtTop(p) == job[p].lvl = Len(Chain[job[p].node])

\* canNeverFit: the request is larger than some level's usable limit.  A
\* level whose usable limit is 0 counts as unlimited, as in waitqLimits.
NeverFits(b, n) == \E m \in Levels(b) : Usable(m) > 0 /\ n > Usable(m)

\* canSatisfyLocked: whether NotifyAll wakes the waiter q.
CanSatisfy(q) ==
    \A m \in Levels(job[q].node) :
        Usable(m) > 0 => job[q].n <= Usable(m) - committed[m] - reserved[m]

Init ==
    /\ committed = Committed0
    /\ reserved = [m \in Node |-> 0]
    /\ maxBytes = MaxBytes0 /\ reserve = 0
    /\ res = [p \in Proc |-> NoRes]
    /\ waitMu = NoProc
    /\ queue = {} /\ token = [p \in Proc |-> FALSE]
    /\ job = [p \in Proc |-> Idle]
    /\ calls = 0 /\ exact \in BOOLEAN /\ rolledBack = FALSE

-----------------------------------------------------------------------------
\* A call starts: its arguments and first place.
Begin(p, at, how, b, n, r) ==
    /\ job[p] = Idle /\ calls < MaxCalls
    /\ job' = [job EXCEPT ![p] = [pc |-> at, mode |-> how, node |-> b,
                                  n |-> n, real |-> r, lvl |-> 1]]
    /\ calls' = calls + 1
    /\ UNCHANGED <<ledger, waiting, exact, rolledBack>>

\* A call that frees room enters the root's waitMu first (withWaitLock).
BeginLocked(p, at, b, n) ==
    /\ waitMu = NoProc /\ waitMu' = p
    /\ Begin(p, at, "locked", b, n, 0)
    /\ UNCHANGED res

TryReserve(p) ==
    /\ res[p] = NoRes
    /\ \E b \in Bucket, n \in Amount : Begin(p, "reserve", "try", b, n, 0)
    /\ UNCHANGED <<limits, res, waitMu>>

\* WaitReserve: a request that can never fit returns at once; any other
\* makes its first attempt under waitMu.
WaitReserve(p) ==
    /\ res[p] = NoRes
    /\ \E b \in Bucket, n \in Amount :
          /\ ~NeverFits(b, n)
          /\ Begin(p, "lock", "first", b, n, 0)
    /\ UNCHANGED <<limits, res, waitMu>>

\* Mutant: a commit below the reservation takes the fast path too.
Commit_AlwaysFast(p) ==
    /\ \E r \in Proc, a \in Amount \cup {0} :
          /\ res[r] # NoRes
          /\ exact => a <= res[r].n
          /\ res' = [res EXCEPT ![r] = NoRes]
          /\ Begin(p, "commit", "fast", res[r].node, res[r].n, a)
    /\ UNCHANGED <<limits, waitMu>>

\* Commit(actual) of any unsettled reservation.  The swap of done settles
\* it; only a commit below the reservation takes waitMu.
Commit(p) ==
    /\ \E r \in Proc, a \in Amount \cup {0} :
          /\ res[r] # NoRes
          /\ exact => a <= res[r].n
          /\ res' = [res EXCEPT ![r] = NoRes]
          /\ IF a >= res[r].n
             THEN Begin(p, "commit", "fast", res[r].node, res[r].n, a)
             ELSE Begin(p, "lock", "commit", res[r].node, res[r].n, a)
    /\ UNCHANGED <<limits, waitMu>>

Release(p) ==
    /\ \E r \in Proc :
          /\ res[r] # NoRes
          /\ res' = [res EXCEPT ![r] = NoRes]
          /\ Begin(p, "lock", "release", res[r].node, res[r].n, 0)
    /\ UNCHANGED <<limits, waitMu>>

ReleaseUsage(p) ==
    /\ \E b \in Bucket, n \in Amount : BeginLocked(p, "drop", b, n)
    /\ UNCHANGED limits

\* ReleaseCommittedAndUnmount reads the usage and then releases it.
ReleaseAndUnmount(p) ==
    /\ \E b \in Bucket :
          /\ committed[b] > 0
          /\ BeginLocked(p, "drop", b, committed[b])
    /\ UNCHANGED limits

Adjust(p) ==
    /\ \E b \in Bucket, n \in Amount :
          \/ BeginLocked(p, "adjust", b, -n)
          \/ ~exact /\ BeginLocked(p, "adjust", b, n)
    /\ UNCHANGED limits

SetMaxBytes(p) ==
    /\ \E m \in Node, v \in Limit :
          /\ exact => v = 0 \/ (maxBytes[m] > 0 /\ v >= maxBytes[m])
          /\ maxBytes' = [maxBytes EXCEPT ![m] = v]
          /\ BeginLocked(p, "unlock", m, 0)
    /\ UNCHANGED reserve

SetOperationalReserve(p) ==
    /\ \E v \in Amount \cup {0} :
          /\ exact => v <= reserve
          /\ reserve' = v
          /\ BeginLocked(p, "unlock", Root, 0)
    /\ UNCHANGED maxBytes

-----------------------------------------------------------------------------
\* The call of p, moved to another place and level.
Moved(p, at, how, k, l) ==
    [pc |-> at, mode |-> how, node |-> job[p].node, n |-> k,
     real |-> job[p].real, lvl |-> l]

Goto(p, at) ==
    job' = [job EXCEPT ![p] =
               IF at = "idle" THEN Idle
               ELSE Moved(p, at, job[p].mode, job[p].n, job[p].lvl)]

\* The next level with n bytes to carry, or what follows the walk.
Climb(p, n, after) ==
    IF AtTop(p) \/ n = 0
    THEN Goto(p, after)
    ELSE job' = [job EXCEPT ![p] =
                    Moved(p, job[p].pc, job[p].mode, n, job[p].lvl + 1)]

Lock(p) ==
    /\ job[p].pc = "lock"
    /\ waitMu = NoProc /\ waitMu' = p
    /\ Goto(p, IF job[p].mode = "first" THEN "reserve" ELSE job[p].mode)
    /\ UNCHANGED <<ledger, limits, res, waiting, history>>

\* Mutant: a first attempt that succeeds keeps waitMu.
ReserveLevel_KeepsLock(p) ==
    /\ job[p].pc = "reserve" /\ ~Full(Here(p), job[p].n)
    /\ reserved' = [reserved EXCEPT ![Here(p)] = @ + job[p].n]
    /\ Climb(p, job[p].n, "idle")
    /\ IF AtTop(p)
       THEN /\ res' = [res EXCEPT ![p] = [node |-> job[p].node, n |-> job[p].n]]
            /\ queue' = queue \ {p}
       ELSE UNCHANGED <<res, queue>>
    /\ UNCHANGED <<committed, limits, waitMu, token, history>>

\* reserveUp at one level that has room.  At the top the caller has its
\* Reservation: the first attempt of a waiter gives up waitMu, a woken
\* waiter leaves the queue.
ReserveLevel(p) ==
    /\ job[p].pc = "reserve" /\ ~Full(Here(p), job[p].n)
    /\ reserved' = [reserved EXCEPT ![Here(p)] = @ + job[p].n]
    /\ Climb(p, job[p].n, "idle")
    /\ IF AtTop(p)
       THEN /\ res' = [res EXCEPT ![p] = [node |-> job[p].node, n |-> job[p].n]]
            /\ waitMu' = IF job[p].mode = "first" THEN NoProc ELSE waitMu
            /\ queue' = queue \ {p}
       ELSE UNCHANGED <<res, waitMu, queue>>
    /\ UNCHANGED <<committed, limits, token, history>>

\* The attempt failed and nothing is left reserved.  A waiter's first
\* attempt enqueues it, still under waitMu.
Refused(p) ==
    IF job[p].mode = "try"
    THEN Goto(p, "idle") /\ UNCHANGED <<waitMu, waiting>>
    ELSE /\ Goto(p, "queued")
         /\ queue' = queue \cup {p}
         /\ IF job[p].mode = "first"
            THEN waitMu' = NoProc /\ token' = [token EXCEPT ![p] = FALSE]
            ELSE UNCHANGED <<waitMu, token>>

\* Mutant: the levels below keep what they reserved.
ReserveFull_NoRollback(p) ==
    /\ job[p].pc = "reserve" /\ Full(Here(p), job[p].n)
    /\ Refused(p)
    /\ UNCHANGED <<ledger, limits, res, history>>

\* reserveUp at a level that is full: the levels below are undone, top down.
ReserveFull(p) ==
    /\ job[p].pc = "reserve" /\ Full(Here(p), job[p].n)
    /\ IF job[p].lvl = 1
       THEN Refused(p)
       ELSE /\ job' = [job EXCEPT ![p] = Moved(p, "rollback", job[p].mode,
                                               job[p].n, job[p].lvl - 1)]
            /\ UNCHANGED <<waitMu, waiting>>
    /\ UNCHANGED <<ledger, limits, res, history>>

Rollback(p) ==
    /\ job[p].pc = "rollback"
    /\ reserved' = [reserved EXCEPT ![Here(p)] = @ - job[p].n]
    /\ rolledBack' = TRUE
    /\ IF job[p].lvl = 1
       THEN Refused(p)
       ELSE /\ job' = [job EXCEPT ![p] = Moved(p, "rollback", job[p].mode,
                                               job[p].n, job[p].lvl - 1)]
            /\ UNCHANGED <<waitMu, waiting>>
    /\ UNCHANGED <<committed, limits, res, calls, exact>>

\* waitAcquire: a woken waiter tries again, without waitMu.
Wake(p) ==
    /\ job[p].pc = "queued" /\ token[p]
    /\ token' = [token EXCEPT ![p] = FALSE]
    /\ job' = [job EXCEPT ![p] = Moved(p, "reserve", "retry", job[p].n, 1)]
    /\ UNCHANGED <<ledger, limits, res, waitMu, queue, history>>

\* The timer fires or the context is cancelled.
GiveUp(p) ==
    /\ job[p].pc = "queued"
    /\ queue' = queue \ {p}
    /\ Goto(p, "idle")
    /\ UNCHANGED <<ledger, limits, res, waitMu, token, history>>

\* Only the walk of a fast commit does not end by giving up waitMu.
CommitLevel(p) ==
    /\ job[p].pc = "commit"
    /\ reserved' = [reserved EXCEPT ![Here(p)] = @ - job[p].n]
    /\ committed' = [committed EXCEPT ![Here(p)] = @ + job[p].real]
    /\ Climb(p, job[p].n, IF job[p].mode = "fast" THEN "idle" ELSE "unlock")
    /\ UNCHANGED <<limits, res, waitMu, waiting, history>>

\* The walks below carry up what they took, and stop where that is nothing.
AtMost(n, bound) == IF n < bound THEN n ELSE bound

ReleaseLevel(p) ==
    /\ job[p].pc = "release"
    /\ LET took == AtMost(job[p].n, reserved[Here(p)])
       IN  /\ reserved' = [reserved EXCEPT ![Here(p)] = @ - took]
           /\ Climb(p, took, "unlock")
    /\ UNCHANGED <<committed, limits, res, waitMu, waiting, history>>

\* Mutant: the levels above lose the full amount, not what this one had.
DropLevel_FullAmount(p) ==
    /\ job[p].pc = "drop"
    /\ LET took == AtMost(job[p].n, committed[Here(p)])
       IN  /\ committed' = [committed EXCEPT ![Here(p)] = @ - took]
           /\ Climb(p, job[p].n, "unlock")
    /\ UNCHANGED <<reserved, limits, res, waitMu, waiting, history>>

DropLevel(p) ==
    /\ job[p].pc = "drop"
    /\ LET took == AtMost(job[p].n, committed[Here(p)])
       IN  /\ committed' = [committed EXCEPT ![Here(p)] = @ - took]
           /\ Climb(p, took, "unlock")
    /\ UNCHANGED <<reserved, limits, res, waitMu, waiting, history>>

AdjustLevel(p) ==
    /\ job[p].pc = "adjust"
    /\ LET diff == IF committed[Here(p)] + job[p].n < 0
                   THEN -committed[Here(p)] ELSE job[p].n
       IN  /\ committed' = [committed EXCEPT ![Here(p)] = @ + diff]
           /\ Climb(p, diff, "unlock")
    /\ UNCHANGED <<reserved, limits, res, waitMu, waiting, history>>

\* withWaitLock gives up waitMu and only then wakes the queue.
Unlock(p) ==
    /\ job[p].pc = "unlock"
    /\ waitMu' = NoProc
    /\ Goto(p, "notify")
    /\ UNCHANGED <<ledger, limits, res, waiting, history>>

NotifyAll(p) ==
    /\ job[p].pc = "notify"
    /\ token' = [q \in Proc |-> token[q] \/ (q \in queue /\ CanSatisfy(q))]
    /\ Goto(p, "idle")
    /\ UNCHANGED <<ledger, limits, res, waitMu, queue, history>>

-----------------------------------------------------------------------------
Call(p) == \/ TryReserve(p) \/ WaitReserve(p) \/ Commit(p) \/ Release(p)
           \/ ReleaseUsage(p) \/ ReleaseAndUnmount(p) \/ Adjust(p)
           \/ SetMaxBytes(p) \/ SetOperationalReserve(p)

Step(p) == \/ Lock(p) \/ ReserveLevel(p) \/ ReserveFull(p) \/ Rollback(p)
           \/ Wake(p) \/ GiveUp(p) \/ CommitLevel(p) \/ ReleaseLevel(p)
           \/ DropLevel(p) \/ AdjustLevel(p) \/ Unlock(p) \/ NotifyAll(p)

Next == \E p \in Proc : Call(p) \/ Step(p)

\* A goroutine inside a call runs on, a timer fires, a free mutex is given
\* to somebody who waits for it; callers may stop calling.
Spec == Init /\ [][Next]_vars
FairSpec == Spec /\ \A p \in Proc : WF_vars(Step(p))

-----------------------------------------------------------------------------
Place == {"idle", "lock", "reserve", "rollback", "queued", "commit",
          "release", "drop", "adjust", "unlock", "notify"}
Mode == {"none", "try", "first", "retry", "fast", "commit", "release",
         "locked"}

JobOK ==
    /\ job \in [Proc -> [pc : Place, mode : Mode, node : Node, n : Int,
                         real : Nat, lvl : Nat]]
    /\ \A p \in Proc : job[p].lvl \in 1..Len(Chain[job[p].node])

TypeOK ==
    /\ committed \in [Node -> Int] /\ reserved \in [Node -> Int]
    /\ maxBytes \in [Node -> Limit] /\ reserve \in Nat
    /\ res \in [Proc -> {NoRes} \cup [node : Node, n : Amount]]
    /\ waitMu \in Proc \cup {NoProc}
    /\ queue \in SUBSET Proc /\ token \in [Proc -> BOOLEAN]
    /\ JobOK
    /\ calls \in Nat /\ exact \in BOOLEAN /\ rolledBack \in BOOLEAN

\* A strict upper bound (wait.go:45): at no level do usage and promises
\* exceed what quota may use, in the middle of any walk, as long as nobody
\* commits more than was reserved, adds usage by hand or lowers a limit.
NoOvercommit ==
    exact => \A m \in Node :
        maxBytes[m] > 0 => committed[m] + reserved[m] <= Usable(m)

\* What p's reservation and its walk hold at m.
Pos(b, m) == CHOOSE i \in 1..Len(Chain[b]) : Chain[b][i] = m
Promised(p, m) ==
    IF res[p] # NoRes /\ m \in Levels(res[p].node) THEN res[p].n ELSE 0
Carried(p, m) ==
    IF /\ m \in Levels(job[p].node)
       /\ \/ job[p].pc = "reserve" /\ Pos(job[p].node, m) < job[p].lvl
          \/ job[p].pc = "rollback" /\ Pos(job[p].node, m) <= job[p].lvl
          \/ job[p].pc = "lock" /\ job[p].mode \in {"commit", "release"}
          \/ job[p].pc \in {"commit", "release"} /\ Pos(job[p].node, m) >= job[p].lvl
    THEN job[p].n ELSE 0
Shares(m) ==
    [h \in Proc \X {"res", "job"} |->
        IF h[2] = "res" THEN Promised(h[1], m) ELSE Carried(h[1], m)]

\* At every level, what is reserved is exactly what the unsettled
\* reservations and the walks in progress hold there: no failed attempt,
\* no racing Commit and Release and no clamping leaves anything behind
\* (the premise of commitUp, quota.go:361-366).
ReservedExact ==
    \A m \in Node :
        reserved[m] = Total(Shares(m))

Walking == {"reserve", "rollback", "commit", "release", "drop", "adjust"}
Quiet == \A p \in Proc : job[p].pc \notin Walking
SubtreeUsage(m) == Total([c \in Children(m) |-> committed[c]])

\* Between walks a node's usage covers that of its children: clamping a
\* release at one level never takes another bucket's bytes off the levels
\* above (quota.go:417-419).
AncestorCovers ==
    Quiet => \A m \in Node \ Bucket : committed[m] >= SubtreeUsage(m)

\* A waiter that sleeps although its request fits.
Stranded(p) ==
    /\ job[p].pc = "queued" /\ ~token[p]
    /\ \A m \in Levels(job[p].node) : ~Full(m, job[p].n)

\* Nobody has yet to wake the queue.
NoWakeupComing ==
    \A q \in Proc : job[q].pc \notin {"release", "drop", "adjust", "unlock",
                                  "notify"}
                    /\ ~(job[q].pc = "commit" /\ job[q].mode = "commit")

\* Only the undoing of a failed attempt can leave a waiter asleep although
\* its request fits: every other way to free room wakes it.
OnlyRollbackStrands ==
    ~rolledBack /\ NoWakeupComing => \A p \in Proc : ~Stranded(p)

\* Every call returns: nobody waits for waitMu or sleeps in the queue for
\* ever.
CallsReturn == \A p \in Proc : job[p].pc # "idle" ~> job[p].pc = "idle"
=============================================================================

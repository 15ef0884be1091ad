-------------------------- MODULE QuotaPool_proofs --------------------------
(***************************************************************************)
(* Proofs about the quota ledger and its wait queue, for every tree of     *)
(* pools, every set of goroutines and every limit.                         *)
(***************************************************************************)
EXTENDS QuotaPool, FiniteSetTheorems, TLAPS

Locking == {"first", "commit", "release"}
Asking == {"try", "first", "retry"}

\* What the place of a call says about its arguments.
CallOKAt(p) ==
    /\ job[p].pc = "lock" => job[p].mode \in Locking
    /\ job[p].pc = "lock" /\ job[p].mode = "first" => job[p].n \in Amount
    /\ job[p].pc \in {"reserve", "rollback", "queued"} =>
          job[p].n \in Amount /\ job[p].mode \in Asking
    /\ job[p].pc = "commit" =>
          job[p].mode = "commit"
          \/ (job[p].mode = "fast" /\ job[p].real >= job[p].n)
    /\ job[p].pc = "queued" => p \in queue

CallOK == \A p \in Proc : CallOKAt(p)

Waking(q) ==
    \/ job[q].pc \in {"release", "drop", "adjust", "unlock", "notify"}
    \/ job[q].pc = "commit" /\ job[q].mode = "commit"

Short(p) == \E m \in Levels(job[p].node) : Full(m, job[p].n)

\* A waiter without a wake-up is short of room at some level, unless
\* somebody is about to wake the queue.
WakeOK ==
    ~rolledBack =>
        \A p \in Proc : job[p].pc = "queued" /\ ~token[p] =>
                            Short(p) \/ \E q \in Proc : Waking(q)

\* What the place of a call says about its reservation, its bytes and its
\* node.
Settling(p) ==
    \/ job[p].pc \in {"commit", "release"}
    \/ job[p].pc = "lock" /\ job[p].mode \in {"commit", "release"}
ArgsAt(p) ==
    /\ job[p].pc = "lock" => job[p].lvl = 1
    /\ \/ job[p].pc \in {"reserve", "rollback", "queued"}
       \/ job[p].pc = "lock" /\ job[p].mode = "first"
       => res[p] = NoRes
    /\ Settling(p) => job[p].n \in Amount /\ (exact => job[p].real <= job[p].n)
    /\ job[p].pc = "drop" => job[p].n \in Nat
    /\ job[p].pc = "adjust" /\ exact => job[p].n <= 0
    /\ job[p].pc \in Walking \cup {"lock", "queued"} => job[p].node \in Bucket
    /\ res[p] # NoRes => res[p].node \in Bucket
ArgsOK == \A p \in Proc : ArgsAt(p)

\* No level owes usage.
NotBelowZero == \A m \in Node : committed[m] >= 0

\* What the walk of p has added below m and has yet to add to m, and what it
\* has taken below m and has yet to take from m.
OwedAt(p, m) ==
    IF Here(p) # m THEN 0
    ELSE IF job[p].pc = "commit" THEN job[p].real
    ELSE IF job[p].pc = "adjust" /\ job[p].n > 0 THEN job[p].n
    ELSE 0
SpareAt(p, m) ==
    IF Here(p) # m THEN 0
    ELSE IF job[p].pc = "drop" THEN job[p].n
    ELSE IF job[p].pc = "adjust" /\ job[p].n < 0 THEN -job[p].n
    ELSE 0
Owed(m) == [p \in Proc |-> OwedAt(p, m)]
Spare(m) == [p \in Proc |-> SpareAt(p, m)]

\* In the middle of walks too, a node's usage covers that of its children.
Covers ==
    \A m \in Node \ Bucket :
        committed[m] + Total(Owed(m)) >= SubtreeUsage(m) + Total(Spare(m))

LedgerInv ==
    /\ ArgsOK /\ NotBelowZero
    /\ ReservedExact /\ NoOvercommit /\ Covers

QuotaInv == TypeOK /\ CallOK /\ WakeOK /\ LedgerInv

-----------------------------------------------------------------------------
\* The constants of the tree and the sizes have their types.
LEMMA ConstantTypes ==
    /\ Root \in Node /\ Bucket \subseteq Node /\ Limit \subseteq Nat
    /\ \A a \in Amount : a \in Nat /\ a \in Int /\ a > 0
<1>1. Amount \subseteq Nat \ {0}
      BY QuotaAssumption
<1>2. \A a \in Amount : a \in Nat \ {0}
      BY <1>1
<1>3. \A a \in Amount : a \in Nat /\ a \in Int /\ a > 0
      BY <1>2
<1>4. Root \in Node /\ Bucket \subseteq Node /\ Limit \subseteq Nat
      BY QuotaAssumption
<1>. QED  BY <1>3, <1>4

\* A chain is a sequence of nodes that starts at its node.
LEMMA ChainType ==
    ASSUME NEW m \in Node
    PROVE  /\ Chain[m] \in Seq(Node) /\ Len(Chain[m]) \in Nat
           /\ Len(Chain[m]) >= 1 /\ Chain[m][1] = m
           /\ \A i \in 1..Len(Chain[m]) : Chain[m][i] \in Node
           /\ Levels(m) \subseteq Node /\ m \in Levels(m)
<1>1. Chain[m] \in Seq(Node) /\ Len(Chain[m]) > 0 /\ Chain[m][1] = m
      BY QuotaAssumption
<1>2. Len(Chain[m]) \in Nat
      BY <1>1
<1>3. \A i \in 1..Len(Chain[m]) : Chain[m][i] \in Node
      BY <1>1
<1>. QED  BY <1>1, <1>2, <1>3 DEF Levels

\* A walk is at a node.
LEMMA HereType ==
    ASSUME JobOK, NEW p \in Proc
    PROVE  Here(p) \in Node
<1>1. job[p].node \in Node /\ job[p].lvl \in 1..Len(Chain[job[p].node])
      BY DEF JobOK
<1>. QED  BY <1>1, ChainType DEF Here

\* Going to another place keeps the type of a call.
LEMMA GotoType ==
    ASSUME JobOK, NEW p \in Proc, NEW at \in Place, Goto(p, at)
    PROVE  JobOK'
<1>1. Idle \in [pc : Place, mode : Mode, node : Node, n : Int, real : Nat,
                lvl : Nat]
      /\ Idle.lvl \in 1..Len(Chain[Idle.node])
      BY QuotaAssumption, ChainType DEF Idle, Place, Mode
<1>. QED  BY <1>1 DEF JobOK, Goto, Moved

\* Climbing keeps the type of a call.
LEMMA ClimbType ==
    ASSUME JobOK, NEW p \in Proc, NEW after \in Place, NEW k \in Int,
           Climb(p, k, after)
    PROVE  JobOK'
<1>1. CASE AtTop(p) \/ k = 0
      BY <1>1, GotoType DEF Climb
<1>2. CASE ~(AtTop(p) \/ k = 0)
  <2>1. job' = [job EXCEPT ![p] =
                    Moved(p, job[p].pc, job[p].mode, k, job[p].lvl + 1)]
        BY <1>2 DEF Climb
  <2>2. job[p].lvl + 1 \in 1..Len(Chain[job[p].node])
        BY <1>2, ChainType DEF AtTop, JobOK
  <2>. QED  BY <2>1, <2>2 DEF JobOK, Moved
<1>. QED  BY <1>1, <1>2

\* The start of a call gives it a well-formed job.
LEMMA BeginType ==
    ASSUME TypeOK, NEW p \in Proc, NEW at \in Place, NEW how \in Mode,
           NEW b \in Node, NEW k \in Int, NEW r \in Nat,
           Begin(p, at, how, b, k, r)
    PROVE  /\ JobOK' /\ calls' \in Nat
           /\ UNCHANGED <<ledger, waiting, exact, rolledBack>>
<1>1. 1 \in 1..Len(Chain[b])
      BY ChainType
<1>2. JobOK'
      BY <1>1 DEF TypeOK, JobOK, Begin
<1>. QED  BY <1>2 DEF Begin, TypeOK

\* So does a call that begins under waitMu.
LEMMA BeginLockedType ==
    ASSUME TypeOK, NEW p \in Proc, NEW at \in Place, NEW b \in Node,
           NEW k \in Int, BeginLocked(p, at, b, k)
    PROVE  /\ JobOK' /\ calls' \in Nat
           /\ waitMu' = p /\ res' = res
           /\ UNCHANGED <<ledger, waiting, exact, rolledBack>>
<1>1. Begin(p, at, "locked", b, k, 0) /\ waitMu' = p /\ res' = res
      BY DEF BeginLocked
<1>2. "locked" \in Mode
      BY DEF Mode
<1>. QED  BY <1>1, <1>2, BeginType

\* The initial states have the types.
LEMMA TypeInit == Init => TypeOK
<1> SUFFICES ASSUME Init PROVE TypeOK
    OBVIOUS
<1>1. Idle \in [pc : Place, mode : Mode, node : Node, n : Int, real : Nat,
                lvl : Nat]
      /\ Idle.lvl \in 1..Len(Chain[Idle.node])
      BY QuotaAssumption, ChainType DEF Idle, Place, Mode
<1>2. JobOK
      BY <1>1 DEF JobOK, Init
<1>3. exact \in BOOLEAN /\ rolledBack \in BOOLEAN
      BY Zenon DEF Init
<1>4. token \in [Proc -> BOOLEAN]
      BY Zenon DEF Init
<1>5. committed \in [Node -> Int] /\ reserved \in [Node -> Int]
      BY QuotaAssumption DEF Init
<1>. QED  BY <1>2, <1>3, <1>4, <1>5, QuotaAssumption DEF Init, TypeOK

-----------------------------------------------------------------------------
\* A reservation that can be settled names a node and a size.
LEMMA ResType ==
    ASSUME TypeOK, NEW r \in Proc, res[r] # NoRes
    PROVE  res[r].node \in Node /\ res[r].n \in Amount /\ res[r].n \in Int
<1>1. res[r] \in [node : Node, n : Amount]
      BY DEF TypeOK
<1>. QED  BY <1>1, ConstantTypes

\* The start of every call keeps the types.
LEMMA CallType ==
    ASSUME TypeOK, NEW p \in Proc, Call(p)
    PROVE  TypeOK'
<1>0. /\ \A b \in Bucket : b \in Node
      /\ \A a \in Amount : a \in Nat /\ a \in Int
      /\ Root \in Node /\ 0 \in Int /\ 0 \in Nat
      BY ConstantTypes
<1>p. /\ "lock" \in Place /\ "reserve" \in Place /\ "commit" \in Place
      /\ "drop" \in Place /\ "adjust" \in Place /\ "unlock" \in Place
      /\ "try" \in Mode /\ "first" \in Mode /\ "fast" \in Mode
      /\ "commit" \in Mode /\ "release" \in Mode
      BY DEF Place, Mode
<1>r. ASSUME NEW r \in Proc, res' = [res EXCEPT ![r] = NoRes]
      PROVE  res' \in [Proc -> {NoRes} \cup [node : Node, n : Amount]]
      BY <1>r DEF TypeOK
<1>1. CASE TryReserve(p)
  <2>1. PICK b \in Bucket, k \in Amount : Begin(p, "reserve", "try", b, k, 0)
        BY <1>1 DEF TryReserve
  <2>2. JobOK' /\ calls' \in Nat /\ UNCHANGED <<ledger, waiting, exact, rolledBack>>
        BY <2>1, <1>0, <1>p, BeginType
  <2>. QED  BY <1>1, <2>2 DEF TryReserve, TypeOK, ledger, waiting, limits
<1>2. CASE WaitReserve(p)
  <2>1. PICK b \in Bucket, k \in Amount : Begin(p, "lock", "first", b, k, 0)
        BY <1>2 DEF WaitReserve
  <2>2. JobOK' /\ calls' \in Nat /\ UNCHANGED <<ledger, waiting, exact, rolledBack>>
        BY <2>1, <1>0, <1>p, BeginType
  <2>. QED  BY <1>2, <2>2 DEF WaitReserve, TypeOK, ledger, waiting, limits
<1>3. CASE Commit(p)
  <2>1. PICK r \in Proc, a \in Amount \cup {0} :
           /\ res[r] # NoRes
           /\ res' = [res EXCEPT ![r] = NoRes]
           /\ IF a >= res[r].n
              THEN Begin(p, "commit", "fast", res[r].node, res[r].n, a)
              ELSE Begin(p, "lock", "commit", res[r].node, res[r].n, a)
        BY <1>3 DEF Commit
  <2>2. res[r].node \in Node /\ res[r].n \in Int /\ a \in Nat
        BY <2>1, <1>0, ResType
  <2>3. JobOK' /\ calls' \in Nat /\ UNCHANGED <<ledger, waiting, exact, rolledBack>>
        BY <2>1, <2>2, <1>p, BeginType
  <2>4. res' \in [Proc -> {NoRes} \cup [node : Node, n : Amount]]
        BY <2>1, <1>r
  <2>. QED  BY <1>3, <2>3, <2>4 DEF Commit, TypeOK, ledger, waiting, limits
<1>4. CASE Release(p)
  <2>1. PICK r \in Proc :
           /\ res[r] # NoRes
           /\ res' = [res EXCEPT ![r] = NoRes]
           /\ Begin(p, "lock", "release", res[r].node, res[r].n, 0)
        BY <1>4 DEF Release
  <2>2. res[r].node \in Node /\ res[r].n \in Int
        BY <2>1, ResType
  <2>3. JobOK' /\ calls' \in Nat /\ UNCHANGED <<ledger, waiting, exact, rolledBack>>
        BY <2>1, <2>2, <1>0, <1>p, BeginType
  <2>4. res' \in [Proc -> {NoRes} \cup [node : Node, n : Amount]]
        BY <2>1, <1>r
  <2>. QED  BY <1>4, <2>3, <2>4 DEF Release, TypeOK, ledger, waiting, limits
<1>5. CASE ReleaseUsage(p)
  <2>1. PICK b \in Bucket, k \in Amount : BeginLocked(p, "drop", b, k)
        BY <1>5 DEF ReleaseUsage
  <2>2. JobOK' /\ calls' \in Nat /\ waitMu' = p /\ res' = res
        /\ UNCHANGED <<ledger, waiting, exact, rolledBack>>
        BY <2>1, <1>0, <1>p, BeginLockedType
  <2>. QED  BY <1>5, <2>2 DEF ReleaseUsage, TypeOK, ledger, waiting, limits
<1>6. CASE ReleaseAndUnmount(p)
  <2>1. PICK b \in Bucket : BeginLocked(p, "drop", b, committed[b])
        BY <1>6 DEF ReleaseAndUnmount
  <2>2. committed[b] \in Int
        BY <1>0 DEF TypeOK
  <2>3. JobOK' /\ calls' \in Nat /\ waitMu' = p /\ res' = res
        /\ UNCHANGED <<ledger, waiting, exact, rolledBack>>
        BY <2>1, <2>2, <1>0, <1>p, BeginLockedType
  <2>. QED  BY <1>6, <2>3 DEF ReleaseAndUnmount, TypeOK, ledger, waiting, limits
<1>7. CASE Adjust(p)
  <2>1. PICK b \in Bucket, k \in Amount :
           BeginLocked(p, "adjust", b, -k) \/ BeginLocked(p, "adjust", b, k)
        BY <1>7 DEF Adjust
  <2>2. k \in Int /\ -k \in Int
        BY <1>0
  <2>3. JobOK' /\ calls' \in Nat /\ waitMu' = p /\ res' = res
        /\ UNCHANGED <<ledger, waiting, exact, rolledBack>>
        BY <2>1, <2>2, <1>0, <1>p, BeginLockedType
  <2>. QED  BY <1>7, <2>3 DEF Adjust, TypeOK, ledger, waiting, limits
<1>8. CASE SetMaxBytes(p)
  <2>1. PICK m \in Node, v \in Limit :
           /\ maxBytes' = [maxBytes EXCEPT ![m] = v]
           /\ BeginLocked(p, "unlock", m, 0)
        BY <1>8 DEF SetMaxBytes
  <2>2. JobOK' /\ calls' \in Nat /\ waitMu' = p /\ res' = res
        /\ UNCHANGED <<ledger, waiting, exact, rolledBack>>
        BY <2>1, <1>0, <1>p, BeginLockedType
  <2>. QED  BY <1>8, <2>1, <2>2 DEF SetMaxBytes, TypeOK, ledger, waiting
<1>9. CASE SetOperationalReserve(p)
  <2>1. PICK v \in Amount \cup {0} :
           reserve' = v /\ BeginLocked(p, "unlock", Root, 0)
        BY <1>9 DEF SetOperationalReserve
  <2>2. JobOK' /\ calls' \in Nat /\ waitMu' = p /\ res' = res
        /\ UNCHANGED <<ledger, waiting, exact, rolledBack>>
        BY <2>1, <1>0, <1>p, BeginLockedType
  <2>. QED  BY <1>9, <2>1, <2>2, <1>0 DEF SetOperationalReserve, TypeOK, ledger, waiting
<1>. QED  BY <1>1, <1>2, <1>3, <1>4, <1>5, <1>6, <1>7, <1>8, <1>9 DEF Call

\* An attempt that failed keeps the types.
LEMMA RefusedType ==
    ASSUME TypeOK, NEW p \in Proc, Refused(p)
    PROVE  /\ JobOK' /\ waitMu' \in Proc \cup {NoProc}
           /\ queue' \in SUBSET Proc /\ token' \in [Proc -> BOOLEAN]
<1>1. "idle" \in Place /\ "queued" \in Place
      BY DEF Place
<1>2. JobOK'
  <2>1. Goto(p, "idle") \/ Goto(p, "queued")
        BY DEF Refused
  <2>. QED  BY <1>1, <2>1, GotoType DEF TypeOK
<1>3. waitMu' \in Proc \cup {NoProc} /\ queue' \in SUBSET Proc
      BY DEF Refused, TypeOK, waiting
<1>4. token' = token \/ token' = [token EXCEPT ![p] = FALSE]
      BY DEF Refused, waiting
<1>5. token' \in [Proc -> BOOLEAN]
      BY <1>4, Zenon DEF TypeOK
<1>. QED  BY <1>2, <1>3, <1>5

\* Every step of a call keeps the types.
LEMMA StepType ==
    ASSUME TypeOK, CallOK, NEW p \in Proc, Step(p)
    PROVE  TypeOK'
<1>p. /\ \A x \in {"idle", "lock", "reserve", "rollback", "queued", "commit",
                   "release", "drop", "adjust", "unlock", "notify"} :
            x \in Place
      BY DEF Place
<1>n. /\ Here(p) \in Node /\ job[p].n \in Int /\ job[p].real \in Nat
      /\ job[p].node \in Node /\ JobOK
      BY HereType DEF TypeOK, JobOK
<1>c. committed[Here(p)] \in Int /\ reserved[Here(p)] \in Int
      BY <1>n DEF TypeOK
<1>1. CASE Lock(p)
  <2>1. job[p].mode \in Locking
        BY <1>1 DEF Lock, CallOK, CallOKAt
  <2>2. (IF job[p].mode = "first" THEN "reserve" ELSE job[p].mode) \in Place
        BY <2>1 DEF Locking, Place
  <2>3. JobOK'
        BY <1>1, <2>2, GotoType DEF Lock, TypeOK
  <2>. QED  BY <1>1, <2>3 DEF Lock, TypeOK, ledger, limits, waiting, history
<1>2. CASE ReserveLevel(p)
  <2>1. JobOK'
        BY <1>2, <1>n, <1>p, ClimbType DEF ReserveLevel
  <2>2. reserved' \in [Node -> Int]
        BY <1>2, <1>n DEF ReserveLevel, TypeOK
  <2>3. waitMu' \in Proc \cup {NoProc} /\ queue' \in SUBSET Proc
        BY <1>2 DEF ReserveLevel, TypeOK
  <2>4. res' \in [Proc -> {NoRes} \cup [node : Node, n : Amount]]
    <3>1. job[p].n \in Amount
          BY <1>2 DEF ReserveLevel, CallOK, CallOKAt
    <3>2. [node |-> job[p].node, n |-> job[p].n] \in [node : Node, n : Amount]
          BY <3>1, <1>n
    <3>3. res' = res \/ res' = [res EXCEPT ![p] = [node |-> job[p].node, n |-> job[p].n]]
          BY <1>2 DEF ReserveLevel
    <3>. QED  BY <3>2, <3>3 DEF TypeOK
  <2>. QED  BY <1>2, <2>1, <2>2, <2>3, <2>4 DEF ReserveLevel, TypeOK, limits, history
<1>3. CASE ReserveFull(p)
  <2>1. CASE job[p].lvl = 1
    <3>1. Refused(p)
          BY <1>3, <2>1 DEF ReserveFull
    <3>. QED  BY <1>3, <3>1, RefusedType DEF ReserveFull, TypeOK, ledger, limits, history
  <2>2. CASE job[p].lvl # 1
    <3>1. /\ job' = [job EXCEPT ![p] = Moved(p, "rollback", job[p].mode, job[p].n, job[p].lvl - 1)]
          /\ UNCHANGED <<waitMu, waiting>>
          BY <1>3, <2>2 DEF ReserveFull
    <3>2. JobOK'
          BY <2>2, <3>1, <1>n, <1>p, ChainType DEF JobOK, Moved
    <3>. QED  BY <1>3, <3>1, <3>2 DEF ReserveFull, TypeOK, ledger, limits, history, waiting
  <2>. QED  BY <2>1, <2>2
<1>4. CASE Rollback(p)
  <2>1. reserved' \in [Node -> Int]
        BY <1>4, <1>n DEF Rollback, TypeOK
  <2>2. rolledBack' \in BOOLEAN
        BY <1>4, Zenon DEF Rollback
  <2>3. CASE job[p].lvl = 1
    <3>1. Refused(p)
          BY <1>4, <2>3 DEF Rollback
    <3>. QED  BY <1>4, <2>1, <2>2, <3>1, RefusedType DEF Rollback, TypeOK, limits
  <2>4. CASE job[p].lvl # 1
    <3>1. /\ job' = [job EXCEPT ![p] = Moved(p, "rollback", job[p].mode, job[p].n, job[p].lvl - 1)]
          /\ UNCHANGED <<waitMu, waiting>>
          BY <1>4, <2>4 DEF Rollback
    <3>2. JobOK'
          BY <2>4, <3>1, <1>n, <1>p, ChainType DEF JobOK, Moved
    <3>. QED  BY <1>4, <2>1, <2>2, <3>1, <3>2 DEF Rollback, TypeOK, limits, waiting
  <2>. QED  BY <2>3, <2>4
<1>5. CASE Wake(p)
  <2>1. 1 \in 1..Len(Chain[job[p].node]) /\ "retry" \in Mode
        BY <1>n, ChainType DEF Mode
  <2>2. JobOK'
        BY <1>5, <1>n, <1>p, <2>1 DEF Wake, JobOK, Moved
  <2>3. token' \in [Proc -> BOOLEAN]
        BY <1>5, Zenon DEF Wake, TypeOK
  <2>. QED  BY <1>5, <2>2, <2>3 DEF Wake, TypeOK, ledger, limits, history
<1>6. CASE GiveUp(p)
  <2>1. JobOK'
        BY <1>6, <1>n, <1>p, GotoType DEF GiveUp
  <2>. QED  BY <1>6, <2>1 DEF GiveUp, TypeOK, ledger, limits, history
<1>7. CASE CommitLevel(p)
  <2>1. (IF job[p].mode = "fast" THEN "idle" ELSE "unlock") \in Place
        BY <1>p
  <2>2. JobOK'
        BY <1>7, <1>n, <2>1, ClimbType DEF CommitLevel
  <2>3. reserved' \in [Node -> Int] /\ committed' \in [Node -> Int]
        BY <1>7, <1>n DEF CommitLevel, TypeOK
  <2>. QED  BY <1>7, <2>2, <2>3 DEF CommitLevel, TypeOK, limits, waiting, history
<1>8. CASE ReleaseLevel(p)
  <2>1. PICK k \in Int : /\ reserved' = [reserved EXCEPT ![Here(p)] = @ - k]
                         /\ Climb(p, k, "unlock")
        BY <1>8, <1>n, <1>c DEF ReleaseLevel, AtMost
  <2>2. JobOK'
        BY <2>1, <1>n, <1>p, ClimbType
  <2>3. reserved' \in [Node -> Int]
        BY <2>1, <1>n DEF TypeOK
  <2>. QED  BY <1>8, <2>2, <2>3 DEF ReleaseLevel, TypeOK, limits, waiting, history
<1>9. CASE DropLevel(p)
  <2>1. PICK k \in Int : /\ committed' = [committed EXCEPT ![Here(p)] = @ - k]
                         /\ Climb(p, k, "unlock")
        BY <1>9, <1>n, <1>c DEF DropLevel, AtMost
  <2>2. JobOK'
        BY <2>1, <1>n, <1>p, ClimbType
  <2>3. committed' \in [Node -> Int]
        BY <2>1, <1>n DEF TypeOK
  <2>. QED  BY <1>9, <2>2, <2>3 DEF DropLevel, TypeOK, limits, waiting, history
<1>10. CASE AdjustLevel(p)
  <2>1. PICK k \in Int : /\ committed' = [committed EXCEPT ![Here(p)] = @ + k]
                         /\ Climb(p, k, "unlock")
    <3> DEFINE k == IF committed[Here(p)] + job[p].n < 0
                    THEN -committed[Here(p)] ELSE job[p].n
    <3>1. k \in Int
          BY <1>n, <1>c
    <3>2. /\ committed' = [committed EXCEPT ![Here(p)] = @ + k]
          /\ Climb(p, k, "unlock")
          BY <1>10 DEF AdjustLevel
    <3>. QED  BY <3>1, <3>2
  <2>2. JobOK'
        BY <2>1, <1>n, <1>p, ClimbType
  <2>3. committed' \in [Node -> Int]
        BY <2>1, <1>n DEF TypeOK
  <2>. QED  BY <1>10, <2>2, <2>3 DEF AdjustLevel, TypeOK, limits, waiting, history
<1>11. CASE Unlock(p)
  <2>1. JobOK'
        BY <1>11, <1>n, <1>p, GotoType DEF Unlock
  <2>. QED  BY <1>11, <2>1 DEF Unlock, TypeOK, ledger, limits, waiting, history
<1>12. CASE NotifyAll(p)
  <2>1. JobOK'
        BY <1>12, <1>n, <1>p, GotoType DEF NotifyAll
  <2>2. token' \in [Proc -> BOOLEAN]
    <3>1. token' = [q \in Proc |-> token[q] \/ (q \in queue /\ CanSatisfy(q))]
          BY <1>12 DEF NotifyAll
    <3>2. \A q \in Proc : (token[q] \/ (q \in queue /\ CanSatisfy(q))) \in BOOLEAN
          BY Zenon
    <3>. QED  BY <3>1, <3>2, Zenon
  <2>. QED  BY <1>12, <2>1, <2>2 DEF NotifyAll, TypeOK, ledger, limits, history
<1>. QED  BY <1>1, <1>2, <1>3, <1>4, <1>5, <1>6, <1>7, <1>8, <1>9, <1>10,
             <1>11, <1>12 DEF Step

-----------------------------------------------------------------------------
\* What every step leaves alone of the other goroutines.
LEMMA Others ==
    ASSUME TypeOK, NEW p \in Proc, Call(p) \/ Step(p), NEW q \in Proc, q # p
    PROVE  /\ job'[q] = job[q]
           /\ q \in queue => q \in queue'
           /\ NotifyAll(p) \/ token'[q] = token[q]
<1>1. job \in [Proc -> [pc : Place, mode : Mode, node : Node, n : Int,
                        real : Nat, lvl : Nat]]
      /\ token \in [Proc -> BOOLEAN]
      BY DEF TypeOK, JobOK
<1>2. CASE Call(p)
  <2>1. ASSUME NEW at, NEW how, NEW b, NEW k, NEW r, Begin(p, at, how, b, k, r)
        PROVE  job'[q] = job[q] /\ queue' = queue /\ token' = token
        BY <2>1, <1>1 DEF Begin, waiting
  <2>2. \E at, how, b, k, r : Begin(p, at, how, b, k, r)
    <3>1. CASE TryReserve(p) \/ WaitReserve(p) \/ Release(p)
          BY <3>1, Zenon DEF TryReserve, WaitReserve, Release
    <3>2. CASE Commit(p)
      <4>1. PICK r \in Proc, a \in Amount \cup {0} :
               IF a >= res[r].n
               THEN Begin(p, "commit", "fast", res[r].node, res[r].n, a)
               ELSE Begin(p, "lock", "commit", res[r].node, res[r].n, a)
            BY <3>2, Zenon DEF Commit
      <4>. QED  BY <4>1, Zenon
    <3>3. ASSUME NEW at, NEW b, NEW k, BeginLocked(p, at, b, k)
          PROVE  Begin(p, at, "locked", b, k, 0)
          BY <3>3 DEF BeginLocked
    <3>4. CASE ReleaseUsage(p) \/ ReleaseAndUnmount(p) \/ Adjust(p)
          BY <3>4, <3>3, Zenon DEF ReleaseUsage, ReleaseAndUnmount, Adjust
    <3>5. CASE SetMaxBytes(p) \/ SetOperationalReserve(p)
          BY <3>5, <3>3, Zenon DEF SetMaxBytes, SetOperationalReserve
    <3>. QED  BY <1>2, <3>1, <3>2, <3>4, <3>5 DEF Call
  <2>. QED  BY <2>1, <2>2
<1>3. CASE Step(p)
  <2>1. \E x : job' = [job EXCEPT ![p] = x]
    <3>1. ASSUME NEW at, Goto(p, at)  PROVE \E x : job' = [job EXCEPT ![p] = x]
          BY <3>1, Zenon DEF Goto
    <3>2. ASSUME NEW k, NEW at, Climb(p, k, at)
          PROVE  \E x : job' = [job EXCEPT ![p] = x]
          BY <3>1, <3>2, Zenon DEF Climb
    <3>3. ASSUME Refused(p)  PROVE \E x : job' = [job EXCEPT ![p] = x]
          BY <3>1, <3>3, Zenon DEF Refused
    <3>4. CASE Lock(p) \/ GiveUp(p) \/ Unlock(p) \/ NotifyAll(p)
          BY <3>1, <3>4, Zenon DEF Lock, GiveUp, Unlock, NotifyAll
    <3>5. CASE ReserveLevel(p) \/ CommitLevel(p)
          BY <3>2, <3>5, Zenon DEF ReserveLevel, CommitLevel
    <3>6. CASE ReleaseLevel(p) \/ DropLevel(p) \/ AdjustLevel(p)
          BY <3>2, <3>6, Zenon DEF ReleaseLevel, DropLevel, AdjustLevel
    <3>7. CASE ReserveFull(p) \/ Rollback(p)
          BY <3>3, <3>7, Zenon DEF ReserveFull, Rollback
    <3>8. CASE Wake(p)
          BY <3>8, Zenon DEF Wake
    <3>. QED  BY <1>3, <3>4, <3>5, <3>6, <3>7, <3>8 DEF Step
  <2>2. job'[q] = job[q]
        BY <2>1, <1>1
  <2>3. q \in queue => q \in queue'
        BY <1>3 DEF Step, Lock, ReserveLevel, ReserveFull, Rollback, Refused,
                    Wake, GiveUp, CommitLevel, ReleaseLevel, DropLevel,
                    AdjustLevel, Unlock, NotifyAll, waiting
  <2>4. NotifyAll(p) \/ token'[q] = token[q]
        BY <1>1, <1>3 DEF Step, Lock, ReserveLevel, ReserveFull, Rollback,
                    Refused, Wake, GiveUp, CommitLevel, ReleaseLevel,
                    DropLevel, AdjustLevel, Unlock, waiting
  <2>. QED  BY <2>2, <2>3, <2>4
<1>. QED  BY <1>2, <1>3

\* A call that begins is where its first place says.
LEMMA BeginCall ==
    ASSUME TypeOK, NEW p \in Proc, NEW at, NEW how, NEW b, NEW k, NEW r,
           Begin(p, at, how, b, k, r)
    PROVE  job'[p] = [pc |-> at, mode |-> how, node |-> b, n |-> k,
                      real |-> r, lvl |-> 1]
BY DEF Begin, TypeOK, JobOK

\* Every call begins with arguments that suit its place; one that may free
\* room at once, or will, is about to wake the queue.
LEMMA CallCall ==
    ASSUME TypeOK, NEW p \in Proc, Call(p)
    PROVE  /\ CallOKAt(p)'
           /\ job'[p].pc # "queued" /\ job[p] = Idle
           /\ UNCHANGED <<ledger, rolledBack, token>>
           /\ Waking(p)' \/ UNCHANGED limits
<1>1. CASE TryReserve(p)
  <2>1. PICK b \in Bucket, k \in Amount : Begin(p, "reserve", "try", b, k, 0)
        BY <1>1 DEF TryReserve
  <2>2. job'[p] = [pc |-> "reserve", mode |-> "try", node |-> b, n |-> k,
                   real |-> 0, lvl |-> 1]
        BY <2>1, BeginCall
  <2>. QED  BY <1>1, <2>1, <2>2 DEF TryReserve, Begin, CallOKAt, Asking, waiting
<1>2. CASE WaitReserve(p)
  <2>1. PICK b \in Bucket, k \in Amount : Begin(p, "lock", "first", b, k, 0)
        BY <1>2 DEF WaitReserve
  <2>2. job'[p] = [pc |-> "lock", mode |-> "first", node |-> b, n |-> k,
                   real |-> 0, lvl |-> 1]
        BY <2>1, BeginCall
  <2>. QED  BY <1>2, <2>1, <2>2 DEF WaitReserve, Begin, CallOKAt, Locking, waiting
<1>3. CASE Commit(p)
  <2>1. PICK r \in Proc, a \in Amount \cup {0} :
           IF a >= res[r].n
           THEN Begin(p, "commit", "fast", res[r].node, res[r].n, a)
           ELSE Begin(p, "lock", "commit", res[r].node, res[r].n, a)
        BY <1>3, Zenon DEF Commit
  <2>2. CASE a >= res[r].n
    <3>1. Begin(p, "commit", "fast", res[r].node, res[r].n, a)
          BY <2>1, <2>2
    <3>2. job'[p] = [pc |-> "commit", mode |-> "fast", node |-> res[r].node,
                     n |-> res[r].n, real |-> a, lvl |-> 1]
          BY <3>1, BeginCall
    <3>. QED  BY <1>3, <2>2, <3>1, <3>2 DEF Commit, Begin, CallOKAt, waiting
  <2>3. CASE ~(a >= res[r].n)
    <3>1. Begin(p, "lock", "commit", res[r].node, res[r].n, a)
          BY <2>1, <2>3
    <3>2. job'[p] = [pc |-> "lock", mode |-> "commit", node |-> res[r].node,
                     n |-> res[r].n, real |-> a, lvl |-> 1]
          BY <3>1, BeginCall
    <3>. QED  BY <1>3, <3>1, <3>2 DEF Commit, Begin, CallOKAt, Locking, waiting
  <2>. QED  BY <2>2, <2>3
<1>4. CASE Release(p)
  <2>1. PICK r \in Proc : Begin(p, "lock", "release", res[r].node, res[r].n, 0)
        BY <1>4, Zenon DEF Release
  <2>2. job'[p] = [pc |-> "lock", mode |-> "release", node |-> res[r].node,
                   n |-> res[r].n, real |-> 0, lvl |-> 1]
        BY <2>1, BeginCall
  <2>. QED  BY <1>4, <2>1, <2>2 DEF Release, Begin, CallOKAt, Locking, waiting
<1>5. ASSUME NEW at \in {"drop", "adjust", "unlock"}, NEW b, NEW k,
             BeginLocked(p, at, b, k)
      PROVE  /\ CallOKAt(p)' /\ Waking(p)'
             /\ job'[p].pc # "queued" /\ job[p] = Idle
             /\ UNCHANGED <<ledger, rolledBack, token>>
  <2>1. Begin(p, at, "locked", b, k, 0)
        BY <1>5 DEF BeginLocked
  <2>2. job'[p] = [pc |-> at, mode |-> "locked", node |-> b, n |-> k,
                   real |-> 0, lvl |-> 1]
        BY <2>1, BeginCall
  <2>. QED  BY <1>5, <2>1, <2>2 DEF Begin, CallOKAt, Waking, waiting
<1>6. CASE ReleaseUsage(p) \/ ReleaseAndUnmount(p) \/ Adjust(p)
      BY <1>5, <1>6, Zenon DEF ReleaseUsage, ReleaseAndUnmount, Adjust
<1>7. CASE SetMaxBytes(p) \/ SetOperationalReserve(p)
      BY <1>5, <1>7, Zenon DEF SetMaxBytes, SetOperationalReserve
<1>. QED  BY <1>1, <1>2, <1>3, <1>4, <1>6, <1>7 DEF Call

\* Where a call that changes its place is.
LEMMA GotoCall ==
    ASSUME JobOK, NEW p \in Proc, NEW at, Goto(p, at)
    PROVE  job'[p] = IF at = "idle" THEN Idle
                     ELSE Moved(p, at, job[p].mode, job[p].n, job[p].lvl)
BY DEF Goto, JobOK

\* Where a call that climbed is.
LEMMA ClimbCall ==
    ASSUME JobOK, NEW p \in Proc, NEW k, NEW after, Climb(p, k, after)
    PROVE  \/ /\ job'[p] = IF after = "idle" THEN Idle
                           ELSE Moved(p, after, job[p].mode, job[p].n, job[p].lvl)
              /\ AtTop(p) \/ k = 0
           \/ job'[p] = Moved(p, job[p].pc, job[p].mode, k, job[p].lvl + 1)
<1>1. CASE AtTop(p) \/ k = 0
      BY <1>1, GotoCall DEF Climb
<1>2. CASE ~(AtTop(p) \/ k = 0)
      BY <1>2 DEF Climb, JobOK
<1>. QED  BY <1>1, <1>2

\* A refused attempt ends the call or puts it in the queue.
LEMMA RefusedCall ==
    ASSUME JobOK, NEW p \in Proc, Refused(p), job[p].mode \in Asking,
           job[p].n \in Amount
    PROVE  /\ CallOKAt(p)'
           /\ \/ job'[p] = Idle
              \/ job'[p] = Moved(p, "queued", job[p].mode, job[p].n, job[p].lvl)
<1>1. CASE job[p].mode = "try"
  <2>1. job'[p] = Idle
        BY <1>1, GotoCall DEF Refused
  <2>. QED  BY <2>1 DEF Idle, CallOKAt
<1>2. CASE job[p].mode # "try"
  <2>1. Goto(p, "queued") /\ p \in queue'
        BY <1>2 DEF Refused
  <2>2. job'[p] = Moved(p, "queued", job[p].mode, job[p].n, job[p].lvl)
        BY <2>1, GotoCall
  <2>. QED  BY <2>1, <2>2 DEF Moved, CallOKAt
<1>. QED  BY <1>1, <1>2

\* Every step leaves its call with arguments that suit its place.
LEMMA StepCall ==
    ASSUME TypeOK, CallOK, NEW p \in Proc, Step(p)
    PROVE  CallOKAt(p)'
<1>t. JobOK /\ CallOKAt(p)
      BY DEF TypeOK, CallOK
<1>1. CASE Lock(p)
  <2>1. job'[p] = Moved(p, IF job[p].mode = "first" THEN "reserve" ELSE job[p].mode,
                        job[p].mode, job[p].n, job[p].lvl)
    <3>1. job[p].mode \in Locking
          BY <1>1, <1>t DEF Lock, CallOKAt
    <3>2. (IF job[p].mode = "first" THEN "reserve" ELSE job[p].mode) # "idle"
          BY <3>1 DEF Locking
    <3>. QED  BY <1>1, <1>t, <3>2, GotoCall DEF Lock
  <2>. QED  BY <1>1, <1>t, <2>1 DEF Lock, CallOKAt, Moved, Locking, Asking
<1>2. CASE ReserveLevel(p)
  <2>1. job[p].n \in Amount /\ job[p].mode \in Asking /\ job[p].pc = "reserve"
        BY <1>2, <1>t DEF ReserveLevel, CallOKAt
  <2>2. job'[p] = Idle \/ job'[p] = Moved(p, "reserve", job[p].mode, job[p].n, job[p].lvl + 1)
        BY <1>2, <1>t, <2>1, ClimbCall DEF ReserveLevel
  <2>. QED  BY <2>1, <2>2 DEF CallOKAt, Moved, Idle
<1>3. CASE ReserveFull(p)
  <2>1. job[p].n \in Amount /\ job[p].mode \in Asking
        BY <1>3, <1>t DEF ReserveFull, CallOKAt
  <2>2. CASE job[p].lvl = 1
        BY <1>3, <1>t, <2>1, <2>2, RefusedCall DEF ReserveFull
  <2>3. CASE job[p].lvl # 1
    <3>1. job'[p] = Moved(p, "rollback", job[p].mode, job[p].n, job[p].lvl - 1)
          BY <1>3, <1>t, <2>3 DEF ReserveFull, JobOK
    <3>. QED  BY <2>1, <3>1 DEF CallOKAt, Moved
  <2>. QED  BY <2>2, <2>3
<1>4. CASE Rollback(p)
  <2>1. job[p].n \in Amount /\ job[p].mode \in Asking
        BY <1>4, <1>t DEF Rollback, CallOKAt
  <2>2. CASE job[p].lvl = 1
        BY <1>4, <1>t, <2>1, <2>2, RefusedCall DEF Rollback
  <2>3. CASE job[p].lvl # 1
    <3>1. job'[p] = Moved(p, "rollback", job[p].mode, job[p].n, job[p].lvl - 1)
          BY <1>4, <1>t, <2>3 DEF Rollback, JobOK
    <3>. QED  BY <2>1, <3>1 DEF CallOKAt, Moved
  <2>. QED  BY <2>2, <2>3
<1>5. CASE Wake(p)
  <2>1. job'[p] = Moved(p, "reserve", "retry", job[p].n, 1)
        BY <1>5, <1>t DEF Wake, JobOK
  <2>. QED  BY <1>5, <1>t, <2>1 DEF Wake, CallOKAt, Moved, Asking
<1>6. CASE GiveUp(p) \/ NotifyAll(p)
  <2>1. job'[p] = Idle
        BY <1>6, <1>t, GotoCall DEF GiveUp, NotifyAll
  <2>. QED  BY <2>1 DEF CallOKAt, Idle
<1>7. CASE CommitLevel(p)
  <2>1. \/ job'[p] = Idle
        \/ job'[p] = Moved(p, "unlock", job[p].mode, job[p].n, job[p].lvl)
        \/ job'[p] = Moved(p, "commit", job[p].mode, job[p].n, job[p].lvl + 1)
        BY <1>7, <1>t, ClimbCall DEF CommitLevel
  <2>. QED  BY <1>7, <1>t, <2>1 DEF CommitLevel, CallOKAt, Moved, Idle
<1>8. CASE ReleaseLevel(p) \/ DropLevel(p) \/ AdjustLevel(p)
  <2>1. PICK k : Climb(p, k, "unlock")
        BY <1>8, Zenon DEF ReleaseLevel, DropLevel, AdjustLevel
  <2>2. job[p].pc \in {"release", "drop", "adjust"}
        BY <1>8 DEF ReleaseLevel, DropLevel, AdjustLevel
  <2>3. \/ job'[p] = Moved(p, "unlock", job[p].mode, job[p].n, job[p].lvl)
        \/ job'[p] = Moved(p, job[p].pc, job[p].mode, k, job[p].lvl + 1)
        BY <1>t, <2>1, ClimbCall
  <2>. QED  BY <2>2, <2>3 DEF CallOKAt, Moved
<1>9. CASE Unlock(p)
  <2>1. job'[p] = Moved(p, "notify", job[p].mode, job[p].n, job[p].lvl)
        BY <1>9, <1>t, GotoCall DEF Unlock
  <2>. QED  BY <2>1 DEF CallOKAt, Moved
<1>. QED  BY <1>1, <1>2, <1>3, <1>4, <1>5, <1>6, <1>7, <1>8, <1>9 DEF Step

\* No step disturbs the arguments of a call.
LEMMA CallStep ==
    ASSUME TypeOK, CallOK, NEW p \in Proc, Call(p) \/ Step(p)
    PROVE  CallOK'
<1>1. CallOKAt(p)'
      BY CallCall, StepCall
<1>2. ASSUME NEW q \in Proc, q # p  PROVE CallOKAt(q)'
  <2>1. job'[q] = job[q] /\ (q \in queue => q \in queue')
        BY <1>2, Others
  <2>2. CallOKAt(q)
        BY DEF CallOK
  <2>. QED  BY <2>1, <2>2 DEF CallOKAt
<1>. QED  BY <1>1, <1>2 DEF CallOK

-----------------------------------------------------------------------------
\* Where no limit changed and no level got freer, a waiter that was short of
\* room still is.
LEMMA StaysShort ==
    ASSUME TypeOK, TypeOK', UNCHANGED limits,
           \A m \in Node : committed'[m] + reserved'[m] >= committed[m] + reserved[m],
           NEW q \in Proc, job'[q].node = job[q].node, job'[q].n = job[q].n,
           Short(q)
    PROVE  Short(q)'
<1>1. job[q].node \in Node /\ job[q].n \in Int
      BY DEF TypeOK, JobOK
<1>2. PICK m \in Levels(job[q].node) : Full(m, job[q].n)
      BY DEF Short
<1>3. m \in Node
      BY <1>1, ChainType
<1>4. Usable(m)' = Usable(m) /\ maxBytes'[m] = maxBytes[m]
      BY DEF limits, Usable, Reserve
<1>5. /\ committed[m] \in Int /\ reserved[m] \in Int
      /\ committed'[m] \in Int /\ reserved'[m] \in Int
      BY <1>3 DEF TypeOK
<1>6. Usable(m) \in Int
  <2>1. maxBytes[m] \in Limit /\ reserve \in Nat
        BY <1>3 DEF TypeOK
  <2>2. maxBytes[m] \in Nat
        BY <2>1, ConstantTypes
  <2>3. maxBytes[m] \in Int /\ reserve \in Int
        BY <2>1, <2>2
  <2>. QED  BY <2>3 DEF Usable, Reserve
<1>7. Full(m, job[q].n)'
      BY <1>1, <1>2, <1>3, <1>4, <1>5, <1>6 DEF Full
<1>8. m \in Levels(job[q].node)'
      BY <1>2 DEF Levels
<1>. QED  BY <1>7, <1>8 DEF Short

\* A waiter NotifyAll passes over is short of room.
LEMMA PassedOver ==
    ASSUME TypeOK, NEW q \in Proc, ~CanSatisfy(q)
    PROVE  Short(q)
<1>1. job[q].node \in Node /\ job[q].n \in Int
      BY DEF TypeOK, JobOK
<1>2. PICK m \in Levels(job[q].node) :
         Usable(m) > 0 /\ ~(job[q].n <= Usable(m) - committed[m] - reserved[m])
      BY DEF CanSatisfy
<1>3. m \in Node
      BY <1>1, <1>2, ChainType
<1>4. /\ committed[m] \in Int /\ reserved[m] \in Int
      /\ maxBytes[m] \in Int /\ reserve \in Nat
  <2>1. committed[m] \in Int /\ reserved[m] \in Int /\ reserve \in Nat
        BY <1>3 DEF TypeOK
  <2>2. maxBytes[m] \in Limit
        BY <1>3 DEF TypeOK
  <2>3. maxBytes[m] \in Nat
        BY <2>2, ConstantTypes
  <2>. QED  BY <2>1, <2>3
<1>5. Usable(m) \in Int /\ maxBytes[m] > 0
      BY <1>2, <1>4 DEF Usable, Reserve
<1>6. Full(m, job[q].n)
      BY <1>1, <1>2, <1>4, <1>5 DEF Full
<1>. QED  BY <1>2, <1>6 DEF Short

\* A step of p that frees nothing, after which p is not a waiter without
\* room to wait for, keeps WakeOK.
LEMMA NotFreer ==
    ASSUME TypeOK, TypeOK', WakeOK, NEW p \in Proc, Call(p) \/ Step(p),
           ~NotifyAll(p), UNCHANGED limits, rolledBack' = rolledBack,
           \A m \in Node : committed'[m] + reserved'[m] >= committed[m] + reserved[m],
           ~Waking(p), job'[p].pc = "queued" => Short(p)'
    PROVE  WakeOK'
<1> SUFFICES ASSUME ~rolledBack, NEW q \in Proc, job'[q].pc = "queued", ~token'[q]
             PROVE  Short(q)' \/ \E w \in Proc : Waking(w)'
    BY DEF WakeOK
<1>1. CASE q = p
      BY <1>1
<1>2. CASE q # p
  <2>1. job'[q] = job[q] /\ token'[q] = token[q]
        BY <1>2, Others
  <2>2. Short(q) \/ \E w \in Proc : Waking(w)
        BY <2>1 DEF WakeOK
  <2>3. CASE Short(q)
        BY <2>1, <2>3, StaysShort
  <2>4. ASSUME NEW w \in Proc, Waking(w)  PROVE Waking(w)'
    <3>1. w # p
          BY <2>4
    <3>2. job'[w] = job[w]
          BY <3>1, Others
    <3>. QED  BY <2>4, <3>2 DEF Waking
  <2>. QED  BY <2>2, <2>3, <2>4
<1>. QED  BY <1>1, <1>2

\* Every step keeps the wake-up argument.
LEMMA WakeStep ==
    ASSUME TypeOK, TypeOK', CallOK, WakeOK, NEW p \in Proc, Call(p) \/ Step(p)
    PROVE  WakeOK'
<1>t. JobOK /\ CallOKAt(p) /\ Here(p) \in Node
      BY HereType DEF TypeOK, CallOK
<1>s. ASSUME UNCHANGED ledger
      PROVE  \A m \in Node : committed'[m] + reserved'[m] >= committed[m] + reserved[m]
      BY <1>s DEF ledger, TypeOK
<1>w. ASSUME Waking(p)'  PROVE WakeOK'
      BY <1>w DEF WakeOK
<1>1. CASE Call(p)
  <2>1. /\ job'[p].pc # "queued" /\ job[p] = Idle
        /\ UNCHANGED <<ledger, rolledBack, token>>
        /\ Waking(p)' \/ UNCHANGED limits
        BY <1>1, CallCall
  <2>2. ~Waking(p) /\ ~NotifyAll(p)
        BY <2>1 DEF Waking, Idle, NotifyAll
  <2>3. CASE UNCHANGED limits
        BY <1>1, <1>s, <2>1, <2>2, <2>3, NotFreer
  <2>. QED  BY <1>w, <2>1, <2>3
<1>2. CASE Lock(p)
  <2>1. job[p].mode \in Locking /\ job[p].pc = "lock"
        BY <1>2, <1>t DEF Lock, CallOKAt
  <2>2. (IF job[p].mode = "first" THEN "reserve" ELSE job[p].mode) # "idle"
        BY <2>1 DEF Locking
  <2>3. job'[p] = Moved(p, IF job[p].mode = "first" THEN "reserve" ELSE job[p].mode,
                        job[p].mode, job[p].n, job[p].lvl)
        BY <1>2, <1>t, <2>2, GotoCall DEF Lock
  <2>4. CASE job[p].mode = "first"
    <3>1. ~Waking(p) /\ ~NotifyAll(p) /\ job'[p].pc # "queued"
          BY <2>1, <2>3, <2>4 DEF Waking, NotifyAll, Moved
    <3>2. UNCHANGED ledger /\ UNCHANGED limits /\ rolledBack' = rolledBack
          BY <1>2 DEF Lock, history
    <3>. QED  BY <1>2, <1>s, <3>1, <3>2, NotFreer
  <2>5. CASE job[p].mode # "first"
    <3>1. Waking(p)'
          BY <2>1, <2>3, <2>5 DEF Waking, Moved, Locking
    <3>. QED  BY <1>w, <3>1
  <2>. QED  BY <2>4, <2>5
<1>3. CASE ReserveLevel(p)
  <2>1. job[p].n \in Amount /\ job[p].pc = "reserve"
        BY <1>3, <1>t DEF ReserveLevel, CallOKAt
  <2>2. job'[p] = Idle \/ job'[p] = Moved(p, "reserve", job[p].mode, job[p].n, job[p].lvl + 1)
        BY <1>3, <1>t, <2>1, ClimbCall DEF ReserveLevel
  <2>3. ~Waking(p) /\ ~NotifyAll(p) /\ job'[p].pc # "queued"
        BY <2>1, <2>2 DEF Waking, NotifyAll, Moved, Idle
  <2>4. UNCHANGED limits /\ rolledBack' = rolledBack
        BY <1>3 DEF ReserveLevel, history
  <2>5. \A m \in Node : committed'[m] + reserved'[m] >= committed[m] + reserved[m]
    <3>1. job[p].n \in Nat
          BY <2>1, ConstantTypes
    <3>. QED  BY <1>3, <1>t, <3>1 DEF ReserveLevel, TypeOK
  <2>. QED  BY <1>3, <2>3, <2>4, <2>5, NotFreer
<1>4. CASE ReserveFull(p)
  <2>1. /\ ~Waking(p) /\ ~NotifyAll(p) /\ UNCHANGED ledger /\ UNCHANGED limits
        /\ rolledBack' = rolledBack /\ Full(Here(p), job[p].n)
        BY <1>4 DEF ReserveFull, Waking, NotifyAll, history
  <2>2. job'[p].pc = "queued" => Short(p)'
    <3>1. CASE job[p].lvl = 1
      <4>1. job[p].n \in Amount /\ job[p].mode \in Asking
            BY <1>4, <1>t DEF ReserveFull, CallOKAt
      <4>2. job'[p] = Idle \/ job'[p] = Moved(p, "queued", job[p].mode, job[p].n, job[p].lvl)
            BY <1>4, <1>t, <3>1, <4>1, RefusedCall DEF ReserveFull
      <4>3. job'[p].pc = "queued" => job'[p].node = job[p].node /\ job'[p].n = job[p].n
            BY <4>2 DEF Idle, Moved
      <4>4. job[p].node \in Node
            BY <1>t DEF JobOK
      <4>5. Here(p) = job[p].node
            BY <3>1, <4>4, ChainType DEF Here
      <4>6. Short(p)
            BY <2>1, <4>4, <4>5, ChainType DEF Short
      <4>. QED  BY <1>s, <2>1, <4>3, <4>6, StaysShort
    <3>2. CASE job[p].lvl # 1
      <4>1. job'[p] = Moved(p, "rollback", job[p].mode, job[p].n, job[p].lvl - 1)
            BY <1>4, <1>t, <3>2 DEF ReserveFull, JobOK
      <4>. QED  BY <4>1 DEF Moved
    <3>. QED  BY <3>1, <3>2
  <2>. QED  BY <1>4, <1>s, <2>1, <2>2, NotFreer
<1>5. CASE Rollback(p)
      BY <1>5 DEF Rollback, WakeOK
<1>6. CASE Wake(p)
  <2>1. job'[p] = Moved(p, "reserve", "retry", job[p].n, 1)
        BY <1>6, <1>t DEF Wake, JobOK
  <2>2. /\ ~Waking(p) /\ ~NotifyAll(p) /\ UNCHANGED ledger /\ UNCHANGED limits
        /\ rolledBack' = rolledBack /\ job'[p].pc # "queued"
        BY <1>6, <2>1 DEF Wake, Waking, NotifyAll, history, Moved
  <2>. QED  BY <1>6, <1>s, <2>2, NotFreer
<1>7. CASE GiveUp(p)
  <2>1. job'[p] = Idle
        BY <1>7, <1>t, GotoCall DEF GiveUp
  <2>2. /\ ~Waking(p) /\ ~NotifyAll(p) /\ UNCHANGED ledger /\ UNCHANGED limits
        /\ rolledBack' = rolledBack /\ job'[p].pc # "queued"
        BY <1>7, <2>1 DEF GiveUp, Waking, NotifyAll, history, Idle
  <2>. QED  BY <1>7, <1>s, <2>2, NotFreer
<1>8. CASE CommitLevel(p)
  <2>1. \/ job'[p] = (IF job[p].mode = "fast" THEN Idle
                      ELSE Moved(p, "unlock", job[p].mode, job[p].n, job[p].lvl))
        \/ job'[p] = Moved(p, "commit", job[p].mode, job[p].n, job[p].lvl + 1)
        BY <1>8, <1>t, ClimbCall DEF CommitLevel
  <2>2. CASE job[p].mode = "commit"
    <3>1. Waking(p)'
          BY <2>1, <2>2 DEF Waking, Moved
    <3>. QED  BY <1>w, <3>1
  <2>3. CASE job[p].mode # "commit"
    <3>1. job[p].mode = "fast" /\ job[p].real >= job[p].n /\ job[p].pc = "commit"
          BY <1>8, <1>t, <2>3 DEF CommitLevel, CallOKAt
    <3>2. /\ ~Waking(p) /\ ~NotifyAll(p) /\ UNCHANGED limits
          /\ rolledBack' = rolledBack /\ job'[p].pc # "queued"
          BY <1>8, <2>1, <3>1 DEF CommitLevel, Waking, NotifyAll, history, Idle, Moved
    <3>3. job[p].real \in Int /\ job[p].n \in Int
          BY <1>t DEF JobOK
    <3>4. \A m \in Node : committed'[m] + reserved'[m] >= committed[m] + reserved[m]
          BY <1>8, <1>t, <3>1, <3>3 DEF CommitLevel, TypeOK
    <3>. QED  BY <1>8, <3>2, <3>4, NotFreer
  <2>. QED  BY <2>2, <2>3
<1>9. CASE ReleaseLevel(p) \/ DropLevel(p) \/ AdjustLevel(p)
  <2>1. PICK k : Climb(p, k, "unlock")
        BY <1>9, Zenon DEF ReleaseLevel, DropLevel, AdjustLevel
  <2>2. job[p].pc \in {"release", "drop", "adjust"}
        BY <1>9 DEF ReleaseLevel, DropLevel, AdjustLevel
  <2>3. \/ job'[p] = Moved(p, "unlock", job[p].mode, job[p].n, job[p].lvl)
        \/ job'[p] = Moved(p, job[p].pc, job[p].mode, k, job[p].lvl + 1)
        BY <1>t, <2>1, ClimbCall
  <2>4. Waking(p)'
        BY <2>2, <2>3 DEF Waking, Moved
  <2>. QED  BY <1>w, <2>4
<1>10. CASE Unlock(p)
  <2>1. job'[p] = Moved(p, "notify", job[p].mode, job[p].n, job[p].lvl)
        BY <1>10, <1>t, GotoCall DEF Unlock
  <2>2. Waking(p)'
        BY <2>1 DEF Waking, Moved
  <2>. QED  BY <1>w, <2>2
<1>11. CASE NotifyAll(p)
  <2> SUFFICES ASSUME NEW q \in Proc, job'[q].pc = "queued", ~token'[q]
               PROVE  Short(q)'
      BY DEF WakeOK
  <2>1. job'[p] = Idle
        BY <1>11, <1>t, GotoCall DEF NotifyAll
  <2>2. q # p
        BY <2>1 DEF Idle
  <2>3. job'[q] = job[q]
        BY <1>11, <2>2, Others DEF Step
  <2>4. q \in queue
        BY <2>3 DEF CallOK, CallOKAt
  <2>5. ~CanSatisfy(q)
    <3>1. token' = [x \in Proc |-> token[x] \/ (x \in queue /\ CanSatisfy(x))]
          BY <1>11 DEF NotifyAll
    <3>2. token'[q] = (token[q] \/ (q \in queue /\ CanSatisfy(q)))
          BY <3>1, Zenon
    <3>. QED  BY <2>4, <3>2, Zenon
  <2>6. UNCHANGED ledger /\ UNCHANGED limits
        BY <1>11 DEF NotifyAll
  <2>. QED  BY <1>s, <2>3, <2>5, <2>6, PassedOver, StaysShort
<1>. QED  BY <1>1, <1>2, <1>3, <1>4, <1>5, <1>6, <1>7, <1>8, <1>9, <1>10,
             <1>11 DEF Step

-----------------------------------------------------------------------------
(* Sums: a function with values in Nat, laid out in units and counted.      *)

\* The units of one place.
Row(f, h) == {h} \X (1..f[h])

\* The first k numbers, paired with a place, are k units.
LEMMA RowCount ==
    ASSUME NEW h, NEW k \in Nat
    PROVE  /\ IsFiniteSet({h} \X (1..k))
           /\ Cardinality({h} \X (1..k)) = k
<1>1. IsFiniteSet({h}) /\ Cardinality({h}) = 1
      BY FS_Singleton
<1>2. IsFiniteSet(1..k) /\ Cardinality(1..k) = k
      BY FS_Interval
<1>3. /\ IsFiniteSet({h} \X (1..k))
      /\ Cardinality({h} \X (1..k)) = Cardinality({h}) * Cardinality(1..k)
      BY <1>1, <1>2, FS_Product
<1>. QED  BY <1>1, <1>2, <1>3

\* A unit is a place and a number up to the value there.
LEMMA UnitsMember ==
    ASSUME NEW D, NEW f \in [D -> Nat], NEW u
    PROVE  u \in Units(f) <=> \E h \in D : \E i \in 1..f[h] : u = <<h, i>>
<1>1. DOMAIN f = D
      OBVIOUS
<1>2. u \in Units(f) <=> \E h \in D : u \in {h} \X (1..f[h])
      BY <1>1, Zenon DEF Units
<1>3. \A h \in D : u \in {h} \X (1..f[h]) <=> \E i \in 1..f[h] : u = <<h, i>>
      OBVIOUS
<1>. QED  BY <1>2, <1>3

\* The sum over a finite set of places is a number.
LEMMA TotalType ==
    ASSUME NEW D, IsFiniteSet(D), NEW f \in [D -> Nat]
    PROVE  IsFiniteSet(Units(f)) /\ Total(f) \in Nat
<1> DEFINE rows == {Row(f, h) : h \in D}
           lay == [h \in D |-> Row(f, h)]
<1>1. lay \in Surjection(D, rows)
      BY DEF Surjection
<1>2. IsFiniteSet(rows)
      BY <1>1, FS_Surjection
<1>3. ASSUME NEW R \in rows PROVE IsFiniteSet(R)
  <2>1. PICK h \in D : R = Row(f, h)
        OBVIOUS
  <2>2. f[h] \in Nat
        OBVIOUS
  <2>. QED  BY <2>1, <2>2, RowCount DEF Row
<1>4. IsFiniteSet(UNION rows)
      BY <1>2, <1>3, FS_UNION
<1>5. Units(f) = UNION rows
      BY DEF Units, Row
<1>6. IsFiniteSet(Units(f))
      BY <1>4, <1>5
<1>. QED  BY <1>6, FS_CardinalityType DEF Total

\* The units at the other places.
Rest(f, x) == {u \in Units(f) : u[1] # x}

\* A sum is the value at one place and the sum over the rest.
LEMMA TotalSplit ==
    ASSUME NEW D, IsFiniteSet(D), NEW f \in [D -> Nat], NEW x \in D
    PROVE  /\ Cardinality(Rest(f, x)) \in Nat
           /\ Total(f) = f[x] + Cardinality(Rest(f, x))
<1>1. f[x] \in Nat
      OBVIOUS
<1>2. Units(f) = Row(f, x) \cup Rest(f, x)
  <2>1. ASSUME NEW u \in Units(f) PROVE u \in Row(f, x) \cup Rest(f, x)
    <3>1. PICK h \in D : \E i \in 1..f[h] : u = <<h, i>>
          BY UnitsMember
    <3>. QED  BY <3>1 DEF Row, Rest
  <2>2. ASSUME NEW u \in Row(f, x) PROVE u \in Units(f)
        BY UnitsMember DEF Row
  <2>. QED  BY <2>1, <2>2 DEF Rest
<1>3. Row(f, x) \cap Rest(f, x) = {}
      BY DEF Row, Rest
<1>4. IsFiniteSet(Row(f, x)) /\ Cardinality(Row(f, x)) = f[x]
      BY <1>1, RowCount DEF Row
<1>5. Rest(f, x) \in SUBSET Units(f)
      BY DEF Rest
<1>6. IsFiniteSet(Rest(f, x))
      BY <1>5, TotalType, FS_Subset
<1>7. Cardinality(Rest(f, x)) \in Nat
      BY <1>6, FS_CardinalityType
<1>8. Cardinality(Units(f)) =
          Cardinality(Row(f, x)) + Cardinality(Rest(f, x)) - Cardinality({})
      BY <1>2, <1>3, <1>4, <1>6, FS_Union
<1>9. Cardinality({}) = 0
      BY FS_EmptySet
<1>. QED  BY <1>1, <1>4, <1>7, <1>8, <1>9 DEF Total

\* Changing one place changes the sum by as much.
LEMMA TotalSet ==
    ASSUME NEW D, IsFiniteSet(D), NEW f \in [D -> Nat], NEW g \in [D -> Nat],
           NEW x \in D, \A y \in D : y # x => g[y] = f[y]
    PROVE  /\ f[x] \in Nat /\ g[x] \in Nat
           /\ Total(f) \in Nat /\ Total(g) \in Nat
           /\ Total(f) >= f[x]
           /\ Total(g) = Total(f) - f[x] + g[x]
<1>1. Rest(f, x) = Rest(g, x)
  <2>1. ASSUME NEW u \in Rest(f, x) PROVE u \in Rest(g, x)
    <3>1. PICK h \in D : \E i \in 1..f[h] : u = <<h, i>>
          BY UnitsMember DEF Rest
    <3>2. h # x
          BY <3>1 DEF Rest
    <3>3. u \in Units(g)
          BY <3>1, <3>2, UnitsMember
    <3>. QED  BY <3>1, <3>2, <3>3 DEF Rest
  <2>2. ASSUME NEW u \in Rest(g, x) PROVE u \in Rest(f, x)
    <3>1. PICK h \in D : \E i \in 1..g[h] : u = <<h, i>>
          BY UnitsMember DEF Rest
    <3>2. h # x
          BY <3>1 DEF Rest
    <3>3. u \in Units(f)
          BY <3>1, <3>2, UnitsMember
    <3>. QED  BY <3>1, <3>2, <3>3 DEF Rest
  <2>. QED  BY <2>1, <2>2
<1>2. f[x] \in Nat /\ g[x] \in Nat /\ Total(f) \in Nat /\ Total(g) \in Nat
      BY TotalType
<1>3. Cardinality(Rest(f, x)) \in Nat /\ Total(f) = f[x] + Cardinality(Rest(f, x))
      BY TotalSplit
<1>4. Total(g) = g[x] + Cardinality(Rest(g, x))
      BY TotalSplit
<1>. QED  BY <1>1, <1>2, <1>3, <1>4

\* The same, for two places.
LEMMA TotalSetTwo ==
    ASSUME NEW D, IsFiniteSet(D), NEW f \in [D -> Nat], NEW g \in [D -> Nat],
           NEW x \in D, NEW y \in D, x # y,
           \A z \in D : z # x /\ z # y => g[z] = f[z]
    PROVE  /\ Total(f) \in Nat /\ Total(g) \in Nat
           /\ Total(f) >= f[x]
           /\ Total(g) = Total(f) - f[x] - f[y] + g[x] + g[y]
<1> DEFINE h == [f EXCEPT ![x] = g[x]]
<1>1. h \in [D -> Nat] /\ h[x] = g[x] /\ h[y] = f[y]
      OBVIOUS
<1>2. \A z \in D : z # x => h[z] = f[z]
      OBVIOUS
<1>3. \A z \in D : z # y => g[z] = h[z]
      OBVIOUS
<1> HIDE DEF h
<1>4. /\ f[x] \in Nat /\ h[x] \in Nat /\ Total(f) \in Nat /\ Total(h) \in Nat
      /\ Total(f) >= f[x] /\ Total(h) = Total(f) - f[x] + h[x]
      BY <1>1, <1>2, TotalSet
<1>5. /\ h[y] \in Nat /\ g[y] \in Nat /\ Total(g) \in Nat
      /\ Total(g) = Total(h) - h[y] + g[y]
      BY <1>1, <1>3, TotalSet
<1>. QED  BY <1>1, <1>4, <1>5

\* A sum of zeros is zero.
LEMMA TotalZero ==
    ASSUME NEW D, NEW f \in [D -> Nat], \A h \in D : f[h] = 0
    PROVE  Total(f) = 0
<1>1. Units(f) = {}
      BY UnitsMember
<1>. QED  BY <1>1, FS_EmptySet DEF Total

-----------------------------------------------------------------------------
(* Levels: a chain names each node once.                                    *)

\* The chain of a level is what is left of the chain.
LEMMA LevelChain ==
    ASSUME NEW b \in Node, NEW i \in 1..Len(Chain[b])
    PROVE  /\ Chain[b][i] \in Node /\ Chain[b][i] \in Levels(b)
           /\ Chain[Chain[b][i]] = SubSeq(Chain[b], i, Len(Chain[b]))
           /\ Len(Chain[Chain[b][i]]) = Len(Chain[b]) - i + 1
<1>1. Chain[b] \in Seq(Node) /\ Len(Chain[b]) \in Nat
      BY ChainType
<1>2. Chain[Chain[b][i]] = SubSeq(Chain[b], i, Len(Chain[b]))
      BY QuotaAssumption
<1>3. Len(SubSeq(Chain[b], i, Len(Chain[b]))) = Len(Chain[b]) - i + 1
      BY <1>1
<1>4. Chain[b][i] \in Node
      BY ChainType
<1>. QED  BY <1>2, <1>3, <1>4 DEF Levels

\* No node is twice on a chain.
LEMMA LevelOnce ==
    ASSUME NEW b \in Node, NEW i \in 1..Len(Chain[b]), NEW j \in 1..Len(Chain[b]),
           Chain[b][i] = Chain[b][j]
    PROVE  i = j
<1>1. Len(Chain[b]) \in Nat
      BY ChainType
<1>2. Len(Chain[b]) - i + 1 = Len(Chain[b]) - j + 1
      BY LevelChain
<1>. QED  BY <1>1, <1>2

\* The place of a node on a chain.
LEMMA PosIs ==
    ASSUME NEW b \in Node, NEW m \in Levels(b)
    PROVE  /\ Pos(b, m) \in 1..Len(Chain[b]) /\ Pos(b, m) \in Nat
           /\ Chain[b][Pos(b, m)] = m
           /\ \A i \in 1..Len(Chain[b]) : Chain[b][i] = m <=> i = Pos(b, m)
<1>1. \E i \in 1..Len(Chain[b]) : Chain[b][i] = m
      BY DEF Levels
<1>2. Pos(b, m) \in 1..Len(Chain[b]) /\ Chain[b][Pos(b, m)] = m
      BY <1>1, Zenon DEF Pos
<1>3. Len(Chain[b]) \in Nat
      BY ChainType
<1>. QED  BY <1>2, <1>3, LevelOnce

\* The node a walk is at, and its level.
LEMMA HereIs ==
    ASSUME JobOK, NEW p \in Proc
    PROVE  /\ job[p].node \in Node /\ job[p].lvl \in Nat /\ job[p].n \in Int
           /\ job[p].real \in Nat
           /\ job[p].lvl \in 1..Len(Chain[job[p].node])
           /\ Len(Chain[job[p].node]) \in Nat
           /\ Here(p) \in Levels(job[p].node) /\ Here(p) \in Node
           /\ \A m \in Levels(job[p].node) :
                 m = Here(p) <=> Pos(job[p].node, m) = job[p].lvl
<1>1. /\ job[p].node \in Node /\ job[p].lvl \in 1..Len(Chain[job[p].node])
      /\ job[p].n \in Int /\ job[p].real \in Nat /\ job[p].lvl \in Nat
      BY DEF JobOK
<1>2. Here(p) \in Levels(job[p].node) /\ Here(p) \in Node
      BY <1>1, LevelChain DEF Here
<1>3. ASSUME NEW m \in Levels(job[p].node)
      PROVE  m = Here(p) <=> Pos(job[p].node, m) = job[p].lvl
      BY <1>1, PosIs DEF Here
<1>. QED  BY <1>1, <1>2, <1>3, ChainType

\* The parent of the node a walk is at is the next level of the walk.
LEMMA ParentIs ==
    ASSUME NEW b \in Node, NEW i \in 1..Len(Chain[b]), NEW m \in Node
    PROVE  Chain[b][i] \in Children(m) <=>
              i < Len(Chain[b]) /\ Chain[b][i + 1] = m
<1>1. /\ Chain[b] \in Seq(Node) /\ Len(Chain[b]) \in Nat
      /\ Chain[b][i] \in Node
      BY ChainType
<1>2. /\ Chain[Chain[b][i]] = SubSeq(Chain[b], i, Len(Chain[b]))
      /\ Len(Chain[Chain[b][i]]) = Len(Chain[b]) - i + 1
      BY LevelChain
<1>3. Chain[b][i] \in Children(m) <=>
         Len(Chain[b]) - i + 1 > 1 /\ Chain[Chain[b][i]][2] = m
      BY <1>1, <1>2 DEF Children
<1>4. CASE i < Len(Chain[b])
  <2>1. SubSeq(Chain[b], i, Len(Chain[b]))[2] = Chain[b][i + 1]
        BY <1>1, <1>4
  <2>2. Len(Chain[b]) - i + 1 > 1
        BY <1>1, <1>4
  <2>. QED  BY <1>2, <1>3, <1>4, <2>1, <2>2
<1>5. CASE ~(i < Len(Chain[b]))
  <2>1. ~(Len(Chain[b]) - i + 1 > 1)
        BY <1>1, <1>5
  <2>. QED  BY <1>3, <1>5, <2>1
<1>. QED  BY <1>4, <1>5

-----------------------------------------------------------------------------
(* What a step does to the ledger, the limits, the reservations and its own *)
(* call, one definition per kind of step.                                   *)

Still == UNCHANGED <<ledger, limits, res, exact>>

\* A call begins.
Starts(p, at, how, b, k, r) ==
    /\ job[p] = Idle
    /\ job'[p] = [pc |-> at, mode |-> how, node |-> b, n |-> k,
                  real |-> r, lvl |-> 1]
    /\ UNCHANGED <<ledger, exact>>

Asks(p) ==
    /\ res[p] = NoRes /\ UNCHANGED <<res, limits>>
    /\ \E b \in Bucket, k \in Amount :
          \/ Starts(p, "reserve", "try", b, k, 0)
          \/ Starts(p, "lock", "first", b, k, 0)

Settles(p) ==
    /\ UNCHANGED limits
    /\ \E r \in Proc, a \in Nat :
          /\ res[r] # NoRes /\ res' = [res EXCEPT ![r] = NoRes]
          /\ exact => a <= res[r].n
          /\ \/ Starts(p, "commit", "fast", res[r].node, res[r].n, a)
             \/ Starts(p, "lock", "commit", res[r].node, res[r].n, a)
             \/ Starts(p, "lock", "release", res[r].node, res[r].n, a)

Frees(p) ==
    /\ UNCHANGED <<res, limits>>
    /\ \E b \in Bucket, k \in Int :
          \/ k >= 0 /\ Starts(p, "drop", "locked", b, k, 0)
          \/ (exact => k <= 0) /\ Starts(p, "adjust", "locked", b, k, 0)

Resizes(p) ==
    /\ UNCHANGED res
    /\ \E m \in Node : Starts(p, "unlock", "locked", m, 0, 0)
    /\ exact => \A m \in Node :
          maxBytes'[m] > 0 => maxBytes[m] > 0 /\ Usable(m)' >= Usable(m)

\* A call is given waitMu, is woken, turns back, or has nothing reserved.
Locks(p) ==
    /\ Still /\ job[p].pc = "lock" /\ job[p].mode \in Locking
    /\ job'[p] = Moved(p, IF job[p].mode = "first" THEN "reserve"
                          ELSE job[p].mode, job[p].mode, job[p].n, job[p].lvl)
Wakes(p) ==
    /\ Still /\ job[p].pc = "queued"
    /\ job'[p] = Moved(p, "reserve", "retry", job[p].n, 1)
Turns(p) ==
    /\ Still /\ job[p].pc = "reserve" /\ job[p].lvl > 1
    /\ job'[p] = Moved(p, "rollback", job[p].mode, job[p].n, job[p].lvl - 1)
Rests(p) ==
    /\ Still
    /\ \/ job[p].pc \in {"queued", "unlock", "notify"}
       \/ job[p].pc = "reserve" /\ job[p].lvl = 1
    /\ \/ job'[p] = Idle
       \/ /\ job[p].pc = "reserve"
          /\ job'[p] = Moved(p, "queued", job[p].mode, job[p].n, job[p].lvl)
       \/ /\ job[p].pc = "unlock"
          /\ job'[p] = Moved(p, "notify", job[p].mode, job[p].n, job[p].lvl)

\* A walk does one level and carries k bytes on, or ends.
Carries(p, k) ==
    \/ /\ AtTop(p) \/ k = 0
       /\ \/ job'[p] = Idle
          \/ job'[p] = Moved(p, "unlock", job[p].mode, job[p].n, job[p].lvl)
    \/ /\ ~AtTop(p) /\ k # 0
       /\ job'[p] = Moved(p, job[p].pc, job[p].mode, k, job[p].lvl + 1)

Reserves(p) ==
    /\ job[p].pc = "reserve" /\ job[p].n \in Amount
    /\ ~Full(Here(p), job[p].n)
    /\ reserved' = [reserved EXCEPT ![Here(p)] = @ + job[p].n]
    /\ UNCHANGED <<committed, limits, exact>>
    /\ \/ /\ AtTop(p) /\ job'[p] = Idle
          /\ res' = [res EXCEPT ![p] = [node |-> job[p].node, n |-> job[p].n]]
       \/ /\ ~AtTop(p) /\ res' = res
          /\ job'[p] = Moved(p, "reserve", job[p].mode, job[p].n, job[p].lvl + 1)
Undoes(p) ==
    /\ job[p].pc = "rollback" /\ job[p].n \in Amount
    /\ reserved' = [reserved EXCEPT ![Here(p)] = @ - job[p].n]
    /\ UNCHANGED <<committed, limits, res, exact>>
    /\ \/ /\ job[p].lvl = 1
          /\ \/ job'[p] = Idle
             \/ job'[p] = Moved(p, "queued", job[p].mode, job[p].n, job[p].lvl)
       \/ /\ job[p].lvl > 1
          /\ job'[p] = Moved(p, "rollback", job[p].mode, job[p].n, job[p].lvl - 1)
Commits(p) ==
    /\ job[p].pc = "commit" /\ Carries(p, job[p].n)
    /\ reserved' = [reserved EXCEPT ![Here(p)] = @ - job[p].n]
    /\ committed' = [committed EXCEPT ![Here(p)] = @ + job[p].real]
    /\ UNCHANGED <<limits, res, exact>>
Releases(p) ==
    /\ job[p].pc = "release"
    /\ Carries(p, AtMost(job[p].n, reserved[Here(p)]))
    /\ reserved' = [reserved EXCEPT
                       ![Here(p)] = @ - AtMost(job[p].n, reserved[Here(p)])]
    /\ UNCHANGED <<committed, limits, res, exact>>
\* The change of usage a walk makes at its level.
Change(p) ==
    IF job[p].pc = "drop" THEN -AtMost(job[p].n, committed[Here(p)])
    ELSE IF committed[Here(p)] + job[p].n < 0 THEN -committed[Here(p)]
    ELSE job[p].n
Changes(p) ==
    /\ job[p].pc \in {"drop", "adjust"}
    /\ Carries(p, IF job[p].pc = "drop" THEN -Change(p) ELSE Change(p))
    /\ committed' = [committed EXCEPT ![Here(p)] = @ + Change(p)]
    /\ UNCHANGED <<reserved, limits, res, exact>>

Effect(p) ==
    \/ Asks(p) \/ Settles(p) \/ Frees(p) \/ Resizes(p)
    \/ Locks(p) \/ Wakes(p) \/ Turns(p) \/ Rests(p)
    \/ Reserves(p) \/ Undoes(p) \/ Commits(p) \/ Releases(p) \/ Changes(p)

\* What quota may use of a node is a number, and is more when the limit
\* grows or the operational reserve shrinks.
LEMMA UsableType ==
    ASSUME TypeOK, NEW m \in Node
    PROVE  /\ maxBytes[m] \in Nat /\ reserve \in Nat /\ Usable(m) \in Nat
           /\ Reserve(m) \in Nat
<1>1. maxBytes[m] \in Limit /\ reserve \in Nat
      BY DEF TypeOK
<1>2. maxBytes[m] \in Nat
      BY <1>1, ConstantTypes
<1>. QED  BY <1>1, <1>2 DEF Usable, Reserve

\* The level a climbing walk reaches.
LEMMA ClimbCarries ==
    ASSUME JobOK, NEW p \in Proc, NEW k, NEW after \in {"idle", "unlock"},
           Climb(p, k, after)
    PROVE  Carries(p, k)
<1>1. CASE AtTop(p) \/ k = 0
  <2>1. Goto(p, after)
        BY <1>1 DEF Climb
  <2>2. job'[p] = IF after = "idle" THEN Idle
                  ELSE Moved(p, after, job[p].mode, job[p].n, job[p].lvl)
        BY <2>1, GotoCall
  <2>. QED  BY <1>1, <2>2 DEF Carries
<1>2. CASE ~(AtTop(p) \/ k = 0)
  <2>1. job'[p] = Moved(p, job[p].pc, job[p].mode, k, job[p].lvl + 1)
        BY <1>2 DEF Climb, JobOK
  <2>. QED  BY <1>2, <2>1 DEF Carries
<1>. QED  BY <1>1, <1>2

\* The start of a call is one of the kinds of step.
LEMMA CallEffect ==
    ASSUME TypeOK, TypeOK', NEW p \in Proc, Call(p)
    PROVE  Effect(p)
<1>b. ASSUME NEW at, NEW how, NEW b, NEW k, NEW r, Begin(p, at, how, b, k, r)
      PROVE  Starts(p, at, how, b, k, r)
  <2>1. job'[p] = [pc |-> at, mode |-> how, node |-> b, n |-> k,
                   real |-> r, lvl |-> 1]
        BY <1>b, BeginCall
  <2>. QED  BY <1>b, <2>1 DEF Begin, Starts
<1>l. ASSUME NEW at, NEW b, NEW k, BeginLocked(p, at, b, k)
      PROVE  Starts(p, at, "locked", b, k, 0) /\ res' = res
      BY <1>l, <1>b DEF BeginLocked
<1>n. \A a \in Amount : a \in Nat /\ a \in Int /\ -a \in Int /\ a >= 0 /\ -a <= 0
      BY ConstantTypes
<1>1. CASE TryReserve(p) \/ WaitReserve(p)
  <2>1. Asks(p)
        BY <1>1, <1>b, Zenon DEF TryReserve, WaitReserve, Asks
  <2>. QED  BY <2>1 DEF Effect
<1>2. CASE Commit(p)
  <2>1. PICK r \in Proc, a \in Amount \cup {0} :
           /\ res[r] # NoRes /\ res' = [res EXCEPT ![r] = NoRes]
           /\ exact => a <= res[r].n
           /\ IF a >= res[r].n
              THEN Begin(p, "commit", "fast", res[r].node, res[r].n, a)
              ELSE Begin(p, "lock", "commit", res[r].node, res[r].n, a)
        BY <1>2 DEF Commit
  <2>2. a \in Nat
        BY <1>n
  <2>3. \/ Starts(p, "commit", "fast", res[r].node, res[r].n, a)
        \/ Starts(p, "lock", "commit", res[r].node, res[r].n, a)
        BY <2>1, <1>b, Zenon
  <2>4. UNCHANGED limits
        BY <1>2 DEF Commit
  <2>5. Settles(p)
        BY <2>1, <2>2, <2>3, <2>4, Zenon DEF Settles
  <2>. QED  BY <2>5 DEF Effect
<1>3. CASE Release(p)
  <2>1. PICK r \in Proc :
           /\ res[r] # NoRes /\ res' = [res EXCEPT ![r] = NoRes]
           /\ Begin(p, "lock", "release", res[r].node, res[r].n, 0)
        BY <1>3 DEF Release
  <2>2. Starts(p, "lock", "release", res[r].node, res[r].n, 0)
        BY <2>1, <1>b
  <2>3. 0 \in Nat /\ 0 <= res[r].n
    <3>1. res[r].n \in Amount
          BY <2>1, ResType
    <3>2. res[r].n \in Nat
          BY <3>1, <1>n
    <3>. QED  BY <3>2
  <2>4. UNCHANGED limits
        BY <1>3 DEF Release
  <2>5. Settles(p)
        BY <2>1, <2>2, <2>3, <2>4, Zenon DEF Settles
  <2>. QED  BY <2>5 DEF Effect
<1>4. CASE ReleaseUsage(p)
  <2>1. PICK b \in Bucket, k \in Amount : BeginLocked(p, "drop", b, k)
        BY <1>4 DEF ReleaseUsage
  <2>2. Starts(p, "drop", "locked", b, k, 0) /\ res' = res /\ k \in Int /\ k >= 0
        BY <2>1, <1>l, <1>n
  <2>3. Frees(p)
        BY <1>4, <2>2, Zenon DEF ReleaseUsage, Frees
  <2>. QED  BY <2>3 DEF Effect
<1>5. CASE ReleaseAndUnmount(p)
  <2>1. PICK b \in Bucket :
           committed[b] > 0 /\ BeginLocked(p, "drop", b, committed[b])
        BY <1>5 DEF ReleaseAndUnmount
  <2>2. b \in Node
        BY ConstantTypes
  <2>3. committed[b] \in Int /\ committed[b] >= 0
        BY <2>1, <2>2 DEF TypeOK
  <2>4. Starts(p, "drop", "locked", b, committed[b], 0) /\ res' = res
        BY <2>1, <1>l
  <2>5. Frees(p)
        BY <1>5, <2>3, <2>4, Zenon DEF ReleaseAndUnmount, Frees
  <2>. QED  BY <2>5 DEF Effect
<1>6. CASE Adjust(p)
  <2>1. PICK b \in Bucket, k \in Amount :
           \/ BeginLocked(p, "adjust", b, -k)
           \/ ~exact /\ BeginLocked(p, "adjust", b, k)
        BY <1>6 DEF Adjust
  <2>2. k \in Int /\ -k \in Int /\ -k <= 0
        BY <1>n
  <2>3. res' = res /\ UNCHANGED limits
        BY <1>6, <2>1, <1>l DEF Adjust
  <2>4. \/ Starts(p, "adjust", "locked", b, -k, 0)
        \/ ~exact /\ Starts(p, "adjust", "locked", b, k, 0)
        BY <2>1, <1>l
  <2>5. Frees(p)
        BY <2>2, <2>3, <2>4, Zenon DEF Frees
  <2>. QED  BY <2>5 DEF Effect
<1>7. CASE SetMaxBytes(p)
  <2>1. PICK m \in Node, v \in Limit :
           /\ exact => v = 0 \/ (maxBytes[m] > 0 /\ v >= maxBytes[m])
           /\ maxBytes' = [maxBytes EXCEPT ![m] = v]
           /\ BeginLocked(p, "unlock", m, 0)
        BY <1>7 DEF SetMaxBytes
  <2>2. Starts(p, "unlock", "locked", m, 0, 0) /\ res' = res
        BY <2>1, <1>l
  <2>3. ASSUME exact, NEW c \in Node, maxBytes'[c] > 0
        PROVE  maxBytes[c] > 0 /\ Usable(c)' >= Usable(c)
    <3>1. maxBytes[c] \in Nat /\ reserve \in Nat /\ Reserve(c) \in Nat
          BY UsableType
    <3>2. Reserve(c)' = Reserve(c)
          BY <1>7 DEF SetMaxBytes, Reserve
    <3>3. maxBytes'[c] \in Nat
      <4>1. maxBytes'[c] \in Limit
            BY DEF TypeOK
      <4>. QED  BY <4>1, ConstantTypes
    <3>4. maxBytes'[c] >= maxBytes[c] /\ maxBytes[c] > 0
      <4>1. CASE c = m
        <5>1. maxBytes'[c] = v
              BY <2>1, <4>1 DEF TypeOK
        <5>. QED  BY <2>1, <2>3, <3>1, <3>3, <4>1, <5>1
      <4>2. CASE c # m
        <5>1. maxBytes'[c] = maxBytes[c]
              BY <2>1, <4>2 DEF TypeOK
        <5>. QED  BY <2>3, <3>1, <5>1
      <4>. QED  BY <4>1, <4>2
    <3>. QED  BY <3>1, <3>2, <3>3, <3>4 DEF Usable
  <2>4. Resizes(p)
        BY <2>2, <2>3, Zenon DEF Resizes
  <2>. QED  BY <2>4 DEF Effect
<1>8. CASE SetOperationalReserve(p)
  <2>1. PICK v \in Amount \cup {0} :
           /\ exact => v <= reserve
           /\ reserve' = v /\ BeginLocked(p, "unlock", Root, 0)
        BY <1>8 DEF SetOperationalReserve
  <2>2. Starts(p, "unlock", "locked", Root, 0, 0) /\ res' = res
        BY <2>1, <1>l
  <2>3. ASSUME exact, NEW c \in Node, maxBytes'[c] > 0
        PROVE  maxBytes[c] > 0 /\ Usable(c)' >= Usable(c)
    <3>1. maxBytes[c] \in Nat /\ reserve \in Nat
          BY UsableType
    <3>2. maxBytes' = maxBytes
          BY <1>8 DEF SetOperationalReserve
    <3>3. reserve' \in Nat /\ reserve' <= reserve
          BY <2>1, <2>3 DEF TypeOK
    <3>. QED  BY <2>3, <3>1, <3>2, <3>3 DEF Usable, Reserve
  <2>4. Root \in Node
        BY ConstantTypes
  <2>5. Resizes(p)
        BY <2>2, <2>3, <2>4, Zenon DEF Resizes
  <2>. QED  BY <2>5 DEF Effect
<1>. QED  BY <1>1, <1>2, <1>3, <1>4, <1>5, <1>6, <1>7, <1>8 DEF Call

\* A step of a call is one of the kinds of step.
LEMMA StepEffect ==
    ASSUME TypeOK, CallOK, NEW p \in Proc, Step(p)
    PROVE  Effect(p)
<1>t. JobOK /\ CallOKAt(p) /\ job[p].lvl \in Nat /\ job[p].lvl >= 1
  <2>1. JobOK /\ CallOKAt(p)
        BY DEF TypeOK, CallOK
  <2>. QED  BY <2>1 DEF JobOK
<1>i. "idle" \in {"idle", "unlock"} /\ "unlock" \in {"idle", "unlock"}
      OBVIOUS
<1>1. CASE Lock(p)
  <2>1. job[p].mode \in Locking /\ job[p].pc = "lock"
        BY <1>1, <1>t DEF Lock, CallOKAt
  <2>2. (IF job[p].mode = "first" THEN "reserve" ELSE job[p].mode) # "idle"
        BY <2>1 DEF Locking
  <2>3. job'[p] = Moved(p, IF job[p].mode = "first" THEN "reserve"
                           ELSE job[p].mode, job[p].mode, job[p].n, job[p].lvl)
        BY <1>1, <1>t, <2>2, GotoCall DEF Lock
  <2>4. Still
        BY <1>1 DEF Lock, Still, history
  <2>5. Locks(p)
        BY <2>1, <2>3, <2>4 DEF Locks
  <2>. QED  BY <2>5 DEF Effect
<1>2. CASE ReserveLevel(p)
  <2>1. job[p].n \in Amount /\ job[p].pc = "reserve"
        BY <1>2, <1>t DEF ReserveLevel, CallOKAt
  <2>2. job[p].n # 0
        BY <2>1, ConstantTypes
  <2>3. \/ AtTop(p) /\ job'[p] = Idle
        \/ /\ ~AtTop(p)
           /\ job'[p] = Moved(p, "reserve", job[p].mode, job[p].n, job[p].lvl + 1)
    <3>1. CASE AtTop(p)
      <4>1. Goto(p, "idle")
            BY <1>2, <3>1 DEF ReserveLevel, Climb
      <4>. QED  BY <3>1, <4>1, <1>t, GotoCall
    <3>2. CASE ~AtTop(p)
          BY <1>2, <1>t, <2>1, <2>2, <3>2 DEF ReserveLevel, Climb, JobOK
    <3>. QED  BY <3>1, <3>2
  <2>4. \/ /\ AtTop(p)
           /\ res' = [res EXCEPT ![p] = [node |-> job[p].node, n |-> job[p].n]]
        \/ ~AtTop(p) /\ res' = res
        BY <1>2 DEF ReserveLevel
  <2>5. /\ ~Full(Here(p), job[p].n)
        /\ reserved' = [reserved EXCEPT ![Here(p)] = @ + job[p].n]
        /\ UNCHANGED <<committed, limits, exact>>
        BY <1>2 DEF ReserveLevel, history
  <2>6. Reserves(p)
        BY <2>1, <2>3, <2>4, <2>5 DEF Reserves
  <2>. QED  BY <2>6 DEF Effect
<1>3. CASE ReserveFull(p)
  <2>1. /\ job[p].n \in Amount /\ job[p].mode \in Asking /\ job[p].pc = "reserve"
        /\ Still
        BY <1>3, <1>t DEF ReserveFull, CallOKAt, Still, history
  <2>2. CASE job[p].lvl = 1
    <3>1. \/ job'[p] = Idle
          \/ job'[p] = Moved(p, "queued", job[p].mode, job[p].n, job[p].lvl)
          BY <1>3, <1>t, <2>1, <2>2, RefusedCall DEF ReserveFull
    <3>2. Rests(p)
          BY <2>1, <2>2, <3>1 DEF Rests
    <3>. QED  BY <3>2 DEF Effect
  <2>3. CASE job[p].lvl # 1
    <3>1. job'[p] = Moved(p, "rollback", job[p].mode, job[p].n, job[p].lvl - 1)
          BY <1>3, <1>t, <2>3 DEF ReserveFull, JobOK
    <3>2. Turns(p)
          BY <2>1, <2>3, <3>1, <1>t DEF Turns
    <3>. QED  BY <3>2 DEF Effect
  <2>. QED  BY <2>2, <2>3
<1>4. CASE Rollback(p)
  <2>1. job[p].n \in Amount /\ job[p].mode \in Asking /\ job[p].pc = "rollback"
        BY <1>4, <1>t DEF Rollback, CallOKAt
  <2>2. /\ reserved' = [reserved EXCEPT ![Here(p)] = @ - job[p].n]
        /\ UNCHANGED <<committed, limits, res, exact>>
        BY <1>4 DEF Rollback
  <2>3. CASE job[p].lvl = 1
    <3>1. \/ job'[p] = Idle
          \/ job'[p] = Moved(p, "queued", job[p].mode, job[p].n, job[p].lvl)
          BY <1>4, <1>t, <2>1, <2>3, RefusedCall DEF Rollback
    <3>2. Undoes(p)
          BY <2>1, <2>2, <2>3, <3>1 DEF Undoes
    <3>. QED  BY <3>2 DEF Effect
  <2>4. CASE job[p].lvl # 1
    <3>1. job'[p] = Moved(p, "rollback", job[p].mode, job[p].n, job[p].lvl - 1)
          BY <1>4, <1>t, <2>4 DEF Rollback, JobOK
    <3>2. job[p].lvl > 1
          BY <2>4, <1>t
    <3>3. Undoes(p)
          BY <2>1, <2>2, <3>1, <3>2 DEF Undoes
    <3>. QED  BY <3>3 DEF Effect
  <2>. QED  BY <2>3, <2>4
<1>5. CASE Wake(p)
  <2>1. job'[p] = Moved(p, "reserve", "retry", job[p].n, 1)
        BY <1>5, <1>t DEF Wake, JobOK
  <2>2. Wakes(p)
        BY <1>5, <2>1 DEF Wake, Wakes, Still, history
  <2>. QED  BY <2>2 DEF Effect
<1>6. CASE GiveUp(p) \/ NotifyAll(p)
  <2>1. job'[p] = Idle
        BY <1>6, <1>t, GotoCall DEF GiveUp, NotifyAll
  <2>2. Rests(p)
        BY <1>6, <2>1 DEF GiveUp, NotifyAll, Rests, Still, history
  <2>. QED  BY <2>2 DEF Effect
<1>7. CASE CommitLevel(p)
  <2>1. (IF job[p].mode = "fast" THEN "idle" ELSE "unlock") \in {"idle", "unlock"}
        OBVIOUS
  <2>2. Carries(p, job[p].n)
        BY <1>7, <1>t, <2>1, ClimbCarries DEF CommitLevel
  <2>3. Commits(p)
        BY <1>7, <2>2 DEF CommitLevel, Commits, history
  <2>. QED  BY <2>3 DEF Effect
<1>8. CASE ReleaseLevel(p)
  <2>1. Climb(p, AtMost(job[p].n, reserved[Here(p)]), "unlock")
        BY <1>8 DEF ReleaseLevel
  <2>2. Carries(p, AtMost(job[p].n, reserved[Here(p)]))
        BY <2>1, <1>t, <1>i, ClimbCarries
  <2>3. Releases(p)
        BY <1>8, <2>2 DEF ReleaseLevel, Releases, history
  <2>. QED  BY <2>3 DEF Effect
<1>h. /\ Here(p) \in Node /\ committed[Here(p)] \in Int /\ job[p].n \in Int
      BY <1>t, HereType DEF TypeOK, JobOK
<1>9. CASE DropLevel(p)
  <2>1. job[p].pc = "drop" /\ Change(p) = -AtMost(job[p].n, committed[Here(p)])
        BY <1>9 DEF DropLevel, Change
  <2>2. AtMost(job[p].n, committed[Here(p)]) \in Int
        BY <1>h DEF AtMost
  <2>3. /\ Climb(p, AtMost(job[p].n, committed[Here(p)]), "unlock")
        /\ committed' = [committed EXCEPT
                            ![Here(p)] = @ - AtMost(job[p].n, committed[Here(p)])]
        /\ UNCHANGED <<reserved, limits, res, exact>>
        BY <1>9 DEF DropLevel, history
  <2>4. -Change(p) = AtMost(job[p].n, committed[Here(p)])
        BY <2>1, <2>2
  <2>5. Carries(p, -Change(p))
        BY <2>3, <2>4, <1>t, <1>i, ClimbCarries
  <2>6. committed[Here(p)] - AtMost(job[p].n, committed[Here(p)]) =
           committed[Here(p)] + Change(p)
        BY <2>1, <2>2, <1>h
  <2>7. committed' = [committed EXCEPT ![Here(p)] = @ + Change(p)]
        BY <2>3, <2>6
  <2>8. Changes(p)
        BY <2>1, <2>3, <2>5, <2>7 DEF Changes
  <2>. QED  BY <2>8 DEF Effect
<1>10. CASE AdjustLevel(p)
  <2>1. /\ job[p].pc = "adjust" /\ job[p].pc # "drop"
        /\ Change(p) = IF committed[Here(p)] + job[p].n < 0
                       THEN -committed[Here(p)] ELSE job[p].n
        BY <1>10 DEF AdjustLevel, Change
  <2>2. /\ Climb(p, Change(p), "unlock")
        /\ committed' = [committed EXCEPT ![Here(p)] = @ + Change(p)]
        /\ UNCHANGED <<reserved, limits, res, exact>>
        BY <1>10, <2>1 DEF AdjustLevel, history
  <2>3. Carries(p, Change(p))
        BY <2>2, <1>t, <1>i, ClimbCarries
  <2>4. Changes(p)
        BY <2>1, <2>2, <2>3 DEF Changes
  <2>. QED  BY <2>4 DEF Effect
<1>11. CASE Unlock(p)
  <2>1. job'[p] = Moved(p, "notify", job[p].mode, job[p].n, job[p].lvl)
        BY <1>11, <1>t, GotoCall DEF Unlock
  <2>2. Rests(p)
        BY <1>11, <2>1 DEF Unlock, Rests, Still, history
  <2>. QED  BY <2>2 DEF Effect
<1>. QED  BY <1>1, <1>2, <1>3, <1>4, <1>5, <1>6, <1>7, <1>8, <1>9, <1>10,
             <1>11 DEF Step

-----------------------------------------------------------------------------
(* Arguments.                                                               *)

\* A step touches the reservation of another goroutine only to settle it.
LEMMA OtherRes ==
    ASSUME TypeOK, NEW p \in Proc, Effect(p), NEW q \in Proc, q # p
    PROVE  (res'[q] = res[q] \/ res'[q] = NoRes) /\ exact' = exact
<1>1. CASE Settles(p)
  <2>1. PICK r \in Proc : res' = [res EXCEPT ![r] = NoRes]
        BY <1>1, Zenon DEF Settles
  <2>2. exact' = exact
        BY <1>1, Zenon DEF Settles, Starts
  <2>. QED  BY <2>1, <2>2 DEF TypeOK
<1>2. CASE Reserves(p)
      BY <1>2 DEF Reserves, TypeOK
<1>3. CASE Asks(p) \/ Frees(p) \/ Resizes(p)
      BY <1>3, Zenon DEF Asks, Frees, Resizes, Starts
<1>4. CASE Locks(p) \/ Wakes(p) \/ Turns(p) \/ Rests(p)
      BY <1>4 DEF Locks, Wakes, Turns, Rests, Still
<1>5. CASE Undoes(p) \/ Commits(p) \/ Releases(p) \/ Changes(p)
      BY <1>5 DEF Undoes, Commits, Releases, Changes
<1>. QED  BY <1>1, <1>2, <1>3, <1>4, <1>5 DEF Effect

\* Every step keeps what a place says about reservation, bytes and node.
LEMMA ArgsStep ==
    ASSUME TypeOK, CallOK, ArgsOK, ReservedExact, NotBelowZero,
           NEW p \in Proc, Call(p) \/ Step(p), Effect(p),
           \* A walk that releases has at least its bytes to release.
           job[p].pc = "release" => job[p].n <= reserved[Here(p)]
    PROVE  ArgsOK'
<1>t. JobOK /\ CallOKAt(p) /\ ArgsAt(p)
      BY DEF TypeOK, CallOK, ArgsOK
<1>h. /\ Here(p) \in Node /\ committed[Here(p)] \in Int /\ job[p].n \in Int
      /\ reserved[Here(p)] \in Int /\ job[p].lvl \in Nat /\ job[p].real \in Nat
      /\ committed[Here(p)] >= 0
      BY <1>t, HereType DEF TypeOK, JobOK, NotBelowZero
<1>i. job'[p] = Idle /\ (res'[p] # NoRes => res'[p].node \in Bucket) => ArgsAt(p)'
      BY DEF ArgsAt, Settling, Idle, Walking
<1>q. ASSUME NEW q \in Proc, q # p PROVE ArgsAt(q)'
  <2>1. job'[q] = job[q]
        BY <1>q, Others
  <2>2. (res'[q] = res[q] \/ res'[q] = NoRes) /\ exact' = exact
        BY <1>q, OtherRes
  <2>3. ArgsAt(q)
        BY DEF ArgsOK
  <2>. QED  BY <2>1, <2>2, <2>3 DEF ArgsAt, Settling, Walking
<1>p. ArgsAt(p)'
  <2>1. CASE Asks(p)
    <3>1. PICK b \in Bucket, k \in Amount :
             \/ Starts(p, "reserve", "try", b, k, 0)
             \/ Starts(p, "lock", "first", b, k, 0)
          BY <2>1 DEF Asks
    <3>2. res[p] = NoRes /\ res' = res
          BY <2>1 DEF Asks
    <3>. QED  BY <3>1, <3>2 DEF Starts, ArgsAt, Settling, Walking
  <2>2. CASE Settles(p)
    <3>1. PICK r \in Proc, a \in Nat :
             /\ res[r] # NoRes /\ res' = [res EXCEPT ![r] = NoRes]
             /\ exact => a <= res[r].n
             /\ \/ Starts(p, "commit", "fast", res[r].node, res[r].n, a)
                \/ Starts(p, "lock", "commit", res[r].node, res[r].n, a)
                \/ Starts(p, "lock", "release", res[r].node, res[r].n, a)
          BY <2>2 DEF Settles
    <3>2. res[r].node \in Bucket /\ res[r].n \in Amount
          BY <3>1, ResType DEF ArgsOK, ArgsAt
    <3>3. res'[p] = res[p] \/ res'[p] = NoRes
          BY <3>1 DEF TypeOK
    <3>4. /\ exact' = exact
          /\ job'[p].node = res[r].node /\ job'[p].n = res[r].n
          /\ job'[p].real = a /\ job'[p].lvl = 1
          /\ \/ job'[p].pc = "commit"
             \/ job'[p].pc = "lock" /\ job'[p].mode \in {"commit", "release"}
          BY <3>1 DEF Starts
    <3>5. ~(job'[p].pc = "lock" /\ job'[p].mode = "first")
          BY <3>4
    <3>. QED  BY <3>1, <3>2, <3>3, <3>4, <3>5, <1>t
              DEF ArgsAt, Settling, Walking
  <2>3. CASE Frees(p)
    <3>1. PICK b \in Bucket, k \in Int :
             \/ k >= 0 /\ Starts(p, "drop", "locked", b, k, 0)
             \/ (exact => k <= 0) /\ Starts(p, "adjust", "locked", b, k, 0)
          BY <2>3 DEF Frees
    <3>2. res' = res
          BY <2>3 DEF Frees
    <3>. QED  BY <3>1, <3>2, <1>t DEF Starts, ArgsAt, Settling, Walking
  <2>4. CASE Resizes(p)
    <3>1. job'[p].pc = "unlock" /\ res' = res
          BY <2>4 DEF Resizes, Starts
    <3>. QED  BY <3>1, <1>t DEF ArgsAt, Settling, Walking
  <2>5. CASE Locks(p)
        BY <2>5, <1>t DEF Locks, Still, Locking, Moved, ArgsAt, Settling, Walking
  <2>6. CASE Wakes(p)
        BY <2>6, <1>t DEF Wakes, Still, Moved, ArgsAt, Settling, Walking
  <2>7. CASE Turns(p)
        BY <2>7, <1>t DEF Turns, Still, Moved, ArgsAt, Settling, Walking
  <2>8. CASE Rests(p)
    <3>1. res' = res
          BY <2>8 DEF Rests, Still
    <3>2. CASE job'[p] = Idle
          BY <3>1, <3>2, <1>i, <1>t DEF ArgsAt
    <3>3. CASE job'[p] # Idle
          BY <2>8, <3>1, <3>3, <1>t DEF Rests, Moved, ArgsAt, Settling, Walking
    <3>. QED  BY <3>2, <3>3
  <2>9. CASE Reserves(p)
    <3>1. CASE AtTop(p)
      <4>1. /\ job'[p] = Idle
            /\ res' = [res EXCEPT ![p] = [node |-> job[p].node, n |-> job[p].n]]
            BY <2>9, <3>1 DEF Reserves
      <4>2. res'[p].node = job[p].node
            BY <4>1 DEF TypeOK
      <4>3. job[p].node \in Bucket
            BY <2>9, <1>t DEF Reserves, ArgsAt, Walking
      <4>. QED  BY <4>1, <4>2, <4>3, <1>i
    <3>2. CASE ~AtTop(p)
          BY <2>9, <3>2, <1>t DEF Reserves, Moved, ArgsAt, Settling, Walking
    <3>. QED  BY <3>1, <3>2
  <2>10. CASE Undoes(p)
    <3>1. res' = res
          BY <2>10 DEF Undoes
    <3>2. CASE job'[p] = Idle
          BY <3>1, <3>2, <1>i, <1>t DEF ArgsAt
    <3>3. CASE job'[p] # Idle
          BY <2>10, <3>1, <3>3, <1>t DEF Undoes, Moved, ArgsAt, Settling, Walking
    <3>. QED  BY <3>2, <3>3
  <2>u. ASSUME res' = res,
               job'[p] = Moved(p, "unlock", job[p].mode, job[p].n, job[p].lvl)
        PROVE  ArgsAt(p)'
        BY <2>u, <1>t DEF Moved, ArgsAt, Settling, Walking
  <2>11. CASE Commits(p)
    <3>1. res' = res /\ exact' = exact /\ job[p].pc = "commit"
          BY <2>11 DEF Commits
    <3>2. CASE job'[p] = Idle
          BY <3>1, <3>2, <1>i, <1>t DEF ArgsAt
    <3>3. CASE job'[p] = Moved(p, "unlock", job[p].mode, job[p].n, job[p].lvl)
          BY <2>u, <3>1, <3>3
    <3>4. CASE job'[p] = Moved(p, job[p].pc, job[p].mode, job[p].n, job[p].lvl + 1)
          BY <3>1, <3>4, <1>t DEF Moved, ArgsAt, Settling, Walking
    <3>. QED  BY <2>11, <3>2, <3>3, <3>4 DEF Commits, Carries
  <2>12. CASE Releases(p)
    <3>1. res' = res /\ exact' = exact /\ job[p].pc = "release"
          BY <2>12 DEF Releases
    <3>2. AtMost(job[p].n, reserved[Here(p)]) = job[p].n
          BY <3>1, <1>h DEF AtMost
    <3>3. CASE job'[p] = Idle
          BY <3>1, <3>3, <1>i, <1>t DEF ArgsAt
    <3>4. CASE job'[p] = Moved(p, "unlock", job[p].mode, job[p].n, job[p].lvl)
          BY <2>u, <3>1, <3>4
    <3>5. CASE job'[p] = Moved(p, job[p].pc, job[p].mode, job[p].n, job[p].lvl + 1)
          BY <3>1, <3>5, <1>t DEF Moved, ArgsAt, Settling, Walking
    <3>. QED  BY <2>12, <3>2, <3>3, <3>4, <3>5 DEF Releases, Carries
  <2>13. CASE Changes(p)
    <3> DEFINE k == IF job[p].pc = "drop" THEN -Change(p) ELSE Change(p)
    <3>1. /\ res' = res /\ exact' = exact /\ job[p].pc \in {"drop", "adjust"}
          /\ Carries(p, k)
          BY <2>13 DEF Changes
    <3>2. /\ job[p].pc = "drop" => k \in Nat
          /\ job[p].pc = "adjust" /\ exact => k <= 0
      <4>1. CASE job[p].pc = "drop"
        <5>1. job[p].n \in Nat
              BY <4>1, <1>t DEF ArgsAt
        <5>2. k = -(-AtMost(job[p].n, committed[Here(p)]))
              BY <4>1 DEF Change
        <5>. QED  BY <4>1, <5>1, <5>2, <1>h DEF AtMost
      <4>2. CASE job[p].pc = "adjust"
        <5>1. exact => job[p].n <= 0
              BY <4>2, <1>t DEF ArgsAt
        <5>2. k = IF committed[Here(p)] + job[p].n < 0
                  THEN -committed[Here(p)] ELSE job[p].n
              BY <4>2 DEF Change
        <5>. QED  BY <4>2, <5>1, <5>2, <1>h
      <4>. QED  BY <3>1, <4>1, <4>2
    <3> HIDE DEF k
    <3>3. CASE job'[p] = Idle
          BY <3>1, <3>3, <1>i, <1>t DEF ArgsAt
    <3>4. CASE job'[p] = Moved(p, "unlock", job[p].mode, job[p].n, job[p].lvl)
          BY <2>u, <3>1, <3>4
    <3>5. CASE job'[p] = Moved(p, job[p].pc, job[p].mode, k, job[p].lvl + 1)
          BY <3>1, <3>2, <3>5, <1>t DEF Moved, ArgsAt, Settling, Walking
    <3>. QED  BY <3>1, <3>3, <3>4, <3>5 DEF Carries
  <2>. QED  BY <2>1, <2>2, <2>3, <2>4, <2>5, <2>6, <2>7, <2>8, <2>9, <2>10,
               <2>11, <2>12, <2>13 DEF Effect
<1>. QED  BY <1>p, <1>q DEF ArgsOK

-----------------------------------------------------------------------------
(* What is reserved at a level.                                             *)

\* A node on the chain of p's call, and whether p's walk holds its bytes
\* there.
HoldsAt(p, m) ==
    \/ job[p].pc = "reserve" /\ Pos(job[p].node, m) < job[p].lvl
    \/ job[p].pc = "rollback" /\ Pos(job[p].node, m) <= job[p].lvl
    \/ job[p].pc = "lock" /\ job[p].mode \in {"commit", "release"}
    \/ job[p].pc \in {"commit", "release"} /\ Pos(job[p].node, m) >= job[p].lvl

\* What a walk holds, in those terms.
LEMMA CarriedIs ==
    ASSUME NEW p \in Proc, NEW m
    PROVE  Carried(p, m) = IF m \in Levels(job[p].node) /\ HoldsAt(p, m)
                           THEN job[p].n ELSE 0
BY DEF Carried, HoldsAt

\* Outside those places a call holds nothing.
LEMMA HoldsNothing ==
    ASSUME NEW p \in Proc, NEW m,
           job[p].pc \in {"idle", "queued", "drop", "adjust", "unlock", "notify"}
           \/ (job[p].pc = "lock" /\ job[p].mode = "first")
    PROVE  Carried(p, m) = 0
BY DEF Carried

\* What a reservation or a walk holds at a node is a number.
LEMMA ShareType ==
    ASSUME TypeOK, CallOK, ArgsOK, NEW m \in Node
    PROVE  /\ \A p \in Proc : Promised(p, m) \in Nat /\ Carried(p, m) \in Nat
           /\ Shares(m) \in [Proc \X {"res", "job"} -> Nat]
           /\ \A p \in Proc : /\ Shares(m)[<<p, "res">>] = Promised(p, m)
                              /\ Shares(m)[<<p, "job">>] = Carried(p, m)
<1>1. ASSUME NEW p \in Proc PROVE Promised(p, m) \in Nat
  <2>1. res[p] # NoRes => res[p].n \in Nat
        BY ResType, ConstantTypes
  <2>. QED  BY <2>1 DEF Promised
<1>2. ASSUME NEW p \in Proc PROVE Carried(p, m) \in Nat
  <2>1. CallOKAt(p) /\ ArgsAt(p)
        BY DEF CallOK, ArgsOK
  <2>2. HoldsAt(p, m) => job[p].n \in Amount
        BY <2>1 DEF HoldsAt, CallOKAt, ArgsAt, Settling
  <2>3. HoldsAt(p, m) => job[p].n \in Nat
        BY <2>2, ConstantTypes
  <2>. QED  BY <2>3, CarriedIs
<1>3. ASSUME NEW h \in Proc \X {"res", "job"}
      PROVE  (IF h[2] = "res" THEN Promised(h[1], m) ELSE Carried(h[1], m)) \in Nat
  <2>1. h[1] \in Proc
        OBVIOUS
  <2>. QED  BY <2>1, <1>1, <1>2
<1>4. Shares(m) \in [Proc \X {"res", "job"} -> Nat]
      BY <1>3 DEF Shares
<1>5. ASSUME NEW p \in Proc
      PROVE  /\ Shares(m)[<<p, "res">>] = Promised(p, m)
             /\ Shares(m)[<<p, "job">>] = Carried(p, m)
  <2>1. <<p, "res">> \in Proc \X {"res", "job"} /\ <<p, "job">> \in Proc \X {"res", "job"}
        OBVIOUS
  <2>. QED  BY <2>1 DEF Shares
<1>. QED  BY <1>1, <1>2, <1>4, <1>5

\* The same, of every node, now and after a step.
SharesOK ==
    \A m \in Node :
        /\ Shares(m) \in [Proc \X {"res", "job"} -> Nat]
        /\ \A p \in Proc : /\ Promised(p, m) \in Nat /\ Carried(p, m) \in Nat
                           /\ Shares(m)[<<p, "res">>] = Promised(p, m)
                           /\ Shares(m)[<<p, "job">>] = Carried(p, m)

\* Shares are numbers.
LEMMA SharesType == TypeOK /\ CallOK /\ ArgsOK => SharesOK
BY ShareType DEF SharesOK

\* Shares are numbers after a step.
LEMMA SharesTypeNext == TypeOK' /\ CallOK' /\ ArgsOK' => SharesOK'
BY SharesType, PTL

\* The pairs are finitely many.
LEMMA PairsFinite == IsFiniteSet(Proc \X {"res", "job"})
<1>1. IsFiniteSet({"res", "job"})
  <2>1. IsFiniteSet({"res"}) /\ IsFiniteSet({"job"})
        BY FS_Singleton
  <2>2. {"res", "job"} = {"res"} \cup {"job"}
        OBVIOUS
  <2>. QED  BY <2>1, <2>2, FS_Union
<1>. QED  BY <1>1, QuotaAssumption, FS_Product

\* The walk of p holds at most what is reserved.
LEMMA CarriedBound ==
    ASSUME TypeOK, CallOK, ArgsOK, ReservedExact, NEW p \in Proc, NEW m \in Node
    PROVE  /\ Carried(p, m) \in Nat /\ reserved[m] \in Nat
           /\ Carried(p, m) <= reserved[m]
<1>1. reserved[m] = Total(Shares(m))
      BY DEF ReservedExact
<1>2. <<p, "job">> \in Proc \X {"res", "job"}
      OBVIOUS
<1>3. Total(Shares(m)) \in Nat /\ Total(Shares(m)) >= Shares(m)[<<p, "job">>]
      BY <1>2, ShareType, PairsFinite, TotalSet
<1>4. Shares(m)[<<p, "job">>] = Carried(p, m) /\ Carried(p, m) \in Nat
      BY ShareType
<1>. QED  BY <1>1, <1>3, <1>4

\* A walk that commits or releases finds its bytes at its level.
LEMMA ReleaseFinds ==
    ASSUME TypeOK, CallOK, ArgsOK, ReservedExact, NEW p \in Proc,
           job[p].pc \in {"commit", "release"}
    PROVE  job[p].n <= reserved[Here(p)] /\ job[p].n \in Nat /\ job[p].n > 0
<1>1. JobOK /\ ArgsAt(p)
      BY DEF TypeOK, ArgsOK
<1>2. /\ Here(p) \in Node /\ Here(p) \in Levels(job[p].node)
      /\ Pos(job[p].node, Here(p)) = job[p].lvl /\ job[p].lvl \in Nat
      BY <1>1, HereIs
<1>3. Carried(p, Here(p)) = job[p].n
  <2>1. HoldsAt(p, Here(p))
        BY <1>2 DEF HoldsAt
  <2>. QED  BY <1>2, <2>1, CarriedIs
<1>4. job[p].n \in Amount
      BY <1>1 DEF ArgsAt, Settling
<1>. QED  BY <1>2, <1>3, <1>4, CarriedBound, ConstantTypes

\* A step changes the shares of one walk and one reservation, and the sum by
\* as much.
LEMMA ShareMove ==
    ASSUME TypeOK, CallOK, ArgsOK, TypeOK', CallOK', ArgsOK',
           NEW m \in Node, NEW p \in Proc, NEW r \in Proc,
           \A q \in Proc : q # p => Carried(q, m)' = Carried(q, m),
           \A q \in Proc : q # r => Promised(q, m)' = Promised(q, m)
    PROVE  /\ Total(Shares(m)) \in Nat /\ Total(Shares(m)') \in Nat
           /\ Carried(p, m) \in Nat /\ Carried(p, m)' \in Nat
           /\ Promised(r, m) \in Nat /\ Promised(r, m)' \in Nat
           /\ Total(Shares(m)') = Total(Shares(m)) - Carried(p, m)
                 - Promised(r, m) + Carried(p, m)' + Promised(r, m)'
<1> DEFINE x == <<p, "job">>
           y == <<r, "res">>
           f == Shares(m)
           g == Shares(m)'
<1>1. /\ f \in [Proc \X {"res", "job"} -> Nat]
      /\ \A q \in Proc : /\ Promised(q, m) \in Nat /\ Carried(q, m) \in Nat
                         /\ f[<<q, "res">>] = Promised(q, m)
                         /\ f[<<q, "job">>] = Carried(q, m)
      BY ShareType
<1>2. /\ g \in [Proc \X {"res", "job"} -> Nat]
      /\ \A q \in Proc : /\ Promised(q, m)' \in Nat /\ Carried(q, m)' \in Nat
                         /\ g[<<q, "res">>] = Promised(q, m)'
                         /\ g[<<q, "job">>] = Carried(q, m)'
  <2>1. SharesOK'
        BY SharesTypeNext
  <2>. QED  BY <2>1 DEF SharesOK
<1>3. /\ x \in Proc \X {"res", "job"} /\ y \in Proc \X {"res", "job"} /\ x # y
      OBVIOUS
<1> HIDE DEF f, g
<1>4. ASSUME NEW z \in Proc \X {"res", "job"}, z # x, z # y
      PROVE  g[z] = f[z]
  <2>1. PICK q \in Proc, k \in {"res", "job"} : z = <<q, k>>
        OBVIOUS
  <2>2. CASE k = "res"
    <3>1. q # r
          BY <1>4, <2>1, <2>2
    <3>. QED  BY <2>1, <2>2, <3>1, <1>1, <1>2
  <2>3. CASE k = "job"
    <3>1. q # p
          BY <1>4, <2>1, <2>3
    <3>. QED  BY <2>1, <2>3, <3>1, <1>1, <1>2
  <2>. QED  BY <2>2, <2>3
<1>5. /\ Total(f) \in Nat /\ Total(g) \in Nat
      /\ Total(g) = Total(f) - f[x] - f[y] + g[x] + g[y]
  <2> HIDE DEF x, y
  <2>. QED  BY <1>1, <1>2, <1>3, <1>4, PairsFinite, TotalSetTwo
<1>6. /\ f[x] = Carried(p, m) /\ g[x] = Carried(p, m)'
      /\ f[y] = Promised(r, m) /\ g[y] = Promised(r, m)'
      /\ Carried(p, m) \in Nat /\ Carried(p, m)' \in Nat
      /\ Promised(r, m) \in Nat /\ Promised(r, m)' \in Nat
      BY <1>1, <1>2
<1>. QED  BY <1>5, <1>6 DEF f, g

\* What a call j holds at a node of its chain.
Held(j, m) ==
    IF /\ m \in Levels(j.node)
       /\ \/ j.pc = "reserve" /\ Pos(j.node, m) < j.lvl
          \/ j.pc = "rollback" /\ Pos(j.node, m) <= j.lvl
          \/ j.pc = "lock" /\ j.mode \in {"commit", "release"}
          \/ j.pc \in {"commit", "release"} /\ Pos(j.node, m) >= j.lvl
    THEN j.n ELSE 0

\* What a walk holds is what its call holds, before and after a step.
LEMMA HeldIs ==
    ASSUME NEW p \in Proc, NEW m
    PROVE  Carried(p, m) = Held(job[p], m) /\ Carried(p, m)' = Held(job'[p], m)
BY DEF Carried, Held, Levels, Pos

\* Every step keeps the count of what is reserved exact.
LEMMA ReservedStep ==
    ASSUME TypeOK, CallOK, ArgsOK, ReservedExact, TypeOK', CallOK', ArgsOK',
           NEW p \in Proc, Call(p) \/ Step(p), Effect(p)
    PROVE  ReservedExact'
<1> SUFFICES ASSUME NEW m \in Node PROVE reserved'[m] = Total(Shares(m)')
    BY DEF ReservedExact
<1> DEFINE j == job[p]
           k == job'[p]
           b == job[p].node
           l == job[p].lvl
           n == job[p].n
<1>t. JobOK /\ ArgsAt(p) /\ CallOKAt(p)
      BY DEF TypeOK, ArgsOK, CallOK
<1>h. /\ b \in Node /\ l \in Nat /\ n \in Int /\ l \in 1..Len(Chain[b])
      /\ Len(Chain[b]) \in Nat /\ Here(p) \in Levels(b)
      /\ \A c \in Levels(b) : /\ c = Here(p) <=> Pos(b, c) = l
                              /\ Pos(b, c) \in Nat /\ Pos(b, c) >= 1
                              /\ Pos(b, c) <= Len(Chain[b])
      BY <1>t, HereIs, PosIs
<1>e. /\ reserved[m] = Total(Shares(m)) /\ reserved[m] \in Int
      /\ reserved \in [Node -> Int] /\ Here(p) \in Node
      BY <1>t, HereType DEF ReservedExact, TypeOK
<1>c. /\ Carried(p, m) = Held(j, m) /\ Carried(p, m)' = Held(k, m)
      /\ \A q \in Proc : q # p => Carried(q, m)' = Carried(q, m)
  <2>1. \A q \in Proc : q # p => job'[q] = job[q]
        BY Others
  <2>. QED  BY <2>1, HeldIs
<1>n. /\ Held(j, m) \in Nat /\ Held(k, m) \in Nat
      BY <1>c, SharesType, SharesTypeNext DEF SharesOK
<1>m. ASSUME NEW r \in Proc, \A q \in Proc : q # r => res'[q] = res[q],
             reserved'[m] = reserved[m] - Held(j, m) - Promised(r, m)
                               + Held(k, m) + Promised(r, m)'
      PROVE  reserved'[m] = Total(Shares(m)')
  <2>1. \A q \in Proc : q # r => Promised(q, m)' = Promised(q, m)
        BY <1>m DEF Promised, Levels
  <2>2. Total(Shares(m)') = Total(Shares(m)) - Carried(p, m) - Promised(r, m)
                              + Carried(p, m)' + Promised(r, m)'
        BY <2>1, <1>c, ShareMove
  <2>. QED  BY <2>2, <1>m, <1>c, <1>e
<1>s. ASSUME res' = res, reserved'[m] = reserved[m] - Held(j, m) + Held(k, m)
      PROVE  reserved'[m] = Total(Shares(m)')
  <2>1. Promised(p, m)' = Promised(p, m) /\ Promised(p, m) \in Nat
        BY <1>s, SharesType DEF Promised, Levels, SharesOK
  <2>2. reserved'[m] = reserved[m] - Held(j, m) - Promised(p, m)
                          + Held(k, m) + Promised(p, m)'
        BY <2>1, <1>s, <1>n, <1>e
  <2>. QED  BY <2>2, <1>s, <1>m
<1>z. ASSUME res' = res, reserved' = reserved, Held(k, m) = Held(j, m)
      PROVE  reserved'[m] = Total(Shares(m)')
      BY <1>z, <1>n, <1>e, <1>s
<1>0. Idle.pc = "idle" /\ Held(Idle, m) = 0
      BY DEF Idle, Held
<1> HIDE DEF k
<1>1. CASE Asks(p)
  <2>1. PICK x \in Bucket, a \in Amount :
           \/ Starts(p, "reserve", "try", x, a, 0)
           \/ Starts(p, "lock", "first", x, a, 0)
        BY <1>1 DEF Asks
  <2>2. /\ j = Idle /\ reserved' = reserved
        /\ k.lvl = 1 /\ k.node = x
        /\ \/ k.pc = "reserve"
           \/ k.pc = "lock" /\ k.mode = "first"
        BY <2>1 DEF Starts, ledger, k
  <2>3. x \in Node
        BY ConstantTypes
  <2>4. Held(k, m) = 0
    <3>1. m \in Levels(x) => Pos(x, m) >= 1 /\ Pos(x, m) \in Nat
          BY <2>3, PosIs
    <3>2. ~(m \in Levels(x) /\ Pos(x, m) < 1)
          BY <3>1
    <3>. QED  BY <2>2, <3>2 DEF Held
  <2>5. res' = res
        BY <1>1 DEF Asks
  <2>. QED  BY <2>2, <2>4, <2>5, <1>0, <1>z
<1>2. CASE Settles(p)
  <2>1. PICK r \in Proc, a \in Nat :
           /\ res[r] # NoRes /\ res' = [res EXCEPT ![r] = NoRes]
           /\ \/ Starts(p, "commit", "fast", res[r].node, res[r].n, a)
              \/ Starts(p, "lock", "commit", res[r].node, res[r].n, a)
              \/ Starts(p, "lock", "release", res[r].node, res[r].n, a)
        BY <1>2 DEF Settles
  <2>2. /\ j = Idle /\ reserved' = reserved
        /\ k.lvl = 1 /\ k.node = res[r].node /\ k.n = res[r].n
        /\ \/ k.pc = "commit"
           \/ k.pc = "lock" /\ k.mode \in {"commit", "release"}
        BY <2>1 DEF Starts, ledger, k
  <2>3. res[r].node \in Node /\ res[r].n \in Nat
        BY <2>1, ResType, ConstantTypes
  <2>4. Held(k, m) = IF m \in Levels(res[r].node) THEN res[r].n ELSE 0
    <3>1. m \in Levels(res[r].node) => Pos(res[r].node, m) >= 1
          BY <2>3, PosIs
    <3>. QED  BY <2>2, <3>1 DEF Held
  <2>5. Promised(r, m) = IF m \in Levels(res[r].node) THEN res[r].n ELSE 0
        BY <2>1 DEF Promised
  <2>6. res'[r] = NoRes /\ \A q \in Proc : q # r => res'[q] = res[q]
        BY <2>1 DEF TypeOK
  <2>7. Promised(r, m)' = 0
        BY <2>6 DEF Promised
  <2>8. Held(j, m) = 0
        BY <2>2, <1>0
  <2>9. Promised(r, m) = Held(k, m)
        BY <2>4, <2>5
  <2>10. reserved'[m] = reserved[m] - Held(j, m) - Promised(r, m)
                           + Held(k, m) + Promised(r, m)'
    <3>1. reserved'[m] = reserved[m]
          BY <2>2
    <3>. QED  BY ONLY <3>1, <2>7, <2>8, <2>9, <1>n, <1>e
  <2>. QED  BY <2>6, <2>10, <1>m
<1>3. CASE Frees(p) \/ Resizes(p)
  <2>1. /\ j = Idle /\ reserved' = reserved /\ res' = res
        /\ k.pc \in {"drop", "adjust", "unlock"}
    <3>1. CASE Frees(p)
      <4>1. PICK x \in Bucket, a \in Int :
               \/ Starts(p, "drop", "locked", x, a, 0)
               \/ Starts(p, "adjust", "locked", x, a, 0)
            BY <3>1 DEF Frees
      <4>. QED  BY <3>1, <4>1 DEF Frees, Starts, ledger, k
    <3>2. CASE Resizes(p)
      <4>1. PICK x \in Node : Starts(p, "unlock", "locked", x, 0, 0)
            BY <3>2 DEF Resizes
      <4>. QED  BY <3>2, <4>1 DEF Resizes, Starts, ledger, k
    <3>. QED  BY <1>3, <3>1, <3>2
  <2>2. Held(k, m) = 0
        BY <2>1 DEF Held
  <2>. QED  BY <2>1, <2>2, <1>0, <1>z
<1>4. CASE Locks(p)
  <2>1. /\ res' = res /\ reserved' = reserved /\ j.pc = "lock" /\ l = 1
        /\ j.mode \in Locking
        /\ k.pc = (IF j.mode = "first" THEN "reserve" ELSE j.mode)
        /\ k.node = b /\ k.n = n /\ k.lvl = 1
        BY <1>4, <1>t DEF Locks, Still, ledger, Moved, ArgsAt, k
  <2>2. CASE j.mode = "first"
    <3>1. ~(m \in Levels(b) /\ Pos(b, m) < 1)
          BY <1>h
    <3>2. Held(j, m) = 0
          BY <2>1, <2>2 DEF Held
    <3>3. Held(k, m) = 0
          BY <2>1, <2>2, <3>1 DEF Held
    <3>. QED  BY <2>1, <3>2, <3>3, <1>z
  <2>3. CASE j.mode # "first"
    <3>1. j.mode \in {"commit", "release"} /\ k.pc \in {"commit", "release"}
          BY <2>1, <2>3 DEF Locking
    <3>2. m \in Levels(b) => Pos(b, m) >= 1
          BY <1>h
    <3>3. Held(j, m) = IF m \in Levels(b) THEN n ELSE 0
          BY <2>1, <3>1 DEF Held
    <3>4. Held(k, m) = IF m \in Levels(b) THEN n ELSE 0
          BY <2>1, <3>1, <3>2 DEF Held
    <3>. QED  BY <2>1, <3>3, <3>4, <1>z
  <2>. QED  BY <2>2, <2>3
<1>5. CASE Wakes(p)
  <2>1. /\ res' = res /\ reserved' = reserved /\ j.pc = "queued"
        /\ k.pc = "reserve" /\ k.node = b /\ k.lvl = 1
        BY <1>5 DEF Wakes, Still, ledger, Moved, k
  <2>2. ~(m \in Levels(b) /\ Pos(b, m) < 1)
        BY <1>h
  <2>3. Held(j, m) = 0 /\ Held(k, m) = 0
        BY <2>1, <2>2 DEF Held
  <2>. QED  BY <2>1, <2>3, <1>z
<1>6. CASE Turns(p)
  <2>1. /\ res' = res /\ reserved' = reserved /\ j.pc = "reserve"
        /\ k.pc = "rollback" /\ k.node = b /\ k.lvl = l - 1 /\ k.n = n
        BY <1>6 DEF Turns, Still, ledger, Moved, k
  <2>2. m \in Levels(b) => (Pos(b, m) < l <=> Pos(b, m) <= l - 1)
        BY <1>h
  <2>3. Held(j, m) = IF m \in Levels(b) /\ Pos(b, m) < l THEN n ELSE 0
        BY <2>1 DEF Held
  <2>4. Held(k, m) = IF m \in Levels(b) /\ Pos(b, m) <= l - 1 THEN n ELSE 0
        BY <2>1 DEF Held
  <2>. QED  BY <2>1, <2>2, <2>3, <2>4, <1>z
<1>7. CASE Rests(p)
  <2>1. /\ res' = res /\ reserved' = reserved
        /\ \/ j.pc \in {"queued", "unlock", "notify"}
           \/ j.pc = "reserve" /\ l = 1
        /\ k.pc \in {"idle", "queued", "notify"}
        BY <1>7, <1>0 DEF Rests, Still, ledger, Moved, k
  <2>2. ~(m \in Levels(b) /\ Pos(b, m) < 1)
        BY <1>h
  <2>3. Held(j, m) = 0 /\ Held(k, m) = 0
        BY <2>1, <2>2 DEF Held
  <2>. QED  BY <2>1, <2>3, <1>z
<1>8. CASE Reserves(p)
  <2>1. /\ reserved' = [reserved EXCEPT ![Here(p)] = @ + n]
        /\ j.pc = "reserve" /\ res[p] = NoRes
        BY <1>8, <1>t DEF Reserves, ArgsAt
  <2>2. Held(j, m) = IF m \in Levels(b) /\ Pos(b, m) < l THEN n ELSE 0
        BY <2>1 DEF Held
  <2>3. reserved'[m] = IF m = Here(p) THEN reserved[m] + n ELSE reserved[m]
        BY <2>1, <1>e
  <2>4. CASE AtTop(p)
    <3>1. /\ k = Idle
          /\ res' = [res EXCEPT ![p] = [node |-> b, n |-> n]]
          BY <1>8, <2>4 DEF Reserves, k
    <3>2. /\ res'[p] = [node |-> b, n |-> n]
          /\ \A q \in Proc : q # p => res'[q] = res[q]
          BY <3>1 DEF TypeOK
    <3>3. b # NoProc \/ n # 0
          BY <1>8, ConstantTypes DEF Reserves
    <3>4. res'[p] # NoRes
          BY <3>2, <3>3 DEF NoRes
    <3>5. Promised(p, m)' = IF m \in Levels(b) THEN n ELSE 0
          BY <3>2, <3>4 DEF Promised, Levels
    <3>6. Promised(p, m) = 0
          BY <2>1 DEF Promised
    <3>7. Held(k, m) = 0
          BY <3>1, <1>0
    <3>8. m \in Levels(b) => (Pos(b, m) < l <=> m # Here(p))
          BY <1>h, <2>4 DEF AtTop
    <3>9. reserved'[m] = reserved[m] - Held(j, m) - Promised(p, m)
                            + Held(k, m) + Promised(p, m)'
          BY <1>h, <1>e, <2>2, <2>3, <3>5, <3>6, <3>7, <3>8
    <3>. QED  BY <3>2, <3>9, <1>m
  <2>5. CASE ~AtTop(p)
    <3>1. /\ res' = res /\ k.pc = "reserve" /\ k.node = b /\ k.n = n
          /\ k.lvl = l + 1
          BY <1>8, <2>5 DEF Reserves, Moved, k
    <3>2. Held(k, m) = IF m \in Levels(b) /\ Pos(b, m) < l + 1 THEN n ELSE 0
          BY <3>1 DEF Held
    <3>3. m \in Levels(b) => (Pos(b, m) < l + 1 <=> (Pos(b, m) < l \/ m = Here(p)))
          BY <1>h
    <3>4. m \in Levels(b) /\ m = Here(p) => ~(Pos(b, m) < l)
          BY <1>h
    <3>5. reserved'[m] = reserved[m] - Held(j, m) + Held(k, m)
          BY <1>h, <1>e, <2>2, <2>3, <3>2, <3>3, <3>4
    <3>. QED  BY <3>1, <3>5, <1>s
  <2>. QED  BY <2>4, <2>5
<1>9. CASE Undoes(p)
  <2>1. /\ reserved' = [reserved EXCEPT ![Here(p)] = @ - n]
        /\ j.pc = "rollback" /\ res' = res
        BY <1>9 DEF Undoes
  <2>2. Held(j, m) = IF m \in Levels(b) /\ Pos(b, m) <= l THEN n ELSE 0
        BY <2>1 DEF Held
  <2>3. reserved'[m] = IF m = Here(p) THEN reserved[m] - n ELSE reserved[m]
        BY <2>1, <1>e
  <2>4. Held(k, m) = IF m \in Levels(b) /\ Pos(b, m) <= l - 1 THEN n ELSE 0
    <3>1. CASE l = 1
      <4>1. k.pc \in {"idle", "queued"}
            BY <1>9, <3>1, <1>0 DEF Undoes, Moved, k
      <4>2. ~(m \in Levels(b) /\ Pos(b, m) <= l - 1)
            BY <1>h, <3>1
      <4>. QED  BY <4>1, <4>2 DEF Held
    <3>2. CASE l > 1
      <4>1. k.pc = "rollback" /\ k.node = b /\ k.n = n /\ k.lvl = l - 1
            BY <1>9, <3>2 DEF Undoes, Moved, k
      <4>. QED  BY <4>1 DEF Held
    <3>. QED  BY <1>9, <3>1, <3>2 DEF Undoes
  <2>5. m \in Levels(b) => (Pos(b, m) <= l <=> (Pos(b, m) <= l - 1 \/ m = Here(p)))
        BY <1>h
  <2>6. m \in Levels(b) /\ m = Here(p) => ~(Pos(b, m) <= l - 1)
        BY <1>h
  <2>7. reserved'[m] = reserved[m] - Held(j, m) + Held(k, m)
        BY <1>h, <1>e, <2>2, <2>3, <2>4, <2>5, <2>6
  <2>. QED  BY <2>1, <2>7, <1>s
<1>10. CASE Commits(p) \/ Releases(p)
  <2>1. j.pc \in {"commit", "release"} /\ res' = res
        BY <1>10 DEF Commits, Releases
  <2>2. n <= reserved[Here(p)] /\ n \in Nat /\ n > 0
        BY <2>1, ReleaseFinds
  <2>3. AtMost(n, reserved[Here(p)]) = n
        BY <2>2, <1>e DEF AtMost
  <2>4. /\ reserved' = [reserved EXCEPT ![Here(p)] = @ - n]
        /\ Carries(p, n)
        BY <1>10, <2>3 DEF Commits, Releases
  <2>5. Held(j, m) = IF m \in Levels(b) /\ Pos(b, m) >= l THEN n ELSE 0
        BY <2>1 DEF Held
  <2>6. reserved'[m] = IF m = Here(p) THEN reserved[m] - n ELSE reserved[m]
        BY <2>4, <1>e
  <2>7. Held(k, m) = IF m \in Levels(b) /\ Pos(b, m) >= l + 1 THEN n ELSE 0
    <3>1. CASE AtTop(p)
      <4>1. k.pc \in {"idle", "unlock"}
            BY <2>4, <3>1, <1>0 DEF Carries, Moved, k
      <4>2. ~(m \in Levels(b) /\ Pos(b, m) >= l + 1)
            BY <1>h, <3>1 DEF AtTop
      <4>. QED  BY <4>1, <4>2 DEF Held
    <3>2. CASE ~AtTop(p)
      <4>1. k.pc = j.pc /\ k.node = b /\ k.n = n /\ k.lvl = l + 1
            BY <2>2, <2>4, <3>2 DEF Carries, Moved, k
      <4>. QED  BY <2>1, <4>1 DEF Held
    <3>. QED  BY <3>1, <3>2
  <2>8. m \in Levels(b) => (Pos(b, m) >= l <=> (Pos(b, m) >= l + 1 \/ m = Here(p)))
        BY <1>h
  <2>9. m \in Levels(b) /\ m = Here(p) => ~(Pos(b, m) >= l + 1)
        BY <1>h
  <2>10. reserved'[m] = reserved[m] - Held(j, m) + Held(k, m)
        BY <1>h, <1>e, <2>5, <2>6, <2>7, <2>8, <2>9
  <2>. QED  BY <2>1, <2>10, <1>s
<1>11. CASE Changes(p)
  <2>1. /\ res' = res /\ reserved' = reserved /\ j.pc \in {"drop", "adjust"}
        /\ k.pc \in {"idle", "unlock", "drop", "adjust"}
        BY <1>11, <1>0 DEF Changes, Carries, Moved, k
  <2>2. Held(j, m) = 0 /\ Held(k, m) = 0
        BY <2>1 DEF Held
  <2>. QED  BY <2>1, <2>2, <1>z
<1>. QED  BY <1>1, <1>2, <1>3, <1>4, <1>5, <1>6, <1>7, <1>8, <1>9, <1>10,
             <1>11 DEF Effect

-----------------------------------------------------------------------------
(* Limits.                                                                  *)

\* The change a walk makes to usage leaves it at zero or more.
LEMMA ChangeType ==
    ASSUME TypeOK, ArgsOK, NotBelowZero, NEW p \in Proc,
           job[p].pc \in {"drop", "adjust"}
    PROVE  /\ Change(p) \in Int /\ committed[Here(p)] + Change(p) >= 0
           /\ job[p].pc = "drop" => Change(p) <= 0 /\ -Change(p) <= job[p].n
           /\ job[p].pc = "adjust" /\ job[p].n >= 0 => Change(p) = job[p].n
           /\ job[p].pc = "adjust" /\ job[p].n < 0 =>
                 Change(p) <= 0 /\ Change(p) >= job[p].n
           /\ exact => Change(p) <= 0
<1>1. JobOK /\ ArgsAt(p)
      BY DEF TypeOK, ArgsOK
<1>2. /\ Here(p) \in Node /\ job[p].n \in Int
      /\ committed[Here(p)] \in Int /\ committed[Here(p)] >= 0
      BY <1>1, HereType DEF TypeOK, JobOK, NotBelowZero
<1>3. CASE job[p].pc = "drop"
  <2>1. Change(p) = -AtMost(job[p].n, committed[Here(p)])
        BY <1>3 DEF Change
  <2>2. job[p].n \in Nat
        BY <1>1, <1>3 DEF ArgsAt
  <2>. QED  BY <1>2, <1>3, <2>1, <2>2 DEF AtMost
<1>4. CASE job[p].pc = "adjust"
  <2>1. Change(p) = IF committed[Here(p)] + job[p].n < 0
                    THEN -committed[Here(p)] ELSE job[p].n
        BY <1>4 DEF Change
  <2>2. exact => job[p].n <= 0
        BY <1>1, <1>4 DEF ArgsAt
  <2>. QED  BY <1>2, <1>4, <2>1, <2>2
<1>. QED  BY <1>3, <1>4

\* Only commits and changes touch usage.
LEMMA UsageStep ==
    ASSUME TypeOK, NEW p \in Proc, Effect(p)
    PROVE  \/ committed' = committed
           \/ Commits(p) \/ Changes(p)
<1>1. CASE Asks(p) \/ Settles(p) \/ Frees(p) \/ Resizes(p)
      BY <1>1, Zenon DEF Asks, Settles, Frees, Resizes, Starts, ledger
<1>2. CASE Locks(p) \/ Wakes(p) \/ Turns(p) \/ Rests(p)
      BY <1>2 DEF Locks, Wakes, Turns, Rests, Still, ledger
<1>3. CASE Reserves(p) \/ Undoes(p) \/ Releases(p)
      BY <1>3 DEF Reserves, Undoes, Releases
<1>. QED  BY <1>1, <1>2, <1>3 DEF Effect

\* No step takes usage below zero.
LEMMA ZeroStep ==
    ASSUME TypeOK, ArgsOK, NotBelowZero, NEW p \in Proc, Effect(p)
    PROVE  NotBelowZero'
<1>1. /\ Here(p) \in Node /\ job[p].real \in Nat
      /\ committed \in [Node -> Int]
      BY HereType DEF TypeOK, JobOK
<1>2. \A m \in Node : committed[m] \in Int /\ committed[m] >= 0
      BY <1>1 DEF NotBelowZero
<1>3. CASE committed' = committed
      BY <1>3 DEF NotBelowZero
<1>4. CASE Commits(p)
  <2>1. committed' = [committed EXCEPT ![Here(p)] = @ + job[p].real]
        BY <1>4 DEF Commits
  <2>. QED  BY <1>1, <1>2, <2>1 DEF NotBelowZero
<1>5. CASE Changes(p)
  <2>1. committed' = [committed EXCEPT ![Here(p)] = @ + Change(p)]
        BY <1>5 DEF Changes
  <2>2. Change(p) \in Int /\ committed[Here(p)] + Change(p) >= 0
        BY <1>5, ChangeType DEF Changes
  <2>. QED  BY <1>1, <1>2, <2>1, <2>2 DEF NotBelowZero
<1>. QED  BY <1>3, <1>4, <1>5, UsageStep

\* No step charges or promises more than quota may use.
LEMMA LimitStep ==
    ASSUME TypeOK, CallOK, ArgsOK, ReservedExact, NotBelowZero, NoOvercommit,
           TypeOK', NEW p \in Proc, Effect(p)
    PROVE  NoOvercommit'
<1>t. JobOK /\ ArgsAt(p) /\ CallOKAt(p)
      BY DEF TypeOK, ArgsOK, CallOK
<1>h. /\ Here(p) \in Node /\ job[p].real \in Nat /\ job[p].n \in Int
      /\ committed \in [Node -> Int] /\ reserved \in [Node -> Int]
      BY <1>t, HereType DEF TypeOK, JobOK
<1>e. exact' = exact
  <2>1. CASE Asks(p) \/ Settles(p) \/ Frees(p) \/ Resizes(p)
        BY <2>1, Zenon DEF Asks, Settles, Frees, Resizes, Starts
  <2>2. CASE Locks(p) \/ Wakes(p) \/ Turns(p) \/ Rests(p)
        BY <2>2 DEF Locks, Wakes, Turns, Rests, Still
  <2>3. CASE Reserves(p) \/ Undoes(p) \/ Releases(p) \/ Commits(p) \/ Changes(p)
        BY <2>3 DEF Reserves, Undoes, Releases, Commits, Changes
  <2>. QED  BY <2>1, <2>2, <2>3 DEF Effect
<1> SUFFICES ASSUME exact, NEW m \in Node, maxBytes'[m] > 0
             PROVE  committed'[m] + reserved'[m] <= Usable(m)'
    BY <1>e DEF NoOvercommit
<1>n. /\ committed[m] \in Int /\ reserved[m] \in Int
      /\ committed'[m] \in Int /\ reserved'[m] \in Int
      /\ Usable(m) \in Nat
      /\ maxBytes[m] > 0 => committed[m] + reserved[m] <= Usable(m)
      BY UsableType DEF TypeOK, NoOvercommit
<1>u. ASSUME UNCHANGED limits, committed'[m] + reserved'[m] <= committed[m] + reserved[m]
      PROVE  committed'[m] + reserved'[m] <= Usable(m)'
  <2>1. Usable(m)' = Usable(m) /\ maxBytes'[m] = maxBytes[m]
        BY <1>u DEF limits, Usable, Reserve
  <2>. QED  BY <1>u, <1>n, <2>1
<1>1. CASE Asks(p) \/ Settles(p) \/ Frees(p)
  <2>1. UNCHANGED limits /\ UNCHANGED ledger
        BY <1>1, Zenon DEF Asks, Settles, Frees, Starts
  <2>2. committed'[m] + reserved'[m] <= committed[m] + reserved[m]
        BY <2>1, <1>n DEF ledger
  <2>. QED  BY <2>1, <2>2, <1>u
<1>2. CASE Resizes(p)
  <2>1. UNCHANGED ledger
        BY <1>2, Zenon DEF Resizes, Starts
  <2>2. maxBytes[m] > 0 /\ Usable(m)' >= Usable(m)
        BY <1>2 DEF Resizes
  <2>3. Usable(m)' \in Int
    <3>1. maxBytes'[m] \in Limit /\ reserve' \in Nat
          BY DEF TypeOK
    <3>2. maxBytes'[m] \in Nat
          BY <3>1, ConstantTypes
    <3>. QED  BY <3>1, <3>2 DEF Usable, Reserve
  <2>4. committed'[m] = committed[m] /\ reserved'[m] = reserved[m]
        BY <2>1 DEF ledger
  <2>. QED  BY <2>2, <2>3, <2>4, <1>n
<1>3. CASE Locks(p) \/ Wakes(p) \/ Turns(p) \/ Rests(p)
  <2>1. UNCHANGED limits /\ UNCHANGED ledger
        BY <1>3 DEF Locks, Wakes, Turns, Rests, Still
  <2>2. committed'[m] + reserved'[m] <= committed[m] + reserved[m]
        BY <2>1, <1>n DEF ledger
  <2>. QED  BY <2>1, <2>2, <1>u
<1>4. CASE Reserves(p)
  <2>1. /\ ~Full(Here(p), job[p].n) /\ UNCHANGED limits
        /\ reserved' = [reserved EXCEPT ![Here(p)] = @ + job[p].n]
        /\ committed' = committed
        BY <1>4 DEF Reserves
  <2>2. CASE m = Here(p)
    <3>1. Usable(m)' = Usable(m) /\ maxBytes'[m] = maxBytes[m]
          BY <2>1 DEF limits, Usable, Reserve
    <3>2. ~(committed[m] + reserved[m] + job[p].n > Usable(m))
          BY <2>1, <2>2, <3>1 DEF Full
    <3>3. reserved'[m] = reserved[m] + job[p].n /\ committed'[m] = committed[m]
          BY <1>h, <2>1, <2>2
    <3>. QED  BY <1>h, <1>n, <3>1, <3>2, <3>3
  <2>3. CASE m # Here(p)
    <3>1. reserved'[m] = reserved[m] /\ committed'[m] = committed[m]
          BY <1>h, <2>1, <2>3
    <3>. QED  BY <1>n, <1>u, <2>1, <3>1
  <2>. QED  BY <2>2, <2>3
<1>5. CASE Undoes(p)
  <2>1. /\ reserved' = [reserved EXCEPT ![Here(p)] = @ - job[p].n]
        /\ committed' = committed /\ UNCHANGED limits
        BY <1>5 DEF Undoes
  <2>2. job[p].n >= 0
        BY <1>5, ConstantTypes DEF Undoes
  <2>3. committed'[m] + reserved'[m] <= committed[m] + reserved[m]
        BY <1>h, <1>n, <2>1, <2>2
  <2>. QED  BY <2>1, <2>3, <1>u
<1>6. CASE Commits(p)
  <2>1. /\ reserved' = [reserved EXCEPT ![Here(p)] = @ - job[p].n]
        /\ committed' = [committed EXCEPT ![Here(p)] = @ + job[p].real]
        /\ UNCHANGED limits
        BY <1>6 DEF Commits
  <2>2. job[p].real <= job[p].n
        BY <1>6, <1>t DEF Commits, ArgsAt, Settling
  <2>3. committed'[m] + reserved'[m] <= committed[m] + reserved[m]
        BY <1>h, <1>n, <2>1, <2>2
  <2>. QED  BY <2>1, <2>3, <1>u
<1>7. CASE Releases(p)
  <2>1. job[p].n <= reserved[Here(p)] /\ job[p].n \in Nat
        BY <1>7, ReleaseFinds DEF Releases
  <2>2. AtMost(job[p].n, reserved[Here(p)]) = job[p].n
        BY <1>h, <2>1 DEF AtMost
  <2>3. /\ reserved' = [reserved EXCEPT ![Here(p)] = @ - job[p].n]
        /\ committed' = committed /\ UNCHANGED limits
        BY <1>7, <2>2 DEF Releases
  <2>4. committed'[m] + reserved'[m] <= committed[m] + reserved[m]
        BY <1>h, <1>n, <2>1, <2>3
  <2>. QED  BY <2>3, <2>4, <1>u
<1>8. CASE Changes(p)
  <2>1. /\ committed' = [committed EXCEPT ![Here(p)] = @ + Change(p)]
        /\ reserved' = reserved /\ UNCHANGED limits
        BY <1>8 DEF Changes
  <2>2. Change(p) \in Int /\ Change(p) <= 0
        BY <1>8, ChangeType DEF Changes
  <2>3. committed'[m] + reserved'[m] <= committed[m] + reserved[m]
        BY <1>h, <1>n, <2>1, <2>2
  <2>. QED  BY <2>1, <2>3, <1>u
<1>. QED  BY <1>1, <1>2, <1>3, <1>4, <1>5, <1>6, <1>7, <1>8 DEF Effect

-----------------------------------------------------------------------------
(* Usage of a node and of its children.                                     *)

\* What a call j has yet to add to m, and has yet to take from m.
OwedBy(j, m) ==
    IF Chain[j.node][j.lvl] # m THEN 0
    ELSE IF j.pc = "commit" THEN j.real
    ELSE IF j.pc = "adjust" /\ j.n > 0 THEN j.n
    ELSE 0
SpareBy(j, m) ==
    IF Chain[j.node][j.lvl] # m THEN 0
    ELSE IF j.pc = "drop" THEN j.n
    ELSE IF j.pc = "adjust" /\ j.n < 0 THEN -j.n
    ELSE 0

\* The same, before and after a step.
LEMMA BalanceIs ==
    ASSUME NEW p \in Proc, NEW m
    PROVE  /\ OwedAt(p, m) = OwedBy(job[p], m)
           /\ SpareAt(p, m) = SpareBy(job[p], m)
           /\ OwedAt(p, m)' = OwedBy(job'[p], m)
           /\ SpareAt(p, m)' = SpareBy(job'[p], m)
BY DEF OwedAt, SpareAt, OwedBy, SpareBy, Here

\* What walks have yet to add or take are numbers.
BalanceOK ==
    \A m \in Node :
        /\ Owed(m) \in [Proc -> Nat] /\ Spare(m) \in [Proc -> Nat]
        /\ \A p \in Proc : Owed(m)[p] = OwedAt(p, m) /\ Spare(m)[p] = SpareAt(p, m)

\* They are numbers now.
LEMMA BalanceType == TypeOK /\ ArgsOK => BalanceOK
<1> SUFFICES ASSUME TypeOK, ArgsOK, NEW m \in Node
             PROVE  /\ Owed(m) \in [Proc -> Nat] /\ Spare(m) \in [Proc -> Nat]
                    /\ \A p \in Proc : Owed(m)[p] = OwedAt(p, m)
                                       /\ Spare(m)[p] = SpareAt(p, m)
    BY DEF BalanceOK
<1>1. ASSUME NEW p \in Proc PROVE OwedAt(p, m) \in Nat /\ SpareAt(p, m) \in Nat
  <2>1. /\ job[p].n \in Int /\ job[p].real \in Nat
        /\ job[p].pc = "drop" => job[p].n \in Nat
        BY DEF TypeOK, JobOK, ArgsOK, ArgsAt
  <2>2. job[p].n > 0 => job[p].n \in Nat
        BY <2>1
  <2>3. job[p].n < 0 => -job[p].n \in Nat
        BY <2>1
  <2>. QED  BY <2>1, <2>2, <2>3 DEF OwedAt, SpareAt
<1>. QED  BY <1>1 DEF Owed, Spare

\* They are numbers after a step.
LEMMA BalanceTypeNext == TypeOK' /\ ArgsOK' => BalanceOK'
BY BalanceType, PTL

\* A step changes what one walk has yet to add and take.
LEMMA BalanceMove ==
    ASSUME TypeOK, ArgsOK, TypeOK', ArgsOK', NEW m \in Node, NEW p \in Proc,
           \A q \in Proc : q # p => job'[q] = job[q]
    PROVE  /\ Total(Owed(m)) \in Nat /\ Total(Owed(m)') \in Nat
           /\ Total(Spare(m)) \in Nat /\ Total(Spare(m)') \in Nat
           /\ OwedBy(job[p], m) \in Nat /\ OwedBy(job'[p], m) \in Nat
           /\ SpareBy(job[p], m) \in Nat /\ SpareBy(job'[p], m) \in Nat
           /\ Total(Owed(m)') = Total(Owed(m)) - OwedBy(job[p], m)
                                   + OwedBy(job'[p], m)
           /\ Total(Spare(m)') = Total(Spare(m)) - SpareBy(job[p], m)
                                    + SpareBy(job'[p], m)
<1> DEFINE f == Owed(m)
           g == Owed(m)'
           s == Spare(m)
           t == Spare(m)'
<1>0. IsFiniteSet(Proc)
      BY QuotaAssumption
<1>1. /\ f \in [Proc -> Nat] /\ s \in [Proc -> Nat]
      /\ \A q \in Proc : f[q] = OwedBy(job[q], m) /\ s[q] = SpareBy(job[q], m)
      BY BalanceType, BalanceIs DEF BalanceOK
<1>2. /\ g \in [Proc -> Nat] /\ t \in [Proc -> Nat]
      /\ \A q \in Proc : g[q] = OwedBy(job'[q], m) /\ t[q] = SpareBy(job'[q], m)
  <2>1. BalanceOK'
        BY BalanceTypeNext
  <2>2. /\ g \in [Proc -> Nat] /\ t \in [Proc -> Nat]
        /\ \A q \in Proc : g[q] = OwedAt(q, m)' /\ t[q] = SpareAt(q, m)'
        BY <2>1 DEF BalanceOK
  <2>. QED  BY <2>2, BalanceIs
<1> HIDE DEF f, g, s, t
<1>3. \A q \in Proc : q # p => g[q] = f[q] /\ t[q] = s[q]
      BY <1>1, <1>2
<1>4. /\ f[p] \in Nat /\ g[p] \in Nat /\ Total(f) \in Nat /\ Total(g) \in Nat
      /\ Total(g) = Total(f) - f[p] + g[p]
      BY <1>0, <1>1, <1>2, <1>3, TotalSet
<1>5. /\ s[p] \in Nat /\ t[p] \in Nat /\ Total(s) \in Nat /\ Total(t) \in Nat
      /\ Total(t) = Total(s) - s[p] + t[p]
      BY <1>0, <1>1, <1>2, <1>3, TotalSet
<1>6. /\ f[p] = OwedBy(job[p], m) /\ g[p] = OwedBy(job'[p], m)
      /\ s[p] = SpareBy(job[p], m) /\ t[p] = SpareBy(job'[p], m)
      BY <1>1, <1>2
<1>. QED  BY <1>4, <1>5, <1>6 DEF f, g, s, t

\* The usage below a node follows the usage of its children.
LEMMA SubtreeMove ==
    ASSUME NEW m \in Node, NEW c \in Node, NEW d \in Int,
           \A x \in Node : committed[x] \in Int /\ committed[x] >= 0,
           \A x \in Node : committed'[x] \in Int /\ committed'[x] >= 0,
           \A x \in Node : committed'[x] = IF x = c THEN committed[x] + d
                                           ELSE committed[x]
    PROVE  /\ SubtreeUsage(m) \in Nat /\ SubtreeUsage(m)' \in Nat
           /\ SubtreeUsage(m)' = SubtreeUsage(m)
                 + (IF c \in Children(m) THEN d ELSE 0)
<1> DEFINE D == Children(m)
           f == [x \in D |-> committed[x]]
           g == [x \in D |-> committed'[x]]
<1>1. D \subseteq Node /\ D \in SUBSET Node
      BY DEF Children
<1>2. IsFiniteSet(D)
      BY <1>1, QuotaAssumption, FS_Subset
<1>3. SubtreeUsage(m) = Total(f) /\ SubtreeUsage(m)' = Total(g)
      BY DEF SubtreeUsage, Children
<1> HIDE DEF D
<1>4. f \in [D -> Nat] /\ g \in [D -> Nat]
      BY <1>1
<1>5. \A x \in D : f[x] = committed[x] /\ g[x] = committed'[x] /\ x \in Node
      BY <1>1
<1> HIDE DEF f, g
<1>6. Total(f) \in Nat /\ Total(g) \in Nat
      BY <1>2, <1>4, TotalType
<1>7. CASE c \in D
  <2>1. \A x \in D : x # c => g[x] = f[x]
        BY <1>5
  <2>2. Total(g) = Total(f) - f[c] + g[c] /\ f[c] \in Nat /\ g[c] \in Nat
        BY <1>2, <1>4, <1>7, <2>1, TotalSet
  <2>3. g[c] = f[c] + d
        BY <1>5, <1>7
  <2>4. Total(g) = Total(f) + d
        BY ONLY <1>6, <2>2, <2>3, d \in Int
  <2>. QED  BY <1>3, <1>6, <1>7, <2>4 DEF D
<1>8. CASE c \notin D
  <2>1. \A x \in D : g[x] = f[x]
        BY <1>5, <1>8
  <2>2. f = g
        BY <1>4, <2>1
  <2>. QED  BY <1>3, <1>6, <1>8, <2>2 DEF D
<1>. QED  BY <1>7, <1>8

\* A step that leaves usage alone neither is nor becomes a walk that owes
\* anything above a bucket.
LEMMA NoBalance ==
    ASSUME TypeOK, TypeOK', ArgsOK, ArgsOK', NEW p \in Proc, Effect(p),
           ~Commits(p), ~Changes(p), NEW m \in Node \ Bucket
    PROVE  /\ OwedBy(job[p], m) = 0 /\ SpareBy(job[p], m) = 0
           /\ OwedBy(job'[p], m) = 0 /\ SpareBy(job'[p], m) = 0
<1> DEFINE k == job'[p]
<1>1. /\ job[p].pc \notin {"commit", "drop", "adjust"}
      /\ \/ k.pc \notin {"commit", "drop", "adjust"}
         \/ k.pc \in {"commit", "drop", "adjust"} /\ k.lvl = 1
  <2>1. CASE Asks(p)
    <3>1. PICK b \in Bucket, a \in Amount :
             \/ Starts(p, "reserve", "try", b, a, 0)
             \/ Starts(p, "lock", "first", b, a, 0)
          BY <2>1 DEF Asks
    <3>. QED  BY <3>1 DEF Starts, Idle
  <2>2. CASE Settles(p)
    <3>1. PICK r \in Proc, a \in Nat :
             \/ Starts(p, "commit", "fast", res[r].node, res[r].n, a)
             \/ Starts(p, "lock", "commit", res[r].node, res[r].n, a)
             \/ Starts(p, "lock", "release", res[r].node, res[r].n, a)
          BY <2>2, Zenon DEF Settles
    <3>. QED  BY <3>1 DEF Starts, Idle
  <2>3. CASE Frees(p)
    <3>1. PICK b \in Bucket, a \in Int :
             \/ Starts(p, "drop", "locked", b, a, 0)
             \/ Starts(p, "adjust", "locked", b, a, 0)
          BY <2>3 DEF Frees
    <3>. QED  BY <3>1 DEF Starts, Idle
  <2>4. CASE Resizes(p)
    <3>1. PICK b \in Node : Starts(p, "unlock", "locked", b, 0, 0)
          BY <2>4 DEF Resizes
    <3>. QED  BY <3>1 DEF Starts, Idle
  <2>5. CASE Locks(p)
    <3>1. ArgsAt(p)
          BY DEF ArgsOK
    <3>. QED  BY <2>5, <3>1 DEF Locks, Locking, Moved, ArgsAt
  <2>6. CASE Wakes(p) \/ Turns(p) \/ Rests(p)
        BY <2>6 DEF Wakes, Turns, Rests, Moved, Idle
  <2>7. CASE Reserves(p) \/ Undoes(p)
        BY <2>7 DEF Reserves, Undoes, Moved, Idle
  <2>8. CASE Releases(p)
        BY <2>8 DEF Releases, Carries, Moved, Idle
  <2>. QED  BY <2>1, <2>2, <2>3, <2>4, <2>5, <2>6, <2>7, <2>8 DEF Effect
<1>2. OwedBy(job[p], m) = 0 /\ SpareBy(job[p], m) = 0
      BY <1>1 DEF OwedBy, SpareBy
<1>3. CASE k.pc \notin {"commit", "drop", "adjust"}
      BY <1>2, <1>3 DEF OwedBy, SpareBy
<1>4. CASE k.pc \in {"commit", "drop", "adjust"} /\ k.lvl = 1
  <2>1. k.node \in Bucket
        BY <1>4 DEF ArgsOK, ArgsAt, Walking
  <2>2. k.node \in Node
        BY <2>1, ConstantTypes
  <2>3. Chain[k.node][k.lvl] = k.node
        BY <1>4, <2>2, ChainType
  <2>4. Chain[k.node][k.lvl] # m
        BY <2>1, <2>3
  <2>. QED  BY <1>2, <2>4 DEF OwedBy, SpareBy
<1>. QED  BY <1>1, <1>3, <1>4

\* Where a walk that changes its level by d goes next, it owes d to the
\* parent; what it owed to its own level was no more.
LEMMA CarryBalance ==
    ASSUME TypeOK, CallOK, ArgsOK, ReservedExact, NotBelowZero, NEW p \in Proc,
           Commits(p) \/ Changes(p), NEW m \in Node
    PROVE  \E d \in Int :
             /\ committed' = [committed EXCEPT ![Here(p)] = @ + d]
             /\ OwedBy(job'[p], m) - SpareBy(job'[p], m) =
                   IF Here(p) \in Children(m) THEN d ELSE 0
             /\ OwedBy(job[p], m) - SpareBy(job[p], m) <=
                   IF Here(p) = m THEN d ELSE 0
<1> DEFINE j == job[p]
           k == job'[p]
           b == job[p].node
           l == job[p].lvl
           n == job[p].n
           c == Here(p)
<1>t. JobOK /\ ArgsAt(p)
      BY DEF TypeOK, ArgsOK
<1>h. /\ b \in Node /\ l \in 1..Len(Chain[b]) /\ n \in Int /\ l \in Nat
      /\ Len(Chain[b]) \in Nat /\ j.real \in Nat /\ c = Chain[b][l]
      BY <1>t, HereIs DEF Here
<1>c. c \in Children(m) <=> l < Len(Chain[b]) /\ Chain[b][l + 1] = m
      BY <1>h, ParentIs
<1>k. ASSUME NEW x, Carries(p, x)
      PROVE  \/ AtTop(p) /\ c \notin Children(m) /\ k.pc \in {"idle", "unlock"}
             \/ x = 0 /\ k.pc \in {"idle", "unlock"}
             \/ /\ k.pc = j.pc /\ k.n = x /\ k.real = j.real /\ x # 0
                /\ Chain[k.node][k.lvl] = m <=> c \in Children(m)
  <2>1. CASE AtTop(p) \/ x = 0
    <3>1. k.pc \in {"idle", "unlock"}
          BY <1>k, <2>1 DEF Carries, Idle, Moved
    <3>2. AtTop(p) => c \notin Children(m)
          BY <1>c, <1>h DEF AtTop
    <3>. QED  BY <2>1, <3>1, <3>2
  <2>2. CASE ~(AtTop(p) \/ x = 0)
    <3>1. k = Moved(p, j.pc, j.mode, x, l + 1)
          BY <1>k, <2>2 DEF Carries
    <3>2. /\ k.pc = j.pc /\ k.n = x /\ k.real = j.real /\ k.node = b
          /\ k.lvl = l + 1
          BY <3>1 DEF Moved
    <3>3. l < Len(Chain[b])
          BY <2>2, <1>h DEF AtTop
    <3>. QED  BY <2>2, <3>2, <3>3, <1>c
  <2>. QED  BY <2>1, <2>2
<1> HIDE DEF k
<1>1. CASE Commits(p)
  <2>1. /\ j.pc = "commit" /\ Carries(p, n)
        /\ committed' = [committed EXCEPT ![c] = @ + j.real]
        BY <1>1 DEF Commits
  <2>2. n # 0 /\ n \in Nat
        BY <2>1, ReleaseFinds
  <2>3. /\ OwedBy(j, m) = IF c = m THEN j.real ELSE 0
        /\ SpareBy(j, m) = 0
        BY <2>1, <1>h DEF OwedBy, SpareBy
  <2>4. /\ OwedBy(k, m) = IF c \in Children(m) THEN j.real ELSE 0
        /\ SpareBy(k, m) = 0
        BY <2>1, <2>2, <1>k DEF OwedBy, SpareBy
  <2>5. j.real \in Int
        BY <1>h
  <2>6. /\ OwedBy(k, m) - SpareBy(k, m) =
              IF c \in Children(m) THEN j.real ELSE 0
        /\ OwedBy(j, m) - SpareBy(j, m) <= IF c = m THEN j.real ELSE 0
        BY <2>3, <2>4, <2>5
  <2>. QED  BY <2>1, <2>5, <2>6 DEF k
<1>2. CASE Changes(p)
  <2> DEFINE d == Change(p)
  <2>1. /\ j.pc \in {"drop", "adjust"}
        /\ Carries(p, IF j.pc = "drop" THEN -d ELSE d)
        /\ committed' = [committed EXCEPT ![c] = @ + d]
        BY <1>2 DEF Changes
  <2>2. /\ d \in Int
        /\ j.pc = "drop" => d <= 0 /\ -d <= n
        /\ j.pc = "adjust" /\ n >= 0 => d = n
        /\ j.pc = "adjust" /\ n < 0 => d <= 0 /\ d >= n
        BY <2>1, ChangeType
  <2> HIDE DEF d
  <2>3. CASE j.pc = "drop"
    <3>1. /\ OwedBy(j, m) = 0 /\ SpareBy(j, m) = IF c = m THEN n ELSE 0
          BY <2>3, <1>h DEF OwedBy, SpareBy
    <3>2. OwedBy(k, m) = 0
          BY <2>1, <2>3, <1>k DEF OwedBy
    <3>3. SpareBy(k, m) = IF c \in Children(m) THEN -d ELSE 0
      <4>1. Carries(p, -d)
            BY <2>1, <2>3
      <4>2. CASE k.pc \in {"idle", "unlock"}
        <5>1. SpareBy(k, m) = 0
              BY <4>2 DEF SpareBy
        <5>2. c \notin Children(m) \/ -d = 0
              BY <4>1, <4>2, <2>3, <1>k
        <5>. QED  BY <5>1, <5>2
      <4>3. CASE k.pc \notin {"idle", "unlock"}
        <5>1. /\ k.pc = "drop" /\ k.n = -d
              /\ Chain[k.node][k.lvl] = m <=> c \in Children(m)
              BY <4>1, <4>3, <2>3, <1>k
        <5>. QED  BY <5>1 DEF SpareBy
      <4>. QED  BY <4>2, <4>3
    <3>4. /\ OwedBy(k, m) - SpareBy(k, m) = IF c \in Children(m) THEN d ELSE 0
          /\ OwedBy(j, m) - SpareBy(j, m) <= IF c = m THEN d ELSE 0
          BY <2>2, <2>3, <1>h, <3>1, <3>2, <3>3
    <3>. QED  BY <2>1, <2>2, <3>4 DEF k
  <2>4. CASE j.pc = "adjust"
    <3>1. Carries(p, d)
          BY <2>1, <2>4
    <3>2. OwedBy(j, m) - SpareBy(j, m) = IF c = m THEN n ELSE 0
          BY <2>4, <1>h DEF OwedBy, SpareBy
    <3>3. OwedBy(k, m) - SpareBy(k, m) = IF c \in Children(m) THEN d ELSE 0
      <4>1. CASE k.pc \in {"idle", "unlock"}
        <5>1. SpareBy(k, m) = 0 /\ OwedBy(k, m) = 0
              BY <4>1 DEF SpareBy, OwedBy
        <5>2. c \notin Children(m) \/ d = 0
              BY <3>1, <4>1, <2>4, <1>k
        <5>. QED  BY <5>1, <5>2
      <4>2. CASE k.pc \notin {"idle", "unlock"}
        <5>1. /\ k.pc = "adjust" /\ k.n = d
              /\ Chain[k.node][k.lvl] = m <=> c \in Children(m)
              BY <3>1, <4>2, <2>4, <1>k
        <5>. QED  BY <2>2, <5>1 DEF SpareBy, OwedBy
      <4>. QED  BY <4>1, <4>2
    <3>4. OwedBy(j, m) - SpareBy(j, m) <= IF c = m THEN d ELSE 0
          BY <2>2, <2>4, <1>h, <3>2
    <3>. QED  BY <2>1, <2>2, <3>3, <3>4 DEF k
  <2>. QED  BY <2>1, <2>3, <2>4
<1>. QED  BY <1>1, <1>2

\* Every step keeps the usage of a node above that of its children.
LEMMA CoversStep ==
    ASSUME TypeOK, CallOK, ArgsOK, ReservedExact, NotBelowZero, Covers,
           TypeOK', ArgsOK', NotBelowZero',
           NEW p \in Proc, Call(p) \/ Step(p), Effect(p)
    PROVE  Covers'
<1> SUFFICES ASSUME NEW m \in Node \ Bucket
             PROVE  committed'[m] + Total(Owed(m)') >=
                       SubtreeUsage(m)' + Total(Spare(m)')
    BY DEF Covers
<1>1. \A q \in Proc : q # p => job'[q] = job[q]
      BY Others
<1>2. /\ Total(Owed(m)) \in Nat /\ Total(Owed(m)') \in Nat
      /\ Total(Spare(m)) \in Nat /\ Total(Spare(m)') \in Nat
      /\ OwedBy(job[p], m) \in Nat /\ OwedBy(job'[p], m) \in Nat
      /\ SpareBy(job[p], m) \in Nat /\ SpareBy(job'[p], m) \in Nat
      /\ Total(Owed(m)') = Total(Owed(m)) - OwedBy(job[p], m)
                              + OwedBy(job'[p], m)
      /\ Total(Spare(m)') = Total(Spare(m)) - SpareBy(job[p], m)
                               + SpareBy(job'[p], m)
      BY <1>1, BalanceMove
<1>3. /\ \A x \in Node : committed[x] \in Int /\ committed[x] >= 0
      /\ \A x \in Node : committed'[x] \in Int /\ committed'[x] >= 0
      /\ committed \in [Node -> Int] /\ Here(p) \in Node
      BY HereType DEF TypeOK, NotBelowZero
<1>4. committed[m] + Total(Owed(m)) >= SubtreeUsage(m) + Total(Spare(m))
      BY DEF Covers
<1>5. CASE Commits(p) \/ Changes(p)
  <2>1. PICK d \in Int :
           /\ committed' = [committed EXCEPT ![Here(p)] = @ + d]
           /\ OwedBy(job'[p], m) - SpareBy(job'[p], m) =
                 IF Here(p) \in Children(m) THEN d ELSE 0
           /\ OwedBy(job[p], m) - SpareBy(job[p], m) <=
                 IF Here(p) = m THEN d ELSE 0
        BY <1>5, CarryBalance
  <2>2. \A x \in Node : committed'[x] = IF x = Here(p) THEN committed[x] + d
                                        ELSE committed[x]
        BY <1>3, <2>1
  <2>3. /\ SubtreeUsage(m) \in Nat /\ SubtreeUsage(m)' \in Nat
        /\ SubtreeUsage(m)' = SubtreeUsage(m)
              + (IF Here(p) \in Children(m) THEN d ELSE 0)
        BY <1>3, <2>2, SubtreeMove
  <2>4. committed'[m] = committed[m] + (IF Here(p) = m THEN d ELSE 0)
        BY <1>3, <2>2
  <2>5. committed[m] \in Int
        BY <1>3
  <2>. QED  BY <1>2, <1>4, <2>1, <2>3, <2>4, <2>5
<1>6. CASE ~(Commits(p) \/ Changes(p))
  <2>1. committed' = committed
        BY <1>6, UsageStep
  <2>2. /\ OwedBy(job[p], m) = 0 /\ SpareBy(job[p], m) = 0
        /\ OwedBy(job'[p], m) = 0 /\ SpareBy(job'[p], m) = 0
        BY <1>6, NoBalance
  <2>3. /\ SubtreeUsage(m) \in Nat /\ SubtreeUsage(m)' = SubtreeUsage(m) + 0
    <3>1. 0 \in Int /\ m \in Node
          OBVIOUS
    <3>2. \A x \in Node : committed'[x] = IF x = m THEN committed[x] + 0
                                          ELSE committed[x]
          BY <1>3, <2>1
    <3>3. /\ SubtreeUsage(m) \in Nat
          /\ SubtreeUsage(m)' = SubtreeUsage(m)
                + (IF m \in Children(m) THEN 0 ELSE 0)
          BY <1>3, <3>1, <3>2, SubtreeMove
    <3>. QED  BY <3>3
  <2>4. committed'[m] = committed[m] /\ committed[m] \in Int
        BY <1>3, <2>1
  <2>. QED  BY <1>2, <1>4, <2>2, <2>3, <2>4
<1>. QED  BY <1>5, <1>6

-----------------------------------------------------------------------------
\* The books are right at the start.
LEMMA LedgerInit == Init => LedgerInv
<1> SUFFICES ASSUME Init PROVE LedgerInv
    OBVIOUS
<1>1. TypeOK
      BY TypeInit
<1>2. \A p \in Proc : job[p] = Idle /\ res[p] = NoRes
      BY DEF Init
<1>3. CallOK
      BY <1>2 DEF CallOK, CallOKAt, Idle
<1>4. ArgsOK
      BY <1>2 DEF ArgsOK, ArgsAt, Settling, Walking, Idle
<1>5. \A m \in Node : committed[m] = Committed0[m] /\ Committed0[m] \in Nat
      BY QuotaAssumption DEF Init
<1>6. NotBelowZero
      BY <1>5 DEF NotBelowZero
<1>7. ReservedExact
  <2> SUFFICES ASSUME NEW m \in Node PROVE reserved[m] = Total(Shares(m))
      BY DEF ReservedExact
  <2>1. \A p \in Proc : Carried(p, m) = 0 /\ Promised(p, m) = 0
        BY <1>2 DEF Carried, Promised, Idle
  <2>2. \A h \in Proc \X {"res", "job"} : Shares(m)[h] = 0
    <3> SUFFICES ASSUME NEW h \in Proc \X {"res", "job"} PROVE Shares(m)[h] = 0
        OBVIOUS
    <3>1. h[1] \in Proc
          OBVIOUS
    <3>. QED  BY <2>1, <3>1 DEF Shares
  <2>3. Total(Shares(m)) = 0
        BY <1>1, <1>3, <1>4, <2>2, ShareType, TotalZero
  <2>4. reserved[m] = 0
        BY DEF Init
  <2>. QED  BY <2>3, <2>4
<1>8. NoOvercommit
  <2> SUFFICES ASSUME NEW m \in Node, maxBytes[m] > 0
               PROVE  committed[m] + reserved[m] <= Usable(m)
      BY DEF NoOvercommit
  <2>1. /\ maxBytes[m] = MaxBytes0[m] /\ reserved[m] = 0 /\ reserve = 0
        BY DEF Init
  <2>2. Committed0[m] <= maxBytes[m]
        BY <2>1, QuotaAssumption
  <2>3. Reserve(m) = 0
        BY <2>1 DEF Reserve
  <2>4. maxBytes[m] \in Nat
        BY <1>1, UsableType
  <2>5. Usable(m) = maxBytes[m]
        BY <2>3, <2>4 DEF Usable
  <2>. QED  BY <1>5, <2>1, <2>2, <2>4, <2>5
<1>9. Covers
  <2> SUFFICES ASSUME NEW m \in Node \ Bucket
               PROVE  committed[m] + Total(Owed(m)) >=
                         SubtreeUsage(m) + Total(Spare(m))
      BY DEF Covers
  <2>1. /\ Owed(m) \in [Proc -> Nat] /\ Spare(m) \in [Proc -> Nat]
        /\ \A p \in Proc : Owed(m)[p] = OwedAt(p, m) /\ Spare(m)[p] = SpareAt(p, m)
        BY <1>1, <1>4, BalanceType DEF BalanceOK
  <2>2. \A p \in Proc : OwedAt(p, m) = 0 /\ SpareAt(p, m) = 0
        BY <1>2 DEF OwedAt, SpareAt, Idle
  <2>3. Total(Owed(m)) = 0 /\ Total(Spare(m)) = 0
        BY <2>1, <2>2, TotalZero
  <2>4. SubtreeUsage(m) = Total([c \in Children(m) |-> Committed0[c]])
        BY DEF SubtreeUsage, Init
  <2>5. committed[m] >= SubtreeUsage(m)
        BY <1>5, <2>4, QuotaAssumption
  <2>6. committed[m] \in Int /\ SubtreeUsage(m) \in Int
    <3>1. Children(m) \in SUBSET Node
          BY DEF Children
    <3>2. IsFiniteSet(Children(m))
          BY <3>1, QuotaAssumption, FS_Subset
    <3>3. [c \in Children(m) |-> Committed0[c]] \in [Children(m) -> Nat]
          BY <1>5, <3>1
    <3>4. Total([c \in Children(m) |-> Committed0[c]]) \in Nat
          BY <3>2, <3>3, TotalType
    <3>. QED  BY <1>5, <2>4, <3>4
  <2>. QED  BY <2>3, <2>5, <2>6
<1>. QED  BY <1>4, <1>6, <1>7, <1>8, <1>9 DEF LedgerInv

\* Every step keeps the books right.
LEMMA LedgerStep ==
    ASSUME TypeOK, CallOK, LedgerInv, TypeOK', CallOK',
           NEW p \in Proc, Call(p) \/ Step(p)
    PROVE  LedgerInv'
<1> USE DEF LedgerInv
<1>1. Effect(p)
      BY CallEffect, StepEffect
<1>2. job[p].pc = "release" => job[p].n <= reserved[Here(p)]
      BY ReleaseFinds
<1>3. ArgsOK'
      BY <1>1, <1>2, ArgsStep
<1>4. NotBelowZero'
      BY <1>1, ZeroStep
<1>5. ReservedExact'
      BY <1>1, <1>3, ReservedStep
<1>6. NoOvercommit'
      BY <1>1, LimitStep
<1>7. Covers'
      BY <1>1, <1>3, <1>4, CoversStep
<1>. QED  BY <1>3, <1>4, <1>5, <1>6, <1>7

\* So does a step that changes nothing.
LEMMA LedgerStutter ==
    ASSUME LedgerInv, UNCHANGED vars
    PROVE  LedgerInv'
<1>1. UNCHANGED <<committed, reserved, maxBytes, reserve, res, job, exact>>
      BY DEF vars, ledger, limits, history
<1>2. ArgsOK'
      BY <1>1 DEF LedgerInv, ArgsOK, ArgsAt, Settling
<1>3. NotBelowZero' /\ NoOvercommit'
      BY <1>1 DEF LedgerInv, NotBelowZero, NoOvercommit, Usable, Reserve
<1>4. ReservedExact'
  <2>1. \A m \in Node : Shares(m)' = Shares(m)
        BY <1>1 DEF Shares, Carried, Promised, Levels, Pos
  <2>. QED  BY <1>1, <2>1 DEF LedgerInv, ReservedExact
<1>5. Covers'
  <2>1. \A m \in Node : Owed(m)' = Owed(m) /\ Spare(m)' = Spare(m)
                        /\ SubtreeUsage(m)' = SubtreeUsage(m)
        BY <1>1 DEF Owed, Spare, OwedAt, SpareAt, Here, SubtreeUsage, Children
  <2>. QED  BY <1>1, <2>1 DEF LedgerInv, Covers
<1>. QED  BY <1>2, <1>3, <1>4, <1>5 DEF LedgerInv

-----------------------------------------------------------------------------
\* The invariant holds at the start.
LEMMA QuotaInit == Init => QuotaInv
<1> SUFFICES ASSUME Init PROVE QuotaInv
    OBVIOUS
<1>1. TypeOK
      BY TypeInit
<1>2. \A p \in Proc : job[p] = Idle
      BY DEF Init
<1>3. CallOK
      BY <1>2 DEF CallOK, CallOKAt, Idle
<1>4. WakeOK
      BY <1>2 DEF WakeOK, Idle
<1>5. LedgerInv
      BY LedgerInit
<1>. QED  BY <1>1, <1>3, <1>4, <1>5 DEF QuotaInv

\* Every step keeps the invariant.
LEMMA QuotaStep == QuotaInv /\ [Next]_vars => QuotaInv'
<1> SUFFICES ASSUME QuotaInv, [Next]_vars PROVE QuotaInv'
    OBVIOUS
<1> USE DEF QuotaInv
<1>1. CASE Next
  <2>1. PICK p \in Proc : Call(p) \/ Step(p)
        BY <1>1 DEF Next
  <2>2. TypeOK'
        BY <2>1, CallType, StepType
  <2>3. CallOK'
        BY <2>1, CallStep
  <2>4. LedgerInv'
        BY <2>1, <2>2, <2>3, LedgerStep
  <2>. QED  BY <2>1, <2>2, <2>3, <2>4, WakeStep
<1>2. CASE UNCHANGED vars
  <2>1. TypeOK'
        BY <1>2 DEF vars, ledger, limits, waiting, history, TypeOK, JobOK
  <2>2. CallOK'
        BY <1>2 DEF vars, waiting, CallOK, CallOKAt
  <2>3. WakeOK'
        BY <1>2 DEF vars, ledger, limits, waiting, history, WakeOK, Short,
                    Waking, Full, Usable, Reserve, Levels
  <2>4. LedgerInv'
        BY <1>2, LedgerStutter
  <2>. QED  BY <2>1, <2>2, <2>3, <2>4
<1>. QED  BY <1>1, <1>2

\* The types, the wake-up argument and the ledger's bookkeeping hold in
\* every reachable state.
THEOREM QuotaInvariant == Spec => []QuotaInv
<1>. QED  BY QuotaInit, QuotaStep, PTL DEF Spec

\* Every variable of the ledger keeps its type, whatever the tree, the
\* limits and the number of goroutines (Pool, Reservation, Queue).
THEOREM QuotaTypes == Spec => []TypeOK
<1>1. QuotaInv => TypeOK
      BY DEF QuotaInv
<1>. QED  BY <1>1, QuotaInvariant, PTL

\* Apart from the rollback of a failed reserveUp, withWaitLock loses no
\* wake-up: a waiter left asleep is short of room at some level.
THEOREM OnlyRollbackStrandsWaiters == Spec => []OnlyRollbackStrands
<1>1. QuotaInv => OnlyRollbackStrands
  <2> SUFFICES ASSUME QuotaInv, ~rolledBack, NoWakeupComing,
                      NEW p \in Proc, Stranded(p)
               PROVE  FALSE
      BY DEF OnlyRollbackStrands
  <2>1. Short(p) \/ \E q \in Proc : Waking(q)
        BY DEF QuotaInv, WakeOK, Stranded
  <2>2. ~Short(p)
        BY DEF Short, Stranded
  <2>3. \A q \in Proc : ~Waking(q)
        BY DEF Waking, NoWakeupComing
  <2>. QED  BY <2>1, <2>2, <2>3
<1>. QED  BY <1>1, QuotaInvariant, PTL

\* In exact use no level ever has more charged and promised to it than quota
\* may use of its limit, in the middle of any walk (reserveUp, commitUp).
THEOREM NeverOvercommitted == Spec => []NoOvercommit
<1>1. QuotaInv => NoOvercommit
      BY DEF QuotaInv, LedgerInv
<1>. QED  BY <1>1, QuotaInvariant, PTL

\* What a level has reserved is what the unsettled reservations and the walks
\* in progress hold there: failed attempts, racing settlements and clamping
\* leave nothing behind (reserveUp, commitUp, releaseUp).
THEOREM ReservedIsExact == Spec => []ReservedExact
<1>1. QuotaInv => ReservedExact
      BY DEF QuotaInv, LedgerInv
<1>. QED  BY <1>1, QuotaInvariant, PTL

\* Between walks the usage of a node covers the usage of its children: a
\* release clamped at one level takes no more off the levels above
\* (releaseUsageUp, adjustUp).
THEOREM AncestorsCover == Spec => []AncestorCovers
<1>1. QuotaInv => AncestorCovers
  <2> SUFFICES ASSUME QuotaInv, Quiet, NEW m \in Node \ Bucket
               PROVE  committed[m] >= SubtreeUsage(m)
      BY DEF AncestorCovers
  <2> USE DEF QuotaInv, LedgerInv
  <2>1. /\ Owed(m) \in [Proc -> Nat] /\ Spare(m) \in [Proc -> Nat]
        /\ \A p \in Proc : Owed(m)[p] = OwedAt(p, m) /\ Spare(m)[p] = SpareAt(p, m)
        BY BalanceType DEF BalanceOK
  <2>2. \A p \in Proc : OwedAt(p, m) = 0 /\ SpareAt(p, m) = 0
        BY DEF Quiet, Walking, OwedAt, SpareAt
  <2>3. Total(Owed(m)) = 0 /\ Total(Spare(m)) = 0
        BY <2>1, <2>2, TotalZero
  <2>4. committed[m] + Total(Owed(m)) >= SubtreeUsage(m) + Total(Spare(m))
        BY DEF Covers
  <2>5. committed[m] \in Int /\ SubtreeUsage(m) \in Nat
    <3>1. \A x \in Node : committed[x] \in Int /\ committed[x] >= 0
          BY DEF TypeOK, NotBelowZero
    <3>2. Children(m) \in SUBSET Node
          BY DEF Children
    <3>3. IsFiniteSet(Children(m))
          BY <3>2, QuotaAssumption, FS_Subset
    <3>4. [c \in Children(m) |-> committed[c]] \in [Children(m) -> Nat]
          BY <3>1, <3>2
    <3>5. SubtreeUsage(m) \in Nat
          BY <3>3, <3>4, TotalType DEF SubtreeUsage
    <3>. QED  BY <3>1, <3>5
  <2>. QED  BY <2>3, <2>4, <2>5
<1>. QED  BY <1>1, QuotaInvariant, PTL
=============================================================================

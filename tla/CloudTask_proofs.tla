--------------------------- MODULE CloudTask_proofs ---------------------------
(***************************************************************************)
(* Proofs about one cloud download task, for every number of goroutines,   *)
(* resume requests and crashes, and every size: the running mark is a      *)
(* lock, an ended task stays ended, neither ledger gives back more than it *)
(* holds; and while no removal fails, nothing crashes and no removal or    *)
(* sweep meets a request it does not know of, what is on disk is booked,   *)
(* a completed task has its file, and an abandoned one holds nothing.      *)
(***************************************************************************)
EXTENDS CloudTask, TLAPS

\* The types, one variable or group of variables at a time.
TaskType ==
    task \in [in : BOOLEAN, status : Status \cup {"none"}, submitted :
       BOOLEAN,
              done : BOOLEAN, damaged : BOOLEAN, reserved : Nat]
AcctType == acct \in [open : BOOLEAN, com : Nat, res : Nat]
MarkType ==
    /\ running \in BOOLEAN /\ dirty \in BOOLEAN
    /\ overlap \in BOOLEAN /\ kept \in BOOLEAN
    /\ cancelFn \in Worker \cup {NoWorker}
JsonType == json \in Record \cup {NoRecord}
DiskType == disk \in [dir : BOOLEAN, partial : 0..FileSize, dest : 0..FileSize]
BookType == cloud \in Int /\ usage \in Int
PcType == pc \in [Actor -> WorkerStep \cup RequestStep]
SaveType == save \in [Actor -> [snap : Record \cup {NoRecord},
                                next : WorkerStep \cup RequestStep]]
DlType == dl \in [Worker -> Session]
DelType == del \in [res : Nat, run : BOOLEAN]
ResType == res \in [Resumer -> [woken : BOOLEAN, prev : Record \cup {NoRecord},
                                res : Nat]]
ItemType == item \in [res : Nat, com : Nat]
CountType == asked \in 0..MaxRequests /\ faults \in 0..MaxFaults

\* Where the actors are, and where a saveTask in progress will return.
Places ==
    /\ \A w \in Worker : pc[w] \in WorkerStep
    /\ \A a \in Request : pc[a] \in RequestStep
    /\ \A w \in Worker : pc[w] \in {"save", "write"} =>
          save[w].next \in {"get", "final", "clean", "exit"}
    /\ \A r \in Resumer : pc[r] \in {"save", "write"} => save[r].next =
       "launch"
    /\ pc["create"] \in {"save", "write"} =>
          save["create"].next \in {"submit", "launch"}
    /\ \A a \in {"cancel", "flush"} :
          pc[a] \in {"save", "write"} => save[a].next = "idle"
    /\ pc["delete"] \in {"idle", "rm", "json", "release"}
    /\ pc["sweep"] \in {"idle", "json", "rm", "drop"}

\* a has the running mark.
Holds(a) ==
    \/ a \in Worker /\ pc[a] \notin {"unused", "over"}
    \/ a \in {"create"} \cup Resumer /\ Launching(a)

\* The running mark is a lock.
Lock ==
    /\ \A a, b \in Actor : Holds(a) /\ Holds(b) => a = b
    /\ running <=> \E a \in Actor : Holds(a)

\* The goroutine w has published how its task ended, or left it alone.
Finished(w) ==
    \/ pc[w] \in {"clean", "exit"}
    \/ pc[w] \in {"save", "write"} /\ save[w].next \in {"clean", "exit"}

\* Whoever has the mark and has not finished works for a task that has not
\* failed or completed.
AtWork ==
    \A a \in Actor : Holds(a) =>
        /\ task.status # "none"
        /\ Finished(a) \/ task.status \in {"pending", "downloading",
           "cancelled"}

\* A task that has no status has never been anywhere.
Known ==
    /\ task.in => task.status # "none"
    /\ task.status = "none" => acct.com = 0 /\ acct.res = 0

\* Only a known task is deleted or swept, and a resume has noted how the task
\* had ended.
Origins ==
    /\ task.status = "none" => pc["delete"] = "idle" /\ pc["sweep"] = "idle"
    /\ \A r \in Resumer :
          pc[r] = "window" => res[r].prev.status \in Terminal

\* A sweep in progress that met nobody still has the task it noted.
Sweeping ==
    ~overlap /\ pc["sweep"] # "idle" =>
        /\ task.in /\ ~running
        /\ task.status \in Terminal \cup {"pending"}
        /\ item.res <= task.reserved /\ item.com <= acct.com

\* A cancelled task that nobody works for has given its account back.
Quiet ==
    ~overlap /\ task.in /\ task.status = "cancelled" /\ ~running => ~acct.open

\* A DeleteTask in progress has taken the task out of the table.
Deleting ==
    /\ ~overlap /\ pc["delete"] # "idle" => ~task.in
    /\ pc["delete"] = "idle" => del.res = 0

\* The scope holds what the account can give back.
UsageCovers ==
    ~overlap =>
        /\ usage >= 0
        /\ task.in \/ running \/ pc["delete"] # "idle" =>
              usage >= acct.com + acct.res

\* The cloud ledger holds what the task and a DeleteTask can give back.
CloudCovers == ~overlap => cloud >= task.reserved + del.res

CloudInv ==
    /\ TaskType /\ AcctType /\ MarkType /\ JsonType /\ DiskType /\ BookType
    /\ PcType /\ SaveType /\ DlType /\ DelType /\ ResType /\ ItemType
    /\ CountType
    /\ Places /\ Lock /\ AtWork /\ Known /\ Origins
    /\ Sweeping /\ Quiet /\ Deleting /\ UsageCovers /\ CloudCovers


-----------------------------------------------------------------------------
\* Who the actors are.
LEMMA Who ==
    /\ \A w \in Worker :
          /\ w \in Actor /\ w \notin Request /\ w \notin Resumer
          /\ w # "create" /\ w # "cancel" /\ w # "delete"
          /\ w # "sweep" /\ w # "flush"
    /\ \A r \in Resumer :
          /\ r \in Actor /\ r \in Request /\ r \notin Worker
          /\ r # "create" /\ r # "cancel" /\ r # "delete"
          /\ r # "sweep" /\ r # "flush"
    /\ {"create", "cancel", "delete", "sweep", "flush"} \subseteq Actor
    /\ {"create", "cancel", "delete", "sweep", "flush"} \subseteq Request
    /\ \A a \in {"create", "cancel", "delete", "sweep", "flush"} :
          a \notin Worker /\ a \notin Resumer
    /\ \A a \in Actor : a \in Worker \/ a \in Request
    /\ FileSize \in Nat /\ Placeholder \in Nat /\ NoWorker \notin Worker
    /\ MaxRequests \in Nat /\ MaxFaults \in Nat
BY ActorAssumption, FileSizeAssumption, PlaceholderAssumption,
   BoundAssumption, NoWorkerAssumption DEF Actor, Request

-----------------------------------------------------------------------------
(* What the steps of the model do to the variables they change.             *)

\* The account is three fields.
LEMMA AcctIs ==
    ASSUME AcctType
    PROVE  /\ acct = [open |-> acct.open, com |-> acct.com, res |-> acct.res]
           /\ acct.open \in BOOLEAN /\ acct.com \in Nat /\ acct.res \in Nat
BY DEF AcctType

\* releaseTaskScope leaves an account, and takes what it held off the scope.
LEMMA ReleaseScopeEffect ==
    ASSUME AcctType, BookType, ReleaseScope
    PROVE  /\ AcctType' /\ usage' \in Int
           /\ \/ acct.open /\ ~acct'.open /\ acct'.com = 0 /\ acct'.res = 0
                 /\ usage' = usage - acct.com - acct.res
              \/ ~acct.open /\ acct' = acct /\ usage' = usage
<1>1. CASE acct.open
  <2>1. acct' = [open |-> FALSE, com |-> 0, res |-> 0]
    BY <1>1 DEF ReleaseScope
  <2>2. acct'.com = 0 /\ acct'.res = 0 /\ acct'.open = FALSE /\ AcctType'
    BY <2>1 DEF AcctType
  <2>3. usage' = usage - acct.com - acct.res
    BY <1>1 DEF ReleaseScope
  <2> QED  BY <1>1, <2>2, <2>3, AcctIs DEF BookType
<1>2. CASE ~acct.open
  BY <1>2 DEF ReleaseScope, AcctType, BookType
<1> QED  BY <1>1, <1>2

\* A settlement gives the reserve back, and some of what was written.
LEMMA SettleEffect ==
    ASSUME AcctType, BookType, NEW n \in Nat, Settle(n)
    PROVE  /\ AcctType' /\ usage' \in Int
           /\ acct'.open = acct.open /\ acct'.res = 0
           /\ acct'.com <= acct.com
           /\ usage' - acct'.com = usage - acct.com - acct.res
<1> DEFINE k == Least(n, acct.com)
<1>1. /\ usage' = usage - acct.res - k
      /\ acct' = [acct EXCEPT !.res = 0, !.com = @ - k]
  BY DEF Settle
<1>2. k \in Nat /\ k <= acct.com
  BY AcctIs DEF Least
<1> HIDE DEF k
<1>3. acct' = [open |-> acct.open, com |-> acct.com - k, res |-> 0]
  BY <1>1 DEF AcctType
<1>4. /\ acct.com - k \in Nat /\ acct.com - k <= acct.com
      /\ acct'.open = acct.open /\ acct'.com = acct.com - k /\ acct'.res = 0
  BY <1>2, <1>3, AcctIs
<1>5. AcctType'
  BY <1>3, <1>4, AcctIs DEF AcctType
<1> QED  BY <1>1, <1>2, <1>4, <1>5, AcctIs DEF BookType

\* AdjustCommitted makes an account of n units, or leaves the one there is.
LEMMA AdjustEffect ==
    ASSUME AcctType, BookType, NEW n \in Nat, AdjustTo(n)
    PROVE  /\ AcctType' /\ usage' \in Int
           /\ \/ acct' = acct /\ usage' = usage /\ (acct.open \/ n = 0)
              \/ /\ acct'.open /\ acct'.com = n /\ acct'.res = 0
                 /\ usage' = usage + n
<1>1. CASE acct.open \/ n = 0
  BY <1>1 DEF AdjustTo, AcctType, BookType
<1>2. CASE ~(acct.open \/ n = 0)
  <2>1. acct' = [open |-> TRUE, com |-> n, res |-> 0] /\ usage' = usage + n
    BY <1>2 DEF AdjustTo
  <2> QED  BY <2>1 DEF AcctType, BookType
<1> QED  BY <1>1, <1>2

\* The sink opens an account with n units in reserve, or uses the open one.
LEMMA OpenSinkEffect ==
    ASSUME AcctType, BookType, NEW n \in Nat, OpenSink(n)
    PROVE  /\ AcctType' /\ usage' \in Int
           /\ \/ acct' = acct /\ usage' = usage
              \/ /\ acct'.open /\ acct'.com = 0 /\ acct'.res = n
                 /\ usage' = usage + n
<1>1. CASE acct.open
  BY <1>1 DEF OpenSink, AcctType, BookType
<1>2. CASE ~acct.open
  <2>1. acct' = [open |-> TRUE, com |-> 0, res |-> n] /\ usage' = usage + n
    BY <1>2 DEF OpenSink
  <2> QED  BY <2>1 DEF AcctType, BookType
<1> QED  BY <1>1, <1>2

\* A session with one field changed is a session.
LEMMA SessionField ==
    ASSUME NEW d \in Session
    PROVE  /\ \A b \in BOOLEAN :
                 /\ [d EXCEPT !.cancelled = b] \in Session
                 /\ [d EXCEPT !.sync = b] \in Session
                 /\ [d EXCEPT !.gone = b] \in Session
                 /\ [d EXCEPT !.err = b] \in Session
                 /\ [d EXCEPT !.lost = b] \in Session
           /\ \A n \in 0..FileSize :
                 /\ [d EXCEPT !.size = n] \in Session
                 /\ [d EXCEPT !.old = n] \in Session
           /\ [d EXCEPT !.tries = @ + 1] \in Session
<1>1. \A b \in BOOLEAN : /\ [d EXCEPT !.cancelled = b] \in Session
                         /\ [d EXCEPT !.sync = b] \in Session
                         /\ [d EXCEPT !.gone = b] \in Session
  BY DEF Session
<1>2. \A b \in BOOLEAN : /\ [d EXCEPT !.err = b] \in Session
                         /\ [d EXCEPT !.lost = b] \in Session
  BY DEF Session
<1>3. \A n \in 0..FileSize : /\ [d EXCEPT !.size = n] \in Session
                             /\ [d EXCEPT !.old = n] \in Session
  BY DEF Session
<1>4. [d EXCEPT !.tries = @ + 1] \in Session
  BY DEF Session
<1> QED  BY <1>1, <1>2, <1>3, <1>4

\* An empty session, a new one, and a closed one.
LEMMA Sessions ==
    ASSUME DlType
    PROVE  /\ NoSession \in Session
           /\ \A b \in BOOLEAN : [NoSession EXCEPT !.sync = b] \in Session
           /\ \A w \in Worker, b \in BOOLEAN : Closed(w, b) \in Session
<1>0. 0 \in 0..FileSize
  BY FileSizeAssumption
<1>1. NoSession \in Session
  BY <1>0 DEF NoSession, Session
<1>2. \A b \in BOOLEAN : [NoSession EXCEPT !.sync = b] \in Session
  BY <1>1, SessionField
<1> SUFFICES ASSUME NEW w \in Worker, NEW b \in BOOLEAN
             PROVE  Closed(w, b) \in Session
  BY <1>1, <1>2
<1> DEFINE d1 == [dl[w] EXCEPT !.err = b]
           d2 == [d1 EXCEPT !.size = 0]
           d3 == [d2 EXCEPT !.old = 0]
<1>3. d1 \in Session
  BY SessionField DEF DlType
<1>4. d2 \in Session
  <2> HIDE DEF d1
  <2> QED  BY <1>0, <1>3, SessionField
<1>5. d3 \in Session
  <2> HIDE DEF d2
  <2> QED  BY <1>0, <1>4, SessionField
<1>6. [d3 EXCEPT !.lost = FALSE] \in Session
  <2> HIDE DEF d3
  <2> QED  BY <1>5, SessionField
<1> QED  BY <1>6 DEF Closed

\* Removing the directory, or failing to, leaves sessions and sizes.
LEMMA RemoveDirEffect ==
    ASSUME DlType, DiskType, RemoveDir
    PROVE  DlType' /\ DiskType' /\ disk' = EmptyDisk
<1>1. disk' = EmptyDisk /\ DiskType'
  BY FileSizeAssumption DEF RemoveDir, EmptyDisk, DiskType
<1>2. dl' = [w \in Worker |->
               IF pc[w] = "recv" THEN [dl[w] EXCEPT !.lost = TRUE] ELSE dl[w]]
  BY DEF RemoveDir
<1>3. \A w \in Worker : dl'[w] \in Session
  <2> SUFFICES ASSUME NEW w \in Worker PROVE dl'[w] \in Session
    OBVIOUS
  <2>1. dl[w] \in Session /\ [dl[w] EXCEPT !.lost = TRUE] \in Session
    BY SessionField DEF DlType
  <2>2. dl'[w] = dl[w] \/ dl'[w] = [dl[w] EXCEPT !.lost = TRUE]
    BY <1>2
  <2> QED  BY <2>1, <2>2
<1> QED  BY <1>1, <1>2, <1>3 DEF DlType

\* What calls the cancel function leaves sessions.
LEMMA CallCancelEffect ==
    ASSUME DlType, CallCancelFn
    PROVE  DlType' /\ cancelFn' = NoWorker
<1>1. dl' = [w \in Worker |->
          IF w = cancelFn THEN [dl[w] EXCEPT !.cancelled = TRUE] ELSE dl[w]]
  BY DEF CallCancelFn
<1>2. \A w \in Worker : dl'[w] \in Session
  <2> SUFFICES ASSUME NEW w \in Worker PROVE dl'[w] \in Session
    OBVIOUS
  <2>1. dl[w] \in Session /\ [dl[w] EXCEPT !.cancelled = TRUE] \in Session
    BY SessionField DEF DlType
  <2>2. dl'[w] = dl[w] \/ dl'[w] = [dl[w] EXCEPT !.cancelled = TRUE]
    BY <1>1
  <2> QED  BY <2>1, <2>2
<1> QED  BY <1>1, <1>2 DEF DlType, CallCancelFn

\* A step of the actors of A, which keeps the rules for where they may be.
LEMMA PlacesMove ==
    ASSUME Places, NEW A \in SUBSET Actor,
           \A b \in Actor \ A : pc'[b] = pc[b] /\ save'[b] = save[b],
           \A a \in A :
              /\ a \in Worker => pc'[a] \in WorkerStep
              /\ a \in Request => pc'[a] \in RequestStep
              /\ a = "delete" => pc'[a] \in {"idle", "rm", "json", "release"}
              /\ a = "sweep" => pc'[a] \in {"idle", "json", "rm", "drop"}
              /\ pc'[a] \in {"save", "write"} =>
                    /\ a \in Worker =>
                          save'[a].next \in {"get", "final", "clean", "exit"}
                    /\ a \in Resumer => save'[a].next = "launch"
                    /\ a = "create" => save'[a].next \in {"submit", "launch"}
                    /\ a \in {"cancel", "flush"} => save'[a].next = "idle"
    PROVE  Places'
<1>1. /\ \A w \in Worker : w \in Actor
      /\ \A r \in Request : r \in Actor
      /\ \A r \in Resumer : r \in Actor
  BY Who DEF Actor
<1>2. \A w \in Worker : pc'[w] \in WorkerStep
  BY <1>1 DEF Places
<1>3. \A r \in Request : pc'[r] \in RequestStep
  BY <1>1 DEF Places
<1>4. \A w \in Worker : pc'[w] \in {"save", "write"} =>
          save'[w].next \in {"get", "final", "clean", "exit"}
  BY <1>1 DEF Places
<1>5. \A r \in Resumer : pc'[r] \in {"save", "write"} => save'[r].next =
   "launch"
  BY <1>1 DEF Places
<1>6. {"create", "cancel", "delete", "sweep", "flush"} \subseteq Actor
  BY Who
<1>7. pc'["create"] \in {"save", "write"} =>
          save'["create"].next \in {"submit", "launch"}
  BY <1>6 DEF Places
<1>8. \A r \in {"cancel", "flush"} :
          pc'[r] \in {"save", "write"} => save'[r].next = "idle"
  BY <1>6 DEF Places
<1>9. /\ pc'["delete"] \in {"idle", "rm", "json", "release"}
      /\ pc'["sweep"] \in {"idle", "json", "rm", "drop"}
  BY <1>6 DEF Places
<1> QED  BY <1>2, <1>3, <1>4, <1>5, <1>7, <1>8, <1>9 DEF Places

\* A goroutine that goes on keeps its mark.
LEMMA WorkerMoves ==
    ASSUME CloudInv, NEW w \in Worker, NEW p \in WorkerStep,
           pc[w] \notin {"unused", "over"},
           p \notin {"unused", "over", "save", "write"},
           Goto(w, p), save' = save, running' = running
    PROVE  PcType' /\ Places' /\ Lock'
<1>1. PcType'
  BY Who DEF CloudInv, PcType, Goto
<1>2. /\ pc'[w] = p /\ w \in Actor /\ w \notin Request
      /\ \A a \in Actor \ {w} : pc'[a] = pc[a]
  BY Who DEF CloudInv, PcType, Goto
<1>3. {w} \in SUBSET Actor /\ Places /\ w # "delete" /\ w # "sweep"
  BY Who DEF CloudInv
<1>4. Places'
  BY <1>2, <1>3, PlacesMove
<1>5. \A a \in Actor : Holds(a)' <=> Holds(a)
  BY <1>2, Who DEF Holds, Launching
<1>6. Lock'
  BY <1>5 DEF CloudInv, Lock
<1> QED  BY <1>1, <1>4, <1>6

\* A goroutine that saves the task keeps its mark.
LEMMA WorkerSaves ==
    ASSUME CloudInv, NEW w \in Worker,
           NEW p \in {"get", "final", "clean", "exit"},
           pc[w] \notin {"unused", "over"}, SaveThen(w, p), running' = running
    PROVE  PcType' /\ SaveType' /\ Places' /\ Lock'
<1>1. PcType'
  BY Who DEF CloudInv, PcType, SaveThen, WorkerStep
<1>2. SaveType'
  BY Who DEF CloudInv, SaveType, SaveThen, WorkerStep
<1>3. /\ pc'[w] = "save" /\ save'[w].next = p
      /\ \A a \in Actor \ {w} : pc'[a] = pc[a] /\ save'[a] = save[a]
  BY Who DEF CloudInv, PcType, SaveType, SaveThen
<1>4. /\ {w} \in SUBSET Actor /\ Places /\ w # "delete" /\ w # "sweep"
      /\ w \notin Request /\ w \notin Resumer /\ w # "create"
      /\ w \notin {"cancel", "flush"} /\ "save" \in WorkerStep
  BY Who DEF CloudInv, WorkerStep
<1>5. Places'
  <2>1. \A a \in {w} :
           /\ pc'[a] \in WorkerStep /\ a # "delete" /\ a # "sweep"
           /\ a \notin Request /\ a \notin Resumer /\ a # "create"
           /\ a \notin {"cancel", "flush"}
           /\ save'[a].next \in {"get", "final", "clean", "exit"}
    BY <1>3, <1>4
  <2>2. \A b \in Actor \ {w} : pc'[b] = pc[b] /\ save'[b] = save[b]
    BY <1>3
  <2>3. {w} \in SUBSET Actor /\ Places
    BY <1>4
  <2> QED  BY ONLY <2>1, <2>2, <2>3, PlacesMove
<1>6. \A a \in Actor : Holds(a)' <=> Holds(a)
  BY <1>3, Who DEF Holds, Launching
<1>7. Lock'
  BY <1>6 DEF CloudInv, Lock
<1> QED  BY <1>1, <1>2, <1>5, <1>7

\* One actor gives up its place and starts a goroutine.
LEMMA LaunchPlaces ==
    ASSUME CloudInv, NEW a \in Actor, NEW v \in Worker, NEW p, a # v,
           a \notin {"delete", "sweep"}, p \notin {"save", "write"},
           a \in Worker => p \in WorkerStep,
           a \in Request => p \in RequestStep,
           pc' = [pc EXCEPT ![a] = p, ![v] = "start"], save' = save
    PROVE  Places'
<1>1. /\ pc'[a] = p /\ pc'[v] = "start"
      /\ \A b \in Actor \ {a, v} : pc'[b] = pc[b]
  BY Who DEF CloudInv, PcType
<1>2. /\ {a, v} \in SUBSET Actor /\ Places /\ v # "delete" /\ v # "sweep"
      /\ v \notin Request /\ "start" \in WorkerStep
  BY Who DEF CloudInv, WorkerStep
<1>3. \A b \in {a, v} :
         /\ b \in Worker => pc'[b] \in WorkerStep
         /\ b \in Request => pc'[b] \in RequestStep
         /\ b # "delete" /\ b # "sweep" /\ pc'[b] \notin {"save", "write"}
  BY <1>1, <1>2
<1>4. \A b \in Actor \ {a, v} : pc'[b] = pc[b] /\ save'[b] = save[b]
  BY <1>1
<1>5. {a, v} \in SUBSET Actor /\ Places
  BY <1>2
<1> QED  BY ONLY <1>3, <1>4, <1>5, PlacesMove

\* A step of saveTask, or the one after it, keeps the marks.
LEMMA SavePlaces ==
    ASSUME CloudInv, NEW a \in Actor, pc[a] \in {"save", "write"},
           \/ pc'[a] = "write" /\ save'[a].next = save[a].next
           \/ pc'[a] = save[a].next,
           \A b \in Actor \ {a} : pc'[b] = pc[b] /\ save'[b] = save[b]
    PROVE  /\ Places' /\ a # "delete" /\ a # "sweep"
           /\ \A b \in Actor : Holds(b)' <=> Holds(b)
<1>1. a # "delete" /\ a # "sweep"
  BY DEF CloudInv, Places
<1>2. /\ a \in Worker => save[a].next \in {"get", "final", "clean", "exit"}
      /\ a \in Resumer => save[a].next = "launch"
      /\ a = "create" => save[a].next \in {"submit", "launch"}
      /\ a \in {"cancel", "flush"} => save[a].next = "idle"
  BY DEF CloudInv, Places
<1>3. /\ a \in Worker => a \notin Request /\ a \notin Resumer /\ a # "create"
                         /\ a \notin {"cancel", "flush"}
      /\ a \in Request => a \in Resumer \cup {"create", "cancel", "flush"}
      /\ a \in Worker \/ a \in Request
  BY <1>1, Who DEF Request
<1>4. Places'
  <2>1. {a} \in SUBSET Actor /\ Places
    BY DEF CloudInv
  <2>2. a \in Worker => pc'[a] \in WorkerStep
    BY <1>2 DEF WorkerStep
  <2>3. a \in Request => pc'[a] \in RequestStep
    BY <1>2, <1>3 DEF RequestStep
  <2>4. pc'[a] \in {"save", "write"} => save'[a].next = save[a].next
    BY <1>2, <1>3
  <2>5. \A b \in {a} :
           /\ b \in Worker => pc'[b] \in WorkerStep
           /\ b \in Request => pc'[b] \in RequestStep
           /\ b # "delete" /\ b # "sweep"
           /\ pc'[b] \in {"save", "write"} => save'[b].next = save[b].next
           /\ b \in Worker => save[b].next \in {"get", "final", "clean",
              "exit"}
           /\ b \in Resumer => save[b].next = "launch"
           /\ b = "create" => save[b].next \in {"submit", "launch"}
           /\ b \in {"cancel", "flush"} => save[b].next = "idle"
    BY <1>1, <1>2, <2>2, <2>3, <2>4
  <2>6. \A b \in Actor \ {a} : pc'[b] = pc[b] /\ save'[b] = save[b]
    OBVIOUS
  <2> QED  BY ONLY <2>1, <2>5, <2>6, PlacesMove
<1>5. Holds(a)' <=> Holds(a)
  <2>1. CASE a \in Worker
    BY <1>2, <1>3, <2>1 DEF Holds
  <2>2. CASE a \in Resumer
    BY <1>2, <2>2, Who DEF Holds, Launching
  <2>3. CASE a = "create"
    BY <1>2, <2>3, Who DEF Holds, Launching
  <2>4. CASE a \in {"cancel", "flush"}
    BY <2>4, Who DEF Holds
  <2> QED  BY <1>3, <2>1, <2>2, <2>3, <2>4
<1>6. \A b \in Actor \ {a} : Holds(b)' <=> Holds(b)
  BY DEF Holds, Launching
<1> QED  BY <1>1, <1>4, <1>5, <1>6

\* A goroutine is started with an empty session.
LEMMA LaunchEffect ==
    ASSUME DlType, NEW w \in Worker, NEW b \in BOOLEAN, Launch(w, b)
    PROVE  DlType'
<1>1. [NoSession EXCEPT !.sync = b] \in Session
  BY Sessions
<1> QED  BY <1>1 DEF Launch, DlType

\* An attempt that is over closes its session.
LEMMA ClosedEffect ==
    ASSUME DlType, NEW w \in Worker, NEW b \in BOOLEAN,
           dl' = [dl EXCEPT ![w] = Closed(w, b)]
    PROVE  DlType'
<1>1. Closed(w, b) \in Session
  BY Sessions
<1> QED  BY <1>1 DEF DlType

\* The directory goes, or it does not.
LEMMA RemoveOrNot ==
    ASSUME DlType, DiskType, RemoveDir \/ UNCHANGED <<disk, dl>>
    PROVE  DlType' /\ DiskType'
<1>1. CASE UNCHANGED <<disk, dl>>
  BY <1>1 DEF DlType, DiskType
<1> QED  BY <1>1, RemoveDirEffect

\* What is on disk keeps its type when the sizes are.
LEMMA DiskIs ==
    ASSUME DiskType
    PROVE  /\ disk = [dir |-> disk.dir, partial |-> disk.partial,
                      dest |-> disk.dest]
           /\ disk.dir \in BOOLEAN
           /\ disk.partial \in 0..FileSize /\ disk.dest \in 0..FileSize
           /\ DiskUsage(disk) \in Nat
           /\ 0 \in 0..FileSize /\ FileSize \in 0..FileSize
<1>1. FileSize \in Nat
  BY FileSizeAssumption
<1>2. /\ disk.dir \in BOOLEAN
      /\ disk.partial \in 0..FileSize /\ disk.dest \in 0..FileSize
      /\ disk = [dir |-> disk.dir, partial |-> disk.partial,
                 dest |-> disk.dest]
  BY DEF DiskType
<1> QED  BY <1>1, <1>2 DEF DiskUsage

\* The task is six fields.
LEMMA TaskIs ==
    ASSUME TaskType
    PROVE  /\ task = [in |-> task.in, status |-> task.status,
                      submitted |-> task.submitted, done |-> task.done,
                      damaged |-> task.damaged, reserved |-> task.reserved]
           /\ task.in \in BOOLEAN /\ task.submitted \in BOOLEAN
           /\ task.done \in BOOLEAN /\ task.damaged \in BOOLEAN
           /\ task.status \in Status \cup {"none"} /\ task.reserved \in Nat
BY DEF TaskType

\* The task as the second section of ResumeTask leaves it.
LEMMA ClaimedIs ==
    ASSUME TaskType
    PROVE  Claimed = [in |-> task.in, status |-> "pending",
                      submitted |-> task.submitted, done |-> FALSE,
                      damaged |-> FALSE, reserved |-> task.reserved]
<1> DEFINE t == [task EXCEPT !.status = "pending"]
<1>1. t = [in |-> task.in, status |-> "pending",
           submitted |-> task.submitted, done |-> task.done,
           damaged |-> task.damaged, reserved |-> task.reserved]
  BY DEF TaskType
<1>2. Claimed = [t EXCEPT !.damaged = FALSE, !.done = FALSE]
  BY DEF Claimed
<1> HIDE DEF t
<1> QED  BY <1>1, <1>2

\* What rollbackResumeLocked leaves of the task t and of the books.
LEMMA RollbackEffect ==
    ASSUME AcctType, BookType, NEW r \in Resumer,
           NEW t \in [in : BOOLEAN, status : Status \cup {"none"},
                      submitted : BOOLEAN, done : BOOLEAN,
                      damaged : BOOLEAN, reserved : Nat],
           NEW prev \in Status, NEW n \in Nat, Rollback(r, t, prev, n)
    PROVE  /\ TaskType' /\ AcctType' /\ BookType' /\ ~running'
           /\ task'.in = t.in /\ task'.status \in {prev, t.status}
           /\ t.in /\ t.status = "pending" => task'.status = prev
           /\ t.status # "pending" => task'.status = t.status
           /\ \E k \in {0, n} : /\ k <= t.reserved /\ cloud' = cloud - k
                                /\ task'.reserved <= t.reserved - k
           /\ ReleaseScope \/ UNCHANGED <<acct, usage>>
           /\ ~t.in \/ task'.status = "cancelled" => ReleaseScope
<1> DEFINE k == IF t.in /\ t.reserved >= n THEN n ELSE 0
           u == IF t.in /\ t.status = "pending"
                THEN [t EXCEPT !.status = prev, !.reserved = @ - k]
                ELSE [t EXCEPT !.reserved = @ - k]
           s == IF t.in /\ t.status = "pending" THEN prev ELSE t.status
<1>1. k \in {0, n} /\ k \in Nat /\ k <= t.reserved /\ t.reserved - k \in Nat
  OBVIOUS
<1>2. /\ cloud' = cloud - k /\ running' = FALSE
      /\ \/ ReleaseScope /\ task' = [u EXCEPT !.reserved = 0]
         \/ /\ task' = u /\ UNCHANGED <<acct, usage>>
            /\ u.in /\ u.status # "cancelled"
  BY DEF Rollback
<1>3. s \in Status \cup {"none"} /\ s \in {prev, t.status}
  OBVIOUS
<1> HIDE DEF k
<1>4. u = [in |-> t.in, status |-> s, submitted |-> t.submitted,
           done |-> t.done, damaged |-> t.damaged,
           reserved |-> t.reserved - k]
  <2>1. CASE t.in /\ t.status = "pending"
    <3>1. s = prev
      BY <2>1
    <3>2. u = [t EXCEPT !.status = prev, !.reserved = @ - k]
      BY <2>1
    <3> QED  BY <3>1, <3>2
  <2>2. CASE ~(t.in /\ t.status = "pending")
    <3>1. s = t.status
      BY <2>2
    <3>2. u = [t EXCEPT !.reserved = @ - k]
      BY <2>2
    <3> QED  BY <3>1, <3>2
  <2> QED  BY <2>1, <2>2
<1>5. /\ t.in /\ t.status = "pending" => s = prev
      /\ t.status # "pending" => s = t.status
  OBVIOUS
<1> HIDE DEF u, s
<1>6. \/ task' = [in |-> t.in, status |-> s, submitted |-> t.submitted,
                  done |-> t.done, damaged |-> t.damaged, reserved |-> 0]
      \/ task' = [in |-> t.in, status |-> s, submitted |-> t.submitted,
                  done |-> t.done, damaged |-> t.damaged,
                  reserved |-> t.reserved - k]
  BY <1>2, <1>4
<1>7. /\ task'.in = t.in /\ task'.status = s
      /\ task'.reserved \in {0, t.reserved - k}
  BY <1>6
<1>8. TaskType'
  BY <1>1, <1>3, <1>6 DEF TaskType
<1>9. AcctType' /\ usage' \in Int
  BY <1>2, ReleaseScopeEffect DEF AcctType, BookType
<1>10. cloud' \in Int
  BY <1>1, <1>2 DEF BookType
<1>11. u.in = t.in /\ u.status = s
  BY <1>4
<1>12. task'.reserved <= t.reserved - k
  BY <1>1, <1>7
<1>13. ~t.in \/ task'.status = "cancelled" => ReleaseScope
  BY <1>2, <1>7, <1>11
<1> QED
  BY <1>1, <1>2, <1>3, <1>5, <1>7, <1>8, <1>9, <1>10, <1>12, <1>13
     DEF BookType

-----------------------------------------------------------------------------
(* The invariant, one step of the program at a time.                        *)

\* CreateTask enters the task in the table.
LEMMA CreateTaskStep ==
    ASSUME CloudInv, CreateTask
    PROVE  CloudInv'
<1>1. AcctType' /\ MarkType' /\ JsonType' /\ DiskType' /\ DlType' /\ DelType'
    /\ ResType' /\ ItemType' /\ CountType'
  BY DEF CloudInv, AcctType, MarkType, JsonType, DiskType, DlType, DelType,
      ResType, ItemType, CountType, CreateTask, held, ghost
<1>2. TaskType'
  BY Who DEF CloudInv, TaskType, Status, CreateTask
<1>3. BookType'
  BY Who DEF CloudInv, BookType, CreateTask
<1>4. PcType'
  BY DEF CloudInv, PcType, WorkerStep, RequestStep, CreateTask, SaveThen
<1>5. SaveType'
  BY Who DEF CloudInv, SaveType, WorkerStep, RequestStep, Record, CreateTask,
      SaveThen
<1>6. Places'
  BY Who DEF CloudInv, Places, CreateTask, SaveThen, SaveType, RequestStep
<1>7. Lock'
  BY DEF CloudInv, Lock, Holds, Launching, CreateTask, SaveThen, Idle,
      SaveType
<1>8. AtWork'
  BY DEF CloudInv, AtWork, Holds, Launching, Finished, CreateTask, SaveThen
<1>9. Known'
  BY DEF CloudInv, Known, CreateTask
<1>10. Origins'
  BY DEF CloudInv, Origins, CreateTask, SaveThen, held
<1>11. Sweeping'
  BY DEF CloudInv, Sweeping, CreateTask, SaveThen, held, ghost, Terminal
<1>12. Quiet'
  BY DEF CloudInv, Quiet, CreateTask, ghost
<1>13. Deleting'
  BY DEF CloudInv, Deleting, CreateTask, SaveThen, held, ghost, Origins
<1>14. UsageCovers'
  BY DEF CloudInv, UsageCovers, CreateTask, SaveThen, ghost, Known
<1>15. CloudCovers'
  BY Who DEF CloudInv, CloudCovers, CreateTask, held, ghost, BookType,
      TaskType, DelType
<1> QED  BY <1>1, <1>2, <1>3, <1>4, <1>5, <1>6, <1>7, <1>8, <1>9, <1>10,
    <1>11, <1>12, <1>13, <1>14, <1>15 DEF CloudInv

\* SubmitAndStart takes the running mark of a pending task.
LEMMA SubmitStep ==
    ASSUME CloudInv, Submit
    PROVE  CloudInv'
<1>1. AcctType' /\ JsonType' /\ DiskType' /\ BookType' /\ DlType' /\ DelType'
    /\ ResType' /\ ItemType' /\ CountType'
  BY DEF CloudInv, AcctType, JsonType, DiskType, BookType, DlType, DelType,
      ResType, ItemType, CountType, Submit, books, held
<1>2. TaskType'
  BY DEF CloudInv, TaskType, Submit
<1>3. MarkType'
  BY DEF CloudInv, MarkType, Submit, Meets, Overlaps
<1>4. PcType'
  BY DEF CloudInv, PcType, WorkerStep, RequestStep, Submit, Goto, SaveThen
<1>5. SaveType'
  BY DEF CloudInv, SaveType, WorkerStep, RequestStep, Record, Submit,
      SaveThen
<1>6. Places'
  <2>1. \/ pc'["create"] = "over" /\ save' = save
        \/ pc'["create"] = "save" /\ save'["create"].next = "launch"
    BY Who DEF Submit, SaveThen, Goto, CloudInv, PcType, SaveType
  <2>2. \A b \in Actor \ {"create"} : pc'[b] = pc[b] /\ save'[b] = save[b]
    BY Who DEF Submit, SaveThen, Goto, CloudInv, PcType, SaveType
  <2>3. /\ {"create"} \in SUBSET Actor /\ Places
        /\ "create" \notin Worker /\ "create" \notin Resumer
    BY Who DEF CloudInv
  <2>4. \A a \in {"create"} :
           /\ pc'[a] \in RequestStep /\ a \notin Worker /\ a \notin Resumer
           /\ pc'[a] \in {"save", "write"} => save'[a].next = "launch"
    BY <2>1, <2>3 DEF RequestStep
  <2> QED  BY ONLY <2>2, <2>3, <2>4, PlacesMove
<1>7. Lock'
  BY Who DEF CloudInv, Lock, Holds, Launching, Submit, Goto, SaveThen, PcType,
      SaveType
<1>8. AtWork'
  BY DEF CloudInv, AtWork, Holds, Launching, Finished, Submit, Goto,
      SaveThen, PcType, TaskType
<1>9. Known'
  BY DEF CloudInv, Known, Submit, TaskType
<1>10. Origins'
  BY Who DEF CloudInv, Origins, Submit, Goto, SaveThen, held, TaskType, PcType
<1>11. Sweeping'
  <2>1. pc["sweep"] # "idle" => overlap'
    BY DEF Submit, Meets, Overlaps, CloudInv, Places
  <2>2. pc'["sweep"] = pc["sweep"]
    BY Who DEF Submit, Goto, SaveThen, Arrives, CloudInv, PcType
  <2> QED  BY <2>1, <2>2 DEF Sweeping
<1>12. Quiet'
  BY DEF CloudInv, Quiet, Submit, Meets, Overlaps
<1>13. Deleting'
  BY Who DEF CloudInv, Deleting, Submit, Goto, SaveThen, Meets, Overlaps,
      held, PcType
<1>14. UsageCovers'
  BY Who DEF CloudInv, UsageCovers, Submit, Goto, SaveThen, Meets, Overlaps,
      books, PcType
<1>15. CloudCovers'
  BY DEF CloudInv, CloudCovers, Submit, Meets, Overlaps, books, held,
      TaskType
<1> QED  BY <1>1, <1>2, <1>3, <1>4, <1>5, <1>6, <1>7, <1>8, <1>9, <1>10,
    <1>11, <1>12, <1>13, <1>14, <1>15 DEF CloudInv

\* SubmitAndStart hands the mark to the goroutine it starts.
LEMMA SubmitLaunchStep ==
    ASSUME CloudInv, SubmitLaunch
    PROVE  CloudInv'
<1>1. TaskType' /\ AcctType' /\ MarkType' /\ JsonType' /\ DiskType' /\
    BookType' /\ SaveType' /\ DelType' /\ ResType' /\ ItemType' /\ CountType'
    /\ Known' /\ Quiet' /\ CloudCovers'
  BY DEF CloudInv, TaskType, AcctType, MarkType, JsonType, DiskType,
      BookType, SaveType, DelType, ResType, ItemType, CountType, Known, Quiet,
      CloudCovers, SubmitLaunch, books, held, ghost
<1>2. PcType'
  BY DEF CloudInv, PcType, WorkerStep, RequestStep, SubmitLaunch
<1>3. DlType'
  BY LaunchEffect DEF SubmitLaunch, Ready, CloudInv
<1>4. Places'
  <2>1. PICK v \in Ready : pc' = [pc EXCEPT !["create"] = "over", ![v] =
     "start"]
    BY DEF SubmitLaunch
  <2>2. /\ v \in Worker /\ v # "create" /\ "create" \notin {"delete", "sweep"}
        /\ "create" \in Actor /\ save' = save
        /\ "create" \in Worker => "over" \in WorkerStep
        /\ "create" \in Request => "over" \in RequestStep
    BY <2>1, Who DEF Ready, SubmitLaunch, WorkerStep, RequestStep
  <2>3. CloudInv /\ "over" \notin {"save", "write"}
    OBVIOUS
  <2> QED  BY ONLY <2>1, <2>2, <2>3, LaunchPlaces
<1>5. Lock'
  BY Who DEF CloudInv, Lock, Holds, Launching, SubmitLaunch, Ready, PcType
<1>6. AtWork'
  BY Who DEF CloudInv, AtWork, Holds, Launching, Finished, SubmitLaunch
<1>7. Origins'
  BY Who DEF CloudInv, Origins, SubmitLaunch, Ready, held, PcType
<1>8. Sweeping'
  BY Who DEF CloudInv, Sweeping, SubmitLaunch, Ready, held, ghost, PcType
<1>9. Deleting'
  BY Who DEF CloudInv, Deleting, SubmitLaunch, Ready, held, ghost, PcType
<1>10. UsageCovers'
  BY Who DEF CloudInv, UsageCovers, SubmitLaunch, Ready, books, ghost, PcType
<1> QED  BY <1>1, <1>2, <1>3, <1>4, <1>5, <1>6, <1>7, <1>8, <1>9, <1>10 DEF
    CloudInv

\* The goroutine registers its cancel function.
LEMMA RegisterStep ==
    ASSUME CloudInv, NEW w \in Worker, Register(w)
    PROVE  CloudInv'
<1>1. TaskType' /\ AcctType' /\ JsonType' /\ DiskType' /\ BookType' /\
    SaveType' /\ DlType' /\ DelType' /\ ResType' /\ ItemType' /\ CountType' /\
    Known' /\ CloudCovers'
  BY DEF CloudInv, TaskType, AcctType, JsonType, DiskType, BookType,
      SaveType, DlType, DelType, ResType, ItemType, CountType, Known,
      CloudCovers, Register, books, held, ghost
<1>2. MarkType'
  BY DEF CloudInv, MarkType, Register, ghost
<1>3. PcType'
  BY DEF CloudInv, PcType, WorkerStep, RequestStep, Register, Goto
<1>4. Places'
  BY Who DEF CloudInv, Places, Register, Goto, WorkerStep
<1>5. Lock'
  BY Who DEF CloudInv, Lock, Holds, Launching, Register, Goto
<1>6. AtWork'
  BY DEF CloudInv, AtWork, Holds, Launching, Finished, Register, Goto
<1>7. Origins'
  BY DEF CloudInv, Origins, Register, Goto, held
<1>8. Sweeping'
  BY Who DEF CloudInv, Sweeping, Register, Goto, held, ghost, Lock, Holds
<1>9. Quiet'
  BY DEF CloudInv, Quiet, Register, ghost
<1>10. Deleting'
  BY DEF CloudInv, Deleting, Register, Goto, held, ghost
<1>11. UsageCovers'
  BY Who DEF CloudInv, UsageCovers, Register, Goto, books, ghost, Lock, Holds
<1> QED  BY <1>1, <1>2, <1>3, <1>4, <1>5, <1>6, <1>7, <1>8, <1>9, <1>10, <1>11
    DEF CloudInv

\* The goroutine leaves a cancelled task alone.
LEMMA GuardStep ==
    ASSUME CloudInv, NEW w \in Worker, Guard(w)
    PROVE  CloudInv'
<1>1. TaskType' /\ AcctType' /\ MarkType' /\ JsonType' /\ DiskType' /\
    BookType' /\ SaveType' /\ DlType' /\ DelType' /\ ResType' /\ ItemType' /\
    CountType' /\ Known' /\ Quiet' /\ CloudCovers'
  BY DEF CloudInv, TaskType, AcctType, MarkType, JsonType, DiskType,
      BookType, SaveType, DlType, DelType, ResType, ItemType, CountType,
      Known, Quiet, CloudCovers, Guard, books, held, ghost
<1>2. PcType'
  BY DEF CloudInv, PcType, WorkerStep, RequestStep, Guard, Goto
<1>3. Places'
  BY Who DEF CloudInv, Places, Guard, Goto, WorkerStep
<1>4. Lock'
  BY DEF CloudInv, Lock, Holds, Launching, Guard, Goto
<1>5. AtWork'
  BY DEF CloudInv, AtWork, Holds, Launching, Finished, Guard, Goto
<1>6. Origins'
  BY DEF CloudInv, Origins, Guard, Goto, held
<1>7. Sweeping'
  BY DEF CloudInv, Sweeping, Guard, Goto, held, ghost
<1>8. Deleting'
  BY DEF CloudInv, Deleting, Guard, Goto, held, ghost
<1>9. UsageCovers'
  BY DEF CloudInv, UsageCovers, Guard, Goto, books, ghost
<1> QED  BY <1>1, <1>2, <1>3, <1>4, <1>5, <1>6, <1>7, <1>8, <1>9 DEF CloudInv

\* The goroutine makes the directory, or the tenant has gone.
LEMMA MakeDirStep ==
    ASSUME CloudInv, NEW w \in Worker, MakeDir(w)
    PROVE  CloudInv'
<1>1. TaskType' /\ AcctType' /\ MarkType' /\ JsonType' /\ BookType' /\
    SaveType' /\ DlType' /\ DelType' /\ ResType' /\ ItemType' /\ CountType' /\
    Known' /\ Quiet' /\ CloudCovers'
  BY DEF CloudInv, TaskType, AcctType, MarkType, JsonType, BookType,
      SaveType, DlType, DelType, ResType, ItemType, CountType, Known, Quiet,
      CloudCovers, MakeDir, books, held, ghost
<1>2. DiskType'
  BY DEF CloudInv, DiskType, MakeDir
<1>3. PcType'
  BY DEF CloudInv, PcType, WorkerStep, RequestStep, MakeDir, Goto
<1>4. Places'
  <2>1. PICK p \in {"final", "loop", "fail"} : Goto(w, p)
    BY DEF MakeDir
  <2>2. p \in WorkerStep /\ p \notin {"unused", "over", "save", "write"}
    BY DEF WorkerStep
  <2>3. /\ pc[w] \notin {"unused", "over"}
        /\ save' = save /\ running' = running
    BY DEF MakeDir
  <2> QED  BY <2>1, <2>2, <2>3, WorkerMoves
<1>5. Lock'
  BY DEF CloudInv, Lock, Holds, Launching, MakeDir, Goto, PcType
<1>6. AtWork'
  BY Who DEF CloudInv, AtWork, Holds, Launching, Finished, MakeDir, Goto
<1>7. Origins'
  BY Who DEF CloudInv, Origins, MakeDir, Goto, held, PcType
<1>8. Sweeping'
  BY Who DEF CloudInv, Sweeping, MakeDir, Goto, held, ghost, PcType
<1>9. Deleting'
  BY Who DEF CloudInv, Deleting, MakeDir, Goto, held, ghost, PcType
<1>10. UsageCovers'
  BY Who DEF CloudInv, UsageCovers, MakeDir, Goto, books, ghost, PcType
<1> QED  BY <1>1, <1>2, <1>3, <1>4, <1>5, <1>6, <1>7, <1>8, <1>9, <1>10 DEF
    CloudInv

\* The retry loop ends, or the task is marked downloading.
LEMMA TryAttemptStep ==
    ASSUME CloudInv, NEW w \in Worker, TryAttempt(w)
    PROVE  CloudInv'
<1>1. AcctType' /\ MarkType' /\ JsonType' /\ DiskType' /\ BookType' /\
    DelType' /\ ResType' /\ ItemType' /\ CountType'
  BY DEF CloudInv, AcctType, MarkType, JsonType, DiskType, BookType, DelType,
      ResType, ItemType, CountType, TryAttempt, books, held, ghost
<1>2. TaskType'
  BY DEF CloudInv, TaskType, Status, TryAttempt, MarkDownloading
<1>3. PcType'
  BY DEF CloudInv, PcType, WorkerStep, RequestStep, TryAttempt, Goto,
      MarkDownloading, SaveThen
<1>4. SaveType'
  BY DEF CloudInv, SaveType, WorkerStep, RequestStep, Record, TryAttempt,
      MarkDownloading, SaveThen
<1>5. DlType'
  <2>1. CASE dl' = [dl EXCEPT ![w].err = TRUE]
    BY <2>1 DEF CloudInv, DlType, Session
  <2>2. CASE dl' = [dl EXCEPT ![w].tries = @ + 1]
    BY <2>2 DEF CloudInv, DlType, Session
  <2>3. CASE dl' = [dl EXCEPT ![w].err = dl[w].cancelled]
    BY <2>3 DEF CloudInv, DlType, Session
  <2> QED  BY <2>1, <2>2, <2>3 DEF TryAttempt, MarkDownloading
<1>6. Places'
  <2>1. pc[w] \notin {"unused", "over"} /\ running' = running
    BY DEF TryAttempt
  <2>2. CASE Goto(w, "done") /\ save' = save
    BY <2>1, <2>2, WorkerMoves DEF WorkerStep
  <2>3. CASE SaveThen(w, "get")
    BY <2>1, <2>3, WorkerSaves
  <2> QED  BY <2>2, <2>3 DEF TryAttempt, MarkDownloading
<1>7. Lock'
  BY Who DEF CloudInv, Lock, Holds, Launching, TryAttempt, Goto,
      MarkDownloading, SaveThen, PcType, SaveType
<1>8. AtWork'
  BY Who DEF CloudInv, AtWork, Holds, Launching, Finished, TryAttempt, Goto,
      MarkDownloading, SaveThen, TaskType
<1>9. Known'
  BY DEF CloudInv, Known, TryAttempt, MarkDownloading, TaskType
<1>10. Origins'
  BY Who DEF CloudInv, Origins, TryAttempt, Goto, MarkDownloading, SaveThen,
      held, TaskType, PcType
<1>11. Sweeping'
  BY Who DEF CloudInv, Sweeping, TryAttempt, Goto, MarkDownloading, SaveThen,
      held, ghost, PcType, Lock, Holds
<1>12. Quiet'
  BY DEF CloudInv, Quiet, TryAttempt, MarkDownloading, ghost, TaskType
<1>13. Deleting'
  BY Who DEF CloudInv, Deleting, TryAttempt, Goto, MarkDownloading, SaveThen,
      held, ghost, PcType
<1>14. UsageCovers'
  BY Who DEF CloudInv, UsageCovers, TryAttempt, Goto, MarkDownloading,
      SaveThen, books, ghost, PcType
<1>15. CloudCovers'
  BY DEF CloudInv, CloudCovers, TryAttempt, MarkDownloading, books, held,
      ghost, TaskType
<1> QED  BY <1>1, <1>2, <1>3, <1>4, <1>5, <1>6, <1>7, <1>8, <1>9, <1>10,
    <1>11, <1>12, <1>13, <1>14, <1>15 DEF CloudInv

\* The size of the partial file is read.
LEMMA SendGetStep ==
    ASSUME CloudInv, NEW w \in Worker, SendGet(w)
    PROVE  CloudInv'
<1>1. TaskType' /\ AcctType' /\ MarkType' /\ JsonType' /\ DiskType' /\
    BookType' /\ SaveType' /\ DelType' /\ ResType' /\ ItemType' /\ CountType'
    /\ Known' /\ Quiet' /\ CloudCovers'
  BY DEF CloudInv, TaskType, AcctType, MarkType, JsonType, DiskType,
      BookType, SaveType, DelType, ResType, ItemType, CountType, Known, Quiet,
      CloudCovers, SendGet, books, held, ghost
<1>2. PcType'
  BY DEF CloudInv, PcType, WorkerStep, RequestStep, SendGet, Goto
<1>3. DlType'
  BY DEF CloudInv, DlType, Session, SendGet, DiskType
<1>4. Places'
  BY Who DEF CloudInv, Places, SendGet, Goto, WorkerStep
<1>5. Lock'
  BY DEF CloudInv, Lock, Holds, Launching, SendGet, Goto
<1>6. AtWork'
  BY DEF CloudInv, AtWork, Holds, Launching, Finished, SendGet, Goto
<1>7. Origins'
  BY DEF CloudInv, Origins, SendGet, Goto, held
<1>8. Sweeping'
  BY DEF CloudInv, Sweeping, SendGet, Goto, held, ghost
<1>9. Deleting'
  BY DEF CloudInv, Deleting, SendGet, Goto, held, ghost
<1>10. UsageCovers'
  BY DEF CloudInv, UsageCovers, SendGet, Goto, books, ghost
<1> QED  BY <1>1, <1>2, <1>3, <1>4, <1>5, <1>6, <1>7, <1>8, <1>9, <1>10 DEF
    CloudInv

\* The sink opens the account, or uses the open one.
LEMMA OpenPartialStep ==
    ASSUME CloudInv, NEW w \in Worker, OpenPartial(w)
    PROVE  CloudInv'
<1>k. task.status # "none"
  BY Who DEF CloudInv, AtWork, Holds, Launching, OpenPartial
<1>n. /\ FileSize \in Nat
      /\ (dl[w].old \in 1..(FileSize - 1) => FileSize - dl[w].old \in Nat)
  BY Who
<1>a. AcctType' /\ usage' \in Int
  BY <1>n, OpenSinkEffect DEF OpenPartial, CloudInv
<1>1. TaskType' /\ MarkType' /\ JsonType' /\ SaveType' /\ DelType' /\ ResType'
    /\ ItemType' /\ CountType' /\ CloudCovers'
  BY DEF CloudInv, TaskType, MarkType, JsonType, SaveType, DelType, ResType,
      ItemType, CountType, CloudCovers, OpenPartial, held, ghost
<1>2. AcctType'
  BY <1>a
<1>3. DiskType'
  <2>1. DiskType
    BY DEF CloudInv
  <2>2. CASE disk' = disk
    BY <2>1, <2>2 DEF DiskType
  <2>3. CASE disk' = [disk EXCEPT !.dir = TRUE, !.partial = 0]
    <3>1. disk' = [dir |-> TRUE, partial |-> 0, dest |-> disk.dest]
      BY <2>1, <2>3, DiskIs
    <3> QED  BY <2>1, <3>1, DiskIs DEF DiskType
  <2> QED  BY <2>2, <2>3 DEF OpenPartial
<1>4. BookType'
  BY Who DEF CloudInv, BookType, OpenPartial, OpenSink
<1>5. PcType'
  BY DEF CloudInv, PcType, WorkerStep, RequestStep, OpenPartial, Goto
<1>6. DlType'
  BY Who DEF CloudInv, DlType, Session, OpenPartial
<1>7. Places'
  BY Who DEF CloudInv, Places, OpenPartial, Goto, WorkerStep
<1>8. Lock'
  BY DEF CloudInv, Lock, Holds, Launching, OpenPartial, Goto
<1>9. AtWork'
  BY DEF CloudInv, AtWork, Holds, Launching, Finished, OpenPartial, Goto
<1>10. Known'
  BY <1>k DEF Known, OpenPartial
<1>11. Origins'
  BY DEF CloudInv, Origins, OpenPartial, Goto, held
<1>12. Sweeping'
  BY Who DEF CloudInv, Sweeping, OpenPartial, Goto, OpenSink, held, ghost,
      Lock, Holds
<1>13. Quiet'
  BY Who DEF CloudInv, Quiet, OpenPartial, OpenSink, ghost, Lock, Holds
<1>14. Deleting'
  BY DEF CloudInv, Deleting, OpenPartial, Goto, held, ghost
<1>15. UsageCovers'
  BY Who DEF CloudInv, UsageCovers, OpenPartial, Goto, OpenSink, ghost,
      BookType
<1> QED  BY <1>1, <1>2, <1>3, <1>4, <1>5, <1>6, <1>7, <1>8, <1>9, <1>10,
    <1>11, <1>12, <1>13, <1>14, <1>15 DEF CloudInv

\* A complete partial file is renamed without a sink.
LEMMA FinalizePartialStep ==
    ASSUME CloudInv, NEW w \in Worker, FinalizePartial(w)
    PROVE  CloudInv'
<1>1. TaskType' /\ AcctType' /\ MarkType' /\ JsonType' /\ BookType' /\
    SaveType' /\ DelType' /\ ResType' /\ ItemType' /\ CountType' /\ Known' /\
    Quiet' /\ CloudCovers'
  BY DEF CloudInv, TaskType, AcctType, MarkType, JsonType, BookType,
      SaveType, DelType, ResType, ItemType, CountType, Known, Quiet,
      CloudCovers, FinalizePartial, books, held, ghost
<1>2. DiskType'
  <2>1. DiskType
    BY DEF CloudInv
  <2>2. disk' = [dir |-> disk.dir, partial |-> 0, dest |-> FileSize]
    BY <2>1, DiskIs DEF FinalizePartial
  <2> QED  BY <2>1, <2>2, DiskIs DEF DiskType
<1>3. PcType'
  BY DEF CloudInv, PcType, WorkerStep, RequestStep, FinalizePartial, Goto
<1>4. DlType'
  BY ClosedEffect DEF FinalizePartial, CloudInv
<1>5. Places'
  BY Who DEF CloudInv, Places, FinalizePartial, Goto, WorkerStep
<1>6. Lock'
  BY DEF CloudInv, Lock, Holds, Launching, FinalizePartial, Goto
<1>7. AtWork'
  BY DEF CloudInv, AtWork, Holds, Launching, Finished, FinalizePartial, Goto
<1>8. Origins'
  BY DEF CloudInv, Origins, FinalizePartial, Goto, held
<1>9. Sweeping'
  BY DEF CloudInv, Sweeping, FinalizePartial, Goto, held, ghost
<1>10. Deleting'
  BY DEF CloudInv, Deleting, FinalizePartial, Goto, held, ghost
<1>11. UsageCovers'
  BY DEF CloudInv, UsageCovers, FinalizePartial, Goto, books, ghost
<1> QED  BY <1>1, <1>2, <1>3, <1>4, <1>5, <1>6, <1>7, <1>8, <1>9, <1>10, <1>11
    DEF CloudInv

\* A block is booked and written.
LEMMA WriteBlockStep ==
    ASSUME CloudInv, NEW w \in Worker, WriteBlock(w)
    PROVE  CloudInv'
<1>k. task.status # "none"
  BY Who DEF CloudInv, AtWork, Holds, Launching, WriteBlock
<1>1. TaskType' /\ JsonType' /\ PcType' /\ SaveType' /\ DelType' /\ ResType'
    /\ ItemType' /\ CountType' /\ Places' /\ Lock' /\ AtWork' /\ Origins' /\
    Deleting' /\ CloudCovers'
  BY DEF CloudInv, TaskType, JsonType, PcType, SaveType, DelType, ResType,
      ItemType, CountType, Places, Lock, Holds, Launching, AtWork, Finished,
      Origins, Deleting, CloudCovers, WriteBlock, held, ghost
<1>2. AcctType'
  <2>1. /\ acct.open \in BOOLEAN /\ acct.com \in Nat /\ acct.res \in Nat
        /\ AcctType
    BY AcctIs DEF CloudInv
  <2> DEFINE n == IF acct.res > 0 THEN acct.res - 1 ELSE 0
  <2>2. acct' = [open |-> acct.open, com |-> acct.com + 1, res |-> n]
    BY <2>1 DEF WriteBlock, AcctType
  <2>3. n \in Nat
    BY <2>1
  <2> HIDE DEF n
  <2> QED  BY <2>1, <2>2, <2>3 DEF AcctType
<1>3. MarkType'
  BY DEF CloudInv, MarkType, WriteBlock, ghost
<1>4. DiskType'
  BY Who DEF CloudInv, DiskType, WriteBlock, DlType, Session
<1>5. BookType'
  BY DEF CloudInv, BookType, WriteBlock
<1>6. DlType'
  BY Who DEF CloudInv, DlType, Session, WriteBlock
<1>7. Known'
  BY <1>k DEF Known, WriteBlock
<1>8. Sweeping'
  BY DEF CloudInv, Sweeping, WriteBlock, held, ghost, AcctType, ItemType
<1>9. Quiet'
  BY DEF CloudInv, Quiet, WriteBlock, ghost
<1>10. UsageCovers'
  BY DEF CloudInv, UsageCovers, WriteBlock, ghost, BookType, AcctType
<1> QED  BY <1>1, <1>2, <1>3, <1>4, <1>5, <1>6, <1>7, <1>8, <1>9, <1>10 DEF
    CloudInv

\* A block is booked and not written.
LEMMA WriteFailsStep ==
    ASSUME CloudInv, NEW w \in Worker, WriteFails(w)
    PROVE  CloudInv'
<1>k. task.status # "none"
  BY Who DEF CloudInv, AtWork, Holds, Launching, WriteFails
<1>1. TaskType' /\ MarkType' /\ JsonType' /\ DiskType' /\ SaveType' /\
    DelType' /\ ResType' /\ ItemType' /\ CloudCovers'
  BY DEF CloudInv, TaskType, MarkType, JsonType, DiskType, SaveType, DelType,
      ResType, ItemType, CloudCovers, WriteFails, held, ghost
<1>2. AcctType'
  <2>1. /\ acct.open \in BOOLEAN /\ acct.com \in Nat /\ acct.res \in Nat
        /\ AcctType
    BY AcctIs DEF CloudInv
  <2>2. acct' = [open |-> acct.open, com |-> acct.com + 1, res |-> 0]
    BY <2>1 DEF WriteFails, AcctType
  <2> QED  BY <2>1, <2>2 DEF AcctType
<1>3. BookType'
  BY DEF CloudInv, BookType, WriteFails, AcctType
<1>4. PcType'
  BY DEF CloudInv, PcType, WorkerStep, RequestStep, WriteFails, Goto
<1>5. DlType'
  BY ClosedEffect DEF WriteFails, CloudInv
<1>6. CountType'
  BY Who DEF CloudInv, CountType, WriteFails, Fault
<1>7. Places'
  BY Who DEF CloudInv, Places, WriteFails, Goto, WorkerStep
<1>8. Lock'
  BY DEF CloudInv, Lock, Holds, Launching, WriteFails, Goto
<1>9. AtWork'
  BY DEF CloudInv, AtWork, Holds, Launching, Finished, WriteFails, Goto
<1>10. Known'
  BY <1>k DEF Known, WriteFails
<1>11. Origins'
  BY DEF CloudInv, Origins, WriteFails, Goto, held
<1>12. Sweeping'
  BY DEF CloudInv, Sweeping, WriteFails, Goto, held, ghost, AcctType,
      ItemType
<1>13. Quiet'
  BY DEF CloudInv, Quiet, WriteFails, ghost
<1>14. Deleting'
  BY DEF CloudInv, Deleting, WriteFails, Goto, held, ghost
<1>15. UsageCovers'
  BY Who DEF CloudInv, UsageCovers, WriteFails, Goto, ghost, BookType,
      AcctType, Lock, Holds
<1> QED  BY <1>1, <1>2, <1>3, <1>4, <1>5, <1>6, <1>7, <1>8, <1>9, <1>10,
    <1>11, <1>12, <1>13, <1>14, <1>15 DEF CloudInv

\* A failed attempt gives back the reserve of its sink.
LEMMA AttemptFailsStep ==
    ASSUME CloudInv, NEW w \in Worker, AttemptFails(w)
    PROVE  CloudInv'
<1>k. task.status # "none"
  BY Who DEF CloudInv, AtWork, Holds, Launching, AttemptFails
<1>a. /\ AcctType' /\ usage' \in Int
      /\ \/ acct' = acct /\ usage' = usage
         \/ /\ acct'.res = 0 /\ acct'.com <= acct.com
            /\ usage' - acct'.com = usage - acct.com - acct.res
  <2>1. AcctType /\ BookType /\ 0 \in Nat
    BY DEF CloudInv
  <2>2. CASE Settle(0)
    BY <2>1, <2>2, SettleEffect
  <2>3. CASE UNCHANGED <<acct, usage>>
    BY <2>1, <2>3 DEF AcctType, BookType
  <2> QED  BY <2>2, <2>3 DEF AttemptFails
<1>d. DiskType'
  <2>1. DiskType
    BY DEF CloudInv
  <2>2. \/ disk' = disk
        \/ disk' = [disk EXCEPT !.partial = 0]
        \/ disk' = [disk EXCEPT !.dir = TRUE, !.partial = 0]
    BY DEF AttemptFails, Discards
  <2>3. \E b \in BOOLEAN, n \in 0..FileSize :
           disk' = [dir |-> b, partial |-> n, dest |-> disk.dest]
    BY <2>1, <2>2, DiskIs
  <2> QED  BY <2>1, <2>3, DiskIs DEF DiskType
<1>1. TaskType' /\ MarkType' /\ JsonType' /\ SaveType' /\
    DelType' /\ ResType' /\ ItemType' /\ CountType' /\ CloudCovers'
  BY DEF CloudInv, TaskType, MarkType, JsonType, SaveType, DelType, ResType, ItemType, CountType, CloudCovers, AttemptFails, held, ghost
<1>2. AcctType'
  BY <1>a
<1>3. BookType'
  BY DEF CloudInv, BookType, AttemptFails, Settle, Least, Closed, AcctType
<1>4. PcType'
  BY DEF CloudInv, PcType, WorkerStep, RequestStep, AttemptFails, Goto
<1>5. DlType'
  BY ClosedEffect DEF AttemptFails, CloudInv
<1>6. Places'
  BY Who DEF CloudInv, Places, AttemptFails, Goto, WorkerStep
<1>7. Lock'
  BY DEF CloudInv, Lock, Holds, Launching, AttemptFails, Goto
<1>8. AtWork'
  BY DEF CloudInv, AtWork, Holds, Launching, Finished, AttemptFails, Goto
<1>9. Known'
  BY <1>k DEF Known, AttemptFails
<1>10. Origins'
  BY DEF CloudInv, Origins, AttemptFails, Goto, held
<1>11. Sweeping'
  BY Who DEF CloudInv, Sweeping, AttemptFails, Goto, Settle, held, ghost,
      Lock, Holds
<1>12. Quiet'
  BY DEF CloudInv, Quiet, AttemptFails, Settle, ghost, AcctType
<1>13. Deleting'
  BY DEF CloudInv, Deleting, AttemptFails, Goto, held, ghost
<1>14. UsageCovers'
  <2>1. /\ usage \in Int /\ acct.com \in Nat /\ acct.res \in Nat
        /\ acct'.com \in Nat /\ acct'.res \in Nat /\ usage' \in Int
    BY <1>a, AcctIs DEF CloudInv, AcctType, BookType
  <2>2. /\ overlap' = overlap /\ task'.in = task.in /\ running' = running
        /\ pc'["delete"] = pc["delete"]
    BY Who DEF AttemptFails, Goto, SaveThen, Settle, ghost, CloudInv, PcType
  <2>3. CASE overlap
    BY <2>2, <2>3 DEF UsageCovers
  <2>4. CASE ~overlap
    <3>1. running /\ usage >= acct.com + acct.res
      BY <2>4, Who DEF CloudInv, UsageCovers, Lock, Holds, AttemptFails
    <3>2. usage' >= acct'.com + acct'.res /\ usage' >= 0
      BY ONLY <1>a, <2>1, <3>1
    <3> QED  BY <3>2 DEF UsageCovers
  <2> QED  BY <2>3, <2>4
<1> QED  BY <1>d, <1>1, <1>2, <1>3, <1>4, <1>5, <1>6, <1>7, <1>8, <1>9, <1>10,
    <1>11, <1>12, <1>13, <1>14 DEF CloudInv

\* The file lands, and what it replaced is given back.
LEMMA LandFileStep ==
    ASSUME CloudInv, NEW w \in Worker, LandFile(w)
    PROVE  CloudInv'
<1>k. task.status # "none"
  BY Who DEF CloudInv, AtWork, Holds, Launching, LandFile
<1>a. /\ AcctType' /\ usage' \in Int
      /\ \/ acct' = acct /\ usage' = usage
         \/ /\ acct'.res = 0 /\ acct'.com <= acct.com
            /\ usage' - acct'.com = usage - acct.com - acct.res
  <2>1. AcctType /\ BookType /\ 0 \in Nat /\ dl[w].old \in Nat
    BY DEF CloudInv, DlType, Session
  <2>2. Settle(0) \/ Settle(dl[w].old)
    BY DEF LandFile
  <2> QED  BY <2>1, <2>2, SettleEffect
<1>1. TaskType' /\ MarkType' /\ JsonType' /\ SaveType' /\ DelType' /\ ResType'
    /\ ItemType' /\ CountType' /\ CloudCovers'
  BY DEF CloudInv, TaskType, MarkType, JsonType, SaveType, DelType, ResType,
      ItemType, CountType, CloudCovers, LandFile, held, ghost
<1>2. AcctType'
  BY <1>a
<1>3. DiskType'
  <2>1. DiskType
    BY DEF CloudInv
  <2>2. CASE disk' = [disk EXCEPT !.dest = 0]
    <3>1. disk' = [dir |-> disk.dir, partial |-> disk.partial, dest |-> 0]
      BY <2>1, <2>2, DiskIs
    <3> QED  BY <2>1, <3>1, DiskIs DEF DiskType
  <2>3. CASE disk' = [disk EXCEPT !.dest = FileSize, !.partial = 0]
    <3>1. disk' = [dir |-> disk.dir, partial |-> 0, dest |-> FileSize]
      BY <2>1, <2>3, DiskIs
    <3> QED  BY <2>1, <3>1, DiskIs DEF DiskType
  <2> QED  BY <2>2, <2>3 DEF LandFile
<1>4. BookType'
  BY DEF CloudInv, BookType, LandFile, Settle, Least, Closed, AcctType,
      DlType, Session
<1>5. PcType'
  BY DEF CloudInv, PcType, WorkerStep, RequestStep, LandFile, Goto
<1>6. DlType'
  BY ClosedEffect DEF LandFile, CloudInv
<1>7. Places'
  <2>1. PICK p \in {"ended", "check"} : Goto(w, p)
    BY DEF LandFile
  <2>2. p \in WorkerStep /\ p \notin {"unused", "over", "save", "write"}
    BY DEF WorkerStep
  <2>3. /\ pc[w] \notin {"unused", "over"}
        /\ save' = save /\ running' = running
    BY DEF LandFile
  <2> QED  BY <2>1, <2>2, <2>3, WorkerMoves
<1>8. Lock'
  BY DEF CloudInv, Lock, Holds, Launching, LandFile, Goto, Closed, PcType
<1>9. AtWork'
  BY Who DEF CloudInv, AtWork, Holds, Launching, Finished, LandFile, Goto
<1>10. Known'
  BY <1>k DEF Known, LandFile
<1>11. Origins'
  BY Who DEF CloudInv, Origins, LandFile, Goto, held, PcType
<1>12. Sweeping'
  BY Who DEF CloudInv, Sweeping, LandFile, Goto, Settle, held, ghost, PcType,
      Lock, Holds
<1>13. Quiet'
  BY DEF CloudInv, Quiet, LandFile, Settle, ghost, AcctType
<1>14. Deleting'
  BY Who DEF CloudInv, Deleting, LandFile, Goto, held, ghost, PcType
<1>15. UsageCovers'
  <2>1. /\ usage \in Int /\ acct.com \in Nat /\ acct.res \in Nat
        /\ acct'.com \in Nat /\ acct'.res \in Nat /\ usage' \in Int
    BY <1>a, AcctIs DEF CloudInv, AcctType, BookType
  <2>2. /\ overlap' = overlap /\ task'.in = task.in /\ running' = running
        /\ pc'["delete"] = pc["delete"]
    BY Who DEF LandFile, Goto, SaveThen, Settle, ghost, CloudInv, PcType
  <2>3. CASE overlap
    BY <2>2, <2>3 DEF UsageCovers
  <2>4. CASE ~overlap
    <3>1. running /\ usage >= acct.com + acct.res
      BY <2>4, Who DEF CloudInv, UsageCovers, Lock, Holds, LandFile
    <3>2. usage' >= acct'.com + acct'.res /\ usage' >= 0
      BY ONLY <1>a, <2>1, <3>1
    <3> QED  BY <3>2 DEF UsageCovers
  <2> QED  BY <2>3, <2>4
<1> QED  BY <1>1, <1>2, <1>3, <1>4, <1>5, <1>6, <1>7, <1>8, <1>9, <1>10,
    <1>11, <1>12, <1>13, <1>14, <1>15 DEF CloudInv

\* A failed attempt is tried again or is the last.
LEMMA RetryStep ==
    ASSUME CloudInv, NEW w \in Worker, Retry(w)
    PROVE  CloudInv'
<1>1. TaskType' /\ AcctType' /\ MarkType' /\ JsonType' /\ DiskType' /\
    BookType' /\ SaveType' /\ DlType' /\ DelType' /\ ResType' /\ ItemType' /\
    CountType' /\ Known' /\ Quiet' /\ CloudCovers'
  BY DEF CloudInv, TaskType, AcctType, MarkType, JsonType, DiskType,
      BookType, SaveType, DlType, DelType, ResType, ItemType, CountType,
      Known, Quiet, CloudCovers, Retry, books, held, ghost
<1>2. PcType'
  BY DEF CloudInv, PcType, WorkerStep, RequestStep, Retry, Goto
<1>3. Places'
  <2>1. PICK p \in {"loop", "done"} : Goto(w, p)
    BY DEF Retry
  <2>2. p \in WorkerStep /\ p \notin {"unused", "over", "save", "write"}
    BY DEF WorkerStep
  <2>3. /\ pc[w] \notin {"unused", "over"}
        /\ save' = save /\ running' = running
    BY DEF Retry
  <2> QED  BY <2>1, <2>2, <2>3, WorkerMoves
<1>4. Lock'
  BY DEF CloudInv, Lock, Holds, Launching, Retry, Goto, PcType
<1>5. AtWork'
  BY Who DEF CloudInv, AtWork, Holds, Launching, Finished, Retry, Goto
<1>6. Origins'
  BY Who DEF CloudInv, Origins, Retry, Goto, held, PcType
<1>7. Sweeping'
  BY Who DEF CloudInv, Sweeping, Retry, Goto, held, ghost, PcType
<1>8. Deleting'
  BY Who DEF CloudInv, Deleting, Retry, Goto, held, ghost, PcType
<1>9. UsageCovers'
  BY Who DEF CloudInv, UsageCovers, Retry, Goto, books, ghost, PcType
<1> QED  BY <1>1, <1>2, <1>3, <1>4, <1>5, <1>6, <1>7, <1>8, <1>9 DEF CloudInv

\* The integrity check passes or blocks the file.
LEMMA CheckDoneStep ==
    ASSUME CloudInv, NEW w \in Worker, CheckDone(w)
    PROVE  CloudInv'
<1>1. AcctType' /\ MarkType' /\ JsonType' /\ DiskType' /\ BookType' /\
    SaveType' /\ DelType' /\ ResType' /\ ItemType' /\ CountType'
  BY DEF CloudInv, AcctType, MarkType, JsonType, DiskType, BookType,
      SaveType, DelType, ResType, ItemType, CountType, CheckDone, books, held,
      ghost
<1>2. TaskType'
  <2>1. task' = task \/ task' = [task EXCEPT !.damaged = TRUE]
    BY DEF CheckDone
  <2> QED  BY <2>1 DEF CloudInv, TaskType
<1>3. PcType'
  BY DEF CloudInv, PcType, WorkerStep, RequestStep, CheckDone, Goto
<1>4. DlType'
  <2>1. PICK b \in BOOLEAN : dl' = [dl EXCEPT ![w].err = b]
    BY DEF CheckDone
  <2> QED  BY <2>1 DEF CloudInv, DlType, Session
<1>5. Places'
  BY Who DEF CloudInv, Places, CheckDone, Goto, WorkerStep
<1>6. Lock'
  BY DEF CloudInv, Lock, Holds, Launching, CheckDone, Goto
<1>7. AtWork'
  BY DEF CloudInv, AtWork, Holds, Launching, Finished, CheckDone, Goto
<1>8. Known'
  BY DEF CloudInv, Known, CheckDone
<1>9. Origins'
  BY DEF CloudInv, Origins, CheckDone, Goto, held
<1>10. Sweeping'
  BY DEF CloudInv, Sweeping, CheckDone, Goto, held, ghost
<1>11. Quiet'
  BY DEF CloudInv, Quiet, CheckDone, ghost
<1>12. Deleting'
  BY DEF CloudInv, Deleting, CheckDone, Goto, held, ghost
<1>13. UsageCovers'
  BY DEF CloudInv, UsageCovers, CheckDone, Goto, books, ghost
<1>14. CloudCovers'
  BY DEF CloudInv, CloudCovers, CheckDone, books, held, ghost
<1> QED  BY <1>1, <1>2, <1>3, <1>4, <1>5, <1>6, <1>7, <1>8, <1>9, <1>10,
    <1>11, <1>12, <1>13, <1>14 DEF CloudInv

\* The integrity check gives the bytes back to both ledgers.
LEMMA CheckRetryStep ==
    ASSUME CloudInv, NEW w \in Worker, CheckRetry(w)
    PROVE  CloudInv'
<1>k. task.status # "none"
  BY Who DEF CloudInv, AtWork, Holds, Launching, CheckRetry
<1>a. \E n, k \in Nat :
         /\ n <= task.reserved /\ k <= acct.com
         /\ cloud' = cloud - n /\ usage' = usage - k
         /\ task'.in = task.in /\ task'.status = task.status
         /\ task'.reserved = task.reserved - n
         /\ acct'.open = acct.open /\ acct'.res = acct.res
         /\ acct'.com = acct.com - k
  <2> DEFINE n == Least(task.reserved, disk.dest)
             k == IF acct.open THEN Least(disk.dest, acct.com) ELSE 0
  <2>1. TaskType /\ AcctType /\ DiskType
    BY DEF CloudInv
  <2>2. /\ task.reserved \in Nat /\ disk.dest \in Nat /\ acct.com \in Nat
        /\ acct.res \in Nat
    BY <2>1, TaskIs, AcctIs, DiskIs
  <2>3. n \in Nat /\ n <= task.reserved
    BY <2>2 DEF Least
  <2>4. k \in Nat /\ k <= acct.com
    BY <2>2 DEF Least
  <2>5. /\ task' = [task EXCEPT !.reserved = task.reserved - n]
        /\ acct' = [acct EXCEPT !.com = acct.com - k]
        /\ cloud' = cloud - n /\ usage' = usage - k
    BY DEF CheckRetry
  <2> HIDE DEF n, k
  <2>6. /\ task'.in = task.in /\ task'.status = task.status
        /\ task'.reserved = task.reserved - n
        /\ acct'.open = acct.open /\ acct'.res = acct.res
        /\ acct'.com = acct.com - k
    BY <2>1, <2>5 DEF TaskType, AcctType
  <2> QED  BY <2>3, <2>4, <2>5, <2>6
<1>1. MarkType' /\ JsonType' /\ DiskType' /\ SaveType' /\ DlType' /\ DelType'
    /\ ResType' /\ ItemType' /\ CountType'
  BY DEF CloudInv, MarkType, JsonType, DiskType, SaveType, DlType, DelType,
      ResType, ItemType, CountType, CheckRetry, held, ghost
<1>2. TaskType'
  BY DEF CloudInv, TaskType, CheckRetry, Least, DiskType
<1>3. AcctType'
  BY DEF CloudInv, AcctType, CheckRetry, Least, DiskType
<1>4. BookType'
  BY DEF CloudInv, BookType, CheckRetry, Least, TaskType, AcctType, DiskType
<1>5. PcType'
  BY DEF CloudInv, PcType, WorkerStep, RequestStep, CheckRetry, Goto
<1>6. Places'
  BY Who DEF CloudInv, Places, CheckRetry, Goto, WorkerStep
<1>7. Lock'
  BY DEF CloudInv, Lock, Holds, Launching, CheckRetry, Goto
<1>8. AtWork'
  BY DEF CloudInv, AtWork, Holds, Launching, Finished, CheckRetry, Goto
<1>9. Known'
  BY <1>k, <1>a DEF Known
<1>10. Origins'
  BY DEF CloudInv, Origins, CheckRetry, Goto, held
<1>11. Sweeping'
  BY Who DEF CloudInv, Sweeping, CheckRetry, Goto, held, ghost, Lock, Holds
<1>12. Quiet'
  BY DEF CloudInv, Quiet, CheckRetry, ghost
<1>13. Deleting'
  BY DEF CloudInv, Deleting, CheckRetry, Goto, held, ghost
<1>14. UsageCovers'
  <2>1. /\ overlap' = overlap /\ running' = running
        /\ pc'["delete"] = pc["delete"] /\ UsageCovers /\ running
        /\ usage \in Int /\ acct.com \in Nat /\ acct.res \in Nat
    BY Who, AcctIs
       DEF CheckRetry, Goto, ghost, CloudInv, PcType, Lock, Holds, BookType
  <2>2. PICK k \in Nat : /\ k <= acct.com /\ usage' = usage - k
                         /\ acct'.res = acct.res /\ acct'.com = acct.com - k
                         /\ task'.in = task.in
    BY <1>a
  <2> QED  BY <2>1, <2>2 DEF UsageCovers
<1>15. CloudCovers'
  <2>1. /\ overlap' = overlap /\ del' = del /\ CloudCovers
        /\ cloud \in Int /\ task.reserved \in Nat /\ del.res \in Nat
    BY TaskIs DEF CheckRetry, ghost, held, CloudInv, BookType, DelType
  <2>2. PICK n \in Nat : /\ n <= task.reserved /\ cloud' = cloud - n
                         /\ task'.reserved = task.reserved - n
    BY <1>a
  <2> QED  BY <2>1, <2>2 DEF CloudCovers
<1> QED  BY <1>1, <1>2, <1>3, <1>4, <1>5, <1>6, <1>7, <1>8, <1>9, <1>10,
    <1>11, <1>12, <1>13, <1>14, <1>15 DEF CloudInv

\* The goroutine goes where the download ended.
LEMMA DownloadDoneStep ==
    ASSUME CloudInv, NEW w \in Worker, DownloadDone(w)
    PROVE  CloudInv'
<1>1. TaskType' /\ AcctType' /\ MarkType' /\ JsonType' /\ DiskType' /\
    BookType' /\ SaveType' /\ DelType' /\ ResType' /\ ItemType' /\
    CountType' /\ Known' /\ Quiet' /\ CloudCovers'
  BY DEF CloudInv, TaskType, AcctType, MarkType, JsonType, DiskType,
      BookType, SaveType, DelType, ResType, ItemType, CountType,
      Known, Quiet, CloudCovers, DownloadDone, books, held, ghost
<1>d. DlType'
  <2>1. dl[w] \in Session /\ [dl[w] EXCEPT !.tries = 0] \in Session
    BY DEF CloudInv, DlType, Session
  <2>2. dl' = [dl EXCEPT ![w] = [dl[w] EXCEPT !.tries = 0]]
    BY DEF DownloadDone
  <2> QED  BY <2>1, <2>2 DEF CloudInv, DlType
<1>2. PcType'
  BY DEF CloudInv, PcType, WorkerStep, RequestStep, DownloadDone, Goto
<1>3. Places'
  <2>1. PICK p \in {"rm", "mark", "fail"} : Goto(w, p)
    BY DEF DownloadDone
  <2>2. p \in WorkerStep /\ p \notin {"unused", "over", "save", "write"}
    BY DEF WorkerStep
  <2>3. /\ pc[w] \notin {"unused", "over"}
        /\ save' = save /\ running' = running
    BY DEF DownloadDone
  <2> QED  BY <2>1, <2>2, <2>3, WorkerMoves
<1>4. Lock'
  BY DEF CloudInv, Lock, Holds, Launching, DownloadDone, Goto, PcType
<1>5. AtWork'
  BY Who DEF CloudInv, AtWork, Holds, Launching, Finished, DownloadDone, Goto
<1>6. Origins'
  BY Who DEF CloudInv, Origins, DownloadDone, Goto, held, PcType
<1>7. Sweeping'
  BY Who DEF CloudInv, Sweeping, DownloadDone, Goto, held, ghost, PcType
<1>8. Deleting'
  BY Who DEF CloudInv, Deleting, DownloadDone, Goto, held, ghost, PcType
<1>9. UsageCovers'
  BY Who DEF CloudInv, UsageCovers, DownloadDone, Goto, books, ghost, PcType
<1> QED  BY <1>d, <1>1, <1>2, <1>3, <1>4, <1>5, <1>6, <1>7, <1>8, <1>9 DEF CloudInv

\* The goroutine hands its mark to its successor.
LEMMA HandOffStep ==
    ASSUME CloudInv, NEW w \in Worker, HandOff(w)
    PROVE  CloudInv'
<1>1. TaskType' /\ AcctType' /\ JsonType' /\ DiskType' /\ BookType' /\
    SaveType' /\ DelType' /\ ResType' /\ ItemType' /\ CountType' /\ Known' /\
    CloudCovers'
  BY DEF CloudInv, TaskType, AcctType, JsonType, DiskType, BookType,
      SaveType, DelType, ResType, ItemType, CountType, Known, CloudCovers,
      HandOff, books, held, ghost
<1>2. MarkType'
  BY DEF CloudInv, MarkType, HandOff, ghost
<1>3. PcType'
  BY DEF CloudInv, PcType, WorkerStep, RequestStep, HandOff
<1>4. DlType'
  BY Sessions DEF HandOff, Ready, CloudInv, DlType
<1>5. Places'
  <2>1. PICK v \in Ready : pc' = [pc EXCEPT ![w] = "over", ![v] = "start"]
    BY DEF HandOff
  <2>2. /\ v \in Worker /\ v # w /\ w \notin {"delete", "sweep"}
        /\ w \in Actor /\ save' = save
        /\ w \in Worker => "over" \in WorkerStep
        /\ w \in Request => "over" \in RequestStep
    BY <2>1, Who DEF Ready, HandOff, WorkerStep, RequestStep
  <2>3. CloudInv /\ "over" \notin {"save", "write"}
    OBVIOUS
  <2> QED  BY ONLY <2>1, <2>2, <2>3, LaunchPlaces
<1>6. Lock'
  BY Who DEF CloudInv, Lock, Holds, Launching, HandOff, Ready, PcType
<1>7. AtWork'
  BY Who DEF CloudInv, AtWork, Holds, Launching, Finished, HandOff
<1>8. Origins'
  BY Who DEF CloudInv, Origins, HandOff, Ready, held, PcType
<1>9. Sweeping'
  BY Who DEF CloudInv, Sweeping, HandOff, Ready, held, ghost, PcType, Lock,
      Holds
<1>10. Quiet'
  BY DEF CloudInv, Quiet, HandOff, ghost
<1>11. Deleting'
  BY Who DEF CloudInv, Deleting, HandOff, Ready, held, ghost, PcType
<1>12. UsageCovers'
  BY DEF CloudInv, UsageCovers, HandOff, books, ghost
<1> QED  BY <1>1, <1>2, <1>3, <1>4, <1>5, <1>6, <1>7, <1>8, <1>9, <1>10,
    <1>11, <1>12 DEF CloudInv

\* The goroutine of an abandoned task removes the files.
LEMMA RemoveAbandonedStep ==
    ASSUME CloudInv, NEW w \in Worker, RemoveAbandoned(w)
    PROVE  CloudInv'
<1>1. TaskType' /\ AcctType' /\ MarkType' /\ JsonType' /\ BookType' /\
    SaveType' /\ DelType' /\ ResType' /\ ItemType' /\ Known' /\ Quiet' /\
    CloudCovers'
  BY DEF CloudInv, TaskType, AcctType, MarkType, JsonType, BookType,
      SaveType, DelType, ResType, ItemType, Known, Quiet, CloudCovers,
      RemoveAbandoned, books, held, ghost
<1>2. DiskType'
  BY RemoveOrNot DEF RemoveAbandoned, TryRemoveDir, CloudInv
<1>3. PcType'
  BY DEF CloudInv, PcType, WorkerStep, RequestStep, RemoveAbandoned, Goto
<1>4. DlType'
  BY RemoveOrNot DEF RemoveAbandoned, TryRemoveDir, CloudInv
<1>5. CountType'
  BY Who DEF CloudInv, CountType, RemoveAbandoned, TryRemoveDir, Fault
<1>6. Places'
  BY Who DEF CloudInv, Places, RemoveAbandoned, Goto, WorkerStep
<1>7. Lock'
  BY DEF CloudInv, Lock, Holds, Launching, RemoveAbandoned, Goto
<1>8. AtWork'
  BY DEF CloudInv, AtWork, Holds, Launching, Finished, RemoveAbandoned, Goto
<1>9. Origins'
  BY DEF CloudInv, Origins, RemoveAbandoned, Goto, held
<1>10. Sweeping'
  BY DEF CloudInv, Sweeping, RemoveAbandoned, Goto, held, ghost
<1>11. Deleting'
  BY DEF CloudInv, Deleting, RemoveAbandoned, Goto, held, ghost
<1>12. UsageCovers'
  BY DEF CloudInv, UsageCovers, RemoveAbandoned, Goto, books, ghost
<1> QED  BY <1>1, <1>2, <1>3, <1>4, <1>5, <1>6, <1>7, <1>8, <1>9, <1>10,
    <1>11, <1>12 DEF CloudInv

\* The goroutine notes that the file is there.
LEMMA MarkArtifactStep ==
    ASSUME CloudInv, NEW w \in Worker, MarkArtifact(w)
    PROVE  CloudInv'
<1>1. AcctType' /\ MarkType' /\ JsonType' /\ DiskType' /\ BookType' /\ DlType'
    /\ DelType' /\ ResType' /\ ItemType' /\ CountType'
  BY DEF CloudInv, AcctType, MarkType, JsonType, DiskType, BookType, DlType,
      DelType, ResType, ItemType, CountType, MarkArtifact, books, held, ghost
<1>2. TaskType'
  BY DEF CloudInv, TaskType, MarkArtifact
<1>3. PcType'
  BY DEF CloudInv, PcType, WorkerStep, RequestStep, MarkArtifact, Goto,
      SaveThen
<1>4. SaveType'
  BY DEF CloudInv, SaveType, WorkerStep, RequestStep, Record, MarkArtifact,
      SaveThen
<1>5. Places'
  <2>1. pc[w] \notin {"unused", "over"} /\ running' = running
    BY DEF MarkArtifact
  <2>2. CASE Goto(w, "final") /\ save' = save
    BY <2>1, <2>2, WorkerMoves DEF WorkerStep
  <2>3. CASE SaveThen(w, "final")
    BY <2>1, <2>3, WorkerSaves
  <2> QED  BY <2>2, <2>3 DEF MarkArtifact
<1>6. Lock'
  BY DEF CloudInv, Lock, Holds, Launching, MarkArtifact, Goto, SaveThen,
      books, held, ghost, PcType, SaveType
<1>7. AtWork'
  BY Who DEF CloudInv, AtWork, Holds, Launching, Finished, MarkArtifact, Goto,
      SaveThen, TaskType
<1>8. Known'
  BY DEF CloudInv, Known, MarkArtifact, TaskType
<1>9. Origins'
  BY Who DEF CloudInv, Origins, MarkArtifact, Goto, SaveThen, held, TaskType,
      PcType
<1>10. Sweeping'
  BY Who DEF CloudInv, Sweeping, MarkArtifact, Goto, SaveThen, held, ghost,
      PcType, TaskType
<1>11. Quiet'
  BY DEF CloudInv, Quiet, MarkArtifact, ghost, TaskType
<1>12. Deleting'
  BY Who DEF CloudInv, Deleting, MarkArtifact, Goto, SaveThen, held, ghost,
      PcType, TaskType
<1>13. UsageCovers'
  BY Who DEF CloudInv, UsageCovers, MarkArtifact, Goto, SaveThen, books,
      ghost, PcType, TaskType
<1>14. CloudCovers'
  BY DEF CloudInv, CloudCovers, MarkArtifact, books, held, ghost, TaskType
<1> QED  BY <1>1, <1>2, <1>3, <1>4, <1>5, <1>6, <1>7, <1>8, <1>9, <1>10,
    <1>11, <1>12, <1>13, <1>14 DEF CloudInv

\* failTask ends a task that has not ended, and books what is on disk.
LEMMA FailTaskStep ==
    ASSUME CloudInv, NEW w \in Worker, FailTask(w)
    PROVE  CloudInv'
<1>t. task' = [in |-> task.in, status |-> "failed", submitted |->
    task.submitted, done |-> task.done, damaged |-> FALSE, reserved |->
    DiskUsage(disk)]
  BY DEF FailTask, CloudInv, TaskType
<1>a. /\ AcctType' /\ usage' \in Int
      /\ \/ acct' = acct /\ usage' = usage
         \/ /\ acct'.res = 0 /\ acct'.com <= acct.com
            /\ usage' - acct'.com = usage - acct.com - acct.res
         \/ acct'.res = 0 /\ usage' = usage + acct'.com
  <2>1. AcctType /\ BookType /\ 0 \in Nat /\ DiskUsage(disk) \in Nat
    BY DiskIs DEF CloudInv
  <2>2. CASE Settle(0)
    BY <2>1, <2>2, SettleEffect
  <2>3. CASE AdjustTo(DiskUsage(disk))
    BY <2>1, <2>3, AdjustEffect
  <2> QED  BY <2>2, <2>3 DEF FailTask
<1>1. MarkType' /\ JsonType' /\ DiskType' /\ DlType' /\ DelType' /\ ResType'
    /\ ItemType' /\ CountType'
  BY DEF CloudInv, MarkType, JsonType, DiskType, DlType, DelType, ResType,
      ItemType, CountType, FailTask, held, ghost
<1>2. TaskType'
  <2>1. TaskType /\ DiskType
    BY DEF CloudInv
  <2> QED  BY <1>t, <2>1, TaskIs, DiskIs DEF TaskType, Status
<1>3. AcctType'
  BY <1>a
<1>4. BookType'
  BY DEF CloudInv, BookType, FailTask, Settle, Least, AdjustTo, DiskUsage,
      TaskType, AcctType, DiskType
<1>5. PcType'
  BY DEF CloudInv, PcType, WorkerStep, RequestStep, FailTask, SaveThen
<1>6. SaveType'
  BY Who DEF CloudInv, SaveType, WorkerStep, RequestStep, Record, FailTask,
      SaveThen
<1>7. Places'
  BY Who DEF CloudInv, Places, FailTask, SaveThen, SaveType, WorkerStep
<1>8. Lock'
  BY DEF CloudInv, Lock, Holds, Launching, FailTask, SaveThen
<1>9. AtWork'
  BY Who DEF CloudInv, AtWork, Holds, Launching, Finished, FailTask, SaveThen,
      PcType, SaveType, Lock
<1>10. Known'
  BY DEF CloudInv, Known, FailTask, Settle, AdjustTo
<1>11. Origins'
  BY DEF CloudInv, Origins, FailTask, SaveThen, held
<1>12. Sweeping'
  BY Who DEF CloudInv, Sweeping, FailTask, SaveThen, Settle, AdjustTo, held,
      ghost, Lock, Holds
<1>13. Quiet'
  BY DEF CloudInv, Quiet, FailTask, Settle, AdjustTo, ghost
<1>14. Deleting'
  BY DEF CloudInv, Deleting, FailTask, SaveThen, held, ghost
<1>15. UsageCovers'
  <2>1. /\ usage \in Int /\ acct.com \in Nat /\ acct.res \in Nat
        /\ acct'.com \in Nat /\ acct'.res \in Nat /\ usage' \in Int
    BY <1>a, AcctIs DEF CloudInv, AcctType, BookType
  <2>2. /\ overlap' = overlap /\ task'.in = task.in /\ running' = running
        /\ pc'["delete"] = pc["delete"]
    BY Who DEF FailTask, Goto, SaveThen, Settle, ghost, CloudInv, PcType
  <2>3. CASE overlap
    BY <2>2, <2>3 DEF UsageCovers
  <2>4. CASE ~overlap
    <3>1. running /\ usage >= acct.com + acct.res
      BY <2>4, Who DEF CloudInv, UsageCovers, Lock, Holds, FailTask
    <3>2. usage' >= acct'.com + acct'.res /\ usage' >= 0
      BY ONLY <1>a, <2>1, <3>1
    <3> QED  BY <3>2 DEF UsageCovers
  <2> QED  BY <2>3, <2>4
<1>16. CloudCovers'
  <2>1. /\ overlap' = overlap /\ del' = del /\ CloudCovers
        /\ cloud \in Int /\ task.reserved \in Nat /\ del.res \in Nat
        /\ DiskUsage(disk) \in Nat
    BY TaskIs, DiskIs DEF FailTask, ghost, held, CloudInv, BookType, DelType
  <2>2. /\ cloud' = cloud - task.reserved + DiskUsage(disk)
        /\ task'.reserved = DiskUsage(disk)
    BY <1>t DEF FailTask
  <2> QED  BY <2>1, <2>2 DEF CloudCovers
<1> QED  BY <1>1, <1>2, <1>3, <1>4, <1>5, <1>6, <1>7, <1>8, <1>9, <1>10,
    <1>11, <1>12, <1>13, <1>14, <1>15, <1>16 DEF CloudInv

\* failTask finds no room, and the files go or stay.
LEMMA FailTaskStorageFullStep ==
    ASSUME CloudInv, NEW w \in Worker, FailTaskStorageFull(w)
    PROVE  CloudInv'
<1>t. \/ /\ task' = [in |-> task.in, status |-> "failed",
                   submitted |-> task.submitted, done |-> task.done,
                   damaged |-> task.damaged, reserved |-> 0]
         /\ cloud' = cloud - task.reserved
      \/ /\ task' = [in |-> task.in, status |-> "failed",
                   submitted |-> task.submitted, done |-> task.done,
                   damaged |-> task.damaged, reserved |-> task.reserved]
         /\ cloud' = cloud
  BY DEF FailTaskStorageFull, TryRemoveDir, CloudInv, TaskType, books
<1>1. MarkType' /\ JsonType' /\ DelType' /\ ResType' /\ ItemType'
  BY DEF CloudInv, MarkType, JsonType, DelType, ResType, ItemType,
      FailTaskStorageFull, held, ghost
<1>2. TaskType'
  <2>1. TaskType
    BY DEF CloudInv
  <2> QED  BY <1>t, <2>1, TaskIs DEF TaskType, Status
<1>3. AcctType'
  <2>1. AcctType /\ BookType
    BY DEF CloudInv
  <2>2. ReleaseScope \/ acct' = acct
    BY DEF FailTaskStorageFull, TryRemoveDir
  <2> QED  BY <2>1, <2>2, ReleaseScopeEffect DEF AcctType
<1>4. DiskType'
  BY RemoveOrNot DEF FailTaskStorageFull, TryRemoveDir, CloudInv
<1>5. BookType'
  BY DEF CloudInv, BookType, FailTaskStorageFull, SaveThen, ReleaseScope,
      TryRemoveDir, Fault, RemoveDir, EmptyDisk, books, held, ghost,
      DiskUsage, TaskType, AcctType
<1>6. PcType'
  BY DEF CloudInv, PcType, WorkerStep, RequestStep, FailTaskStorageFull,
      SaveThen
<1>7. SaveType'
  BY Who DEF CloudInv, SaveType, WorkerStep, RequestStep, Record,
      FailTaskStorageFull, SaveThen
<1>8. DlType'
  BY RemoveOrNot DEF FailTaskStorageFull, TryRemoveDir, CloudInv
<1>9. CountType'
  BY Who DEF CloudInv, CountType, FailTaskStorageFull, TryRemoveDir, Fault
<1>10. Places'
  BY Who DEF CloudInv, Places, FailTaskStorageFull, SaveThen, SaveType,
      WorkerStep
<1>11. Lock'
  BY DEF CloudInv, Lock, Holds, Launching, FailTaskStorageFull, SaveThen
<1>12. AtWork'
  <2>1. task'.status = "failed"
    BY <1>t
  <2>2. /\ pc[w] \notin {"unused", "over"} /\ running' = running
        /\ SaveThen(w, "exit")
    BY DEF FailTaskStorageFull
  <2>3. Lock' /\ w \in Actor
    BY <2>2, WorkerSaves, Who
  <2>4. pc'[w] = "save" /\ save'[w].next = "exit"
    BY <2>2, <2>3 DEF SaveThen, CloudInv, PcType, SaveType
  <2>5. Holds(w)' /\ Finished(w)'
    BY <2>4 DEF Holds, Finished
  <2>6. \A a \in Actor : Holds(a)' => a = w
    BY <2>3, <2>5 DEF Lock
  <2> QED  BY <2>1, <2>5, <2>6 DEF AtWork
<1>13. Known'
  BY DEF CloudInv, Known, FailTaskStorageFull, SaveThen, ReleaseScope,
      TryRemoveDir, Fault, RemoveDir, EmptyDisk, books, held, ghost,
      DiskUsage, TaskType
<1>14. Origins'
  BY Who DEF CloudInv, Origins, Terminal, FailTaskStorageFull, SaveThen,
      ReleaseScope, TryRemoveDir, Fault, RemoveDir, EmptyDisk, books, held,
      ghost, DiskUsage, TaskType, PcType
<1>15. Sweeping'
  BY Who DEF CloudInv, Sweeping, FailTaskStorageFull, SaveThen, ReleaseScope,
      held, ghost, Lock, Holds
<1>16. Quiet'
  BY DEF CloudInv, Quiet, FailTaskStorageFull, SaveThen, ReleaseScope,
      TryRemoveDir, Fault, RemoveDir, EmptyDisk, books, held, ghost,
      DiskUsage, TaskType
<1>17. Deleting'
  BY Who DEF CloudInv, Deleting, FailTaskStorageFull, SaveThen, ReleaseScope,
      TryRemoveDir, Fault, RemoveDir, EmptyDisk, books, held, ghost,
      DiskUsage, PcType, TaskType
<1>18. UsageCovers'
  BY Who DEF CloudInv, UsageCovers, FailTaskStorageFull, SaveThen,
      ReleaseScope, TryRemoveDir, Fault, RemoveDir, EmptyDisk, books, held,
      ghost, DiskUsage, BookType, AcctType, Lock, Holds
<1>19. CloudCovers'
  <2>1. /\ overlap' = overlap /\ del' = del /\ CloudCovers
        /\ cloud \in Int /\ task.reserved \in Nat /\ del.res \in Nat
    BY TaskIs DEF FailTaskStorageFull, ghost, held, CloudInv, BookType,
       DelType
  <2> QED  BY <1>t, <2>1 DEF CloudCovers
<1> QED  BY <1>1, <1>2, <1>3, <1>4, <1>5, <1>6, <1>7, <1>8, <1>9, <1>10,
    <1>11, <1>12, <1>13, <1>14, <1>15, <1>16, <1>17, <1>18, <1>19 DEF CloudInv

\* failTask leaves an ended task alone.
LEMMA FailTaskEndedStep ==
    ASSUME CloudInv, NEW w \in Worker, FailTaskEnded(w)
    PROVE  CloudInv'
<1>1. TaskType' /\ AcctType' /\ MarkType' /\ JsonType' /\ DiskType' /\
    BookType' /\ SaveType' /\ DlType' /\ DelType' /\ ResType' /\ ItemType' /\
    CountType' /\ Known' /\ Quiet' /\ CloudCovers'
  BY DEF CloudInv, TaskType, AcctType, MarkType, JsonType, DiskType,
      BookType, SaveType, DlType, DelType, ResType, ItemType, CountType,
      Known, Quiet, CloudCovers, FailTaskEnded, books, held, ghost
<1>2. PcType'
  BY DEF CloudInv, PcType, WorkerStep, RequestStep, FailTaskEnded, Goto
<1>3. Places'
  BY Who DEF CloudInv, Places, FailTaskEnded, Goto, WorkerStep
<1>4. Lock'
  BY DEF CloudInv, Lock, Holds, Launching, FailTaskEnded, Goto
<1>5. AtWork'
  BY DEF CloudInv, AtWork, Holds, Launching, Finished, FailTaskEnded, Goto
<1>6. Origins'
  BY DEF CloudInv, Origins, FailTaskEnded, Goto, held
<1>7. Sweeping'
  BY DEF CloudInv, Sweeping, FailTaskEnded, Goto, held, ghost
<1>8. Deleting'
  BY DEF CloudInv, Deleting, FailTaskEnded, Goto, held, ghost
<1>9. UsageCovers'
  BY DEF CloudInv, UsageCovers, FailTaskEnded, Goto, books, ghost
<1> QED  BY <1>1, <1>2, <1>3, <1>4, <1>5, <1>6, <1>7, <1>8, <1>9 DEF CloudInv

\* A directory without a partial file goes.
LEMMA CleanOnFailStep ==
    ASSUME CloudInv, NEW w \in Worker, CleanOnFail(w)
    PROVE  CloudInv'
<1>1. TaskType' /\ AcctType' /\ MarkType' /\ JsonType' /\ BookType' /\
    SaveType' /\ DelType' /\ ResType' /\ ItemType' /\ CountType' /\ Known' /\
    Quiet' /\ CloudCovers'
  BY DEF CloudInv, TaskType, AcctType, MarkType, JsonType, BookType,
      SaveType, DelType, ResType, ItemType, CountType, Known, Quiet,
      CloudCovers, CleanOnFail, books, held, ghost
<1>2. DiskType'
  BY RemoveOrNot DEF CleanOnFail, CloudInv
<1>3. PcType'
  BY DEF CloudInv, PcType, WorkerStep, RequestStep, CleanOnFail, Goto
<1>4. DlType'
  BY RemoveOrNot DEF CleanOnFail, CloudInv
<1>5. Places'
  BY Who DEF CloudInv, Places, CleanOnFail, Goto, WorkerStep
<1>6. Lock'
  BY DEF CloudInv, Lock, Holds, Launching, CleanOnFail, Goto
<1>7. AtWork'
  BY DEF CloudInv, AtWork, Holds, Launching, Finished, CleanOnFail, Goto
<1>8. Origins'
  BY DEF CloudInv, Origins, CleanOnFail, Goto, held
<1>9. Sweeping'
  BY DEF CloudInv, Sweeping, CleanOnFail, Goto, held, ghost
<1>10. Deleting'
  BY DEF CloudInv, Deleting, CleanOnFail, Goto, held, ghost
<1>11. UsageCovers'
  BY DEF CloudInv, UsageCovers, CleanOnFail, Goto, books, ghost
<1> QED  BY <1>1, <1>2, <1>3, <1>4, <1>5, <1>6, <1>7, <1>8, <1>9, <1>10, <1>11
    DEF CloudInv

\* finalizeCompleted completes a task that was not cancelled.
LEMMA FinalizeStep ==
    ASSUME CloudInv, NEW w \in Worker, Finalize(w)
    PROVE  CloudInv'
<1>1. MarkType' /\ JsonType' /\ DiskType' /\ DlType' /\ DelType' /\ ResType'
    /\ ItemType' /\ CountType'
  BY DEF CloudInv, MarkType, JsonType, DiskType, DlType, DelType, ResType,
      ItemType, CountType, Finalize, held, ghost
<1>2. TaskType'
  BY Who DEF CloudInv, TaskType, Status, Finalize
<1>3. AcctType'
  BY AdjustEffect, Who DEF Finalize, CloudInv
<1>4. BookType'
  BY Who DEF CloudInv, BookType, Finalize, AdjustTo, TaskType
<1>5. PcType'
  BY DEF CloudInv, PcType, WorkerStep, RequestStep, Finalize, SaveThen
<1>6. SaveType'
  BY Who DEF CloudInv, SaveType, WorkerStep, RequestStep, Record, Finalize,
      SaveThen
<1>7. Places'
  BY Who DEF CloudInv, Places, Finalize, SaveThen, SaveType, WorkerStep
<1>8. Lock'
  BY DEF CloudInv, Lock, Holds, Launching, Finalize, SaveThen
<1>9. AtWork'
  BY Who DEF CloudInv, AtWork, Holds, Launching, Finished, Finalize, SaveThen,
      PcType, SaveType, Lock
<1>10. Known'
  BY DEF CloudInv, Known, Finalize, AdjustTo
<1>11. Origins'
  BY DEF CloudInv, Origins, Finalize, SaveThen, held
<1>12. Sweeping'
  BY Who DEF CloudInv, Sweeping, Finalize, SaveThen, AdjustTo, held, ghost,
      Lock, Holds
<1>13. Quiet'
  BY DEF CloudInv, Quiet, Finalize, AdjustTo, ghost
<1>14. Deleting'
  BY DEF CloudInv, Deleting, Finalize, SaveThen, held, ghost
<1>15. UsageCovers'
  BY Who DEF CloudInv, UsageCovers, Finalize, SaveThen, AdjustTo, ghost,
      BookType
<1>16. CloudCovers'
  BY Who DEF CloudInv, CloudCovers, Finalize, held, ghost, BookType, TaskType,
      DelType
<1> QED  BY <1>1, <1>2, <1>3, <1>4, <1>5, <1>6, <1>7, <1>8, <1>9, <1>10,
    <1>11, <1>12, <1>13, <1>14, <1>15, <1>16 DEF CloudInv

\* finalizeCompleted finds no room, and the file goes or stays.
LEMMA FinalizeStorageFullStep ==
    ASSUME CloudInv, NEW w \in Worker, FinalizeStorageFull(w)
    PROVE  CloudInv'
<1>t. \/ /\ task' = [in |-> task.in, status |-> "failed",
                   submitted |-> task.submitted, done |-> task.done,
                   damaged |-> task.damaged, reserved |-> 0]
         /\ cloud' = cloud - task.reserved
      \/ /\ task' = [in |-> task.in, status |-> "failed",
                   submitted |-> task.submitted, done |-> task.done,
                   damaged |-> task.damaged, reserved |-> task.reserved]
         /\ cloud' = cloud
  BY DEF FinalizeStorageFull, CloudInv, TaskType, books
<1>1. MarkType' /\ JsonType' /\ DlType' /\ DelType' /\ ResType' /\ ItemType'
  BY DEF CloudInv, MarkType, JsonType, DlType, DelType, ResType, ItemType,
      FinalizeStorageFull, held, ghost
<1>2. TaskType'
  <2>1. TaskType
    BY DEF CloudInv
  <2> QED  BY <1>t, <2>1, TaskIs DEF TaskType, Status
<1>3. AcctType'
  <2>1. AcctType /\ BookType
    BY DEF CloudInv
  <2>2. ReleaseScope \/ acct' = acct
    BY DEF FinalizeStorageFull
  <2> QED  BY <2>1, <2>2, ReleaseScopeEffect DEF AcctType
<1>4. DiskType'
  BY Who DEF CloudInv, DiskType, FinalizeStorageFull
<1>5. BookType'
  BY DEF CloudInv, BookType, FinalizeStorageFull, ReleaseScope, books,
      TaskType, AcctType
<1>6. PcType'
  BY DEF CloudInv, PcType, WorkerStep, RequestStep, FinalizeStorageFull,
      SaveThen
<1>7. SaveType'
  BY Who DEF CloudInv, SaveType, WorkerStep, RequestStep, Record,
      FinalizeStorageFull, SaveThen
<1>8. CountType'
  BY Who DEF CloudInv, CountType, FinalizeStorageFull, Fault
<1>9. Places'
  BY Who DEF CloudInv, Places, FinalizeStorageFull, SaveThen, SaveType,
      WorkerStep
<1>10. Lock'
  BY DEF CloudInv, Lock, Holds, Launching, FinalizeStorageFull, SaveThen
<1>11. AtWork'
  <2>1. task'.status = "failed"
    BY <1>t
  <2>2. /\ pc[w] \notin {"unused", "over"} /\ running' = running
        /\ SaveThen(w, "exit")
    BY DEF FinalizeStorageFull
  <2>3. Lock' /\ w \in Actor
    BY <2>2, WorkerSaves, Who
  <2>4. pc'[w] = "save" /\ save'[w].next = "exit"
    BY <2>2, <2>3 DEF SaveThen, CloudInv, PcType, SaveType
  <2>5. Holds(w)' /\ Finished(w)'
    BY <2>4 DEF Holds, Finished
  <2>6. \A a \in Actor : Holds(a)' => a = w
    BY <2>3, <2>5 DEF Lock
  <2> QED  BY <2>1, <2>5, <2>6 DEF AtWork
<1>12. Known'
  BY DEF CloudInv, Known, FinalizeStorageFull, ReleaseScope, TaskType
<1>13. Origins'
  BY Who DEF CloudInv, Origins, FinalizeStorageFull, SaveThen, held, TaskType,
      PcType
<1>14. Sweeping'
  BY Who DEF CloudInv, Sweeping, FinalizeStorageFull, SaveThen, ReleaseScope,
      held, ghost, Lock, Holds
<1>15. Quiet'
  BY DEF CloudInv, Quiet, FinalizeStorageFull, ReleaseScope, ghost, TaskType
<1>16. Deleting'
  BY DEF CloudInv, Deleting, FinalizeStorageFull, SaveThen, held, ghost
<1>17. UsageCovers'
  BY DEF CloudInv, UsageCovers, FinalizeStorageFull, SaveThen, ReleaseScope,
      books, ghost, BookType, AcctType
<1>18. CloudCovers'
  <2>1. /\ overlap' = overlap /\ del' = del /\ CloudCovers
        /\ cloud \in Int /\ task.reserved \in Nat /\ del.res \in Nat
    BY TaskIs DEF FinalizeStorageFull, ghost, held, CloudInv, BookType,
       DelType
  <2> QED  BY <1>t, <2>1 DEF CloudCovers
<1> QED  BY <1>1, <1>2, <1>3, <1>4, <1>5, <1>6, <1>7, <1>8, <1>9, <1>10,
    <1>11, <1>12, <1>13, <1>14, <1>15, <1>16, <1>17, <1>18 DEF CloudInv

\* finalizeCompleted leaves an abandoned task alone.
LEMMA FinalizeAbandonedStep ==
    ASSUME CloudInv, NEW w \in Worker, FinalizeAbandoned(w)
    PROVE  CloudInv'
<1>1. TaskType' /\ AcctType' /\ MarkType' /\ JsonType' /\ DiskType' /\
    BookType' /\ SaveType' /\ DlType' /\ DelType' /\ ResType' /\ ItemType' /\
    CountType' /\ Known' /\ Quiet' /\ CloudCovers'
  BY DEF CloudInv, TaskType, AcctType, MarkType, JsonType, DiskType,
      BookType, SaveType, DlType, DelType, ResType, ItemType, CountType,
      Known, Quiet, CloudCovers, FinalizeAbandoned, books, held, ghost
<1>2. PcType'
  BY DEF CloudInv, PcType, WorkerStep, RequestStep, FinalizeAbandoned, Goto
<1>3. Places'
  BY Who DEF CloudInv, Places, FinalizeAbandoned, Goto, WorkerStep
<1>4. Lock'
  BY DEF CloudInv, Lock, Holds, Launching, FinalizeAbandoned, Goto
<1>5. AtWork'
  BY DEF CloudInv, AtWork, Holds, Launching, Finished, FinalizeAbandoned,
      Goto
<1>6. Origins'
  BY DEF CloudInv, Origins, FinalizeAbandoned, Goto, held
<1>7. Sweeping'
  BY DEF CloudInv, Sweeping, FinalizeAbandoned, Goto, held, ghost
<1>8. Deleting'
  BY DEF CloudInv, Deleting, FinalizeAbandoned, Goto, held, ghost
<1>9. UsageCovers'
  BY DEF CloudInv, UsageCovers, FinalizeAbandoned, Goto, books, ghost
<1> QED  BY <1>1, <1>2, <1>3, <1>4, <1>5, <1>6, <1>7, <1>8, <1>9 DEF CloudInv

\* cleanupRunning clears the mark and settles an abandoned task.
LEMMA ExitStep ==
    ASSUME CloudInv, NEW w \in Worker, Exit(w)
    PROVE  CloudInv'
<1>1. JsonType' /\ DiskType' /\ SaveType' /\ DelType' /\ ItemType' /\
    CountType'
  BY DEF CloudInv, JsonType, DiskType, SaveType, DelType, ItemType,
      CountType, Exit
<1>2. TaskType'
  BY DEF CloudInv, TaskType, Exit
<1>3. AcctType'
  <2>1. AcctType /\ BookType
    BY DEF CloudInv
  <2>2. ReleaseScope \/ acct' = acct
    BY DEF Exit
  <2> QED  BY <2>1, <2>2, ReleaseScopeEffect DEF AcctType
<1>4. MarkType'
  BY DEF CloudInv, MarkType, Exit, ghost
<1>5. BookType'
  BY DEF CloudInv, BookType, Exit, ReleaseScope, AcctType
<1>6. PcType'
  BY DEF CloudInv, PcType, WorkerStep, RequestStep, Exit
<1>7. DlType'
  BY Who DEF CloudInv, DlType, Session, Exit, NoSession
<1>8. ResType'
  BY DEF CloudInv, ResType, Exit, SignalStopped, Woken, NoSession
<1>9. Places'
  BY Who DEF CloudInv, Places, Exit, WorkerStep
<1>10. Lock'
  BY Who DEF CloudInv, Lock, Holds, Launching, Exit, PcType
<1>11. AtWork'
  BY DEF CloudInv, AtWork, Holds, Launching, Finished, Exit, TaskType
<1>12. Known'
  BY DEF CloudInv, Known, Exit, ReleaseScope, TaskType
<1>13. Origins'
  BY DEF CloudInv, Origins, Exit, SignalStopped, Woken, NoSession, TaskType,
      PcType, ResType
<1>14. Sweeping'
  BY Who DEF CloudInv, Sweeping, Exit, ReleaseScope, ghost, Lock, Holds
<1>15. Quiet'
  BY DEF CloudInv, Quiet, Exit, ReleaseScope, ghost
<1>16. Deleting'
  BY DEF CloudInv, Deleting, Exit, ghost, TaskType
<1>17. UsageCovers'
  BY Who DEF CloudInv, UsageCovers, Exit, ReleaseScope, ghost, BookType,
      AcctType, Lock, Holds
<1>18. CloudCovers'
  BY DEF CloudInv, CloudCovers, Exit, ghost, BookType, TaskType, DelType
<1> QED  BY <1>1, <1>2, <1>3, <1>4, <1>5, <1>6, <1>7, <1>8, <1>9, <1>10,
    <1>11, <1>12, <1>13, <1>14, <1>15, <1>16, <1>17, <1>18 DEF CloudInv

\* The client of a synchronous download hangs up.
LEMMA ClientGoneStep ==
    ASSUME CloudInv, NEW w \in Worker, ClientGone(w)
    PROVE  CloudInv'
<1>1. TaskType' /\ AcctType' /\ MarkType' /\ JsonType' /\ DiskType' /\
    BookType' /\ PcType' /\ SaveType' /\ DelType' /\ ResType' /\ ItemType' /\
    CountType' /\ Places' /\ Lock' /\ AtWork' /\ Known' /\ Origins' /\
    Sweeping' /\ Quiet' /\ Deleting' /\ UsageCovers' /\ CloudCovers'
  BY DEF CloudInv, TaskType, AcctType, MarkType, JsonType, DiskType,
      BookType, PcType, SaveType, DelType, ResType, ItemType, CountType,
      Places, Lock, Holds, Launching, AtWork, Finished, Known, Origins,
      Sweeping, Quiet, Deleting, UsageCovers, CloudCovers, ClientGone, books,
      held, ghost
<1>2. DlType'
  BY DEF CloudInv, DlType, Session, ClientGone
<1> QED  BY <1>1, <1>2 DEF CloudInv

\* saveTask takes its snapshot, or finds the task deleted.
LEMMA SaveSnapshotStep ==
    ASSUME CloudInv, NEW a \in Actor, SaveSnapshot(a)
    PROVE  CloudInv'
<1>m. /\ pc[a] \in {"save", "write"}
      /\ \/ pc'[a] = "write" /\ save'[a].next = save[a].next
         \/ pc'[a] = save[a].next
      /\ \A b \in Actor \ {a} : pc'[b] = pc[b] /\ save'[b] = save[b]
  BY DEF SaveSnapshot, Goto, CloudInv, PcType, SaveType
<1>p. /\ Places' /\ a # "delete" /\ a # "sweep"
      /\ \A b \in Actor : Holds(b)' <=> Holds(b)
  BY <1>m, SavePlaces
<1>1. TaskType' /\ AcctType' /\ MarkType' /\ JsonType' /\ DiskType' /\
    BookType' /\ DlType' /\ DelType' /\ ResType' /\ ItemType' /\ CountType' /\
    Known' /\ Quiet' /\ CloudCovers'
  BY DEF CloudInv, TaskType, AcctType, MarkType, JsonType, DiskType,
      BookType, DlType, DelType, ResType, ItemType, CountType, Known, Quiet,
      CloudCovers, SaveSnapshot, books, held, ghost
<1>2. PcType'
  <2>1. save[a].next \in WorkerStep \cup RequestStep
    BY DEF CloudInv, SaveType
  <2>2. "write" \in WorkerStep
    BY DEF WorkerStep
  <2>3. pc' = [pc EXCEPT ![a] = "write"] \/ pc' = [pc EXCEPT ![a] =
     save[a].next]
    BY DEF SaveSnapshot, Goto
  <2> QED  BY <2>1, <2>2, <2>3 DEF CloudInv, PcType
<1>3. SaveType'
  BY DEF CloudInv, SaveType, WorkerStep, RequestStep, Record, SaveSnapshot,
      NoSave, Snapshot, TaskType, Known
<1>4. Places'
  BY <1>p
<1>5. Lock'
  BY <1>p DEF SaveSnapshot, CloudInv, Lock
<1>6. AtWork'
  BY DEF CloudInv, AtWork, Holds, Launching, Finished, SaveSnapshot, Goto,
      PcType, SaveType, Places
<1>7. Origins'
  <2>1. pc'["delete"] = pc["delete"] /\ pc'["sweep"] = pc["sweep"]
    BY <1>m, <1>p, Who
  <2>2. \A r \in Resumer : pc'[r] = "window" => pc[r] = "window"
    BY <1>m, Who DEF CloudInv, Places
  <2>3. task' = task /\ res' = res
    BY DEF SaveSnapshot, held
  <2> QED  BY <2>1, <2>2, <2>3 DEF CloudInv, Origins
<1>8. Sweeping'
  BY Who DEF CloudInv, Sweeping, SaveSnapshot, Goto, held, ghost, PcType
<1>9. Deleting'
  <2>1. pc'["delete"] = pc["delete"]
    BY <1>m, <1>p, Who
  <2> QED  BY <2>1 DEF SaveSnapshot, held, ghost, CloudInv, Deleting
<1>10. UsageCovers'
  BY Who DEF CloudInv, UsageCovers, SaveSnapshot, Goto, books, ghost, PcType
<1> QED  BY <1>1, <1>2, <1>3, <1>4, <1>5, <1>6, <1>7, <1>8, <1>9, <1>10 DEF
    CloudInv

\* saveTask replaces the record.
LEMMA SaveWriteStep ==
    ASSUME CloudInv, NEW a \in Actor, SaveWrite(a)
    PROVE  CloudInv'
<1>m. /\ pc[a] \in {"save", "write"}
      /\ \/ pc'[a] = "write" /\ save'[a].next = save[a].next
         \/ pc'[a] = save[a].next
      /\ \A b \in Actor \ {a} : pc'[b] = pc[b] /\ save'[b] = save[b]
  BY DEF SaveWrite, Goto, CloudInv, PcType, SaveType
<1>p. /\ Places' /\ a # "delete" /\ a # "sweep"
      /\ \A b \in Actor : Holds(b)' <=> Holds(b)
  BY <1>m, SavePlaces
<1>1. TaskType' /\ AcctType' /\ MarkType' /\ DiskType' /\ BookType' /\ DlType'
    /\ DelType' /\ ResType' /\ ItemType' /\ CountType' /\ Known' /\ Quiet' /\
    CloudCovers'
  BY DEF CloudInv, TaskType, AcctType, MarkType, DiskType, BookType, DlType,
      DelType, ResType, ItemType, CountType, Known, Quiet, CloudCovers,
      SaveWrite, books, held, ghost
<1>2. JsonType'
  BY DEF CloudInv, JsonType, SaveWrite, SaveType
<1>3. PcType'
  <2>1. save[a].next \in WorkerStep \cup RequestStep
    BY DEF CloudInv, SaveType
  <2>2. "write" \in WorkerStep
    BY DEF WorkerStep
  <2>3. pc' = [pc EXCEPT ![a] = "write"] \/ pc' = [pc EXCEPT ![a] =
     save[a].next]
    BY DEF SaveWrite, Goto
  <2> QED  BY <2>1, <2>2, <2>3 DEF CloudInv, PcType
<1>4. SaveType'
  BY DEF CloudInv, SaveType, WorkerStep, RequestStep, Record, SaveWrite,
      NoSave
<1>5. Places'
  BY <1>p
<1>6. Lock'
  BY <1>p DEF SaveWrite, CloudInv, Lock
<1>7. AtWork'
  BY DEF CloudInv, AtWork, Holds, Launching, Finished, SaveWrite, Goto,
      PcType, Places
<1>8. Origins'
  <2>1. pc'["delete"] = pc["delete"] /\ pc'["sweep"] = pc["sweep"]
    BY <1>m, <1>p, Who
  <2>2. \A r \in Resumer : pc'[r] = "window" => pc[r] = "window"
    BY <1>m, Who DEF CloudInv, Places
  <2>3. task' = task /\ res' = res
    BY DEF SaveWrite, held
  <2> QED  BY <2>1, <2>2, <2>3 DEF CloudInv, Origins
<1>9. Sweeping'
  BY DEF CloudInv, Sweeping, SaveWrite, Goto, held, ghost
<1>10. Deleting'
  <2>1. pc'["delete"] = pc["delete"]
    BY <1>m, <1>p, Who
  <2> QED  BY <2>1 DEF SaveWrite, held, ghost, CloudInv, Deleting
<1>11. UsageCovers'
  BY DEF CloudInv, UsageCovers, SaveWrite, Goto, books, ghost
<1> QED  BY <1>1, <1>2, <1>3, <1>4, <1>5, <1>6, <1>7, <1>8, <1>9, <1>10, <1>11
    DEF CloudInv

\* ResumeTask finds a task it may resume.
LEMMA ResumeLookupStep ==
    ASSUME CloudInv, NEW r \in Resumer, ResumeLookup(r)
    PROVE  CloudInv'
<1>1. TaskType' /\ AcctType' /\ MarkType' /\ JsonType' /\ DiskType' /\
    BookType' /\ SaveType' /\ DlType' /\ DelType' /\ ItemType' /\ Known' /\
    Quiet' /\ CloudCovers'
  BY DEF CloudInv, TaskType, AcctType, MarkType, JsonType, DiskType,
      BookType, SaveType, DlType, DelType, ItemType, Known, Quiet,
      CloudCovers, ResumeLookup, Arrives, books, ghost
<1>2. PcType'
  BY DEF CloudInv, PcType, WorkerStep, RequestStep, ResumeLookup, Goto,
      Arrives
<1>3. ResType'
  BY DEF CloudInv, ResType, ResumeLookup, Resumable, Arrives, Idle, Ready,
      NoResume
<1>4. CountType'
  BY Who DEF CloudInv, CountType, ResumeLookup, Arrives
<1>5. Places'
  BY Who DEF CloudInv, Places, ResumeLookup, Goto, Arrives, RequestStep
<1>6. Lock'
  BY DEF CloudInv, Lock, Holds, Launching, ResumeLookup, Goto, Resumable,
      Arrives, Idle, Ready, NoResume
<1>7. AtWork'
  BY DEF CloudInv, AtWork, Holds, Launching, Finished, ResumeLookup, Goto,
      Resumable, Arrives, Idle, Ready, NoResume
<1>8. Origins'
  BY DEF CloudInv, Origins, ResumeLookup, Goto, Resumable, Arrives, Idle,
      Ready, NoResume
<1>9. Sweeping'
  BY Who DEF CloudInv, Sweeping, ResumeLookup, Goto, Arrives, ghost
<1>10. Deleting'
  BY Who DEF CloudInv, Deleting, ResumeLookup, Goto, Arrives, ghost
<1>11. UsageCovers'
  BY DEF CloudInv, UsageCovers, ResumeLookup, Goto, Resumable, Arrives, Idle,
      Ready, books, ghost, NoResume
<1> QED  BY <1>1, <1>2, <1>3, <1>4, <1>5, <1>6, <1>7, <1>8, <1>9, <1>10, <1>11
    DEF CloudInv

\* ResumeTask has waited for the goroutine, or gives up.
LEMMA ResumeWaitStep ==
    ASSUME CloudInv, NEW r \in Resumer, ResumeWait(r)
    PROVE  CloudInv'
<1>1. TaskType' /\ AcctType' /\ MarkType' /\ JsonType' /\ DiskType' /\
    BookType' /\ SaveType' /\ DlType' /\ DelType' /\ ItemType' /\ CountType'
    /\ Known' /\ Quiet' /\ CloudCovers'
  BY DEF CloudInv, TaskType, AcctType, MarkType, JsonType, DiskType,
      BookType, SaveType, DlType, DelType, ItemType, CountType, Known, Quiet,
      CloudCovers, ResumeWait, books, ghost
<1>2. PcType'
  BY DEF CloudInv, PcType, WorkerStep, RequestStep, ResumeWait, Goto
<1>3. ResType'
  BY DEF CloudInv, ResType, ResumeWait, NoResume
<1>4. Places'
  <2>1. pc'[r] \in {"claim", "idle"} /\ r \in Actor
    BY Who DEF ResumeWait, Goto, CloudInv, PcType
  <2>2. \A b \in Actor \ {r} : pc'[b] = pc[b] /\ save'[b] = save[b]
    BY Who DEF ResumeWait, Goto, CloudInv, PcType
  <2>3. {r} \in SUBSET Actor /\ Places
    BY <2>1 DEF CloudInv
  <2>4. \A a \in {r} :
           /\ pc'[a] \in RequestStep /\ a \notin Worker
           /\ a # "delete" /\ a # "sweep" /\ pc'[a] \notin {"save", "write"}
    BY <2>1, Who DEF RequestStep
  <2> QED  BY ONLY <2>2, <2>3, <2>4, PlacesMove
<1>5. Lock'
  BY DEF CloudInv, Lock, Holds, Launching, ResumeWait, Goto, PcType
<1>6. AtWork'
  BY DEF CloudInv, AtWork, Holds, Launching, Finished, ResumeWait, Goto,
      PcType
<1>7. Origins'
  BY Who DEF CloudInv, Origins, ResumeWait, Goto, PcType
<1>8. Sweeping'
  BY Who DEF CloudInv, Sweeping, ResumeWait, Goto, ghost, PcType
<1>9. Deleting'
  BY Who DEF CloudInv, Deleting, ResumeWait, Goto, ghost, PcType
<1>10. UsageCovers'
  BY Who DEF CloudInv, UsageCovers, ResumeWait, Goto, books, ghost, PcType
<1> QED  BY <1>1, <1>2, <1>3, <1>4, <1>5, <1>6, <1>7, <1>8, <1>9, <1>10 DEF
    CloudInv

\* ResumeTask takes the mark and a placeholder in one section.
LEMMA ResumeClaimStep ==
    ASSUME CloudInv, NEW r \in Resumer, ResumeClaim(r)
    PROVE  CloudInv'
<1>c. Claimed = [in |-> task.in, status |-> "pending", submitted |->
   task.submitted,
                 done |-> FALSE, damaged |-> FALSE, reserved |->
                    task.reserved]
  BY ClaimedIs DEF CloudInv
<1>t. \E n \in Nat :
         /\ task' = [in |-> task.in, status |-> "pending",
                     submitted |-> task.submitted, done |-> FALSE,
                     damaged |-> FALSE, reserved |-> task.reserved + n]
         /\ res' = [res EXCEPT ![r].prev = Snapshot(task), ![r].res = n]
  <2>1. PICK n \in Nat : /\ task' = [Claimed EXCEPT !.reserved = @ + n]
                         /\ res' = [res EXCEPT ![r].prev = Snapshot(task),
                                               ![r].res = n]
    BY Who DEF ResumeClaim
  <2>2. task' = [in |-> task.in, status |-> "pending",
                 submitted |-> task.submitted, done |-> FALSE,
                 damaged |-> FALSE, reserved |-> task.reserved + n]
    BY <1>c, <2>1
  <2> QED  BY <2>1, <2>2
<1>s. Snapshot(task) \in Record /\ Snapshot(task).status \in Terminal
  <2>1. TaskType /\ task.status \in Terminal
    BY DEF ResumeClaim, Resumable, Terminal, CloudInv
  <2> QED  BY <2>1, TaskIs DEF Snapshot, Record, Terminal, Status
<1>r. \A q \in Resumer : \/ q # r /\ res'[q] = res[q]
                         \/ /\ q = r
                            /\ \E n \in Nat :
                                  res'[q] = [woken |-> res[q].woken,
                                             prev |-> Snapshot(task),
                                             res |-> n]
  <2>1. PICK n \in Nat :
          res' = [res EXCEPT ![r].prev = Snapshot(task), ![r].res = n]
    BY <1>t
  <2>2. \A q \in Resumer : q # r => res'[q] = res[q]
    BY <2>1 DEF CloudInv, ResType
  <2>3. res'[r] = [woken |-> res[r].woken, prev |-> Snapshot(task), res |-> n]
    BY <2>1 DEF CloudInv, ResType
  <2> QED  BY <2>2, <2>3
<1>1. AcctType' /\ JsonType' /\ DiskType' /\ SaveType' /\ DlType' /\ DelType'
    /\ ItemType' /\ CountType'
  BY DEF CloudInv, AcctType, JsonType, DiskType, SaveType, DlType, DelType,
      ItemType, CountType, ResumeClaim
<1>2. TaskType'
  <2>1. TaskType
    BY DEF CloudInv
  <2>2. PICK n \in Nat :
          task' = [in |-> task.in, status |-> "pending",
                   submitted |-> task.submitted, done |-> FALSE,
                   damaged |-> FALSE, reserved |-> task.reserved + n]
    BY <1>t
  <2>3. task.reserved + n \in Nat
    BY <2>1, TaskIs
  <2> QED  BY <2>1, <2>2, <2>3, TaskIs DEF TaskType, Status
<1>3. MarkType'
  BY DEF CloudInv, MarkType, ResumeClaim, Meets, Overlaps, Resumable,
      Claimed, Snapshot
<1>4. BookType'
  BY Who DEF CloudInv, BookType, ResumeClaim
<1>5. PcType'
  BY DEF CloudInv, PcType, WorkerStep, RequestStep, ResumeClaim, Goto
<1>6. ResType'
  <2>1. res' = [q \in Resumer |-> res'[q]]
    BY <1>t DEF CloudInv, ResType
  <2>2. \A q \in Resumer : res[q].woken \in BOOLEAN
    BY DEF CloudInv, ResType
  <2>3. \A q \in Resumer :
          res'[q] \in [woken : BOOLEAN, prev : Record \cup {NoRecord}, res :
             Nat]
    <3> SUFFICES ASSUME NEW q \in Resumer
                 PROVE  res'[q] \in [woken : BOOLEAN,
                                     prev : Record \cup {NoRecord}, res : Nat]
      OBVIOUS
    <3>1. CASE q # r
      BY <1>r, <3>1 DEF CloudInv, ResType
    <3>2. CASE q = r
      <4>1. PICK n \in Nat : res'[q] = [woken |-> res[q].woken,
                                        prev |-> Snapshot(task), res |-> n]
        BY <1>r, <3>2
      <4> QED  BY <1>s, <2>2, <4>1
    <3> QED  BY <3>1, <3>2
  <2> QED  BY <2>1, <2>3 DEF ResType
<1>7. Places'
  BY Who DEF CloudInv, Places, ResumeClaim, Goto, RequestStep
<1>8. Lock'
  BY Who DEF CloudInv, Lock, Holds, Launching, ResumeClaim, Goto, PcType
<1>9. AtWork'
  BY DEF CloudInv, AtWork, Holds, Launching, Finished, ResumeClaim, Goto,
      Meets, Resumable, Claimed, Snapshot
<1>10. Known'
  BY DEF CloudInv, Known, ResumeClaim, Meets, Resumable, Claimed, Snapshot
<1>11. Origins'
  <2>1. task'.status = "pending"
    BY <1>t
  <2>2. \A q \in Resumer \ {r} : pc'[q] = pc[q]
    BY Who DEF ResumeClaim, Goto, CloudInv, PcType
  <2>3. res'[r].prev.status \in Terminal
    <3>1. PICK n \in Nat : res'[r] = [woken |-> res[r].woken,
                                      prev |-> Snapshot(task), res |-> n]
      BY <1>r
    <3> QED  BY <1>s, <3>1
  <2> QED  BY <1>r, <2>1, <2>2, <2>3 DEF CloudInv, Origins
<1>12. Sweeping'
  <2>1. pc["sweep"] # "idle" => overlap'
    BY DEF ResumeClaim, Meets, Overlaps, CloudInv, Places
  <2>2. pc'["sweep"] = pc["sweep"]
    BY Who DEF ResumeClaim, Goto, SaveThen, Arrives, CloudInv, PcType
  <2> QED  BY <2>1, <2>2 DEF Sweeping
<1>13. Quiet'
  BY DEF CloudInv, Quiet, ResumeClaim, Overlaps
<1>14. Deleting'
  BY Who DEF CloudInv, Deleting, ResumeClaim, Goto, Meets, Overlaps,
      Resumable, Claimed, Snapshot, PcType
<1>15. UsageCovers'
  BY DEF CloudInv, UsageCovers, ResumeClaim, Goto, Meets, Overlaps,
      Resumable, Claimed, Snapshot
<1>16. CloudCovers'
  BY Who DEF CloudInv, CloudCovers, ResumeClaim, Meets, Overlaps, Resumable,
      Claimed, Snapshot, BookType, TaskType, DelType
<1> QED  BY <1>1, <1>2, <1>3, <1>4, <1>5, <1>6, <1>7, <1>8, <1>9, <1>10,
    <1>11, <1>12, <1>13, <1>14, <1>15, <1>16 DEF CloudInv

\* ResumeTask finds the task gone or running.
LEMMA ResumeRefusedStep ==
    ASSUME CloudInv, NEW r \in Resumer, ResumeRefused(r)
    PROVE  CloudInv'
<1>1. TaskType' /\ AcctType' /\ MarkType' /\ JsonType' /\ DiskType' /\
    BookType' /\ SaveType' /\ DlType' /\ DelType' /\ ResType' /\ ItemType' /\
    CountType' /\ Known' /\ Quiet' /\ CloudCovers'
  BY DEF CloudInv, TaskType, AcctType, MarkType, JsonType, DiskType,
      BookType, SaveType, DlType, DelType, ResType, ItemType, CountType,
      Known, Quiet, CloudCovers, ResumeRefused, books, held, ghost
<1>2. PcType'
  BY DEF CloudInv, PcType, WorkerStep, RequestStep, ResumeRefused, Goto
<1>3. Places'
  BY Who DEF CloudInv, Places, ResumeRefused, Goto, RequestStep
<1>4. Lock'
  BY DEF CloudInv, Lock, Holds, Launching, ResumeRefused, Goto
<1>5. AtWork'
  BY DEF CloudInv, AtWork, Holds, Launching, Finished, ResumeRefused, Goto
<1>6. Origins'
  BY DEF CloudInv, Origins, ResumeRefused, Goto, held
<1>7. Sweeping'
  BY DEF CloudInv, Sweeping, ResumeRefused, Goto, held, ghost
<1>8. Deleting'
  BY Who DEF CloudInv, Deleting, ResumeRefused, Goto, held, ghost
<1>9. UsageCovers'
  BY DEF CloudInv, UsageCovers, ResumeRefused, Goto, books, ghost
<1> QED  BY <1>1, <1>2, <1>3, <1>4, <1>5, <1>6, <1>7, <1>8, <1>9 DEF CloudInv

\* ResumeTask finds no room for its placeholder.
LEMMA ResumeStorageFullStep ==
    ASSUME CloudInv, NEW r \in Resumer, ResumeStorageFull(r)
    PROVE  CloudInv'
<1>c. Claimed = [in |-> task.in, status |-> "pending", submitted |->
   task.submitted,
                 done |-> FALSE, damaged |-> FALSE, reserved |->
                    task.reserved]
  BY ClaimedIs DEF CloudInv
<1>e. /\ TaskType' /\ AcctType' /\ BookType' /\ ~running'
      /\ task'.in = task.in /\ task'.status \in {task.status}
      /\ \E k \in Nat : /\ k <= task.reserved /\ cloud' = cloud - k
                        /\ task'.reserved <= task.reserved - k
      /\ ReleaseScope \/ UNCHANGED <<acct, usage>>
      /\ ~task.in \/ task'.status = "cancelled" => ReleaseScope
      /\ task.in /\ task.status \in Terminal /\ task.reserved = 0
  <2>1. /\ AcctType /\ BookType /\ TaskType /\ task.in
        /\ task.status \in Status /\ task.status \in Terminal
        /\ task.reserved = 0
    BY DEF ResumeStorageFull, Resumable, CloudInv, Status, Terminal
  <2>2. Claimed \in [in : BOOLEAN, status : Status \cup {"none"},
                     submitted : BOOLEAN, done : BOOLEAN,
                     damaged : BOOLEAN, reserved : Nat]
    BY <1>c, <2>1, TaskIs DEF Status
  <2>3. /\ Claimed.in = task.in /\ Claimed.status = "pending"
        /\ Claimed.reserved = task.reserved
    BY <1>c
  <2>4. Rollback(r, Claimed, task.status, 0) /\ 0 \in Nat
    BY DEF ResumeStorageFull
  <2> HIDE DEF Claimed
  <2>5. /\ TaskType' /\ AcctType' /\ BookType' /\ ~running'
        /\ task'.in = Claimed.in
        /\ Claimed.in /\ Claimed.status = "pending" =>
              task'.status = task.status
        /\ \E k \in {0, 0} : /\ k <= Claimed.reserved /\ cloud' = cloud - k
                             /\ task'.reserved <= Claimed.reserved - k
        /\ ReleaseScope \/ UNCHANGED <<acct, usage>>
        /\ ~Claimed.in \/ task'.status = "cancelled" => ReleaseScope
    BY <2>1, <2>2, <2>4, RollbackEffect
  <2>6. \E k \in Nat : /\ k <= task.reserved /\ cloud' = cloud - k
                       /\ task'.reserved <= task.reserved - k
    BY <2>3, <2>5
  <2> QED  BY <2>1, <2>3, <2>5, <2>6
<1>1. JsonType' /\ DiskType' /\ SaveType' /\ DlType' /\ DelType' /\ ItemType'
    /\ CountType'
  BY DEF CloudInv, JsonType, DiskType, SaveType, DlType, DelType, ItemType,
      CountType, ResumeStorageFull
<1>2. TaskType'
  BY <1>e
<1>3. AcctType'
  BY <1>e
<1>4. MarkType'
  BY DEF CloudInv, MarkType, ResumeStorageFull, Rollback, ghost
<1>5. BookType'
  BY DEF CloudInv, BookType, ResumeStorageFull, Rollback, ReleaseScope,
      AcctType
<1>6. PcType'
  BY DEF CloudInv, PcType, WorkerStep, RequestStep, ResumeStorageFull,
      Rollback, Goto
<1>7. ResType'
  BY DEF CloudInv, ResType, ResumeStorageFull, SignalStopped, Woken,
      Resumable, Claimed
<1>8. Places'
  BY Who DEF CloudInv, Places, ResumeStorageFull, Rollback, Goto, RequestStep
<1>9. Lock'
  BY DEF CloudInv, Lock, Holds, Launching, ResumeStorageFull, Rollback, Goto
<1>10. AtWork'
  BY DEF CloudInv, AtWork, Holds, Launching, Finished, ResumeStorageFull,
      Rollback, Goto, Lock
<1>11. Known'
  BY DEF CloudInv, Known, ResumeStorageFull, Resumable, Claimed, Rollback,
      ReleaseScope, TaskType
<1>12. Origins'
  <2>1. task'.status # "none"
    BY <1>e DEF Terminal
  <2>2. /\ pc'[r] = "idle"
        /\ \A q \in Resumer \ {r} : pc'[q] = pc[q]
    BY Who DEF ResumeStorageFull, Rollback, Goto, CloudInv, PcType
  <2>3. \A q \in Resumer \ {r} : res'[q] = [res[q] EXCEPT !.woken = pc[q] =
     "wait"]
    BY DEF ResumeStorageFull, SignalStopped, Woken
  <2>4. \A q \in Resumer \ {r} : res'[q].prev = res[q].prev
    BY <2>3 DEF CloudInv, ResType
  <2> QED  BY <2>1, <2>2, <2>4 DEF CloudInv, Origins
<1>13. Sweeping'
  <2>1. overlap' = overlap /\ item' = item /\ pc'["sweep"] = pc["sweep"]
    BY Who DEF ResumeStorageFull, Rollback, Goto, ghost, CloudInv, PcType
  <2> SUFFICES ASSUME ~overlap, pc["sweep"] # "idle"
               PROVE  /\ task'.in /\ ~running'
                      /\ task'.status \in Terminal \cup {"pending"}
                      /\ item.res <= task'.reserved /\ item.com <= acct'.com
    BY <2>1 DEF Sweeping
  <2>2. item.res <= task.reserved /\ item.com <= acct.com
    BY DEF CloudInv, Sweeping
  <2>3. task'.reserved = 0 /\ item.res <= task'.reserved
    <3>1. task.reserved = 0 /\ task'.reserved \in Nat /\ item.res \in Nat
      BY <1>e DEF TaskType, CloudInv, ItemType
    <3>2. PICK k \in Nat : task'.reserved <= task.reserved - k
      BY <1>e
    <3> QED  BY <2>2, <3>1, <3>2
  <2>4. acct' = acct
    <3>1. task.status = "cancelled" => ~acct.open
      BY <1>e DEF CloudInv, Quiet, ResumeStorageFull
    <3>2. CASE ~acct.open
      BY <1>e, <3>2 DEF ReleaseScope
    <3>3. CASE acct.open
      <4>1. Claimed.in /\ Claimed.status = "pending" /\ Claimed.reserved = 0
        BY <1>c, <1>e
      <4>2. task.status # "cancelled"
        BY <3>1, <3>3
      <4> QED  BY <1>c, <4>1, <4>2, Who DEF ResumeStorageFull, Rollback
    <3> QED  BY <3>2, <3>3
  <2> QED  BY <1>e, <2>2, <2>3, <2>4
<1>14. Quiet'
  BY DEF CloudInv, Quiet, ResumeStorageFull, Resumable, Claimed, Rollback,
      ReleaseScope, ghost, TaskType
<1>15. Deleting'
  BY Who DEF CloudInv, Deleting, ResumeStorageFull, Resumable, Claimed,
      Rollback, Goto, ghost
<1>16. UsageCovers'
  BY DEF CloudInv, UsageCovers, ResumeStorageFull, Resumable, Claimed,
      Rollback, Goto, ReleaseScope, ghost, BookType, AcctType
<1>17. CloudCovers'
  <2>1. /\ overlap' = overlap /\ del' = del /\ CloudCovers
        /\ cloud \in Int /\ task.reserved \in Nat /\ del.res \in Nat
    BY TaskIs DEF ResumeStorageFull, ghost, CloudInv, BookType, DelType
  <2>2. task'.reserved \in Nat
    BY <1>e DEF TaskType
  <2>3. PICK k \in Nat : /\ k <= task.reserved /\ cloud' = cloud - k
                         /\ task'.reserved <= task.reserved - k
    BY <1>e
  <2> QED  BY <2>1, <2>2, <2>3 DEF CloudCovers
<1> QED  BY <1>1, <1>2, <1>3, <1>4, <1>5, <1>6, <1>7, <1>8, <1>9, <1>10,
    <1>11, <1>12, <1>13, <1>14, <1>15, <1>16, <1>17 DEF CloudInv

\* ResumeTask rolls back after its window.
LEMMA ResumeTenantGoneStep ==
    ASSUME CloudInv, NEW r \in Resumer, ResumeTenantGone(r)
    PROVE  CloudInv'
<1>k. task.status # "none" /\ res[r].prev.status \in Terminal
  BY Who DEF CloudInv, AtWork, Holds, Launching, Origins, ResumeTenantGone
<1>e. /\ TaskType' /\ AcctType' /\ BookType' /\ ~running'
      /\ task'.in = task.in /\ task'.status \in {task.status,
         res[r].prev.status}
      /\ \E k \in Nat : /\ k <= task.reserved /\ cloud' = cloud - k
                        /\ task'.reserved <= task.reserved - k
      /\ ReleaseScope \/ UNCHANGED <<acct, usage>>
      /\ ~task.in \/ task'.status = "cancelled" => ReleaseScope
  <2>1. AcctType /\ BookType /\ TaskType
    BY DEF CloudInv
  <2>2. task \in [in : BOOLEAN, status : Status \cup {"none"},
                  submitted : BOOLEAN, done : BOOLEAN,
                  damaged : BOOLEAN, reserved : Nat]
    BY <2>1 DEF TaskType
  <2>3. res[r].prev.status \in Status /\ res[r].res \in Nat
    BY <1>k DEF CloudInv, ResType, Status, Terminal
  <2>4. Rollback(r, task, res[r].prev.status, res[r].res)
    BY DEF ResumeTenantGone
  <2> QED  BY <2>1, <2>2, <2>3, <2>4, RollbackEffect
<1>1. JsonType' /\ DiskType' /\ SaveType' /\ DlType' /\ DelType' /\ ItemType'
    /\ CountType'
  BY DEF CloudInv, JsonType, DiskType, SaveType, DlType, DelType, ItemType,
      CountType, ResumeTenantGone
<1>2. TaskType'
  BY <1>e
<1>3. AcctType'
  BY <1>e
<1>4. MarkType'
  BY DEF CloudInv, MarkType, ResumeTenantGone, Rollback, ghost
<1>5. BookType'
  BY <1>e
<1>6. PcType'
  BY DEF CloudInv, PcType, WorkerStep, RequestStep, ResumeTenantGone,
      Rollback, Goto
<1>7. ResType'
  BY DEF CloudInv, ResType, ResumeTenantGone, Woken, NoResume
<1>8. Places'
  BY Who DEF CloudInv, Places, ResumeTenantGone, Rollback, Goto, RequestStep
<1>9. Lock'
  BY Who DEF CloudInv, Lock, Holds, Launching, ResumeTenantGone, Rollback,
      Goto, PcType
<1>10. AtWork'
  BY Who DEF CloudInv, AtWork, Holds, Launching, Finished, ResumeTenantGone,
      Rollback, Goto, PcType, Lock
<1>11. Known'
  BY <1>k, <1>e DEF Known, Terminal
<1>12. Origins'
  <2>1. task'.status # "none"
    BY <1>k, <1>e DEF Terminal
  <2>2. /\ pc'[r] = "idle"
        /\ \A q \in Resumer \ {r} : pc'[q] = pc[q]
    BY Who DEF ResumeTenantGone, Rollback, Goto, CloudInv, PcType
  <2>3. \A q \in Resumer \ {r} : res'[q] = [res[q] EXCEPT !.woken = pc[q] =
     "wait"]
    BY DEF ResumeTenantGone, SignalStopped, Woken
  <2>4. \A q \in Resumer \ {r} : res'[q].prev = res[q].prev
    BY <2>3 DEF CloudInv, ResType
  <2> QED  BY <2>1, <2>2, <2>4 DEF CloudInv, Origins
<1>13. Sweeping'
  BY Who DEF CloudInv, Sweeping, ResumeTenantGone, Rollback, Goto,
      ReleaseScope, ghost, Lock, Holds, Launching
<1>14. Quiet'
  <2>1. AcctType /\ BookType
    BY DEF CloudInv
  <2>2. task'.in /\ task'.status = "cancelled" => ~acct'.open
    BY <1>e, <2>1, ReleaseScopeEffect
  <2> QED  BY <2>2 DEF Quiet
<1>15. Deleting'
  BY Who DEF CloudInv, Deleting, ResumeTenantGone, Rollback, Goto, ghost,
      TaskType
<1>16. UsageCovers'
  BY Who DEF CloudInv, UsageCovers, ResumeTenantGone, Rollback, Goto,
      ReleaseScope, ghost, BookType, AcctType, Lock, Holds, Launching
<1>17. CloudCovers'
  <2>1. /\ overlap' = overlap /\ del' = del /\ CloudCovers
        /\ cloud \in Int /\ task.reserved \in Nat /\ del.res \in Nat
    BY TaskIs DEF ResumeTenantGone, ghost, CloudInv, BookType, DelType
  <2>2. task'.reserved \in Nat
    BY <1>e DEF TaskType
  <2>3. PICK k \in Nat : /\ k <= task.reserved /\ cloud' = cloud - k
                         /\ task'.reserved <= task.reserved - k
    BY <1>e
  <2> QED  BY <2>1, <2>2, <2>3 DEF CloudCovers
<1> QED  BY <1>1, <1>2, <1>3, <1>4, <1>5, <1>6, <1>7, <1>8, <1>9, <1>10,
    <1>11, <1>12, <1>13, <1>14, <1>15, <1>16, <1>17 DEF CloudInv

\* ResumeTask keeps the files.
LEMMA ResumeKeepStep ==
    ASSUME CloudInv, NEW r \in Resumer, ResumeKeep(r)
    PROVE  CloudInv'
<1>1. TaskType' /\ AcctType' /\ MarkType' /\ JsonType' /\ DiskType' /\
    BookType' /\ DlType' /\ DelType' /\ ItemType' /\ CountType' /\ Known' /\
    Quiet' /\ CloudCovers'
  BY DEF CloudInv, TaskType, AcctType, MarkType, JsonType, DiskType,
      BookType, DlType, DelType, ItemType, CountType, Known, Quiet,
      CloudCovers, ResumeKeep, books, ghost
<1>2. PcType'
  BY DEF CloudInv, PcType, WorkerStep, RequestStep, ResumeKeep, SaveThen
<1>3. SaveType'
  BY Who DEF CloudInv, SaveType, WorkerStep, RequestStep, Record, ResumeKeep,
      SaveThen
<1>4. ResType'
  BY DEF CloudInv, ResType, ResumeKeep, NoResume
<1>5. Places'
  BY Who DEF CloudInv, Places, ResumeKeep, SaveThen, SaveType, RequestStep
<1>6. Lock'
  BY DEF CloudInv, Lock, Holds, Launching, ResumeKeep, SaveThen, SaveType
<1>7. AtWork'
  BY DEF CloudInv, AtWork, Holds, Launching, Finished, ResumeKeep, SaveThen
<1>8. Origins'
  BY Who DEF CloudInv, Origins, ResumeKeep, SaveThen, PcType
<1>9. Sweeping'
  BY DEF CloudInv, Sweeping, ResumeKeep, SaveThen, ghost
<1>10. Deleting'
  BY DEF CloudInv, Deleting, ResumeKeep, SaveThen, ghost
<1>11. UsageCovers'
  BY DEF CloudInv, UsageCovers, ResumeKeep, SaveThen, books, ghost
<1> QED  BY <1>1, <1>2, <1>3, <1>4, <1>5, <1>6, <1>7, <1>8, <1>9, <1>10, <1>11
    DEF CloudInv

\* ResumeTask discards the files and gives their bytes back.
LEMMA ResumeForceStep ==
    ASSUME CloudInv, NEW r \in Resumer, ResumeForce(r)
    PROVE  CloudInv'
<1>k. task.status # "none"
  BY Who DEF CloudInv, AtWork, Holds, Launching, ResumeForce
<1>d. /\ DiskType' /\ CountType'
      /\ DiskUsage(disk) - DiskUsage(disk') \in Nat
  <2>1. DiskType /\ CountType
    BY DEF CloudInv
  <2>2. PICK p \in {0, disk.partial}, d \in {0, disk.dest} :
           Discarded([disk EXCEPT !.partial = p, !.dest = d])
    BY DEF ResumeForce
  <2>3. disk' = [dir |-> disk.dir, partial |-> p, dest |-> d]
    BY <2>1, <2>2, DiskIs DEF Discarded
  <2>4. faults' = faults \/ Fault
    BY <2>2 DEF Discarded
  <2>5. CountType'
    BY <2>1, <2>4, BoundAssumption DEF CountType, Fault, ResumeForce
  <2>6. /\ p \in Nat /\ d \in Nat /\ disk.partial \in Nat
        /\ disk.dest \in Nat /\ p <= disk.partial /\ d <= disk.dest
    BY <2>1, DiskIs, FileSizeAssumption
  <2>7. DiskUsage(disk) - DiskUsage(disk') \in Nat
    <3>1. disk'.partial = p /\ disk'.dest = d
      BY <2>3
    <3> QED  BY <2>6, <3>1 DEF DiskUsage
  <2> QED  BY <2>1, <2>3, <2>5, <2>7, DiskIs DEF DiskType
<1>a. \E k \in Nat :
         /\ k <= acct.com /\ usage' = usage - k
         /\ acct'.open = acct.open /\ acct'.res = acct.res
         /\ acct'.com = acct.com - k
         /\ acct' = [acct EXCEPT !.com = acct.com - k]
  <2> DEFINE n == DiskUsage(disk) - DiskUsage(disk')
             k == IF acct.open THEN Least(n, acct.com) ELSE 0
  <2>1. AcctType
    BY DEF CloudInv
  <2>2. n \in Nat /\ acct.com \in Nat
    BY <1>d, <2>1, AcctIs
  <2> HIDE DEF n
  <2>3. k \in Nat /\ k <= acct.com
    BY <2>2 DEF Least
  <2>4. acct' = [acct EXCEPT !.com = acct.com - k] /\ usage' = usage - k
    BY DEF ResumeForce, n
  <2> HIDE DEF k
  <2>5. /\ acct'.open = acct.open /\ acct'.res = acct.res
        /\ acct'.com = acct.com - k
    BY <2>1, <2>4 DEF AcctType
  <2> QED  BY <2>3, <2>4, <2>5
<1>1. TaskType' /\ MarkType' /\ JsonType' /\ DlType' /\ DelType' /\ ItemType'
    /\ CloudCovers'
  BY DEF CloudInv, TaskType, MarkType, JsonType, DlType, DelType, ItemType,
      CloudCovers, ResumeForce, ghost
<1>2. AcctType'
  <2>1. PICK k \in Nat : /\ k <= acct.com
                         /\ acct' = [acct EXCEPT !.com = acct.com - k]
    BY <1>a
  <2> QED  BY <2>1 DEF CloudInv, AcctType
<1>4. BookType'
  BY <1>a DEF CloudInv, BookType, ResumeForce
<1>5. PcType'
  BY DEF CloudInv, PcType, WorkerStep, RequestStep, ResumeForce, SaveThen
<1>6. SaveType'
  BY DEF CloudInv, SaveType, WorkerStep, RequestStep, Record, ResumeForce,
      SaveThen
<1>7. ResType'
  BY DEF CloudInv, ResType, ResumeForce, NoResume, Least, DiskUsage
<1>8. Places'
  BY Who DEF CloudInv, Places, ResumeForce, SaveThen, SaveType, RequestStep
<1>9. Lock'
  BY DEF CloudInv, Lock, Holds, Launching, ResumeForce, SaveThen, SaveType
<1>10. AtWork'
  BY DEF CloudInv, AtWork, Holds, Launching, Finished, ResumeForce, SaveThen
<1>11. Known'
  BY <1>k DEF Known, ResumeForce
<1>12. Origins'
  BY Who DEF CloudInv, Origins, ResumeForce, SaveThen, PcType
<1>13. Sweeping'
  BY Who DEF CloudInv, Sweeping, ResumeForce, SaveThen, ghost, Lock, Holds,
      Launching
<1>14. Quiet'
  BY DEF CloudInv, Quiet, ResumeForce, ghost
<1>15. Deleting'
  BY DEF CloudInv, Deleting, ResumeForce, SaveThen, ghost
<1>16. UsageCovers'
  <2>1. /\ overlap' = overlap /\ running' = running /\ task' = task
        /\ pc'["delete"] = pc["delete"] /\ UsageCovers /\ running
        /\ usage \in Int /\ acct.com \in Nat /\ acct.res \in Nat
    BY Who, AcctIs
       DEF ResumeForce, SaveThen, ghost, CloudInv, PcType, Lock, Holds,
           Launching, BookType
  <2>2. PICK k \in Nat : /\ k <= acct.com /\ usage' = usage - k
                         /\ acct'.res = acct.res /\ acct'.com = acct.com - k
    BY <1>a
  <2> QED  BY <2>1, <2>2 DEF UsageCovers
<1> QED  BY <1>d, <1>1, <1>2, <1>4, <1>5, <1>6, <1>7, <1>8, <1>9, <1>10,
    <1>11, <1>12, <1>13, <1>14, <1>15, <1>16 DEF CloudInv

\* ResumeTask hands the mark to the goroutine it starts.
LEMMA ResumeLaunchStep ==
    ASSUME CloudInv, NEW r \in Resumer, ResumeLaunch(r)
    PROVE  CloudInv'
<1>1. TaskType' /\ AcctType' /\ MarkType' /\ JsonType' /\ DiskType' /\
    BookType' /\ SaveType' /\ DelType' /\ ResType' /\ ItemType' /\ CountType'
    /\ Known' /\ Quiet' /\ CloudCovers'
  BY DEF CloudInv, TaskType, AcctType, MarkType, JsonType, DiskType,
      BookType, SaveType, DelType, ResType, ItemType, CountType, Known, Quiet,
      CloudCovers, ResumeLaunch, books, held, ghost
<1>2. PcType'
  BY DEF CloudInv, PcType, WorkerStep, RequestStep, ResumeLaunch
<1>3. DlType'
  BY LaunchEffect DEF ResumeLaunch, Ready, CloudInv
<1>4. Places'
  <2>1. PICK v \in Ready : pc' = [pc EXCEPT ![r] = "idle", ![v] = "start"]
    BY DEF ResumeLaunch
  <2>2. /\ v \in Worker /\ v # r /\ r \notin {"delete", "sweep"}
        /\ r \in Actor /\ save' = save
        /\ r \in Worker => "idle" \in WorkerStep
        /\ r \in Request => "idle" \in RequestStep
    BY <2>1, Who DEF Ready, ResumeLaunch, WorkerStep, RequestStep
  <2>3. CloudInv /\ "idle" \notin {"save", "write"}
    OBVIOUS
  <2> QED  BY ONLY <2>1, <2>2, <2>3, LaunchPlaces
<1>5. Lock'
  BY Who DEF CloudInv, Lock, Holds, Launching, ResumeLaunch, Ready, PcType
<1>6. AtWork'
  BY Who DEF CloudInv, AtWork, Holds, Launching, Finished, ResumeLaunch
<1>7. Origins'
  BY Who DEF CloudInv, Origins, ResumeLaunch, Ready, held, PcType
<1>8. Sweeping'
  BY Who DEF CloudInv, Sweeping, ResumeLaunch, Ready, held, ghost, PcType
<1>9. Deleting'
  BY Who DEF CloudInv, Deleting, ResumeLaunch, Ready, held, ghost, PcType
<1>10. UsageCovers'
  BY Who DEF CloudInv, UsageCovers, ResumeLaunch, Ready, books, ghost, PcType
<1> QED  BY <1>1, <1>2, <1>3, <1>4, <1>5, <1>6, <1>7, <1>8, <1>9, <1>10 DEF
    CloudInv

\* The flush loop saves a task whose progress moved.
LEMMA FlushDirtyStep ==
    ASSUME CloudInv, FlushDirty
    PROVE  CloudInv'
<1>1. TaskType' /\ AcctType' /\ JsonType' /\ DiskType' /\ BookType' /\ DlType'
    /\ DelType' /\ ResType' /\ ItemType' /\ Known' /\ Quiet' /\ CloudCovers'
  BY DEF CloudInv, TaskType, AcctType, JsonType, DiskType, BookType, DlType,
      DelType, ResType, ItemType, Known, Quiet, CloudCovers, FlushDirty,
      Arrives, books, held, ghost
<1>2. MarkType'
  BY DEF CloudInv, MarkType, FlushDirty, Arrives, ghost
<1>3. PcType'
  BY DEF CloudInv, PcType, WorkerStep, RequestStep, FlushDirty, SaveThen,
      Arrives
<1>4. SaveType'
  BY DEF CloudInv, SaveType, WorkerStep, RequestStep, Record, FlushDirty,
      SaveThen, Arrives
<1>5. CountType'
  BY Who DEF CloudInv, CountType, FlushDirty, Arrives
<1>6. Places'
  <2>1. CASE UNCHANGED <<pc, save>>
    BY <2>1 DEF CloudInv, Places
  <2>2. CASE SaveThen("flush", "idle")
    <3>1. /\ pc'["flush"] = "save" /\ save'["flush"].next = "idle"
          /\ \A b \in Actor \ {"flush"} : pc'[b] = pc[b] /\ save'[b] = save[b]
      BY <2>2, Who DEF SaveThen, CloudInv, PcType, SaveType
    <3>2. {"flush"} \in SUBSET Actor /\ Places
      BY Who DEF CloudInv
    <3>3. \A a \in {"flush"} :
             /\ pc'[a] \in RequestStep /\ a \notin Worker /\ a \notin Resumer
             /\ save'[a].next = "idle"
      BY <3>1, Who DEF RequestStep
    <3> QED  BY ONLY <3>1, <3>2, <3>3, PlacesMove
  <2> QED  BY <2>1, <2>2 DEF FlushDirty
<1>7. Lock'
  BY DEF CloudInv, Lock, Holds, Launching, FlushDirty, SaveThen, Arrives,
      Idle, PcType, SaveType
<1>8. AtWork'
  BY DEF CloudInv, AtWork, Holds, Launching, Finished, FlushDirty, SaveThen,
      Arrives, Idle, PcType, SaveType
<1>9. Origins'
  BY Who DEF CloudInv, Origins, FlushDirty, SaveThen, Arrives, held, PcType
<1>10. Sweeping'
  BY Who DEF CloudInv, Sweeping, FlushDirty, SaveThen, Arrives, held, ghost,
      PcType
<1>11. Deleting'
  BY Who DEF CloudInv, Deleting, FlushDirty, SaveThen, Arrives, held, ghost,
      PcType
<1>12. UsageCovers'
  BY DEF CloudInv, UsageCovers, FlushDirty, SaveThen, Arrives, books, ghost
<1> QED  BY <1>1, <1>2, <1>3, <1>4, <1>5, <1>6, <1>7, <1>8, <1>9, <1>10,
    <1>11, <1>12 DEF CloudInv

\* CancelTask publishes the status and releases the cloud ledger.
LEMMA CancelTaskStep ==
    ASSUME CloudInv, CancelTask
    PROVE  CloudInv'
<1>1. JsonType' /\ DiskType' /\ SaveType' /\ DelType' /\ ResType' /\ ItemType'
  BY DEF CloudInv, JsonType, DiskType, SaveType, DelType, ResType, ItemType,
      CancelTask, Arrives, held
<1>2. TaskType'
  BY DEF CloudInv, TaskType, Status, CancelTask, Arrives
<1>3. AcctType'
  <2>1. AcctType /\ BookType
    BY DEF CloudInv
  <2>2. ReleaseScope \/ acct' = acct
    BY DEF CancelTask
  <2> QED  BY <2>1, <2>2, ReleaseScopeEffect DEF AcctType
<1>4. MarkType'
  BY DEF CloudInv, MarkType, CancelTask, Meets, Overlaps, CallCancelFn,
      Arrives, Idle
<1>5. BookType'
  BY DEF CloudInv, BookType, CancelTask, ReleaseScope, Arrives, TaskType,
      AcctType
<1>6. PcType'
  BY DEF CloudInv, PcType, WorkerStep, RequestStep, CancelTask, Goto, Arrives
<1>7. DlType'
  BY CallCancelEffect DEF CancelTask, CloudInv
<1>8. CountType'
  BY Who DEF CloudInv, CountType, CancelTask, Arrives
<1>9. Places'
  BY Who DEF CloudInv, Places, CancelTask, Goto, Arrives, RequestStep
<1>10. Lock'
  BY DEF CloudInv, Lock, Holds, Launching, CancelTask, Goto, Meets, Arrives,
      Idle
<1>11. AtWork'
  BY DEF CloudInv, AtWork, Holds, Launching, Finished, CancelTask, Goto,
      Arrives
<1>12. Known'
  BY DEF CloudInv, Known, CancelTask, ReleaseScope, Arrives
<1>13. Origins'
  BY DEF CloudInv, Origins, CancelTask, Goto, Arrives, held
<1>14. Sweeping'
  <2>1. pc["sweep"] # "idle" => overlap'
    BY DEF CancelTask, Meets, Overlaps, CloudInv, Places
  <2>2. pc'["sweep"] = pc["sweep"]
    BY Who DEF CancelTask, Goto, SaveThen, Arrives, CloudInv, PcType
  <2> QED  BY <2>1, <2>2 DEF Sweeping
<1>15. Quiet'
  BY DEF CloudInv, Quiet, CancelTask, Overlaps, ReleaseScope, Arrives
<1>16. Deleting'
  BY Who DEF CloudInv, Deleting, CancelTask, Goto, Meets, Overlaps, Arrives,
      Idle, held, PcType
<1>17. UsageCovers'
  BY DEF CloudInv, UsageCovers, CancelTask, Goto, Meets, Overlaps,
      ReleaseScope, Arrives, Idle, BookType, AcctType, TaskType
<1>18. CloudCovers'
  BY DEF CloudInv, CloudCovers, CancelTask, Meets, Overlaps, Arrives, Idle,
      held, BookType, TaskType, DelType
<1> QED  BY <1>1, <1>2, <1>3, <1>4, <1>5, <1>6, <1>7, <1>8, <1>9, <1>10,
    <1>11, <1>12, <1>13, <1>14, <1>15, <1>16, <1>17, <1>18 DEF CloudInv

\* CancelTask removes the files.
LEMMA CancelRemoveStep ==
    ASSUME CloudInv, CancelRemove
    PROVE  CloudInv'
<1>1. TaskType' /\ AcctType' /\ MarkType' /\ JsonType' /\ BookType' /\
    DelType' /\ ResType' /\ ItemType' /\ Known' /\ Quiet' /\ CloudCovers'
  BY DEF CloudInv, TaskType, AcctType, MarkType, JsonType, BookType, DelType,
      ResType, ItemType, Known, Quiet, CloudCovers, CancelRemove, books, held,
      ghost
<1>2. DiskType'
  BY RemoveOrNot DEF CancelRemove, TryRemoveDir, CloudInv
<1>3. PcType'
  BY DEF CloudInv, PcType, WorkerStep, RequestStep, CancelRemove, SaveThen
<1>4. SaveType'
  BY Who DEF CloudInv, SaveType, WorkerStep, RequestStep, Record,
      CancelRemove, SaveThen
<1>5. DlType'
  BY RemoveOrNot DEF CancelRemove, TryRemoveDir, CloudInv
<1>6. CountType'
  BY Who DEF CloudInv, CountType, CancelRemove, TryRemoveDir, Fault
<1>7. Places'
  BY Who DEF CloudInv, Places, CancelRemove, SaveThen, SaveType, RequestStep
<1>8. Lock'
  BY Who DEF CloudInv, Lock, Holds, Launching, CancelRemove, SaveThen
<1>9. AtWork'
  BY Who DEF CloudInv, AtWork, Holds, Launching, Finished, CancelRemove,
      SaveThen
<1>10. Origins'
  BY DEF CloudInv, Origins, CancelRemove, SaveThen, held
<1>11. Sweeping'
  BY DEF CloudInv, Sweeping, CancelRemove, SaveThen, held, ghost
<1>12. Deleting'
  BY DEF CloudInv, Deleting, CancelRemove, SaveThen, held, ghost
<1>13. UsageCovers'
  BY DEF CloudInv, UsageCovers, CancelRemove, SaveThen, books, ghost
<1> QED  BY <1>1, <1>2, <1>3, <1>4, <1>5, <1>6, <1>7, <1>8, <1>9, <1>10,
    <1>11, <1>12, <1>13 DEF CloudInv

\* DeleteTask takes the task out of the table.
LEMMA DeleteTaskStep ==
    ASSUME CloudInv, DeleteTask
    PROVE  CloudInv'
<1>1. AcctType' /\ JsonType' /\ DiskType' /\ BookType' /\ SaveType' /\
    ResType' /\ ItemType'
  BY DEF CloudInv, AcctType, JsonType, DiskType, BookType, SaveType, ResType,
      ItemType, DeleteTask, Arrives, books
<1>2. TaskType'
  BY DEF CloudInv, TaskType, Status, DeleteTask, Arrives
<1>3. MarkType'
  BY DEF CloudInv, MarkType, DeleteTask, Meets, Overlaps, CallCancelFn,
      Arrives, Idle
<1>4. PcType'
  BY DEF CloudInv, PcType, WorkerStep, RequestStep, DeleteTask, Goto, Arrives
<1>5. DlType'
  BY CallCancelEffect DEF DeleteTask, CloudInv
<1>6. DelType'
  BY DEF CloudInv, DelType, DeleteTask, Arrives, TaskType, MarkType
<1>7. CountType'
  BY Who DEF CloudInv, CountType, DeleteTask, Arrives
<1>8. Places'
  BY Who DEF CloudInv, Places, DeleteTask, Goto, Arrives, RequestStep
<1>9. Lock'
  BY DEF CloudInv, Lock, Holds, Launching, DeleteTask, Goto, Meets, Arrives,
      Idle
<1>10. AtWork'
  BY DEF CloudInv, AtWork, Holds, Launching, Finished, DeleteTask, Goto,
      Arrives
<1>11. Known'
  BY DEF CloudInv, Known, DeleteTask, Arrives
<1>12. Origins'
  BY DEF CloudInv, Origins, DeleteTask, Goto, Arrives
<1>13. Sweeping'
  <2>1. pc["sweep"] # "idle" => overlap'
    BY DEF DeleteTask, Meets, Overlaps, CloudInv, Places
  <2>2. pc'["sweep"] = pc["sweep"]
    BY Who DEF DeleteTask, Goto, SaveThen, Arrives, CloudInv, PcType
  <2> QED  BY <2>1, <2>2 DEF Sweeping
<1>14. Quiet'
  BY DEF CloudInv, Quiet, DeleteTask, Overlaps, Arrives
<1>15. Deleting'
  BY Who DEF CloudInv, Deleting, DeleteTask, Goto, Overlaps, Arrives, PcType
<1>16. UsageCovers'
  BY DEF CloudInv, UsageCovers, DeleteTask, Goto, Meets, Overlaps, Arrives,
      Idle, books
<1>17. CloudCovers'
  BY DEF CloudInv, CloudCovers, DeleteTask, Meets, Overlaps, Arrives, Idle,
      books, BookType, TaskType, DelType
<1> QED  BY <1>1, <1>2, <1>3, <1>4, <1>5, <1>6, <1>7, <1>8, <1>9, <1>10,
    <1>11, <1>12, <1>13, <1>14, <1>15, <1>16, <1>17 DEF CloudInv

\* DeleteTask removes the files.
LEMMA DeleteFilesStep ==
    ASSUME CloudInv, DeleteFiles
    PROVE  CloudInv'
<1>1. TaskType' /\ AcctType' /\ MarkType' /\ JsonType' /\ BookType' /\
    SaveType' /\ DelType' /\ ResType' /\ ItemType' /\ Known' /\ Quiet' /\
    CloudCovers'
  BY DEF CloudInv, TaskType, AcctType, MarkType, JsonType, BookType,
      SaveType, DelType, ResType, ItemType, Known, Quiet, CloudCovers,
      DeleteFiles, books, held, ghost
<1>2. DiskType'
  BY RemoveOrNot DEF DeleteFiles, TryRemoveDir, CloudInv
<1>3. PcType'
  BY DEF CloudInv, PcType, WorkerStep, RequestStep, DeleteFiles, Goto
<1>4. DlType'
  BY RemoveOrNot DEF DeleteFiles, TryRemoveDir, CloudInv
<1>5. CountType'
  BY Who DEF CloudInv, CountType, DeleteFiles, TryRemoveDir, Fault
<1>6. Places'
  BY Who DEF CloudInv, Places, DeleteFiles, Goto, RequestStep
<1>7. Lock'
  BY DEF CloudInv, Lock, Holds, Launching, DeleteFiles, Goto
<1>8. AtWork'
  BY DEF CloudInv, AtWork, Holds, Launching, Finished, DeleteFiles, Goto
<1>9. Origins'
  BY DEF CloudInv, Origins, DeleteFiles, Goto, held
<1>10. Sweeping'
  BY DEF CloudInv, Sweeping, DeleteFiles, Goto, held, ghost
<1>11. Deleting'
  BY DEF CloudInv, Deleting, DeleteFiles, Goto, held, ghost
<1>12. UsageCovers'
  BY DEF CloudInv, UsageCovers, DeleteFiles, Goto, books, ghost
<1> QED  BY <1>1, <1>2, <1>3, <1>4, <1>5, <1>6, <1>7, <1>8, <1>9, <1>10,
    <1>11, <1>12 DEF CloudInv

\* DeleteTask removes the record.
LEMMA DeleteRecordStep ==
    ASSUME CloudInv, DeleteRecord
    PROVE  CloudInv'
<1>1. TaskType' /\ AcctType' /\ MarkType' /\ DiskType' /\ BookType' /\
    SaveType' /\ DlType' /\ DelType' /\ ResType' /\ ItemType' /\ CountType' /\
    Known' /\ Quiet' /\ CloudCovers'
  BY DEF CloudInv, TaskType, AcctType, MarkType, DiskType, BookType,
      SaveType, DlType, DelType, ResType, ItemType, CountType, Known, Quiet,
      CloudCovers, DeleteRecord, books, held, ghost
<1>2. JsonType'
  BY DEF CloudInv, JsonType, DeleteRecord
<1>3. PcType'
  BY DEF CloudInv, PcType, WorkerStep, RequestStep, DeleteRecord, Goto
<1>4. Places'
  BY Who DEF CloudInv, Places, DeleteRecord, Goto, RequestStep
<1>5. Lock'
  BY DEF CloudInv, Lock, Holds, Launching, DeleteRecord, Goto
<1>6. AtWork'
  BY DEF CloudInv, AtWork, Holds, Launching, Finished, DeleteRecord, Goto
<1>7. Origins'
  BY DEF CloudInv, Origins, DeleteRecord, Goto, held
<1>8. Sweeping'
  BY DEF CloudInv, Sweeping, DeleteRecord, Goto, held, ghost
<1>9. Deleting'
  BY DEF CloudInv, Deleting, DeleteRecord, Goto, held, ghost
<1>10. UsageCovers'
  BY DEF CloudInv, UsageCovers, DeleteRecord, Goto, books, ghost
<1> QED  BY <1>1, <1>2, <1>3, <1>4, <1>5, <1>6, <1>7, <1>8, <1>9, <1>10 DEF
    CloudInv

\* DeleteTask gives back what it captured.
LEMMA DeleteReleaseStep ==
    ASSUME CloudInv, DeleteRelease
    PROVE  CloudInv'
<1>1. JsonType' /\ DiskType' /\ SaveType' /\ DlType' /\ ResType' /\ ItemType'
    /\ CountType'
  BY DEF CloudInv, JsonType, DiskType, SaveType, DlType, ResType, ItemType,
      CountType, DeleteRelease
<1>2. TaskType'
  BY DEF CloudInv, TaskType, DeleteRelease
<1>3. AcctType'
  <2>1. AcctType /\ BookType
    BY DEF CloudInv
  <2>2. ReleaseScope \/ acct' = acct
    BY DEF DeleteRelease
  <2> QED  BY <2>1, <2>2, ReleaseScopeEffect DEF AcctType
<1>4. MarkType'
  BY DEF CloudInv, MarkType, DeleteRelease
<1>5. BookType'
  BY DEF CloudInv, BookType, DeleteRelease, ReleaseScope, books, AcctType,
      DelType
<1>6. PcType'
  BY DEF CloudInv, PcType, WorkerStep, RequestStep, DeleteRelease, Goto
<1>7. DelType'
  BY DEF CloudInv, DelType, DeleteRelease, NoDelete
<1>8. Places'
  BY Who DEF CloudInv, Places, DeleteRelease, Goto, RequestStep
<1>9. Lock'
  BY DEF CloudInv, Lock, Holds, Launching, DeleteRelease, Goto
<1>10. AtWork'
  BY DEF CloudInv, AtWork, Holds, Launching, Finished, DeleteRelease, Goto,
      TaskType
<1>11. Known'
  BY DEF CloudInv, Known, DeleteRelease, ReleaseScope, TaskType
<1>12. Origins'
  BY DEF CloudInv, Origins, DeleteRelease, Goto, TaskType
<1>13. Sweeping'
  <2>1. overlap' = overlap /\ pc["delete"] # "idle"
    BY DEF DeleteRelease
  <2>2. pc'["sweep"] = pc["sweep"]
    BY Who DEF DeleteRelease, Goto, CloudInv, PcType
  <2>3. ~overlap => pc["sweep"] = "idle"
    BY <2>1 DEF CloudInv, Deleting, Sweeping
  <2> QED  BY <2>1, <2>2, <2>3 DEF Sweeping
<1>14. Quiet'
  BY DEF CloudInv, Quiet, DeleteRelease, ReleaseScope
<1>15. Deleting'
  BY Who DEF CloudInv, Deleting, DeleteRelease, Goto, NoDelete, PcType
<1>16. UsageCovers'
  BY DEF CloudInv, UsageCovers, DeleteRelease, Goto, ReleaseScope, books,
      BookType, AcctType
<1>17. CloudCovers'
  BY DEF CloudInv, CloudCovers, DeleteRelease, books, NoDelete, BookType,
      TaskType, DelType
<1> QED  BY <1>1, <1>2, <1>3, <1>4, <1>5, <1>6, <1>7, <1>8, <1>9, <1>10,
    <1>11, <1>12, <1>13, <1>14, <1>15, <1>16, <1>17 DEF CloudInv

\* The sweep notes what an expired task holds.
LEMMA SweepCollectStep ==
    ASSUME CloudInv, SweepCollect
    PROVE  CloudInv'
<1>1. TaskType' /\ AcctType' /\ JsonType' /\ DiskType' /\ BookType' /\
    SaveType' /\ DlType' /\ DelType' /\ ResType' /\ Known'
  BY DEF CloudInv, TaskType, AcctType, JsonType, DiskType, BookType,
      SaveType, DlType, DelType, ResType, Known, SweepCollect, Arrives, books
<1>2. MarkType'
  BY DEF CloudInv, MarkType, SweepCollect, Overlaps, Arrives
<1>3. PcType'
  BY DEF CloudInv, PcType, WorkerStep, RequestStep, SweepCollect, Goto,
      Arrives
<1>4. ItemType'
  BY DEF CloudInv, ItemType, SweepCollect, Arrives, TaskType, AcctType
<1>5. CountType'
  BY Who DEF CloudInv, CountType, SweepCollect, Arrives
<1>6. Places'
  BY Who DEF CloudInv, Places, SweepCollect, Goto, Arrives, RequestStep
<1>7. Lock'
  BY DEF CloudInv, Lock, Holds, Launching, SweepCollect, Goto, Arrives, Idle
<1>8. AtWork'
  BY DEF CloudInv, AtWork, Holds, Launching, Finished, SweepCollect, Goto,
      Arrives, Idle
<1>9. Origins'
  BY DEF CloudInv, Origins, Terminal, SweepCollect, Goto, Arrives
<1>10. Sweeping'
  BY DEF CloudInv, Sweeping, SweepCollect, Goto, Overlaps, Arrives, TaskType,
      AcctType
<1>11. Quiet'
  BY DEF CloudInv, Quiet, SweepCollect, Overlaps, Arrives
<1>12. Deleting'
  BY Who DEF CloudInv, Deleting, SweepCollect, Goto, Overlaps, Arrives, PcType
<1>13. UsageCovers'
  BY DEF CloudInv, UsageCovers, SweepCollect, Goto, Overlaps, Arrives, books
<1>14. CloudCovers'
  BY DEF CloudInv, CloudCovers, SweepCollect, Overlaps, Arrives, books
<1> QED  BY <1>1, <1>2, <1>3, <1>4, <1>5, <1>6, <1>7, <1>8, <1>9, <1>10,
    <1>11, <1>12, <1>13, <1>14 DEF CloudInv

\* The sweep removes the record.
LEMMA SweepRecordStep ==
    ASSUME CloudInv, SweepRecord
    PROVE  CloudInv'
<1>1. TaskType' /\ AcctType' /\ MarkType' /\ DiskType' /\ BookType' /\
    SaveType' /\ DlType' /\ DelType' /\ ResType' /\ ItemType' /\ CountType' /\
    Known' /\ Quiet' /\ CloudCovers'
  BY DEF CloudInv, TaskType, AcctType, MarkType, DiskType, BookType,
      SaveType, DlType, DelType, ResType, ItemType, CountType, Known, Quiet,
      CloudCovers, SweepRecord, books, held, ghost
<1>2. JsonType'
  BY DEF CloudInv, JsonType, SweepRecord
<1>3. PcType'
  BY DEF CloudInv, PcType, WorkerStep, RequestStep, SweepRecord, Goto
<1>4. Places'
  BY Who DEF CloudInv, Places, SweepRecord, Goto, RequestStep
<1>5. Lock'
  BY DEF CloudInv, Lock, Holds, Launching, SweepRecord, Goto
<1>6. AtWork'
  BY DEF CloudInv, AtWork, Holds, Launching, Finished, SweepRecord, Goto
<1>7. Origins'
  BY DEF CloudInv, Origins, SweepRecord, Goto, held
<1>8. Sweeping'
  BY DEF CloudInv, Sweeping, SweepRecord, Goto, held, ghost
<1>9. Deleting'
  BY DEF CloudInv, Deleting, SweepRecord, Goto, held, ghost
<1>10. UsageCovers'
  BY DEF CloudInv, UsageCovers, SweepRecord, Goto, books, ghost
<1> QED  BY <1>1, <1>2, <1>3, <1>4, <1>5, <1>6, <1>7, <1>8, <1>9, <1>10 DEF
    CloudInv

\* The sweep removes the files, or keeps the task.
LEMMA SweepRemoveStep ==
    ASSUME CloudInv, SweepRemove
    PROVE  CloudInv'
<1>f. /\ task.status # "none" /\ task'.status = task.status
      /\ task'.reserved = task.reserved /\ (~overlap => task'.in = task.in)
      /\ overlap' = overlap /\ running' = running /\ acct' = acct
      /\ pc'["delete"] = pc["delete"]
  <2>1. task.status # "none" /\ (~overlap => task.in)
    BY DEF SweepRemove, CloudInv, Origins, Sweeping
  <2>2. task' = task \/ task' = [task EXCEPT !.in = TRUE]
    BY DEF SweepRemove, TryRemoveDir
  <2>3. pc'["delete"] = pc["delete"]
    BY Who DEF SweepRemove, TryRemoveDir, Goto, CloudInv, PcType
  <2>4. task'.status = task.status /\ task'.reserved = task.reserved
    BY <2>2 DEF CloudInv, TaskType
  <2>5. task'.in = task.in \/ task'.in = TRUE
    BY <2>2 DEF CloudInv, TaskType
  <2> QED  BY <2>1, <2>3, <2>4, <2>5 DEF SweepRemove, ghost
<1>1. AcctType' /\ MarkType' /\ JsonType' /\ BookType' /\ SaveType' /\
    DelType' /\ ResType'
  BY DEF CloudInv, AcctType, MarkType, JsonType, BookType, SaveType, DelType,
      ResType, SweepRemove, books, ghost
<1>2. TaskType'
  BY DEF CloudInv, TaskType, Status, SweepRemove, Goto, TryRemoveDir, Fault,
      RemoveDir, EmptyDisk, books, ghost, NoItem
<1>3. DiskType'
  BY RemoveOrNot DEF SweepRemove, TryRemoveDir, CloudInv
<1>4. PcType'
  BY DEF CloudInv, PcType, WorkerStep, RequestStep, SweepRemove, Goto,
      TryRemoveDir, Fault, RemoveDir, EmptyDisk, books, ghost, NoItem
<1>5. DlType'
  BY RemoveOrNot DEF SweepRemove, TryRemoveDir, CloudInv
<1>6. ItemType'
  BY DEF CloudInv, ItemType, SweepRemove, Goto, TryRemoveDir, Fault,
      RemoveDir, EmptyDisk, books, ghost, NoItem
<1>7. CountType'
  BY Who DEF CloudInv, CountType, SweepRemove, TryRemoveDir, Fault
<1>8. Places'
  <2>1. pc'["sweep"] \in {"drop", "idle"}
    BY Who DEF SweepRemove, TryRemoveDir, Goto, CloudInv, PcType
  <2>2. \A b \in Actor \ {"sweep"} : pc'[b] = pc[b] /\ save'[b] = save[b]
    BY Who DEF SweepRemove, TryRemoveDir, Goto, CloudInv, PcType
  <2>3. {"sweep"} \in SUBSET Actor /\ Places
    BY Who DEF CloudInv
  <2>4. \A a \in {"sweep"} :
           /\ pc'[a] \in RequestStep /\ a \notin Worker /\ a # "delete"
           /\ pc'[a] \in {"idle", "json", "rm", "drop"}
           /\ pc'[a] \notin {"save", "write"}
    BY <2>1, Who DEF RequestStep
  <2> QED  BY ONLY <2>2, <2>3, <2>4, PlacesMove
<1>9. Lock'
  BY DEF CloudInv, Lock, Holds, Launching, SweepRemove, Goto, TryRemoveDir,
      Fault, RemoveDir, EmptyDisk, books, ghost, NoItem, PcType
<1>10. AtWork'
  BY DEF CloudInv, AtWork, Holds, Launching, Finished, SweepRemove, Goto,
      TryRemoveDir, Fault, RemoveDir, EmptyDisk, books, ghost, NoItem, PcType,
      TaskType
<1>11. Known'
  BY <1>f DEF Known
<1>12. Origins'
  BY Who DEF CloudInv, Origins, Terminal, SweepRemove, Goto, TryRemoveDir,
      Fault, RemoveDir, EmptyDisk, books, ghost, NoItem, TaskType, PcType
<1>13. Sweeping'
  BY Who DEF CloudInv, Sweeping, SweepRemove, Goto, TryRemoveDir, Fault,
      RemoveDir, EmptyDisk, books, ghost, NoItem, PcType
<1>14. Quiet'
  BY <1>f DEF CloudInv, Quiet
<1>15. Deleting'
  BY <1>f DEF SweepRemove, CloudInv, Deleting
<1>16. UsageCovers'
  BY <1>f DEF SweepRemove, books, CloudInv, UsageCovers
<1>17. CloudCovers'
  BY DEF CloudInv, CloudCovers, SweepRemove, Goto, TryRemoveDir, Fault,
      RemoveDir, EmptyDisk, books, ghost, NoItem, TaskType
<1> QED  BY <1>1, <1>2, <1>3, <1>4, <1>5, <1>6, <1>7, <1>8, <1>9, <1>10,
    <1>11, <1>12, <1>13, <1>14, <1>15, <1>16, <1>17 DEF CloudInv

\* The sweep drops the task and releases what it noted.
LEMMA SweepDropStep ==
    ASSUME CloudInv, SweepDrop
    PROVE  CloudInv'
<1>d. ~overlap =>
         /\ task.in /\ ~running /\ pc["delete"] = "idle" /\ del.res = 0
         /\ item.res <= task.reserved /\ item.com <= acct.com
         /\ usage >= acct.com + acct.res /\ cloud >= task.reserved
  <2>1. ~overlap => /\ task.in /\ ~running /\ item.res <= task.reserved
                    /\ item.com <= acct.com
    BY DEF SweepDrop, CloudInv, Sweeping
  <2>2. ~overlap => pc["delete"] = "idle" /\ del.res = 0
    BY <2>1 DEF CloudInv, Deleting
  <2>3. ~overlap => usage >= acct.com + acct.res
    BY <2>1 DEF CloudInv, UsageCovers
  <2>4. ~overlap => cloud >= task.reserved
    <3>1. ~overlap => cloud >= task.reserved + del.res
      BY DEF CloudInv, CloudCovers
    <3>2. cloud \in Int /\ task.reserved \in Nat
      BY DEF CloudInv, BookType, TaskType
    <3> QED  BY <2>2, <3>1, <3>2
  <2> QED  BY <2>1, <2>2, <2>3, <2>4
<1>n. /\ cloud \in Int /\ usage \in Int /\ item.res \in Nat
      /\ item.com \in Nat /\ task.reserved \in Nat
      /\ acct.com \in Nat /\ acct.res \in Nat
  BY AcctIs DEF CloudInv, BookType, ItemType, TaskType
<1>1. AcctType' /\ MarkType' /\ JsonType' /\ DiskType' /\ SaveType' /\ DlType'
    /\ DelType' /\ ResType' /\ CountType'
  BY DEF CloudInv, AcctType, MarkType, JsonType, DiskType, SaveType, DlType,
      DelType, ResType, CountType, SweepDrop, ghost
<1>2. TaskType'
  BY DEF CloudInv, TaskType, SweepDrop
<1>3. BookType'
  BY DEF CloudInv, BookType, SweepDrop, ItemType
<1>4. PcType'
  BY DEF CloudInv, PcType, WorkerStep, RequestStep, SweepDrop, Goto
<1>5. ItemType'
  BY DEF CloudInv, ItemType, SweepDrop, NoItem
<1>6. Places'
  BY Who DEF CloudInv, Places, SweepDrop, Goto, RequestStep
<1>7. Lock'
  BY DEF CloudInv, Lock, Holds, Launching, SweepDrop, Goto
<1>8. AtWork'
  BY DEF CloudInv, AtWork, Holds, Launching, Finished, SweepDrop, Goto
<1>9. Known'
  BY DEF CloudInv, Known, SweepDrop
<1>10. Origins'
  BY DEF CloudInv, Origins, SweepDrop, Goto
<1>11. Sweeping'
  BY Who DEF CloudInv, Sweeping, SweepDrop, Goto, ghost, PcType
<1>12. Quiet'
  BY DEF CloudInv, Quiet, SweepDrop, ghost
<1>13. Deleting'
  BY DEF CloudInv, Deleting, SweepDrop, Goto, ghost
<1>14. UsageCovers'
  <2>1. /\ usage' = usage - item.com /\ ~task'.in /\ running' = running
        /\ overlap' = overlap /\ pc'["delete"] = pc["delete"]
    BY Who DEF SweepDrop, Goto, ghost, CloudInv, TaskType, PcType
  <2>2. ~overlap => usage - item.com >= 0
    BY <1>d, <1>n
  <2> QED  BY <1>d, <2>1, <2>2 DEF UsageCovers
<1>15. CloudCovers'
  <2>1. /\ cloud' = cloud - item.res /\ task'.reserved = 0
        /\ overlap' = overlap /\ del' = del
    BY DEF SweepDrop, ghost, CloudInv, TaskType
  <2>2. ~overlap => cloud - item.res >= 0 + 0
    BY <1>d, <1>n
  <2> QED  BY <1>d, <2>1, <2>2 DEF CloudCovers
<1> QED  BY <1>1, <1>2, <1>3, <1>4, <1>5, <1>6, <1>7, <1>8, <1>9, <1>10,
    <1>11, <1>12, <1>13, <1>14, <1>15 DEF CloudInv

\* A crash, and the recovery that scans the disk.
LEMMA CrashRestartStep ==
    ASSUME CloudInv, CrashRestart
    PROVE  CloudInv'
<1>d. DiskUsage(disk) \in Nat /\ json \in Record \cup {NoRecord}
  BY DiskIs DEF CloudInv, JsonType
<1>t. \/ /\ json = NoRecord /\ json' = NoRecord
         /\ task' = [in |-> FALSE, status |-> "cancelled",
                     submitted |-> json.submitted, done |-> json.done,
                     damaged |-> json.damaged, reserved |-> 0]
      \/ /\ json \in Record
         /\ \/ json' = json
            \/ json' = [json EXCEPT !.status = "failed"]
         /\ \E s \in {"failed", json.status} :
               task' = [in |-> TRUE, status |-> s,
                        submitted |-> json.submitted, done |-> json.done,
                        damaged |-> json.damaged,
                        reserved |-> DiskUsage(disk)]
  <2>1. CASE json = NoRecord
    BY <2>1 DEF CrashRestart, NoRecord
  <2>2. CASE json # NoRecord
    BY <1>d, <2>2 DEF CrashRestart
  <2> QED  BY <2>1, <2>2
<1>j. /\ json.submitted \in BOOLEAN /\ json.done \in BOOLEAN
      /\ json.damaged \in BOOLEAN
  <2>1. CASE json \in Record
    BY <2>1 DEF Record
  <2>2. CASE json = NoRecord
    BY <2>2 DEF NoRecord
  <2> QED  BY <1>d, <2>1, <2>2
<1>f. /\ TaskType' /\ task'.status # "none" /\ task'.reserved \in Nat
      /\ task'.reserved <= DiskUsage(disk)
  <2>1. CASE json \in Record
    <3>1. PICK s \in {"failed", json.status} :
            task' = [in |-> TRUE, status |-> s,
                     submitted |-> json.submitted, done |-> json.done,
                     damaged |-> json.damaged, reserved |-> DiskUsage(disk)]
      BY <1>t, <2>1 DEF Record, NoRecord, Status
    <3>2. s \in Status /\ s # "none"
      BY <2>1 DEF Record, Status
    <3> QED  BY <1>d, <1>j, <3>1, <3>2 DEF TaskType
  <2>2. CASE json \notin Record
    <3>1. task' = [in |-> FALSE, status |-> "cancelled",
                   submitted |-> json.submitted, done |-> json.done,
                   damaged |-> json.damaged, reserved |-> 0]
      BY <1>t, <2>2
    <3> QED  BY <1>d, <1>j, <3>1 DEF TaskType, Status
  <2> QED  BY <2>1, <2>2
<1>u. /\ acct' = [open |-> FALSE, com |-> 0, res |-> 0] /\ del' = NoDelete
      /\ cloud' = DiskUsage(disk) /\ usage' = DiskUsage(disk)
  BY DEF CrashRestart
<1>1. DiskType'
  BY DEF CloudInv, DiskType, CrashRestart
<1>2. TaskType'
  BY <1>f
<1>3. AcctType'
  BY DEF CloudInv, AcctType, CrashRestart
<1>4. MarkType'
  BY DEF CloudInv, MarkType, CrashRestart, ghost
<1>5. JsonType'
  <2>1. CASE json' \in {NoRecord, json}
    BY <1>d, <2>1 DEF JsonType
  <2>2. CASE json \in Record /\ json' = [json EXCEPT !.status = "failed"]
    BY <2>2 DEF JsonType, Record, Status
  <2> QED  BY <1>t, <2>1, <2>2
<1>6. BookType'
  BY DEF CloudInv, BookType, CrashRestart, Ready, NoSession, NoRecord,
      NoSave, NoDelete, NoResume, NoItem, DiskUsage, DiskType
<1>7. PcType'
  BY DEF CloudInv, PcType, WorkerStep, RequestStep, CrashRestart
<1>8. SaveType'
  BY DEF CloudInv, SaveType, WorkerStep, RequestStep, Record, CrashRestart,
      Ready, NoSession, NoRecord, NoSave, NoDelete, NoResume, NoItem,
      DiskUsage
<1>9. DlType'
  BY Who DEF CloudInv, DlType, Session, CrashRestart, Ready, NoSession,
      NoRecord, NoSave, NoDelete, NoResume, NoItem, DiskUsage
<1>10. DelType'
  BY DEF CloudInv, DelType, CrashRestart, Ready, NoSession, NoRecord, NoSave,
      NoDelete, NoResume, NoItem, DiskUsage
<1>11. ResType'
  BY DEF CloudInv, ResType, CrashRestart, Ready, NoSession, NoRecord, NoSave,
      NoDelete, NoResume, NoItem, DiskUsage
<1>12. ItemType'
  BY DEF CloudInv, ItemType, CrashRestart, Ready, NoSession, NoRecord,
      NoSave, NoDelete, NoResume, NoItem, DiskUsage
<1>13. CountType'
  BY Who DEF CloudInv, CountType, CrashRestart, Fault
<1>14. Places'
  <2>1. \A a \in Actor :
           /\ a \in Worker => pc'[a] \in {"start", "unused", "over"}
           /\ a \notin Worker => pc'[a] = IF a = "create" THEN "over" ELSE
              "idle"
    BY DEF CrashRestart
  <2>2. \A a \in Actor : a \in Request => a \notin Worker
    BY Who
  <2>3. \A a \in Actor :
           /\ a \in Worker => pc'[a] \in WorkerStep
           /\ a \in Request => pc'[a] \in RequestStep
           /\ pc'[a] \notin {"save", "write"}
    BY <2>1, <2>2 DEF WorkerStep, RequestStep
  <2>4. pc'["delete"] = "idle" /\ pc'["sweep"] = "idle"
    BY <2>1, Who
  <2>5. Actor \in SUBSET Actor /\ Places
    BY DEF CloudInv
  <2>6. \A b \in Actor \ Actor : pc'[b] = pc[b] /\ save'[b] = save[b]
    OBVIOUS
  <2> QED  BY ONLY <2>3, <2>4, <2>5, <2>6, PlacesMove
<1>15. Lock'
  BY Who DEF CloudInv, Lock, Holds, Launching, CrashRestart, Ready, NoSession,
      NoRecord, NoSave, NoDelete, NoResume, NoItem, DiskUsage
<1>16. AtWork'
  BY DEF CloudInv, AtWork, Holds, Launching, Finished, CrashRestart
<1>17. Known'
  BY <1>f DEF Known
<1>18. Origins'
  BY Who DEF CloudInv, Origins, CrashRestart
<1>19. Sweeping'
  BY Who DEF CloudInv, Sweeping, CrashRestart, ghost
<1>20. Quiet'
  BY DEF CloudInv, Quiet, CrashRestart, ghost
<1>21. Deleting'
  BY Who DEF CloudInv, Deleting, CrashRestart, Ready, ghost, NoSession,
      NoRecord, NoSave, NoDelete, NoResume, NoItem, DiskUsage
<1>22. UsageCovers'
  <2>1. acct'.com = 0 /\ acct'.res = 0 /\ usage' \in Nat
    BY <1>d, <1>u
  <2> QED  BY <2>1 DEF UsageCovers
<1>23. CloudCovers'
  <2>1. del'.res = 0
    BY <1>u DEF NoDelete
  <2> QED  BY <1>d, <1>f, <1>u, <2>1 DEF CloudCovers
<1> QED  BY <1>1, <1>2, <1>3, <1>4, <1>5, <1>6, <1>7, <1>8, <1>9, <1>10,
    <1>11, <1>12, <1>13, <1>14, <1>15, <1>16, <1>17, <1>18, <1>19, <1>20,
    <1>21, <1>22, <1>23 DEF CloudInv

-----------------------------------------------------------------------------
(* The theorems.                                                            *)

\* A manager with no task satisfies the invariant.
LEMMA CloudInit == Init => CloudInv
<1> SUFFICES ASSUME Init PROVE CloudInv
  OBVIOUS
<1>1. TaskType /\ AcctType /\ MarkType /\ JsonType
  BY DEF Init, TaskType, AcctType, MarkType, JsonType
<1>2. DiskType /\ BookType /\ DelType /\ ItemType
  BY FileSizeAssumption
     DEF Init, DiskType, EmptyDisk, BookType, DelType, NoDelete, ItemType,
         NoItem
<1>3. PcType /\ SaveType
  BY DEF Init, PcType, SaveType, NoSave, WorkerStep, RequestStep
<1>4. NoSession \in Session
  BY FileSizeAssumption DEF NoSession, Session
<1>5. DlType /\ ResType /\ CountType
  BY <1>4, BoundAssumption DEF Init, DlType, ResType, NoResume, CountType
<1>6. /\ \A w \in Worker : pc[w] = "unused"
      /\ \A a \in Request : pc[a] = "idle"
      /\ {"create", "cancel", "delete", "sweep", "flush"} \subseteq Request
      /\ Resumer \subseteq Request
  <2>1. \A a \in Actor : pc[a] = IF a \in Worker THEN "unused" ELSE "idle"
    BY DEF Init
  <2>2. /\ \A w \in Worker : w \in Actor
        /\ \A a \in Request : a \in Actor /\ a \notin Worker
    BY Who DEF Actor
  <2> QED  BY <2>1, <2>2, Who
<1>7. Places
  BY <1>6 DEF Places, WorkerStep, RequestStep
<1>8. \A a \in Actor : ~Holds(a)
  BY <1>6, Who DEF Holds, Launching
<1>9. Lock /\ AtWork
  BY <1>8 DEF Init, Lock, AtWork
<1>10. task.in = FALSE /\ task.reserved = 0 /\ acct.com = 0 /\ acct.res = 0
  BY DEF Init
<1>11. Known /\ Origins /\ Quiet
  BY <1>6, <1>10 DEF Init, Known, Origins, Quiet
<1>12. pc["delete"] = "idle" /\ pc["sweep"] = "idle" /\ del.res = 0
  BY <1>6 DEF Init, NoDelete
<1>13. Sweeping /\ Deleting
  BY <1>12 DEF Sweeping, Deleting
<1>14. UsageCovers /\ CloudCovers
  BY <1>10, <1>12 DEF Init, UsageCovers, CloudCovers
<1> QED
  BY <1>1, <1>2, <1>3, <1>5, <1>7, <1>9, <1>11, <1>13, <1>14 DEF CloudInv

\* Every step of the goroutines, of the requests and of the sweep, and a
\* crash, keep the invariant.
LEMMA CloudStep == CloudInv /\ [Next]_vars => CloudInv'
<1> SUFFICES ASSUME CloudInv, [Next]_vars PROVE CloudInv'
  OBVIOUS
<1>1. CASE UNCHANGED vars
  <2>1. TaskType' /\ AcctType' /\ MarkType' /\ JsonType' /\ DiskType' /\
     BookType'
    BY <1>1 DEF vars, CloudInv, TaskType, Status, AcctType, MarkType,
       JsonType, Record, DiskType, BookType
  <2>2. PcType' /\ SaveType' /\ DlType' /\ DelType' /\ ResType' /\ ItemType'
    BY <1>1 DEF vars, CloudInv, PcType, WorkerStep, RequestStep, SaveType,
       Record, DlType, Session, DelType, ResType, ItemType
  <2>3. CountType' /\ Places' /\ Lock' /\ AtWork' /\ Known' /\ Origins'
    BY <1>1 DEF vars, CloudInv, CountType, Places, Lock, Holds, Launching,
       AtWork, Finished, Known, Origins, Terminal
  <2>4. Sweeping' /\ Quiet' /\ Deleting' /\ UsageCovers' /\ CloudCovers'
    BY <1>1 DEF vars, CloudInv, Sweeping, Quiet, Deleting, UsageCovers,
       CloudCovers
  <2> QED  BY <2>1, <2>2, <2>3, <2>4 DEF CloudInv
<1>2. CASE \E w \in Worker : Step(w)
  <2>1. PICK w \in Worker : Step(w)
    BY <1>2
  <2>2. CASE Register(w) \/ Guard(w) \/ MakeDir(w) \/ TryAttempt(w) \/
     SendGet(w)
    BY <2>2, RegisterStep, GuardStep, MakeDirStep, TryAttemptStep, SendGetStep
  <2>3. CASE OpenPartial(w) \/ FinalizePartial(w) \/ WriteBlock(w) \/
     WriteFails(w) \/ AttemptFails(w)
    BY <2>3, OpenPartialStep, FinalizePartialStep, WriteBlockStep,
       WriteFailsStep, AttemptFailsStep
  <2>4. CASE LandFile(w) \/ Retry(w) \/ CheckDone(w) \/ CheckRetry(w) \/
     DownloadDone(w)
    BY <2>4, LandFileStep, RetryStep, CheckDoneStep, CheckRetryStep,
       DownloadDoneStep
  <2>5. CASE HandOff(w) \/ RemoveAbandoned(w) \/ MarkArtifact(w) \/
     FailTask(w) \/ FailTaskStorageFull(w)
    BY <2>5, HandOffStep, RemoveAbandonedStep, MarkArtifactStep, FailTaskStep,
       FailTaskStorageFullStep
  <2>6. CASE FailTaskEnded(w) \/ CleanOnFail(w) \/ Finalize(w) \/
     FinalizeStorageFull(w) \/ FinalizeAbandoned(w)
    BY <2>6, FailTaskEndedStep, CleanOnFailStep, FinalizeStep,
       FinalizeStorageFullStep, FinalizeAbandonedStep
  <2>7. CASE Exit(w)
    BY <2>7, ExitStep
  <2> QED  BY <2>1, <2>2, <2>3, <2>4, <2>5, <2>6, <2>7 DEF Step
<1>3. CASE \E w \in Worker : ClientGone(w)
  BY <1>3, ClientGoneStep
<1>4. CASE \E a \in Actor : SaveSnapshot(a) \/ SaveWrite(a)
  BY <1>4, SaveSnapshotStep, SaveWriteStep
<1>5. CASE \E r \in Resumer : Resume(r)
  <2>1. PICK r \in Resumer : Resume(r)
    BY <1>5
  <2> QED
    BY <2>1, ResumeLookupStep, ResumeWaitStep, ResumeClaimStep,
       ResumeRefusedStep, ResumeStorageFullStep, ResumeTenantGoneStep,
       ResumeKeepStep, ResumeForceStep, ResumeLaunchStep
       DEF Resume
<1>6. CASE CreateTask \/ Submit \/ SubmitLaunch \/ FlushDirty
  BY <1>6, CreateTaskStep, SubmitStep, SubmitLaunchStep, FlushDirtyStep
<1>7. CASE CancelTask \/ CancelRemove \/ DeleteTask \/ DeleteFiles
  BY <1>7, CancelTaskStep, CancelRemoveStep, DeleteTaskStep, DeleteFilesStep
<1>8. CASE DeleteRecord \/ DeleteRelease \/ SweepCollect \/ SweepRecord
  BY <1>8, DeleteRecordStep, DeleteReleaseStep, SweepCollectStep,
     SweepRecordStep
<1>9. CASE SweepRemove \/ SweepDrop \/ CrashRestart
  BY <1>9, SweepRemoveStep, SweepDropStep, CrashRestartStep
<1> QED
  BY <1>1, <1>2, <1>3, <1>4, <1>5, <1>6, <1>7, <1>8, <1>9 DEF Next

\* The inductive invariant holds in every reachable state.
THEOREM CloudInvariant == Spec => []CloudInv
BY CloudInit, CloudStep, PTL DEF Spec

\* The task, the account, the files and what every goroutine and request
\* holds have their types, whatever is requested, cancelled or lost.
THEOREM CloudTypes == Spec => []TypeOK
<1>1. CloudInv => TypeOK
  BY DEF CloudInv, TypeOK, TaskType, AcctType, MarkType, JsonType, DiskType,
     BookType, PcType, SaveType, DlType, DelType, ResType, ItemType, CountType
<1> QED  BY <1>1, CloudInvariant, PTL

\* The running mark is a lock: at most one goroutine, submission or resume
\* owns the task, it has the mark, and the mark is never left behind,
\* whatever the start, resume, rollback, hand-off or restart.
THEOREM MarkIsALock == Spec => []OneWriter
<1>1. CloudInv => OneWriter
  <2> SUFFICES ASSUME CloudInv PROVE OneWriter
    OBVIOUS
  <2>1. Holders = {a \in Actor : Holds(a)}
    <3>1. \A a : a \in Holders <=> a \in Actor /\ Holds(a)
      BY Who DEF Holders, Live, Holds
    <3> QED  BY <3>1
  <2>2. Lock
    BY DEF CloudInv
  <2> QED  BY <2>1, <2>2 DEF Lock, OneWriter
<1> QED  BY <1>1, CloudInvariant, PTL

\* Neither ledger gives back more than was booked for the task, whatever the
\* order of cancel, delete, resume, rollback, failure and restart, as long as
\* no removal or sweep works on a state that a later request has replaced.
THEOREM NothingReleasedTwice == Spec => []NoDoubleRelease
<1>1. CloudInv => NoDoubleRelease
  <2> SUFFICES ASSUME CloudInv, ~overlap
               PROVE  usage >= Claims.usage /\ cloud >= Claims.cloud
    BY DEF NoDoubleRelease, ReleasedOnce
  <2>1. Claims.cloud = task.reserved + del.res
    BY DEF Claims
  <2>2. Claims.usage = IF task.in \/ running \/ pc["delete"] # "idle"
                       THEN acct.com + acct.res ELSE 0
    BY DEF Claims, Idle
  <2>3. usage >= Claims.usage
    <3>1. CASE task.in \/ running \/ pc["delete"] # "idle"
      BY <2>2, <3>1 DEF CloudInv, UsageCovers
    <3>2. CASE ~(task.in \/ running \/ pc["delete"] # "idle")
      BY <2>2, <3>2 DEF CloudInv, UsageCovers
    <3> QED  BY <3>1, <3>2
  <2>4. cloud >= Claims.cloud
    BY <2>1 DEF CloudInv, CloudCovers
  <2> QED  BY <2>3, <2>4
<1> QED  BY <1>1, CloudInvariant, PTL

\* A step of the goroutine w that changes the status of a task finds it
\* pending or downloading.
LEMMA WorkerKeepsEnd ==
    ASSUME CloudInv, NEW w \in Worker, Step(w), task.status \in Terminal
    PROVE  task'.status = task.status
<1>1. TaskType
  BY DEF CloudInv
<1>2. pc[w] = "final" => task.status = "cancelled"
  <2> SUFFICES ASSUME pc[w] = "final" PROVE task.status = "cancelled"
    OBVIOUS
  <2>1. w \in Actor /\ Holds(w) /\ ~Finished(w)
    BY Who DEF Holds, Finished
  <2> QED  BY <2>1 DEF CloudInv, AtWork, Terminal
<1>3. CASE \/ Register(w) \/ Guard(w) \/ MakeDir(w) \/ SendGet(w)
           \/ OpenPartial(w) \/ FinalizePartial(w) \/ WriteBlock(w)
  BY <1>3
     DEF Register, Guard, MakeDir, SendGet, OpenPartial, FinalizePartial,
         WriteBlock
<1>4. CASE \/ WriteFails(w) \/ AttemptFails(w) \/ LandFile(w) \/ Retry(w)
           \/ DownloadDone(w) \/ HandOff(w) \/ RemoveAbandoned(w)
  BY <1>4
     DEF WriteFails, AttemptFails, LandFile, Retry, DownloadDone, HandOff,
         RemoveAbandoned
<1>5. CASE \/ FailTaskEnded(w) \/ CleanOnFail(w) \/ FinalizeAbandoned(w)
  BY <1>5 DEF FailTaskEnded, CleanOnFail, FinalizeAbandoned
<1>6. CASE TryAttempt(w)
  BY <1>6 DEF TryAttempt, MarkDownloading, Terminal
<1>7. CASE CheckDone(w)
  BY <1>1, <1>7 DEF CheckDone, TaskType
<1>8. CASE CheckRetry(w)
  BY <1>1, <1>8 DEF CheckRetry, TaskType
<1>9. CASE MarkArtifact(w)
  BY <1>1, <1>9 DEF MarkArtifact, TaskType
<1>10. CASE FailTask(w) \/ FailTaskStorageFull(w)
  BY <1>10 DEF FailTask, FailTaskStorageFull
<1>11. CASE Finalize(w) \/ FinalizeStorageFull(w)
  BY <1>2, <1>11 DEF Finalize, FinalizeStorageFull
<1>12. CASE Exit(w)
  BY <1>1, <1>12 DEF Exit, TaskType
<1> QED
  BY <1>3, <1>4, <1>5, <1>6, <1>7, <1>8, <1>9, <1>10, <1>11, <1>12 DEF Step

\* A step of ResumeTask that changes the status of an ended task is its
\* claim.
LEMMA ResumeKeepsEnd ==
    ASSUME CloudInv, NEW r \in Resumer, Resume(r), task.status \in Terminal,
           ~(pc[r] = "claim" /\ pc'[r] = "window")
    PROVE  task'.status = task.status
<1>1. CASE \/ ResumeLookup(r) \/ ResumeWait(r) \/ ResumeRefused(r)
           \/ ResumeKeep(r) \/ ResumeForce(r) \/ ResumeLaunch(r)
  BY <1>1
     DEF ResumeLookup, ResumeWait, ResumeRefused, ResumeKeep, ResumeForce,
         ResumeLaunch
<1>2. CASE ResumeTenantGone(r)
  <2>1. /\ AcctType /\ BookType
        /\ task \in [in : BOOLEAN, status : Status \cup {"none"},
                     submitted : BOOLEAN, done : BOOLEAN,
                     damaged : BOOLEAN, reserved : Nat]
    BY DEF CloudInv, TaskType
  <2>2. res[r].prev.status \in Status /\ res[r].res \in Nat
    <3>1. res[r].prev.status \in Terminal
      BY <1>2 DEF ResumeTenantGone, CloudInv, Origins
    <3> QED  BY <3>1 DEF CloudInv, ResType, Status, Terminal
  <2>3. Rollback(r, task, res[r].prev.status, res[r].res)
    BY <1>2 DEF ResumeTenantGone
  <2>4. task.status # "pending"
    BY DEF Terminal
  <2> QED  BY <2>1, <2>2, <2>3, <2>4, RollbackEffect
<1>3. CASE ResumeClaim(r)
  BY <1>3, Who DEF ResumeClaim, Goto, CloudInv, PcType
<1>4. CASE ResumeStorageFull(r)
  <2>1. /\ AcctType /\ BookType /\ TaskType
        /\ task.status \in Status /\ 0 \in Nat
    BY DEF CloudInv, Status, Terminal
  <2>2. /\ Claimed \in [in : BOOLEAN, status : Status \cup {"none"},
                        submitted : BOOLEAN, done : BOOLEAN,
                        damaged : BOOLEAN, reserved : Nat]
        /\ Claimed.status = "pending" /\ Claimed.in = task.in
        /\ Claimed.in
    <3>1. /\ Claimed = [in |-> task.in, status |-> "pending",
                        submitted |-> task.submitted, done |-> FALSE,
                        damaged |-> FALSE, reserved |-> task.reserved]
          /\ task.in \in BOOLEAN /\ task.submitted \in BOOLEAN
          /\ task.reserved \in Nat
      BY <2>1, ClaimedIs, TaskIs
    <3>2. task.in
      BY <1>4 DEF ResumeStorageFull, Resumable
    <3> QED  BY <3>1, <3>2 DEF Status
  <2>3. Rollback(r, Claimed, task.status, 0)
    BY <1>4 DEF ResumeStorageFull
  <2> QED  BY <2>1, <2>2, <2>3, RollbackEffect
<1> QED  BY <1>1, <1>2, <1>3, <1>4 DEF Resume

\* An ended task changes its status only in the step in which a resume claims
\* it, in the one in which DeleteTask takes it out of the table, or when the
\* manager restarts.
THEOREM EndedStaysEnded == Spec => TerminalKept
<1> DEFINE Kept == (task.status \in Terminal /\ task'.status # task.status) =>
                      \/ \E r \in Resumer :
                            pc[r] = "claim" /\ pc'[r] = "window"
                      \/ pc["delete"] = "idle" /\ pc'["delete"] = "rm"
                      \/ Restarts
<1>1. CloudInv /\ [Next]_vars => [Kept]_vars
  <2> SUFFICES ASSUME CloudInv, Next, task.status \in Terminal,
                      task'.status # task.status,
                      \A r \in Resumer :
                         ~(pc[r] = "claim" /\ pc'[r] = "window")
               PROVE  \/ pc["delete"] = "idle" /\ pc'["delete"] = "rm"
                      \/ Restarts
    OBVIOUS
  <2>1. TaskType /\ PcType /\ "delete" \in Actor
    BY Who DEF CloudInv
  <2>2. CASE \E w \in Worker : Step(w)
    BY <2>2, WorkerKeepsEnd
  <2>3. CASE \E r \in Resumer : Resume(r)
    BY <2>3, ResumeKeepsEnd
  <2>4. CASE \E w \in Worker : ClientGone(w)
    BY <2>4 DEF ClientGone
  <2>5. CASE \E a \in Actor : SaveSnapshot(a) \/ SaveWrite(a)
    BY <2>5 DEF SaveSnapshot, SaveWrite
  <2>6. CASE CreateTask \/ CancelTask
    BY <2>6 DEF CreateTask, CancelTask, Terminal
  <2>7. CASE SubmitLaunch \/ FlushDirty \/ CancelRemove \/ DeleteFiles
    BY <2>7 DEF SubmitLaunch, FlushDirty, CancelRemove, DeleteFiles
  <2>8. CASE DeleteRecord \/ SweepCollect \/ SweepRecord
    BY <2>8 DEF DeleteRecord, SweepCollect, SweepRecord
  <2>9. CASE Submit
    BY <2>1, <2>9 DEF Submit, TaskType
  <2>10. CASE DeleteTask
    BY <2>1, <2>10 DEF DeleteTask, Arrives, Idle, Goto, PcType
  <2>11. CASE DeleteRelease
    BY <2>1, <2>11 DEF DeleteRelease, TaskType
  <2>12. CASE SweepRemove
    BY <2>1, <2>12 DEF SweepRemove, TryRemoveDir, TaskType
  <2>13. CASE SweepDrop
    BY <2>1, <2>13 DEF SweepDrop, TaskType
  <2>14. CASE CrashRestart
    BY <2>14 DEF CrashRestart, Fault, CloudInv, CountType, Restarts
  <2> QED
    BY <2>2, <2>3, <2>4, <2>5, <2>6, <2>7, <2>8, <2>9, <2>10, <2>11, <2>12,
       <2>13, <2>14 DEF Next
<1>2. []CloudInv /\ [][Next]_vars => [][Kept]_vars
  BY <1>1, PTL
<1>3. Spec => [][Kept]_vars
  BY <1>2, CloudInvariant, PTL DEF Spec
<1> QED  BY <1>3 DEF TerminalKept

-----------------------------------------------------------------------------
(* The files, the account and the ledgers, while no removal fails, nothing  *)
(* crashes and no removal or sweep meets a request it does not know of.     *)

Clean == ~overlap /\ faults = 0

\* The step an actor is at, or returns to when its saveTask is over.
At(a) == IF pc[a] \in {"save", "write"} THEN save[a].next ELSE pc[a]

\* The task was deleted, swept or cancelled; a request is about to remove its
\* files.
Gone == ~task.in \/ task.status = "cancelled"
Removing == At("cancel") = "rm" \/ At("delete") = "rm"

\* Nothing is on disk; the whole file is, and the account holds its bytes.
Bare == disk.partial = 0 /\ disk.dest = 0
FileThere ==
    /\ disk.partial = 0 /\ disk.dest = FileSize
    /\ acct.com >= FileSize

\* The steps of a goroutine before it has marked its file as done, and those
\* that follow a download that went well.
Early == {"start", "guard", "mkdir", "loop", "get", "open", "recv", "ended",
          "check", "done", "mark"}
Landed(w) ==
    \/ At(w) \in {"check", "mark", "final"}
    \/ At(w) = "done" /\ ~dl[w].err

\* The account: a closed one is empty, and only a sink holds a reserve.
Account ==
    /\ ~acct.open => acct.com = 0 /\ acct.res = 0
    /\ acct.res = 0 \/ \E w \in Worker : At(w) = "recv"

\* The ledgers hold exactly what can be given back.
Exact ==
    /\ usage = IF task.in \/ running \/ At("delete") # "idle"
               THEN acct.com + acct.res ELSE 0
    /\ ~kept => cloud = task.reserved + del.res
    /\ Gone => task.reserved = 0
    /\ At("sweep") # "idle" =>
          item.res = task.reserved /\ item.com = acct.com

\* What the goroutine w knows: a cancelled context tells it that its task is
\* gone, its file is not yet marked as done, and what it has downloaded is on
\* disk and booked.
Told(w) ==
    /\ At(w) \in {"unused", "start"} => cancelFn # w
    /\ At(w) = "start" => ~dl[w].cancelled
    /\ At(w) \notin {"unused", "start", "over"} =>
          IF Gone THEN At(w) \in {"guard", "exit"} \/ dl[w].cancelled
          ELSE cancelFn = w /\ ~dl[w].cancelled
    /\ At(w) = "rm" => Gone
    /\ At(w) = "clean" => task.status \in {"failed", "cancelled"}
    /\ At(w) = "exit" => task.status \in Terminal
    /\ At(w) = "ended" => dl[w].err
    /\ At(w) \in Early => ~task.done
    /\ At(w) \in Early /\ dl[w].lost => At(w) = "recv"
Loaded(w) ==
    /\ At(w) = "open" /\ ~Gone => dl[w].old = disk.partial
    /\ At(w) = "recv" => acct.open
    /\ At(w) = "recv" /\ dl[w].lost => Gone
    /\ At(w) = "recv" /\ ~dl[w].lost =>
          /\ disk.partial = dl[w].size
          /\ Gone => Removing
          /\ ~Gone => acct.com >= dl[w].size + dl[w].old
    /\ Landed(w) => Gone \/ FileThere
Tracked == \A w \in Worker : Told(w) /\ Loaded(w)

\* Only a goroutine past its download leaves the task marked as done.
Unmarked ==
    /\ task.status = "none" => ~task.done
    /\ task.status = "pending" /\ ~running => ~task.done
    /\ \A a \in {"create"} \cup Resumer :
          At(a) \in {"window", "launch"} => ~task.done

\* What a removal finds and leaves.
Removed ==
    /\ running /\ ~task.in => task.status = "cancelled"
    /\ At("cancel") = "rm" => task.status = "cancelled"
    /\ Gone /\ ~Removing => Bare
    /\ At("sweep") = "drop" => Bare
    /\ At("delete") # "idle" =>
          /\ del.run /\ ~running => ~acct.open
          /\ ~del.run => ~running /\ (At("delete") = "rm" \/ ~disk.dir)

\* What a task has on disk and in the account when it rests, and what a
\* resume that may be rolled back has found.
Rests == task.in /\ task.status = "completed" /\ At("sweep") # "drop"
Found(r) ==
    /\ res[r].prev.status = "completed" => FileThere
    /\ res[r].prev.status = "cancelled" =>
          Bare /\ task.reserved = res[r].res
Resting ==
    /\ ~Gone => acct.com >= disk.partial
    /\ Rests => FileThere
    /\ \A r \in Resumer : At(r) = "window" /\ ~Gone => Found(r)

Files ==
    Account /\ Exact /\ Tracked /\ Unmarked /\ Removed /\ Resting
FileInv == Clean => Files

\* Where an actor is, in terms of its step and its saveTask.
LEMMA AtPlaces ==
    ASSUME CloudInv
    PROVE  /\ \A w \in Worker :
                 /\ Holds(w) <=> At(w) \notin {"unused", "over"}
                 /\ At(w) \notin {"save", "write"}
                 /\ Finished(w) <=> At(w) \in {"clean", "exit"}
           /\ \A a \in {"create"} \cup Resumer :
                 /\ Holds(a) <=> At(a) \in {"window", "launch"}
                 /\ At(a) = "window" <=> pc[a] = "window"
           /\ \A a \in Request : At(a) \notin {"save", "write"}
           /\ At("delete") = pc["delete"] /\ At("sweep") = pc["sweep"]
           /\ At("cancel") = "rm" <=> pc["cancel"] = "rm"
<1>1. Places /\ PcType /\ SaveType
  BY DEF CloudInv
<1>2. \A w \in Worker :
         /\ Holds(w) <=> At(w) \notin {"unused", "over"}
         /\ At(w) \notin {"save", "write"}
         /\ Finished(w) <=> At(w) \in {"clean", "exit"}
  BY <1>1, Who DEF Places, Holds, Launching, At, Finished
<1>3. \A a \in {"create"} \cup Resumer :
         /\ Holds(a) <=> At(a) \in {"window", "launch"}
         /\ At(a) = "window" <=> pc[a] = "window"
         /\ At(a) \notin {"save", "write"}
  BY <1>1, Who DEF Places, Holds, Launching, At
<1>4. /\ At("delete") = pc["delete"] /\ At("sweep") = pc["sweep"]
      /\ At("cancel") = "rm" <=> pc["cancel"] = "rm"
      /\ At("flush") \notin {"save", "write"}
      /\ At("cancel") \notin {"save", "write"}
      /\ At("delete") \notin {"save", "write"}
      /\ At("sweep") \notin {"save", "write"}
  BY <1>1, Who DEF Places, At
<1> QED  BY <1>2, <1>3, <1>4 DEF Request

\* A goroutine at work is alone, and so is a start or a resume.
LEMMA Solo ==
    ASSUME CloudInv
    PROVE  /\ \A w \in Worker : At(w) \notin {"unused", "over"} =>
                 /\ running /\ task.status # "none"
                 /\ \A v \in Worker : v # w => At(v) \in {"unused", "over"}
                 /\ \A a \in {"create"} \cup Resumer :
                       At(a) \notin {"window", "launch"}
                 /\ \/ At(w) \in {"clean", "exit"}
                    \/ task.status \in {"pending", "downloading", "cancelled"}
           /\ \A a \in {"create"} \cup Resumer :
                 At(a) \in {"window", "launch"} =>
                    /\ running
                    /\ task.status \in {"pending", "downloading", "cancelled"}
                    /\ \A v \in Worker : At(v) \in {"unused", "over"}
                    /\ \A b \in {"create"} \cup Resumer :
                          b # a => At(b) \notin {"window", "launch"}
           /\ ~running =>
                 /\ \A v \in Worker : At(v) \in {"unused", "over"}
                 /\ \A b \in {"create"} \cup Resumer :
                       At(b) \notin {"window", "launch"}
<1>1. Lock /\ AtWork
  BY DEF CloudInv
<1>2. \A a \in {"create"} \cup Resumer : a \in Actor /\ a \notin Worker
  BY Who
<1>3. \A a \in {"create"} \cup Resumer : Holds(a) => ~Finished(a)
  BY <1>2 DEF Holds, Launching, Finished
<1> QED  BY <1>1, <1>2, <1>3, AtPlaces, Who DEF Lock, AtWork

\* The fields of the variables, and what CloudInv says of a clean state.
LEMMA Plain ==
    ASSUME CloudInv, Clean
    PROVE  /\ task.reserved \in Nat /\ acct.com \in Nat /\ acct.res \in Nat
           /\ disk.partial \in Nat /\ disk.dest \in Nat
           /\ disk.partial <= FileSize /\ disk.dest <= FileSize
           /\ cloud \in Int /\ usage \in Int /\ usage >= 0
           /\ del.res \in Nat /\ item.res \in Nat /\ item.com \in Nat
           /\ \A w \in Worker :
                 /\ dl[w].size \in Nat /\ dl[w].old \in Nat
                 /\ dl[w].size <= FileSize /\ dl[w].old <= FileSize
           /\ \A r \in Resumer : res[r].res \in Nat
           /\ At("sweep") # "idle" =>
                 /\ task.in /\ ~running
                 /\ task.status \in Terminal \cup {"pending"}
           /\ task.in /\ task.status = "cancelled" /\ ~running => ~acct.open
           /\ At("delete") # "idle" => ~task.in
           /\ At("delete") = "idle" => del.res = 0
           /\ task.in => task.status # "none"
           /\ task.status = "none" =>
                 At("delete") = "idle" /\ At("sweep") = "idle"
<1>1. /\ task.reserved \in Nat /\ acct.com \in Nat /\ acct.res \in Nat
      /\ disk.partial \in Nat /\ disk.dest \in Nat
      /\ disk.partial <= FileSize /\ disk.dest <= FileSize
  BY Who DEF CloudInv, TaskType, AcctType, DiskType
<1>2. /\ cloud \in Int /\ usage \in Int /\ usage >= 0
      /\ del.res \in Nat /\ item.res \in Nat /\ item.com \in Nat
  BY DEF CloudInv, BookType, DelType, ItemType, UsageCovers, Clean
<1>3. \A w \in Worker : /\ dl[w].size \in Nat /\ dl[w].old \in Nat
                        /\ dl[w].size <= FileSize /\ dl[w].old <= FileSize
  <2>1. \A w \in Worker : dl[w] \in Session
    BY DEF CloudInv, DlType
  <2>2. \A d \in Session : d.size \in 0..FileSize /\ d.old \in 0..FileSize
    BY DEF Session
  <2>3. \A w \in Worker : /\ dl[w].size \in 0..FileSize
                          /\ dl[w].old \in 0..FileSize
    BY <2>1, <2>2
  <2>4. \A n \in 0..FileSize : n \in Nat /\ n <= FileSize
    BY FileSizeAssumption
  <2> QED  BY <2>3, <2>4
<1>4. \A r \in Resumer : res[r].res \in Nat
  BY DEF CloudInv, ResType
<1>5. At("sweep") # "idle" =>
         /\ task.in /\ ~running
         /\ task.status \in Terminal \cup {"pending"}
  BY AtPlaces DEF CloudInv, Sweeping, Clean
<1>6. task.in /\ task.status = "cancelled" /\ ~running => ~acct.open
  BY DEF CloudInv, Quiet, Clean
<1>7. /\ At("delete") # "idle" => ~task.in
      /\ At("delete") = "idle" => del.res = 0
  BY AtPlaces DEF CloudInv, Deleting, Clean
<1>8. /\ task.in => task.status # "none"
      /\ task.status = "none" =>
            At("delete") = "idle" /\ At("sweep") = "idle"
  BY AtPlaces DEF CloudInv, Known, Origins
<1> QED  BY <1>1, <1>2, <1>3, <1>4, <1>5, <1>6, <1>7, <1>8

\* A step of a that is not its saveTask takes it to p.
LEMMA AtGoto ==
    ASSUME CloudInv, NEW a \in Actor, NEW p, p \notin {"save", "write"},
           pc[a] \notin {"save", "write"}, Goto(a, p), UNCHANGED save
    PROVE  At(a)' = p /\ \A b \in Actor \ {a} : At(b)' = At(b)
BY DEF Goto, At, CloudInv, PcType

\* A step of a that ends with a saveTask takes it to where it goes on.
LEMMA AtSaveThen ==
    ASSUME CloudInv, NEW a \in Actor, NEW p, SaveThen(a, p)
    PROVE  At(a)' = p /\ \A b \in Actor \ {a} : At(b)' = At(b)
<1>1. PcType /\ SaveType
  BY DEF CloudInv
<1>2. pc'[a] = "save" /\ \A b \in Actor \ {a} : pc'[b] = pc[b]
  BY <1>1 DEF SaveThen, PcType
<1>3. save'[a].next = p /\ \A b \in Actor \ {a} : save'[b] = save[b]
  BY <1>1 DEF SaveThen, SaveType
<1> QED  BY <1>2, <1>3 DEF At

\* A step that touches neither files nor books, and takes no actor to or from
\* a place that matters to them.
Still ==
    /\ \A w \in Worker : At(w)' = At(w)
    /\ At("cancel")' = "rm" <=> At("cancel") = "rm"
    /\ At("delete")' = "rm" <=> At("delete") = "rm"
    /\ At("delete")' = "idle" <=> At("delete") = "idle"
    /\ At("sweep")' = "idle" <=> At("sweep") = "idle"
    /\ At("sweep")' = "drop" <=> At("sweep") = "drop"
    /\ \A a \in {"create"} \cup Resumer :
          At(a)' \in {"window", "launch"} => At(a) \in {"window", "launch"}
    /\ \A r \in Resumer :
          At(r)' = "window" => At(r) = "window" /\ res'[r] = res[r]
    /\ task'.in = task.in /\ task'.status = task.status
    /\ task'.reserved = task.reserved /\ (task'.done => task.done)
    /\ acct' = acct /\ disk' = disk /\ cloud' = cloud /\ usage' = usage
    /\ running' = running /\ cancelFn' = cancelFn
    /\ del' = del /\ item' = item /\ kept' = kept
    /\ \A w \in Worker :
          /\ dl'[w].cancelled = dl[w].cancelled /\ dl'[w].err = dl[w].err
          /\ dl'[w].lost = dl[w].lost /\ dl'[w].size = dl[w].size
          /\ dl'[w].old = dl[w].old

\* Such a step keeps what is known of the files.
LEMMA StillKeeps ==
    ASSUME Files, Still
    PROVE  Files'
<1>1. (Gone <=> Gone') /\ (Removing <=> Removing')
  BY DEF Still, Gone, Removing
<1>2. (Bare <=> Bare') /\ (FileThere <=> FileThere')
  BY DEF Still, Bare, FileThere
<1>3. Account'
  BY DEF Files, Account, Still
<1>4. Exact'
  BY <1>1 DEF Files, Exact, Still
<1>5. Tracked'
  <2> SUFFICES ASSUME NEW w \in Worker PROVE Told(w)' /\ Loaded(w)'
    BY DEF Tracked
  <2>1. Told(w) /\ Loaded(w)
    BY DEF Files, Tracked
  <2>2. Told(w)'
    BY <1>1, <2>1 DEF Told, Still
  <2>3. Loaded(w)'
    BY <1>1, <1>2, <2>1 DEF Loaded, Landed, Still
  <2> QED  BY <2>2, <2>3
<1>6. Unmarked'
  BY DEF Files, Unmarked, Still
<1>7. Removed'
  BY <1>1, <1>2 DEF Files, Removed, Still
<1>8. Resting'
  <2>1. /\ ~Gone' => acct'.com >= disk'.partial
        /\ Rests' => FileThere'
    BY <1>1, <1>2 DEF Files, Resting, Rests, Still
  <2>2. ASSUME NEW r \in Resumer, At(r)' = "window", ~Gone'
        PROVE  Found(r)'
    <3>1. At(r) = "window" /\ res'[r] = res[r] /\ ~Gone
      BY <1>1, <2>2 DEF Still
    <3>2. Found(r)
      BY <3>1 DEF Files, Resting
    <3> QED  BY <1>2, <3>1, <3>2 DEF Found, Still
  <2> QED  BY <2>1, <2>2 DEF Resting
<1> QED  BY <1>3, <1>4, <1>5, <1>6, <1>7, <1>8 DEF Files

\* A step of the goroutine w, which is and remains at work: nobody else
\* moves, and the task neither comes nor goes.
Alone(w) ==
    /\ \A a \in Actor \ {w} : At(a)' = At(a)
    /\ At(w) \notin {"unused", "over"}
    /\ running' = running
    /\ del' = del /\ res' = res /\ item' = item /\ kept' = kept
    /\ task'.in = task.in
    /\ (task'.status = "cancelled") <=> (task.status = "cancelled")
    /\ task'.status # "none"

\* What such a step has to leave in the account, the ledgers and the files.
Books(w) ==
    /\ ~acct'.open => acct'.com = 0 /\ acct'.res = 0
    /\ acct'.res = 0 \/ At(w)' = "recv"
    /\ usage' = acct'.com + acct'.res
    /\ ~kept => cloud' = task'.reserved + del.res
    /\ Gone => task'.reserved = 0
    /\ Gone /\ ~Removing => Bare'
    /\ ~Gone => acct'.com >= disk'.partial
    /\ task.in /\ task'.status = "completed" => FileThere'

\* What is known of the goroutines after the step follows from what w knows.
LEMMA AloneKeeps ==
    ASSUME CloudInv, Clean, Files, NEW w \in Worker, Alone(w), Books(w),
           cancelFn' = cancelFn \/ cancelFn' = w, Told(w)', Loaded(w)'
    PROVE  Files'
<1>1. (Gone <=> Gone') /\ (Removing <=> Removing')
  BY Who DEF Alone, Gone, Removing
<1>2. /\ running /\ running'
      /\ \A v \in Worker : v # w => At(v) \in {"unused", "over"}
      /\ \A a \in {"create"} \cup Resumer : At(a) \notin {"window", "launch"}
  BY Solo DEF Alone
<1>3. /\ \A v \in Worker \ {w} : At(v)' \in {"unused", "over"}
      /\ \A a \in {"create"} \cup Resumer : At(a)' \notin {"window", "launch"}
      /\ At("delete")' = At("delete") /\ At("sweep")' = At("sweep")
      /\ At("cancel")' = At("cancel")
  BY <1>2, Who DEF Alone
<1>4. At("sweep") = "idle" /\ (At("delete") # "idle" => del.run)
  BY <1>2, Plain DEF Files, Removed
<1>5. Account'
  BY DEF Books, Account
<1>6. Exact'
  BY <1>1, <1>2, <1>3, <1>4 DEF Books, Exact, Alone
<1>7. Tracked'
  <2> SUFFICES ASSUME NEW v \in Worker, v # w PROVE Told(v)' /\ Loaded(v)'
    BY DEF Tracked
  <2>1. At(v)' = At(v) /\ At(v) \in {"unused", "over"}
    BY <1>2, Who DEF Alone
  <2>2. Told(v)
    BY DEF Files, Tracked
  <2>3. Told(v)'
    BY <2>1, <2>2 DEF Told, Early
  <2>4. Loaded(v)'
    BY <2>1 DEF Loaded, Landed
  <2> QED  BY <2>3, <2>4
<1>8. Unmarked'
  BY <1>2, <1>3 DEF Unmarked, Alone
<1>9. Removed'
  BY <1>1, <1>2, <1>3, <1>4 DEF Files, Removed, Alone, Books
<1>10. Resting'
  BY <1>1, <1>3 DEF Resting, Rests, Books, Alone
<1> QED  BY <1>5, <1>6, <1>7, <1>8, <1>9, <1>10 DEF Files

\* A step of w that leaves account, ledgers and files and neither opens nor
\* uses a sink leaves the books in order.
LEMMA BooksSame ==
    ASSUME CloudInv, Clean, Files, NEW w \in Worker, Alone(w),
           At(w) # "recv", acct' = acct, usage' = usage, cloud' = cloud,
           disk'.partial = disk.partial, disk'.dest = disk.dest,
           task'.reserved = task.reserved, task'.status # "completed"
    PROVE  Books(w)
<1>1. /\ running
      /\ \A v \in Worker : v # w => At(v) \in {"unused", "over"}
  BY Solo DEF Alone
<1>2. acct.res = 0
  BY <1>1 DEF Files, Account
<1>3. usage = acct.com + acct.res
  BY <1>1 DEF Files, Exact
<1>4. Bare => Bare'
  BY DEF Bare
<1> QED
  BY <1>2, <1>3, <1>4 DEF Books, Files, Account, Exact, Removed, Resting

\* What stays when no actor leaves its place and nothing but records,
\* counters and marks of the flush loop change.
LEMMA StillSave ==
    ASSUME \A a \in Actor : At(a)' = At(a),
           UNCHANGED <<task, acct, running, cancelFn, disk, books, dl, held,
                       ghost>>
    PROVE  Still
BY Who DEF Still, books, held, ghost

\* A saveTask returns to where its actor was going.
LEMMA SnapshotStill ==
    ASSUME CloudInv, NEW a \in Actor, SaveSnapshot(a) \/ SaveWrite(a)
    PROVE  Still
<1>1. PcType /\ SaveType /\ At(a) \notin {"save", "write"}
  BY AtPlaces, Who DEF CloudInv
<1>2. pc[a] \in {"save", "write"} /\ At(a) = save[a].next
  BY DEF SaveSnapshot, SaveWrite, At
<1>3. \A b \in Actor \ {a} : pc'[b] = pc[b] /\ save'[b] = save[b]
  BY <1>1 DEF SaveSnapshot, SaveWrite, Goto, PcType, SaveType
<1>4. At(a)' = At(a)
  <2>1. CASE SaveSnapshot(a) /\ task.in
    <3>1. pc'[a] = "write" /\ save'[a].next = save[a].next
      BY <1>1, <2>1 DEF SaveSnapshot, Goto, PcType, SaveType
    <3> QED  BY <1>2, <3>1 DEF At
  <2>2. CASE (SaveSnapshot(a) /\ ~task.in) \/ SaveWrite(a)
    <3>1. pc'[a] = save[a].next
      BY <1>1, <2>2 DEF SaveSnapshot, SaveWrite, Goto, PcType
    <3> QED  BY <1>1, <1>2, <3>1 DEF At
  <2> QED  BY <2>1, <2>2
<1>5. \A b \in Actor : At(b)' = At(b)
  BY <1>3, <1>4 DEF At
<1> QED  BY <1>5, StillSave DEF SaveSnapshot, SaveWrite

\* The flush loop is where it was.
LEMMA FlushStill ==
    ASSUME CloudInv, FlushDirty
    PROVE  Still
<1>1. "flush" \in Actor /\ pc["flush"] = "idle" /\ At("flush") = "idle"
  BY Who DEF FlushDirty, Arrives, Idle, At
<1>2. CASE task.in
  <2>1. SaveThen("flush", "idle")
    BY <1>2 DEF FlushDirty
  <2>2. \A b \in Actor : At(b)' = At(b)
    BY <1>1, <2>1, AtSaveThen
  <2> QED  BY <2>2, StillSave DEF FlushDirty
<1>3. CASE ~task.in
  <2>1. \A b \in Actor : At(b)' = At(b)
    BY <1>3 DEF FlushDirty, At
  <2> QED  BY <2>1, StillSave DEF FlushDirty
<1> QED  BY <1>2, <1>3

\* A client that hangs up changes no file.
LEMMA ClientGoneStill ==
    ASSUME CloudInv, NEW w \in Worker, ClientGone(w)
    PROVE  Still
<1>1. \A b \in Actor : At(b)' = At(b)
  BY DEF ClientGone, At
<1>2. \A v \in Worker :
         /\ dl'[v].cancelled = dl[v].cancelled /\ dl'[v].err = dl[v].err
         /\ dl'[v].lost = dl[v].lost /\ dl'[v].size = dl[v].size
         /\ dl'[v].old = dl[v].old
  BY DEF ClientGone, CloudInv, DlType, Session
<1> QED
  BY <1>1, <1>2, Who DEF ClientGone, Still, books, held, ghost

\* A request moves between places that do not matter here.
LEMMA StillMove ==
    ASSUME CloudInv, NEW a \in Request, NEW p,
           \A b \in Actor \ {a} : At(b)' = At(b), At(a)' = p,
           a \in {"create"} \cup Resumer => p \notin {"window", "launch"},
           a = "cancel" => (p = "rm" <=> At("cancel") = "rm"),
           a = "delete" => /\ p = "rm" <=> At("delete") = "rm"
                           /\ p = "idle" <=> At("delete") = "idle",
           a = "sweep" => /\ p = "drop" <=> At("sweep") = "drop"
                          /\ p = "idle" <=> At("sweep") = "idle",
           \A r \in Resumer : r # a => res'[r] = res[r],
           UNCHANGED <<task, acct, running, cancelFn, disk, books, dl, del,
                       item, ghost>>
    PROVE  Still
<1>1. a \in Actor /\ a \notin Worker
  BY ActorAssumption DEF Actor
<1>2. \A w \in Worker : At(w)' = At(w)
  BY <1>1, Who
<1>3. \A b \in {"create"} \cup Resumer :
         At(b)' \in {"window", "launch"} => At(b) \in {"window", "launch"}
  BY <1>1, Who
<1>4. \A r \in Resumer :
          At(r)' = "window" => At(r) = "window" /\ res'[r] = res[r]
  BY <1>1, Who
<1> QED
  BY <1>1, <1>2, <1>3, <1>4, Who DEF Still, books, ghost

\* A resume looks the task up, waits, or is refused.
LEMMA ResumeStill ==
    ASSUME CloudInv, NEW r \in Resumer,
           ResumeLookup(r) \/ ResumeWait(r) \/ ResumeRefused(r)
    PROVE  Still
<1>1. r \in Actor /\ r \in Request /\ r \in Resumer
  BY Who
<1>2. PICK p \in {"wait", "claim", "idle"} : Goto(r, p)
  BY DEF ResumeLookup, ResumeWait, ResumeRefused
<1>3. /\ \A s \in Resumer : s # r => res'[s] = res[s]
      /\ UNCHANGED <<task, acct, running, cancelFn, disk, books, dl, del,
                     item, ghost>>
      /\ UNCHANGED save /\ pc[r] \in {"idle", "wait", "claim"}
  BY DEF ResumeLookup, ResumeWait, ResumeRefused, Arrives, Idle, held,
     CloudInv, ResType
<1>4. At(r)' = p /\ \A b \in Actor \ {r} : At(b)' = At(b)
  BY <1>1, <1>2, <1>3, AtGoto
<1>5. r # "cancel" /\ r # "delete" /\ r # "sweep"
  BY Who
<1> QED  BY <1>1, <1>3, <1>4, <1>5, StillMove

\* A record is removed.
LEMMA RecordStill ==
    ASSUME CloudInv, DeleteRecord \/ SweepRecord
    PROVE  Still
<1>1. CASE DeleteRecord
  <2>1. /\ "delete" \in Actor /\ "delete" \in Request
        /\ "delete" \notin {"create"} \cup Resumer
        /\ Goto("delete", "release") /\ UNCHANGED save
        /\ pc["delete"] = "json" /\ At("delete") = "json"
    BY <1>1, Who DEF DeleteRecord, At
  <2>2. /\ At("delete")' = "release"
        /\ \A b \in Actor \ {"delete"} : At(b)' = At(b)
    BY <2>1, AtGoto
  <2>3. UNCHANGED <<task, acct, running, cancelFn, disk, books, dl, del, res,
                    item, ghost>>
    BY <1>1 DEF DeleteRecord, held
  <2> QED  BY <2>1, <2>2, <2>3, StillMove
<1>2. CASE SweepRecord
  <2>1. /\ "sweep" \in Actor /\ "sweep" \in Request
        /\ "sweep" \notin {"create"} \cup Resumer
        /\ Goto("sweep", "rm") /\ UNCHANGED save
        /\ pc["sweep"] = "json" /\ At("sweep") = "json"
    BY <1>2, Who DEF SweepRecord, At
  <2>2. /\ At("sweep")' = "rm"
        /\ \A b \in Actor \ {"sweep"} : At(b)' = At(b)
    BY <2>1, AtGoto
  <2>3. UNCHANGED <<task, acct, running, cancelFn, disk, books, dl, del, res,
                    item, ghost>>
    BY <1>2 DEF SweepRecord, held
  <2> QED  BY <2>1, <2>2, <2>3, StillMove
<1> QED  BY <1>1, <1>2

\* What rollbackResumeLocked gives back, exactly.
LEMMA RollbackExact ==
    ASSUME NEW r \in Resumer,
           NEW t \in [in : BOOLEAN, status : Status \cup {"none"},
                      submitted : BOOLEAN, done : BOOLEAN,
                      damaged : BOOLEAN, reserved : Nat],
           NEW prev \in Status, NEW n \in Nat, Rollback(r, t, prev, n)
    PROVE  \E k \in Nat :
              /\ k = IF t.in /\ t.reserved >= n THEN n ELSE 0
              /\ cloud' = cloud - k /\ running' = FALSE /\ Goto(r, "idle")
              /\ task'.in = t.in /\ task'.done = t.done
              /\ task'.status = IF t.in /\ t.status = "pending" THEN prev
                                ELSE t.status
              /\ IF ~t.in \/ task'.status = "cancelled"
                 THEN ReleaseScope /\ task'.reserved = 0
                 ELSE /\ acct' = acct /\ usage' = usage
                      /\ task'.reserved = t.reserved - k
<1> DEFINE k == IF t.in /\ t.reserved >= n THEN n ELSE 0
           u == IF t.in /\ t.status = "pending"
                THEN [t EXCEPT !.status = prev, !.reserved = @ - k]
                ELSE [t EXCEPT !.reserved = @ - k]
           s == IF t.in /\ t.status = "pending" THEN prev ELSE t.status
<1>1. k \in Nat
  OBVIOUS
<1>2. /\ cloud' = cloud - k /\ running' = FALSE /\ Goto(r, "idle")
      /\ \/ /\ ReleaseScope /\ task' = [u EXCEPT !.reserved = 0]
            /\ ~u.in \/ u.status = "cancelled"
         \/ /\ task' = u /\ UNCHANGED <<acct, usage>>
            /\ u.in /\ u.status # "cancelled"
  BY DEF Rollback
<1>3. k = IF t.in /\ t.reserved >= n THEN n ELSE 0
  OBVIOUS
<1>4. u = [in |-> t.in, status |-> s, submitted |-> t.submitted,
           done |-> t.done, damaged |-> t.damaged,
           reserved |-> t.reserved - k]
  <2> HIDE DEF k
  <2>1. CASE t.in /\ t.status = "pending"
    <3>1. s = prev
      BY <2>1
    <3>2. u = [t EXCEPT !.status = prev, !.reserved = @ - k]
      BY <2>1
    <3> QED  BY <3>1, <3>2
  <2>2. CASE ~(t.in /\ t.status = "pending")
    <3>1. s = t.status
      BY <2>2
    <3>2. u = [t EXCEPT !.reserved = @ - k]
      BY <2>2
    <3> QED  BY <3>1, <3>2
  <2> QED  BY <2>1, <2>2
<1>5. s = IF t.in /\ t.status = "pending" THEN prev ELSE t.status
  OBVIOUS
<1> HIDE DEF k, u, s
<1>6. u.in = t.in /\ u.status = s /\ u.done = t.done
      /\ u.reserved = t.reserved - k
  BY <1>4
<1>7. CASE /\ ReleaseScope /\ task' = [u EXCEPT !.reserved = 0]
           /\ ~u.in \/ u.status = "cancelled"
  <2>1. task' = [in |-> t.in, status |-> s, submitted |-> t.submitted,
                 done |-> t.done, damaged |-> t.damaged, reserved |-> 0]
    BY <1>4, <1>7
  <2>2. task'.in = t.in /\ task'.status = s /\ task'.done = t.done
        /\ task'.reserved = 0
    BY <2>1
  <2>3. ~t.in \/ task'.status = "cancelled"
    BY <1>6, <1>7, <2>2
  <2> QED  BY <1>1, <1>2, <1>3, <1>5, <1>7, <2>2, <2>3
<1>8. CASE /\ task' = u /\ UNCHANGED <<acct, usage>>
           /\ u.in /\ u.status # "cancelled"
  <2>1. ~(~t.in \/ task'.status = "cancelled")
    BY <1>6, <1>8
  <2> QED  BY <1>1, <1>2, <1>3, <1>5, <1>6, <1>8, <2>1
<1> QED  BY <1>2, <1>7, <1>8

\* A resume for which there is no room leaves the task as it was.
LEMMA StorageFullStill ==
    ASSUME CloudInv, Clean, Files, NEW r \in Resumer, ResumeStorageFull(r)
    PROVE  Still
<1>1. /\ TaskType /\ task.in /\ task.status \in Status /\ ~running
      /\ task.reserved = 0 /\ Rollback(r, Claimed, task.status, 0)
      /\ pc[r] = "claim" /\ UNCHANGED save
  BY DEF ResumeStorageFull, Resumable, CloudInv, Status
<1>2. Claimed = [in |-> task.in, status |-> "pending",
                 submitted |-> task.submitted, done |-> FALSE,
                 damaged |-> FALSE, reserved |-> task.reserved]
  BY <1>1, ClaimedIs
<1>3. Claimed \in [in : BOOLEAN, status : Status \cup {"none"},
                   submitted : BOOLEAN, done : BOOLEAN,
                   damaged : BOOLEAN, reserved : Nat]
  BY <1>1, <1>2, TaskIs DEF Status
<1>4. /\ Claimed.in = task.in /\ Claimed.status = "pending"
      /\ Claimed.reserved = 0 /\ ~Claimed.done
  BY <1>1, <1>2
<1> HIDE DEF Claimed
<1>5. PICK k \in Nat :
         /\ k = IF Claimed.in /\ Claimed.reserved >= 0 THEN 0 ELSE 0
         /\ cloud' = cloud - k /\ running' = FALSE /\ Goto(r, "idle")
         /\ task'.in = Claimed.in /\ task'.done = Claimed.done
         /\ task'.status = IF Claimed.in /\ Claimed.status = "pending"
                           THEN task.status ELSE Claimed.status
         /\ IF ~Claimed.in \/ task'.status = "cancelled"
            THEN ReleaseScope /\ task'.reserved = 0
            ELSE /\ acct' = acct /\ usage' = usage
                 /\ task'.reserved = Claimed.reserved - k
  <2>1. 0 \in Nat
    OBVIOUS
  <2> QED  BY <1>1, <1>3, <2>1, RollbackExact
<1>6. k = 0 /\ task'.status = task.status /\ task'.in = task.in
  BY <1>1, <1>4, <1>5
<1>7. cloud' = cloud /\ task'.reserved = task.reserved /\ ~task'.done
  BY <1>1, <1>4, <1>5, <1>6, Plain
<1>8. acct' = acct /\ usage' = usage
  <2>1. CASE task.status = "cancelled"
    <3>1. ~acct.open
      BY <1>1, <2>1, Plain
    <3> QED  BY <1>1, <1>4, <1>5, <1>6, <2>1, <3>1 DEF ReleaseScope
  <2>2. CASE task.status # "cancelled"
    BY <1>1, <1>4, <1>5, <1>6, <2>2
  <2> QED  BY <2>1, <2>2
<1>9. At(r)' = "idle" /\ \A b \in Actor \ {r} : At(b)' = At(b)
  BY <1>1, <1>5, Who, AtGoto
<1>10. \A s \in Resumer : At(s) # "window"
  BY <1>1, Solo
<1>11. /\ \A w \in Worker : At(w)' = At(w)
       /\ At("cancel")' = At("cancel") /\ At("delete")' = At("delete")
       /\ At("sweep")' = At("sweep")
       /\ \A a \in {"create"} \cup Resumer :
            At(a)' \in {"window", "launch"} => At(a) \in {"window", "launch"}
       /\ \A s \in Resumer : At(s)' # "window"
  BY <1>9, <1>10, Who
<1>12. /\ disk' = disk /\ cancelFn' = cancelFn /\ del' = del /\ item' = item
       /\ kept' = kept /\ dl' = dl
  BY DEF ResumeStorageFull, ghost
<1>13. running' = running
  <2>1. running \in BOOLEAN
    BY DEF CloudInv, MarkType
  <2> QED  BY <1>1, <1>5, <2>1
<1> QED
  BY <1>6, <1>7, <1>8, <1>11, <1>12, <1>13 DEF Still

\* What w must see to to go quietly to p: a step that changes neither files
\* nor books.
Quietly(w, p) ==
    /\ At(w) \notin {"unused", "over", "clean", "exit", "recv"}
    /\ At(w)' = p /\ \A a \in Actor \ {w} : At(a)' = At(a)
    /\ p \in {"guard", "mkdir", "loop", "get", "open", "done", "mark",
              "final", "fail", "rm", "exit"}
    /\ running' = running
    /\ del' = del /\ res' = res /\ item' = item /\ kept' = kept
    /\ acct' = acct /\ usage' = usage /\ cloud' = cloud
    /\ disk'.partial = disk.partial /\ disk'.dest = disk.dest
    /\ task'.in = task.in /\ task'.reserved = task.reserved
    /\ \/ task'.status = task.status
       \/ task.status = "pending" /\ task'.status = "downloading"

\* What w knows there.
Aware(w, p) ==
    /\ Gone => p \in {"guard", "exit"} \/ dl'[w].cancelled
    /\ ~Gone => cancelFn' = w /\ ~dl'[w].cancelled
    /\ cancelFn' \in {cancelFn, w}
    /\ p \in {"rm", "exit"} => Gone
    /\ p \in Early => ~task'.done /\ ~dl'[w].lost
    /\ p = "open" /\ ~Gone => dl'[w].old = disk.partial
    /\ p \in {"mark", "final"} => Gone \/ FileThere
    /\ p = "done" => Gone \/ FileThere \/ dl'[w].err

\* A quiet step keeps what is known of the files.
LEMMA QuietKeeps ==
    ASSUME CloudInv, Clean, Files, NEW w \in Worker, NEW p,
           Quietly(w, p), Aware(w, p)
    PROVE  Files'
<1>1. /\ running
      /\ task.status \in {"pending", "downloading", "cancelled"}
  BY Solo DEF Quietly
<1>2. Alone(w)
  BY <1>1 DEF Quietly, Alone
<1>3. Books(w)
  <2>1. task'.status # "completed" /\ At(w) # "recv"
    BY <1>1 DEF Quietly
  <2> QED  BY <1>2, <2>1, BooksSame DEF Quietly
<1>4. Gone' <=> Gone
  BY <1>1 DEF Quietly, Gone
<1>5. FileThere' <=> FileThere
  BY DEF Quietly, FileThere
<1>6. At(w)' = p /\ p \notin {"unused", "start", "over", "clean", "ended",
                              "recv", "check"}
  BY DEF Quietly
<1>7. p = "exit" => task'.status \in Terminal
  <2> SUFFICES ASSUME p = "exit" PROVE task'.status = "cancelled"
    BY DEF Terminal
  <2>1. Gone
    BY DEF Aware
  <2>2. task.status = "cancelled"
    BY <1>1, <2>1 DEF Gone, Files, Removed
  <2> QED  BY <2>2 DEF Quietly
<1>8. Told(w)'
  <2>1. p = "rm" => Gone'
    BY <1>4 DEF Aware
  <2>2. IF Gone' THEN p \in {"guard", "exit"} \/ dl'[w].cancelled
        ELSE cancelFn' = w /\ ~dl'[w].cancelled
    BY <1>4 DEF Aware
  <2>3. p \in Early => ~task'.done /\ ~dl'[w].lost
    BY DEF Aware
  <2> QED  BY <1>6, <1>7, <2>1, <2>2, <2>3 DEF Told
<1>9. Loaded(w)'
  <2>1. p = "open" /\ ~Gone' => dl'[w].old = disk'.partial
    BY <1>4 DEF Aware, Quietly
  <2>2. p \in {"mark", "final"} => Gone' \/ FileThere'
    BY <1>4, <1>5 DEF Aware
  <2>3. p = "done" => Gone' \/ FileThere' \/ dl'[w].err
    BY <1>4, <1>5 DEF Aware
  <2> QED  BY <1>6, <2>1, <2>2, <2>3 DEF Loaded, Landed
<1> QED  BY <1>2, <1>3, <1>8, <1>9, AloneKeeps DEF Aware

\* The goroutine registers its cancel function.
LEMMA RegisterFiles ==
    ASSUME CloudInv, Clean, Files, NEW w \in Worker, Register(w)
    PROVE  Files'
<1>1. pc[w] = "start" /\ At(w) = "start" /\ w \in Actor
  BY Who DEF Register, At
<1>2. At(w)' = "guard" /\ \A a \in Actor \ {w} : At(a)' = At(a)
  BY <1>1, AtGoto DEF Register
<1>3. running' = running
  <2>1. running /\ running \in BOOLEAN
    BY <1>1, Solo DEF CloudInv, MarkType
  <2> QED  BY <2>1 DEF Register
<1>4. Quietly(w, "guard")
  BY <1>1, <1>2, <1>3 DEF Register, Quietly, books, held, ghost
<1>5. Told(w)
  BY DEF Files, Tracked
<1>6. Aware(w, "guard")
  BY <1>1, <1>5 DEF Aware, Told, Register, Early
<1> QED  BY <1>4, <1>6, QuietKeeps

\* The goroutine of a cancelled task leaves it alone.
LEMMA GuardFiles ==
    ASSUME CloudInv, Clean, Files, NEW w \in Worker, Guard(w)
    PROVE  Files'
<1>1. pc[w] = "guard" /\ At(w) = "guard" /\ w \in Actor
  BY Who DEF Guard, At
<1>2. Told(w)
  BY DEF Files, Tracked
<1>3. running
  BY <1>1, Solo
<1>4. CASE task.status = "cancelled"
  <2>1. Goto(w, "exit")
    BY <1>4 DEF Guard
  <2>2. At(w)' = "exit" /\ \A a \in Actor \ {w} : At(a)' = At(a)
    BY <1>1, <2>1, AtGoto DEF Guard
  <2>3. Quietly(w, "exit")
    BY <1>1, <2>2 DEF Guard, Quietly, books, held, ghost
  <2>4. Aware(w, "exit")
    BY <1>4 DEF Aware, Gone, Guard, Early
  <2> QED  BY <2>3, <2>4, QuietKeeps
<1>5. CASE task.status # "cancelled"
  <2>1. Goto(w, "mkdir")
    BY <1>5 DEF Guard
  <2>2. At(w)' = "mkdir" /\ \A a \in Actor \ {w} : At(a)' = At(a)
    BY <1>1, <2>1, AtGoto DEF Guard
  <2>3. Quietly(w, "mkdir")
    BY <1>1, <2>2 DEF Guard, Quietly, books, held, ghost
  <2>4. ~Gone
    BY <1>3, <1>5 DEF Gone, Files, Removed
  <2>5. Aware(w, "mkdir")
    BY <1>1, <1>2, <2>4 DEF Aware, Told, Guard, Early
  <2> QED  BY <2>3, <2>5, QuietKeeps
<1> QED  BY <1>4, <1>5

\* The directory is made; a file found there is not marked as done.
LEMMA MakeDirFiles ==
    ASSUME CloudInv, Clean, Files, NEW w \in Worker, MakeDir(w)
    PROVE  Files'
<1>1. pc[w] = "mkdir" /\ At(w) = "mkdir" /\ w \in Actor
  BY Who DEF MakeDir, At
<1>2. Told(w)
  BY DEF Files, Tracked
<1>3. ~task.done
  BY <1>1, <1>2 DEF Told, Early
<1>4. PICK p \in {"loop", "fail"} : Goto(w, p)
  BY <1>3 DEF MakeDir
<1>5. At(w)' = p /\ \A a \in Actor \ {w} : At(a)' = At(a)
  BY <1>1, <1>4, AtGoto DEF MakeDir
<1>6. disk'.partial = disk.partial /\ disk'.dest = disk.dest
  BY DEF MakeDir, CloudInv, DiskType
<1>7. Quietly(w, p)
  BY <1>1, <1>5, <1>6 DEF MakeDir, Quietly, books, held, ghost
<1>8. Aware(w, p)
  BY <1>1, <1>2, <1>3 DEF Aware, Told, MakeDir, Early
<1> QED  BY <1>7, <1>8, QuietKeeps

\* A retry is begun, or the loop is left.
LEMMA TryAttemptFiles ==
    ASSUME CloudInv, Clean, Files, NEW w \in Worker, TryAttempt(w)
    PROVE  Files'
<1>1. pc[w] = "loop" /\ At(w) = "loop" /\ w \in Actor
  BY Who DEF TryAttempt, At
<1>2. Told(w) /\ ~task.done /\ ~dl[w].lost
  BY <1>1 DEF Files, Tracked, Told, Early
<1>3. /\ dl'[w].cancelled = dl[w].cancelled /\ dl'[w].lost = dl[w].lost
      /\ task'.done = task.done
  BY DEF TryAttempt, MarkDownloading, CloudInv, DlType, Session, TaskType
<1>4. CASE dl[w].cancelled \/ dl[w].gone
  <2>1. /\ Goto(w, "done") /\ UNCHANGED save /\ dl'[w].err /\ task' = task
    BY <1>4 DEF TryAttempt, CloudInv, DlType, Session
  <2>2. At(w)' = "done" /\ \A a \in Actor \ {w} : At(a)' = At(a)
    BY <1>1, <2>1, AtGoto
  <2>3. Quietly(w, "done")
    BY <1>1, <2>1, <2>2 DEF TryAttempt, Quietly, books, held, ghost
  <2>4. Aware(w, "done")
    BY <1>1, <1>2, <1>3, <2>1 DEF Aware, Told, TryAttempt, Early
  <2> QED  BY <2>3, <2>4, QuietKeeps
<1>5. CASE /\ ~(dl[w].cancelled \/ dl[w].gone)
           /\ task.in /\ task.status \in {"pending", "downloading"}
  <2>1. /\ SaveThen(w, "get")
        /\ task' = [task EXCEPT !.status = "downloading"]
    BY <1>5 DEF TryAttempt, MarkDownloading
  <2>2. At(w)' = "get" /\ \A a \in Actor \ {w} : At(a)' = At(a)
    BY <1>1, <2>1, AtSaveThen
  <2>3. /\ task'.in = task.in /\ task'.reserved = task.reserved
        /\ task'.status = "downloading"
    BY <2>1 DEF CloudInv, TaskType
  <2>4. Quietly(w, "get")
    BY <1>1, <1>5, <2>2, <2>3 DEF TryAttempt, Quietly, books, held, ghost
  <2>5. Aware(w, "get")
    BY <1>1, <1>2, <1>3 DEF Aware, Told, TryAttempt, Early
  <2> QED  BY <2>4, <2>5, QuietKeeps
<1>6. CASE /\ ~(dl[w].cancelled \/ dl[w].gone)
           /\ ~(task.in /\ task.status \in {"pending", "downloading"})
  <2>1. Goto(w, "done") /\ UNCHANGED save /\ task' = task
    BY <1>6 DEF TryAttempt, MarkDownloading
  <2>2. At(w)' = "done" /\ \A a \in Actor \ {w} : At(a)' = At(a)
    BY <1>1, <2>1, AtGoto
  <2>3. Quietly(w, "done")
    BY <1>1, <2>1, <2>2 DEF TryAttempt, Quietly, books, held, ghost
  <2>4. Gone
    BY <1>1, <1>6, Solo DEF Gone
  <2>5. Aware(w, "done")
    BY <1>1, <1>2, <1>3, <2>4 DEF Aware, Told, TryAttempt, Early
  <2> QED  BY <2>3, <2>5, QuietKeeps
<1> QED  BY <1>4, <1>5, <1>6

\* The size of the partial file is noted.
LEMMA SendGetFiles ==
    ASSUME CloudInv, Clean, Files, NEW w \in Worker, SendGet(w)
    PROVE  Files'
<1>1. pc[w] = "get" /\ At(w) = "get" /\ w \in Actor
  BY Who DEF SendGet, At
<1>2. Told(w) /\ ~task.done /\ ~dl[w].lost
  BY <1>1 DEF Files, Tracked, Told, Early
<1>3. /\ dl'[w].cancelled = dl[w].cancelled /\ dl'[w].lost = dl[w].lost
      /\ dl'[w].old = disk.partial
  BY DEF SendGet, CloudInv, DlType, Session
<1>4. At(w)' = "open" /\ \A a \in Actor \ {w} : At(a)' = At(a)
  BY <1>1, AtGoto DEF SendGet
<1>5. Quietly(w, "open")
  BY <1>1, <1>4 DEF SendGet, Quietly, books, held, ghost
<1>6. Aware(w, "open")
  BY <1>1, <1>2, <1>3 DEF Aware, Told, SendGet, Early
<1> QED  BY <1>5, <1>6, QuietKeeps

\* A failed attempt is repeated or not.
LEMMA RetryFiles ==
    ASSUME CloudInv, Clean, Files, NEW w \in Worker, Retry(w)
    PROVE  Files'
<1>1. pc[w] = "ended" /\ At(w) = "ended" /\ w \in Actor
  BY Who DEF Retry, At
<1>2. Told(w) /\ ~task.done /\ dl[w].err /\ ~dl[w].lost
  BY <1>1 DEF Files, Tracked, Told, Early
<1>3. PICK p \in {"loop", "done"} : Goto(w, p)
  BY DEF Retry
<1>4. At(w)' = p /\ \A a \in Actor \ {w} : At(a)' = At(a)
  BY <1>1, <1>3, AtGoto DEF Retry
<1>5. Quietly(w, p)
  BY <1>1, <1>4 DEF Retry, Quietly, books, held, ghost
<1>6. Aware(w, p)
  BY <1>1, <1>2 DEF Aware, Told, Retry, Early
<1> QED  BY <1>5, <1>6, QuietKeeps

\* The integrity check is passed or blocks the file.
LEMMA CheckDoneFiles ==
    ASSUME CloudInv, Clean, Files, NEW w \in Worker, CheckDone(w)
    PROVE  Files'
<1>1. pc[w] = "check" /\ At(w) = "check" /\ w \in Actor
  BY Who DEF CheckDone, At
<1>2. Told(w) /\ Loaded(w) /\ ~task.done /\ ~dl[w].lost
  BY <1>1 DEF Files, Tracked, Told, Early
<1>3. dl'[w].cancelled = dl[w].cancelled /\ dl'[w].lost = dl[w].lost
  BY DEF CheckDone, CloudInv, DlType, Session
<1>4. /\ task'.in = task.in /\ task'.status = task.status
      /\ task'.reserved = task.reserved /\ task'.done = task.done
  BY DEF CheckDone, CloudInv, TaskType
<1>5. At(w)' = "done" /\ \A a \in Actor \ {w} : At(a)' = At(a)
  BY <1>1, AtGoto DEF CheckDone
<1>6. Quietly(w, "done")
  BY <1>1, <1>4, <1>5 DEF CheckDone, Quietly, books, held, ghost
<1>7. Gone \/ FileThere
  BY <1>1, <1>2 DEF Loaded, Landed
<1>8. Aware(w, "done")
  BY <1>1, <1>2, <1>3, <1>4, <1>7 DEF Aware, Told, CheckDone, Early
<1> QED  BY <1>6, <1>8, QuietKeeps

\* handleDownloadDone chooses.
LEMMA DownloadDoneFiles ==
    ASSUME CloudInv, Clean, Files, NEW w \in Worker, DownloadDone(w)
    PROVE  Files'
<1>1. pc[w] = "done" /\ At(w) = "done" /\ w \in Actor
  BY Who DEF DownloadDone, At
<1>2. Told(w) /\ Loaded(w) /\ ~task.done /\ ~dl[w].lost
  BY <1>1 DEF Files, Tracked, Told, Early
<1>d. /\ dl'[w].cancelled = dl[w].cancelled /\ dl'[w].lost = dl[w].lost
      /\ dl'[w].err = dl[w].err
      /\ \A v \in Worker \ {w} : dl'[v] = dl[v]
  BY DEF DownloadDone, CloudInv, DlType, Session
<1>3. PICK p \in {"rm", "mark", "fail"} :
         /\ Goto(w, p)
         /\ p = "rm" => ~task.in \/ dl[w].cancelled
         /\ p = "mark" => ~dl[w].err
  BY DEF DownloadDone
<1>4. At(w)' = p /\ \A a \in Actor \ {w} : At(a)' = At(a)
  BY <1>1, <1>3, AtGoto DEF DownloadDone
<1>5. Quietly(w, p)
  BY <1>1, <1>4, <1>d DEF DownloadDone, Quietly, books, held, ghost
<1>6. p = "rm" => Gone
  BY <1>1, <1>2, <1>3 DEF Told, Gone
<1>7. p = "mark" => Gone \/ FileThere
  BY <1>1, <1>2, <1>3 DEF Loaded, Landed
<1>8. Aware(w, p)
  BY <1>1, <1>2, <1>6, <1>7, <1>d DEF Aware, Told, DownloadDone, Early
<1> QED  BY <1>5, <1>8, QuietKeeps

\* The file is marked as done.
LEMMA MarkArtifactFiles ==
    ASSUME CloudInv, Clean, Files, NEW w \in Worker, MarkArtifact(w)
    PROVE  Files'
<1>1. pc[w] = "mark" /\ At(w) = "mark" /\ w \in Actor
  BY Who DEF MarkArtifact, At
<1>2. Told(w) /\ Loaded(w)
  BY <1>1 DEF Files, Tracked
<1>3. /\ task'.in = task.in /\ task'.status = task.status
      /\ task'.reserved = task.reserved
  BY DEF MarkArtifact, CloudInv, TaskType
<1>4. At(w)' = "final" /\ \A a \in Actor \ {w} : At(a)' = At(a)
  <2>1. CASE disk.dest > 0
    BY <1>1, <2>1, AtSaveThen DEF MarkArtifact
  <2>2. CASE ~(disk.dest > 0)
    BY <1>1, <2>2, AtGoto DEF MarkArtifact
  <2> QED  BY <2>1, <2>2
<1>5. Quietly(w, "final")
  BY <1>1, <1>3, <1>4 DEF MarkArtifact, Quietly, books, held, ghost
<1>6. Gone \/ FileThere
  BY <1>1, <1>2 DEF Loaded, Landed
<1>7. Aware(w, "final")
  BY <1>1, <1>2, <1>6 DEF Aware, Told, MarkArtifact, Early
<1> QED  BY <1>5, <1>7, QuietKeeps

\* A task that has ended is neither failed nor completed.
LEMMA LeftAloneFiles ==
    ASSUME CloudInv, Clean, Files, NEW w \in Worker,
           FailTaskEnded(w) \/ FinalizeAbandoned(w)
    PROVE  Files'
<1>1. /\ pc[w] \in {"fail", "final"} /\ At(w) \in {"fail", "final"}
      /\ w \in Actor
  BY Who DEF FailTaskEnded, FinalizeAbandoned, At
<1>2. Told(w)
  BY DEF Files, Tracked
<1>3. Gone
  <2>1. CASE FailTaskEnded(w)
    BY <1>1, <2>1, Solo DEF FailTaskEnded, Terminal, Gone
  <2>2. CASE FinalizeAbandoned(w)
    BY <2>2 DEF FinalizeAbandoned, Gone
  <2> QED  BY <2>1, <2>2
<1>4. PICK p \in {"exit", "rm"} : Goto(w, p)
  BY DEF FailTaskEnded, FinalizeAbandoned
<1>5. At(w)' = p /\ \A a \in Actor \ {w} : At(a)' = At(a)
  BY <1>1, <1>4, AtGoto DEF FailTaskEnded, FinalizeAbandoned
<1>6. Quietly(w, p)
  BY <1>1, <1>5
     DEF FailTaskEnded, FinalizeAbandoned, Quietly, books, held, ghost
<1>7. Aware(w, p)
  BY <1>1, <1>2, <1>3
     DEF Aware, Told, FailTaskEnded, FinalizeAbandoned, Early
<1> QED  BY <1>6, <1>7, QuietKeeps

\* What holds of the books while w is at work.
LEMMA Working ==
    ASSUME CloudInv, Clean, Files, NEW w \in Worker,
           At(w) \notin {"unused", "over"}
    PROVE  /\ running /\ At("sweep") = "idle" /\ task.status # "none"
           /\ \/ At(w) \in {"clean", "exit"}
              \/ task.status \in {"pending", "downloading", "cancelled"}
           /\ ~acct.open => acct.com = 0 /\ acct.res = 0
           /\ acct.res = 0 \/ At(w) = "recv"
           /\ usage = acct.com + acct.res
           /\ ~kept => cloud = task.reserved + del.res
           /\ Gone => task.reserved = 0
           /\ Gone /\ ~Removing => Bare
           /\ ~Gone => acct.com >= disk.partial
           /\ Told(w) /\ Loaded(w)
<1>1. /\ running /\ task.status # "none"
      /\ \A v \in Worker : v # w => At(v) \in {"unused", "over"}
      /\ \/ At(w) \in {"clean", "exit"}
         \/ task.status \in {"pending", "downloading", "cancelled"}
  BY Solo
<1>2. At("sweep") = "idle"
  BY <1>1, Plain
<1>3. /\ ~acct.open => acct.com = 0 /\ acct.res = 0
      /\ acct.res = 0 \/ At(w) = "recv"
  BY <1>1 DEF Files, Account
<1>4. /\ usage = acct.com + acct.res
      /\ ~kept => cloud = task.reserved + del.res
      /\ Gone => task.reserved = 0
  BY <1>1 DEF Files, Exact
<1>5. /\ Gone /\ ~Removing => Bare
      /\ ~Gone => acct.com >= disk.partial
      /\ Told(w) /\ Loaded(w)
  BY DEF Files, Removed, Resting, Tracked
<1> QED  BY <1>1, <1>2, <1>3, <1>4, <1>5

\* The partial file is opened: what was in it is booked, and so is what the
\* download starts from.
LEMMA OpenPartialFiles ==
    ASSUME CloudInv, Clean, Files, NEW w \in Worker, OpenPartial(w)
    PROVE  Files'
<1>1. pc[w] = "open" /\ At(w) = "open" /\ w \in Actor
  BY Who DEF OpenPartial, At
<1>2. At(w)' = "recv" /\ \A a \in Actor \ {w} : At(a)' = At(a)
  BY <1>1, AtGoto DEF OpenPartial
<1>3. /\ ~acct.open => acct.com = 0 /\ acct.res = 0
      /\ acct.res = 0 /\ usage = acct.com + acct.res
      /\ ~kept => cloud = task.reserved + del.res
      /\ task.status \in {"pending", "downloading", "cancelled"}
      /\ Told(w) /\ Loaded(w) /\ running
  BY <1>1, Working
<1>4. ~Gone
  BY <1>1, <1>3 DEF Told, OpenPartial
<1>5. /\ ~task.done /\ ~dl[w].lost /\ cancelFn = w /\ ~dl[w].cancelled
      /\ dl[w].old = disk.partial /\ acct.com >= disk.partial
  BY <1>1, <1>3, <1>4, Working DEF Told, Loaded, Early
<1>6. AcctType /\ BookType /\ DiskType /\ DlType
  BY DEF CloudInv
<1>7. /\ dl'[w].lost = dl[w].lost /\ dl'[w].cancelled = dl[w].cancelled
      /\ dl'[w].size \in Nat /\ dl'[w].old \in Nat
      /\ dl'[w].size = disk'.partial /\ dl'[w].size + dl'[w].old <= acct.com
      /\ \E n \in Nat : OpenSink(n) /\ (n # FileSize => acct.open)
  <2>1. CASE /\ dl[w].old \in 1..(FileSize - 1)
             /\ dl' = [dl EXCEPT ![w].size = dl[w].old, ![w].old = 0]
             /\ OpenSink(FileSize - dl[w].old) /\ UNCHANGED disk
    <3> DEFINE d == [dl[w] EXCEPT !.size = dl[w].old]
    <3>1. dl[w] \in Session
      BY <1>6 DEF DlType
    <3>2. dl'[w] = [d EXCEPT !.old = 0]
      BY <1>6, <2>1 DEF DlType
    <3>3. /\ d.lost = dl[w].lost /\ d.cancelled = dl[w].cancelled
          /\ d.size = dl[w].old /\ d.old = dl[w].old
          /\ d = [cancelled |-> d.cancelled, sync |-> d.sync,
                  gone |-> d.gone, err |-> d.err, size |-> d.size,
                  old |-> d.old, lost |-> d.lost, tries |-> d.tries]
      BY <3>1 DEF Session
    <3> HIDE DEF d
    <3>4. /\ dl'[w].lost = dl[w].lost /\ dl'[w].cancelled = dl[w].cancelled
          /\ dl'[w].size = dl[w].old /\ dl'[w].old = 0
      BY <3>2, <3>3
    <3>5. /\ dl[w].old \in Nat /\ FileSize - dl[w].old \in Nat
          /\ dl[w].old >= 1
      BY <2>1, Who
    <3>6. acct.open
      BY <1>3, <1>5, <3>5
    <3>7. disk' = disk /\ OpenSink(FileSize - dl[w].old)
      BY <2>1
    <3>8. dl'[w].size + dl'[w].old <= acct.com
      BY <1>5, <3>4, <3>5, Plain
    <3> QED  BY <1>5, <3>4, <3>5, <3>6, <3>7, <3>8
  <2>2. CASE /\ disk' = [disk EXCEPT !.dir = TRUE, !.partial = 0]
             /\ dl' = [dl EXCEPT ![w].size = 0]
             /\ OpenSink(FileSize)
    <3>1. dl[w] \in Session
      BY <1>6 DEF DlType
    <3>2. /\ dl'[w].lost = dl[w].lost /\ dl'[w].cancelled = dl[w].cancelled
          /\ dl'[w].size = 0 /\ dl'[w].old = dl[w].old
      BY <2>2, <1>6, <3>1 DEF DlType, Session
    <3>3. disk'.partial = 0
      BY <2>2, <1>6 DEF DiskType
    <3> QED  BY <1>5, <2>2, <3>2, <3>3, Who, Plain
  <2> QED  BY <2>1, <2>2 DEF OpenPartial
<1>8. /\ acct'.open /\ acct'.com = acct.com
      /\ acct'.com \in Nat /\ acct'.res \in Nat
      /\ usage' = acct'.com + acct'.res
  <2>1. PICK n \in Nat : OpenSink(n)
    BY <1>7
  <2>2. CASE acct.open
    BY <1>3, <2>1, <2>2, AcctIs, <1>6 DEF OpenSink
  <2>3. CASE ~acct.open
    <3>1. acct' = [open |-> TRUE, com |-> 0, res |-> n] /\ usage' = usage + n
      BY <2>1, <2>3 DEF OpenSink
    <3>2. acct.com = 0 /\ usage = 0
      BY <1>3, <2>3
    <3> QED  BY <3>1, <3>2
  <2> QED  BY <2>2, <2>3
<1>9. Alone(w)
  BY <1>1, <1>2, <1>3 DEF Alone, OpenPartial, held, ghost
<1>10. disk'.partial \in Nat /\ acct'.com >= disk'.partial
  BY <1>7, <1>8, Plain
<1>11. Books(w)
  BY <1>2, <1>3, <1>4, <1>8, <1>10 DEF Books, OpenPartial
<1>12. ~Gone'
  BY <1>4 DEF Gone, OpenPartial
<1>13. Told(w)'
  BY <1>2, <1>5, <1>7, <1>12 DEF Told, OpenPartial, Early
<1>14. Loaded(w)'
  <2>1. acct'.com >= dl'[w].size + dl'[w].old
    BY <1>7, <1>8
  <2> QED  BY <1>2, <1>5, <1>7, <1>8, <1>12, <2>1 DEF Loaded, Landed
<1>15. cancelFn' = cancelFn
  BY DEF OpenPartial
<1> QED  BY <1>9, <1>11, <1>13, <1>14, <1>15, AloneKeeps

\* A closed attempt.
LEMMA ClosedFields ==
    ASSUME CloudInv, NEW w \in Worker, NEW b \in BOOLEAN,
           dl' = [dl EXCEPT ![w] = Closed(w, b)]
    PROVE  /\ dl'[w].cancelled = dl[w].cancelled /\ dl'[w].err = b
           /\ ~dl'[w].lost
<1>1. dl[w] \in Session /\ dl'[w] = Closed(w, b)
  BY DEF CloudInv, DlType
<1> DEFINE d1 == [dl[w] EXCEPT !.err = b]
           d2 == [d1 EXCEPT !.size = 0]
           d3 == [d2 EXCEPT !.old = 0]
<1>0. 0 \in 0..FileSize
  BY FileSizeAssumption
<1>2. d1 \in Session /\ d1.cancelled = dl[w].cancelled /\ d1.err = b
  BY <1>1, SessionField DEF Session
<1>3. d2 \in Session /\ d2.cancelled = d1.cancelled /\ d2.err = d1.err
  <2> HIDE DEF d1
  <2> QED  BY <1>0, <1>2, SessionField DEF Session
<1>4. d3 \in Session /\ d3.cancelled = d2.cancelled /\ d3.err = d2.err
  <2> HIDE DEF d2
  <2> QED  BY <1>0, <1>3, SessionField DEF Session
<1>5. Closed(w, b) = [d3 EXCEPT !.lost = FALSE]
  BY DEF Closed
<1> HIDE DEF d1, d2, d3
<1>6. /\ dl'[w].cancelled = d3.cancelled /\ dl'[w].err = d3.err
      /\ dl'[w].lost = FALSE
  BY <1>1, <1>4, <1>5 DEF Session
<1> QED  BY <1>2, <1>3, <1>4, <1>6

\* What Settle leaves, exactly.
LEMMA SettleExact ==
    ASSUME CloudInv, NEW n \in Nat, Settle(n), usage = acct.com + acct.res
    PROVE  /\ acct'.open = acct.open /\ acct'.res = 0
           /\ acct'.com = acct.com - Least(n, acct.com)
           /\ acct'.com \in Nat /\ usage' = acct'.com + acct'.res
<1> DEFINE k == Least(n, acct.com)
<1>1. acct.com \in Nat /\ acct.res \in Nat /\ AcctType
  BY AcctIs DEF CloudInv
<1>2. k \in Nat /\ k <= acct.com
  BY <1>1 DEF Least
<1>3. /\ usage' = usage - acct.res - k
      /\ acct' = [acct EXCEPT !.res = 0, !.com = @ - k]
  BY DEF Settle
<1>4. k = Least(n, acct.com)
  OBVIOUS
<1> HIDE DEF k
<1>5. acct' = [open |-> acct.open, com |-> acct.com - k, res |-> 0]
  BY <1>1, <1>3 DEF AcctType
<1>6. acct'.open = acct.open /\ acct'.com = acct.com - k /\ acct'.res = 0
  BY <1>5
<1>7. usage' = acct.com - k
  BY <1>1, <1>2, <1>3
<1>8. acct.com - k \in Nat
  BY <1>1, <1>2
<1> QED  BY <1>4, <1>6, <1>7, <1>8

\* Finish(false) keeps what was written.
LEMMA SettleNone ==
    ASSUME CloudInv, Settle(0), usage = acct.com + acct.res
    PROVE  /\ acct'.open = acct.open /\ acct'.com = acct.com
           /\ acct'.res = 0 /\ usage' = acct'.com + acct'.res
<1>1. 0 \in Nat /\ acct.com \in Nat
  BY AcctIs DEF CloudInv
<1>2. Least(0, acct.com) = 0
  BY <1>1 DEF Least
<1> QED  BY <1>1, <1>2, SettleExact

\* 416: the complete partial file becomes the file.
LEMMA FinalizePartialFiles ==
    ASSUME CloudInv, Clean, Files, NEW w \in Worker, FinalizePartial(w)
    PROVE  Files'
<1>1. pc[w] = "open" /\ At(w) = "open" /\ w \in Actor
  BY Who DEF FinalizePartial, At
<1>2. At(w)' = "check" /\ \A a \in Actor \ {w} : At(a)' = At(a)
  BY <1>1, AtGoto DEF FinalizePartial
<1>3. /\ ~acct.open => acct.com = 0 /\ acct.res = 0
      /\ acct.res = 0 /\ usage = acct.com + acct.res
      /\ ~kept => cloud = task.reserved + del.res
      /\ task.status \in {"pending", "downloading", "cancelled"}
      /\ Told(w) /\ Loaded(w) /\ running
  BY <1>1, Working
<1>4. ~Gone
  BY <1>1, <1>3 DEF Told, FinalizePartial
<1>5. /\ ~task.done /\ cancelFn = w /\ ~dl[w].cancelled
      /\ acct.com >= FileSize
  BY <1>1, <1>3, <1>4, Working DEF Told, FinalizePartial, Early
<1>6. dl'[w].cancelled = dl[w].cancelled /\ ~dl'[w].lost
  BY ClosedFields DEF FinalizePartial
<1>7. disk'.partial = 0 /\ disk'.dest = FileSize
  BY DEF FinalizePartial, CloudInv, DiskType
<1>8. FileThere'
  BY <1>5, <1>7 DEF FileThere, FinalizePartial
<1>9. Alone(w)
  BY <1>1, <1>2, <1>3 DEF Alone, FinalizePartial, held, ghost
<1>10. Books(w)
  BY <1>3, <1>4, <1>7, <1>8, Plain DEF Books, FinalizePartial, books
<1>11. ~Gone'
  BY <1>4 DEF Gone, FinalizePartial
<1>12. Told(w)'
  BY <1>2, <1>5, <1>6, <1>11 DEF Told, FinalizePartial, Early
<1>13. Loaded(w)'
  BY <1>2, <1>8 DEF Loaded, Landed
<1>14. cancelFn' = cancelFn
  BY DEF FinalizePartial
<1> QED  BY <1>9, <1>10, <1>12, <1>13, <1>14, AloneKeeps

\* A block is booked and written.
LEMMA WriteBlockFiles ==
    ASSUME CloudInv, Clean, Files, NEW w \in Worker, WriteBlock(w)
    PROVE  Files'
<1>1. pc[w] = "recv" /\ At(w) = "recv" /\ w \in Actor
  BY Who DEF WriteBlock, At
<1>2. \A a \in Actor : At(a)' = At(a)
  BY DEF WriteBlock, At
<1>3. /\ ~acct.open => acct.com = 0 /\ acct.res = 0
      /\ usage = acct.com + acct.res
      /\ ~kept => cloud = task.reserved + del.res
      /\ Gone => task.reserved = 0
      /\ task.status \in {"pending", "downloading", "cancelled"}
      /\ Told(w) /\ Loaded(w) /\ running
      /\ ~Gone => acct.com >= disk.partial
  BY <1>1, Working
<1>4. /\ acct.com \in Nat /\ acct.res \in Nat /\ dl[w].size \in Nat
      /\ dl[w].old \in Nat /\ disk.partial \in Nat /\ usage \in Int
  BY Plain
<1>5. /\ acct'.open = acct.open /\ acct'.com = acct.com + 1
      /\ acct'.res = IF acct.res > 0 THEN acct.res - 1 ELSE 0
      /\ acct'.com \in Nat /\ acct'.res \in Nat
  <2> DEFINE a1 == [acct EXCEPT !.com = @ + 1]
  <2>1. a1 = [open |-> acct.open, com |-> acct.com + 1, res |-> acct.res]
    BY DEF CloudInv, AcctType
  <2>2. acct' = [a1 EXCEPT !.res = IF @ > 0 THEN @ - 1 ELSE 0]
    BY DEF WriteBlock
  <2> HIDE DEF a1
  <2>3. acct' = [open |-> acct.open, com |-> acct.com + 1,
                 res |-> IF acct.res > 0 THEN acct.res - 1 ELSE 0]
    BY <2>1, <2>2
  <2> QED  BY <1>4, <2>3
<1>6. usage' = acct'.com + acct'.res
  <2>1. usage' = IF acct.res > 0 THEN usage ELSE usage + 1
    BY DEF WriteBlock
  <2> QED  BY <1>3, <1>4, <1>5, <2>1
<1>7. /\ dl'[w].lost = dl[w].lost /\ dl'[w].cancelled = dl[w].cancelled
      /\ dl'[w].old = dl[w].old /\ dl'[w].size = dl[w].size + 1
  BY DEF WriteBlock, CloudInv, DlType, Session
<1>8. Gone' <=> Gone
  BY DEF Gone, WriteBlock
<1>9. Removing' <=> Removing
  BY <1>2, Who DEF Removing
<1>10. Alone(w)
  BY <1>1, <1>2, <1>3 DEF Alone, WriteBlock, held, ghost
<1>11. cancelFn' = cancelFn /\ task' = task /\ cloud' = cloud
  BY DEF WriteBlock
<1>12. task.status # "completed" /\ At(w)' = "recv"
  BY <1>1, <1>2, <1>3
<1>13. acct'.open
  BY <1>1, <1>3, <1>5 DEF Loaded
<1>14. Told(w)'
  BY <1>1, <1>3, <1>7, <1>8, <1>11, <1>12 DEF Told, Early
<1>15. CASE dl[w].lost
  <2>1. disk' = disk /\ Gone
    BY <1>1, <1>3, <1>15 DEF WriteBlock, Loaded
  <2>2. Gone /\ ~Removing => Bare'
    BY <2>1 DEF Files, Removed, Bare
  <2>3. Books(w)
    BY <1>3, <1>6, <1>11, <1>12, <1>13, <2>1, <2>2 DEF Books
  <2>4. Loaded(w)'
    BY <1>7, <1>8, <1>12, <1>13, <1>15, <2>1 DEF Loaded, Landed
  <2> QED  BY <1>10, <1>11, <1>14, <2>3, <2>4, AloneKeeps
<1>16. CASE ~dl[w].lost
  <2>1. disk'.partial = dl[w].size + 1
    BY <1>16 DEF WriteBlock, CloudInv, DiskType
  <2>2. /\ Gone => Removing
        /\ ~Gone => acct.com >= dl[w].size + dl[w].old
    BY <1>1, <1>3, <1>16 DEF Loaded
  <2>3. ~Gone => /\ acct'.com >= dl'[w].size + dl'[w].old
                 /\ acct'.com >= disk'.partial
    BY <1>4, <1>5, <1>7, <2>1, <2>2
  <2>4. Books(w)
    BY <1>3, <1>6, <1>11, <1>12, <1>13, <2>2, <2>3 DEF Books
  <2>5. Loaded(w)'
    BY <1>7, <1>8, <1>9, <1>12, <1>13, <1>16, <2>1, <2>2, <2>3
       DEF Loaded, Landed
  <2> QED  BY <1>10, <1>11, <1>14, <2>4, <2>5, AloneKeeps
<1> QED  BY <1>15, <1>16

\* An attempt ends without a file.
LEMMA AttemptFailsFiles ==
    ASSUME CloudInv, Clean, Files, NEW w \in Worker, AttemptFails(w)
    PROVE  Files'
<1>1. /\ pc[w] \in {"open", "recv"} /\ At(w) \in {"open", "recv"}
      /\ At(w) = pc[w] /\ w \in Actor
  BY Who DEF AttemptFails, At
<1>2. At(w)' = "ended" /\ \A a \in Actor \ {w} : At(a)' = At(a)
  BY <1>1, AtGoto DEF AttemptFails
<1>3. /\ ~acct.open => acct.com = 0 /\ acct.res = 0
      /\ acct.res = 0 \/ At(w) = "recv"
      /\ usage = acct.com + acct.res
      /\ ~kept => cloud = task.reserved + del.res
      /\ Gone => task.reserved = 0
      /\ task.status \in {"pending", "downloading", "cancelled"}
      /\ Told(w) /\ Loaded(w) /\ running
      /\ Gone /\ ~Removing => Bare
      /\ ~Gone => acct.com >= disk.partial
  BY <1>1, Working
<1>4. /\ acct'.open = acct.open /\ acct'.com = acct.com /\ acct'.res = 0
      /\ usage' = acct'.com + acct'.res
  <2>1. CASE pc[w] = "recv"
    <3>1. Settle(0)
      BY <2>1 DEF AttemptFails
    <3> QED  BY <1>3, <3>1, SettleNone
  <2>2. CASE pc[w] # "recv"
    <3>1. acct' = acct /\ usage' = usage
      BY <2>2 DEF AttemptFails
    <3> QED  BY <1>1, <1>3, <2>2, <3>1
  <2> QED  BY <2>1, <2>2
<1>5. dl'[w].cancelled = dl[w].cancelled /\ dl'[w].err /\ ~dl'[w].lost
  BY ClosedFields DEF AttemptFails
<1>6. task' = task /\ cloud' = cloud /\ cancelFn' = cancelFn
  BY DEF AttemptFails
<1>d. /\ disk'.dest = disk.dest
      /\ disk'.partial = disk.partial \/ disk'.partial = 0
      /\ disk'.partial \in Nat /\ disk.partial \in Nat
  <2>1. DiskType
    BY DEF CloudInv
  <2>2. \/ disk' = disk
        \/ disk' = [disk EXCEPT !.partial = 0]
        \/ disk' = [disk EXCEPT !.dir = TRUE, !.partial = 0]
    BY DEF AttemptFails, Discards
  <2>3. /\ disk'.dest = disk.dest
        /\ disk'.partial = disk.partial \/ disk'.partial = 0
    BY <2>1, <2>2 DEF DiskType
  <2> QED  BY <2>1, <2>3, DiskIs, Plain
<1>7. Gone' <=> Gone
  BY <1>6 DEF Gone
<1>8. Alone(w)
  BY <1>1, <1>2, <1>3 DEF Alone, AttemptFails, held, ghost
<1>9. Books(w)
  <2>1. Bare => Bare'
    BY <1>d DEF Bare
  <2>2. task'.status # "completed"
    BY <1>3, <1>6
  <2>3. acct.com \in Nat
    BY Plain
  <2>4. ~Gone => acct.com >= disk'.partial
    BY <1>3, <1>d, <2>3
  <2> QED  BY <1>3, <1>4, <1>6, <1>7, <2>1, <2>2, <2>4 DEF Books
<1>10. Told(w)'
  BY <1>1, <1>2, <1>3, <1>5, <1>6, <1>7 DEF Told, Early
<1>11. Loaded(w)'
  BY <1>2 DEF Loaded, Landed
<1> QED  BY <1>6, <1>8, <1>9, <1>10, <1>11, AloneKeeps

\* A clean state is not reached by a failed removal or a crash.
LEMMA NoFault ==
    ASSUME CloudInv, Clean, Clean'
    PROVE  ~Fault
BY DEF CloudInv, CountType, Clean, Fault

\* The file lands, or its name is gone.
LEMMA LandFileFiles ==
    ASSUME CloudInv, Clean, Files, NEW w \in Worker, LandFile(w)
    PROVE  Files'
<1>1. pc[w] = "recv" /\ At(w) = "recv" /\ w \in Actor
  BY Who DEF LandFile, At
<1>2. /\ ~acct.open => acct.com = 0 /\ acct.res = 0
      /\ usage = acct.com + acct.res
      /\ ~kept => cloud = task.reserved + del.res
      /\ Gone => task.reserved = 0
      /\ task.status \in {"pending", "downloading", "cancelled"}
      /\ Told(w) /\ Loaded(w) /\ running
      /\ Gone /\ ~Removing => Bare
  BY <1>1, Working
<1>3. /\ acct.com \in Nat /\ acct.res \in Nat /\ dl[w].size \in Nat
      /\ dl[w].old \in Nat /\ disk.partial \in Nat
  BY Plain
<1>4. acct.open
  BY <1>1, <1>2 DEF Loaded
<1>5. task' = task /\ cloud' = cloud /\ cancelFn' = cancelFn
  BY DEF LandFile
<1>6. Gone' <=> Gone
  BY <1>5 DEF Gone
<1>7. CASE dl[w].lost
  <2>1. /\ Goto(w, "ended") /\ UNCHANGED save /\ Settle(0)
        /\ dl' = [dl EXCEPT ![w] = Closed(w, TRUE)]
        /\ disk' = [disk EXCEPT !.dest = 0]
    BY <1>7 DEF LandFile
  <2>2. Gone
    BY <1>1, <1>2, <1>7 DEF Loaded
  <2>3. At(w)' = "ended" /\ \A a \in Actor \ {w} : At(a)' = At(a)
    BY <1>1, <2>1, AtGoto
  <2>4. /\ acct'.open /\ acct'.com = acct.com /\ acct'.res = 0
        /\ usage' = acct'.com + acct'.res
    BY <1>2, <1>4, <2>1, SettleNone
  <2>5. dl'[w].cancelled = dl[w].cancelled /\ dl'[w].err /\ ~dl'[w].lost
    BY <2>1, ClosedFields
  <2>6. Bare => Bare'
    BY <2>1 DEF Bare, CloudInv, DiskType
  <2>7. Alone(w)
    BY <1>1, <1>2, <2>3 DEF Alone, LandFile, held, ghost
  <2>8. Books(w)
    BY <1>2, <1>5, <2>2, <2>4, <2>6 DEF Books
  <2>9. Told(w)'
    BY <1>1, <1>2, <1>5, <1>6, <2>3, <2>5 DEF Told, Early
  <2>10. Loaded(w)'
    BY <2>3 DEF Loaded, Landed
  <2> QED  BY <1>5, <2>7, <2>8, <2>9, <2>10, AloneKeeps
<1>8. CASE ~dl[w].lost
  <2>1. /\ Goto(w, "check") /\ UNCHANGED save /\ Settle(dl[w].old)
        /\ dl' = [dl EXCEPT ![w] = Closed(w, FALSE)]
        /\ disk' = [disk EXCEPT !.dest = FileSize, !.partial = 0]
        /\ dl[w].size = FileSize
    BY <1>8 DEF LandFile
  <2>2. /\ Gone => Removing
        /\ ~Gone => acct.com >= dl[w].size + dl[w].old
    BY <1>1, <1>2, <1>8 DEF Loaded
  <2>3. At(w)' = "check" /\ \A a \in Actor \ {w} : At(a)' = At(a)
    BY <1>1, <2>1, AtGoto
  <2>4. /\ acct'.open /\ acct'.res = 0 /\ acct'.com \in Nat
        /\ acct'.com = acct.com - Least(dl[w].old, acct.com)
        /\ usage' = acct'.com + acct'.res
    BY <1>2, <1>3, <1>4, <2>1, SettleExact
  <2>5. ~Gone => acct'.com >= FileSize
    BY <1>3, <2>1, <2>2, <2>4, Who DEF Least
  <2>6. dl'[w].cancelled = dl[w].cancelled /\ ~dl'[w].lost
    BY <2>1, ClosedFields
  <2>7. disk'.partial = 0 /\ disk'.dest = FileSize
    BY <2>1 DEF CloudInv, DiskType
  <2>8. ~Gone => FileThere'
    BY <2>5, <2>7 DEF FileThere
  <2>9. Alone(w)
    BY <1>1, <1>2, <2>3 DEF Alone, LandFile, held, ghost
  <2>10. Books(w)
    <3>1. ~Gone => acct'.com >= disk'.partial
      BY <2>4, <2>7
    <3> QED  BY <1>2, <1>5, <2>2, <2>4, <3>1 DEF Books
  <2>11. Told(w)'
    BY <1>1, <1>2, <1>5, <1>6, <2>3, <2>6 DEF Told, Early
  <2>12. Loaded(w)'
    BY <1>6, <2>3, <2>8 DEF Loaded, Landed
  <2> QED  BY <1>5, <2>9, <2>10, <2>11, <2>12, AloneKeeps
<1> QED  BY <1>7, <1>8

\* The check asks for another download.
LEMMA CheckRetryFiles ==
    ASSUME CloudInv, Clean, Files, NEW w \in Worker, CheckRetry(w)
    PROVE  Files'
<1>1. pc[w] = "check" /\ At(w) = "check" /\ w \in Actor
  BY Who DEF CheckRetry, At
<1>2. At(w)' = "loop" /\ \A a \in Actor \ {w} : At(a)' = At(a)
  BY <1>1, AtGoto DEF CheckRetry
<1>3. /\ ~acct.open => acct.com = 0 /\ acct.res = 0
      /\ acct.res = 0 /\ usage = acct.com + acct.res
      /\ ~kept => cloud = task.reserved + del.res
      /\ task.status \in {"pending", "downloading", "cancelled"}
      /\ Told(w) /\ Loaded(w) /\ running
  BY <1>1, Working
<1>4. ~Gone /\ FileThere
  BY <1>1, <1>3 DEF Told, Loaded, Landed, CheckRetry
<1>5. /\ acct.com \in Nat /\ acct.res \in Nat /\ task.reserved \in Nat
      /\ disk.dest = FileSize /\ disk.partial = 0 /\ acct.com >= FileSize
      /\ FileSize \in Nat /\ FileSize > 0 /\ del.res \in Nat
      /\ cloud \in Int /\ usage \in Int
  BY <1>4, Plain, FileSizeAssumption DEF FileThere
<1>6. acct.open
  BY <1>3, <1>5
<1> DEFINE n == Least(task.reserved, disk.dest)
           k == IF acct.open THEN Least(disk.dest, acct.com) ELSE 0
<1>7. /\ task' = [task EXCEPT !.reserved = @ - n] /\ cloud' = cloud - n
      /\ usage' = usage - k /\ acct' = [acct EXCEPT !.com = @ - k]
  BY DEF CheckRetry
<1>8. n \in Nat /\ n <= task.reserved /\ k \in Nat /\ k <= acct.com
  BY <1>5 DEF Least
<1> HIDE DEF n, k
<1>9. /\ task'.reserved = task.reserved - n /\ task'.in = task.in
      /\ task'.status = task.status /\ task'.done = task.done
  BY <1>7 DEF CloudInv, TaskType
<1>10. acct'.open = acct.open /\ acct'.com = acct.com - k /\ acct'.res = 0
  BY <1>3, <1>7 DEF CloudInv, AcctType
<1>11. usage' = acct'.com + acct'.res /\ acct'.com \in Nat
  <2>1. usage - k = acct.com - k + 0 /\ acct.com - k \in Nat
    BY <1>3, <1>5, <1>8
  <2> QED  BY <1>7, <1>10, <2>1
<1>12. ~kept => cloud' = task'.reserved + del.res
  <2>1. ~kept => cloud - n = task.reserved - n + del.res
    BY <1>3, <1>5, <1>8
  <2> QED  BY <1>7, <1>9, <2>1
<1>13. Alone(w)
  BY <1>1, <1>2, <1>3, <1>9 DEF Alone, CheckRetry, held, ghost
<1>14. disk' = disk /\ dl' = dl /\ cancelFn' = cancelFn
  BY DEF CheckRetry
<1>15. Books(w)
  <2>1. acct'.com >= disk'.partial
    BY <1>5, <1>11, <1>14
  <2>2. task'.status # "completed"
    BY <1>3, <1>9
  <2> QED
    BY <1>4, <1>6, <1>10, <1>11, <1>12, <2>1, <2>2 DEF Books
<1>16. ~Gone'
  BY <1>4, <1>9 DEF Gone
<1>17. Told(w)'
  BY <1>1, <1>2, <1>3, <1>4, <1>9, <1>14, <1>16 DEF Told, Early
<1>18. Loaded(w)'
  BY <1>2 DEF Loaded, Landed
<1> QED  BY <1>13, <1>14, <1>15, <1>17, <1>18, AloneKeeps

\* Removing the directory leaves nothing, and the session of a goroutine that
\* has no open file.
LEMMA RemoveDirBare ==
    ASSUME CloudInv, RemoveDir
    PROVE  /\ Bare' /\ disk'.dir = FALSE
           /\ \A w \in Worker : At(w) # "recv" => dl'[w] = dl[w]
           /\ \A w \in Worker : At(w) = "recv" =>
                 /\ dl'[w].lost /\ dl'[w].cancelled = dl[w].cancelled
                 /\ dl'[w].err = dl[w].err
<1>1. disk' = EmptyDisk
  BY DEF RemoveDir
<1>2. Bare' /\ disk'.dir = FALSE
  BY <1>1 DEF EmptyDisk, Bare
<1>3. \A w \in Worker : (At(w) = "recv") <=> (pc[w] = "recv")
  BY Who DEF CloudInv, Places, At
<1>4. \A w \in Worker : dl'[w] = IF pc[w] = "recv"
                                 THEN [dl[w] EXCEPT !.lost = TRUE] ELSE dl[w]
  BY DEF RemoveDir
<1>5. ASSUME NEW w \in Worker, At(w) = "recv"
      PROVE  /\ dl'[w].lost /\ dl'[w].cancelled = dl[w].cancelled
             /\ dl'[w].err = dl[w].err
  <2>1. dl[w] \in Session /\ dl'[w] = [dl[w] EXCEPT !.lost = TRUE]
    BY <1>3, <1>4, <1>5 DEF CloudInv, DlType
  <2>2. dl'[w].lost = TRUE /\ dl'[w].cancelled = dl[w].cancelled
        /\ dl'[w].err = dl[w].err
    BY <2>1 DEF Session
  <2> QED  BY <2>2
<1> QED  BY <1>2, <1>3, <1>4, <1>5

\* releaseTaskScope, exactly.
LEMMA ReleaseExact ==
    ASSUME CloudInv, ReleaseScope, ~acct.open => acct.com = 0 /\ acct.res = 0
    PROVE  /\ ~acct'.open /\ acct'.com = 0 /\ acct'.res = 0
           /\ usage' = usage - (acct.com + acct.res)
<1>1. acct.com \in Nat /\ acct.res \in Nat /\ usage \in Int
  BY AcctIs DEF CloudInv, BookType
<1>2. CASE acct.open
  <2>1. /\ acct' = [open |-> FALSE, com |-> 0, res |-> 0]
        /\ usage' = usage - acct.com - acct.res
    BY <1>2 DEF ReleaseScope
  <2>2. acct'.open = FALSE /\ acct'.com = 0 /\ acct'.res = 0
    BY <2>1
  <2> QED  BY <1>1, <2>1, <2>2
<1>3. CASE ~acct.open
  <2>1. acct' = acct /\ usage' = usage
    BY <1>3 DEF ReleaseScope
  <2> QED  BY <1>1, <1>3, <2>1
<1> QED  BY <1>2, <1>3

\* The task fails and its files stay booked.
LEMMA FailTaskFiles ==
    ASSUME CloudInv, Clean, Files, NEW w \in Worker, FailTask(w)
    PROVE  Files'
<1>1. pc[w] = "fail" /\ At(w) = "fail" /\ w \in Actor
  BY Who DEF FailTask, At
<1>2. At(w)' = "clean" /\ \A a \in Actor \ {w} : At(a)' = At(a)
  BY <1>1, AtSaveThen DEF FailTask
<1>3. /\ ~acct.open => acct.com = 0 /\ acct.res = 0
      /\ acct.res = 0 /\ usage = acct.com + acct.res
      /\ ~kept => cloud = task.reserved + del.res
      /\ Told(w) /\ running
      /\ ~Gone => acct.com >= disk.partial
  BY <1>1, Working
<1>4. task.status # "cancelled" /\ ~Gone
  BY <1>3 DEF FailTask, Terminal, Gone, Files, Removed
<1> DEFINE actual == DiskUsage(disk)
<1>5. /\ actual \in Nat /\ actual >= disk.partial /\ disk.partial \in Nat
      /\ acct.com \in Nat /\ cloud \in Int /\ task.reserved \in Nat
      /\ del.res \in Nat /\ usage \in Int
  BY Plain DEF DiskUsage
<1>6. /\ cloud' = cloud - task.reserved + actual
      /\ IF acct.open THEN Settle(0) ELSE AdjustTo(actual)
      /\ task' = [task EXCEPT !.status = "failed", !.reserved = actual,
                              !.damaged = FALSE]
  BY DEF FailTask
<1> HIDE DEF actual
<1>7. /\ task'.in = task.in /\ task'.status = "failed"
      /\ task'.reserved = actual /\ task'.done = task.done
  BY <1>6 DEF CloudInv, TaskType
<1>8. /\ ~acct'.open => acct'.com = 0 /\ acct'.res = 0
      /\ acct'.res = 0 /\ usage' = acct'.com + acct'.res
      /\ acct'.com >= disk.partial
  <2>1. CASE acct.open
    BY <1>3, <1>4, <1>6, <2>1, SettleNone
  <2>2. CASE ~acct.open /\ actual = 0
    <3>1. acct' = acct /\ usage' = usage
      BY <1>6, <2>2 DEF AdjustTo
    <3> QED  BY <1>3, <1>4, <3>1
  <2>3. CASE ~acct.open /\ actual # 0
    <3>1. /\ acct' = [open |-> TRUE, com |-> actual, res |-> 0]
          /\ usage' = usage + actual
      BY <1>6, <2>3 DEF AdjustTo
    <3>2. acct'.open = TRUE /\ acct'.com = actual /\ acct'.res = 0
      BY <3>1
    <3>3. usage' = actual + 0
      BY <1>3, <1>5, <2>3, <3>1
    <3> QED  BY <1>5, <3>2, <3>3
  <2> QED  BY <2>1, <2>2, <2>3
<1>9. ~kept => cloud' = task'.reserved + del.res
  <2>1. ~kept => cloud - task.reserved + actual = actual + del.res
    BY <1>3, <1>5
  <2> QED  BY <1>6, <1>7, <2>1
<1>10. disk' = disk /\ dl' = dl /\ cancelFn' = cancelFn
  BY DEF FailTask
<1>11. Alone(w)
  BY <1>1, <1>2, <1>3, <1>4, <1>7 DEF Alone, FailTask, held, ghost
<1>12. Books(w)
  BY <1>4, <1>7, <1>8, <1>9, <1>10 DEF Books
<1>13. ~Gone'
  BY <1>4, <1>7 DEF Gone
<1>14. Told(w)'
  BY <1>1, <1>2, <1>3, <1>4, <1>7, <1>10, <1>13 DEF Told, Early
<1>15. Loaded(w)'
  BY <1>2 DEF Loaded, Landed
<1> QED  BY <1>10, <1>11, <1>12, <1>14, <1>15, AloneKeeps

\* The task fails and its files go.
LEMMA FailTaskStorageFullFiles ==
    ASSUME CloudInv, Clean, Clean', Files, NEW w \in Worker,
           FailTaskStorageFull(w)
    PROVE  Files'
<1>1. pc[w] = "fail" /\ At(w) = "fail" /\ w \in Actor
  BY Who DEF FailTaskStorageFull, At
<1>2. At(w)' = "exit" /\ \A a \in Actor \ {w} : At(a)' = At(a)
  BY <1>1, AtSaveThen DEF FailTaskStorageFull
<1>3. /\ ~acct.open => acct.com = 0 /\ acct.res = 0
      /\ usage = acct.com + acct.res
      /\ ~kept => cloud = task.reserved + del.res
      /\ Told(w) /\ running
  BY <1>1, Working
<1>4. task.status # "cancelled" /\ ~Gone
  BY <1>3 DEF FailTaskStorageFull, Terminal, Gone, Files, Removed
<1>5. /\ RemoveDir /\ cloud' = cloud - task.reserved /\ ReleaseScope
      /\ task' = [task EXCEPT !.status = "failed", !.reserved = 0]
  BY NoFault DEF FailTaskStorageFull, TryRemoveDir
<1>6. /\ acct.com \in Nat /\ acct.res \in Nat /\ usage \in Int
      /\ cloud \in Int /\ task.reserved \in Nat /\ del.res \in Nat
  BY Plain
<1>7. /\ task'.in = task.in /\ task'.status = "failed"
      /\ task'.reserved = 0 /\ task'.done = task.done
  BY <1>5 DEF CloudInv, TaskType
<1>8. /\ acct'.com = 0 /\ acct'.res = 0 /\ usage' = acct'.com + acct'.res
  <2>1. /\ acct'.com = 0 /\ acct'.res = 0
        /\ usage' = usage - (acct.com + acct.res)
    BY <1>3, <1>5, ReleaseExact
  <2>2. usage' = 0
    BY <1>3, <1>6, <2>1
  <2> QED  BY <2>1, <2>2
<1>9. ~kept => cloud' = task'.reserved + del.res
  BY <1>3, <1>5, <1>6, <1>7
<1>10. Bare' /\ dl'[w] = dl[w]
  BY <1>1, <1>5, RemoveDirBare
<1>11. cancelFn' = cancelFn
  BY DEF FailTaskStorageFull
<1>12. Alone(w)
  BY <1>1, <1>2, <1>3, <1>4, <1>7 DEF Alone, FailTaskStorageFull, held, ghost
<1>13. Books(w)
  BY <1>4, <1>7, <1>8, <1>9, <1>10 DEF Books, Bare
<1>14. ~Gone'
  BY <1>4, <1>7 DEF Gone
<1>15. Told(w)'
  BY <1>1, <1>2, <1>3, <1>4, <1>7, <1>10, <1>11, <1>14
     DEF Told, Early, Terminal
<1>16. Loaded(w)'
  BY <1>2 DEF Loaded, Landed
<1> QED  BY <1>11, <1>12, <1>13, <1>15, <1>16, AloneKeeps

\* The goroutine removes the files of a task that failed or is gone.
LEMMA RemovesFiles ==
    ASSUME CloudInv, Clean, Clean', Files, NEW w \in Worker,
           CleanOnFail(w) \/ RemoveAbandoned(w)
    PROVE  Files'
<1>1. /\ pc[w] \in {"clean", "rm"} /\ At(w) \in {"clean", "rm"}
      /\ w \in Actor
  BY Who DEF CleanOnFail, RemoveAbandoned, At
<1>2. At(w)' = "exit" /\ \A a \in Actor \ {w} : At(a)' = At(a)
  BY <1>1, AtGoto DEF CleanOnFail, RemoveAbandoned
<1>3. /\ ~acct.open => acct.com = 0 /\ acct.res = 0
      /\ acct.res = 0 /\ usage = acct.com + acct.res
      /\ ~kept => cloud = task.reserved + del.res
      /\ Gone => task.reserved = 0
      /\ Gone /\ ~Removing => Bare
      /\ ~Gone => acct.com >= disk.partial
      /\ Told(w) /\ running /\ task.status # "none"
  BY <1>1, Working
<1>4. task.status \in {"failed", "cancelled"}
  <2>1. CASE At(w) = "rm"
    BY <1>3, <2>1 DEF Told, Gone, Files, Removed
  <2>2. CASE At(w) = "clean"
    BY <1>3, <2>2 DEF Told
  <2> QED  BY <1>1, <2>1, <2>2
<1>5. \/ Bare' /\ dl'[w] = dl[w]
      \/ disk' = disk /\ dl' = dl
  <2>1. RemoveDir \/ UNCHANGED <<disk, dl>>
    BY NoFault DEF CleanOnFail, RemoveAbandoned, TryRemoveDir
  <2> QED  BY <1>1, <2>1, RemoveDirBare
<1>6. /\ task' = task /\ acct' = acct /\ cloud' = cloud /\ usage' = usage
      /\ cancelFn' = cancelFn
  BY DEF CleanOnFail, RemoveAbandoned, books
<1>7. Alone(w)
  BY <1>1, <1>2, <1>3, <1>6 DEF Alone, CleanOnFail, RemoveAbandoned, held,
     ghost
<1>8. Books(w)
  <2>1. Gone /\ ~Removing => Bare'
    BY <1>3, <1>5 DEF Bare
  <2>2. ~Gone => acct'.com >= disk'.partial
    BY <1>3, <1>5, <1>6, Plain DEF Bare
  <2> QED  BY <1>3, <1>4, <1>6, <2>1, <2>2 DEF Books
<1>9. Gone' <=> Gone
  BY <1>6 DEF Gone
<1>10. Told(w)'
  BY <1>1, <1>2, <1>3, <1>4, <1>5, <1>6, <1>9 DEF Told, Early, Terminal
<1>11. Loaded(w)'
  BY <1>2 DEF Loaded, Landed
<1> QED  BY <1>6, <1>7, <1>8, <1>10, <1>11, AloneKeeps

\* The task is completed, or there is no room for its file.
LEMMA FinalizeFiles ==
    ASSUME CloudInv, Clean, Clean', Files, NEW w \in Worker,
           Finalize(w) \/ FinalizeStorageFull(w)
    PROVE  Files'
<1>1. pc[w] = "final" /\ At(w) = "final" /\ w \in Actor
  BY Who DEF Finalize, FinalizeStorageFull, At
<1>2. At(w)' = "exit" /\ \A a \in Actor \ {w} : At(a)' = At(a)
  BY <1>1, AtSaveThen DEF Finalize, FinalizeStorageFull
<1>3. /\ ~acct.open => acct.com = 0 /\ acct.res = 0
      /\ acct.res = 0 /\ usage = acct.com + acct.res
      /\ ~kept => cloud = task.reserved + del.res
      /\ Told(w) /\ Loaded(w) /\ running
  BY <1>1, Working
<1>4. task.in /\ task.status # "cancelled" /\ ~Gone
  BY DEF Finalize, FinalizeStorageFull, Gone
<1>5. FileThere
  BY <1>1, <1>3, <1>4 DEF Loaded, Landed
<1>6. /\ acct.com \in Nat /\ acct.res \in Nat /\ task.reserved \in Nat
      /\ disk.dest = FileSize /\ disk.partial = 0 /\ acct.com >= FileSize
      /\ FileSize \in Nat /\ FileSize > 0 /\ del.res \in Nat
      /\ cloud \in Int /\ usage \in Int
  BY <1>5, Plain, FileSizeAssumption DEF FileThere
<1>7. acct.open
  BY <1>3, <1>6
<1>8. cancelFn' = cancelFn /\ dl' = dl
  BY DEF Finalize, FinalizeStorageFull
<1>9. CASE Finalize(w)
  <2>1. /\ cloud' = cloud - task.reserved + FileSize
        /\ acct' = acct /\ usage' = usage /\ disk' = disk
        /\ task' = [task EXCEPT !.status = "completed",
                                !.reserved = FileSize]
    BY <1>7, <1>9 DEF Finalize, AdjustTo
  <2>2. /\ task'.in = task.in /\ task'.status = "completed"
        /\ task'.reserved = FileSize
    BY <2>1 DEF CloudInv, TaskType
  <2>3. ~kept => cloud' = task'.reserved + del.res
    BY <1>3, <1>6, <2>1, <2>2
  <2>4. FileThere'
    BY <1>5, <2>1 DEF FileThere
  <2>5. Alone(w)
    BY <1>1, <1>2, <1>3, <1>4, <1>9, <2>2 DEF Alone, Finalize, held, ghost
  <2>6. Books(w)
    BY <1>3, <1>4, <1>6, <2>1, <2>3, <2>4 DEF Books
  <2>7. ~Gone'
    BY <1>4, <2>2 DEF Gone
  <2>8. Told(w)'
    BY <1>1, <1>2, <1>3, <1>4, <1>8, <2>2, <2>7 DEF Told, Early, Terminal
  <2>9. Loaded(w)'
    BY <1>2 DEF Loaded, Landed
  <2> QED  BY <1>8, <2>5, <2>6, <2>8, <2>9, AloneKeeps
<1>10. CASE FinalizeStorageFull(w)
  <2>1. /\ cloud' = cloud - task.reserved /\ ReleaseScope
        /\ disk' = [disk EXCEPT !.dest = 0]
        /\ task' = [task EXCEPT !.status = "failed", !.reserved = 0]
    BY <1>10, NoFault DEF FinalizeStorageFull
  <2>2. /\ task'.in = task.in /\ task'.status = "failed"
        /\ task'.reserved = 0
    BY <2>1 DEF CloudInv, TaskType
  <2>3. ~kept => cloud' = task'.reserved + del.res
    BY <1>3, <1>6, <2>1, <2>2
  <2>4. disk'.partial = 0
    BY <1>6, <2>1 DEF CloudInv, DiskType
  <2>5. acct'.com = 0 /\ acct'.res = 0 /\ usage' = acct'.com + acct'.res
    <3>1. /\ acct'.com = 0 /\ acct'.res = 0
          /\ usage' = usage - (acct.com + acct.res)
      BY <1>3, <2>1, ReleaseExact
    <3>2. usage' = 0
      BY <1>3, <1>6, <3>1
    <3> QED  BY <3>1, <3>2
  <2>6. Alone(w)
    BY <1>1, <1>2, <1>3, <1>4, <1>10, <2>2
       DEF Alone, FinalizeStorageFull, held, ghost
  <2>7. Books(w)
    BY <1>4, <2>2, <2>3, <2>4, <2>5 DEF Books
  <2>8. ~Gone'
    BY <1>4, <2>2 DEF Gone
  <2>9. Told(w)'
    BY <1>1, <1>2, <1>3, <1>4, <1>8, <2>2, <2>8 DEF Told, Early, Terminal
  <2>10. Loaded(w)'
    BY <1>2 DEF Loaded, Landed
  <2> QED  BY <1>8, <2>6, <2>7, <2>9, <2>10, AloneKeeps
<1> QED  BY <1>9, <1>10

\* With no goroutine at work there is nothing to know.
LEMMA TrackedIdle ==
    ASSUME Files,
           \A w \in Worker : At(w)' \in {"unused", "over"},
           \A w \in Worker : At(w)' = "unused" => At(w) = "unused",
           cancelFn' \in {cancelFn, NoWorker}
    PROVE  Tracked'
<1> SUFFICES ASSUME NEW w \in Worker PROVE Told(w)' /\ Loaded(w)'
  BY DEF Tracked
<1>1. Told(w) /\ w # NoWorker
  BY Who DEF Files, Tracked
<1>2. Told(w)'
  BY <1>1 DEF Told, Early
<1>3. Loaded(w)'
  BY DEF Loaded, Landed
<1> QED  BY <1>2, <1>3

\* Whoever has the running mark gives it up.
Stops ==
    /\ running /\ running' = FALSE
    /\ \A w \in Worker : /\ At(w)' \in {"unused", "over"}
                         /\ At(w)' = "unused" => At(w) = "unused"
    /\ \A a \in {"create"} \cup Resumer : At(a)' \notin {"window", "launch"}
    /\ At("cancel")' = At("cancel") /\ At("delete")' = At("delete")
    /\ At("sweep")' = At("sweep")
    /\ cancelFn' \in {cancelFn, NoWorker} /\ disk' = disk
    /\ del' = del /\ item' = item /\ kept' = kept
    /\ task'.in = task.in /\ task'.status \notin {"none", "pending"}

\* What it leaves: a task that is gone holds nothing.
Leaves ==
    /\ Gone => Gone'
    /\ ~kept => cloud' = task'.reserved + del.res
    /\ Gone' => /\ ~acct'.open /\ acct'.com = 0 /\ acct'.res = 0
                /\ usage' = 0 /\ task'.reserved = 0
    /\ ~Gone' => acct' = acct /\ usage' = usage
    /\ Gone' /\ ~Removing => Bare
    /\ At("cancel") = "rm" => task'.status = "cancelled"
    /\ task.in /\ task'.status = "completed" => FileThere

\* Such a step keeps what is known of the files.
LEMMA StopKeeps ==
    ASSUME CloudInv, Clean, Files, Stops, Leaves,
           \A w \in Worker : At(w) # "recv"
    PROVE  Files'
<1>1. /\ At("sweep") = "idle" /\ (At("delete") # "idle" => ~task.in)
      /\ (At("delete") # "idle" => del.run)
  BY Plain DEF Stops, Files, Removed
<1>2. acct.res = 0 /\ (~acct.open => acct.com = 0)
  BY DEF Files, Account
<1>3. usage = acct.com + acct.res
  BY DEF Files, Exact, Stops
<1>4. ~task.in => Gone'
  BY DEF Stops, Gone
<1>5. Account'
  BY <1>2 DEF Account, Leaves
<1>6. Exact'
  <2>1. CASE Gone'
    BY <1>1, <2>1 DEF Exact, Leaves, Stops
  <2>2. CASE ~Gone'
    BY <1>1, <1>3, <1>4, <2>2 DEF Exact, Leaves, Stops
  <2> QED  BY <2>1, <2>2
<1>7. Tracked'
  BY TrackedIdle DEF Stops
<1>8. Unmarked'
  BY DEF Unmarked, Stops
<1>9. Removing' <=> Removing
  BY DEF Removing, Stops
<1>10. (Bare' <=> Bare) /\ (~Gone' => (FileThere' <=> FileThere))
  BY DEF Bare, FileThere, Stops, Leaves
<1>11. Removed'
  BY <1>1, <1>4, <1>9, <1>10 DEF Removed, Stops, Leaves
<1>12. Resting'
  <2>1. ~Gone' => acct'.com >= disk'.partial
    BY DEF Files, Resting, Leaves, Stops
  <2>2. Rests' => FileThere'
    BY <1>10 DEF Rests, Leaves, Stops, Gone
  <2> QED  BY <2>1, <2>2 DEF Resting, Stops
<1> QED
  BY <1>5, <1>6, <1>7, <1>8, <1>11, <1>12 DEF Files

\* cleanupRunning: an abandoned task gives back what it holds.
LEMMA ExitFiles ==
    ASSUME CloudInv, Clean, Files, NEW w \in Worker, Exit(w)
    PROVE  Files'
<1>1. pc[w] = "exit" /\ At(w) = "exit" /\ w \in Actor
  BY Who DEF Exit, At
<1>2. At(w)' = "over" /\ \A a \in Actor \ {w} : At(a)' = At(a)
  BY <1>1, AtGoto DEF Exit, Goto
<1>3. /\ ~acct.open => acct.com = 0 /\ acct.res = 0
      /\ acct.res = 0 /\ usage = acct.com + acct.res
      /\ ~kept => cloud = task.reserved + del.res
      /\ Gone => task.reserved = 0
      /\ Told(w) /\ running
      /\ Gone /\ ~Removing => Bare
  BY <1>1, Working
<1>4. /\ \A v \in Worker : v # w => At(v) \in {"unused", "over"}
      /\ \A a \in {"create"} \cup Resumer : At(a) \notin {"window", "launch"}
  BY <1>1, Solo
<1>5. task.status \in Terminal
  BY <1>1, <1>3 DEF Told
<1>6. /\ running' = FALSE /\ cancelFn' = NoWorker /\ disk' = disk
      /\ cloud' = cloud /\ del' = del /\ item' = item /\ kept' = kept
  BY DEF Exit, ghost
<1>7. /\ task'.in = task.in /\ task'.status = task.status
      /\ task'.reserved = task.reserved
  <2>1. CASE Gone
    <3>1. task' = [task EXCEPT !.reserved = 0]
      BY <2>1 DEF Exit, Gone
    <3> QED  BY <1>3, <2>1, <3>1 DEF CloudInv, TaskType
  <2>2. CASE ~Gone
    BY <2>2 DEF Exit, Gone
  <2> QED  BY <2>1, <2>2
<1>8. Gone' <=> Gone
  BY <1>7 DEF Gone
<1>9. Gone => ~acct'.open /\ acct'.com = 0 /\ acct'.res = 0 /\ usage' = 0
  <2> SUFFICES ASSUME Gone PROVE ~acct'.open /\ acct'.com = 0
                                 /\ acct'.res = 0 /\ usage' = 0
    OBVIOUS
  <2>1. ReleaseScope
    BY DEF Exit, Gone
  <2>2. /\ ~acct'.open /\ acct'.com = 0 /\ acct'.res = 0
        /\ usage' = usage - (acct.com + acct.res)
    BY <1>3, <2>1, ReleaseExact
  <2>3. usage - (acct.com + acct.res) = 0
    BY <1>3, Plain
  <2> QED  BY <2>2, <2>3
<1>11. ~Gone => acct' = acct /\ usage' = usage
  BY DEF Exit, Gone
<1>12. Stops
  BY <1>1, <1>2, <1>3, <1>4, <1>5, <1>6, <1>7, Who DEF Stops, Terminal
<1>13. task.in /\ task.status = "completed" => FileThere
  <2>1. At("sweep") = "idle"
    BY <1>1, Working
  <2> QED  BY <2>1 DEF Files, Resting, Rests
<1>14. Leaves
  BY <1>3, <1>6, <1>7, <1>8, <1>9, <1>11, <1>13 DEF Leaves, Files, Removed
<1>15. \A v \in Worker : At(v) # "recv"
  BY <1>1, <1>4
<1> QED  BY <1>12, <1>14, <1>15, StopKeeps

\* a hands the task over to the new goroutine v.
Starts(a, v) ==
    /\ a # v /\ At(v) = "unused" /\ At(v)' = "start"
    /\ At(a)' \in {"over", "idle"}
    /\ \A b \in Actor \ {a, v} : At(b)' = At(b)
    /\ \/ a \in Worker /\ At(a) = "done" /\ At(a)' = "over"
       \/ a \in {"create"} \cup Resumer /\ At(a) = "launch"
    /\ ~dl'[v].cancelled /\ ~dl'[v].lost
    /\ running' = running
    /\ UNCHANGED <<task, acct, cancelFn, disk, books, held, kept>>

\* A hand-over keeps what is known of the files.
LEMMA StartKeeps ==
    ASSUME CloudInv, Clean, Files, NEW a \in Actor, NEW v \in Worker,
           Starts(a, v)
    PROVE  Files'
<1>1. /\ running /\ \A w \in Worker : w # a => At(w) \in {"unused", "over"}
      /\ \A b \in {"create"} \cup Resumer :
            b # a => At(b) \notin {"window", "launch"}
      /\ task.status # "none"
  BY Solo DEF Starts
<1>2. ~task.done
  BY DEF Starts, Files, Unmarked, Tracked, Told, Early
<1>3. v \in Actor /\ cancelFn # v
  BY Who DEF Starts, Files, Tracked, Told
<1>4. /\ task' = task /\ acct' = acct /\ disk' = disk /\ cloud' = cloud
      /\ usage' = usage /\ del' = del /\ item' = item /\ kept' = kept
      /\ cancelFn' = cancelFn /\ running' = running
  BY DEF Starts, books, held
<1>5. /\ At("cancel")' = At("cancel") /\ At("delete")' = At("delete")
      /\ At("sweep")' = At("sweep")
  BY Who DEF Starts
<1>6. (Gone' <=> Gone) /\ (Removing' <=> Removing)
  BY <1>4, <1>5 DEF Gone, Removing
<1>7. (Bare' <=> Bare) /\ (FileThere' <=> FileThere)
  BY <1>4 DEF Bare, FileThere
<1>8. \A w \in Worker : At(w) # "recv"
  BY <1>1 DEF Starts
<1>9. Account'
  BY <1>4, <1>8 DEF Files, Account
<1>10. Exact'
  BY <1>4, <1>5, <1>6 DEF Files, Exact
<1>11. Tracked'
  <2> SUFFICES ASSUME NEW w \in Worker PROVE Told(w)' /\ Loaded(w)'
    BY DEF Tracked
  <2>1. CASE w = v
    <3>1. At(w)' = "start" /\ ~dl'[w].cancelled /\ ~dl'[w].lost
      BY <2>1 DEF Starts
    <3>2. Told(w)'
      BY <1>2, <1>3, <1>4, <2>1, <3>1 DEF Told
    <3> QED  BY <3>1, <3>2 DEF Loaded, Landed
  <2>2. CASE w # v
    <3>1. /\ At(w)' \in {"unused", "over"}
          /\ At(w)' = "unused" => At(w) = "unused"
      BY <1>1, <2>2, Who DEF Starts
    <3>2. Told(w)
      BY DEF Files, Tracked
    <3>3. Told(w)'
      BY <1>4, <3>1, <3>2 DEF Told, Early
    <3> QED  BY <3>1, <3>3 DEF Loaded, Landed
  <2> QED  BY <2>1, <2>2
<1>12. Unmarked'
  BY <1>2, <1>4 DEF Unmarked
<1>13. Removed'
  BY <1>4, <1>5, <1>6, <1>7 DEF Files, Removed
<1>14. Resting'
  <2>1. \A r \in Resumer : At(r)' # "window"
    <3>1. \A r \in Resumer : r # v /\ r \in Actor
      BY Who
    <3> QED  BY <1>1, <3>1 DEF Starts
  <2> QED
    BY <1>4, <1>5, <1>6, <1>7, <2>1 DEF Files, Resting, Rests
<1> QED
  BY <1>9, <1>10, <1>11, <1>12, <1>13, <1>14 DEF Files

\* A start: the session of the new goroutine is empty.
LEMMA LaunchFields ==
    ASSUME CloudInv, NEW v \in Worker, NEW b \in BOOLEAN, Launch(v, b)
    PROVE  ~dl'[v].cancelled /\ ~dl'[v].lost
<1>1. dl'[v] = [NoSession EXCEPT !.sync = b]
  BY DEF Launch, CloudInv, DlType
<1>2. /\ [NoSession EXCEPT !.sync = b].cancelled = FALSE
      /\ [NoSession EXCEPT !.sync = b].lost = FALSE
  BY DEF NoSession
<1> QED  BY <1>1, <1>2

\* Who starts a goroutine leaves its place to it.
LEMMA AtLaunch ==
    ASSUME CloudInv, NEW a \in Actor, NEW v \in Worker, a # v,
           NEW p, p \notin {"save", "write"},
           pc[a] \notin {"save", "write"}, pc[v] = "unused",
           pc' = [pc EXCEPT ![a] = p, ![v] = "start"], UNCHANGED save
    PROVE  /\ At(v) = "unused" /\ At(v)' = "start" /\ At(a)' = p
           /\ \A b \in Actor \ {a, v} : At(b)' = At(b)
<1>1. PcType /\ v \in Actor
  BY Who DEF CloudInv
<1>2. /\ pc'[v] = "start" /\ pc'[a] = p
      /\ \A b \in Actor \ {a, v} : pc'[b] = pc[b]
  BY <1>1 DEF PcType
<1> QED  BY <1>2 DEF At

\* A submission, a resume or the goroutine of a client that hung up starts
\* a goroutine.
LEMMA LaunchFiles ==
    ASSUME CloudInv, Clean, Files, NEW a \in Actor,
           \/ a = "create" /\ SubmitLaunch
           \/ a \in Resumer /\ ResumeLaunch(a)
           \/ a \in Worker /\ HandOff(a)
    PROVE  Files'
<1>1. PICK v \in Ready, p \in {"over", "idle"} :
         /\ pc' = [pc EXCEPT ![a] = p, ![v] = "start"]
         /\ \/ \E b \in BOOLEAN : Launch(v, b)
            \/ dl' = [dl EXCEPT ![a] = NoSession, ![v] = NoSession]
         /\ a \in Worker => p = "over"
  BY Who DEF SubmitLaunch, ResumeLaunch, HandOff
<1>2. /\ v \in Worker /\ pc[v] = "unused"
      /\ pc[a] = IF a \in Worker THEN "done" ELSE "launch"
      /\ a # v
  BY Who DEF Ready, SubmitLaunch, ResumeLaunch, HandOff
<1>3. UNCHANGED <<task, acct, cancelFn, disk, books, held, kept, save>>
  BY DEF SubmitLaunch, ResumeLaunch, HandOff, ghost
<1>4. /\ At(v) = "unused" /\ At(v)' = "start" /\ At(a)' = p
      /\ \A b2 \in Actor \ {a, v} : At(b2)' = At(b2)
  BY <1>1, <1>2, <1>3, AtLaunch
<1>5. ~dl'[v].cancelled /\ ~dl'[v].lost
  <2>1. CASE \E b \in BOOLEAN : Launch(v, b)
    BY <1>2, <2>1, LaunchFields
  <2>2. CASE dl' = [dl EXCEPT ![a] = NoSession, ![v] = NoSession]
    BY <1>2, <2>2 DEF CloudInv, DlType, NoSession
  <2> QED  BY <1>1, <2>1, <2>2
<1>6. At(a) = pc[a]
  BY <1>2 DEF At
<1>7. running' = running
  <2>1. running \in BOOLEAN
    BY DEF CloudInv, MarkType
  <2>2. a \in Worker => running
    BY <1>2, <1>6, Solo
  <2> QED  BY <2>1, <2>2, Who DEF SubmitLaunch, ResumeLaunch, HandOff
<1>8. a \in {"create"} \cup Resumer \/ a \in Worker
  BY DEF Actor
<1>9. Starts(a, v)
  BY <1>1, <1>2, <1>3, <1>4, <1>5, <1>6, <1>7, <1>8, Who DEF Starts
<1> QED  BY <1>2, <1>9, StartKeeps

\* A resume keeps the files.
LEMMA ResumeKeepStill ==
    ASSUME CloudInv, NEW r \in Resumer, ResumeKeep(r)
    PROVE  Still
<1>1. r \in Actor /\ pc[r] = "window" /\ At(r) = "window"
  BY Who DEF ResumeKeep, At
<1>2. At(r)' = "launch" /\ \A b \in Actor \ {r} : At(b)' = At(b)
  BY <1>1, AtSaveThen DEF ResumeKeep
<1>3. \A s \in Resumer : s # r => res'[s] = res[s]
  BY DEF ResumeKeep, CloudInv, ResType
<1>4. /\ \A w \in Worker : At(w)' = At(w)
      /\ At("cancel")' = At("cancel") /\ At("delete")' = At("delete")
      /\ At("sweep")' = At("sweep")
      /\ \A a \in {"create"} \cup Resumer :
            At(a)' \in {"window", "launch"} => At(a) \in {"window", "launch"}
      /\ \A s \in Resumer :
            At(s)' = "window" => At(s) = "window" /\ res'[s] = res[s]
  BY <1>1, <1>2, <1>3, Who
<1>5. /\ task' = task /\ acct' = acct /\ disk' = disk /\ cloud' = cloud
      /\ usage' = usage /\ running' = running /\ cancelFn' = cancelFn
      /\ del' = del /\ item' = item /\ kept' = kept /\ dl' = dl
  BY DEF ResumeKeep, books, ghost
<1> QED  BY <1>4, <1>5 DEF Still

\* The new task has a placeholder and no file.
LEMMA CreateFiles ==
    ASSUME CloudInv, Clean, Files, CreateTask
    PROVE  Files'
<1>1. /\ "create" \in Actor /\ task.status = "none" /\ ~task.in
      /\ SaveThen("create", "submit") /\ Gone
  BY Who DEF CreateTask, CloudInv, Known, Gone
<1>2. /\ At("create")' = "submit"
      /\ \A b \in Actor \ {"create"} : At(b)' = At(b)
  BY <1>1, AtSaveThen
<1>3. ~running
  <2>1. \A w \in Worker : Holds(w) => task.status # "none"
    BY Who DEF CloudInv, AtWork
  <2> QED  BY <1>1 DEF CloudInv, Lock, AtWork
<1>4. /\ \A v \in Worker : At(v) \in {"unused", "over"}
      /\ \A b \in {"create"} \cup Resumer : At(b) \notin {"window", "launch"}
  BY <1>3, Solo
<1>5. /\ At("delete") = "idle" /\ At("sweep") = "idle" /\ At("cancel") # "rm"
      /\ acct.com = 0 /\ acct.res = 0 /\ del.res = 0 /\ usage = 0
      /\ task.reserved = 0 /\ ~task.done /\ (~kept => cloud = 0)
  <2>1. At("delete") = "idle" /\ At("sweep") = "idle" /\ del.res = 0
    BY <1>1, Plain
  <2>2. acct.com = 0 /\ acct.res = 0
    BY <1>1 DEF CloudInv, Known
  <2>3. usage = 0 /\ task.reserved = 0 /\ (~kept => cloud = 0 + 0)
    BY <1>1, <1>3, <2>1 DEF Files, Exact
  <2>4. At("cancel") # "rm" /\ ~task.done
    BY <1>1 DEF Files, Removed, Unmarked
  <2> QED  BY <2>1, <2>2, <2>3, <2>4
<1>6. Bare
  BY <1>1, <1>5 DEF Files, Removed, Removing
<1>7. /\ task'.in = TRUE /\ task'.status = "pending"
      /\ task'.reserved = Placeholder /\ task'.done = task.done
  BY DEF CreateTask, CloudInv, TaskType
<1>8. /\ cloud' = cloud + Placeholder /\ acct' = acct /\ running' = running
      /\ cancelFn' = cancelFn /\ disk' = disk /\ usage' = usage
      /\ del' = del /\ item' = item /\ kept' = kept
  BY DEF CreateTask, held, ghost
<1>9. /\ \A w \in Worker : At(w)' = At(w)
      /\ At("cancel")' # "rm" /\ At("delete")' = "idle"
      /\ At("sweep")' = "idle"
      /\ \A b \in {"create"} \cup Resumer :
            At(b)' \notin {"window", "launch"}
  BY <1>2, <1>4, <1>5, Who
<1>10. ~Gone' /\ Bare'
  BY <1>6, <1>7, <1>8 DEF Gone, Bare
<1>11. Account'
  BY <1>5, <1>8 DEF Account
<1>12. Exact'
  <2>1. ~kept => cloud + Placeholder = Placeholder + del.res
    BY <1>5, Who
  <2>2. usage = acct.com + acct.res
    BY <1>5
  <2> QED  BY <1>7, <1>8, <1>9, <1>10, <2>1, <2>2 DEF Exact
<1>13. Tracked'
  BY <1>4, <1>8, <1>9, TrackedIdle
<1>14. Unmarked'
  BY <1>5, <1>7, <1>9 DEF Unmarked
<1>15. Removed'
  BY <1>3, <1>7, <1>8, <1>9, <1>10 DEF Removed
<1>16. Resting'
  <2>1. disk'.partial = 0 /\ acct'.com = 0
    BY <1>5, <1>8, <1>10 DEF Bare
  <2>2. \A r \in Resumer : At(r)' # "window"
    BY <1>9
  <2> QED  BY <1>7, <2>1, <2>2 DEF Resting, Rests
<1> QED
  BY <1>11, <1>12, <1>13, <1>14, <1>15, <1>16 DEF Files

\* The pending task is submitted, or somebody else has it.
LEMMA SubmitFiles ==
    ASSUME CloudInv, Clean, Clean', Files, Submit
    PROVE  Files'
<1>1. /\ "create" \in Actor /\ pc["create"] = "submit"
      /\ At("create") = "submit"
  BY Who DEF Submit, At
<1>3. CASE ~(task.in /\ task.status = "pending" /\ ~running)
  <2>1. /\ Goto("create", "over") /\ UNCHANGED <<running, task, save>>
    BY <1>3 DEF Submit
  <2>2. /\ At("create")' = "over"
        /\ \A b \in Actor \ {"create"} : At(b)' = At(b)
    BY <1>1, <2>1, AtGoto
  <2>3. /\ task' = task /\ acct' = acct /\ disk' = disk /\ cloud' = cloud
        /\ usage' = usage /\ running' = running /\ cancelFn' = cancelFn
        /\ del' = del /\ item' = item /\ kept' = kept /\ dl' = dl
        /\ res' = res
    BY <2>1 DEF Submit, books, held
  <2>4. /\ \A w \in Worker : At(w)' = At(w)
        /\ At("cancel")' = At("cancel") /\ At("delete")' = At("delete")
        /\ At("sweep")' = At("sweep")
        /\ \A a \in {"create"} \cup Resumer :
              At(a)' \in {"window", "launch"} =>
                 At(a) \in {"window", "launch"}
        /\ \A s \in Resumer :
              At(s)' = "window" => At(s) = "window" /\ res'[s] = res[s]
    BY <2>2, <2>3, Who
  <2>5. Still
    BY <2>3, <2>4 DEF Still
  <2> QED  BY <2>5, StillKeeps
<1>4. CASE task.in /\ task.status = "pending" /\ ~running
  <2>1. /\ SaveThen("create", "launch") /\ running' = TRUE
        /\ task' = [task EXCEPT !.submitted = TRUE]
    BY <1>4 DEF Submit
  <2>2. /\ At("create")' = "launch"
        /\ \A b \in Actor \ {"create"} : At(b)' = At(b)
    BY <1>1, <2>1, AtSaveThen
  <2>3. At("sweep") = "idle"
    <3>1. pc["sweep"] \in {"idle", "save", "write"}
      BY DEF Submit, Meets, Overlaps, Clean
    <3> QED  BY <3>1, AtPlaces, Who
  <2>4. /\ \A v \in Worker : At(v) \in {"unused", "over"}
        /\ \A b \in {"create"} \cup Resumer :
              At(b) \notin {"window", "launch"}
    BY <1>4, Solo
  <2>5. At("delete") = "idle" /\ At("cancel") # "rm" /\ ~task.done
    BY <1>4, Plain DEF Files, Removed, Unmarked
  <2>6. /\ task'.in = task.in /\ task'.status = task.status
        /\ task'.reserved = task.reserved /\ task'.done = task.done
    BY <2>1 DEF CloudInv, TaskType
  <2>7. /\ acct' = acct /\ disk' = disk /\ cloud' = cloud
        /\ usage' = usage /\ cancelFn' = cancelFn
        /\ del' = del /\ item' = item /\ kept' = kept
    BY DEF Submit, books, held
  <2>8. /\ \A w \in Worker : At(w)' = At(w)
        /\ At("cancel")' # "rm" /\ At("delete")' = "idle"
        /\ At("sweep")' = "idle"
        /\ \A r \in Resumer : At(r)' # "window"
    BY <2>2, <2>3, <2>4, <2>5, Who
  <2>9. ~Gone /\ ~Gone'
    BY <1>4, <2>6 DEF Gone
  <2>10. Account'
    BY <2>4, <2>7 DEF Files, Account
  <2>11. Exact'
    BY <1>4, <2>6, <2>7, <2>8, <2>9 DEF Files, Exact
  <2>12. Tracked'
    BY <2>4, <2>7, <2>8, TrackedIdle
  <2>13. Unmarked'
    BY <2>5, <2>6 DEF Unmarked
  <2>14. Removed'
    BY <1>4, <2>6, <2>8, <2>9 DEF Removed
  <2>15. Resting'
    BY <1>4, <2>6, <2>7, <2>8, <2>9 DEF Files, Resting, Rests
  <2> QED
    BY <2>10, <2>11, <2>12, <2>13, <2>14, <2>15 DEF Files
<1> QED  BY <1>3, <1>4

\* A request that cancels the task under the lock tells its goroutine.
LEMMA TrackedCancelled ==
    ASSUME CloudInv, Files, CallCancelFn,
           \A w \in Worker : At(w)' = At(w),
           task'.status = "cancelled", task'.done = task.done, disk' = disk,
           Removing', running => acct' = acct
    PROVE  Tracked'
<1> SUFFICES ASSUME NEW w \in Worker PROVE Told(w)' /\ Loaded(w)'
  BY DEF Tracked
<1>1. Told(w) /\ Loaded(w) /\ Gone' /\ w # NoWorker
  BY Who DEF Files, Tracked, Gone
<1>2. cancelFn' = NoWorker
  BY DEF CallCancelFn
<1>3. dl[w] \in Session
  BY DEF CloudInv, DlType
<1>4. /\ w # cancelFn => dl'[w] = dl[w]
      /\ w = cancelFn => dl'[w] = [dl[w] EXCEPT !.cancelled = TRUE]
  BY DEF CallCancelFn
<1>5. /\ dl'[w].err = dl[w].err /\ dl'[w].lost = dl[w].lost
      /\ dl'[w].size = dl[w].size /\ dl'[w].old = dl[w].old
      /\ dl[w].cancelled => dl'[w].cancelled
      /\ w = cancelFn => dl'[w].cancelled
  <2>1. CASE w # cancelFn
    BY <1>4, <2>1
  <2>2. CASE w = cancelFn
    <3>1. dl'[w] = [dl[w] EXCEPT !.cancelled = TRUE]
      BY <1>4, <2>2
    <3>2. dl'[w].cancelled = TRUE
      BY <1>3, <3>1 DEF Session
    <3>3. /\ dl'[w].err = dl[w].err /\ dl'[w].lost = dl[w].lost
          /\ dl'[w].size = dl[w].size /\ dl'[w].old = dl[w].old
      BY <1>3, <3>1 DEF Session
    <3> QED  BY <3>2, <3>3
  <2> QED  BY <2>1, <2>2
<1>6. At(w) = "start" => ~dl'[w].cancelled
  BY <1>1, <1>4 DEF Told
<1>7. At(w) \notin {"unused", "start", "over"} =>
         At(w) \in {"guard", "exit"} \/ dl'[w].cancelled
  BY <1>1, <1>5 DEF Told
<1>8. Told(w)'
  BY <1>1, <1>2, <1>5, <1>6, <1>7 DEF Told, Terminal
<1>9. At(w) = "recv" => acct' = acct
  BY Solo
<1>10. Loaded(w)'
  BY <1>1, <1>5, <1>9 DEF Loaded, Landed
<1> QED  BY <1>8, <1>10

\* A sweep that meets nobody is not under way.
LEMMA SweepIdle ==
    ASSUME CloudInv, Clean, Clean',
           \E rs \in SUBSET Request : "sweep" \in rs /\ Meets(rs)
    PROVE  At("sweep") = "idle"
<1>1. pc["sweep"] \in {"idle", "save", "write"}
  BY DEF Meets, Overlaps, Clean
<1> QED  BY <1>1, AtPlaces, Who

\* CancelTask leaves the files to its removal, and the account to the
\* goroutine if there is one.
LEMMA CancelFiles ==
    ASSUME CloudInv, Clean, Clean', Files, CancelTask
    PROVE  Files'
<1>1. /\ "cancel" \in Actor /\ pc["cancel"] = "idle"
      /\ At("cancel") = "idle" /\ Goto("cancel", "rm") /\ UNCHANGED save
      /\ task.in /\ task.status \in {"pending", "downloading"}
      /\ Meets({"sweep"}) /\ CallCancelFn
  BY Who DEF CancelTask, Arrives, Idle, At
<1>2. /\ At("cancel")' = "rm"
      /\ \A b \in Actor \ {"cancel"} : At(b)' = At(b)
  BY <1>1, AtGoto
<1>3. At("sweep") = "idle" /\ At("delete") = "idle"
  <2>1. {"sweep"} \in SUBSET Request
    BY Who
  <2> QED  BY <1>1, <2>1, SweepIdle, Plain
<1>4. /\ \A w \in Worker : At(w)' = At(w)
      /\ At("delete")' = "idle" /\ At("sweep")' = "idle"
      /\ \A a \in {"create"} \cup Resumer : At(a)' = At(a)
      /\ Removing'
  BY <1>2, <1>3, Who DEF Removing
<1>5. /\ task'.in = task.in /\ task'.status = "cancelled"
      /\ task'.reserved = 0 /\ task'.done = task.done
  <2> DEFINE t == [task EXCEPT !.status = "cancelled"]
  <2>1. TaskType /\ task' = [t EXCEPT !.reserved = 0]
    BY DEF CancelTask, CloudInv
  <2>2. t = [in |-> task.in, status |-> "cancelled",
             submitted |-> task.submitted, done |-> task.done,
             damaged |-> task.damaged, reserved |-> task.reserved]
    BY <2>1 DEF TaskType
  <2> HIDE DEF t
  <2> QED  BY <2>1, <2>2
<1>6. /\ disk' = disk /\ running' = running /\ del' = del /\ item' = item
      /\ kept' = kept /\ cloud' = cloud - task.reserved
  BY DEF CancelTask, held
<1>7. Gone'
  BY <1>5 DEF Gone
<1>8. /\ ~acct.open => acct.com = 0 /\ acct.res = 0
      /\ usage = acct.com + acct.res
      /\ ~kept => cloud = task.reserved + del.res
  BY <1>1 DEF Files, Account, Exact
<1>9. CASE running
  <2>1. acct' = acct /\ usage' = usage
    BY <1>9 DEF CancelTask
  <2>2. Account'
    BY <1>4, <2>1 DEF Files, Account
  <2>3. Exact'
    <3>1. ~kept => cloud - task.reserved = 0 + del.res
      BY <1>8, Plain
    <3> QED
      BY <1>1, <1>4, <1>5, <1>6, <1>8, <2>1, <3>1 DEF Exact
  <2> QED  BY <2>1, <2>2, <2>3, <1>1, <1>4, <1>5, <1>6, <1>7,
     TrackedCancelled
     DEF Files, Unmarked, Removed, Resting, Rests
<1>10. CASE ~running
  <2>1. ReleaseScope
    BY <1>10 DEF CancelTask
  <2>2. /\ ~acct'.open /\ acct'.com = 0 /\ acct'.res = 0
        /\ usage' = usage - (acct.com + acct.res)
    BY <1>8, <2>1, ReleaseExact
  <2>3. Account'
    BY <2>2 DEF Account
  <2>4. Exact'
    <3>1. /\ ~kept => cloud - task.reserved = 0 + del.res
          /\ usage - (acct.com + acct.res) = 0
      BY <1>8, Plain
    <3> QED
      BY <1>1, <1>4, <1>5, <1>6, <2>2, <3>1 DEF Exact
  <2> QED  BY <1>10, <2>3, <2>4, <1>1, <1>4, <1>5, <1>6, <1>7,
     TrackedCancelled
     DEF Files, Unmarked, Removed, Resting, Rests
<1> QED  BY <1>9, <1>10

\* DeleteTask notes what the task holds, and leaves the files to its removal.
LEMMA DeleteFilesKept ==
    ASSUME CloudInv, Clean, Clean', Files, DeleteTask
    PROVE  Files'
<1>1. /\ "delete" \in Actor /\ pc["delete"] = "idle"
      /\ At("delete") = "idle" /\ Goto("delete", "rm") /\ UNCHANGED save
      /\ task.in /\ Meets({"sweep"}) /\ CallCancelFn
  BY Who DEF DeleteTask, Arrives, Idle, At
<1>2. /\ At("delete")' = "rm"
      /\ \A b \in Actor \ {"delete"} : At(b)' = At(b)
  BY <1>1, AtGoto
<1>3. At("sweep") = "idle" /\ del.res = 0
  <2>1. {"sweep"} \in SUBSET Request
    BY Who
  <2> QED  BY <1>1, <2>1, SweepIdle, Plain
<1>4. /\ \A w \in Worker : At(w)' = At(w)
      /\ At("sweep")' = "idle"
      /\ \A a \in {"create"} \cup Resumer : At(a)' = At(a)
      /\ Removing'
  BY <1>2, <1>3, Who DEF Removing
<1>5. /\ task'.in = FALSE /\ task'.status = "cancelled"
      /\ task'.reserved = 0 /\ task'.done = task.done
  BY DEF DeleteTask, CloudInv, TaskType
<1>6. /\ disk' = disk /\ running' = running /\ item' = item /\ acct' = acct
      /\ kept' = kept /\ cloud' = cloud /\ usage' = usage
      /\ del'.res = task.reserved /\ del'.run = running
  BY DEF DeleteTask, books
<1>7. Gone' /\ (At("cancel")' = At("cancel"))
  BY <1>2, <1>5, Who DEF Gone
<1>8. Account'
  BY <1>4, <1>6 DEF Files, Account
<1>9. Exact'
  <2>1. /\ usage = acct.com + acct.res
        /\ ~kept => cloud = 0 + task.reserved
    BY <1>1, <1>3, Plain DEF Files, Exact
  <2> QED  BY <1>2, <1>4, <1>5, <1>6, <2>1 DEF Exact
<1>10. Tracked'
  BY <1>1, <1>4, <1>5, <1>6, TrackedCancelled
<1>11. Unmarked'
  BY <1>4, <1>5 DEF Files, Unmarked
<1>12. Removed'
  BY <1>2, <1>4, <1>5, <1>6 DEF Removed
<1>13. Resting'
  BY <1>5, <1>7 DEF Resting, Rests
<1> QED
  BY <1>8, <1>9, <1>10, <1>11, <1>12, <1>13 DEF Files

\* A request removes the files of a task that is gone.
Clears ==
    /\ RemoveDir /\ Gone
    /\ \A w \in Worker : At(w)' = At(w)
    /\ \A a \in {"create"} \cup Resumer : At(a)' = At(a)
    /\ At("sweep")' = At("sweep")
    /\ At("cancel")' = "rm" => At("cancel") = "rm"
    /\ At("delete")' = "idle" <=> At("delete") = "idle"
    /\ task' = task /\ acct' = acct /\ cloud' = cloud /\ usage' = usage
    /\ running' = running /\ cancelFn' = cancelFn
    /\ del' = del /\ item' = item /\ kept' = kept

\* Such a removal keeps what is known of the files.
LEMMA ClearKeeps ==
    ASSUME CloudInv, Files, Clears
    PROVE  Files'
<1>1. /\ Bare' /\ disk'.dir = FALSE
      /\ \A w \in Worker : At(w) # "recv" => dl'[w] = dl[w]
      /\ \A w \in Worker : At(w) = "recv" =>
            /\ dl'[w].lost /\ dl'[w].cancelled = dl[w].cancelled
            /\ dl'[w].err = dl[w].err
  BY RemoveDirBare DEF Clears
<1>2. Gone /\ Gone'
  BY DEF Clears, Gone
<1>3. Account'
  BY DEF Files, Account, Clears
<1>4. Exact'
  BY DEF Files, Exact, Clears, Gone
<1>5. Tracked'
  <2> SUFFICES ASSUME NEW w \in Worker PROVE Told(w)' /\ Loaded(w)'
    BY DEF Tracked
  <2>1. /\ Told(w) /\ At(w)' = At(w) /\ cancelFn' = cancelFn /\ task' = task
        /\ acct' = acct /\ Loaded(w)
    BY DEF Files, Tracked, Clears
  <2>2. CASE At(w) = "recv"
    <3>1. /\ dl'[w].lost /\ dl'[w].cancelled = dl[w].cancelled
          /\ dl'[w].err = dl[w].err
      BY <1>1, <2>2
    <3>2. Told(w)'
      BY <1>2, <2>1, <2>2, <3>1 DEF Told
    <3>3. Loaded(w)'
      BY <1>2, <2>1, <2>2, <3>1 DEF Loaded, Landed
    <3> QED  BY <3>2, <3>3
  <2>3. CASE At(w) # "recv"
    <3>1. dl'[w] = dl[w]
      BY <1>1, <2>3
    <3>2. Told(w)'
      BY <1>2, <2>1, <3>1 DEF Told
    <3>3. Loaded(w)'
      BY <1>2, <2>1, <2>3 DEF Loaded
    <3> QED  BY <3>2, <3>3
  <2> QED  BY <2>2, <2>3
<1>6. Unmarked'
  BY DEF Files, Unmarked, Clears
<1>7. Removed'
  BY <1>1 DEF Files, Removed, Clears
<1>8. Resting'
  BY <1>2 DEF Resting, Rests, Gone
<1> QED  BY <1>3, <1>4, <1>5, <1>6, <1>7, <1>8 DEF Files

\* The request that cancelled or deleted the task removes its files.
LEMMA RemoveFiles ==
    ASSUME CloudInv, Clean, Clean', Files, CancelRemove \/ DeleteFiles
    PROVE  Files'
<1>1. RemoveDir
  BY NoFault DEF CancelRemove, DeleteFiles, TryRemoveDir
<1>2. /\ task' = task /\ acct' = acct /\ cloud' = cloud /\ usage' = usage
      /\ running' = running /\ cancelFn' = cancelFn
      /\ del' = del /\ item' = item /\ kept' = kept
  BY DEF CancelRemove, DeleteFiles, books, held, ghost
<1>3. CASE CancelRemove
  <2>1. /\ "cancel" \in Actor /\ At("cancel") = "rm"
        /\ SaveThen("cancel", "idle")
    BY <1>3, Who DEF CancelRemove, At
  <2>2. /\ At("cancel")' = "idle"
        /\ \A b \in Actor \ {"cancel"} : At(b)' = At(b)
    BY <2>1, AtSaveThen
  <2>3. Gone
    BY <2>1 DEF Files, Removed, Gone
  <2>4. Clears
    BY <1>1, <1>2, <2>2, <2>3, Who DEF Clears
  <2> QED  BY <2>4, ClearKeeps
<1>4. CASE DeleteFiles
  <2>1. /\ "delete" \in Actor /\ pc["delete"] = "rm" /\ At("delete") = "rm"
        /\ Goto("delete", "json") /\ UNCHANGED save
    BY <1>4, Who DEF DeleteFiles, At
  <2>2. /\ At("delete")' = "json"
        /\ \A b \in Actor \ {"delete"} : At(b)' = At(b)
    BY <2>1, AtGoto
  <2>3. Gone
    BY <2>1, Plain DEF Gone
  <2>4. Clears
    BY <1>1, <1>2, <2>1, <2>2, <2>3, Who DEF Clears
  <2> QED  BY <2>4, ClearKeeps
<1> QED  BY <1>3, <1>4

\* What a sweep of the task knows: nobody works for it and nobody removes it.
LEMMA SweptAlone ==
    ASSUME CloudInv, Clean, Files, At("sweep") # "idle"
    PROVE  /\ task.in /\ ~running /\ At("delete") = "idle" /\ del.res = 0
           /\ \A v \in Worker : At(v) \in {"unused", "over"}
           /\ \A b \in {"create"} \cup Resumer :
                 At(b) \notin {"window", "launch"}
           /\ task.status \in Terminal \cup {"pending"}
           /\ item.res = task.reserved /\ item.com = acct.com
           /\ acct.res = 0 /\ usage = acct.com
           /\ ~kept => cloud = task.reserved
<1>1. /\ task.in /\ ~running /\ At("delete") = "idle" /\ del.res = 0
      /\ task.status \in Terminal \cup {"pending"}
  BY Plain
<1>2. /\ \A v \in Worker : At(v) \in {"unused", "over"}
      /\ \A b \in {"create"} \cup Resumer : At(b) \notin {"window", "launch"}
  BY <1>1, Solo
<1>3. acct.res = 0
  BY <1>2 DEF Files, Account
<1>4. /\ item.res = task.reserved /\ item.com = acct.com
      /\ usage = acct.com + acct.res
      /\ ~kept => cloud = task.reserved + del.res
  BY <1>1 DEF Files, Exact
<1>5. usage = acct.com /\ (~kept => cloud = task.reserved)
  BY <1>1, <1>3, <1>4, Plain
<1> QED  BY <1>1, <1>2, <1>3, <1>4, <1>5

\* The sweep removes the files of the task it collected.
LEMMA SweepRemoveFiles ==
    ASSUME CloudInv, Clean, Clean', Files, SweepRemove
    PROVE  Files'
<1>1. /\ "sweep" \in Actor /\ pc["sweep"] = "rm" /\ At("sweep") = "rm"
      /\ UNCHANGED save
  BY Who DEF SweepRemove, At
<1>2. /\ RemoveDir /\ Goto("sweep", "drop") /\ task' = task /\ item' = item
  BY NoFault DEF SweepRemove, TryRemoveDir
<1>3. /\ At("sweep")' = "drop"
      /\ \A b \in Actor \ {"sweep"} : At(b)' = At(b)
  BY <1>1, <1>2, AtGoto
<1>4. /\ task.in /\ ~running /\ At("delete") = "idle"
      /\ \A v \in Worker : At(v) \in {"unused", "over"}
      /\ \A b \in {"create"} \cup Resumer : At(b) \notin {"window", "launch"}
      /\ acct.res = 0
  BY <1>1, SweptAlone
<1>5. /\ \A w \in Worker : At(w)' = At(w)
      /\ At("cancel")' = At("cancel") /\ At("delete")' = At("delete")
      /\ \A b \in {"create"} \cup Resumer : At(b)' = At(b)
  BY <1>3, Who
<1>6. Bare'
  BY <1>2, RemoveDirBare
<1>7. /\ acct' = acct /\ cloud' = cloud /\ usage' = usage
      /\ running' = running /\ cancelFn' = cancelFn
      /\ del' = del /\ kept' = kept
  BY DEF SweepRemove, books, ghost
<1>8. Account'
  BY <1>4, <1>7 DEF Files, Account
<1>9. Exact'
  BY <1>1, <1>2, <1>3, <1>4, <1>5, <1>7 DEF Files, Exact, Gone
<1>10. Tracked'
  BY <1>4, <1>5, <1>7, TrackedIdle
<1>11. Unmarked'
  BY <1>2, <1>5, <1>7 DEF Files, Unmarked
<1>12. Removed'
  BY <1>2, <1>4, <1>5, <1>6, <1>7 DEF Files, Removed
<1>13. Resting'
  <2>1. acct'.com >= disk'.partial
    <3>1. disk'.partial = 0 /\ acct' = acct /\ acct.com >= 0
      BY <1>6, <1>7, Plain DEF Bare
    <3> QED  BY <3>1
  <2>2. \A r \in Resumer : At(r)' # "window"
    BY <1>4, <1>5
  <2> QED  BY <1>3, <2>1, <2>2 DEF Resting, Rests
<1> QED
  BY <1>8, <1>9, <1>10, <1>11, <1>12, <1>13 DEF Files

\* The task leaves the table, and what it held is given back.
LEMMA SweepDropFiles ==
    ASSUME CloudInv, Clean, Files, SweepDrop
    PROVE  Files'
<1>1. /\ "sweep" \in Actor /\ pc["sweep"] = "drop" /\ At("sweep") = "drop"
      /\ UNCHANGED save /\ Goto("sweep", "idle")
  BY Who DEF SweepDrop, At
<1>2. /\ At("sweep")' = "idle"
      /\ \A b \in Actor \ {"sweep"} : At(b)' = At(b)
  BY <1>1, AtGoto
<1>3. /\ task.in /\ ~running /\ At("delete") = "idle" /\ del.res = 0
      /\ \A v \in Worker : At(v) \in {"unused", "over"}
      /\ \A b \in {"create"} \cup Resumer : At(b) \notin {"window", "launch"}
      /\ item.res = task.reserved /\ item.com = acct.com
      /\ acct.res = 0 /\ usage = acct.com
      /\ ~kept => cloud = task.reserved
  BY <1>1, SweptAlone
<1>4. /\ \A w \in Worker : At(w)' = At(w)
      /\ At("cancel")' = At("cancel") /\ At("delete")' = At("delete")
      /\ \A b \in {"create"} \cup Resumer : At(b)' = At(b)
  BY <1>2, Who
<1>5. /\ task'.in = FALSE /\ task'.status = task.status
      /\ task'.reserved = 0 /\ task'.done = task.done
  BY DEF SweepDrop, CloudInv, TaskType
<1>6. /\ acct' = acct /\ disk' = disk /\ running' = running
      /\ cancelFn' = cancelFn /\ del' = del /\ kept' = kept
      /\ cloud' = cloud - item.res /\ usage' = usage - item.com
  BY DEF SweepDrop, ghost
<1>7. /\ usage - item.com = 0
      /\ ~kept => cloud - item.res = 0 + del.res
  BY <1>3, Plain
<1>8. Gone' /\ Bare /\ Bare'
  BY <1>1, <1>5, <1>6 DEF Files, Removed, Gone, Bare
<1>9. Account'
  BY <1>3, <1>6 DEF Files, Account
<1>10. Exact'
  BY <1>2, <1>3, <1>4, <1>5, <1>6, <1>7 DEF Exact
<1>11. Tracked'
  BY <1>3, <1>4, <1>6, TrackedIdle
<1>12. Unmarked'
  BY <1>4, <1>5, <1>6 DEF Files, Unmarked
<1>13. Removed'
  BY <1>2, <1>3, <1>4, <1>5, <1>6, <1>8 DEF Files, Removed
<1>14. Resting'
  BY <1>5, <1>8 DEF Resting, Rests
<1> QED
  BY <1>9, <1>10, <1>11, <1>12, <1>13, <1>14 DEF Files

\* The sweep notes what the task holds.
LEMMA SweepCollectFiles ==
    ASSUME CloudInv, Clean, Clean', Files, SweepCollect
    PROVE  Files'
<1>1. /\ "sweep" \in Actor /\ pc["sweep"] = "idle" /\ At("sweep") = "idle"
      /\ UNCHANGED save /\ Goto("sweep", "json") /\ task.in
  BY Who DEF SweepCollect, Arrives, Idle, At
<1>2. /\ At("sweep")' = "json"
      /\ \A b \in Actor \ {"sweep"} : At(b)' = At(b)
  BY <1>1, AtGoto
<1>3. /\ \A w \in Worker : At(w)' = At(w)
      /\ At("cancel")' = At("cancel") /\ At("delete")' = At("delete")
      /\ \A b \in {"create"} \cup Resumer : At(b)' = At(b)
  BY <1>2, Who
<1>4. ~running
  BY DEF SweepCollect, Overlaps, Clean
<1>5. /\ \A v \in Worker : At(v) \in {"unused", "over"}
      /\ \A b \in {"create"} \cup Resumer : At(b) \notin {"window", "launch"}
  BY <1>4, Solo
<1>6. /\ task' = task /\ acct' = acct /\ disk' = disk /\ running' = running
      /\ cancelFn' = cancelFn /\ del' = del /\ kept' = kept
      /\ cloud' = cloud /\ usage' = usage
  BY DEF SweepCollect, books
<1>7. item'.res = task.reserved /\ item'.com = acct.com
  <2>1. /\ item'.res = task.reserved
        /\ item'.com = IF acct.open THEN acct.com ELSE 0
    BY DEF SweepCollect
  <2> QED  BY <2>1 DEF Files, Account
<1>8. (Gone' <=> Gone) /\ (Removing' <=> Removing) /\ (Bare' <=> Bare)
      /\ (FileThere' <=> FileThere)
  BY <1>3, <1>6 DEF Gone, Removing, Bare, FileThere
<1>9. Account'
  BY <1>3, <1>6 DEF Files, Account
<1>10. Exact'
  BY <1>3, <1>6, <1>7, <1>8 DEF Files, Exact
<1>11. Tracked'
  BY <1>3, <1>5, <1>6, TrackedIdle
<1>12. Unmarked'
  BY <1>3, <1>6 DEF Files, Unmarked
<1>13. Removed'
  BY <1>2, <1>3, <1>6, <1>8 DEF Files, Removed
<1>14. Resting'
  BY <1>1, <1>3, <1>5, <1>6, <1>8 DEF Files, Resting, Rests
<1> QED
  BY <1>9, <1>10, <1>11, <1>12, <1>13, <1>14 DEF Files

\* DeleteTask gives back what it noted, or leaves it to the goroutine.
LEMMA DeleteReleaseFiles ==
    ASSUME CloudInv, Clean, Files, DeleteRelease
    PROVE  Files'
<1>1. /\ "delete" \in Actor /\ pc["delete"] = "release"
      /\ At("delete") = "release" /\ UNCHANGED save /\ Goto("delete", "idle")
  BY Who DEF DeleteRelease, At
<1>2. /\ At("delete")' = "idle"
      /\ \A b \in Actor \ {"delete"} : At(b)' = At(b)
  BY <1>1, AtGoto
<1>3. /\ \A w \in Worker : At(w)' = At(w)
      /\ At("cancel")' = At("cancel") /\ At("sweep")' = At("sweep")
      /\ \A b \in {"create"} \cup Resumer : At(b)' = At(b)
  BY <1>2, Who
<1>4. ~task.in /\ Gone /\ At("sweep") = "idle"
  BY <1>1, Plain DEF Gone
<1>5. /\ del.run /\ ~running => ~acct.open
      /\ ~del.run => ~running /\ ~disk.dir
  BY <1>1 DEF Files, Removed
<1>6. /\ usage = acct.com + acct.res
      /\ ~kept => cloud = task.reserved + del.res
      /\ task.reserved = 0
      /\ ~acct.open => acct.com = 0 /\ acct.res = 0
  BY <1>1, <1>4 DEF Files, Exact, Account
<1>7. /\ disk' = disk /\ running' = running /\ item' = item /\ dl' = dl
      /\ cancelFn' = cancelFn /\ del'.res = 0
  BY DEF DeleteRelease, NoDelete
<1>8. /\ task'.in = task.in /\ task'.status = task.status
      /\ task'.reserved = task.reserved /\ task'.done = task.done
  <2>1. task' = task \/ task' = [task EXCEPT !.reserved = 0]
    BY DEF DeleteRelease
  <2> QED  BY <1>6, <2>1 DEF CloudInv, TaskType
<1>9. ~kept' => cloud' = task'.reserved + del'.res
  <2>1. CASE disk.dir
    <3>1. kept' = TRUE
      BY <2>1 DEF DeleteRelease
    <3> QED  BY <3>1
  <2>2. CASE ~disk.dir
    <3>1. cloud' = cloud - del.res /\ kept' = kept
      BY <2>2 DEF DeleteRelease
    <3>2. ~kept => cloud - del.res = 0 + 0
      BY <1>6, Plain
    <3> QED  BY <1>6, <1>7, <1>8, <3>1, <3>2
  <2> QED  BY <2>1, <2>2
<1>10. /\ running => acct' = acct /\ usage' = usage
       /\ ~running => /\ ~acct'.open /\ acct'.com = 0 /\ acct'.res = 0
                      /\ usage' = 0
  <2>1. CASE del.run
    <3>1. acct' = acct /\ usage' = usage
      BY <2>1 DEF DeleteRelease, books
    <3>2. ~running => acct.com = 0 /\ acct.res = 0 /\ usage = 0
      BY <1>5, <1>6, <2>1
    <3> QED  BY <1>5, <2>1, <3>1, <3>2
  <2>2. CASE ~del.run
    <3>1. ReleaseScope /\ ~running
      BY <1>5, <2>2 DEF DeleteRelease
    <3>2. /\ ~acct'.open /\ acct'.com = 0 /\ acct'.res = 0
          /\ usage' = usage - (acct.com + acct.res)
      BY <1>6, <3>1, ReleaseExact
    <3>3. usage - (acct.com + acct.res) = 0
      BY <1>6, Plain
    <3> QED  BY <3>1, <3>2, <3>3
  <2> QED  BY <2>1, <2>2
<1>11. Gone' /\ (Removing' <=> Removing) /\ (Bare' <=> Bare)
  BY <1>1, <1>2, <1>3, <1>4, <1>7, <1>8 DEF Gone, Removing, Bare
<1>12. Account'
  BY <1>3, <1>10 DEF Files, Account
<1>13. Exact'
  BY <1>2, <1>3, <1>4, <1>6, <1>7, <1>8, <1>9, <1>10 DEF Exact
<1>14. Tracked'
  <2>1. CASE running
    <3> SUFFICES ASSUME NEW w \in Worker PROVE Told(w)' /\ Loaded(w)'
      BY DEF Tracked
    <3>1. Told(w) /\ Loaded(w) /\ acct' = acct
      BY <1>10, <2>1 DEF Files, Tracked
    <3>2. Told(w)'
      BY <1>3, <1>4, <1>7, <1>8, <1>11, <3>1 DEF Told
    <3>3. Loaded(w)'
      BY <1>3, <1>4, <1>7, <1>11, <3>1 DEF Loaded
    <3> QED  BY <3>2, <3>3
  <2>2. CASE ~running
    BY <1>3, <1>7, <2>2, Solo, TrackedIdle
  <2> QED  BY <2>1, <2>2
<1>15. Unmarked'
  BY <1>3, <1>7, <1>8 DEF Files, Unmarked
<1>16. Removed'
  BY <1>2, <1>3, <1>4, <1>7, <1>8, <1>11 DEF Files, Removed
<1>17. Resting'
  BY <1>4, <1>8, <1>11 DEF Resting, Rests
<1> QED
  BY <1>12, <1>13, <1>14, <1>15, <1>16, <1>17 DEF Files

\* A resume claims the task, and remembers what it found.
LEMMA ResumeClaimFiles ==
    ASSUME CloudInv, Clean, Clean', Files, NEW r \in Resumer, ResumeClaim(r)
    PROVE  Files'
<1>1. /\ r \in Actor /\ pc[r] = "claim" /\ At(r) = "claim"
      /\ UNCHANGED save /\ Goto(r, "window")
      /\ task.in /\ ~running /\ task.status \in Terminal
      /\ Meets({"cancel", "sweep"})
  BY Who DEF ResumeClaim, Resumable, Terminal, At
<1>2. /\ At(r)' = "window" /\ \A b \in Actor \ {r} : At(b)' = At(b)
  BY <1>1, AtGoto
<1>3. At("sweep") = "idle" /\ At("cancel") # "rm" /\ At("delete") = "idle"
  <2>1. {"cancel", "sweep"} \in SUBSET Request
    BY Who
  <2>2. pc["cancel"] \in {"idle", "save", "write"}
    BY <1>1 DEF Meets, Overlaps, Clean
  <2> QED  BY <1>1, <2>1, <2>2, SweepIdle, Plain, AtPlaces
<1>4. /\ \A v \in Worker : At(v) \in {"unused", "over"}
      /\ \A b \in {"create"} \cup Resumer : At(b) \notin {"window", "launch"}
  BY <1>1, Solo
<1>5. /\ \A w \in Worker : At(w)' = At(w)
      /\ At("cancel")' # "rm" /\ At("sweep")' = "idle"
      /\ At("delete")' = "idle"
      /\ \A s \in Resumer : s # r => At(s)' # "window"
  BY <1>2, <1>3, <1>4, Who
<1>6. PICK n \in Nat :
         /\ n = IF task.reserved = 0 THEN Placeholder ELSE 0
         /\ task' = [Claimed EXCEPT !.reserved = @ + n]
         /\ cloud' = cloud + n
         /\ res' = [res EXCEPT ![r].prev = Snapshot(task), ![r].res = n]
  BY Who DEF ResumeClaim
<1>7. /\ task'.in = task.in /\ task'.status = "pending"
      /\ task'.done = FALSE /\ task'.reserved = task.reserved + n
  <2>1. Claimed = [in |-> task.in, status |-> "pending",
                   submitted |-> task.submitted, done |-> FALSE,
                   damaged |-> FALSE, reserved |-> task.reserved]
    BY ClaimedIs DEF CloudInv
  <2>2. task' = [in |-> task.in, status |-> "pending",
                 submitted |-> task.submitted, done |-> FALSE,
                 damaged |-> FALSE, reserved |-> task.reserved + n]
    BY <1>6, <2>1
  <2> QED  BY <2>2
<1>8. res'[r].prev.status = task.status /\ res'[r].res = n
  <2>1. res'[r] = [woken |-> res[r].woken, prev |-> Snapshot(task),
                   res |-> n]
    BY <1>6 DEF CloudInv, ResType
  <2>2. Snapshot(task).status = task.status
    BY DEF Snapshot
  <2> QED  BY <2>1, <2>2
<1>9. /\ acct' = acct /\ disk' = disk /\ usage' = usage /\ running' = TRUE
      /\ cancelFn' = cancelFn /\ del' = del /\ item' = item /\ kept' = kept
  BY DEF ResumeClaim
<1>10. ~Gone' /\ (Bare' <=> Bare) /\ (FileThere' <=> FileThere)
  BY <1>1, <1>7, <1>9 DEF Gone, Bare, FileThere
<1>11. Gone => Bare /\ task.reserved = 0
  BY <1>3 DEF Files, Removed, Removing, Exact
<1>12. task.status = "completed" => FileThere
  BY <1>1, <1>3 DEF Files, Resting, Rests
<1>13. acct.com >= disk.partial
  <2>1. CASE Gone
    <3>1. disk.partial = 0
      BY <1>11, <2>1 DEF Bare
    <3> QED  BY <3>1, Plain
  <2>2. CASE ~Gone
    BY <2>2 DEF Files, Resting
  <2> QED  BY <2>1, <2>2
<1>14. Account'
  BY <1>4, <1>9 DEF Files, Account
<1>15. Exact'
  <2>1. /\ usage = acct.com + acct.res
        /\ ~kept => cloud + n = (task.reserved + n) + del.res
    <3>1. /\ usage = acct.com + acct.res
          /\ ~kept => cloud = task.reserved + del.res
      BY <1>1 DEF Files, Exact
    <3> QED  BY <3>1, Plain
  <2> QED
    BY <1>1, <1>5, <1>6, <1>7, <1>9, <1>10, <2>1 DEF Exact
<1>16. Tracked'
  BY <1>4, <1>5, <1>9, TrackedIdle
<1>17. Unmarked'
  BY <1>7 DEF Unmarked
<1>18. Removed'
  BY <1>1, <1>5, <1>7, <1>10 DEF Removed
<1>19. Resting'
  <2>1. Found(r)'
    <3>1. task.status = "cancelled" => task.reserved + n = n
      BY <1>11, Who DEF Gone
    <3>2. task.status = "cancelled" => Bare
      BY <1>11 DEF Gone
    <3> QED
      BY <1>7, <1>8, <1>10, <1>12, <3>1, <3>2 DEF Found
  <2> QED  BY <1>5, <1>7, <1>9, <1>13, <2>1 DEF Resting, Rests
<1> QED
  BY <1>14, <1>15, <1>16, <1>17, <1>18, <1>19 DEF Files

\* What is known while a resume holds the task.
LEMMA WindowKnows ==
    ASSUME CloudInv, Clean, Files, NEW r \in Resumer, pc[r] = "window"
    PROVE  /\ r \in Actor /\ At(r) = "window" /\ running
           /\ \A v \in Worker : At(v) \in {"unused", "over"}
           /\ \A b \in {"create"} \cup Resumer :
                 b # r => At(b) \notin {"window", "launch"}
           /\ task.status \in {"pending", "downloading", "cancelled"}
           /\ ~task.done /\ acct.res = 0 /\ usage = acct.com + acct.res
           /\ ~acct.open => acct.com = 0 /\ acct.res = 0
           /\ ~kept => cloud = task.reserved + del.res
           /\ Gone => task.reserved = 0
           /\ Gone /\ ~Removing => Bare
           /\ ~task.in => task.status = "cancelled"
           /\ ~Gone => Found(r)
           /\ res[r].prev.status \in Terminal
           /\ At("sweep") = "idle"
<1>1. r \in Actor /\ At(r) = "window"
  BY Who DEF At
<1>2. /\ running
      /\ \A v \in Worker : At(v) \in {"unused", "over"}
      /\ \A b \in {"create"} \cup Resumer :
            b # r => At(b) \notin {"window", "launch"}
      /\ task.status \in {"pending", "downloading", "cancelled"}
  BY <1>1, Solo
<1>3. /\ acct.res = 0 /\ (~acct.open => acct.com = 0 /\ acct.res = 0)
      /\ ~task.done
  BY <1>1, <1>2 DEF Files, Account, Unmarked
<1>4. /\ usage = acct.com + acct.res
      /\ ~kept => cloud = task.reserved + del.res
      /\ Gone => task.reserved = 0
  BY <1>2 DEF Files, Exact
<1>5. /\ Gone /\ ~Removing => Bare
      /\ ~task.in => task.status = "cancelled"
      /\ ~Gone => Found(r)
  BY <1>1, <1>2 DEF Files, Removed, Resting
<1>6. res[r].prev.status \in Terminal /\ At("sweep") = "idle"
  BY <1>2, Plain DEF CloudInv, Origins
<1> QED  BY <1>1, <1>2, <1>3, <1>4, <1>5, <1>6

\* A resume discards the files and gives back the bytes that went.
LEMMA ResumeForceFiles ==
    ASSUME CloudInv, Clean, Files, Clean', NEW r \in Resumer, ResumeForce(r)
    PROVE  Files'
<1>1. pc[r] = "window" /\ SaveThen(r, "launch")
  BY DEF ResumeForce
<1>2. /\ r \in Actor /\ At(r) = "window" /\ running
      /\ \A v \in Worker : At(v) \in {"unused", "over"}
      /\ \A b \in {"create"} \cup Resumer :
            b # r => At(b) \notin {"window", "launch"}
      /\ task.status \in {"pending", "downloading", "cancelled"}
      /\ ~task.done /\ acct.res = 0 /\ usage = acct.com + acct.res
      /\ ~acct.open => acct.com = 0 /\ acct.res = 0
      /\ ~task.in => task.status = "cancelled"
      /\ At("sweep") = "idle"
  BY <1>1, WindowKnows
<1>3. /\ At(r)' = "launch" /\ \A b \in Actor \ {r} : At(b)' = At(b)
  BY <1>1, <1>2, AtSaveThen
<1>4. /\ \A w \in Worker : At(w)' = At(w)
      /\ At("cancel")' = At("cancel") /\ At("sweep")' = At("sweep")
      /\ At("delete")' = At("delete")
      /\ \A s \in Resumer : At(s)' # "window"
  BY <1>2, <1>3, Who
<1>d. /\ disk'.partial = 0 /\ disk'.dest = 0
      /\ disk.partial \in Nat /\ disk.dest \in Nat
  <2>1. DiskType /\ ~Fault
    BY NoFault DEF CloudInv
  <2>2. PICK p \in {0, disk.partial}, d \in {0, disk.dest} :
           Discarded([disk EXCEPT !.partial = p, !.dest = d])
    BY DEF ResumeForce
  <2>3. disk'.partial = 0 /\ disk'.dest = 0
    BY <2>1, <2>2 DEF Discarded
  <2> QED  BY <2>1, <2>3, DiskIs, Plain
<1> DEFINE n == DiskUsage(disk) - DiskUsage(disk')
           k == IF acct.open THEN Least(n, acct.com) ELSE 0
<1>5. k \in Nat /\ k <= acct.com
  <2>1. n \in Nat /\ acct.com \in Nat
    BY <1>d, Plain DEF DiskUsage
  <2> HIDE DEF n
  <2> QED  BY <2>1 DEF Least
<1>6. acct' = [acct EXCEPT !.com = acct.com - k] /\ usage' = usage - k
  BY DEF ResumeForce
<1> HIDE DEF k
<1>7. /\ acct'.open = acct.open /\ acct'.com = acct.com - k
      /\ acct'.res = acct.res
  BY <1>6 DEF CloudInv, AcctType
<1>8. disk'.partial = 0 /\ disk'.dest = 0
  BY <1>d
<1>9. /\ task' = task /\ cloud' = cloud /\ running' = running /\ del' = del
      /\ cancelFn' = cancelFn /\ item' = item /\ kept' = kept
  BY DEF ResumeForce, ghost
<1>10. (Gone' <=> Gone) /\ (Removing' <=> Removing) /\ Bare'
  BY <1>4, <1>8, <1>9 DEF Gone, Removing, Bare
<1>11. /\ usage - k = (acct.com - k) + acct.res /\ acct.com - k >= 0
       /\ ~acct.open => acct.com - k = 0
  BY <1>2, <1>5, Plain
<1>12. Account'
  BY <1>2, <1>7, <1>11 DEF Account
<1>13. Exact'
  BY <1>2, <1>4, <1>6, <1>7, <1>9, <1>10, <1>11 DEF Files, Exact
<1>14. Tracked'
  BY <1>2, <1>4, <1>9, TrackedIdle
<1>15. Unmarked'
  BY <1>2, <1>9 DEF Unmarked
<1>16. Removed'
  BY <1>2, <1>4, <1>9, <1>10 DEF Files, Removed
<1>17. Resting'
  BY <1>2, <1>4, <1>7, <1>8, <1>9, <1>11 DEF Resting, Rests
<1> QED
  BY <1>12, <1>13, <1>14, <1>15, <1>16, <1>17 DEF Files

\* The tenant has gone: the task is as it was, or is given back.
LEMMA ResumeTenantGoneFiles ==
    ASSUME CloudInv, Clean, Files, NEW r \in Resumer, ResumeTenantGone(r)
    PROVE  Files'
<1>1. pc[r] = "window" /\ UNCHANGED save
  BY DEF ResumeTenantGone
<1>2. /\ r \in Actor /\ At(r) = "window" /\ running
      /\ \A v \in Worker : At(v) \in {"unused", "over"}
      /\ \A b \in {"create"} \cup Resumer :
            b # r => At(b) \notin {"window", "launch"}
      /\ task.status \in {"pending", "downloading", "cancelled"}
      /\ acct.res = 0 /\ usage = acct.com + acct.res
      /\ ~acct.open => acct.com = 0 /\ acct.res = 0
      /\ ~kept => cloud = task.reserved + del.res
      /\ Gone => task.reserved = 0
      /\ Gone /\ ~Removing => Bare
      /\ ~task.in => task.status = "cancelled"
      /\ ~Gone => Found(r)
      /\ res[r].prev.status \in Terminal
  BY <1>1, WindowKnows
<1>3. PICK k \in Nat :
         /\ k = IF task.in /\ task.reserved >= res[r].res
                THEN res[r].res ELSE 0
         /\ cloud' = cloud - k /\ running' = FALSE /\ Goto(r, "idle")
         /\ task'.in = task.in /\ task'.done = task.done
         /\ task'.status = IF task.in /\ task.status = "pending"
                           THEN res[r].prev.status ELSE task.status
         /\ IF ~task.in \/ task'.status = "cancelled"
            THEN ReleaseScope /\ task'.reserved = 0
            ELSE /\ acct' = acct /\ usage' = usage
                 /\ task'.reserved = task.reserved - k
  <2>1. task \in [in : BOOLEAN, status : Status \cup {"none"},
                  submitted : BOOLEAN, done : BOOLEAN,
                  damaged : BOOLEAN, reserved : Nat]
    BY DEF CloudInv, TaskType
  <2>2. res[r].prev.status \in Status /\ res[r].res \in Nat
    BY <1>2, Plain DEF Status, Terminal
  <2>3. Rollback(r, task, res[r].prev.status, res[r].res)
    BY DEF ResumeTenantGone
  <2> QED  BY <2>1, <2>2, <2>3, RollbackExact
<1>4. /\ At(r)' = "idle" /\ \A b \in Actor \ {r} : At(b)' = At(b)
  BY <1>1, <1>2, <1>3, AtGoto
<1>5. /\ disk' = disk /\ cancelFn' = cancelFn /\ del' = del /\ item' = item
      /\ kept' = kept
  BY DEF ResumeTenantGone, ghost
<1>6. task'.status \notin {"none", "pending"}
  BY <1>2, <1>3 DEF Terminal
<1>7. Stops
  <2>1. \A w \in Worker : At(w)' = At(w)
    BY <1>2, <1>4, Who
  <2>2. /\ At("cancel")' = At("cancel") /\ At("sweep")' = At("sweep")
        /\ At("delete")' = At("delete")
        /\ \A a \in {"create"} \cup Resumer :
              At(a)' \notin {"window", "launch"}
    BY <1>2, <1>4, Who
  <2> QED  BY <1>2, <1>3, <1>5, <1>6, <2>1, <2>2 DEF Stops
<1>8. Gone => Gone' /\ k = 0
  <2>1. Gone => Gone'
    BY <1>2, <1>3 DEF Gone
  <2>2. Gone => k = 0
    BY <1>2, <1>3, Plain
  <2> QED  BY <2>1, <2>2
<1>9. ~Gone /\ Gone' => Bare /\ k = task.reserved
  <2> SUFFICES ASSUME ~Gone, Gone' PROVE Bare /\ k = task.reserved
    OBVIOUS
  <2>1. task.in /\ task.status = "pending"
        /\ res[r].prev.status = "cancelled"
    BY <1>3 DEF Gone
  <2>2. Bare /\ task.reserved = res[r].res
    BY <1>2, <2>1 DEF Found
  <2> QED  BY <1>3, <2>1, <2>2, Plain
<1>10. Gone' => /\ ReleaseScope /\ task'.reserved = 0
                /\ k = task.reserved
  BY <1>2, <1>3, <1>8, <1>9 DEF Gone
<1>11. ~Gone' => /\ acct' = acct /\ usage' = usage
                 /\ task'.reserved = task.reserved - k
  BY <1>3 DEF Gone
<1>12. ~kept => cloud' = task'.reserved + del.res
  <2>1. ~kept => cloud - k = (task.reserved - k) + del.res
    BY <1>2, Plain
  <2>2. CASE Gone'
    <3>1. k = task.reserved => cloud - k = cloud - task.reserved
      OBVIOUS
    <3>2. ~kept => cloud - task.reserved = 0 + del.res
      BY <1>2, Plain
    <3> QED  BY <1>3, <1>10, <2>2, <3>2
  <2>3. CASE ~Gone'
    BY <1>3, <1>11, <2>1, <2>3
  <2> QED  BY <2>2, <2>3
<1>13. Gone' => ~acct'.open /\ acct'.com = 0 /\ acct'.res = 0 /\ usage' = 0
  <2> SUFFICES ASSUME Gone' PROVE ~acct'.open /\ acct'.com = 0
                                  /\ acct'.res = 0 /\ usage' = 0
    OBVIOUS
  <2>1. /\ ~acct'.open /\ acct'.com = 0 /\ acct'.res = 0
        /\ usage' = usage - (acct.com + acct.res)
    BY <1>2, <1>10, ReleaseExact
  <2>2. usage - (acct.com + acct.res) = 0
    BY <1>2, Plain
  <2> QED  BY <2>1, <2>2
<1>14. Gone' /\ ~Removing => Bare
  BY <1>2, <1>9
<1>15. At("cancel") = "rm" => task'.status = "cancelled"
  BY <1>3 DEF Files, Removed
<1>16. task.in /\ task'.status = "completed" => FileThere
  <2> SUFFICES ASSUME task.in, task'.status = "completed" PROVE FileThere
    OBVIOUS
  <2>1. task.status = "pending" /\ res[r].prev.status = "completed"
    BY <1>2, <1>3
  <2>2. ~Gone
    BY <2>1 DEF Gone
  <2> QED  BY <1>2, <2>1, <2>2 DEF Found
<1>17. Leaves
  BY <1>8, <1>10, <1>11, <1>12, <1>13, <1>14, <1>15, <1>16 DEF Leaves
<1> QED  BY <1>2, <1>7, <1>17, StopKeeps

\* What has failed or met an unknown request stays so.
LEMMA CleanBefore ==
    ASSUME CloudInv, [Next]_vars, Clean'
    PROVE  Clean
<1>1. faults \in Nat /\ overlap \in BOOLEAN
  BY BoundAssumption DEF CloudInv, CountType, MarkType
<1> DEFINE More == faults' = faults \/ Fault
           Met == overlap' = overlap \/ \E b \in BOOLEAN : Overlaps(b)
<1>2. ASSUME UNCHANGED vars PROVE More /\ Met
  BY <1>2 DEF vars
<1>3. ASSUME NEW w \in Worker, Step(w) \/ ClientGone(w) PROVE More /\ Met
  <2>1. CASE Register(w) \/ Guard(w) \/ MakeDir(w) \/ TryAttempt(w)
    BY <2>1 DEF Register, Guard, MakeDir, TryAttempt, ghost
  <2>2. CASE SendGet(w) \/ OpenPartial(w) \/ FinalizePartial(w)
             \/ WriteBlock(w)
    BY <2>2 DEF SendGet, OpenPartial, FinalizePartial, WriteBlock, ghost
  <2>3. CASE WriteFails(w) \/ AttemptFails(w) \/ LandFile(w) \/ Retry(w)
    BY <2>3 DEF WriteFails, AttemptFails, LandFile, Retry, ghost
  <2>4. CASE CheckDone(w) \/ CheckRetry(w) \/ DownloadDone(w)
             \/ HandOff(w)
    BY <2>4 DEF CheckDone, CheckRetry, DownloadDone, HandOff, ghost
  <2>5. CASE RemoveAbandoned(w) \/ MarkArtifact(w) \/ FailTask(w)
             \/ FailTaskStorageFull(w) \/ FailTaskEnded(w)
             \/ CleanOnFail(w)
    BY <2>5 DEF RemoveAbandoned, MarkArtifact, FailTask,
       FailTaskStorageFull, FailTaskEnded, CleanOnFail, TryRemoveDir, ghost
  <2>6. CASE Finalize(w) \/ FinalizeStorageFull(w) \/ FinalizeAbandoned(w)
             \/ Exit(w) \/ ClientGone(w)
    BY <2>6 DEF Finalize, FinalizeStorageFull, FinalizeAbandoned, Exit,
       ClientGone, ghost
  <2> QED  BY <1>3, <2>1, <2>2, <2>3, <2>4, <2>5, <2>6 DEF Step
<1>4. ASSUME NEW a \in Actor, SaveSnapshot(a) \/ SaveWrite(a)
      PROVE  More /\ Met
  BY <1>4 DEF SaveSnapshot, SaveWrite, ghost
<1>5. ASSUME NEW rs, Meets(rs) PROVE \E b \in BOOLEAN : Overlaps(b)
  <2>1. (\E r \in rs : pc[r] \notin {"idle", "save", "write"}) \in BOOLEAN
    OBVIOUS
  <2> QED  BY <1>5, <2>1 DEF Meets
<1>6. ASSUME NEW r \in Resumer, Resume(r) PROVE More /\ Met
  <2>1. CASE ResumeClaim(r)
    BY <1>5, <2>1 DEF ResumeClaim
  <2>2. CASE ResumeLookup(r) \/ ResumeWait(r) \/ ResumeRefused(r)
             \/ ResumeStorageFull(r) \/ ResumeTenantGone(r)
    BY <2>2 DEF ResumeLookup, ResumeWait, ResumeRefused, ResumeStorageFull,
       ResumeTenantGone, ghost
  <2>3. CASE ResumeKeep(r) \/ ResumeForce(r) \/ ResumeLaunch(r)
    BY <2>3 DEF ResumeKeep, ResumeForce, Discarded, ResumeLaunch, ghost
  <2> QED  BY <1>6, <2>1, <2>2, <2>3 DEF Resume
<1>7. ASSUME CreateTask \/ SubmitLaunch \/ FlushDirty \/ CancelRemove
             \/ DeleteFiles \/ DeleteRecord \/ DeleteRelease
      PROVE  More /\ Met
  BY <1>7 DEF CreateTask, SubmitLaunch, FlushDirty, CancelRemove,
     DeleteFiles, DeleteRecord, DeleteRelease, TryRemoveDir, ghost
<1>8. ASSUME Submit \/ CancelTask \/ DeleteTask PROVE More /\ Met
  BY <1>5, <1>8 DEF Submit, CancelTask, DeleteTask
<1>9. ASSUME SweepCollect PROVE More /\ Met
  <2>1. (running \/ pc["cancel"] = "rm") \in BOOLEAN
    BY DEF CloudInv, MarkType
  <2> QED  BY <1>9, <2>1 DEF SweepCollect
<1>10. ASSUME SweepRecord \/ SweepRemove \/ SweepDrop \/ CrashRestart
       PROVE  More /\ Met
  BY <1>10 DEF SweepRecord, SweepRemove, SweepDrop, CrashRestart,
     TryRemoveDir, ghost
<1>11. More /\ Met
  <2> HIDE DEF More, Met
  <2> QED
    BY <1>2, <1>3, <1>4, <1>6, <1>7, <1>8, <1>9, <1>10 DEF Next
<1>12. faults = 0
  BY <1>1, <1>11 DEF Clean, Fault
<1>13. ~overlap
  <2>1. ~overlap' /\ Met
    BY <1>11 DEF Clean
  <2>2. CASE overlap' = overlap
    BY <2>1, <2>2
  <2>3. CASE \E b \in BOOLEAN : Overlaps(b)
    BY <2>1, <2>3 DEF Overlaps
  <2> QED  BY <2>1, <2>2, <2>3
<1> QED  BY <1>12, <1>13 DEF Clean

-----------------------------------------------------------------------------
(* The files: the theorems.                                                 *)

\* A manager with no task has no file.
LEMMA FilesInit == Init => FileInv
<1> SUFFICES ASSUME Init PROVE Files
  BY DEF FileInv
<1>1. /\ \A w \in Worker : At(w) = "unused"
      /\ \A a \in Request : At(a) = "idle"
  <2>1. \A a \in Actor : pc[a] = IF a \in Worker THEN "unused" ELSE "idle"
    BY DEF Init
  <2>2. /\ \A w \in Worker : w \in Actor
        /\ \A a \in Request : a \in Actor /\ a \notin Worker
    BY Who DEF Actor
  <2> QED  BY <2>1, <2>2 DEF At
<1>2. /\ At("cancel") = "idle" /\ At("delete") = "idle"
      /\ At("sweep") = "idle"
      /\ \A a \in {"create"} \cup Resumer : At(a) = "idle"
  BY <1>1, Who
<1>3. /\ task.in = FALSE /\ task.status = "none" /\ task.reserved = 0
      /\ task.done = FALSE /\ acct.open = FALSE /\ acct.com = 0
      /\ acct.res = 0 /\ disk.partial = 0 /\ disk.dest = 0 /\ del.res = 0
      /\ cloud = 0 /\ usage = 0 /\ ~running /\ cancelFn = NoWorker
  BY DEF Init, EmptyDisk, NoDelete
<1>4. Account /\ Exact
  BY <1>2, <1>3 DEF Account, Exact
<1>5. Tracked
  BY <1>1, <1>3, Who DEF Tracked, Told, Loaded, Landed, Early
<1>6. Unmarked /\ Removed /\ Resting
  BY <1>2, <1>3 DEF Unmarked, Removed, Resting, Rests, Gone, Bare
<1> QED  BY <1>4, <1>5, <1>6 DEF Files

\* A step of the download goroutine keeps files and books together.
LEMMA WorkerFiles ==
    ASSUME CloudInv, Clean, Clean', Files, NEW w \in Worker, Step(w)
    PROVE  Files'
<1>1. CASE Register(w) \/ Guard(w) \/ MakeDir(w) \/ TryAttempt(w)
           \/ SendGet(w) \/ OpenPartial(w)
  BY <1>1, RegisterFiles, GuardFiles, MakeDirFiles, TryAttemptFiles,
     SendGetFiles, OpenPartialFiles
<1>2. CASE FinalizePartial(w) \/ WriteBlock(w) \/ AttemptFails(w)
           \/ LandFile(w) \/ Retry(w) \/ CheckDone(w) \/ CheckRetry(w)
  BY <1>2, FinalizePartialFiles, WriteBlockFiles, AttemptFailsFiles,
     LandFileFiles, RetryFiles, CheckDoneFiles, CheckRetryFiles
<1>3. CASE WriteFails(w)
  BY <1>3, NoFault DEF WriteFails
<1>4. CASE DownloadDone(w) \/ HandOff(w) \/ MarkArtifact(w) \/ FailTask(w)
           \/ FailTaskStorageFull(w)
  BY <1>4, Who, DownloadDoneFiles, LaunchFiles, MarkArtifactFiles,
     FailTaskFiles, FailTaskStorageFullFiles
<1>5. CASE FailTaskEnded(w) \/ FinalizeAbandoned(w) \/ CleanOnFail(w)
           \/ RemoveAbandoned(w) \/ Finalize(w) \/ FinalizeStorageFull(w)
           \/ Exit(w)
  BY <1>5, LeftAloneFiles, RemovesFiles, FinalizeFiles, ExitFiles
<1> QED  BY <1>1, <1>2, <1>3, <1>4, <1>5 DEF Step

\* A step of a resume keeps files and books together.
LEMMA ResumeFiles ==
    ASSUME CloudInv, Clean, Clean', Files, NEW r \in Resumer, Resume(r)
    PROVE  Files'
<1>1. CASE ResumeLookup(r) \/ ResumeWait(r) \/ ResumeRefused(r)
  BY <1>1, ResumeStill, StillKeeps
<1>2. CASE ResumeStorageFull(r) \/ ResumeKeep(r)
  BY <1>2, StorageFullStill, ResumeKeepStill, StillKeeps
<1>3. CASE ResumeClaim(r) \/ ResumeTenantGone(r) \/ ResumeForce(r)
  BY <1>3, ResumeClaimFiles, ResumeTenantGoneFiles, ResumeForceFiles
<1>4. CASE ResumeLaunch(r)
  BY <1>4, Who, LaunchFiles
<1> QED  BY <1>1, <1>2, <1>3, <1>4 DEF Resume

\* Every step keeps files and books together, unless a removal fails, the
\* server crashes, or a removal or sweep meets a request it does not know of.
LEMMA FilesStep == CloudInv /\ FileInv /\ [Next]_vars => FileInv'
<1> SUFFICES ASSUME CloudInv, FileInv, [Next]_vars, Clean' PROVE Files'
  BY DEF FileInv
<1>1. Clean /\ Files
  BY CleanBefore DEF FileInv
<1>2. CASE UNCHANGED vars
  <2>1. Still
    BY <1>2 DEF Still, vars, At
  <2> QED  BY <1>1, <2>1, StillKeeps
<1>3. CASE \E w \in Worker : Step(w) \/ ClientGone(w)
  BY <1>1, <1>3, WorkerFiles, ClientGoneStill, StillKeeps
<1>4. CASE \E a \in Actor : SaveSnapshot(a) \/ SaveWrite(a)
  BY <1>1, <1>4, SnapshotStill, StillKeeps
<1>5. CASE \E r \in Resumer : Resume(r)
  BY <1>1, <1>5, ResumeFiles
<1>6. CASE CreateTask \/ Submit \/ SubmitLaunch \/ FlushDirty
  BY <1>1, <1>6, Who, CreateFiles, SubmitFiles, LaunchFiles, FlushStill,
     StillKeeps
<1>7. CASE CancelTask \/ CancelRemove \/ DeleteTask \/ DeleteFiles
  BY <1>1, <1>7, CancelFiles, RemoveFiles, DeleteFilesKept
<1>8. CASE DeleteRecord \/ DeleteRelease \/ SweepCollect \/ SweepRecord
  BY <1>1, <1>8, RecordStill, StillKeeps, DeleteReleaseFiles,
     SweepCollectFiles
<1>9. CASE SweepRemove \/ SweepDrop
  BY <1>1, <1>9, SweepRemoveFiles, SweepDropFiles
<1>10. CASE CrashRestart
  BY <1>1, <1>10, NoFault DEF CrashRestart
<1> QED
  BY <1>2, <1>3, <1>4, <1>5, <1>6, <1>7, <1>8, <1>9, <1>10 DEF Next

\* As long as no removal fails, nothing crashes and no removal or sweep meets
\* a request it does not know of, both ledgers hold exactly what the task,
\* its goroutine and its DeleteTask can give back, and a file is there when,
\* and only when, somebody answers for it.
THEOREM FilesInvariant == Spec => []FileInv
<1>1. Spec => []CloudInv
  BY CloudInvariant
<1>2. Init => FileInv
  BY FilesInit
<1>3. CloudInv /\ FileInv /\ [Next]_vars => FileInv'
  BY FilesStep
<1> QED  BY <1>1, <1>2, <1>3, PTL DEF Spec

\* What is on disk is booked in the scope of the tenant: the ledger is never
\* below the partial file, nor below the file of a completed task, whatever
\* the order of downloads, cancels, deletes, resumes and sweeps.
THEOREM FilesAreBooked == Spec => []ScopeCoversDisk
<1>1. CloudInv /\ FileInv => ScopeCoversDisk
  <2> SUFFICES ASSUME CloudInv, FileInv, Clean,
                      pc["cancel"] # "rm", pc["delete"] # "rm"
               PROVE  /\ usage >= disk.partial
                      /\ task.in /\ task.status = "completed" =>
                            usage >= DiskUsage(disk)
    BY DEF ScopeCoversDisk, Clean
  <2>1. Files /\ ~Removing
    BY AtPlaces DEF FileInv, Removing
  <2>2. CASE Gone
    <3>1. Bare /\ ~(task.in /\ task.status = "completed")
      BY <2>1, <2>2 DEF Files, Removed, Gone
    <3>2. disk.partial = 0 /\ usage >= 0
      BY <3>1, Plain DEF Bare
    <3> QED  BY <3>1, <3>2
  <2>3. CASE ~Gone
    <3>1. task.in /\ usage = acct.com + acct.res
      BY <2>1, <2>3 DEF Files, Exact, Gone
    <3>2. acct.com >= disk.partial
      BY <2>1, <2>3 DEF Files, Resting
    <3>3. usage >= acct.com
      BY <3>1, Plain
    <3>4. usage >= disk.partial
      BY <3>2, <3>3, Plain
    <3>5. task.status = "completed" => FileThere \/ Bare
      BY <2>1, <3>1 DEF Files, Resting, Rests, Removed
    <3>6. ASSUME FileThere \/ Bare PROVE usage >= DiskUsage(disk)
      BY <3>3, <3>6, Plain, Who DEF FileThere, Bare, DiskUsage
    <3> QED  BY <3>4, <3>5, <3>6
  <2> QED  BY <2>2, <2>3
<1> QED  BY <1>1, CloudInvariant, FilesInvariant, PTL

\* A completed task has its file until a sweep has removed it.
THEOREM CompletedKeepsFile == Spec => []CompletedHasFile
<1>1. CloudInv /\ FileInv => CompletedHasFile
  <2> SUFFICES ASSUME CloudInv, FileInv, Clean, task.in,
                      task.status = "completed", pc["sweep"] # "drop"
               PROVE  disk.dest = FileSize
    BY DEF CompletedHasFile, Clean
  <2>1. Rests
    BY AtPlaces DEF Rests
  <2> QED  BY <2>1 DEF FileInv, Files, Resting, FileThere
<1> QED  BY <1>1, CloudInvariant, FilesInvariant, PTL

\* Once all is quiet, a task that was cancelled, deleted or swept has no
\* file, holds nothing of the scope and, unless DeleteTask found its
\* directory again, nothing of the cloud ledger.
THEOREM AbandonedHoldsNothing == Spec => []AbandonedIsFree
<1>1. CloudInv /\ FileInv => AbandonedIsFree
  <2> SUFFICES ASSUME CloudInv, FileInv, Clean, Live = {}, Gone,
                      \A a \in Request : pc[a] \in {"idle", "over"}
               PROVE  /\ usage = 0 /\ (cloud = 0 \/ kept)
                      /\ DiskUsage(disk) = 0
    BY DEF AbandonedIsFree, Clean, Gone
  <2>1. Files
    BY DEF FileInv
  <2>2. ~running
    <3>1. \A a \in Actor : ~Holds(a)
      BY Who DEF Holds, Launching, Live
    <3> QED  BY <3>1 DEF CloudInv, Lock
  <2>3. ~Removing /\ At("delete") = "idle" /\ del.res = 0
    <3>1. /\ pc["cancel"] \in {"idle", "over"}
          /\ pc["delete"] \in {"idle", "over"}
      BY Who
    <3>2. At("delete") = "idle" /\ At("cancel") # "rm"
      BY <3>1, AtPlaces DEF CloudInv, Places
    <3> QED  BY <3>2, Plain DEF Removing
  <2>4. Bare /\ task.reserved = 0 /\ (~kept => cloud = 0 + 0)
    BY <2>1, <2>3 DEF Files, Removed, Exact
  <2>5. usage = 0
    <3>1. CASE task.in
      <4>1. ~acct.open
        BY <2>2, <3>1, Plain DEF Gone
      <4>2. acct.com = 0 /\ acct.res = 0 /\ usage = acct.com + acct.res
        BY <2>1, <3>1, <4>1 DEF Files, Account, Exact
      <4> QED  BY <4>2
    <3>2. CASE ~task.in
      BY <2>1, <2>2, <2>3, <3>2 DEF Files, Exact
    <3> QED  BY <3>1, <3>2
  <2> QED  BY <2>4, <2>5 DEF Bare, DiskUsage
<1> QED  BY <1>1, CloudInvariant, FilesInvariant, PTL
=============================================================================

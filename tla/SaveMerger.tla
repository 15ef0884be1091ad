----------------------------- MODULE SaveMerger -----------------------------
(***************************************************************************)
(* The write-behind ledgers of pkg/checksum and the merger that decides    *)
(* when they are saved (internal/savemerger).  A change is made in memory  *)
(* and marked; one save of the whole ledger follows within a window, from  *)
(* a timer, an explicit Flush or Close.  Saves may overlap, may fail, and  *)
(* the process may crash between any two steps.                            *)
(*                                                                         *)
(* Saves are snapshots of the whole map, so a ledger is seen as the number *)
(* of changes it contains.  Two backends: ChecksumStore holds saveMu from  *)
(* its snapshot to the rename of the file (Serialised is TRUE);            *)
(* StateBackedChecksumStore writes its snapshot to a StateStore and holds  *)
(* no lock meanwhile.                                                      *)
(***************************************************************************)
EXTENDS Integers, FiniteSets

CONSTANTS
    Writer,     \* goroutines that change the ledger
    Flusher,    \* goroutines that may be inside a save at the same time
    None,       \* saveMu is free
    Serialised, \* the backend holds saveMu across snapshot and write
    MaxChanges, \* bound: changes
    MaxFails,   \* bound: writes of the backend that fail
    MaxCrashes  \* bound: crashes

ASSUME MergerAssumption ==
    /\ IsFiniteSet(Writer) /\ None \notin Flusher
    /\ Serialised \in BOOLEAN
    /\ MaxChanges \in Nat /\ MaxFails \in Nat /\ MaxCrashes \in Nat

VARIABLES
    mem,        \* changes contained in the map in memory
    disk,       \* changes contained in what the backend stores
    base,       \* changes contained in what the process loaded at its start
    dirty,      \* changes marked by this process
    saved,      \* the value of dirty the last finished save was made for
    timer,      \* the merger's timer field: an id, or 0 for nil
    ticking,    \* timers that have neither fired nor been stopped
    closed,
    saveMu,
    writing,    \* where each writer is
    flush,      \* where each flusher is
    gaveUp,     \* history: a save failed and no change was marked since
    fails, crashes

counts == <<mem, base, dirty>>
timers == <<timer, ticking>>
bounds == <<fails, crashes>>
vars == <<counts, disk, saved, timers, closed, saveMu, writing,
          flush, gaveUp, bounds>>

\* A save: where it is, who runs it, the changes marked when it was asked
\* for, the generation it loaded, its snapshot and whether it is a retry.
Rest == [at |-> "idle", by |-> "none", goal |-> 0, gen |-> 0, snap |-> 0,
         retry |-> FALSE]

\* A process arms at most one timer for every change.
Timer == 1..MaxChanges

Init ==
    /\ mem = 0 /\ disk = 0 /\ base = 0 /\ dirty = 0 /\ saved = 0
    /\ timer = 0 /\ ticking = {}
    /\ closed = FALSE /\ saveMu = None
    /\ writing = [w \in Writer |-> "idle"]
    /\ flush = [f \in Flusher |-> Rest]
    /\ gaveUp = FALSE /\ fails = 0 /\ crashes = 0

-----------------------------------------------------------------------------
(* Set, Delete, Rename and the other changes: the map, then Mark.           *)

Change(w) ==
    /\ writing[w] = "idle" /\ mem < MaxChanges
    /\ mem' = mem + 1
    /\ writing' = [writing EXCEPT ![w] = "mark"]
    /\ UNCHANGED <<base, dirty, disk, saved, timers, closed, saveMu, flush,
                   gaveUp, bounds>>

MarkDirty(w) ==
    /\ writing[w] = "mark"
    /\ dirty' = dirty + 1
    /\ writing' = [writing EXCEPT ![w] = "arm"]
    /\ UNCHANGED <<mem, base, disk, saved, timers, closed, saveMu, flush,
                   gaveUp, bounds>>

\* The critical section of Mark: one timer per window.
MarkArm(w) ==
    /\ writing[w] = "arm"
    /\ writing' = [writing EXCEPT ![w] = "idle"]
    /\ IF closed \/ timer # 0
       THEN UNCHANGED timers
       ELSE /\ timer' = CHOOSE t \in Timer : t \notin ticking
            /\ ticking' = ticking \cup {timer'}
    /\ gaveUp' = FALSE
    /\ UNCHANGED <<counts, disk, saved, closed, saveMu, flush, bounds>>

-----------------------------------------------------------------------------
(* The three ways into a save.                                              *)

Enter(f, at, by) ==
    /\ flush[f] = Rest
    /\ flush' = [flush EXCEPT ![f] = [Rest EXCEPT !.at = at, !.by = by,
                                                  !.goal = dirty]]

\* A timer fires: its callback runs in a goroutine of its own.
Fire(f, t) ==
    /\ t \in ticking /\ ticking' = ticking \ {t}
    /\ Enter(f, "fired", "timer")
    /\ UNCHANGED <<counts, disk, saved, timer, closed, saveMu, writing,
                   gaveUp, bounds>>

\* Mutant: the timer field is left set after the timer has fired.
FlushPending_KeepsTimer(f) ==
    /\ flush[f].at = "fired"
    /\ timer' = timer
    /\ flush' = [flush EXCEPT ![f] = IF closed THEN Rest
                                     ELSE [@ EXCEPT !.at = "load"]]
    /\ UNCHANGED <<counts, disk, saved, ticking, closed, saveMu,
                   writing, gaveUp, bounds>>

\* flushPending: forget the timer, and save unless closed.
FlushPending(f) ==
    /\ flush[f].at = "fired"
    /\ timer' = 0
    /\ flush' = [flush EXCEPT ![f] = IF closed THEN Rest
                                     ELSE [@ EXCEPT !.at = "load"]]
    /\ UNCHANGED <<counts, disk, saved, ticking, closed, saveMu,
                   writing, gaveUp, bounds>>

\* Flush: stop the timer of the field, unless it has fired.  On a closed
\* merger Flush does nothing.
Flush(f) ==
    /\ ~closed
    /\ timer' = 0 /\ ticking' = ticking \ {timer}
    /\ Enter(f, "load", "flush")
    /\ UNCHANGED <<counts, disk, saved, closed, saveMu, writing,
                   gaveUp, bounds>>

\* The first Close; later ones do nothing.
Close(f) ==
    /\ ~closed /\ closed' = TRUE
    /\ timer' = 0 /\ ticking' = ticking \ {timer}
    /\ Enter(f, "load", "close")
    /\ UNCHANGED <<counts, disk, saved, saveMu, writing, gaveUp,
                   bounds>>

-----------------------------------------------------------------------------
(* flushOnce, with the save of the backend inside.                          *)

LoadDirty(f) ==
    /\ flush[f].at = "load"
    /\ flush' = [flush EXCEPT ![f].at = "test", ![f].gen = dirty]
    /\ UNCHANGED <<counts, disk, saved, timers, closed, saveMu, writing,
                   gaveUp, bounds>>

\* Mutant: off by one.
TestSaved_OffByOne(f) ==
    /\ flush[f].at = "test"
    /\ flush' = [flush EXCEPT ![f].at = IF flush[f].gen <= saved + 1
                                        THEN "ok" ELSE "snapshot"]
    /\ UNCHANGED <<counts, disk, saved, timers, closed, saveMu, writing,
                   gaveUp, bounds>>

TestSaved(f) ==
    /\ flush[f].at = "test"
    /\ flush' = [flush EXCEPT ![f].at = IF flush[f].gen <= saved
                                        THEN "ok" ELSE "snapshot"]
    /\ UNCHANGED <<counts, disk, saved, timers, closed, saveMu, writing,
                   gaveUp, bounds>>

\* Mutant: the snapshot is taken before saveMu.
Snapshot_Unlocked(f) ==
    /\ flush[f].at = "snapshot"
    /\ flush' = [flush EXCEPT ![f].at = "write", ![f].snap = mem]
    /\ UNCHANGED <<counts, disk, saved, timers, closed, saveMu, writing,
                   gaveUp, bounds>>

\* save: the copy of the map, under saveMu where there is one.
Snapshot(f) ==
    /\ flush[f].at = "snapshot"
    /\ IF Serialised THEN saveMu = None /\ saveMu' = f ELSE UNCHANGED saveMu
    /\ flush' = [flush EXCEPT ![f].at = "write", ![f].snap = mem]
    /\ UNCHANGED <<counts, disk, saved, timers, closed, writing, gaveUp,
                   bounds>>

Unlock == saveMu' = IF Serialised THEN None ELSE saveMu

\* The rename of the temporary file, or the Put, takes effect.
Write(f) ==
    /\ flush[f].at = "write"
    /\ disk' = flush[f].snap
    /\ Unlock
    /\ flush' = [flush EXCEPT ![f].at = "store"]
    /\ UNCHANGED <<counts, saved, timers, closed, writing, gaveUp, bounds>>

\* The write fails before that.  flushPending tries once more; Flush and
\* Close return the error.
WriteFails(f) ==
    /\ flush[f].at = "write" /\ fails < MaxFails
    /\ fails' = fails + 1
    /\ Unlock
    /\ IF flush[f].by = "timer" /\ ~flush[f].retry
       THEN /\ flush' = [flush EXCEPT ![f].at = "load", ![f].retry = TRUE]
            /\ UNCHANGED gaveUp
       ELSE /\ flush' = [flush EXCEPT ![f] = Rest]
            /\ gaveUp' = TRUE
    /\ UNCHANGED <<counts, disk, saved, timers, closed, writing, crashes>>

\* Mutant: everything marked by now counts as saved.
StoreSaved_Now(f) ==
    /\ flush[f].at = "store"
    /\ saved' = dirty
    /\ flush' = [flush EXCEPT ![f].at = "ok"]
    /\ UNCHANGED <<counts, disk, timers, closed, saveMu, writing, gaveUp,
                   bounds>>

StoreSaved(f) ==
    /\ flush[f].at = "store"
    /\ saved' = flush[f].gen
    /\ flush' = [flush EXCEPT ![f].at = "ok"]
    /\ UNCHANGED <<counts, disk, timers, closed, saveMu, writing, gaveUp,
                   bounds>>

\* The save returns nil to its caller.
Return(f) ==
    /\ flush[f].at = "ok"
    /\ flush' = [flush EXCEPT ![f] = Rest]
    /\ UNCHANGED <<counts, disk, saved, timers, closed, saveMu, writing,
                   gaveUp, bounds>>

\* The process dies; the next one loads what the backend has.
Crash ==
    /\ crashes < MaxCrashes
    /\ crashes' = crashes + 1
    /\ mem' = disk /\ base' = disk /\ dirty' = 0 /\ saved' = 0
    /\ timer' = 0 /\ ticking' = {} /\ closed' = FALSE /\ saveMu' = None
    /\ writing' = [w \in Writer |-> "idle"]
    /\ flush' = [f \in Flusher |-> Rest]
    /\ gaveUp' = FALSE
    /\ UNCHANGED <<disk, fails>>

-----------------------------------------------------------------------------
Marking(w) == MarkDirty(w) \/ MarkArm(w)

Saving(f) ==
    \/ FlushPending(f) \/ LoadDirty(f) \/ TestSaved(f) \/ Snapshot(f)
    \/ Write(f) \/ WriteFails(f) \/ StoreSaved(f) \/ Return(f)

Next ==
    \/ \E w \in Writer : Change(w) \/ Marking(w)
    \/ \E f \in Flusher : Saving(f) \/ Flush(f) \/ Close(f)
    \/ \E f \in Flusher, t \in ticking : Fire(f, t)
    \/ Crash

Spec == Init /\ [][Next]_vars

\* Goroutines inside an operation are scheduled and timers fire.
FairSpec ==
    /\ Spec
    /\ \A w \in Writer : WF_vars(Marking(w))
    /\ \A f \in Flusher : SF_vars(Saving(f))
    /\ SF_vars(\E f \in Flusher, t \in ticking : Fire(f, t))

-----------------------------------------------------------------------------
TypeOK ==
    /\ closed \in BOOLEAN /\ gaveUp \in BOOLEAN
    /\ mem \in Nat /\ disk \in 0..mem /\ base \in Nat
    /\ dirty \in Nat /\ saved \in 0..dirty
    /\ timer \in {0} \cup Timer /\ ticking \subseteq Timer
    /\ saveMu \in Flusher \cup {None}
    /\ writing \in [Writer -> {"idle", "mark", "arm"}]
    /\ flush \in [Flusher ->
                    [at : {"idle", "fired", "load", "test", "snapshot",
                           "write", "store", "ok"},
                     by : {"none", "timer", "flush", "close"},
                     goal : Nat, gen : Nat, snap : Nat, retry : BOOLEAN]]
    /\ fails \in Nat /\ crashes \in Nat

\* What the merger believes to be saved is stored: a crash loses no change
\* of a generation it has recorded (savemerger.go:35-36).
SavedIsStored == disk >= base + saved

\* When Flush, or the final save of Close, returns nil, every change marked
\* before the call is stored, whatever other saves were under way
\* (savemerger.go:11 and 98, 113).
ReturnedIsStored ==
    \A f \in Flusher : flush[f].at = "ok" => disk >= base + flush[f].goal

\* With saveMu the stored ledger never goes back to an older one.
StoredNeverShrinks == [][disk' >= disk]_vars

\* Every change is stored sooner or later, without Flush and without
\* Close, as long as saves do not fail for good (savemerger.go:8-10, 20).
StoredEventually ==
    (mem > disk) ~> (mem = disk \/ gaveUp \/ closed)
=============================================================================

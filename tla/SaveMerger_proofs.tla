-------------------------- MODULE SaveMerger_proofs --------------------------
(***************************************************************************)
(* Proofs about SaveMerger for a backend that holds saveMu across its      *)
(* snapshot and its write, for every number of writers, flushers, changes, *)
(* failures and crashes.                                                   *)
(***************************************************************************)
EXTENDS SaveMerger, FiniteSetTheorems, TLAPS

\* Writers that have changed the map and not yet counted the change.
Unmarked == {w \in Writer : writing[w] = "mark"}

Places == {"idle", "fired", "load", "test", "snapshot", "write", "store", "ok"}

Saves == [at : Places, by : {"none", "timer", "flush", "close"},
          goal : Nat, gen : Nat, snap : Nat, retry : BOOLEAN]

\* The types the argument needs.
Types ==
    /\ mem \in Nat /\ disk \in Nat /\ base \in Nat
    /\ dirty \in Nat /\ saved \in Nat
    /\ writing \in [Writer -> {"idle", "mark", "arm"}]
    /\ flush \in [Flusher -> Saves]

\* Every change in memory was loaded, or is marked, or is about to be.
Counted == mem = base + dirty + Cardinality(Unmarked)

\* What a save knows at each of its places.
SaveKnows(f) ==
    /\ flush[f].goal <= dirty
    /\ flush[f].at \in {"test", "snapshot", "write", "store", "ok"} =>
         /\ flush[f].goal <= flush[f].gen
         /\ flush[f].gen <= dirty
    /\ flush[f].at = "write" =>
         /\ saveMu = f
         /\ base + flush[f].gen <= flush[f].snap
         /\ disk <= flush[f].snap
         /\ flush[f].snap <= mem
    /\ flush[f].at = "store" => base + flush[f].gen <= disk
    /\ flush[f].at = "ok" => base + flush[f].goal <= disk

SaveInv ==
    /\ Types
    /\ Counted
    /\ disk <= mem
    /\ saved <= dirty
    /\ base + saved <= disk
    /\ \A f \in Flusher : SaveKnows(f)

-----------------------------------------------------------------------------
(* The changes that are not yet marked.                                     *)

\* The writers between their change and its mark are finitely many.
LEMMA UnmarkedFinite == IsFiniteSet(Unmarked) /\ Cardinality(Unmarked) \in Nat
BY MergerAssumption, FS_Subset, FS_CardinalityType DEF Unmarked

\* A change adds its writer to the ones that have yet to mark.
LEMMA ChangeCounts ==
    ASSUME NEW w \in Writer, Types, Change(w)
    PROVE  Cardinality(Unmarked') = Cardinality(Unmarked) + 1
<1>1. Unmarked' = Unmarked \cup {w} /\ w \notin Unmarked
  BY DEF Unmarked, Types, Change
<1> QED  BY <1>1, UnmarkedFinite, FS_AddElement

\* The mark of a writer removes it from them.
LEMMA MarkCounts ==
    ASSUME NEW w \in Writer, Types, MarkDirty(w)
    PROVE  Cardinality(Unmarked') = Cardinality(Unmarked) - 1
<1>1. Unmarked' = Unmarked \ {w} /\ w \in Unmarked
  BY DEF Unmarked, Types, MarkDirty
<1> QED  BY <1>1, UnmarkedFinite, FS_RemoveElement

\* What is marked is in memory.
LEMMA MarkedInMemory == SaveInv => base + dirty <= mem
BY UnmarkedFinite DEF SaveInv, Types, Counted

-----------------------------------------------------------------------------
(* The invariant, one action at a time.                                     *)

\* A new ledger and a new merger satisfy the invariant.
LEMMA SaveInit == Init => SaveInv
<1> SUFFICES ASSUME Init PROVE SaveInv
  OBVIOUS
<1>1. Unmarked = {} /\ Cardinality(Unmarked) = 0
  BY FS_EmptySet DEF Init, Unmarked
<1> QED  BY <1>1 DEF Init, SaveInv, Types, Counted, SaveKnows, Rest, Saves, Places

\* Set and the other changes, up to Mark.
LEMMA ChangeStep ==
    ASSUME NEW w \in Writer, SaveInv, Change(w)
    PROVE  SaveInv'
<1>1. Cardinality(Unmarked') = Cardinality(Unmarked) + 1
  BY ChangeCounts DEF SaveInv
<1>2. Cardinality(Unmarked) \in Nat
  BY UnmarkedFinite
<1>3. Counted'
  BY <1>1, <1>2 DEF SaveInv, Types, Counted, Change
<1> QED  BY <1>3 DEF SaveInv, Types, SaveKnows, Change, Saves

\* Mark: the generation counter.
LEMMA MarkDirtyStep ==
    ASSUME NEW w \in Writer, SaveInv, MarkDirty(w)
    PROVE  SaveInv'
<1>1. Cardinality(Unmarked') = Cardinality(Unmarked) - 1
  BY MarkCounts DEF SaveInv
<1>2. Cardinality(Unmarked) \in Nat
  BY UnmarkedFinite
<1>3. Counted'
  BY <1>1, <1>2 DEF SaveInv, Types, Counted, MarkDirty
<1> QED  BY <1>3 DEF SaveInv, Types, SaveKnows, MarkDirty, Saves

\* Mark: the timer.
LEMMA MarkArmStep ==
    ASSUME NEW w \in Writer, SaveInv, MarkArm(w)
    PROVE  SaveInv'
<1>1. Unmarked' = Unmarked
  BY DEF SaveInv, Types, Unmarked, MarkArm, counts
<1> QED
  BY <1>1 DEF SaveInv, Types, Counted, SaveKnows, MarkArm, counts, Saves

\* A timer, Flush or Close begins a save; flushPending goes on or ends.
LEMMA BeginStep ==
    ASSUME NEW f \in Flusher, SaveInv,
           \/ \E t \in ticking : Fire(f, t)
           \/ Flush(f) \/ Close(f) \/ FlushPending(f)
    PROVE  SaveInv'
<1>1. Unmarked' = Unmarked
  BY DEF Unmarked, Fire, Flush, Close, FlushPending
<1>2. CASE (\E t \in ticking : Fire(f, t)) \/ Flush(f) \/ Close(f)
  <2>1. PICK at \in {"fired", "load"}, by \in {"timer", "flush", "close"} :
          flush' = [flush EXCEPT ![f] = [Rest EXCEPT !.at = at, !.by = by,
                                                     !.goal = dirty]]
    BY <1>2 DEF Fire, Flush, Close, Enter
  <2>2. UNCHANGED <<mem, base, dirty, disk, saved, saveMu, writing>>
    BY <1>2 DEF Fire, Flush, Close, counts
  <2>3. Types'
    BY <2>1, <2>2 DEF SaveInv, Types, Rest, Saves, Places
  <2>4. \A g \in Flusher : SaveKnows(g)'
    BY <2>1, <2>2 DEF SaveInv, Types, SaveKnows, Rest, Saves
  <2> QED  BY <1>1, <2>2, <2>3, <2>4 DEF SaveInv, Counted
<1>3. CASE FlushPending(f)
  BY <1>1, <1>3 DEF SaveInv, Types, Counted, SaveKnows, FlushPending,
     Rest, counts, Saves, Places
<1> QED  BY <1>2, <1>3

\* flushOnce up to the decision to save.
LEMMA DecideStep ==
    ASSUME NEW f \in Flusher, SaveInv, LoadDirty(f) \/ TestSaved(f)
    PROVE  SaveInv'
<1>1. Unmarked' = Unmarked
  BY DEF Unmarked, LoadDirty, TestSaved
<1>2. CASE LoadDirty(f)
  <2>1. UNCHANGED <<mem, base, dirty, disk, saved, saveMu, writing>>
    BY <1>2 DEF LoadDirty, counts
  <2>2. Types'
    BY <1>2, <2>1 DEF SaveInv, Types, LoadDirty, Saves, Places
  <2>3. \A g \in Flusher : SaveKnows(g)'
    BY <1>2, <2>1 DEF SaveInv, Types, SaveKnows, LoadDirty, Saves
  <2> QED  BY <1>1, <2>1, <2>2, <2>3 DEF SaveInv, Counted
<1>3. CASE TestSaved(f)
  <2>1. UNCHANGED <<mem, base, dirty, disk, saved, saveMu, writing>>
    BY <1>3 DEF TestSaved, counts
  <2>2. Types'
    BY <1>3, <2>1 DEF SaveInv, Types, TestSaved, Saves, Places
  <2>3. SaveKnows(f)'
    BY <1>3, <2>1 DEF SaveInv, Types, SaveKnows, TestSaved, Saves
  <2>4. \A g \in Flusher \ {f} : SaveKnows(g)'
    BY <1>3, <2>1 DEF SaveInv, Types, SaveKnows, TestSaved
  <2> QED  BY <1>1, <2>1, <2>2, <2>3, <2>4 DEF SaveInv, Counted
<1> QED  BY <1>2, <1>3

\* The snapshot contains every change of the generation, and is at least
\* as new as what is stored; saveMu keeps it so.
LEMMA SnapshotStep ==
    ASSUME NEW f \in Flusher, SaveInv, Serialised, Snapshot(f)
    PROVE  SaveInv'
<1>1. Unmarked' = Unmarked
  BY DEF Unmarked, Snapshot
<1>2. base + dirty <= mem
  BY MarkedInMemory
<1>3. \A g \in Flusher : flush[g].at # "write"
  BY MergerAssumption DEF SaveInv, SaveKnows, Snapshot
<1>4. UNCHANGED <<mem, base, dirty, disk, saved, writing>> /\ saveMu' = f
  BY DEF Snapshot, counts
<1>5. Types'
  BY <1>4 DEF SaveInv, Types, Snapshot, Saves, Places
<1>6. SaveKnows(f)'
  BY <1>2, <1>4 DEF SaveInv, Types, SaveKnows, Snapshot, Saves
<1>7. \A g \in Flusher \ {f} : SaveKnows(g)'
  BY <1>3, <1>4 DEF SaveInv, Types, SaveKnows, Snapshot
<1> QED  BY <1>1, <1>4, <1>5, <1>6, <1>7 DEF SaveInv, Counted

\* A write stores no less than was stored, so what other saves know of the
\* stored ledger stays true.
LEMMA WriteStep ==
    ASSUME NEW f \in Flusher, SaveInv, Serialised, Write(f) \/ WriteFails(f)
    PROVE  SaveInv' /\ disk <= disk'
<1>1. Unmarked' = Unmarked
  BY DEF Unmarked, Write, WriteFails
<1>2. \A g \in Flusher \ {f} : flush[g].at # "write"
  BY DEF SaveInv, SaveKnows, Write, WriteFails
<1>3. CASE Write(f)
  BY <1>1, <1>2, <1>3 DEF SaveInv, Types, Counted, SaveKnows, Write, counts,
     Saves, Places
<1>4. CASE WriteFails(f)
  <2>1. UNCHANGED <<mem, base, dirty, disk, saved, writing>>
    BY <1>4 DEF WriteFails, counts
  <2>2. \/ flush' = [flush EXCEPT ![f].at = "load", ![f].retry = TRUE]
        \/ flush' = [flush EXCEPT ![f] = Rest]
    BY <1>4 DEF WriteFails
  <2>3. Types'
    <3>1. Rest \in Saves
      BY DEF Rest, Saves, Places
    <3>2. [flush[f] EXCEPT !.at = "load", !.retry = TRUE] \in Saves
      BY DEF SaveInv, Types, Saves, Places
    <3> QED  BY <2>1, <2>2, <3>1, <3>2 DEF SaveInv, Types
  <2>4. SaveKnows(f)'
    BY <2>1, <2>2 DEF SaveInv, Types, SaveKnows, Rest, Saves
  <2>5. \A g \in Flusher \ {f} : SaveKnows(g)'
    BY <1>2, <2>1, <2>2 DEF SaveInv, Types, SaveKnows
  <2> QED  BY <1>1, <2>1, <2>3, <2>4, <2>5 DEF SaveInv, Types, Counted
<1> QED  BY <1>3, <1>4

\* The generation is recorded and the save returns.
LEMMA FinishStep ==
    ASSUME NEW f \in Flusher, SaveInv, StoreSaved(f) \/ Return(f)
    PROVE  SaveInv'
<1>1. Unmarked' = Unmarked
  BY DEF Unmarked, StoreSaved, Return
<1>2. CASE StoreSaved(f)
  BY <1>1, <1>2 DEF SaveInv, Types, Counted, SaveKnows, StoreSaved, counts,
     Saves, Places
<1>3. CASE Return(f)
  BY <1>1, <1>3 DEF SaveInv, Types, Counted, SaveKnows, Return, counts,
     Rest, Saves, Places
<1> QED  BY <1>2, <1>3

\* A crash: the next process counts from what it loads.
LEMMA CrashStep == SaveInv /\ Crash => SaveInv'
<1> SUFFICES ASSUME SaveInv, Crash PROVE SaveInv'
  OBVIOUS
<1>1. Unmarked' = {} /\ Cardinality(Unmarked') = 0
  BY FS_EmptySet DEF Crash, Unmarked
<1> QED
  BY <1>1 DEF SaveInv, Types, Counted, SaveKnows, Crash, Rest, Saves, Places

\* Every step keeps the invariant and stores no less than before.
LEMMA SaveStep ==
    ASSUME Serialised, SaveInv, [Next]_vars
    PROVE  SaveInv' /\ disk <= disk'
<1>1. ASSUME NEW w \in Writer, Change(w) \/ Marking(w)
      PROVE  SaveInv' /\ disk <= disk'
  <2>1. disk' = disk
    BY <1>1 DEF Marking, Change, MarkDirty, MarkArm
  <2> QED
    BY <1>1, <2>1, ChangeStep, MarkDirtyStep, MarkArmStep
       DEF Marking, SaveInv, Types
<1>2. ASSUME NEW f \in Flusher,
             \/ (\E t \in ticking : Fire(f, t)) \/ Flush(f) \/ Close(f)
             \/ FlushPending(f) \/ LoadDirty(f) \/ TestSaved(f)
             \/ StoreSaved(f) \/ Return(f)
      PROVE  SaveInv' /\ disk <= disk'
  <2>1. disk' = disk
    BY <1>2 DEF Fire, Flush, Close, FlushPending, LoadDirty, TestSaved,
       StoreSaved, Return
  <2> QED  BY <1>2, <2>1, BeginStep, DecideStep, FinishStep DEF SaveInv, Types
<1>3. ASSUME NEW f \in Flusher, Snapshot(f) \/ Write(f) \/ WriteFails(f)
      PROVE  SaveInv' /\ disk <= disk'
  BY <1>3, SnapshotStep, WriteStep DEF Snapshot, SaveInv, Types
<1>4. CASE Crash
  BY <1>4, CrashStep DEF Crash, SaveInv, Types
<1>5. CASE UNCHANGED vars
  <2>1. Unmarked' = Unmarked
    BY <1>5 DEF vars, Unmarked
  <2> QED
    BY <1>5, <2>1 DEF vars, counts, SaveInv, Types, Counted, SaveKnows
<1> QED  BY <1>1, <1>2, <1>3, <1>4, <1>5 DEF Next, Saving

-----------------------------------------------------------------------------
\* The inductive invariant holds in every reachable state of a merger over
\* a backend that serialises its saves.
THEOREM SaveInvariant ==
    ASSUME Serialised PROVE Spec => []SaveInv
<1>1. SaveInv /\ [Next]_vars => SaveInv'
  BY SaveStep
<1> QED  BY SaveInit, <1>1, PTL DEF Spec

\* flushOnce records a generation only when all its changes are stored
\* (savemerger.go:93), however saves overlap, fail or are cut short.
THEOREM SavedStored ==
    ASSUME Serialised PROVE Spec => []SavedIsStored
<1>1. SaveInv => SavedIsStored
  BY DEF SaveInv, Types, SavedIsStored
<1> QED  BY SaveInvariant, <1>1, PTL

\* A Flush or Close that returns nil has stored every change marked before
\* it was called (savemerger.go:98-126).
THEOREM ReturnedStored ==
    ASSUME Serialised PROVE Spec => []ReturnedIsStored
<1>1. SaveInv => ReturnedIsStored
  BY DEF SaveInv, Types, SaveKnows, Saves, ReturnedIsStored
<1> QED  BY SaveInvariant, <1>1, PTL

\* No step replaces the stored ledger by an older one (store.go:435-437).
THEOREM StoredGrows ==
    ASSUME Serialised PROVE Spec => StoredNeverShrinks
<1>1. SaveInv /\ [Next]_vars => [disk' >= disk]_vars
  BY SaveStep DEF SaveInv, Types
<1> QED  BY SaveInvariant, <1>1, PTL DEF Spec, StoredNeverShrinks
=============================================================================

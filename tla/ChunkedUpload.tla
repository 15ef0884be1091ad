--------------------------- MODULE ChunkedUpload ---------------------------
(***************************************************************************)
(* Chunked uploads (pkg/files/chunked_upload.go and chunked_store.go) seen *)
(* through one upload id.  Clients derive the id from the file, so the id  *)
(* of a session that expired, failed or finished is used again, with the   *)
(* same session directory, the same in-flight file name and the same entry *)
(* in the lock table: every registration of the id gets a new generation.  *)
(*                                                                         *)
(* A request is a goroutine that alternates critical sections of us.mu     *)
(* with file operations; each is one action.  Beside the requests run the  *)
(* sweep of expired sessions, the writer of session.json, the clean-up     *)
(* that follows a finished upload, and crashes with the recovery of        *)
(* NewUploadStore.                                                         *)
(*                                                                         *)
(* The bytes of a chunk are "good" (those of the declared file), "bad", or *)
(* "none" (never written); a SHA-256 sum is the value it was taken of.     *)
(***************************************************************************)
EXTENDS Integers, FiniteSets

CONSTANTS
    Client,       \* goroutines that serve requests for the upload id
    NoClient,     \* the file lock of the target is free
    Chunk,        \* chunk indices
    MaxGen,       \* bound: registrations of the id
    MaxFaults,    \* bound: sessions that reach their TTL, and crashes
    MayCrash      \* the process may crash

ASSUME UploadAssumption ==
    /\ IsFiniteSet(Chunk) /\ Chunk # {} /\ NoClient \notin Client
    /\ MaxGen \in Nat /\ MaxFaults \in Nat /\ MayCrash \in BOOLEAN

VARIABLES
    cur,       \* the generation registered in us.sessions, 0 when there is none
    gens,      \* registrations so far (us.nextGen)
    obj,       \* the session objects, by generation
    resv,      \* what became of the space each generation reserved
    epoch,     \* the lock object the lock table has for the id
    rel,       \* who holds the file lock of the target
    temp,      \* the in-flight file: the generation that created it, 0 if none
    final,     \* the file at the target: as temp
    bytes,     \* the content of the files, by the generation that created them
    dir,       \* session.json in the session directory, NoDir if none
    side,      \* the sums in the chunk-<i>.sha256 files of that directory
    req,       \* where each request is
    sweep,     \* where CleanupExpired is
    queue,     \* a session is queued in persistCh
    pers,      \* where persistSession is
    later,     \* generations CleanupSessionAfter waits to remove
    overlap,   \* history: the id was taken over under requests of an older one
    abandoned, \* history: generations whose init failed after they were removed
    faults     \* expiries and crashes so far

store == <<cur, gens, obj>>
files == <<temp, final, bytes>>
record == <<dir, side>>
background == <<sweep, queue, pers, later>>
vars == <<store, resv, epoch, rel, files, record, req, background, overlap,
          abandoned, faults>>

Gen == 1..MaxGen
Val == {"none", "good", "bad"}
Sums == [Chunk -> Val]
NoSums == [i \in Chunk |-> "none"]

\* A session: TempPath is published, the sums of the received chunks,
\* Completed, Completing, the reservation is published.  A bit of
\* ReceivedChunks without its sum, or a sum without its bit, is "none".
NewSession == [temp |-> FALSE, sums |-> NoSums, done |-> FALSE,
               merging |-> FALSE, res |-> FALSE]

\* session.json.  Its copy of the sums is left out: a chunk is recorded
\* after its sum was stored in a file of its own, and recovery takes those.
NoDir == [g |-> 0, temp |-> FALSE, done |-> FALSE]

Snapshot(g) == [g |-> g, temp |-> obj[g].temp, done |-> obj[g].done]

\* A request: its place, the generation of the session it copied, the chunk
\* and its bytes, the lock object, the open file, the copied sums, and
\* whether everything so far was published (init), has a TempPath (complete).
Idle == [at |-> "idle", g |-> 0, i |-> 0, v |-> "none", lk |-> 0, fh |-> 0,
         sums |-> NoSums, ok |-> FALSE, res |-> FALSE]

AtRest == [at |-> "idle", snap |-> NoDir]
Asleep == [at |-> "idle", g |-> 0]

InInit == {"route", "create", "name", "snap", "write", "undo"}
InMerge == {"target", "verify", "rename", "finish", "end"}
\* The places at which a chunk holds the read lock of its lock object.
Writing == {"open", "put", "side", "mark"}

Init ==
    /\ cur = 0 /\ gens = 0 /\ obj = [g \in Gen |-> NewSession]
    /\ resv = [g \in Gen |-> "none"]
    /\ epoch = 1 /\ rel = NoClient
    /\ temp = 0 /\ final = 0 /\ bytes = [g \in Gen |-> NoSums]
    /\ dir = NoDir /\ side = NoSums
    /\ req = [p \in Client |-> Idle]
    /\ sweep = Asleep /\ queue = FALSE /\ pers = AtRest /\ later = {}
    /\ overlap = FALSE /\ abandoned = {}
    /\ faults = 0

Goto(p, at) == req' = [req EXCEPT ![p].at = at]
Return(p) == req' = [req EXCEPT ![p] = Idle]

\* Release of a reservation: effective once, and never after a Commit.
Settled(g, how) == IF resv[g] = "held" THEN [resv EXCEPT ![g] = how] ELSE resv

\* deleteSessionArtifactsAt: the in-flight file, if the session named it,
\* the entry of the lock table, the directory.
DeleteArtifacts(g) ==
    /\ temp' = IF obj[g].temp THEN 0 ELSE temp
    /\ epoch' = epoch + 1
    /\ dir' = NoDir /\ side' = NoSums

\* cleanupSessionIfCurrent: nothing unless the id still has this session.
CleanupIfCurrent(g) ==
    IF cur = g
    THEN /\ cur' = 0
         /\ DeleteArtifacts(g)
         /\ resv' = Settled(g, "released")
    ELSE UNCHANGED <<cur, temp, epoch, record, resv>>

\* Mutant: the directory is created when it is not there.
WriteRecord_MakesDir(snap) ==
    /\ dir' \in {dir, snap}
    /\ UNCHANGED side

\* writeSessionJSON: into the directory if it is there; it may fail.
WriteRecord(snap) ==
    /\ dir' \in {dir, IF dir = NoDir THEN NoDir ELSE snap}
    /\ UNCHANGED side

-----------------------------------------------------------------------------
(* UploadInit.                                                              *)

\* Registration: the session gets the next generation.  What nothing refers
\* to any more, of the objects and files of earlier generations, is dropped.
Register(session) ==
    /\ gens < MaxGen
    /\ gens' = gens + 1 /\ cur' = gens'
    /\ obj' = [g \in Gen |-> IF g = gens' THEN session
                             ELSE [NewSession EXCEPT !.temp = obj[g].temp,
                                                     !.res = obj[g].res]]
    /\ bytes' = [f \in Gen |->
                    IF f \in {temp, final} \/ \E p \in Client : req[p].fh = f
                    THEN bytes[f] ELSE NoSums]

\* The file lock, the test for an existing target, GetOrCreateSession.  An
\* unfinished session is resumed, which changes nothing; a finished one is
\* replaced, and its directory with the sums of its chunks is kept.
InitBegin(p) ==
    /\ req[p] = Idle /\ rel = NoClient /\ final = 0
    /\ cur # 0 => obj[cur].done
    /\ Register(NewSession)
    /\ dir' = [NoDir EXCEPT !.g = gens']
    /\ rel' = p
    /\ req' = [req EXCEPT ![p] = [Idle EXCEPT !.at = "route", !.g = gens']]
    /\ overlap' = (overlap \/ pers # AtRest
                           \/ \E q \in Client \ {p} : req[q] # Idle)
    /\ UNCHANGED <<resv, epoch, temp, final, side, background, abandoned,
                   faults>>

\* routeUpload chooses the volume and reserves the space, and
\* setSessionRouteIfCurrent publishes both in the session ...
Route(p) ==
    /\ req[p].at = "route"
    /\ LET g == req[p].g IN
        /\ resv' = [resv EXCEPT ![g] = "held"]
        /\ obj' = [obj EXCEPT ![g].res = (cur = g)]
        /\ req' = [req EXCEPT ![p].ok = (cur = g), ![p].at = "create"]
    /\ UNCHANGED <<cur, gens, epoch, rel, files, record, background, overlap,
                   abandoned, faults>>

\* ... or refuses.
RouteFails(p) ==
    /\ req[p].at = "route"
    /\ CleanupIfCurrent(req[p].g)
    /\ Return(p) /\ rel' = NoClient
    /\ UNCHANGED <<gens, obj, final, bytes, background, overlap, abandoned,
                   faults>>

\* createInitTempFile: O_EXCL, so that an existing file is an error.
CreateTemp(p) ==
    /\ req[p].at = "create" /\ temp = 0
    /\ temp' = req[p].g
    /\ Goto(p, "name")
    /\ UNCHANGED <<store, resv, epoch, rel, final, bytes, record, background,
                   overlap, abandoned, faults>>

\* The file exists, or an operation on it fails and it is removed again.
CreateFails(p) ==
    /\ req[p].at = "create"
    /\ CleanupIfCurrent(req[p].g)
    /\ abandoned' = abandoned \cup ({req[p].g} \ {cur})
    /\ Return(p) /\ rel' = NoClient
    /\ UNCHANGED <<gens, obj, final, bytes, background, overlap, faults>>

\* setSessionTempPathIfCurrent.
PublishTemp(p) ==
    /\ req[p].at = "name"
    /\ LET g == req[p].g IN
        /\ obj' = [obj EXCEPT ![g].temp = (cur = g)]
        /\ req' = [req EXCEPT ![p].ok = @ /\ cur = g, ![p].at = "snap"]
    /\ UNCHANGED <<cur, gens, resv, epoch, rel, files, record, background,
                   overlap, abandoned, faults>>

\* PersistNowIfCurrent, with the session's persistMu held to the end of the
\* write.  A session that is gone is not written, and init succeeds unless
\* one of the two publications failed.
InitSnapshot(p) ==
    /\ req[p].at = "snap" /\ pers.snap.g # req[p].g
    /\ \/ /\ cur = req[p].g
          /\ Goto(p, "write") /\ UNCHANGED rel
       \/ /\ cur # req[p].g /\ req[p].ok
          /\ Return(p) /\ rel' = NoClient
       \/ /\ cur # req[p].g /\ ~req[p].ok
          /\ Goto(p, "undo") /\ UNCHANGED rel
    /\ UNCHANGED <<store, resv, epoch, files, record, background, overlap,
                   abandoned, faults>>

\* The write, whose failure is only logged, and the end of init.
InitWrite(p) ==
    /\ req[p].at = "write"
    /\ WriteRecord([g |-> req[p].g, temp |-> TRUE, done |-> FALSE])
    /\ Return(p) /\ rel' = NoClient
    /\ UNCHANGED <<store, resv, epoch, files, background, overlap, abandoned,
                   faults>>

\* Mutant: the reservation is not given back.
InitRollback_KeepsRoute(p) ==
    /\ req[p].at = "undo"
    /\ temp' = IF cur # 0 /\ obj[cur].temp THEN temp ELSE 0
    /\ Return(p) /\ rel' = NoClient
    /\ UNCHANGED <<store, resv, epoch, final, bytes, record, background,
                   overlap, abandoned, faults>>

\* abortInitOrphanRollback: RemoveUnclaimedTemp, then route.Release.
InitRollback(p) ==
    /\ req[p].at = "undo"
    /\ temp' = IF cur # 0 /\ obj[cur].temp THEN temp ELSE 0
    /\ resv' = Settled(req[p].g, "released")
    /\ Return(p) /\ rel' = NoClient
    /\ UNCHANGED <<store, epoch, final, bytes, record, background, overlap,
                   abandoned, faults>>

-----------------------------------------------------------------------------
(* UploadChunk.                                                             *)

\* Mutant: a chunk is accepted while the upload is being merged.
Acceptable_NoBarrier(i, v) ==
    cur # 0 /\ ~obj[cur].done /\ obj[cur].sums[i] # v

\* checkChunkAcceptable.
Acceptable(i, v) ==
    /\ cur # 0
    /\ ~obj[cur].done /\ ~obj[cur].merging /\ obj[cur].sums[i] # v

\* The first check, and the lock object LockChunkIO finds in its table.
ChunkBegin(p, i, v) ==
    /\ req[p] = Idle /\ Acceptable(i, v)
    /\ req' = [req EXCEPT ![p] = [Idle EXCEPT !.at = "lock", !.i = i, !.v = v,
                                              !.lk = epoch]]
    /\ UNCHANGED <<store, resv, epoch, rel, files, record, background,
                   overlap, abandoned, faults>>

\* The read lock is taken and the session looked up and checked again.
ChunkRecheck(p) ==
    /\ req[p].at = "lock"
    /\ IF Acceptable(req[p].i, req[p].v) /\ obj[cur].temp
       THEN Goto(p, "open")
       ELSE Return(p)
    /\ UNCHANGED <<store, resv, epoch, rel, files, record, background,
                   overlap, abandoned, faults>>

\* writeChunkDirect: the in-flight file is opened by its name ...
ChunkOpen(p) ==
    /\ req[p].at = "open"
    /\ IF temp = 0 THEN Return(p)
       ELSE req' = [req EXCEPT ![p].at = "put", ![p].fh = temp]
    /\ UNCHANGED <<store, resv, epoch, rel, files, record, background,
                   overlap, abandoned, faults>>

\* ... and written, wherever it is by now; a write may fail half-way.
ChunkPut(p) ==
    /\ req[p].at = "put"
    /\ \/ /\ bytes' = [bytes EXCEPT ![req[p].fh][req[p].i] = req[p].v]
          /\ Goto(p, "side")
       \/ /\ bytes' = [bytes EXCEPT ![req[p].fh][req[p].i] = "bad"]
          /\ Return(p)
    /\ UNCHANGED <<store, resv, epoch, rel, temp, final, record, background,
                   overlap, abandoned, faults>>

\* Mutant: the sum is left to the next write of session.json.
ChunkSidecar_Skipped(p) ==
    /\ req[p].at = "side"
    /\ IF cur # 0 THEN Goto(p, "mark") ELSE Return(p)
    /\ UNCHANGED <<store, resv, epoch, rel, files, record, background,
                   overlap, abandoned, faults>>

\* MarkChunkReceived: the sum is stored before the chunk is acknowledged ...
ChunkSidecar(p) ==
    /\ req[p].at = "side"
    /\ IF cur # 0 /\ dir # NoDir
       THEN /\ side' = [side EXCEPT ![req[p].i] = req[p].v]
            /\ Goto(p, "mark")
       ELSE Return(p) /\ UNCHANGED side
    /\ UNCHANGED <<store, resv, epoch, rel, files, dir, background, overlap,
                   abandoned, faults>>

\* ... and recorded in whichever session has the id now.
ChunkMark(p) ==
    /\ req[p].at = "mark"
    /\ IF cur = 0 THEN UNCHANGED <<obj, queue>>
       ELSE /\ obj' = [obj EXCEPT ![cur].sums[req[p].i] = req[p].v]
            /\ queue' = TRUE
    /\ Return(p)
    /\ UNCHANGED <<cur, gens, resv, epoch, rel, files, record, sweep, pers,
                   later, overlap, abandoned, faults>>

-----------------------------------------------------------------------------
(* UploadComplete.                                                          *)

\* parseCompleteRequest and validateCompleteSession: a copy of the session,
\* complete or not, ...
CompleteBegin(p) ==
    /\ req[p] = Idle /\ cur # 0 /\ ~obj[cur].done
    /\ req' = [req EXCEPT ![p] = [Idle EXCEPT !.at = "check", !.g = cur,
                                    !.sums = obj[cur].sums,
                                    !.ok = obj[cur].temp, !.res = obj[cur].res]]
    /\ UNCHANGED <<store, resv, epoch, rel, files, record, background,
                   overlap, abandoned, faults>>

\* ... and, by id again, the test that all chunks are there.
CompleteCheck(p) ==
    /\ req[p].at = "check"
    /\ IF cur # 0 /\ \A i \in Chunk : obj[cur].sums[i] # "none"
       THEN Goto(p, "begin") ELSE Return(p)
    /\ UNCHANGED <<store, resv, epoch, rel, files, record, background,
                   overlap, abandoned, faults>>

\* BeginComplete, by id.
BeginComplete(p) ==
    /\ req[p].at = "begin"
    /\ IF cur = 0 \/ obj[cur].done \/ obj[cur].merging
       THEN Return(p) /\ UNCHANGED obj
       ELSE /\ obj' = [obj EXCEPT ![cur].merging = TRUE]
            /\ Goto(p, "target")
    /\ UNCHANGED <<cur, gens, resv, epoch, rel, files, record, background,
                   overlap, abandoned, faults>>

\* Mutant: a target that is locked ends the request at once.
AcquireTarget_NoDefer(p) ==
    /\ req[p].at = "target"
    /\ IF rel = NoClient /\ req[p].ok
       THEN /\ rel' = p
            /\ req' = [req EXCEPT ![p].at = "verify", ![p].lk = epoch]
       ELSE Return(p) /\ UNCHANGED rel
    /\ UNCHANGED <<store, resv, epoch, files, record, background, overlap,
                   abandoned, faults>>

\* acquireCompleteTargets: the file lock, without waiting for it; then the
\* lock object LockChunkMerge finds in its table.
AcquireTarget(p) ==
    /\ req[p].at = "target"
    /\ IF rel = NoClient /\ req[p].ok
       THEN /\ rel' = p
            /\ req' = [req EXCEPT ![p].at = "verify", ![p].lk = epoch]
       ELSE Goto(p, "end") /\ UNCHANGED rel
    /\ UNCHANGED <<store, resv, epoch, files, record, background, overlap,
                   abandoned, faults>>

\* The deferred calls run last one first: the file lock goes, Completing
\* is cleared after it.
GiveUp(p) ==
    /\ rel' = NoClient
    /\ req' = [req EXCEPT ![p] = [Idle EXCEPT !.at = "end", !.g = req[p].g]]

Intact(f) == \A i \in Chunk : bytes[f][i] = "good"

\* prepareMergedTemp, under the write lock: every chunk that holds the lock
\* is through.  A missing file clears nothing; a file that is not the
\* declared one clears the chunks whose bytes have another sum than the
\* copied one, or all of them.
Verify(p) ==
    /\ req[p].at = "verify"
    /\ \A q \in Client : req[q].at \in Writing => req[q].lk # req[p].lk
    /\ LET differing == {i \in Chunk : bytes[temp][i] # req[p].sums[i]}
           mismatch == IF differing = {} THEN Chunk ELSE differing
       IN  \/ /\ temp # 0 /\ Intact(temp)
              /\ Goto(p, "rename")
              /\ UNCHANGED <<obj, queue, rel>>
           \/ /\ temp # 0 /\ ~Intact(temp) /\ cur # 0
              /\ obj' = [obj EXCEPT ![cur].sums =
                             [i \in Chunk |-> IF i \in mismatch THEN "none"
                                                                ELSE @[i]]]
              /\ queue' = TRUE
              /\ GiveUp(p)
           \/ /\ temp # 0 => ~Intact(temp) /\ cur = 0
              /\ GiveUp(p)
              /\ UNCHANGED <<obj, queue>>
    /\ UNCHANGED <<cur, gens, resv, epoch, files, record, sweep, pers, later,
                   overlap, abandoned, faults>>

\* atomicRenameRoot, then settleCompleteQuota: Commit on the handle of the
\* copied session.
Rename(p) ==
    /\ req[p].at = "rename" /\ temp # 0
    /\ final' = temp /\ temp' = 0
    /\ resv' = IF req[p].res THEN Settled(req[p].g, "committed") ELSE resv
    /\ Goto(p, "finish")
    /\ UNCHANGED <<store, epoch, rel, bytes, record, background, overlap,
                   abandoned, faults>>

\* The in-flight file is gone, or the rename fails.
RenameFails(p) ==
    /\ req[p].at = "rename"
    /\ GiveUp(p)
    /\ UNCHANGED <<store, resv, epoch, files, record, background, overlap,
                   abandoned, faults>>

\* recordCompleteMetadata: CompleteSession and CleanupSessionAfter, by id.
\* It returns early when the tenant is not available.
Finish(p) ==
    /\ req[p].at = "finish"
    /\ \/ /\ cur # 0
          /\ obj' = [obj EXCEPT ![cur].done = TRUE]
          /\ queue' = TRUE
          /\ later' = later \cup {cur}
       \/ UNCHANGED <<obj, queue, later>>
    /\ GiveUp(p)
    /\ UNCHANGED <<cur, gens, resv, epoch, files, record, sweep, pers,
                   overlap, abandoned, faults>>

\* The other deferred call: EndComplete, by id.
EndComplete(p) ==
    /\ req[p].at = "end"
    /\ obj' = IF cur = 0 THEN obj ELSE [obj EXCEPT ![cur].merging = FALSE]
    /\ Return(p)
    /\ UNCHANGED <<cur, gens, resv, epoch, rel, files, record, background,
                   overlap, abandoned, faults>>

-----------------------------------------------------------------------------
(* CleanupExpired, the writer of session.json, CleanupSessionAfter.         *)

\* A session past its TTL is taken out of the map, whatever is going on.
SweepCollect ==
    /\ sweep = Asleep /\ cur # 0 /\ faults < MaxFaults
    /\ sweep' = [at |-> "release", g |-> cur]
    /\ cur' = 0
    /\ faults' = faults + 1
    /\ UNCHANGED <<gens, obj, resv, epoch, rel, files, record, req, queue,
                   pers, later, overlap, abandoned>>

SweepRelease ==
    /\ sweep.at = "release"
    /\ resv' = IF obj[sweep.g].res THEN Settled(sweep.g, "released") ELSE resv
    /\ sweep' = [sweep EXCEPT !.at = "remove"]
    /\ UNCHANGED <<store, epoch, rel, files, record, req, queue, pers, later,
                   overlap, abandoned, faults>>

\* Mutant: the artifacts are removed by id.
SweepRemove_ById ==
    /\ sweep.at = "remove"
    /\ DeleteArtifacts(sweep.g)
    /\ sweep' = Asleep
    /\ UNCHANGED <<store, resv, rel, final, bytes, req, queue, pers, later,
                   overlap, abandoned, faults>>

\* cleanupExpiredArtifacts: nothing if another session has the id by now.
SweepRemove ==
    /\ sweep.at = "remove"
    /\ IF cur # 0 THEN UNCHANGED <<temp, epoch, record>>
                  ELSE DeleteArtifacts(sweep.g)
    /\ sweep' = Asleep
    /\ UNCHANGED <<store, resv, rel, final, bytes, req, queue, pers, later,
                   overlap, abandoned, faults>>

\* persistSession, with the session's persistMu held to the end of the write.
PersistSnapshot ==
    /\ queue /\ pers = AtRest
    /\ \A p \in Client : req[p].at = "write" => req[p].g # cur
    /\ pers' = IF cur = 0 THEN AtRest ELSE [at |-> "write", snap |-> Snapshot(cur)]
    /\ queue' = FALSE
    /\ UNCHANGED <<store, resv, epoch, rel, files, record, req, sweep, later,
                   overlap, abandoned, faults>>

PersistWrite ==
    /\ pers.at = "write"
    /\ WriteRecord(pers.snap)
    /\ pers' = AtRest
    /\ UNCHANGED <<store, resv, epoch, rel, files, req, sweep, queue, later,
                   overlap, abandoned, faults>>

\* Mutant: whichever session has the id is removed.
DelayedCleanup_ById(g) ==
    /\ g \in later /\ later' = later \ {g}
    /\ IF cur = 0 THEN UNCHANGED <<cur, temp, epoch, record, resv>>
                  ELSE CleanupIfCurrent(cur)
    /\ UNCHANGED <<gens, obj, rel, final, bytes, req, sweep, queue, pers,
                   overlap, abandoned, faults>>

\* The delayed removal of the session that was registered when it was asked.
DelayedCleanup(g) ==
    /\ g \in later /\ later' = later \ {g}
    /\ CleanupIfCurrent(g)
    /\ UNCHANGED <<gens, obj, rel, final, bytes, req, sweep, queue, pers,
                   overlap, abandoned, faults>>

\* A delete request for the target, under its file lock.
RemoveFile ==
    /\ final # 0 /\ rel = NoClient
    /\ final' = 0
    /\ UNCHANGED <<store, resv, epoch, rel, temp, bytes, record, req,
                   background, overlap, abandoned, faults>>

-----------------------------------------------------------------------------
(* Crash and recovery.                                                      *)

\* restoreSession: the stored sums of the chunks count, if the record names
\* the in-flight file, where that file still has those bytes.
Restored ==
    LET kept == [i \in Chunk |-> IF temp # 0 /\ bytes[temp][i] = side[i]
                                 THEN side[i] ELSE "none"]
    IN  [NewSession EXCEPT !.temp = dir.temp, !.done = dir.done,
                           !.sums = IF dir.temp THEN kept ELSE side]

\* What memory held is gone, the reservations included.
Forget ==
    /\ MayCrash /\ faults < MaxFaults
    /\ resv' = [g \in Gen |-> IF resv[g] = "held" THEN "lost" ELSE resv[g]]
    /\ rel' = NoClient
    /\ req' = [p \in Client |-> Idle]
    /\ sweep' = Asleep /\ queue' = FALSE /\ pers' = AtRest /\ later' = {}
    /\ faults' = faults + 1
    /\ UNCHANGED <<final, overlap, abandoned>>

\* recoverSessions: the session is registered again, ...
CrashRestore ==
    /\ dir # NoDir
    /\ Forget
    /\ Register(Restored)
    /\ UNCHANGED <<epoch, temp, record>>

\* ... is past its TTL and removed, ...
CrashExpired ==
    /\ dir # NoDir
    /\ Forget
    /\ cur' = 0
    /\ temp' = IF dir.temp THEN 0 ELSE temp
    /\ epoch' = epoch + 1 /\ dir' = NoDir /\ side' = NoSums
    /\ UNCHANGED <<gens, obj, bytes>>

\* ... or had left no record.
CrashNothing ==
    /\ dir = NoDir
    /\ Forget
    /\ cur' = 0
    /\ UNCHANGED <<gens, obj, bytes, epoch, temp, record>>

-----------------------------------------------------------------------------
InitStep(p) ==
    \/ Route(p) \/ RouteFails(p)
    \/ CreateTemp(p) \/ CreateFails(p) \/ PublishTemp(p)
    \/ InitSnapshot(p) \/ InitWrite(p) \/ InitRollback(p)

ChunkStep(p) ==
    \/ ChunkRecheck(p) \/ ChunkOpen(p) \/ ChunkPut(p)
    \/ ChunkSidecar(p) \/ ChunkMark(p)

CompleteStep(p) ==
    \/ CompleteCheck(p) \/ BeginComplete(p) \/ AcquireTarget(p)
    \/ Verify(p) \/ Rename(p) \/ RenameFails(p) \/ Finish(p) \/ EndComplete(p)

Step(p) == InitStep(p) \/ ChunkStep(p) \/ CompleteStep(p)

Arrive(p) ==
    \/ InitBegin(p) \/ CompleteBegin(p)
    \/ \E i \in Chunk, v \in {"good", "bad"} : ChunkBegin(p, i, v)

Crash == CrashRestore \/ CrashExpired \/ CrashNothing

Next ==
    \/ \E p \in Client : Arrive(p) \/ Step(p)
    \/ SweepCollect \/ SweepRelease \/ SweepRemove
    \/ PersistSnapshot \/ PersistWrite
    \/ \E g \in Gen : DelayedCleanup(g)
    \/ RemoveFile \/ Crash

Spec == Init /\ [][Next]_vars

-----------------------------------------------------------------------------
(* Properties.                                                              *)

\* The places of a request, and what a request holds.
Place == {"idle", "lock", "check", "begin"} \cup InInit \cup Writing \cup InMerge
Record == [g : 0..gens, temp : BOOLEAN, done : BOOLEAN]

\* The variables keep their types; no two generations share a number.
TypeOK ==
    /\ cur \in 0..gens /\ gens \in 0..MaxGen
    /\ obj \in [Gen -> [temp : BOOLEAN, sums : Sums, done : BOOLEAN,
                        merging : BOOLEAN, res : BOOLEAN]]
    /\ resv \in [Gen -> {"none", "held", "committed", "released", "lost"}]
    /\ epoch \in Nat /\ rel \in Client \cup {NoClient}
    /\ temp \in 0..gens /\ final \in 0..gens /\ bytes \in [Gen -> Sums]
    /\ dir \in Record /\ side \in Sums
    /\ sweep \in [at : {"idle", "release", "remove"}, g : 0..gens]
    /\ queue \in BOOLEAN /\ pers \in [at : {"idle", "write"}, snap : Record]
    /\ later \subseteq 1..gens /\ abandoned \subseteq 1..gens
    /\ overlap \in BOOLEAN /\ faults \in 0..MaxFaults
    /\ req \in [Client -> [at : Place, g : 0..gens, i : Chunk \cup {0}, v : Val,
                           lk : Nat, fh : 0..gens, sums : Sums, ok : BOOLEAN,
                           res : BOOLEAN]]

\* The file at the target is the declared one, byte for byte, as long as no
\* generation was registered under requests of an earlier one: chunks that
\* arrive while UploadComplete checks and renames the file do not reach it.
VerifiedLands ==
    ~overlap /\ final # 0 => Intact(final)

\* A reservation is never lost: it is settled, or a session in the map, a
\* running init or the sweep will settle it.  The exceptions: the id was
\* taken over, or an init failed to create its file after its session was
\* removed.
ReservationOwned ==
    \A g \in Gen : resv[g] = "held" =>
        \/ overlap \/ g \in abandoned
        \/ cur = g /\ obj[g].res
        \/ sweep = [at |-> "release", g |-> g]
        \/ \E p \in Client : req[p].g = g /\ req[p].at \in InInit

\* A session directory has a session, or the sweep is about to remove it: a
\* late write of session.json does not bring back a removed session.
RecordOwned == dir # NoDir => cur # 0 \/ sweep # Asleep

\* A session that refuses chunks because it is being merged is being merged:
\* every way out of UploadComplete clears the mark.  Once the id was taken
\* over, the request in the merge may be one of the earlier session: the mark
\* is set and cleared by id.
MergingOwned ==
    cur # 0 /\ obj[cur].merging =>
        \E p \in Client :
            req[p].at \in InMerge /\ (overlap \/ req[p].g = cur)

\* Only UploadComplete takes the in-flight file a registered session has
\* named: no clean-up and no roll-back of an earlier generation removes it.
TempKept ==
    [][cur' # 0 /\ obj'[cur'].temp /\ temp # 0 /\ temp' = 0 => final' = temp]_vars

\* An acknowledged chunk whose bytes are in the in-flight file is still
\* received after a crash, although session.json is written later, unless
\* another request has stored the sum of other bytes for the same chunk.
AckSurvives ==
    [][~overlap /\ CrashRestore /\ cur # 0 /\ ~dir.done =>
        \A i \in Chunk :
            /\ temp # 0 /\ obj[cur].sums[i] \in {"good", "bad"}
            /\ bytes[temp][i] = obj[cur].sums[i]
            /\ side[i] \in {"none", obj[cur].sums[i]}
            => obj'[cur'].sums[i] = obj[cur].sums[i]]_vars

\* A session leaves the map when it expires, when its own init fails, or
\* after it has finished: the delayed clean-up of a generation that finished
\* does not remove the next one.
SessionKept ==
    [][cur # 0 /\ cur' # cur =>
        \/ obj[cur].done \/ faults' # faults
        \/ \E p \in Client : req[p].g = cur /\ req[p].at \in InInit]_vars
=============================================================================

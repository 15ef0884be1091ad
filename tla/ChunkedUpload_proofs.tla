------------------------- MODULE ChunkedUpload_proofs -------------------------
(***************************************************************************)
(* Proofs about the chunked uploads of one upload id, for every number of  *)
(* clients, chunks, registrations, expiries and crashes: what lands was    *)
(* verified, no reservation and no directory is left without an owner, a   *)
(* merging mark is cleared, and no generation takes what another has.      *)
(***************************************************************************)
EXTENDS ChunkedUpload, TLAPS

\* The types, one group of variables at a time.
StoreType == cur \in 0..gens /\ gens \in 0..MaxGen
ObjType == obj \in [Gen -> [temp : BOOLEAN, sums : Sums, done : BOOLEAN,
                            merging : BOOLEAN, res : BOOLEAN]]
ResvType ==
    resv \in [Gen -> {"none", "held", "committed", "released", "lost"}]
LockType == epoch \in Nat /\ rel \in Client \cup {NoClient}
NameType == temp \in 0..gens /\ final \in 0..gens
BytesType == bytes \in [Gen -> Sums]
DirType == dir \in Record
SideType == side \in Sums
SweepType == sweep \in [at : {"idle", "release", "remove"}, g : 0..gens]
PersType ==
    queue \in BOOLEAN /\ pers \in [at : {"idle", "write"}, snap : Record]
PastType ==
    /\ later \subseteq 1..gens /\ abandoned \subseteq 1..gens
    /\ overlap \in BOOLEAN /\ faults \in 0..MaxFaults
ReqType == req \in [Client -> [at : Place, g : 0..gens, i : Chunk \cup {0},
                               v : Val, lk : Nat, fh : 0..gens, sums : Sums,
                               ok : BOOLEAN, res : BOOLEAN]]

\* The places before init has named its file, and those of UploadComplete
\* that go by the copied session.
Early == {"route", "create", "name"}
Completing == {"check", "begin", "target", "verify", "rename", "finish"}

\* What a request at a place knows.
Knows ==
    \A p \in Client :
        /\ req[p].at \in {"lock"} \cup Writing =>
              req[p].i \in Chunk /\ req[p].v \in {"good", "bad"}
        /\ req[p].at \in InInit \cup Completing => req[p].g # 0
        /\ req[p].at = "put" => req[p].fh # 0

\* The file lock is held through init, and from the check of the merged file
\* to the end of UploadComplete.
FileLock ==
    \A p \in Client :
        req[p].at \in InInit \cup {"verify", "rename", "finish"} => rel = p

\* A generation that has yet to be registered has reserved nothing.
Fresh == \A g \in Gen : g > gens => resv[g] = "none"

\* While an init runs nobody registers or finishes the id, there is no file
\* at the target, and the session has not named what is not yet created.
InitAlone ==
    \A p \in Client : req[p].at \in InInit =>
        /\ cur \in {0, req[p].g} /\ final = 0
        /\ cur = req[p].g => ~obj[cur].done
        /\ req[p].at = "route" => resv[req[p].g] = "none"
        /\ req[p].at \in Early => ~obj[req[p].g].temp

\* Before the file has its name no chunk is written or received, and a
\* completion has at most copied the session, without the name.
EarlyAlone ==
    ~overlap => \A p \in Client : req[p].at \in Early =>
        /\ cur # 0 => \A i \in Chunk : obj[cur].sums[i] = "none"
        /\ \A q \in Client :
              /\ req[q].at \notin Writing \cup (Completing \ {"check"})
              /\ req[q].at = "check" => ~req[q].ok

\* The session in the map knows its reservation; a session that has finished
\* has settled it.
CurHeld == cur # 0 /\ resv[cur] = "held" => obj[cur].res
DoneSettled == ~overlap /\ cur # 0 /\ obj[cur].done => resv[cur] # "held"

\* The session in the map, or the sweep that took it out, will settle what g
\* has reserved.
Settling(g) ==
    resv[g] = "held" =>
        obj[g].res /\ (cur = g \/ sweep = [at |-> "release", g |-> g])

\* An init whose publications went through leaves its reservation to the
\* session.
Published ==
    \A p \in Client : req[p].at \in {"create", "name", "snap", "write"} =>
        /\ cur = req[p].g \/ req[p].at = "write" => req[p].ok
        /\ req[p].ok => Settling(req[p].g)

\* UploadComplete works for the session in the map; a copy with the name of
\* the file has the reservation too, which is settled once the file has
\* landed.
CompleteKnows ==
    ~overlap => \A p \in Client :
        /\ req[p].at \in Completing \cup {"end"} => cur \in {0, req[p].g}
        /\ req[p].at \in Completing /\ resv[req[p].g] = "held" =>
              /\ req[p].ok => req[p].res
              /\ req[p].at # "finish"

\* Whoever will settle a reservation.
Owner(g) ==
    \/ overlap \/ g \in abandoned \/ cur = g
    \/ sweep = [at |-> "release", g |-> g] /\ obj[g].res
    \/ \E p \in Client : req[p].g = g /\ req[p].at \in InInit
Owned == \A g \in Gen : resv[g] = "held" => Owner(g)

\* The delayed clean-up is asked for a finished session.
LaterDone == cur \in later => obj[cur].done

\* A session with the mark has a request in the merge.
MergingSeen ==
    cur # 0 /\ obj[cur].merging => \E p \in Client : req[p].at \in InMerge

\* One request merges, and its session has the mark.
OneMerge ==
    ~overlap =>
        /\ \A p, q \in Client :
              req[p].at \in InMerge /\ req[q].at \in InMerge => p = q
        /\ \A p \in Client : req[p].at \in InMerge /\ cur # 0 =>
           obj[cur].merging

\* Removing the session, or what the sweep has left of it, removes the file.
Named ==
    IF cur # 0 THEN obj[cur].temp ELSE sweep # Asleep /\ obj[sweep.g].temp

\* As long as the file is there, whoever writes or checks it has the lock
\* object that the table has.
SameLock ==
    ~overlap => \A p \in Client :
        /\ req[p].at = "lock" /\ cur # 0 => req[p].lk = epoch
        /\ req[p].at \in Writing /\ (cur # 0 \/ temp # 0) =>
              req[p].lk = epoch /\ Named
        /\ req[p].at \in Completing \ {"finish"} /\ req[p].ok =>
              (cur # 0 \/ temp # 0 => Named)
        /\ req[p].at \in {"verify", "rename"} =>
              req[p].ok /\ (temp # 0 => req[p].lk = epoch)

\* There is one file, in flight or at the target, and an open one is in
\* flight or has no name.
OneFile ==
    /\ final # 0 => temp = 0
    /\ ~overlap /\ final # 0 =>
          \A p \in Client : req[p].at = "put" => req[p].fh # final

\* What was verified stays as it is until it is renamed.
Checked ==
    ~overlap /\ temp # 0 => \A p \in Client : req[p].at = "rename" =>
        Intact(temp) /\ \A q \in Client : req[q].at \notin Writing

\* A received chunk has its sum in a file.
SideFirst ==
    ~overlap /\ cur # 0 =>
        /\ \A i \in Chunk : obj[cur].sums[i] # "none" => side[i] # "none"
        /\ \A p \in Client : req[p].at = "mark" => side[req[p].i] # "none"

UploadInv ==
    /\ StoreType /\ ObjType /\ ResvType /\ LockType /\ NameType /\ BytesType
    /\ DirType /\ SideType /\ SweepType /\ PersType /\ PastType /\ ReqType
    /\ Knows /\ FileLock /\ Fresh /\ InitAlone /\ EarlyAlone
    /\ CurHeld /\ DoneSettled /\ Published /\ CompleteKnows /\ Owned
    /\ LaterDone /\ RecordOwned /\ MergingSeen /\ OneMerge
    /\ SameLock /\ OneFile /\ Checked /\ VerifiedLands /\ SideFirst

-----------------------------------------------------------------------------
(* The actions whose effect depends on a test, one case at a time.          *)

\* A chunk or a completion is refused, or its session is gone.
Refused(p) ==
    /\ req[p].at \in {"lock", "open", "side", "mark", "check", "begin"}
    /\ Return(p)
    /\ UNCHANGED <<store, resv, epoch, rel, files, record, background,
                   overlap, abandoned, faults>>

\* The publications of an init, with its session in the map and without.
Routed(p, here) ==
    /\ req[p].at = "route" /\ (cur = req[p].g <=> here)
    /\ resv' = [resv EXCEPT ![req[p].g] = "held"]
    /\ obj' = [obj EXCEPT ![req[p].g].res = here]
    /\ req' = [req EXCEPT ![p].ok = here, ![p].at = "create"]
    /\ UNCHANGED <<cur, gens, epoch, rel, files, record, background, overlap,
                   abandoned, faults>>
NamedHere(p) ==
    /\ req[p].at = "name" /\ cur = req[p].g
    /\ obj' = [obj EXCEPT ![req[p].g].temp = TRUE]
    /\ Goto(p, "snap")
    /\ UNCHANGED <<cur, gens, resv, epoch, rel, files, record, background,
                   overlap, abandoned, faults>>
NamedGone(p) ==
    /\ req[p].at = "name" /\ cur # req[p].g
    /\ obj' = [obj EXCEPT ![req[p].g].temp = FALSE]
    /\ req' = [req EXCEPT ![p].ok = FALSE, ![p].at = "snap"]
    /\ UNCHANGED <<cur, gens, resv, epoch, rel, files, record, background,
                   overlap, abandoned, faults>>

\* An init that writes its session, that is over, that has to be undone.
SnapKept(p) ==
    /\ req[p].at = "snap" /\ cur = req[p].g
    /\ Goto(p, "write")
    /\ UNCHANGED <<store, resv, epoch, rel, files, record, background,
                   overlap, abandoned, faults>>
SnapOver(p) ==
    /\ req[p].at = "snap" /\ cur # req[p].g /\ req[p].ok
    /\ Return(p) /\ rel' = NoClient
    /\ UNCHANGED <<store, resv, epoch, files, record, background, overlap,
                   abandoned, faults>>
SnapUndone(p) ==
    /\ req[p].at = "snap" /\ cur # req[p].g
    /\ Goto(p, "undo")
    /\ UNCHANGED <<store, resv, epoch, rel, files, record, background,
                   overlap, abandoned, faults>>

\* A chunk is accepted, opens the file, writes it or fails half-way.
Accepted(p) ==
    /\ req[p].at = "lock"
    /\ Acceptable(req[p].i, req[p].v) /\ obj[cur].temp
    /\ Goto(p, "open")
    /\ UNCHANGED <<store, resv, epoch, rel, files, record, background,
                   overlap, abandoned, faults>>
Opened(p) ==
    /\ req[p].at = "open" /\ temp # 0
    /\ req' = [req EXCEPT ![p].at = "put", ![p].fh = temp]
    /\ UNCHANGED <<store, resv, epoch, rel, files, record, background,
                   overlap, abandoned, faults>>
PutDone(p) ==
    /\ req[p].at = "put"
    /\ bytes' = [bytes EXCEPT ![req[p].fh][req[p].i] = req[p].v]
    /\ Goto(p, "side")
    /\ UNCHANGED <<store, resv, epoch, rel, temp, final, record, background,
                   overlap, abandoned, faults>>
PutFails(p) ==
    /\ req[p].at = "put"
    /\ bytes' = [bytes EXCEPT ![req[p].fh][req[p].i] = "bad"]
    /\ Return(p)
    /\ UNCHANGED <<store, resv, epoch, rel, temp, final, record, background,
                   overlap, abandoned, faults>>

\* Its sum is stored, and recorded.
Stored(p) ==
    /\ req[p].at = "side" /\ cur # 0
    /\ side' = [side EXCEPT ![req[p].i] = req[p].v]
    /\ Goto(p, "mark")
    /\ UNCHANGED <<store, resv, epoch, rel, files, dir, background, overlap,
                   abandoned, faults>>
Marked(p) ==
    /\ req[p].at = "mark" /\ cur # 0
    /\ obj' = [obj EXCEPT ![cur].sums[req[p].i] = req[p].v]
    /\ queue' = TRUE
    /\ Return(p)
    /\ UNCHANGED <<cur, gens, resv, epoch, rel, files, record, sweep, pers,
                   later, overlap, abandoned, faults>>

\* All the chunks of the session in the map are there.
AllThere(p) ==
    /\ req[p].at = "check"
    /\ cur # 0 /\ \A i \in Chunk : obj[cur].sums[i] # "none"
    /\ Goto(p, "begin")
    /\ UNCHANGED <<store, resv, epoch, rel, files, record, background,
                   overlap, abandoned, faults>>

\* A merge begins, gets its locks or ends, and finds the file intact, finds
\* chunks to be sent again, or finds nothing to do.
Begun(p) ==
    /\ req[p].at = "begin" /\ cur # 0 /\ ~obj[cur].done /\ ~obj[cur].merging
    /\ obj' = [obj EXCEPT ![cur].merging = TRUE]
    /\ Goto(p, "target")
    /\ UNCHANGED <<cur, gens, resv, epoch, rel, files, record, background,
                   overlap, abandoned, faults>>
Acquired(p) ==
    /\ req[p].at = "target" /\ rel = NoClient /\ req[p].ok
    /\ rel' = p
    /\ req' = [req EXCEPT ![p].at = "verify", ![p].lk = epoch]
    /\ UNCHANGED <<store, resv, epoch, files, record, background, overlap,
                   abandoned, faults>>
Locked(p) ==
    /\ req[p].at = "target"
    /\ Goto(p, "end")
    /\ UNCHANGED <<store, resv, epoch, rel, files, record, background,
                   overlap, abandoned, faults>>
FoundIntact(p) ==
    /\ req[p].at = "verify"
    /\ \A q \in Client : req[q].at \in Writing => req[q].lk # req[p].lk
    /\ temp # 0 /\ Intact(temp)
    /\ Goto(p, "rename")
    /\ UNCHANGED <<store, resv, epoch, rel, files, record, background,
                   overlap, abandoned, faults>>
FoundOther(p, sums) ==
    /\ req[p].at = "verify" /\ cur # 0
    /\ \A i \in Chunk : sums[i] \in {"none", obj[cur].sums[i]}
    /\ obj' = [obj EXCEPT ![cur].sums = sums]
    /\ queue' = TRUE
    /\ GiveUp(p)
    /\ UNCHANGED <<cur, gens, resv, epoch, files, record, sweep, pers, later,
                   overlap, abandoned, faults>>
FoundNothing(p) ==
    /\ req[p].at = "verify"
    /\ GiveUp(p)
    /\ UNCHANGED <<store, resv, epoch, files, record, background, overlap,
                   abandoned, faults>>

\* A finished upload is recorded, or its tenant is not available.
Finished(p) ==
    /\ req[p].at = "finish" /\ cur # 0
    /\ obj' = [obj EXCEPT ![cur].done = TRUE]
    /\ queue' = TRUE
    /\ later' = later \cup {cur}
    /\ GiveUp(p)
    /\ UNCHANGED <<cur, gens, resv, epoch, files, record, sweep, pers,
                   overlap, abandoned, faults>>
FinishedOnly(p) ==
    /\ req[p].at = "finish"
    /\ GiveUp(p)
    /\ UNCHANGED <<store, resv, epoch, files, record, background, overlap,
                   abandoned, faults>>

-----------------------------------------------------------------------------
\* What the constants are.
LEMMA Bounds ==
    /\ MaxGen \in Nat /\ MaxFaults \in Nat /\ NoClient \notin Client
    /\ Gen = 1..MaxGen /\ Chunk # {}
BY UploadAssumption DEF Gen

\* What a request holds.
Request == [at : Place, g : 0..gens, i : Chunk \cup {0}, v : Val, lk : Nat,
            fh : 0..gens, sums : Sums, ok : BOOLEAN, res : BOOLEAN]

\* ReqType, with a name for what a request holds.
LEMMA ReqIs == ReqType <=> req \in [Client -> Request]
BY DEF ReqType, Request

\* An idle request, and one whose deferred calls are left, have their type.
LEMMA IdleIs ==
    ASSUME StoreType
    PROVE  /\ Idle \in Request
           /\ \A g \in 0..gens :
                 [Idle EXCEPT !.at = "end", !.g = g] \in Request
<1>1. NoSums \in Sums
  BY DEF NoSums, Sums, Val
<1>2. "idle" \in Place /\ "end" \in Place
  BY DEF Place, InMerge
<1>3. 0 \in 0..gens
  BY Bounds DEF StoreType
<1>5. "none" \in Val /\ 0 \in Chunk \cup {0} /\ 0 \in Nat
  BY DEF Val
<1>6. Idle \in Request
  BY ONLY <1>1, <1>2, <1>3, <1>5 DEF Idle, Request
<1>7. \A r \in Request, g \in 0..gens :
         [r EXCEPT !.at = "end", !.g = g] \in Request
  BY <1>2 DEF Request
<1> QED  BY <1>6, <1>7

\* A request moves.
LEMMA GotoType ==
    ASSUME ReqType, NEW p \in Client, NEW a \in Place, Goto(p, a),
           gens' = gens
    PROVE  ReqType'
<1>1. req' \in [Client -> Request]
  <2>1. req \in [Client -> Request]
    BY ReqIs
  <2>2. \A r \in Request : [r EXCEPT !.at = a] \in Request
    BY DEF Request
  <2> QED  BY <2>1, <2>2 DEF Goto
<1>2. Request' = Request
  BY DEF Request
<1> QED  BY <1>1, <1>2 DEF ReqType, Request

\* A request returns.
LEMMA ReturnType ==
    ASSUME ReqType, StoreType, NEW p \in Client, Return(p), gens' = gens
    PROVE  ReqType'
<1>1. req' \in [Client -> Request]
  BY ReqIs, IdleIs DEF Return
<1>2. Request' = Request
  BY DEF Request
<1> QED  BY <1>1, <1>2 DEF ReqType, Request

\* A request gives up.
LEMMA GiveUpType ==
    ASSUME ReqType, StoreType, NEW p \in Client, GiveUp(p), gens' = gens
    PROVE  ReqType'
<1>1. req' \in [Client -> Request]
  <2>1. req \in [Client -> Request] /\ req[p].g \in 0..gens
    BY ReqIs DEF Request
  <2>2. [Idle EXCEPT !.at = "end", !.g = req[p].g] \in Request
    BY <2>1, IdleIs
  <2> QED  BY <2>1, <2>2 DEF GiveUp
<1>2. Request' = Request
  BY DEF Request
<1> QED  BY <1>1, <1>2 DEF ReqType, Request

\* A request takes down one more thing as it moves.
LEMMA NoteType ==
    ASSUME ReqType, NEW p \in Client, NEW a \in Place, gens' = gens,
           \/ \E x \in BOOLEAN : req' = [req EXCEPT ![p].ok = x, ![p].at = a]
           \/ \E x \in 0..gens : req' = [req EXCEPT ![p].at = a, ![p].fh = x]
           \/ \E x \in Nat : req' = [req EXCEPT ![p].at = a, ![p].lk = x]
    PROVE  ReqType'
<1>1. req \in [Client -> Request]
  BY ReqIs
<1>2. \A r \in Request :
         /\ \A x \in BOOLEAN :
               [r EXCEPT !.ok = x] \in Request
         /\ \A x \in 0..gens :
               [r EXCEPT !.fh = x] \in Request
         /\ \A x \in Nat :
               [r EXCEPT !.lk = x] \in Request
         /\ [r EXCEPT !.at = a] \in Request
  BY DEF Request
<1>3. \A f \in [Client -> Request], x \in BOOLEAN :
         [f EXCEPT ![p].ok = x] \in [Client -> Request]
  BY <1>2
<1>4. \A f \in [Client -> Request], x \in 0..gens :
         [f EXCEPT ![p].fh = x] \in [Client -> Request]
  BY <1>2
<1>5. \A f \in [Client -> Request], x \in Nat :
         [f EXCEPT ![p].lk = x] \in [Client -> Request]
  BY <1>2
<1>6. \A f \in [Client -> Request] :
         [f EXCEPT ![p].at = a] \in [Client -> Request]
  BY <1>2
<1>7. req' \in [Client -> Request]
  <2>1. CASE \E x \in BOOLEAN : req' = [req EXCEPT ![p].ok = x, ![p].at = a]
    <3>1. PICK x \in BOOLEAN : req' = [[req EXCEPT ![p].ok = x] EXCEPT ![p].at
       = a]
      BY <2>1
    <3> QED  BY <1>1, <1>3, <1>6, <3>1
  <2>2. CASE \E x \in 0..gens : req' = [req EXCEPT ![p].at = a, ![p].fh = x]
    <3>1. PICK x \in 0..gens : req' = [[req EXCEPT ![p].at = a] EXCEPT ![p].fh
       = x]
      BY <2>2
    <3> QED  BY <1>1, <1>4, <1>6, <3>1
  <2>3. CASE \E x \in Nat : req' = [req EXCEPT ![p].at = a, ![p].lk = x]
    <3>1. PICK x \in Nat : req' = [[req EXCEPT ![p].at = a] EXCEPT ![p].lk =
       x]
      BY <2>3
    <3> QED  BY <1>1, <1>5, <1>6, <3>1
  <2> QED  BY <2>1, <2>2, <2>3
<1>8. Request' = Request
  BY DEF Request
<1> QED  BY <1>7, <1>8 DEF ReqType, Request

\* The directory without a record, and the writer at rest, have their types.
LEMMA RestIs ==
    ASSUME StoreType
    PROVE  NoDir \in Record /\ AtRest \in [at : {"idle", "write"}, snap :
       Record]
<1>1. 0 \in 0..gens
  BY Bounds DEF StoreType
<1>2. NoDir \in Record
  BY <1>1 DEF NoDir, Record
<1> QED  BY <1>2 DEF AtRest

\* The directory is removed or stays as it is.
LEMMA DirGone ==
    ASSUME UploadInv, gens' = gens, dir' = dir \/ dir' = NoDir
    PROVE  DirType'
<1>1. NoDir \in Record /\ dir \in Record
  BY RestIs DEF UploadInv, DirType
<1>2. Record' = Record
  BY DEF Record
<1> QED  BY <1>1, <1>2 DEF DirType

\* A request begins.
LEMMA NewType ==
    ASSUME ReqType, NEW p \in Client, NEW r \in Request, gens' = gens,
           req' = [req EXCEPT ![p] = r]
    PROVE  ReqType'
<1>1. req' \in [Client -> Request]
  BY ReqIs
<1>2. Request' = Request
  BY DEF Request
<1> QED  BY <1>1, <1>2 DEF ReqType, Request

\* A registration takes the next number; the objects of the other
\* generations keep what the clean-ups go by, and the files their bytes.
LEMMA Registered ==
    ASSUME UploadInv,
           NEW session \in [temp : BOOLEAN, sums : Sums, done : BOOLEAN,
                            merging : BOOLEAN, res : BOOLEAN],
           Register(session)
    PROVE  /\ gens' = gens + 1 /\ cur' = gens + 1 /\ cur' \in Gen /\ cur' # 0
           /\ gens \in Nat /\ gens + 1 \in 0..MaxGen
           /\ \A x \in 0..gens : x \in 0..gens'
           /\ \A x \in 1..gens : x \in 1..gens'
           /\ obj'[cur'] = session
           /\ \A g \in Gen \ {cur'} :
                 obj'[g].temp = obj[g].temp /\ obj'[g].res = obj[g].res
           /\ \A f \in Gen : f \in {temp, final} => bytes'[f] = bytes[f]
           /\ StoreType' /\ ObjType' /\ BytesType'
<1> DEFINE Session == [temp : BOOLEAN, sums : Sums, done : BOOLEAN,
                       merging : BOOLEAN, res : BOOLEAN]
<1>1. /\ gens' = gens + 1 /\ cur' = gens' /\ gens < MaxGen
      /\ gens \in 0..MaxGen /\ MaxGen \in Nat
  BY Bounds DEF Register, UploadInv, StoreType
<1>2. /\ cur' = gens + 1 /\ cur' \in 1..MaxGen /\ gens \in Nat
      /\ gens + 1 \in 0..MaxGen
      /\ \A x \in 0..gens : x \in 0..gens'
      /\ \A x \in 1..gens : x \in 1..gens'
  BY ONLY <1>1
<1>3. StoreType'
  BY ONLY <1>1 DEF StoreType
<1>4. NoSums \in Sums
  BY DEF NoSums, Sums, Val
<1>5. NewSession \in Session
  BY <1>4 DEF NewSession
<1>6. \A o \in Session :
         /\ \A b \in BOOLEAN :
               [o EXCEPT !.temp = b] \in Session /\ [o EXCEPT !.temp = b].temp
                  = b
         /\ \A b \in BOOLEAN :
               /\ [o EXCEPT !.res = b] \in Session /\ [o EXCEPT !.res = b].res
                  = b
               /\ [o EXCEPT !.res = b].temp = o.temp
  OBVIOUS
<1>7. obj \in [Gen -> Session]
  BY DEF UploadInv, ObjType
<1> DEFINE old(g) == [NewSession EXCEPT !.temp = obj[g].temp,
                                        !.res = obj[g].res]
<1>8. obj' = [g \in Gen |-> IF g = gens' THEN session ELSE old(g)]
  BY DEF Register
<1>9. \A g \in Gen : obj[g].temp \in BOOLEAN /\ obj[g].res \in BOOLEAN
  BY <1>7
<1>10. ASSUME NEW g \in Gen
       PROVE  /\ old(g) \in Session /\ old(g).temp = obj[g].temp
              /\ old(g).res = obj[g].res
  <2>1. old(g) = [[NewSession EXCEPT !.temp = obj[g].temp]
                  EXCEPT !.res = obj[g].res]
    OBVIOUS
  <2> DEFINE o == [NewSession EXCEPT !.temp = obj[g].temp]
  <2>2. o \in Session /\ o.temp = obj[g].temp
    BY <1>5, <1>6, <1>9
  <2> HIDE DEF o, Session
  <2>3. [o EXCEPT !.res = obj[g].res] \in Session
    BY <1>6, <1>9, <2>2
  <2>4. [o EXCEPT !.res = obj[g].res].res = obj[g].res
    BY <1>6, <1>9, <2>2
  <2>5. [o EXCEPT !.res = obj[g].res].temp = obj[g].temp
    BY <1>6, <1>9, <2>2
  <2> QED  BY <2>1, <2>3, <2>4, <2>5 DEF o
<1> HIDE DEF Session, old
<1>11. session \in Session /\ Gen = 1..MaxGen
  BY Bounds DEF Session
<1>12. obj' \in [Gen -> Session]
  BY <1>8, <1>10, <1>11
<1>13. obj'[cur'] = session
  BY <1>1, <1>2, <1>8, <1>11
<1>14. \A g \in Gen \ {cur'} :
          obj'[g].temp = obj[g].temp /\ obj'[g].res = obj[g].res
  BY <1>1, <1>8, <1>10
<1>15. ObjType'
  BY <1>12 DEF ObjType, Session
<1>16. BytesType'
  BY <1>4 DEF Register, UploadInv, BytesType
<1>17. \A f \in Gen : f \in {temp, final} => bytes'[f] = bytes[f]
  BY DEF Register
<1>18. cur' \in Gen /\ cur' # 0
  BY <1>2, <1>11
<1> QED
  BY <1>1, <1>2, <1>3, <1>13, <1>14, <1>15, <1>16, <1>17, <1>18

\* The types that go up with the number of registrations.
LEMMA RegisteredTypes ==
    ASSUME UploadInv, \A x \in 0..gens : x \in 0..gens',
           \A x \in 1..gens : x \in 1..gens'
    PROVE  /\ temp' = temp /\ final' = final => NameType'
           /\ sweep' = sweep => SweepType'
           /\ UNCHANGED <<queue, pers>> => PersType'
           /\ UNCHANGED <<later, abandoned, faults>> /\ overlap' \in BOOLEAN
              =>
                 PastType'
           /\ \A r \in Record : r \in Record'
           /\ \A r \in Request : r \in Request'
<1>1. temp' = temp /\ final' = final => NameType'
  BY DEF UploadInv, NameType
<1>2. sweep' = sweep => SweepType'
  BY DEF UploadInv, SweepType
<1>3. \A r \in Record : r \in Record'
  BY DEF Record
<1>4. UNCHANGED <<queue, pers>> => PersType'
  BY <1>3 DEF UploadInv, PersType
<1>5. ASSUME UNCHANGED <<later, abandoned, faults>>, overlap' \in BOOLEAN
      PROVE  PastType'
  BY <1>5 DEF UploadInv, PastType
<1>6. \A r \in Request : r \in Request'
  BY DEF Request
<1> QED  BY <1>1, <1>2, <1>3, <1>4, <1>5, <1>6

\* What recovery makes of the record and the sums it finds.
LEMMA RestoredIs ==
    ASSUME UploadInv
    PROVE  /\ Restored \in [temp : BOOLEAN, sums : Sums, done : BOOLEAN,
                            merging : BOOLEAN, res : BOOLEAN]
           /\ ~Restored.merging
           /\ \A i \in Chunk : Restored.sums[i] # "none" => side[i] # "none"
           /\ \A i \in Chunk : temp # 0 /\ bytes[temp][i] = side[i] =>
                 Restored.sums[i] = side[i]
<1> DEFINE kept == [i \in Chunk |-> IF temp # 0 /\ bytes[temp][i] = side[i]
                                    THEN side[i] ELSE "none"]
           sums == IF dir.temp THEN kept ELSE side
<1>1. side \in [Chunk -> Val] /\ "none" \in Val
  BY DEF UploadInv, SideType, Sums, Val
<1>2. sums \in Sums /\ \A i \in Chunk : sums[i] # "none" => side[i] # "none"
  BY <1>1 DEF Sums
<1>3. \A i \in Chunk :
         temp # 0 /\ bytes[temp][i] = side[i] => sums[i] = side[i]
  BY <1>1
<1>4. Restored = [[[NewSession EXCEPT !.temp = dir.temp]
                   EXCEPT !.done = dir.done] EXCEPT !.sums = sums]
  BY DEF Restored
<1>5. dir.temp \in BOOLEAN /\ dir.done \in BOOLEAN
  BY DEF UploadInv, DirType, Record
<1> HIDE DEF kept, sums
<1>6. Restored = [temp |-> dir.temp, sums |-> sums, done |-> dir.done,
                  merging |-> FALSE, res |-> FALSE]
  BY <1>4 DEF NewSession
<1> QED  BY <1>2, <1>3, <1>5, <1>6

\* A session object changes in one field.
LEMMA ObjField ==
    ASSUME ObjType, NEW g \in Gen,
           \/ \E b \in BOOLEAN : obj' = [obj EXCEPT ![g].temp = b]
           \/ \E b \in BOOLEAN : obj' = [obj EXCEPT ![g].done = b]
           \/ \E b \in BOOLEAN : obj' = [obj EXCEPT ![g].merging = b]
           \/ \E b \in BOOLEAN : obj' = [obj EXCEPT ![g].res = b]
           \/ \E s \in Sums : obj' = [obj EXCEPT ![g].sums = s]
    PROVE  ObjType'
<1> DEFINE Session == [temp : BOOLEAN, sums : Sums, done : BOOLEAN,
                       merging : BOOLEAN, res : BOOLEAN]
<1>1. \A o \in Session :
         /\ \A b \in BOOLEAN : [o EXCEPT !.temp = b] \in Session
         /\ \A b \in BOOLEAN : [o EXCEPT !.done = b] \in Session
         /\ \A b \in BOOLEAN : [o EXCEPT !.merging = b] \in Session
         /\ \A b \in BOOLEAN : [o EXCEPT !.res = b] \in Session
         /\ \A s \in Sums : [o EXCEPT !.sums = s] \in Session
  OBVIOUS
<1>2. obj \in [Gen -> Session]
  BY DEF ObjType
<1> HIDE DEF Session
<1>3. obj' \in [Gen -> Session]
  <2>1. CASE \E b \in BOOLEAN : obj' = [obj EXCEPT ![g].temp = b]
    BY <1>1, <1>2, <2>1
  <2>2. CASE \E b \in BOOLEAN : obj' = [obj EXCEPT ![g].done = b]
    BY <1>1, <1>2, <2>2
  <2>3. CASE \E b \in BOOLEAN : obj' = [obj EXCEPT ![g].merging = b]
    BY <1>1, <1>2, <2>3
  <2>4. CASE \E b \in BOOLEAN : obj' = [obj EXCEPT ![g].res = b]
    BY <1>1, <1>2, <2>4
  <2>5. CASE \E s \in Sums : obj' = [obj EXCEPT ![g].sums = s]
    BY <1>1, <1>2, <2>5
  <2> QED  BY <2>1, <2>2, <2>3, <2>4, <2>5
<1> QED  BY <1>3 DEF ObjType, Session

\* An action is one of its cases.
LEMMA InitCases ==
    ASSUME NEW p \in Client, UploadInv
    PROVE  /\ Route(p) => \E here \in BOOLEAN : Routed(p, here)
           /\ PublishTemp(p) => NamedHere(p) \/ NamedGone(p)
           /\ InitSnapshot(p) => SnapKept(p) \/ SnapOver(p) \/ SnapUndone(p)
<1>1. ASSUME Route(p) PROVE \E here \in BOOLEAN : Routed(p, here)
  <2>1. Routed(p, cur = req[p].g)
    BY <1>1 DEF Route, Routed
  <2> QED  BY <2>1
<1>2. ASSUME PublishTemp(p), cur = req[p].g PROVE NamedHere(p)
  <2>1. req' = [req EXCEPT ![p].at = "snap"]
    <3>1. req[p].ok
      BY <1>2 DEF PublishTemp, UploadInv, Published
    <3>2. req' = [req EXCEPT ![p] = [[req[p] EXCEPT !.ok = TRUE]
                                     EXCEPT !.at = "snap"]]
      BY <1>2, <3>1 DEF PublishTemp
    <3>3. [req[p] EXCEPT !.ok = TRUE] = req[p]
      BY <3>1 DEF UploadInv, ReqType
    <3> QED  BY <3>2, <3>3
  <2> QED  BY <1>2, <2>1 DEF PublishTemp, NamedHere, Goto
<1>3. ASSUME PublishTemp(p), cur # req[p].g PROVE NamedGone(p)
  BY <1>3 DEF PublishTemp, NamedGone
<1>4. InitSnapshot(p) => SnapKept(p) \/ SnapOver(p) \/ SnapUndone(p)
  BY DEF InitSnapshot, SnapKept, SnapOver, SnapUndone
<1> QED  BY <1>1, <1>2, <1>3, <1>4

\* As InitCases.
LEMMA ChunkCases ==
    ASSUME NEW p \in Client
    PROVE  /\ ChunkRecheck(p) => Refused(p) \/ Accepted(p)
           /\ ChunkOpen(p) => Refused(p) \/ Opened(p)
           /\ ChunkPut(p) => PutDone(p) \/ PutFails(p)
           /\ ChunkSidecar(p) => Refused(p) \/ Stored(p)
           /\ ChunkMark(p) => Refused(p) \/ Marked(p)
<1>1. ChunkRecheck(p) => Refused(p) \/ Accepted(p)
  BY DEF ChunkRecheck, Refused, Accepted
<1>2. ChunkOpen(p) => Refused(p) \/ Opened(p)
  BY DEF ChunkOpen, Refused, Opened
<1>3. ChunkPut(p) => PutDone(p) \/ PutFails(p)
  BY DEF ChunkPut, PutDone, PutFails
<1>4. ChunkSidecar(p) => Refused(p) \/ Stored(p)
  BY DEF ChunkSidecar, Refused, Stored, record
<1>5. ChunkMark(p) => Refused(p) \/ Marked(p)
  BY DEF ChunkMark, Refused, Marked, store, background
<1> QED  BY <1>1, <1>2, <1>3, <1>4, <1>5

\* As InitCases.
LEMMA CompleteCases ==
    ASSUME NEW p \in Client, UploadInv
    PROVE  /\ CompleteCheck(p) => Refused(p) \/ AllThere(p)
           /\ BeginComplete(p) => Refused(p) \/ Begun(p)
           /\ AcquireTarget(p) => Acquired(p) \/ Locked(p)
           /\ Verify(p) => \/ FoundIntact(p) \/ FoundNothing(p)
                           \/ \E sums \in Sums : FoundOther(p, sums)
           /\ Finish(p) => Finished(p) \/ FinishedOnly(p)
<1>0. CompleteCheck(p) => Refused(p) \/ AllThere(p)
  BY DEF CompleteCheck, Refused, AllThere
<1>1. BeginComplete(p) => Refused(p) \/ Begun(p)
  BY DEF BeginComplete, Refused, Begun, store
<1>2. AcquireTarget(p) => Acquired(p) \/ Locked(p)
  BY DEF AcquireTarget, Acquired, Locked
<1>3. ASSUME Verify(p)
      PROVE  \/ FoundIntact(p) \/ FoundNothing(p)
             \/ \E sums \in Sums : FoundOther(p, sums)
  <2>1. CASE temp # 0 /\ Intact(temp)
    BY <1>3, <2>1 DEF Verify, FoundIntact, store, background
  <2>2. CASE temp # 0 /\ ~Intact(temp) /\ cur # 0
    <3> DEFINE differing == {i \in Chunk : bytes[temp][i] # req[p].sums[i]}
               mismatch == IF differing = {} THEN Chunk ELSE differing
               sums == [i \in Chunk |-> IF i \in mismatch THEN "none"
                                       ELSE obj[cur].sums[i]]
    <3>1. obj' = [obj EXCEPT ![cur].sums = sums]
      BY <1>3, <2>2 DEF Verify
    <3>2. req[p].at = "verify" /\ queue' = TRUE /\ GiveUp(p)
      BY <1>3, <2>2 DEF Verify
    <3>3. cur \in Gen
      BY <2>2, Bounds DEF UploadInv, StoreType
    <3>4. obj[cur].sums \in [Chunk -> {"none", "good", "bad"}]
      BY <3>3 DEF UploadInv, ObjType, Sums, Val
    <3>5. sums \in Sums
      BY <3>4 DEF Sums, Val
    <3>6. \A i \in Chunk : sums[i] \in {"none", obj[cur].sums[i]}
      OBVIOUS
    <3>7. UNCHANGED <<cur, gens, resv, epoch, files, record, sweep, pers,
                      later, overlap, abandoned, faults>>
      BY <1>3 DEF Verify
    <3> HIDE DEF sums
    <3>8. FoundOther(p, sums)
      BY <2>2, <3>1, <3>2, <3>6, <3>7 DEF FoundOther
    <3> QED  BY <3>5, <3>8
  <2>3. CASE temp # 0 => ~Intact(temp) /\ cur = 0
    BY <1>3, <2>3 DEF Verify, FoundNothing, store, background
  <2> QED  BY <2>1, <2>2, <2>3
<1>4. Finish(p) => Finished(p) \/ FinishedOnly(p)
  BY DEF Finish, Finished, FinishedOnly, store, background
<1> QED  BY <1>0, <1>1, <1>2, <1>3, <1>4

-----------------------------------------------------------------------------
(* The invariant, one step of the program at a time.                        *)

\* Registration: the id has a new session, and whoever still works for an
\* older one is known to.
LEMMA InitBeginStep ==
    ASSUME UploadInv, NEW p \in Client, InitBegin(p)
    PROVE  UploadInv'
<1>a. NewSession \in [temp : BOOLEAN, sums : Sums, done : BOOLEAN,
                       merging : BOOLEAN, res : BOOLEAN]
  <2>1. NoSums \in Sums
    BY DEF NoSums, Sums, Val
  <2> QED  BY <2>1 DEF NewSession
<1>b. Register(NewSession)
  BY DEF InitBegin
<1>c. /\ gens' = gens + 1 /\ cur' = gens + 1 /\ cur' \in Gen /\ cur' # 0
      /\ gens \in Nat /\ gens + 1 \in 0..MaxGen
      /\ \A x \in 0..gens : x \in 0..gens'
      /\ \A x \in 1..gens : x \in 1..gens'
      /\ StoreType' /\ ObjType' /\ BytesType'
  BY <1>a, <1>b, Registered
<1>d. /\ obj'[cur'] = NewSession
      /\ \A g \in Gen \ {cur'} : obj'[g].res = obj[g].res
  BY <1>a, <1>b, Registered
<1>e. /\ ~obj'[cur'].temp /\ ~obj'[cur'].done /\ ~obj'[cur'].merging
      /\ \A i \in Chunk : obj'[cur'].sums[i] = "none"
  BY <1>d DEF NewSession, NoSums
<1>f. /\ req'[p].at = "route" /\ req'[p].g = gens + 1 /\ req'[p].fh = 0
      /\ \A q \in Client \ {p} : req'[q] = req[q]
  BY <1>c DEF InitBegin, Idle, UploadInv, ReqType
<1>g. /\ overlap' \in BOOLEAN /\ (overlap => overlap')
      /\ ~overlap' => \A q \in Client \ {p} : req'[q].at = "idle"
  <2> DEFINE met == \/ pers # AtRest
                    \/ \E q \in Client \ {p} : req[q] # Idle
  <2>1. overlap' = (overlap \/ met)
    BY DEF InitBegin
  <2>2. overlap' \in BOOLEAN
    BY <2>1
  <2>3. overlap => overlap'
    BY <2>1
  <2>4. ~overlap' => ~met
    BY <2>1
  <2>5. \A q \in Client \ {p} : req[q] = Idle => req'[q].at = "idle"
    BY <1>f DEF Idle
  <2> QED  BY <2>2, <2>3, <2>4, <2>5
<1>h. \A q \in Client : req[q].at \notin InInit
  BY Bounds DEF InitBegin, UploadInv, FileLock
<1>i. \A q \in Client \ {p} : req'[q].at \notin InInit
  BY <1>f, <1>h
<1>j. resv'[cur'] = "none" /\ resv' = resv /\ final' = 0
  BY <1>c DEF InitBegin, UploadInv, Fresh
<1>1. ResvType' /\ SideType'
  BY DEF UploadInv, ResvType, SideType, InitBegin
<1>2. StoreType'
  BY <1>c
<1>3. ObjType'
  BY <1>c
<1>4. LockType'
  BY DEF UploadInv, LockType, InitBegin
<1>5. NameType'
  BY <1>c, RegisteredTypes DEF InitBegin
<1>6. BytesType'
  BY <1>c
<1>7. DirType'
  <2>1. dir' = [NoDir EXCEPT !.g = gens + 1]
    BY <1>c DEF InitBegin
  <2>2. NoDir \in Record'
    BY <1>c, RestIs, RegisteredTypes DEF UploadInv
  <2>3. gens + 1 \in 0..gens'
    BY <1>c
  <2>4. dir' \in Record'
    BY <2>1, <2>2, <2>3 DEF Record
  <2> QED  BY <2>4 DEF DirType
<1>8. SweepType'
  BY <1>c, RegisteredTypes DEF InitBegin, background
<1>9. PersType'
  BY <1>c, RegisteredTypes DEF InitBegin, background
<1>10. PastType'
  BY <1>c, <1>g, RegisteredTypes DEF InitBegin, background
<1>11. ReqType'
  <2> DEFINE a == [Idle EXCEPT !.at = "route"]
             b == [a EXCEPT !.g = gens + 1]
  <2>1. req' = [req EXCEPT ![p] = b]
    BY <1>c DEF InitBegin
  <2>2. Idle \in Request'
    BY <1>c, IdleIs, RegisteredTypes DEF UploadInv
  <2>3. "route" \in Place /\ gens + 1 \in 0..gens'
    BY <1>c DEF Place, InInit
  <2>4. \A r \in Request' :
           /\ \A x \in Place : [r EXCEPT !.at = x] \in Request'
           /\ \A x \in 0..gens' : [r EXCEPT !.g = x] \in Request'
    BY DEF Request
  <2>5. a \in Request'
    BY <2>2, <2>3, <2>4
  <2> HIDE DEF a
  <2>6. b \in Request'
    BY <2>3, <2>4, <2>5
  <2> HIDE DEF b
  <2>7. req \in [Client -> Request']
    <3>1. req \in [Client -> Request]
      BY ReqIs DEF UploadInv
    <3>2. \A r \in Request : r \in Request'
      BY <1>c, RegisteredTypes
    <3> QED  BY <3>1, <3>2
  <2>8. req' \in [Client -> Request']
    BY <2>1, <2>6, <2>7
  <2> QED  BY <2>8 DEF ReqType, Request
<1>12. Knows'
  BY <1>c, <1>f DEF UploadInv, Knows, InInit, Completing, Writing
<1>13. FileLock'
  BY Bounds DEF UploadInv, FileLock, InitBegin, ReqType
<1>14. Fresh'
  BY <1>c, <1>j, Bounds DEF UploadInv, Fresh
<1>15. InitAlone'
  BY <1>c, <1>e, <1>f, <1>i, <1>j DEF InitAlone, Early, InInit
<1>16. EarlyAlone'
  BY <1>e, <1>f, <1>g DEF EarlyAlone, Early, Writing, Completing
<1>17. CurHeld'
  BY <1>j DEF CurHeld
<1>18. DoneSettled'
  BY <1>e DEF DoneSettled
<1>19. Published'
  BY <1>f, <1>i DEF Published, InInit
<1>20. CompleteKnows'
  BY <1>f, <1>g DEF CompleteKnows, Completing
<1>21. Owned'
  <2> SUFFICES ASSUME NEW g \in Gen, resv'[g] = "held" PROVE Owner(g)'
    BY DEF Owned
  <2>1. resv[g] = "held" /\ g # cur' /\ Owner(g)
    BY <1>j DEF UploadInv, Owned
  <2>2. CASE overlap \/ g \in abandoned
    BY <1>g, <2>2 DEF InitBegin, Owner
  <2>3. CASE cur = g
    BY <1>g, <2>1, <2>3, Bounds
       DEF InitBegin, UploadInv, DoneSettled, StoreType, Owner
  <2>4. CASE sweep = [at |-> "release", g |-> g] /\ obj[g].res
    BY <1>d, <2>1, <2>4 DEF InitBegin, background, Owner
  <2>5. CASE \E q \in Client : req[q].g = g /\ req[q].at \in InInit
    BY <1>h, <2>5
  <2> QED  BY <2>1, <2>2, <2>3, <2>4, <2>5 DEF Owner
<1>22. LaterDone'
  BY <1>c DEF LaterDone, InitBegin, background, UploadInv, PastType
<1>23. RecordOwned'
  BY DEF UploadInv, RecordOwned, NoDir, Asleep, InitBegin, Register, NoSums,
      NewSession, background, Idle, AtRest
<1>24. MergingSeen'
  BY <1>e DEF MergingSeen
<1>25. OneMerge'
  BY <1>f, <1>g DEF OneMerge, InMerge
<1>26. SameLock'
  BY <1>f, <1>g DEF SameLock, Writing, Completing
<1>27. OneFile'
  BY <1>j DEF OneFile
<1>28. Checked'
  BY <1>f, <1>g DEF Checked
<1>29. VerifiedLands'
  BY <1>j DEF VerifiedLands
<1>30. SideFirst'
  BY <1>e, <1>f, <1>g DEF SideFirst
<1> QED  BY <1>1, <1>2, <1>3, <1>4, <1>5, <1>6, <1>7, <1>8, <1>9, <1>10,
    <1>11, <1>12, <1>13, <1>14, <1>15, <1>16, <1>17, <1>18, <1>19, <1>20,
    <1>21, <1>22, <1>23, <1>24, <1>25, <1>26, <1>27, <1>28, <1>29, <1>30 DEF
    UploadInv

\* The route and the reservation are published, if the session is still
\* there.
LEMMA RoutedStep ==
    ASSUME UploadInv, NEW p \in Client, NEW here \in BOOLEAN, Routed(p, here)
    PROVE  UploadInv'
<1>1. StoreType' /\ LockType' /\ NameType' /\ BytesType' /\ DirType' /\
    SideType' /\ SweepType' /\ PersType' /\ PastType' /\ RecordOwned' /\
    VerifiedLands'
  BY DEF UploadInv, StoreType, LockType, NameType, BytesType, DirType,
      Record, SideType, SweepType, PersType, PastType, RecordOwned, NoDir,
      Asleep, VerifiedLands, Intact, Routed, files, record, background
<1>2. ObjType'
  <2>1. ObjType
    BY DEF UploadInv
  <2>2. req[p].g \in Gen
    BY Bounds DEF UploadInv, StoreType, ReqType, Knows, InInit, Routed
  <2>3. \E b \in BOOLEAN : obj' = [obj EXCEPT ![req[p].g].res = b]
    BY DEF Routed
  <2> QED  BY <2>1, <2>2, <2>3, ObjField
<1>3. ResvType'
  BY DEF UploadInv, ResvType, Routed
<1>4. ReqType'
  <2>1. ReqType /\ StoreType /\ gens' = gens
    BY DEF UploadInv, Routed, store
  <2>2. \E x \in BOOLEAN : req' = [req EXCEPT ![p].ok = x, ![p].at = "create"]
    BY DEF Routed
  <2>3. "create" \in Place
    BY DEF Place, InInit, Writing, InMerge
  <2> QED  BY <2>1, <2>2, <2>3, NoteType
<1>5. Knows'
  BY DEF UploadInv, Knows, Routed, ReqType
<1>6. FileLock'
  BY DEF UploadInv, FileLock, Routed, ReqType
<1>7. Fresh'
  BY DEF UploadInv, Fresh, Routed, ReqType
<1>8. InitAlone'
  BY DEF UploadInv, InitAlone, Routed, files, ReqType
<1>9. EarlyAlone'
  BY DEF UploadInv, EarlyAlone, Routed, ReqType
<1>10. CurHeld'
  BY DEF UploadInv, CurHeld, Routed, ResvType, ObjType
<1>11. DoneSettled'
  BY DEF UploadInv, DoneSettled, Routed, InitAlone, InInit
<1>12. Published'
  BY DEF UploadInv, Published, Settling, Routed, background, ReqType
<1>13. CompleteKnows'
  BY DEF UploadInv, CompleteKnows, Routed, ReqType, EarlyAlone
<1>14. Owned'
  BY DEF UploadInv, Owned, Owner, Routed, background, ReqType
<1>15. LaterDone'
  BY DEF UploadInv, LaterDone, Routed, background
<1>16. MergingSeen'
  <2>1. cur' = cur /\ overlap' = overlap
    BY DEF Routed
  <2>2. \A g \in Gen : obj'[g].merging = obj[g].merging
    BY DEF Routed, UploadInv, ObjType
  <2>3. req[p].at = "route" /\ req'[p].at = "create"
    BY DEF Routed, UploadInv, ReqType
  <2>4. \A q \in Client \ {p} : req'[q] = req[q]
    BY DEF Routed, UploadInv, ReqType
  <2>5. cur # 0 => cur \in Gen
    BY Bounds DEF UploadInv, StoreType
  <2>6. \A q \in Client : req[q].at \in InMerge <=> req'[q].at \in InMerge
    BY <2>3, <2>4 DEF InMerge
  <2> QED  BY <2>1, <2>2, <2>5, <2>6 DEF UploadInv, MergingSeen
<1>17. OneMerge'
  <2>1. cur' = cur /\ overlap' = overlap
    BY DEF Routed
  <2>2. \A g \in Gen : obj'[g].merging = obj[g].merging
    BY DEF Routed, UploadInv, ObjType
  <2>3. req[p].at = "route" /\ req'[p].at = "create"
    BY DEF Routed, UploadInv, ReqType
  <2>4. \A q \in Client \ {p} : req'[q] = req[q]
    BY DEF Routed, UploadInv, ReqType
  <2>5. cur # 0 => cur \in Gen
    BY Bounds DEF UploadInv, StoreType
  <2>6. \A q \in Client : req[q].at \in InMerge <=> req'[q].at \in InMerge
    BY <2>3, <2>4 DEF InMerge
  <2> QED  BY <2>1, <2>2, <2>5, <2>6 DEF UploadInv, OneMerge
<1>18. SameLock'
  BY DEF UploadInv, SameLock, Named, Asleep, Routed, files, background,
      ReqType
<1>19. OneFile'
  BY DEF UploadInv, OneFile, Routed, files, ReqType
<1>20. Checked'
  BY DEF UploadInv, Checked, Intact, Routed, files, ReqType
<1>21. SideFirst'
  BY DEF UploadInv, SideFirst, Routed, record, ReqType
<1> QED  BY <1>1, <1>2, <1>3, <1>4, <1>5, <1>6, <1>7, <1>8, <1>9, <1>10,
    <1>11, <1>12, <1>13, <1>14, <1>15, <1>16, <1>17, <1>18, <1>19, <1>20,
    <1>21 DEF UploadInv

\* No volume takes the upload: the session goes, and it had reserved nothing.
LEMMA RouteFailsStep ==
    ASSUME UploadInv, NEW p \in Client, RouteFails(p)
    PROVE  UploadInv'
<1>1. ObjType' /\ BytesType' /\ SweepType' /\ PersType' /\ PastType' /\
    VerifiedLands'
  BY DEF UploadInv, ObjType, BytesType, SweepType, PersType, Record,
      PastType, VerifiedLands, Intact, RouteFails, background
<1>2. StoreType'
  BY DEF UploadInv, StoreType, RouteFails, CleanupIfCurrent
<1>3. ResvType'
  BY DEF UploadInv, ResvType, RouteFails, CleanupIfCurrent, Settled
<1>4. LockType'
  BY DEF UploadInv, LockType, RouteFails, CleanupIfCurrent, DeleteArtifacts
<1>5. NameType'
  BY DEF UploadInv, NameType, RouteFails, CleanupIfCurrent, DeleteArtifacts,
      StoreType
<1>6. DirType'
  <2>1. gens' = gens /\ (dir' = dir \/ dir' = NoDir)
    BY DEF RouteFails, store, record, CleanupIfCurrent, DeleteArtifacts
  <2> QED  BY <2>1, DirGone
<1>7. SideType'
  BY DEF UploadInv, SideType, RouteFails, NoSums, CleanupIfCurrent, Settled,
      DeleteArtifacts, NoDir, record, Sums, Val
<1>8. ReqType'
  <2>1. ReqType /\ StoreType /\ gens' = gens
    BY DEF UploadInv, RouteFails, store
  <2>2. Return(p)
    BY DEF RouteFails
  <2> QED  BY <2>1, <2>2, ReturnType
<1>9. Knows'
  BY DEF UploadInv, Knows, InInit, Completing, Writing, RouteFails, Return,
      Idle
<1>10. FileLock'
  BY DEF UploadInv, FileLock, InInit, RouteFails, Return, Idle, ReqType
<1>11. Fresh'
  BY DEF UploadInv, Fresh, RouteFails, CleanupIfCurrent, Settled, ResvType
<1>12. InitAlone'
  BY DEF UploadInv, InitAlone, InInit, Early, RouteFails, Return, Idle,
      CleanupIfCurrent, Settled
<1>13. EarlyAlone'
  BY DEF UploadInv, EarlyAlone, Early, Writing, Completing, RouteFails,
      Return, Idle, CleanupIfCurrent, Settled
<1>14. CurHeld'
  BY DEF UploadInv, CurHeld, RouteFails, CleanupIfCurrent
<1>15. DoneSettled'
  BY DEF UploadInv, DoneSettled, RouteFails, CleanupIfCurrent
<1>16. Published'
  BY DEF UploadInv, Published, Settling, RouteFails, Return, Idle,
      CleanupIfCurrent, Settled, background, FileLock, InInit
<1>17. CompleteKnows'
  BY Bounds DEF UploadInv, CompleteKnows, Completing, RouteFails, Return,
      Idle, CleanupIfCurrent, Settled, ResvType
<1>18. Owned'
  BY DEF UploadInv, Owned, Owner, InInit, RouteFails, Return, Idle,
      CleanupIfCurrent, Settled, background, InitAlone
<1>19. LaterDone'
  BY DEF UploadInv, LaterDone, RouteFails, CleanupIfCurrent, background,
      PastType
<1>20. RecordOwned'
  BY DEF UploadInv, RecordOwned, Asleep, RouteFails, CleanupIfCurrent,
      DeleteArtifacts, record, background
<1>21. MergingSeen'
  BY DEF UploadInv, MergingSeen, InMerge, RouteFails, Return,
      CleanupIfCurrent
<1>22. OneMerge'
  BY DEF UploadInv, OneMerge, InMerge, RouteFails, Return, Idle,
      CleanupIfCurrent, Settled
<1>23. SameLock'
  BY DEF UploadInv, SameLock, Named, Writing, Completing, Asleep, RouteFails,
      Return, Idle, NoSums, CleanupIfCurrent, Settled, DeleteArtifacts, NoDir,
      background, EarlyAlone, Early
<1>24. OneFile'
  BY DEF UploadInv, OneFile, RouteFails, Return, Idle, NoSums,
      CleanupIfCurrent, Settled, DeleteArtifacts, NoDir
<1>25. Checked'
  BY DEF UploadInv, Checked, Intact, Writing, RouteFails, Return, Idle,
      NoSums, CleanupIfCurrent, Settled, DeleteArtifacts, NoDir
<1>26. SideFirst'
  BY DEF UploadInv, SideFirst, RouteFails, Return, Idle, NoSums,
      CleanupIfCurrent, Settled, DeleteArtifacts, NoDir, record
<1> QED  BY <1>1, <1>2, <1>3, <1>4, <1>5, <1>6, <1>7, <1>8, <1>9, <1>10,
    <1>11, <1>12, <1>13, <1>14, <1>15, <1>16, <1>17, <1>18, <1>19, <1>20,
    <1>21, <1>22, <1>23, <1>24, <1>25, <1>26 DEF UploadInv

\* The in-flight file is created.
LEMMA CreateTempStep ==
    ASSUME UploadInv, NEW p \in Client, CreateTemp(p)
    PROVE  UploadInv'
<1>1. StoreType' /\ ObjType' /\ ResvType' /\ LockType' /\ BytesType' /\
    DirType' /\ SideType' /\ SweepType' /\ PersType' /\ PastType' /\ Fresh' /\
    CurHeld' /\ DoneSettled' /\ LaterDone' /\ RecordOwned' /\ VerifiedLands'
  BY DEF UploadInv, StoreType, ObjType, ResvType, LockType, BytesType,
      DirType, Record, SideType, SweepType, PersType, PastType, Fresh,
      CurHeld, DoneSettled, LaterDone, RecordOwned, NoDir, Asleep,
      VerifiedLands, Intact, CreateTemp, store, record, background
<1>2. NameType'
  BY DEF UploadInv, NameType, CreateTemp, store, ReqType
<1>3. ReqType'
  <2>1. ReqType /\ StoreType /\ gens' = gens
    BY DEF UploadInv, CreateTemp, store
  <2>2. Goto(p, "name")
    BY DEF CreateTemp
  <2>3. "name" \in Place
    BY DEF Place, InInit, Writing, InMerge
  <2> QED  BY <2>1, <2>2, <2>3, GotoType
<1>4. Knows'
  BY DEF UploadInv, Knows, InInit, Completing, Writing, CreateTemp, Goto
<1>5. FileLock'
  BY DEF UploadInv, FileLock, InInit, CreateTemp, Goto
<1>6. InitAlone'
  BY DEF UploadInv, InitAlone, InInit, Early, CreateTemp, Goto, store
<1>7. EarlyAlone'
  BY DEF UploadInv, EarlyAlone, Early, Writing, Completing, CreateTemp, Goto,
      store
<1>8. Published'
  BY DEF UploadInv, Published, Settling, CreateTemp, Goto, store, background
<1>9. CompleteKnows'
  BY DEF UploadInv, CompleteKnows, Completing, CreateTemp, Goto, store
<1>10. Owned'
  BY DEF UploadInv, Owned, Owner, InInit, CreateTemp, Goto, store, background
<1>11. MergingSeen'
  BY DEF UploadInv, MergingSeen, InMerge, CreateTemp, Goto, store
<1>12. OneMerge'
  BY DEF UploadInv, OneMerge, InMerge, CreateTemp, Goto, store
<1>13. SameLock'
  BY DEF UploadInv, SameLock, Named, Writing, Completing, Asleep, CreateTemp,
      Goto, store, background, EarlyAlone, Early
<1>14. OneFile'
  BY DEF UploadInv, OneFile, CreateTemp, Goto, InitAlone, InInit
<1>15. Checked'
  BY DEF UploadInv, Checked, Intact, Writing, CreateTemp, Goto, FileLock,
      InInit
<1>16. SideFirst'
  BY DEF UploadInv, SideFirst, CreateTemp, Goto, store, record
<1> QED  BY <1>1, <1>2, <1>3, <1>4, <1>5, <1>6, <1>7, <1>8, <1>9, <1>10,
    <1>11, <1>12, <1>13, <1>14, <1>15, <1>16 DEF UploadInv

\* The file cannot be created: the session goes with its reservation, or is
\* abandoned.
LEMMA CreateFailsStep ==
    ASSUME UploadInv, NEW p \in Client, CreateFails(p)
    PROVE  UploadInv'
<1>1. ObjType' /\ BytesType' /\ SweepType' /\ PersType' /\ VerifiedLands'
  BY DEF UploadInv, ObjType, BytesType, SweepType, PersType, Record,
      VerifiedLands, Intact, CreateFails, background
<1>2. StoreType'
  BY DEF UploadInv, StoreType, CreateFails, CleanupIfCurrent
<1>3. ResvType'
  BY DEF UploadInv, ResvType, CreateFails, CleanupIfCurrent, Settled
<1>4. LockType'
  BY DEF UploadInv, LockType, CreateFails, CleanupIfCurrent, DeleteArtifacts
<1>5. NameType'
  BY DEF UploadInv, NameType, CreateFails, CleanupIfCurrent, DeleteArtifacts,
      StoreType
<1>6. DirType'
  <2>1. gens' = gens /\ (dir' = dir \/ dir' = NoDir)
    BY DEF CreateFails, store, record, CleanupIfCurrent, DeleteArtifacts
  <2> QED  BY <2>1, DirGone
<1>7. SideType'
  BY DEF UploadInv, SideType, CreateFails, NoSums, CleanupIfCurrent, Settled,
      DeleteArtifacts, NoDir, record, Sums, Val
<1>8. PastType'
  <2>1. PastType /\ req[p].g \in 1..gens
    BY DEF CreateFails, UploadInv, StoreType, ReqType, Knows, InInit
  <2>2. /\ UNCHANGED <<gens, later, overlap, faults>>
        /\ abandoned' = abandoned \cup ({req[p].g} \ {cur})
    BY DEF CreateFails, background
  <2> QED  BY <2>1, <2>2 DEF PastType
<1>9. ReqType'
  <2>1. ReqType /\ StoreType /\ gens' = gens
    BY DEF UploadInv, CreateFails, store
  <2>2. Return(p)
    BY DEF CreateFails
  <2> QED  BY <2>1, <2>2, ReturnType
<1>10. Knows'
  BY DEF UploadInv, Knows, InInit, Completing, Writing, CreateFails, Return,
      Idle
<1>11. FileLock'
  BY DEF UploadInv, FileLock, InInit, CreateFails, Return, Idle, ReqType
<1>12. Fresh'
  BY DEF UploadInv, Fresh, CreateFails, CleanupIfCurrent, Settled, ResvType
<1>13. InitAlone'
  BY Bounds DEF UploadInv, InitAlone, InInit, Early, CreateFails, Return,
      Idle, CleanupIfCurrent, Settled, ResvType
<1>14. EarlyAlone'
  BY DEF UploadInv, EarlyAlone, Early, Writing, Completing, CreateFails,
      Return, Idle, CleanupIfCurrent, Settled
<1>15. CurHeld'
  BY DEF UploadInv, CurHeld, CreateFails, CleanupIfCurrent
<1>16. DoneSettled'
  BY DEF UploadInv, DoneSettled, CreateFails, CleanupIfCurrent
<1>17. Published'
  BY DEF UploadInv, Published, Settling, CreateFails, Return, Idle,
      CleanupIfCurrent, Settled, background, ReqType, FileLock, InInit
<1>18. CompleteKnows'
  BY Bounds DEF UploadInv, CompleteKnows, Completing, CreateFails, Return,
      Idle, CleanupIfCurrent, Settled, ResvType
<1>19. Owned'
  BY DEF UploadInv, Owned, Owner, CreateFails, Return, Idle,
      CleanupIfCurrent, Settled, background, ResvType
<1>20. LaterDone'
  BY DEF UploadInv, LaterDone, CreateFails, CleanupIfCurrent, background,
      PastType
<1>21. RecordOwned'
  BY DEF UploadInv, RecordOwned, Asleep, CreateFails, CleanupIfCurrent,
      DeleteArtifacts, record, background
<1>22. MergingSeen'
  BY DEF UploadInv, MergingSeen, InMerge, CreateFails, Return,
      CleanupIfCurrent
<1>23. OneMerge'
  BY DEF UploadInv, OneMerge, InMerge, CreateFails, Return, Idle,
      CleanupIfCurrent, Settled
<1>24. SameLock'
  BY DEF UploadInv, SameLock, Named, Writing, Completing, Asleep,
      CreateFails, Return, Idle, NoSums, CleanupIfCurrent, Settled,
      DeleteArtifacts, NoDir, background, EarlyAlone, Early
<1>25. OneFile'
  BY DEF UploadInv, OneFile, CreateFails, Return, Idle, NoSums,
      CleanupIfCurrent, Settled, DeleteArtifacts, NoDir
<1>26. Checked'
  BY DEF UploadInv, Checked, Intact, Writing, CreateFails, Return, Idle,
      NoSums, CleanupIfCurrent, Settled, DeleteArtifacts, NoDir
<1>27. SideFirst'
  BY DEF UploadInv, SideFirst, CreateFails, Return, Idle, NoSums,
      CleanupIfCurrent, Settled, DeleteArtifacts, NoDir, record
<1> QED  BY <1>1, <1>2, <1>3, <1>4, <1>5, <1>6, <1>7, <1>8, <1>9, <1>10,
    <1>11, <1>12, <1>13, <1>14, <1>15, <1>16, <1>17, <1>18, <1>19, <1>20,
    <1>21, <1>22, <1>23, <1>24, <1>25, <1>26, <1>27 DEF UploadInv

\* The session names the file.
LEMMA NamedHereStep ==
    ASSUME UploadInv, NEW p \in Client, NamedHere(p)
    PROVE  UploadInv'
<1>1. StoreType' /\ ResvType' /\ LockType' /\ NameType' /\ BytesType' /\
    DirType' /\ SideType' /\ SweepType' /\ PersType' /\ PastType' /\ Fresh' /\
    RecordOwned' /\ VerifiedLands'
  BY DEF UploadInv, StoreType, ResvType, LockType, NameType, BytesType,
      DirType, Record, SideType, SweepType, PersType, PastType, Fresh,
      RecordOwned, NoDir, Asleep, VerifiedLands, Intact, NamedHere, files,
      record, background
<1>2. ObjType'
  <2>1. ObjType
    BY DEF UploadInv
  <2>2. req[p].g \in Gen
    BY Bounds DEF UploadInv, StoreType, ReqType, Knows, InInit, NamedHere
  <2>3. \E b \in BOOLEAN : obj' = [obj EXCEPT ![req[p].g].temp = b]
    BY DEF NamedHere
  <2> QED  BY <2>1, <2>2, <2>3, ObjField
<1>3. ReqType'
  <2>1. ReqType /\ StoreType /\ gens' = gens
    BY DEF UploadInv, NamedHere, store
  <2>2. Goto(p, "snap")
    BY DEF NamedHere
  <2>3. "snap" \in Place
    BY DEF Place, InInit, Writing, InMerge
  <2> QED  BY <2>1, <2>2, <2>3, GotoType
<1>4. Knows'
  BY DEF UploadInv, Knows, InInit, Completing, Writing, NamedHere, Goto
<1>5. FileLock'
  BY DEF UploadInv, FileLock, InInit, NamedHere, Goto
<1>6. InitAlone'
  BY DEF UploadInv, InitAlone, InInit, Early, NamedHere, Goto, files,
      ReqType, FileLock
<1>7. EarlyAlone'
  BY DEF UploadInv, EarlyAlone, Early, Writing, Completing, NamedHere, Goto
<1>8. CurHeld'
  BY DEF UploadInv, CurHeld, NamedHere
<1>9. DoneSettled'
  BY DEF UploadInv, DoneSettled, NamedHere
<1>10. Published'
  BY DEF UploadInv, Published, Settling, NamedHere, Goto, background
<1>11. CompleteKnows'
  BY DEF UploadInv, CompleteKnows, Completing, NamedHere, Goto
<1>12. Owned'
  BY DEF UploadInv, Owned, Owner, NamedHere, Goto, background
<1>13. LaterDone'
  BY DEF UploadInv, LaterDone, NamedHere, background
<1>14. MergingSeen'
  BY DEF UploadInv, MergingSeen, InMerge, NamedHere, Goto
<1>15. OneMerge'
  BY DEF UploadInv, OneMerge, InMerge, NamedHere, Goto
<1>16. SameLock'
  BY DEF UploadInv, SameLock, Named, Writing, Completing, Asleep, NamedHere,
      Goto, files, background
<1>17. OneFile'
  BY DEF UploadInv, OneFile, NamedHere, Goto, files
<1>18. Checked'
  BY DEF UploadInv, Checked, Intact, Writing, NamedHere, Goto, files
<1>19. SideFirst'
  BY DEF UploadInv, SideFirst, NamedHere, Goto, record
<1> QED  BY <1>1, <1>2, <1>3, <1>4, <1>5, <1>6, <1>7, <1>8, <1>9, <1>10,
    <1>11, <1>12, <1>13, <1>14, <1>15, <1>16, <1>17, <1>18, <1>19 DEF
    UploadInv

\* The session is gone before it could name the file.
LEMMA NamedGoneStep ==
    ASSUME UploadInv, NEW p \in Client, NamedGone(p)
    PROVE  UploadInv'
<1>1. StoreType' /\ ResvType' /\ LockType' /\ NameType' /\ BytesType' /\
    DirType' /\ SideType' /\ SweepType' /\ PersType' /\ PastType' /\ Fresh' /\
    RecordOwned' /\ VerifiedLands'
  BY DEF UploadInv, StoreType, ResvType, LockType, NameType, BytesType,
      DirType, Record, SideType, SweepType, PersType, PastType, Fresh,
      RecordOwned, NoDir, Asleep, VerifiedLands, Intact, NamedGone, files,
      record, background
<1>2. ObjType'
  <2>1. ObjType
    BY DEF UploadInv
  <2>2. req[p].g \in Gen
    BY Bounds DEF UploadInv, StoreType, ReqType, Knows, InInit, NamedGone
  <2>3. \E b \in BOOLEAN : obj' = [obj EXCEPT ![req[p].g].temp = b]
    BY DEF NamedGone
  <2> QED  BY <2>1, <2>2, <2>3, ObjField
<1>3. ReqType'
  <2>1. ReqType /\ StoreType /\ gens' = gens
    BY DEF UploadInv, NamedGone, store
  <2>2. \E x \in BOOLEAN : req' = [req EXCEPT ![p].ok = x, ![p].at = "snap"]
    BY DEF NamedGone
  <2>3. "snap" \in Place
    BY DEF Place, InInit, Writing, InMerge
  <2> QED  BY <2>1, <2>2, <2>3, NoteType
<1>4. Knows'
  BY DEF UploadInv, Knows, NamedGone, ReqType
<1>5. FileLock'
  BY DEF UploadInv, FileLock, NamedGone, ReqType
<1>6. InitAlone'
  BY DEF UploadInv, InitAlone, NamedGone, files, ReqType
<1>7. EarlyAlone'
  BY DEF UploadInv, EarlyAlone, NamedGone, ReqType
<1>8. CurHeld'
  BY DEF UploadInv, CurHeld, NamedGone
<1>9. DoneSettled'
  BY DEF UploadInv, DoneSettled, NamedGone
<1>10. Published'
  BY DEF UploadInv, Published, Settling, NamedGone, background, ReqType
<1>11. CompleteKnows'
  BY DEF UploadInv, CompleteKnows, NamedGone, ReqType
<1>12. Owned'
  BY DEF UploadInv, Owned, Owner, NamedGone, background, ReqType
<1>13. LaterDone'
  BY DEF UploadInv, LaterDone, NamedGone, background
<1>14. MergingSeen'
  <2>1. cur' = cur /\ overlap' = overlap
    BY DEF NamedGone
  <2>2. \A g \in Gen : obj'[g].merging = obj[g].merging
    BY DEF NamedGone, UploadInv, ObjType
  <2>3. req[p].at = "name" /\ req'[p].at = "snap"
    BY DEF NamedGone, UploadInv, ReqType
  <2>4. \A q \in Client \ {p} : req'[q] = req[q]
    BY DEF NamedGone, UploadInv, ReqType
  <2>5. cur # 0 => cur \in Gen
    BY Bounds DEF UploadInv, StoreType
  <2>6. \A q \in Client : req[q].at \in InMerge <=> req'[q].at \in InMerge
    BY <2>3, <2>4 DEF InMerge
  <2> QED  BY <2>1, <2>2, <2>5, <2>6 DEF UploadInv, MergingSeen
<1>15. OneMerge'
  <2>1. cur' = cur /\ overlap' = overlap
    BY DEF NamedGone
  <2>2. \A g \in Gen : obj'[g].merging = obj[g].merging
    BY DEF NamedGone, UploadInv, ObjType
  <2>3. req[p].at = "name" /\ req'[p].at = "snap"
    BY DEF NamedGone, UploadInv, ReqType
  <2>4. \A q \in Client \ {p} : req'[q] = req[q]
    BY DEF NamedGone, UploadInv, ReqType
  <2>5. cur # 0 => cur \in Gen
    BY Bounds DEF UploadInv, StoreType
  <2>6. \A q \in Client : req[q].at \in InMerge <=> req'[q].at \in InMerge
    BY <2>3, <2>4 DEF InMerge
  <2> QED  BY <2>1, <2>2, <2>5, <2>6 DEF UploadInv, OneMerge
<1>16. SameLock'
  BY DEF UploadInv, SameLock, Named, Asleep, NamedGone, files, background,
      ReqType, ObjType, StoreType, NameType, EarlyAlone
<1>17. OneFile'
  BY DEF UploadInv, OneFile, NamedGone, files, ReqType
<1>18. Checked'
  BY DEF UploadInv, Checked, Intact, NamedGone, files, ReqType
<1>19. SideFirst'
  BY DEF UploadInv, SideFirst, NamedGone, record, ReqType
<1> QED  BY <1>1, <1>2, <1>3, <1>4, <1>5, <1>6, <1>7, <1>8, <1>9, <1>10,
    <1>11, <1>12, <1>13, <1>14, <1>15, <1>16, <1>17, <1>18, <1>19 DEF
    UploadInv

\* Init goes on to write the session.
LEMMA SnapKeptStep ==
    ASSUME UploadInv, NEW p \in Client, SnapKept(p)
    PROVE  UploadInv'
<1>1. StoreType' /\ ObjType' /\ ResvType' /\ LockType' /\ NameType' /\
    BytesType' /\ DirType' /\ SideType' /\ SweepType' /\ PersType' /\
    PastType' /\ Fresh' /\ CurHeld' /\ DoneSettled' /\ LaterDone' /\
    RecordOwned' /\ VerifiedLands'
  BY DEF UploadInv, StoreType, ObjType, ResvType, LockType, NameType,
      BytesType, DirType, Record, SideType, SweepType, PersType, PastType,
      Fresh, CurHeld, DoneSettled, LaterDone, RecordOwned, NoDir, Asleep,
      VerifiedLands, Intact, SnapKept, store, files, record, background
<1>2. ReqType'
  <2>1. ReqType /\ StoreType /\ gens' = gens
    BY DEF UploadInv, SnapKept, store
  <2>2. Goto(p, "write")
    BY DEF SnapKept
  <2>3. "write" \in Place
    BY DEF Place, InInit, Writing, InMerge
  <2> QED  BY <2>1, <2>2, <2>3, GotoType
<1>3. Knows'
  BY DEF UploadInv, Knows, InInit, Completing, Writing, SnapKept, Goto
<1>4. FileLock'
  BY DEF UploadInv, FileLock, InInit, SnapKept, Goto
<1>5. InitAlone'
  BY DEF UploadInv, InitAlone, InInit, Early, SnapKept, Goto, store, files
<1>6. EarlyAlone'
  BY DEF UploadInv, EarlyAlone, Early, Writing, Completing, SnapKept, Goto,
      store
<1>7. Published'
  BY DEF UploadInv, Published, Settling, SnapKept, Goto, store, background
<1>8. CompleteKnows'
  BY DEF UploadInv, CompleteKnows, Completing, SnapKept, Goto, store
<1>9. Owned'
  BY DEF UploadInv, Owned, Owner, SnapKept, Goto, store, background
<1>10. MergingSeen'
  BY DEF UploadInv, MergingSeen, InMerge, SnapKept, Goto, store
<1>11. OneMerge'
  BY DEF UploadInv, OneMerge, InMerge, SnapKept, Goto, store
<1>12. SameLock'
  BY DEF UploadInv, SameLock, Named, Writing, Completing, Asleep, SnapKept,
      Goto, store, files, background
<1>13. OneFile'
  BY DEF UploadInv, OneFile, SnapKept, Goto, files
<1>14. Checked'
  BY DEF UploadInv, Checked, Intact, Writing, SnapKept, Goto, files
<1>15. SideFirst'
  BY DEF UploadInv, SideFirst, SnapKept, Goto, store, record
<1> QED  BY <1>1, <1>2, <1>3, <1>4, <1>5, <1>6, <1>7, <1>8, <1>9, <1>10,
    <1>11, <1>12, <1>13, <1>14, <1>15 DEF UploadInv

\* The session is gone after both publications: whoever took it has its
\* reservation.
LEMMA SnapOverStep ==
    ASSUME UploadInv, NEW p \in Client, SnapOver(p)
    PROVE  UploadInv'
<1>1. StoreType' /\ ObjType' /\ ResvType' /\ NameType' /\ BytesType' /\
    DirType' /\ SideType' /\ SweepType' /\ PersType' /\ PastType' /\ Fresh' /\
    CurHeld' /\ DoneSettled' /\ LaterDone' /\ RecordOwned' /\ VerifiedLands'
  BY DEF UploadInv, StoreType, ObjType, ResvType, NameType, BytesType,
      DirType, Record, SideType, SweepType, PersType, PastType, Fresh,
      CurHeld, DoneSettled, LaterDone, RecordOwned, NoDir, Asleep,
      VerifiedLands, Intact, SnapOver, store, files, record, background
<1>2. LockType'
  BY DEF UploadInv, LockType, SnapOver
<1>3. ReqType'
  <2>1. ReqType /\ StoreType /\ gens' = gens
    BY DEF UploadInv, SnapOver, store
  <2>2. Return(p)
    BY DEF SnapOver
  <2> QED  BY <2>1, <2>2, ReturnType
<1>4. Knows'
  BY DEF UploadInv, Knows, InInit, Completing, Writing, SnapOver, Return,
      Idle
<1>5. FileLock'
  BY DEF UploadInv, FileLock, InInit, SnapOver, Return, Idle, ReqType
<1>6. InitAlone'
  BY DEF UploadInv, InitAlone, InInit, Early, SnapOver, Return, Idle, store,
      files
<1>7. EarlyAlone'
  BY DEF UploadInv, EarlyAlone, Early, Writing, Completing, SnapOver, Return,
      Idle, store
<1>8. Published'
  BY DEF UploadInv, Published, Settling, SnapOver, Return, Idle, store,
      background
<1>9. CompleteKnows'
  BY DEF UploadInv, CompleteKnows, Completing, SnapOver, Return, Idle, store
<1>10. Owned'
  BY DEF UploadInv, Owned, Owner, SnapOver, Return, store, background,
      Published, Settling
<1>11. MergingSeen'
  BY DEF UploadInv, MergingSeen, InMerge, SnapOver, Return, store
<1>12. OneMerge'
  BY DEF UploadInv, OneMerge, InMerge, SnapOver, Return, Idle, store
<1>13. SameLock'
  BY DEF UploadInv, SameLock, Named, Writing, Completing, Asleep, SnapOver,
      Return, Idle, store, files, background
<1>14. OneFile'
  BY DEF UploadInv, OneFile, SnapOver, Return, Idle, files
<1>15. Checked'
  BY DEF UploadInv, Checked, Intact, Writing, SnapOver, Return, Idle, files
<1>16. SideFirst'
  BY DEF UploadInv, SideFirst, SnapOver, Return, Idle, store, record
<1> QED  BY <1>1, <1>2, <1>3, <1>4, <1>5, <1>6, <1>7, <1>8, <1>9, <1>10,
    <1>11, <1>12, <1>13, <1>14, <1>15, <1>16 DEF UploadInv

\* Init has to undo what it did.
LEMMA SnapUndoneStep ==
    ASSUME UploadInv, NEW p \in Client, SnapUndone(p)
    PROVE  UploadInv'
<1>1. StoreType' /\ ObjType' /\ ResvType' /\ LockType' /\ NameType' /\
    BytesType' /\ DirType' /\ SideType' /\ SweepType' /\ PersType' /\
    PastType' /\ Fresh' /\ CurHeld' /\ DoneSettled' /\ LaterDone' /\
    RecordOwned' /\ VerifiedLands'
  BY DEF UploadInv, StoreType, ObjType, ResvType, LockType, NameType,
      BytesType, DirType, Record, SideType, SweepType, PersType, PastType,
      Fresh, CurHeld, DoneSettled, LaterDone, RecordOwned, NoDir, Asleep,
      VerifiedLands, Intact, SnapUndone, store, files, record, background
<1>2. ReqType'
  <2>1. ReqType /\ StoreType /\ gens' = gens
    BY DEF UploadInv, SnapUndone, store
  <2>2. Goto(p, "undo")
    BY DEF SnapUndone
  <2>3. "undo" \in Place
    BY DEF Place, InInit, Writing, InMerge
  <2> QED  BY <2>1, <2>2, <2>3, GotoType
<1>3. Knows'
  BY DEF UploadInv, Knows, InInit, Completing, Writing, SnapUndone, Goto
<1>4. FileLock'
  BY DEF UploadInv, FileLock, InInit, SnapUndone, Goto
<1>5. InitAlone'
  BY DEF UploadInv, InitAlone, InInit, Early, SnapUndone, Goto, store, files
<1>6. EarlyAlone'
  BY DEF UploadInv, EarlyAlone, Early, Writing, Completing, SnapUndone, Goto,
      store
<1>7. Published'
  BY DEF UploadInv, Published, Settling, SnapUndone, Goto, store, background
<1>8. CompleteKnows'
  BY DEF UploadInv, CompleteKnows, Completing, SnapUndone, Goto, store
<1>9. Owned'
  BY DEF UploadInv, Owned, Owner, InInit, SnapUndone, Goto, store, background
<1>10. MergingSeen'
  BY DEF UploadInv, MergingSeen, InMerge, SnapUndone, Goto, store
<1>11. OneMerge'
  BY DEF UploadInv, OneMerge, InMerge, SnapUndone, Goto, store
<1>12. SameLock'
  BY DEF UploadInv, SameLock, Named, Writing, Completing, Asleep, SnapUndone,
      Goto, store, files, background
<1>13. OneFile'
  BY DEF UploadInv, OneFile, SnapUndone, Goto, files
<1>14. Checked'
  BY DEF UploadInv, Checked, Intact, Writing, SnapUndone, Goto, files
<1>15. SideFirst'
  BY DEF UploadInv, SideFirst, SnapUndone, Goto, store, record
<1> QED  BY <1>1, <1>2, <1>3, <1>4, <1>5, <1>6, <1>7, <1>8, <1>9, <1>10,
    <1>11, <1>12, <1>13, <1>14, <1>15 DEF UploadInv

\* Init ends with the session written or not.
LEMMA InitWriteStep ==
    ASSUME UploadInv, NEW p \in Client, InitWrite(p)
    PROVE  UploadInv'
<1>1. StoreType' /\ ObjType' /\ ResvType' /\ NameType' /\ BytesType' /\
    SweepType' /\ PersType' /\ PastType' /\ Fresh' /\ CurHeld' /\ DoneSettled'
    /\ LaterDone' /\ VerifiedLands'
  BY DEF UploadInv, StoreType, ObjType, ResvType, NameType, BytesType,
      SweepType, PersType, Record, PastType, Fresh, CurHeld, DoneSettled,
      LaterDone, VerifiedLands, Intact, InitWrite, store, files, background
<1>2. LockType'
  BY DEF UploadInv, LockType, InitWrite
<1>3. DirType'
  <2> DEFINE r == [g |-> req[p].g, temp |-> TRUE, done |-> FALSE]
  <2>1. gens' = gens /\ (dir' = dir \/ dir' = NoDir \/ dir' = r)
    BY DEF InitWrite, store, WriteRecord
  <2>2. r \in Record
    BY DEF UploadInv, ReqType, Record
  <2>3. dir' = dir \/ dir' = NoDir => DirType'
    BY <2>1, DirGone
  <2>4. Record' = Record
    BY <2>1 DEF Record
  <2> HIDE DEF r
  <2> QED  BY <2>1, <2>2, <2>3, <2>4 DEF DirType
<1>4. SideType'
  BY DEF UploadInv, SideType, InitWrite, WriteRecord
<1>5. ReqType'
  <2>1. ReqType /\ StoreType /\ gens' = gens
    BY DEF UploadInv, InitWrite, store
  <2>2. Return(p)
    BY DEF InitWrite
  <2> QED  BY <2>1, <2>2, ReturnType
<1>6. Knows'
  BY DEF UploadInv, Knows, InInit, Completing, Writing, InitWrite, Return,
      Idle
<1>7. FileLock'
  BY DEF UploadInv, FileLock, InInit, InitWrite, Return, Idle, ReqType
<1>8. InitAlone'
  BY DEF UploadInv, InitAlone, InInit, Early, InitWrite, Return, Idle, store,
      files
<1>9. EarlyAlone'
  BY DEF UploadInv, EarlyAlone, Early, Writing, Completing, InitWrite,
      Return, Idle, store
<1>10. Published'
  BY DEF UploadInv, Published, Settling, InitWrite, Return, Idle, store,
      background
<1>11. CompleteKnows'
  BY DEF UploadInv, CompleteKnows, Completing, InitWrite, Return, Idle, store
<1>12. Owned'
  BY DEF UploadInv, Owned, Owner, InitWrite, Return, store, background,
      Published, Settling
<1>13. RecordOwned'
  BY DEF UploadInv, RecordOwned, Asleep, InitWrite, WriteRecord, store,
      background
<1>14. MergingSeen'
  BY DEF UploadInv, MergingSeen, InMerge, InitWrite, Return, store
<1>15. OneMerge'
  BY DEF UploadInv, OneMerge, InMerge, InitWrite, Return, Idle, store
<1>16. SameLock'
  BY DEF UploadInv, SameLock, Named, Writing, Completing, Asleep, InitWrite,
      Return, Idle, store, files, background
<1>17. OneFile'
  BY DEF UploadInv, OneFile, InitWrite, Return, Idle, files
<1>18. Checked'
  BY DEF UploadInv, Checked, Intact, Writing, InitWrite, Return, Idle, files
<1>19. SideFirst'
  BY DEF UploadInv, SideFirst, InitWrite, Return, Idle, WriteRecord, NoDir,
      store
<1> QED  BY <1>1, <1>2, <1>3, <1>4, <1>5, <1>6, <1>7, <1>8, <1>9, <1>10,
    <1>11, <1>12, <1>13, <1>14, <1>15, <1>16, <1>17, <1>18, <1>19 DEF
    UploadInv

\* The file nobody has named goes, and the reservation with it.
LEMMA InitRollbackStep ==
    ASSUME UploadInv, NEW p \in Client, InitRollback(p)
    PROVE  UploadInv'
<1>1. StoreType' /\ ObjType' /\ BytesType' /\ DirType' /\ SideType' /\
    SweepType' /\ PersType' /\ PastType' /\ LaterDone' /\ RecordOwned' /\
    VerifiedLands'
  BY DEF UploadInv, StoreType, ObjType, BytesType, DirType, Record, SideType,
      SweepType, PersType, PastType, LaterDone, RecordOwned, NoDir, Asleep,
      VerifiedLands, Intact, InitRollback, store, record, background
<1>2. ResvType'
  BY DEF UploadInv, ResvType, InitRollback, Settled
<1>3. LockType'
  BY DEF UploadInv, LockType, InitRollback
<1>4. NameType'
  BY DEF UploadInv, NameType, InitRollback, store, StoreType
<1>5. ReqType'
  <2>1. ReqType /\ StoreType /\ gens' = gens
    BY DEF UploadInv, InitRollback, store
  <2>2. Return(p)
    BY DEF InitRollback
  <2> QED  BY <2>1, <2>2, ReturnType
<1>6. Knows'
  BY DEF UploadInv, Knows, InInit, Completing, Writing, InitRollback, Return,
      Idle, Settled
<1>7. FileLock'
  BY DEF UploadInv, FileLock, InInit, InitRollback, Return, Idle, Settled,
      ReqType
<1>8. Fresh'
  BY DEF UploadInv, Fresh, InitRollback, Settled, store
<1>9. InitAlone'
  BY DEF UploadInv, InitAlone, InInit, Early, InitRollback, Return, Idle,
      Settled, store
<1>10. EarlyAlone'
  BY DEF UploadInv, EarlyAlone, Early, Writing, Completing, InitRollback,
      Return, Idle, Settled, store
<1>11. CurHeld'
  BY DEF UploadInv, CurHeld, InitRollback, Settled, store
<1>12. DoneSettled'
  BY DEF UploadInv, DoneSettled, InitRollback, Settled, store
<1>13. Published'
  BY DEF UploadInv, Published, Settling, InitRollback, Return, Idle, Settled,
      store, background
<1>14. CompleteKnows'
  BY DEF UploadInv, CompleteKnows, Completing, InitRollback, Return, Idle,
      Settled, store
<1>15. Owned'
  BY DEF UploadInv, Owned, Owner, InitRollback, Return, Idle, Settled, store,
      background, ResvType
<1>16. MergingSeen'
  BY DEF UploadInv, MergingSeen, InMerge, InitRollback, Return, store
<1>17. OneMerge'
  BY DEF UploadInv, OneMerge, InMerge, InitRollback, Return, Idle, Settled,
      store
<1>18. SameLock'
  BY DEF UploadInv, SameLock, Named, Writing, Completing, Asleep,
      InitRollback, Return, Idle, Settled, store, background
<1>19. OneFile'
  BY DEF UploadInv, OneFile, InitRollback, Return, Idle, Settled
<1>20. Checked'
  BY DEF UploadInv, Checked, Intact, Writing, InitRollback, Return, Idle,
      Settled
<1>21. SideFirst'
  BY DEF UploadInv, SideFirst, InitRollback, Return, Idle, Settled, store,
      record
<1> QED  BY <1>1, <1>2, <1>3, <1>4, <1>5, <1>6, <1>7, <1>8, <1>9, <1>10,
    <1>11, <1>12, <1>13, <1>14, <1>15, <1>16, <1>17, <1>18, <1>19, <1>20,
    <1>21 DEF UploadInv

\* A chunk arrives and finds the lock object of the session.
LEMMA ChunkBeginStep ==
    ASSUME UploadInv, NEW p \in Client, NEW i \in Chunk, NEW v \in {"good",
        "bad"}, ChunkBegin(p, i, v)
    PROVE  UploadInv'
<1>1. StoreType' /\ ObjType' /\ ResvType' /\ LockType' /\ NameType' /\
    BytesType' /\ DirType' /\ SideType' /\ SweepType' /\ PersType' /\
    PastType' /\ Fresh' /\ CurHeld' /\ DoneSettled' /\ LaterDone' /\
    RecordOwned' /\ VerifiedLands'
  BY DEF UploadInv, StoreType, ObjType, ResvType, LockType, NameType,
      BytesType, DirType, Record, SideType, SweepType, PersType, PastType,
      Fresh, CurHeld, DoneSettled, LaterDone, RecordOwned, NoDir, Asleep,
      VerifiedLands, Intact, ChunkBegin, store, files, record, background
<1>2. ReqType'
  <2>1. ReqType /\ StoreType /\ gens' = gens /\ epoch \in Nat
    BY DEF UploadInv, LockType, ChunkBegin, store
  <2> DEFINE a == [Idle EXCEPT !.at = "lock"]
             b == [a EXCEPT !.i = i]
             c == [b EXCEPT !.v = v]
             d == [c EXCEPT !.lk = epoch]
  <2>2. req' = [req EXCEPT ![p] = d]
    BY DEF ChunkBegin
  <2>3. "lock" \in Place /\ v \in Val /\ i \in Chunk \cup {0}
    BY DEF Place, Val
  <2>4. Idle \in Request
    BY <2>1, IdleIs
  <2>5. \A r \in Request :
           /\ \A x \in Place : [r EXCEPT !.at = x] \in Request
           /\ \A x \in Chunk \cup {0} : [r EXCEPT !.i = x] \in Request
           /\ \A x \in Val : [r EXCEPT !.v = x] \in Request
           /\ \A x \in Nat : [r EXCEPT !.lk = x] \in Request
    BY DEF Request
  <2>6. a \in Request
    BY <2>3, <2>4, <2>5
  <2> HIDE DEF a
  <2>7. b \in Request
    BY <2>3, <2>5, <2>6
  <2> HIDE DEF b
  <2>8. c \in Request
    BY <2>3, <2>5, <2>7
  <2> HIDE DEF c
  <2>9. d \in Request
    BY <2>1, <2>5, <2>8
  <2> HIDE DEF d
  <2> QED  BY <2>1, <2>2, <2>9, NewType
<1>3. Knows'
  BY DEF UploadInv, Knows, InInit, Completing, Writing, ChunkBegin
<1>4. FileLock'
  BY DEF UploadInv, FileLock, InInit, ChunkBegin
<1>5. InitAlone'
  BY DEF UploadInv, InitAlone, InInit, Early, ChunkBegin, store, files
<1>6. EarlyAlone'
  BY DEF UploadInv, EarlyAlone, Early, Writing, Completing, ChunkBegin, store
<1>7. Published'
  BY DEF UploadInv, Published, Settling, ChunkBegin, store, background
<1>8. CompleteKnows'
  BY DEF UploadInv, CompleteKnows, Completing, ChunkBegin, store
<1>9. Owned'
  BY DEF UploadInv, Owned, Owner, InInit, ChunkBegin, Acceptable, store,
      background, Idle
<1>10. MergingSeen'
  BY DEF UploadInv, MergingSeen, ChunkBegin, Acceptable, store, Idle
<1>11. OneMerge'
  BY DEF UploadInv, OneMerge, InMerge, ChunkBegin, store
<1>12. SameLock'
  BY DEF UploadInv, SameLock, Named, Writing, Completing, Asleep, ChunkBegin,
      store, files, background
<1>13. OneFile'
  BY DEF UploadInv, OneFile, ChunkBegin, files
<1>14. Checked'
  BY DEF UploadInv, Checked, Intact, Writing, ChunkBegin, files
<1>15. SideFirst'
  BY DEF UploadInv, SideFirst, ChunkBegin, store, record
<1> QED  BY <1>1, <1>2, <1>3, <1>4, <1>5, <1>6, <1>7, <1>8, <1>9, <1>10,
    <1>11, <1>12, <1>13, <1>14, <1>15 DEF UploadInv

\* A request that holds nothing returns.
LEMMA RefusedStep ==
    ASSUME UploadInv, NEW p \in Client, Refused(p)
    PROVE  UploadInv'
<1>1. StoreType' /\ ObjType' /\ ResvType' /\ LockType' /\ NameType' /\
    BytesType' /\ DirType' /\ SideType' /\ SweepType' /\ PersType' /\
    PastType' /\ Fresh' /\ CurHeld' /\ DoneSettled' /\ LaterDone' /\
    RecordOwned' /\ VerifiedLands'
  BY DEF UploadInv, StoreType, ObjType, ResvType, LockType, NameType,
      BytesType, DirType, Record, SideType, SweepType, PersType, PastType,
      Fresh, CurHeld, DoneSettled, LaterDone, RecordOwned, NoDir, Asleep,
      VerifiedLands, Intact, Refused, store, files, record, background
<1>2. ReqType'
  <2>1. ReqType /\ StoreType /\ gens' = gens
    BY DEF UploadInv, Refused, store
  <2>2. Return(p)
    BY DEF Refused
  <2> QED  BY <2>1, <2>2, ReturnType
<1>3. Knows'
  BY DEF UploadInv, Knows, InInit, Completing, Writing, Refused, Return, Idle
<1>4. FileLock'
  BY DEF UploadInv, FileLock, InInit, Refused, Return, Idle
<1>5. InitAlone'
  BY DEF UploadInv, InitAlone, InInit, Early, Refused, Return, Idle, store,
      files
<1>6. EarlyAlone'
  BY DEF UploadInv, EarlyAlone, Early, Writing, Completing, Refused, Return,
      Idle, store
<1>7. Published'
  BY DEF UploadInv, Published, Settling, Refused, Return, Idle, store,
      background
<1>8. CompleteKnows'
  BY DEF UploadInv, CompleteKnows, Completing, Refused, Return, Idle, store
<1>9. Owned'
  BY DEF UploadInv, Owned, Owner, InInit, Refused, Return, store, background
<1>10. MergingSeen'
  BY DEF UploadInv, MergingSeen, InMerge, Refused, Return, store
<1>11. OneMerge'
  BY DEF UploadInv, OneMerge, InMerge, Refused, Return, Idle, store
<1>12. SameLock'
  BY DEF UploadInv, SameLock, Named, Writing, Completing, Asleep, Refused,
      Return, Idle, store, files, background
<1>13. OneFile'
  BY DEF UploadInv, OneFile, Refused, Return, Idle, files
<1>14. Checked'
  BY DEF UploadInv, Checked, Intact, Writing, Refused, Return, Idle, files
<1>15. SideFirst'
  BY DEF UploadInv, SideFirst, Refused, Return, Idle, store, record
<1> QED  BY <1>1, <1>2, <1>3, <1>4, <1>5, <1>6, <1>7, <1>8, <1>9, <1>10,
    <1>11, <1>12, <1>13, <1>14, <1>15 DEF UploadInv

\* A chunk is accepted: nobody merges.
LEMMA AcceptedStep ==
    ASSUME UploadInv, NEW p \in Client, Accepted(p)
    PROVE  UploadInv'
<1>1. StoreType' /\ ObjType' /\ ResvType' /\ LockType' /\ NameType' /\
    BytesType' /\ DirType' /\ SideType' /\ SweepType' /\ PersType' /\
    PastType' /\ Fresh' /\ CurHeld' /\ DoneSettled' /\ LaterDone' /\
    RecordOwned' /\ VerifiedLands'
  BY DEF UploadInv, StoreType, ObjType, ResvType, LockType, NameType,
      BytesType, DirType, Record, SideType, SweepType, PersType, PastType,
      Fresh, CurHeld, DoneSettled, LaterDone, RecordOwned, NoDir, Asleep,
      VerifiedLands, Intact, Accepted, store, files, record, background
<1>2. ReqType'
  <2>1. ReqType /\ StoreType /\ gens' = gens
    BY DEF UploadInv, Accepted, store
  <2>2. Goto(p, "open")
    BY DEF Accepted
  <2>3. "open" \in Place
    BY DEF Place, InInit, Writing, InMerge
  <2> QED  BY <2>1, <2>2, <2>3, GotoType
<1>3. Knows'
  BY DEF UploadInv, Knows, InInit, Completing, Writing, Accepted, Goto
<1>4. FileLock'
  BY DEF UploadInv, FileLock, InInit, Accepted, Goto
<1>5. InitAlone'
  BY DEF UploadInv, InitAlone, InInit, Early, Accepted, Goto, store, files
<1>6. EarlyAlone'
  BY DEF UploadInv, EarlyAlone, Early, Writing, Completing, Accepted, Goto,
      Acceptable, store, InitAlone, InInit
<1>7. Published'
  BY DEF UploadInv, Published, Settling, Accepted, Goto, store, background
<1>8. CompleteKnows'
  BY DEF UploadInv, CompleteKnows, Completing, Accepted, Goto, store
<1>9. Owned'
  BY DEF UploadInv, Owned, Owner, InInit, Accepted, Goto, store, background
<1>10. MergingSeen'
  BY DEF UploadInv, MergingSeen, InMerge, Accepted, Goto, store
<1>11. OneMerge'
  BY DEF UploadInv, OneMerge, InMerge, Accepted, Goto, store
<1>12. SameLock'
  BY DEF UploadInv, SameLock, Named, Asleep, Accepted, Goto, Acceptable,
      store, files, background
<1>13. OneFile'
  BY DEF UploadInv, OneFile, Accepted, Goto, files
<1>14. Checked'
  BY DEF UploadInv, Checked, Intact, Writing, Accepted, Goto, Acceptable,
      files, OneMerge, InMerge
<1>15. SideFirst'
  BY DEF UploadInv, SideFirst, Accepted, Goto, store, record
<1> QED  BY <1>1, <1>2, <1>3, <1>4, <1>5, <1>6, <1>7, <1>8, <1>9, <1>10,
    <1>11, <1>12, <1>13, <1>14, <1>15 DEF UploadInv

\* The in-flight file is opened by its name.
LEMMA OpenedStep ==
    ASSUME UploadInv, NEW p \in Client, Opened(p)
    PROVE  UploadInv'
<1>1. StoreType' /\ ObjType' /\ ResvType' /\ LockType' /\ NameType' /\
    BytesType' /\ DirType' /\ SideType' /\ SweepType' /\ PersType' /\
    PastType' /\ Fresh' /\ CurHeld' /\ DoneSettled' /\ LaterDone' /\
    RecordOwned' /\ VerifiedLands'
  BY DEF UploadInv, StoreType, ObjType, ResvType, LockType, NameType,
      BytesType, DirType, Record, SideType, SweepType, PersType, PastType,
      Fresh, CurHeld, DoneSettled, LaterDone, RecordOwned, NoDir, Asleep,
      VerifiedLands, Intact, Opened, store, files, record, background
<1>2. ReqType'
  <2>1. ReqType /\ StoreType /\ gens' = gens
    BY DEF UploadInv, Opened, store
  <2>2. \E x \in 0..gens : req' = [req EXCEPT ![p].at = "put", ![p].fh = x]
    BY DEF Opened, UploadInv, NameType
  <2>3. "put" \in Place
    BY DEF Place, InInit, Writing, InMerge
  <2> QED  BY <2>1, <2>2, <2>3, NoteType
<1>3. Knows'
  BY DEF UploadInv, Knows, InInit, Completing, Writing, Opened, ReqType
<1>4. FileLock'
  BY DEF UploadInv, FileLock, InInit, Opened, ReqType
<1>5. InitAlone'
  BY DEF UploadInv, InitAlone, InInit, Early, Opened, store, files, ReqType
<1>6. EarlyAlone'
  BY DEF UploadInv, EarlyAlone, Early, Writing, Completing, Opened, store,
      ReqType
<1>7. Published'
  BY DEF UploadInv, Published, Settling, Opened, store, background, ReqType
<1>8. CompleteKnows'
  BY DEF UploadInv, CompleteKnows, Completing, Opened, store, ReqType
<1>9. Owned'
  BY DEF UploadInv, Owned, Owner, InInit, Opened, store, background, ReqType
<1>10. MergingSeen'
  BY DEF UploadInv, MergingSeen, InMerge, Opened, store, ReqType
<1>11. OneMerge'
  BY DEF UploadInv, OneMerge, InMerge, Opened, store, ReqType
<1>12. SameLock'
  BY DEF UploadInv, SameLock, Named, Writing, Completing, Asleep, Opened,
      store, files, background, ReqType
<1>13. OneFile'
  BY DEF UploadInv, OneFile, Opened, files
<1>14. Checked'
  BY DEF UploadInv, Checked, Intact, Writing, Opened, files, ReqType
<1>15. SideFirst'
  BY DEF UploadInv, SideFirst, Opened, store, record, ReqType
<1> QED  BY <1>1, <1>2, <1>3, <1>4, <1>5, <1>6, <1>7, <1>8, <1>9, <1>10,
    <1>11, <1>12, <1>13, <1>14, <1>15 DEF UploadInv

\* The chunk is written: into a file that nobody has verified.
LEMMA PutDoneStep ==
    ASSUME UploadInv, NEW p \in Client, PutDone(p)
    PROVE  UploadInv'
<1>1. StoreType' /\ ObjType' /\ ResvType' /\ LockType' /\ NameType' /\
    DirType' /\ SideType' /\ SweepType' /\ PersType' /\ PastType' /\ Fresh' /\
    CurHeld' /\ DoneSettled' /\ LaterDone' /\ RecordOwned'
  BY DEF UploadInv, StoreType, ObjType, ResvType, LockType, NameType,
      DirType, Record, SideType, SweepType, PersType, PastType, Fresh,
      CurHeld, DoneSettled, LaterDone, RecordOwned, NoDir, Asleep, PutDone,
      store, record, background
<1>2. BytesType'
  BY DEF UploadInv, BytesType, PutDone, ReqType, Sums
<1>3. ReqType'
  <2>1. ReqType /\ StoreType /\ gens' = gens
    BY DEF UploadInv, PutDone, store
  <2>2. Goto(p, "side")
    BY DEF PutDone
  <2>3. "side" \in Place
    BY DEF Place, InInit, Writing, InMerge
  <2> QED  BY <2>1, <2>2, <2>3, GotoType
<1>4. Knows'
  BY DEF UploadInv, Knows, InInit, Completing, Writing, PutDone, Goto
<1>5. FileLock'
  BY DEF UploadInv, FileLock, InInit, PutDone, Goto
<1>6. InitAlone'
  BY DEF UploadInv, InitAlone, InInit, Early, PutDone, Goto, store
<1>7. EarlyAlone'
  BY DEF UploadInv, EarlyAlone, Early, Writing, Completing, PutDone, Goto,
      store
<1>8. Published'
  BY DEF UploadInv, Published, Settling, PutDone, Goto, store, background
<1>9. CompleteKnows'
  BY DEF UploadInv, CompleteKnows, Completing, PutDone, Goto, store
<1>10. Owned'
  BY DEF UploadInv, Owned, Owner, InInit, PutDone, Goto, store, background
<1>11. MergingSeen'
  BY DEF UploadInv, MergingSeen, InMerge, PutDone, Goto, store
<1>12. OneMerge'
  BY DEF UploadInv, OneMerge, InMerge, PutDone, Goto, store
<1>13. SameLock'
  BY DEF UploadInv, SameLock, Named, Writing, Completing, Asleep, PutDone,
      Goto, store, background
<1>14. OneFile'
  BY DEF UploadInv, OneFile, PutDone, Goto
<1>15. Checked'
  BY DEF UploadInv, Checked, Intact, Writing, PutDone, Goto
<1>16. VerifiedLands'
  BY DEF UploadInv, VerifiedLands, Intact, PutDone, OneFile
<1>17. SideFirst'
  BY DEF UploadInv, SideFirst, PutDone, Goto, store, record
<1> QED  BY <1>1, <1>2, <1>3, <1>4, <1>5, <1>6, <1>7, <1>8, <1>9, <1>10,
    <1>11, <1>12, <1>13, <1>14, <1>15, <1>16, <1>17 DEF UploadInv

\* The chunk is written half-way: into a file that nobody has verified.
LEMMA PutFailsStep ==
    ASSUME UploadInv, NEW p \in Client, PutFails(p)
    PROVE  UploadInv'
<1>1. StoreType' /\ ObjType' /\ ResvType' /\ LockType' /\ NameType' /\
    DirType' /\ SideType' /\ SweepType' /\ PersType' /\ PastType' /\ Fresh' /\
    CurHeld' /\ DoneSettled' /\ LaterDone' /\ RecordOwned'
  BY DEF UploadInv, StoreType, ObjType, ResvType, LockType, NameType,
      DirType, Record, SideType, SweepType, PersType, PastType, Fresh,
      CurHeld, DoneSettled, LaterDone, RecordOwned, NoDir, Asleep, PutFails,
      store, record, background
<1>2. BytesType'
  BY DEF UploadInv, BytesType, PutFails, Sums, Val
<1>3. ReqType'
  <2>1. ReqType /\ StoreType /\ gens' = gens
    BY DEF UploadInv, PutFails, store
  <2>2. Return(p)
    BY DEF PutFails
  <2> QED  BY <2>1, <2>2, ReturnType
<1>4. Knows'
  BY DEF UploadInv, Knows, InInit, Completing, Writing, PutFails, Return,
      Idle
<1>5. FileLock'
  BY DEF UploadInv, FileLock, InInit, PutFails, Return, Idle
<1>6. InitAlone'
  BY DEF UploadInv, InitAlone, InInit, Early, PutFails, Return, Idle, store
<1>7. EarlyAlone'
  BY DEF UploadInv, EarlyAlone, Early, Writing, Completing, PutFails, Return,
      Idle, store
<1>8. Published'
  BY DEF UploadInv, Published, Settling, PutFails, Return, Idle, store,
      background
<1>9. CompleteKnows'
  BY DEF UploadInv, CompleteKnows, Completing, PutFails, Return, Idle, store
<1>10. Owned'
  BY DEF UploadInv, Owned, Owner, InInit, PutFails, Return, store, background
<1>11. MergingSeen'
  BY DEF UploadInv, MergingSeen, InMerge, PutFails, Return, store
<1>12. OneMerge'
  BY DEF UploadInv, OneMerge, InMerge, PutFails, Return, Idle, store
<1>13. SameLock'
  BY DEF UploadInv, SameLock, Named, Writing, Completing, Asleep, PutFails,
      Return, Idle, store, background
<1>14. OneFile'
  BY DEF UploadInv, OneFile, PutFails, Return, Idle
<1>15. Checked'
  BY DEF UploadInv, Checked, Intact, Writing, PutFails, Return, Idle
<1>16. VerifiedLands'
  BY DEF UploadInv, VerifiedLands, Intact, PutFails, OneFile
<1>17. SideFirst'
  BY DEF UploadInv, SideFirst, PutFails, Return, Idle, store, record
<1> QED  BY <1>1, <1>2, <1>3, <1>4, <1>5, <1>6, <1>7, <1>8, <1>9, <1>10,
    <1>11, <1>12, <1>13, <1>14, <1>15, <1>16, <1>17 DEF UploadInv

\* The sum is stored.
LEMMA StoredStep ==
    ASSUME UploadInv, NEW p \in Client, Stored(p)
    PROVE  UploadInv'
<1>1. StoreType' /\ ObjType' /\ ResvType' /\ LockType' /\ NameType' /\
    BytesType' /\ DirType' /\ SweepType' /\ PersType' /\ PastType' /\ Fresh'
    /\ CurHeld' /\ DoneSettled' /\ LaterDone' /\ RecordOwned' /\
    VerifiedLands'
  BY DEF UploadInv, StoreType, ObjType, ResvType, LockType, NameType,
      BytesType, DirType, Record, SweepType, PersType, PastType, Fresh,
      CurHeld, DoneSettled, LaterDone, RecordOwned, NoDir, Asleep,
      VerifiedLands, Intact, Stored, store, files, background
<1>2. SideType'
  BY DEF UploadInv, SideType, Stored, ReqType, Sums
<1>3. ReqType'
  <2>1. ReqType /\ StoreType /\ gens' = gens
    BY DEF UploadInv, Stored, store
  <2>2. Goto(p, "mark")
    BY DEF Stored
  <2>3. "mark" \in Place
    BY DEF Place, InInit, Writing, InMerge
  <2> QED  BY <2>1, <2>2, <2>3, GotoType
<1>4. Knows'
  BY DEF UploadInv, Knows, InInit, Completing, Writing, Stored, Goto
<1>5. FileLock'
  BY DEF UploadInv, FileLock, InInit, Stored, Goto
<1>6. InitAlone'
  BY DEF UploadInv, InitAlone, InInit, Early, Stored, Goto, store, files
<1>7. EarlyAlone'
  BY DEF UploadInv, EarlyAlone, Early, Writing, Completing, Stored, Goto,
      store
<1>8. Published'
  BY DEF UploadInv, Published, Settling, Stored, Goto, store, background
<1>9. CompleteKnows'
  BY DEF UploadInv, CompleteKnows, Completing, Stored, Goto, store
<1>10. Owned'
  BY DEF UploadInv, Owned, Owner, InInit, Stored, Goto, store, background
<1>11. MergingSeen'
  BY DEF UploadInv, MergingSeen, InMerge, Stored, Goto, store
<1>12. OneMerge'
  BY DEF UploadInv, OneMerge, InMerge, Stored, Goto, store
<1>13. SameLock'
  BY DEF UploadInv, SameLock, Named, Writing, Completing, Asleep, Stored,
      Goto, store, files, background
<1>14. OneFile'
  BY DEF UploadInv, OneFile, Stored, Goto, files
<1>15. Checked'
  BY DEF UploadInv, Checked, Intact, Writing, Stored, Goto, files
<1>16. SideFirst'
  <2>1. /\ UNCHANGED <<cur, obj, overlap>>
        /\ \A q \in Client \ {p} : req'[q] = req[q]
        /\ req'[p].i = req[p].i /\ req[p].i \in Chunk /\ req[p].v # "none"
    BY DEF Stored, store, Goto, UploadInv, ReqType, Knows, Writing
  <2>2. side'[req[p].i] # "none"
    BY <2>1 DEF Stored, UploadInv, SideType, Sums
  <2>3. \A i \in Chunk : side[i] # "none" => side'[i] # "none"
    BY <2>1 DEF Stored, UploadInv, SideType, Sums
  <2>4. \A q \in Client : req[q].at = "mark" => req[q].i \in Chunk
    BY DEF UploadInv, Knows, Writing
  <2>5. SideFirst
    BY DEF UploadInv
  <2> QED  BY <2>1, <2>2, <2>3, <2>4, <2>5 DEF SideFirst
<1> QED  BY <1>1, <1>2, <1>3, <1>4, <1>5, <1>6, <1>7, <1>8, <1>9, <1>10,
    <1>11, <1>12, <1>13, <1>14, <1>15, <1>16 DEF UploadInv

\* The chunk is recorded: its sum is in a file.
LEMMA MarkedStep ==
    ASSUME UploadInv, NEW p \in Client, Marked(p)
    PROVE  UploadInv'
<1>1. StoreType' /\ ResvType' /\ LockType' /\ NameType' /\ BytesType' /\
    DirType' /\ SideType' /\ SweepType' /\ PastType' /\ Fresh' /\ RecordOwned'
    /\ VerifiedLands'
  BY DEF UploadInv, StoreType, ResvType, LockType, NameType, BytesType,
      DirType, Record, SideType, SweepType, PastType, Fresh, RecordOwned,
      NoDir, Asleep, VerifiedLands, Intact, Marked, files, record
<1>2. ObjType'
  <2> DEFINE s == [obj[cur].sums EXCEPT ![req[p].i] = req[p].v]
  <2>1. ObjType
    BY DEF UploadInv
  <2>2. cur \in Gen
    BY Bounds DEF UploadInv, StoreType, Marked
  <2>3. s \in Sums
    BY <2>1, <2>2 DEF Marked, ObjType, Sums, Val, UploadInv, Knows, Writing
  <2>4. obj' = [obj EXCEPT ![cur].sums = s]
    BY DEF Marked
  <2> HIDE DEF s
  <2> QED  BY <2>1, <2>2, <2>3, <2>4, ObjField
<1>3. PersType'
  BY DEF UploadInv, PersType, Record, Marked
<1>4. ReqType'
  <2>1. ReqType /\ StoreType /\ gens' = gens
    BY DEF UploadInv, Marked, store
  <2>2. Return(p)
    BY DEF Marked
  <2> QED  BY <2>1, <2>2, ReturnType
<1>5. Knows'
  BY DEF UploadInv, Knows, InInit, Completing, Writing, Marked, Return, Idle
<1>6. FileLock'
  BY DEF UploadInv, FileLock, InInit, Marked, Return, Idle
<1>7. InitAlone'
  BY DEF UploadInv, InitAlone, InInit, Early, Marked, Return, Idle, files
<1>8. EarlyAlone'
  BY DEF UploadInv, EarlyAlone, Early, Writing, Completing, Marked, Return,
      Idle
<1>9. CurHeld'
  BY DEF UploadInv, CurHeld, Marked
<1>10. DoneSettled'
  BY DEF UploadInv, DoneSettled, Marked
<1>11. Published'
  BY DEF UploadInv, Published, Settling, Marked, Return, Idle
<1>12. CompleteKnows'
  BY DEF UploadInv, CompleteKnows, Completing, Marked, Return, Idle
<1>13. Owned'
  BY DEF UploadInv, Owned, Owner, InInit, Marked, Return
<1>14. LaterDone'
  BY DEF UploadInv, LaterDone, Marked
<1>15. MergingSeen'
  BY DEF UploadInv, MergingSeen, InMerge, Marked, Return
<1>16. OneMerge'
  BY DEF UploadInv, OneMerge, InMerge, Marked, Return, Idle
<1>17. SameLock'
  BY DEF UploadInv, SameLock, Named, Writing, Completing, Asleep, Marked,
      Return, Idle, files
<1>18. OneFile'
  BY DEF UploadInv, OneFile, Marked, Return, Idle, files
<1>19. Checked'
  BY DEF UploadInv, Checked, Intact, Writing, Marked, Return, Idle, files
<1>20. SideFirst'
  BY DEF UploadInv, SideFirst, Marked, Return, Idle, record
<1> QED  BY <1>1, <1>2, <1>3, <1>4, <1>5, <1>6, <1>7, <1>8, <1>9, <1>10,
    <1>11, <1>12, <1>13, <1>14, <1>15, <1>16, <1>17, <1>18, <1>19, <1>20 DEF
    UploadInv

\* UploadComplete copies the session, which knows its reservation if it has
\* named its file.
LEMMA CompleteBeginStep ==
    ASSUME UploadInv, NEW p \in Client, CompleteBegin(p)
    PROVE  UploadInv'
<1>1. StoreType' /\ ObjType' /\ ResvType' /\ LockType' /\ NameType' /\
    BytesType' /\ DirType' /\ SideType' /\ SweepType' /\ PersType' /\
    PastType' /\ Fresh' /\ CurHeld' /\ DoneSettled' /\ LaterDone' /\
    RecordOwned' /\ VerifiedLands'
  BY DEF UploadInv, StoreType, ObjType, ResvType, LockType, NameType,
      BytesType, DirType, Record, SideType, SweepType, PersType, PastType,
      Fresh, CurHeld, DoneSettled, LaterDone, RecordOwned, NoDir, Asleep,
      VerifiedLands, Intact, CompleteBegin, store, files, record, background
<1>2. ReqType'
  <2>1. ReqType /\ StoreType /\ gens' = gens /\ cur \in 0..gens /\ cur \in Gen
    BY Bounds DEF UploadInv, StoreType, CompleteBegin, store
  <2> DEFINE a == [Idle EXCEPT !.at = "check"]
             b == [a EXCEPT !.g = cur]
             c == [b EXCEPT !.sums = obj[cur].sums]
             d == [c EXCEPT !.ok = obj[cur].temp]
             e == [d EXCEPT !.res = obj[cur].res]
  <2>2. req' = [req EXCEPT ![p] = e]
    BY DEF CompleteBegin
  <2>3. /\ "check" \in Place /\ obj[cur].sums \in Sums
        /\ obj[cur].temp \in BOOLEAN /\ obj[cur].res \in BOOLEAN
    BY <2>1 DEF Place, UploadInv, ObjType
  <2>4. Idle \in Request
    BY <2>1, IdleIs
  <2>5. \A r \in Request :
           /\ \A x \in Place : [r EXCEPT !.at = x] \in Request
           /\ \A x \in 0..gens : [r EXCEPT !.g = x] \in Request
           /\ \A x \in Sums : [r EXCEPT !.sums = x] \in Request
           /\ \A x \in BOOLEAN : [r EXCEPT !.ok = x] \in Request
           /\ \A x \in BOOLEAN : [r EXCEPT !.res = x] \in Request
    BY DEF Request
  <2>6. a \in Request
    BY <2>3, <2>4, <2>5
  <2> HIDE DEF a
  <2>7. b \in Request
    BY <2>1, <2>5, <2>6
  <2> HIDE DEF b
  <2>8. c \in Request
    BY <2>3, <2>5, <2>7
  <2> HIDE DEF c
  <2>9. d \in Request
    BY <2>3, <2>5, <2>8
  <2> HIDE DEF d
  <2>10. e \in Request
    BY <2>3, <2>5, <2>9
  <2> HIDE DEF e
  <2> QED  BY <2>1, <2>2, <2>10, NewType
<1>3. Knows'
  BY DEF UploadInv, Knows, InInit, Completing, Writing, CompleteBegin
<1>4. FileLock'
  BY DEF UploadInv, FileLock, InInit, CompleteBegin
<1>5. InitAlone'
  BY DEF UploadInv, InitAlone, InInit, Early, CompleteBegin, store, files
<1>6. EarlyAlone'
  <2>1. /\ UNCHANGED <<cur, obj, overlap>> /\ cur # 0
        /\ req'[p].at = "check" /\ req'[p].ok = obj[cur].temp
        /\ \A q \in Client \ {p} : req'[q] = req[q]
    BY DEF CompleteBegin, store, UploadInv, ReqType, Idle
  <2>2. \A q \in Client : req[q].at \in Early => ~obj[cur].temp
    BY <2>1 DEF UploadInv, InitAlone, InInit, Early
  <2>3. \A q \in Client : req'[q].at \in Early => q # p /\ req[q].at \in Early
    BY <2>1 DEF Early
  <2> QED  BY <2>1, <2>2, <2>3 DEF UploadInv, EarlyAlone, Writing, Completing
<1>7. Published'
  BY DEF UploadInv, Published, Settling, CompleteBegin, store, background
<1>8. CompleteKnows'
  BY DEF UploadInv, CompleteKnows, CompleteBegin, store, CurHeld
<1>9. Owned'
  BY DEF UploadInv, Owned, Owner, InInit, CompleteBegin, store, background,
      Idle
<1>10. MergingSeen'
  BY DEF UploadInv, MergingSeen, InMerge, CompleteBegin, store, Idle
<1>11. OneMerge'
  BY DEF UploadInv, OneMerge, InMerge, CompleteBegin, store
<1>12. SameLock'
  BY DEF UploadInv, SameLock, Named, Writing, Completing, Asleep,
      CompleteBegin, store, files, background
<1>13. OneFile'
  BY DEF UploadInv, OneFile, CompleteBegin, files
<1>14. Checked'
  BY DEF UploadInv, Checked, Intact, Writing, CompleteBegin, files
<1>15. SideFirst'
  BY DEF UploadInv, SideFirst, CompleteBegin, store, record
<1> QED  BY <1>1, <1>2, <1>3, <1>4, <1>5, <1>6, <1>7, <1>8, <1>9, <1>10,
    <1>11, <1>12, <1>13, <1>14, <1>15 DEF UploadInv

\* The copied session has all its chunks: its init has named the file.
LEMMA AllThereStep ==
    ASSUME UploadInv, NEW p \in Client, AllThere(p)
    PROVE  UploadInv'
<1>1. StoreType' /\ ObjType' /\ ResvType' /\ LockType' /\ NameType' /\
    BytesType' /\ DirType' /\ SideType' /\ SweepType' /\ PersType' /\
    PastType' /\ Fresh' /\ CurHeld' /\ DoneSettled' /\ LaterDone' /\
    RecordOwned' /\ VerifiedLands'
  BY DEF UploadInv, StoreType, ObjType, ResvType, LockType, NameType,
      BytesType, DirType, Record, SideType, SweepType, PersType, PastType,
      Fresh, CurHeld, DoneSettled, LaterDone, RecordOwned, NoDir, Asleep,
      VerifiedLands, Intact, AllThere, store, files, record, background
<1>2. ReqType'
  <2>1. ReqType /\ StoreType /\ gens' = gens
    BY DEF UploadInv, AllThere, store
  <2>2. Goto(p, "begin")
    BY DEF AllThere
  <2>3. "begin" \in Place
    BY DEF Place, InInit, Writing, InMerge
  <2> QED  BY <2>1, <2>2, <2>3, GotoType
<1>3. Knows'
  BY DEF UploadInv, Knows, InInit, Completing, Writing, AllThere, Goto
<1>4. FileLock'
  BY DEF UploadInv, FileLock, InInit, AllThere, Goto
<1>5. InitAlone'
  BY DEF UploadInv, InitAlone, InInit, Early, AllThere, Goto, store, files
<1>6. EarlyAlone'
  BY Bounds DEF UploadInv, EarlyAlone, Early, Writing, Completing, AllThere,
      Goto, store
<1>7. Published'
  BY DEF UploadInv, Published, Settling, AllThere, Goto, store, background
<1>8. CompleteKnows'
  BY DEF UploadInv, CompleteKnows, Completing, AllThere, Goto, store
<1>9. Owned'
  BY DEF UploadInv, Owned, Owner, InInit, AllThere, Goto, store, background
<1>10. MergingSeen'
  BY DEF UploadInv, MergingSeen, InMerge, AllThere, Goto, store
<1>11. OneMerge'
  BY DEF UploadInv, OneMerge, InMerge, AllThere, Goto, store
<1>12. SameLock'
  BY DEF UploadInv, SameLock, Named, Writing, Completing, Asleep, AllThere,
      Goto, store, files, background
<1>13. OneFile'
  BY DEF UploadInv, OneFile, AllThere, Goto, files
<1>14. Checked'
  BY DEF UploadInv, Checked, Intact, Writing, AllThere, Goto, files
<1>15. SideFirst'
  BY DEF UploadInv, SideFirst, AllThere, Goto, store, record
<1> QED  BY <1>1, <1>2, <1>3, <1>4, <1>5, <1>6, <1>7, <1>8, <1>9, <1>10,
    <1>11, <1>12, <1>13, <1>14, <1>15 DEF UploadInv

\* A merge begins: no other one runs.
LEMMA BegunStep ==
    ASSUME UploadInv, NEW p \in Client, Begun(p)
    PROVE  UploadInv'
<1>1. StoreType' /\ ResvType' /\ LockType' /\ NameType' /\ BytesType' /\
    DirType' /\ SideType' /\ SweepType' /\ PersType' /\ PastType' /\ Fresh' /\
    RecordOwned' /\ VerifiedLands'
  BY DEF UploadInv, StoreType, ResvType, LockType, NameType, BytesType,
      DirType, Record, SideType, SweepType, PersType, PastType, Fresh,
      RecordOwned, NoDir, Asleep, VerifiedLands, Intact, Begun, files, record,
      background
<1>2. ObjType'
  <2>1. ObjType
    BY DEF UploadInv
  <2>2. cur \in Gen
    BY Bounds DEF UploadInv, StoreType, Begun
  <2>3. \E b \in BOOLEAN : obj' = [obj EXCEPT ![cur].merging = b]
    BY DEF Begun
  <2> QED  BY <2>1, <2>2, <2>3, ObjField
<1>3. ReqType'
  <2>1. ReqType /\ StoreType /\ gens' = gens
    BY DEF UploadInv, Begun, store
  <2>2. Goto(p, "target")
    BY DEF Begun
  <2>3. "target" \in Place
    BY DEF Place, InInit, Writing, InMerge
  <2> QED  BY <2>1, <2>2, <2>3, GotoType
<1>4. Knows'
  BY DEF UploadInv, Knows, InInit, Completing, Writing, Begun, Goto
<1>5. FileLock'
  BY DEF UploadInv, FileLock, InInit, Begun, Goto
<1>6. InitAlone'
  BY DEF UploadInv, InitAlone, InInit, Early, Begun, Goto, files
<1>7. EarlyAlone'
  BY DEF UploadInv, EarlyAlone, Early, Writing, Completing, Begun, Goto
<1>8. CurHeld'
  BY DEF UploadInv, CurHeld, Begun
<1>9. DoneSettled'
  BY DEF UploadInv, DoneSettled, Begun
<1>10. Published'
  BY DEF UploadInv, Published, Settling, Begun, Goto, background
<1>11. CompleteKnows'
  BY DEF UploadInv, CompleteKnows, Completing, Begun, Goto
<1>12. Owned'
  BY DEF UploadInv, Owned, Owner, InInit, Begun, Goto, background
<1>13. LaterDone'
  BY DEF UploadInv, LaterDone, Begun, background
<1>14. MergingSeen'
  BY DEF UploadInv, MergingSeen, InMerge, Begun, Goto, ReqType
<1>15. OneMerge'
  BY Bounds DEF UploadInv, OneMerge, Begun, Goto, ObjType, StoreType
<1>16. SameLock'
  BY DEF UploadInv, SameLock, Named, Writing, Completing, Asleep, Begun,
      Goto, files, background
<1>17. OneFile'
  BY DEF UploadInv, OneFile, Begun, Goto, files
<1>18. Checked'
  BY DEF UploadInv, Checked, Intact, Writing, Begun, Goto, files
<1>19. SideFirst'
  BY DEF UploadInv, SideFirst, Begun, Goto, record
<1> QED  BY <1>1, <1>2, <1>3, <1>4, <1>5, <1>6, <1>7, <1>8, <1>9, <1>10,
    <1>11, <1>12, <1>13, <1>14, <1>15, <1>16, <1>17, <1>18, <1>19 DEF
    UploadInv

\* The merge has the target and the lock object of the session.
LEMMA AcquiredStep ==
    ASSUME UploadInv, NEW p \in Client, Acquired(p)
    PROVE  UploadInv'
<1>1. StoreType' /\ ObjType' /\ ResvType' /\ NameType' /\ BytesType' /\
    DirType' /\ SideType' /\ SweepType' /\ PersType' /\ PastType' /\ Fresh' /\
    CurHeld' /\ DoneSettled' /\ LaterDone' /\ RecordOwned' /\ VerifiedLands'
  BY DEF UploadInv, StoreType, ObjType, ResvType, NameType, BytesType,
      DirType, Record, SideType, SweepType, PersType, PastType, Fresh,
      CurHeld, DoneSettled, LaterDone, RecordOwned, NoDir, Asleep,
      VerifiedLands, Intact, Acquired, store, files, record, background
<1>2. LockType'
  BY DEF UploadInv, LockType, Acquired
<1>3. ReqType'
  <2>1. ReqType /\ StoreType /\ gens' = gens
    BY DEF UploadInv, Acquired, store
  <2>2. \E x \in Nat : req' = [req EXCEPT ![p].at = "verify", ![p].lk = x]
    BY DEF Acquired, UploadInv, LockType
  <2>3. "verify" \in Place
    BY DEF Place, InInit, Writing, InMerge
  <2> QED  BY <2>1, <2>2, <2>3, NoteType
<1>4. Knows'
  BY DEF UploadInv, Knows, InInit, Completing, Writing, Acquired, ReqType
<1>5. FileLock'
  BY Bounds DEF UploadInv, FileLock, Acquired, ReqType
<1>6. InitAlone'
  BY DEF UploadInv, InitAlone, InInit, Early, Acquired, store, files, ReqType
<1>7. EarlyAlone'
  BY DEF UploadInv, EarlyAlone, Early, Writing, Completing, Acquired, store,
      ReqType
<1>8. Published'
  BY DEF UploadInv, Published, Settling, Acquired, store, background, ReqType
<1>9. CompleteKnows'
  BY DEF UploadInv, CompleteKnows, Completing, Acquired, store, ReqType
<1>10. Owned'
  BY DEF UploadInv, Owned, Owner, InInit, Acquired, store, background,
      ReqType
<1>11. MergingSeen'
  BY DEF UploadInv, MergingSeen, InMerge, Acquired, store, ReqType
<1>12. OneMerge'
  BY DEF UploadInv, OneMerge, InMerge, Acquired, store, ReqType
<1>13. SameLock'
  BY DEF UploadInv, SameLock, Named, Writing, Completing, Asleep, Acquired,
      store, files, background, ReqType
<1>14. OneFile'
  BY DEF UploadInv, OneFile, Acquired, files, ReqType
<1>15. Checked'
  BY DEF UploadInv, Checked, Intact, Writing, Acquired, files, ReqType
<1>16. SideFirst'
  BY DEF UploadInv, SideFirst, Acquired, store, record, ReqType
<1> QED  BY <1>1, <1>2, <1>3, <1>4, <1>5, <1>6, <1>7, <1>8, <1>9, <1>10,
    <1>11, <1>12, <1>13, <1>14, <1>15, <1>16 DEF UploadInv

\* The target is not available.
LEMMA LockedStep ==
    ASSUME UploadInv, NEW p \in Client, Locked(p)
    PROVE  UploadInv'
<1>1. StoreType' /\ ObjType' /\ ResvType' /\ LockType' /\ NameType' /\
    BytesType' /\ DirType' /\ SideType' /\ SweepType' /\ PersType' /\
    PastType' /\ Fresh' /\ CurHeld' /\ DoneSettled' /\ LaterDone' /\
    RecordOwned' /\ VerifiedLands'
  BY DEF UploadInv, StoreType, ObjType, ResvType, LockType, NameType,
      BytesType, DirType, Record, SideType, SweepType, PersType, PastType,
      Fresh, CurHeld, DoneSettled, LaterDone, RecordOwned, NoDir, Asleep,
      VerifiedLands, Intact, Locked, store, files, record, background
<1>2. ReqType'
  <2>1. ReqType /\ StoreType /\ gens' = gens
    BY DEF UploadInv, Locked, store
  <2>2. Goto(p, "end")
    BY DEF Locked
  <2>3. "end" \in Place
    BY DEF Place, InInit, Writing, InMerge
  <2> QED  BY <2>1, <2>2, <2>3, GotoType
<1>3. Knows'
  BY DEF UploadInv, Knows, InInit, Completing, Writing, Locked, Goto
<1>4. FileLock'
  BY DEF UploadInv, FileLock, InInit, Locked, Goto
<1>5. InitAlone'
  BY DEF UploadInv, InitAlone, InInit, Early, Locked, Goto, store, files
<1>6. EarlyAlone'
  BY DEF UploadInv, EarlyAlone, Early, Writing, Completing, Locked, Goto,
      store
<1>7. Published'
  BY DEF UploadInv, Published, Settling, Locked, Goto, store, background
<1>8. CompleteKnows'
  BY DEF UploadInv, CompleteKnows, Completing, Locked, Goto, store
<1>9. Owned'
  BY DEF UploadInv, Owned, Owner, InInit, Locked, Goto, store, background
<1>10. MergingSeen'
  BY DEF UploadInv, MergingSeen, InMerge, Locked, Goto, store
<1>11. OneMerge'
  BY DEF UploadInv, OneMerge, InMerge, Locked, Goto, store
<1>12. SameLock'
  BY DEF UploadInv, SameLock, Named, Writing, Completing, Asleep, Locked,
      Goto, store, files, background
<1>13. OneFile'
  BY DEF UploadInv, OneFile, Locked, Goto, files
<1>14. Checked'
  BY DEF UploadInv, Checked, Intact, Writing, Locked, Goto, files
<1>15. SideFirst'
  BY DEF UploadInv, SideFirst, Locked, Goto, store, record
<1> QED  BY <1>1, <1>2, <1>3, <1>4, <1>5, <1>6, <1>7, <1>8, <1>9, <1>10,
    <1>11, <1>12, <1>13, <1>14, <1>15 DEF UploadInv

\* The file is verified: no chunk is being written into it.
LEMMA FoundIntactStep ==
    ASSUME UploadInv, NEW p \in Client, FoundIntact(p)
    PROVE  UploadInv'
<1>1. StoreType' /\ ObjType' /\ ResvType' /\ LockType' /\ NameType' /\
    BytesType' /\ DirType' /\ SideType' /\ SweepType' /\ PersType' /\
    PastType' /\ Fresh' /\ CurHeld' /\ DoneSettled' /\ LaterDone' /\
    RecordOwned' /\ VerifiedLands'
  BY DEF UploadInv, StoreType, ObjType, ResvType, LockType, NameType,
      BytesType, DirType, Record, SideType, SweepType, PersType, PastType,
      Fresh, CurHeld, DoneSettled, LaterDone, RecordOwned, NoDir, Asleep,
      VerifiedLands, Intact, FoundIntact, Goto, store, files, record,
      background, Writing
<1>2. ReqType'
  <2>1. ReqType /\ StoreType /\ gens' = gens
    BY DEF UploadInv, FoundIntact, store
  <2>2. Goto(p, "rename")
    BY DEF FoundIntact
  <2>3. "rename" \in Place
    BY DEF Place, InInit, Writing, InMerge
  <2> QED  BY <2>1, <2>2, <2>3, GotoType
<1>3. Knows'
  BY DEF UploadInv, Knows, InInit, Completing, Writing, FoundIntact, Goto,
      Intact
<1>4. FileLock'
  BY DEF UploadInv, FileLock, FoundIntact, Goto
<1>5. InitAlone'
  BY DEF UploadInv, InitAlone, InInit, Early, FoundIntact, Goto, store, files
<1>6. EarlyAlone'
  BY DEF UploadInv, EarlyAlone, Early, Completing, FoundIntact, Goto, store
<1>7. Published'
  BY DEF UploadInv, Published, Settling, FoundIntact, Goto, store, background
<1>8. CompleteKnows'
  BY DEF UploadInv, CompleteKnows, Completing, FoundIntact, Goto, store
<1>9. Owned'
  BY DEF UploadInv, Owned, Owner, InInit, FoundIntact, Goto, store,
      background
<1>10. MergingSeen'
  BY DEF UploadInv, MergingSeen, InMerge, FoundIntact, Goto, store
<1>11. OneMerge'
  BY DEF UploadInv, OneMerge, InMerge, FoundIntact, Goto, store
<1>12. SameLock'
  BY DEF UploadInv, SameLock, Named, Completing, Asleep, FoundIntact, Goto,
      store, files, background
<1>13. OneFile'
  BY DEF UploadInv, OneFile, FoundIntact, Goto, files
<1>14. Checked'
  BY DEF UploadInv, Checked, Intact, Writing, FoundIntact, Goto, files,
      SameLock
<1>15. SideFirst'
  BY DEF UploadInv, SideFirst, FoundIntact, Goto, store, record
<1> QED  BY <1>1, <1>2, <1>3, <1>4, <1>5, <1>6, <1>7, <1>8, <1>9, <1>10,
    <1>11, <1>12, <1>13, <1>14, <1>15 DEF UploadInv

\* Chunks are cleared, to be sent again.
LEMMA FoundOtherStep ==
    ASSUME UploadInv, NEW p \in Client, NEW sums \in Sums, FoundOther(p, sums)
    PROVE  UploadInv'
<1>1. StoreType' /\ ResvType' /\ NameType' /\ BytesType' /\ DirType' /\
    SideType' /\ SweepType' /\ PastType' /\ Fresh' /\ RecordOwned' /\
    VerifiedLands'
  BY DEF UploadInv, StoreType, ResvType, NameType, BytesType, DirType,
      Record, SideType, SweepType, PastType, Fresh, RecordOwned, NoDir,
      Asleep, VerifiedLands, Intact, FoundOther, files, record
<1>2. ObjType'
  <2>1. ObjType
    BY DEF UploadInv
  <2>2. cur \in Gen
    BY Bounds DEF UploadInv, StoreType, FoundOther
  <2>3. \E s \in Sums : obj' = [obj EXCEPT ![cur].sums = s]
    BY DEF FoundOther
  <2> QED  BY <2>1, <2>2, <2>3, ObjField
<1>3. LockType'
  BY DEF UploadInv, LockType, FoundOther, GiveUp
<1>4. PersType'
  BY DEF UploadInv, PersType, Record, FoundOther
<1>5. ReqType'
  <2>1. ReqType /\ StoreType /\ gens' = gens
    BY DEF UploadInv, FoundOther, store
  <2>2. GiveUp(p)
    BY DEF FoundOther
  <2> QED  BY <2>1, <2>2, GiveUpType
<1>6. Knows'
  BY DEF UploadInv, Knows, InInit, Completing, Writing, FoundOther, GiveUp
<1>7. FileLock'
  BY DEF UploadInv, FileLock, InInit, FoundOther, GiveUp, ReqType
<1>8. InitAlone'
  BY DEF UploadInv, InitAlone, InInit, Early, FoundOther, GiveUp, files
<1>9. EarlyAlone'
  BY DEF UploadInv, EarlyAlone, Early, Writing, Completing, FoundOther,
      GiveUp
<1>10. CurHeld'
  BY DEF UploadInv, CurHeld, FoundOther
<1>11. DoneSettled'
  BY DEF UploadInv, DoneSettled, FoundOther
<1>12. Published'
  BY DEF UploadInv, Published, Settling, FoundOther, GiveUp
<1>13. CompleteKnows'
  BY DEF UploadInv, CompleteKnows, Completing, FoundOther, GiveUp
<1>14. Owned'
  BY DEF UploadInv, Owned, Owner, InInit, FoundOther, GiveUp
<1>15. LaterDone'
  BY DEF UploadInv, LaterDone, FoundOther
<1>16. MergingSeen'
  BY DEF UploadInv, MergingSeen, InMerge, FoundOther, GiveUp
<1>17. OneMerge'
  BY DEF UploadInv, OneMerge, InMerge, FoundOther, GiveUp
<1>18. SameLock'
  BY DEF UploadInv, SameLock, Named, Writing, Completing, Asleep, FoundOther,
      GiveUp, files
<1>19. OneFile'
  BY DEF UploadInv, OneFile, FoundOther, GiveUp, files
<1>20. Checked'
  BY DEF UploadInv, Checked, Intact, Writing, FoundOther, GiveUp, files
<1>21. SideFirst'
  BY DEF UploadInv, SideFirst, FoundOther, GiveUp, record
<1> QED  BY <1>1, <1>2, <1>3, <1>4, <1>5, <1>6, <1>7, <1>8, <1>9, <1>10,
    <1>11, <1>12, <1>13, <1>14, <1>15, <1>16, <1>17, <1>18, <1>19, <1>20,
    <1>21 DEF UploadInv

\* There is nothing to verify.
LEMMA FoundNothingStep ==
    ASSUME UploadInv, NEW p \in Client, FoundNothing(p)
    PROVE  UploadInv'
<1>1. StoreType' /\ ObjType' /\ ResvType' /\ NameType' /\ BytesType' /\
    DirType' /\ SideType' /\ SweepType' /\ PersType' /\ PastType' /\ Fresh' /\
    CurHeld' /\ DoneSettled' /\ LaterDone' /\ RecordOwned' /\ VerifiedLands'
  BY DEF UploadInv, StoreType, ObjType, ResvType, NameType, BytesType,
      DirType, Record, SideType, SweepType, PersType, PastType, Fresh,
      CurHeld, DoneSettled, LaterDone, RecordOwned, NoDir, Asleep,
      VerifiedLands, Intact, FoundNothing, store, files, record, background
<1>2. LockType'
  BY DEF UploadInv, LockType, FoundNothing, GiveUp
<1>3. ReqType'
  <2>1. ReqType /\ StoreType /\ gens' = gens
    BY DEF UploadInv, FoundNothing, store
  <2>2. GiveUp(p)
    BY DEF FoundNothing
  <2> QED  BY <2>1, <2>2, GiveUpType
<1>4. Knows'
  BY DEF UploadInv, Knows, InInit, Completing, Writing, FoundNothing, GiveUp
<1>5. FileLock'
  BY DEF UploadInv, FileLock, InInit, FoundNothing, GiveUp, ReqType
<1>6. InitAlone'
  BY DEF UploadInv, InitAlone, InInit, Early, FoundNothing, GiveUp, store,
      files
<1>7. EarlyAlone'
  BY DEF UploadInv, EarlyAlone, Early, Writing, Completing, FoundNothing,
      GiveUp, store
<1>8. Published'
  BY DEF UploadInv, Published, Settling, FoundNothing, GiveUp, store,
      background
<1>9. CompleteKnows'
  BY DEF UploadInv, CompleteKnows, Completing, FoundNothing, GiveUp, store
<1>10. Owned'
  BY DEF UploadInv, Owned, Owner, InInit, FoundNothing, GiveUp, store,
      background
<1>11. MergingSeen'
  BY DEF UploadInv, MergingSeen, InMerge, FoundNothing, GiveUp, store
<1>12. OneMerge'
  BY DEF UploadInv, OneMerge, InMerge, FoundNothing, GiveUp, store
<1>13. SameLock'
  BY DEF UploadInv, SameLock, Named, Writing, Completing, Asleep,
      FoundNothing, GiveUp, store, files, background
<1>14. OneFile'
  BY DEF UploadInv, OneFile, FoundNothing, GiveUp, files
<1>15. Checked'
  BY DEF UploadInv, Checked, Intact, Writing, FoundNothing, GiveUp, files
<1>16. SideFirst'
  BY DEF UploadInv, SideFirst, FoundNothing, GiveUp, store, record
<1> QED  BY <1>1, <1>2, <1>3, <1>4, <1>5, <1>6, <1>7, <1>8, <1>9, <1>10,
    <1>11, <1>12, <1>13, <1>14, <1>15, <1>16 DEF UploadInv

\* The verified file lands, and its reservation is settled.
LEMMA RenameStep ==
    ASSUME UploadInv, NEW p \in Client, Rename(p)
    PROVE  UploadInv'
<1>1. StoreType' /\ ObjType' /\ LockType' /\ BytesType' /\ DirType' /\
    SideType' /\ SweepType' /\ PersType' /\ PastType' /\ LaterDone' /\
    RecordOwned'
  BY DEF UploadInv, StoreType, ObjType, LockType, BytesType, DirType, Record,
      SideType, SweepType, PersType, PastType, LaterDone, RecordOwned, NoDir,
      Asleep, Rename, store, record, background
<1>2. ResvType'
  BY DEF UploadInv, ResvType, Rename, Settled
<1>3. NameType'
  BY DEF UploadInv, NameType, Rename, store, StoreType
<1>4. ReqType'
  <2>1. ReqType /\ StoreType /\ gens' = gens
    BY DEF UploadInv, Rename, store
  <2>2. Goto(p, "finish")
    BY DEF Rename
  <2>3. "finish" \in Place
    BY DEF Place, InInit, Writing, InMerge
  <2> QED  BY <2>1, <2>2, <2>3, GotoType
<1>5. Knows'
  BY DEF UploadInv, Knows, InInit, Completing, Writing, Rename, Goto
<1>6. FileLock'
  BY DEF UploadInv, FileLock, Rename, Goto
<1>7. Fresh'
  BY DEF UploadInv, Fresh, Rename, Settled, store
<1>8. InitAlone'
  BY DEF UploadInv, InitAlone, InInit, Early, Rename, Goto, store, FileLock
<1>9. EarlyAlone'
  BY DEF UploadInv, EarlyAlone, Early, Writing, Completing, Rename, Goto,
      store
<1>10. CurHeld'
  BY DEF UploadInv, CurHeld, Rename, Settled, store
<1>11. DoneSettled'
  BY DEF UploadInv, DoneSettled, Rename, Settled, store
<1>12. Published'
  BY DEF UploadInv, Published, Settling, Rename, Goto, Settled, store,
      background
<1>13. CompleteKnows'
  <2>1. /\ req[p].at = "rename" /\ cur' = cur /\ overlap' = overlap
        /\ \A q \in Client \ {p} : req'[q] = req[q]
        /\ req'[p].at = "finish" /\ req'[p].g = req[p].g
        /\ req'[p].res = req[p].res
    BY DEF Rename, store, Goto, UploadInv, ReqType
  <2>2. CompleteKnows /\ req[p].g \in Gen
    BY <2>1, Bounds DEF UploadInv, ReqType, StoreType, Knows, Completing
  <2>3. \A g \in Gen : resv'[g] = "held" => resv[g] = "held"
    BY <2>2 DEF Rename, Settled, UploadInv, ResvType
  <2>4. req[p].res => resv'[req[p].g] # "held"
    BY <2>2 DEF Rename, Settled, UploadInv, ResvType
  <2>5. \A q \in Client : req[q].at \in Completing => req[q].g \in Gen
    BY Bounds DEF UploadInv, ReqType, StoreType, Knows
  <2>6. ~overlap => req[p].ok
    BY <2>1 DEF UploadInv, SameLock
  <2>7. ASSUME ~overlap', NEW q \in Client,
               req'[q].at \in Completing \cup {"end"}
        PROVE  cur' \in {0, req'[q].g}
    <3>1. overlap = FALSE /\ req[q].at \in Completing \cup {"end"}
      BY <2>1, <2>7 DEF Completing, UploadInv, PastType
    <3>2. cur \in {0, req[q].g} /\ req'[q].g = req[q].g
      BY <2>1, <2>2, <3>1 DEF CompleteKnows
    <3> QED  BY <2>1, <3>2
  <2>8. ASSUME ~overlap', NEW q \in Client, req'[q].at \in Completing,
               resv'[req'[q].g] = "held"
        PROVE  (req'[q].ok => req'[q].res) /\ req'[q].at # "finish"
    <3>1. CASE q = p
      BY <2>1, <2>2, <2>3, <2>4, <2>6, <2>8, <3>1 DEF CompleteKnows, Completing
    <3>2. CASE q # p
      BY <2>1, <2>2, <2>3, <2>5, <2>8, <3>2 DEF CompleteKnows
    <3> QED  BY <3>1, <3>2
  <2> QED  BY <2>7, <2>8 DEF CompleteKnows
<1>14. Owned'
  BY DEF UploadInv, Owned, Owner, InInit, Rename, Goto, Settled, store,
      background
<1>15. MergingSeen'
  BY DEF UploadInv, MergingSeen, InMerge, Rename, Goto, store
<1>16. OneMerge'
  BY DEF UploadInv, OneMerge, InMerge, Rename, Goto, store
<1>17. SameLock'
  BY DEF UploadInv, SameLock, Named, Writing, Completing, Asleep, Rename,
      Goto, store, background
<1>18. OneFile'
  BY DEF UploadInv, OneFile, Rename, Goto, Checked, Writing
<1>19. Checked'
  BY DEF UploadInv, Checked, Intact, Rename, Goto
<1>20. VerifiedLands'
  BY DEF UploadInv, VerifiedLands, Intact, Rename, Checked
<1>21. SideFirst'
  BY DEF UploadInv, SideFirst, Rename, Goto, store, record
<1> QED  BY <1>1, <1>2, <1>3, <1>4, <1>5, <1>6, <1>7, <1>8, <1>9, <1>10,
    <1>11, <1>12, <1>13, <1>14, <1>15, <1>16, <1>17, <1>18, <1>19, <1>20,
    <1>21 DEF UploadInv

\* The file does not land.
LEMMA RenameFailsStep ==
    ASSUME UploadInv, NEW p \in Client, RenameFails(p)
    PROVE  UploadInv'
<1>1. StoreType' /\ ObjType' /\ ResvType' /\ NameType' /\ BytesType' /\
    DirType' /\ SideType' /\ SweepType' /\ PersType' /\ PastType' /\ Fresh' /\
    CurHeld' /\ DoneSettled' /\ LaterDone' /\ RecordOwned' /\ VerifiedLands'
  BY DEF UploadInv, StoreType, ObjType, ResvType, NameType, BytesType,
      DirType, Record, SideType, SweepType, PersType, PastType, Fresh,
      CurHeld, DoneSettled, LaterDone, RecordOwned, NoDir, Asleep,
      VerifiedLands, Intact, RenameFails, store, files, record, background
<1>2. LockType'
  BY DEF UploadInv, LockType, RenameFails, GiveUp
<1>3. ReqType'
  <2>1. ReqType /\ StoreType /\ gens' = gens
    BY DEF UploadInv, RenameFails, store
  <2>2. GiveUp(p)
    BY DEF RenameFails
  <2> QED  BY <2>1, <2>2, GiveUpType
<1>4. Knows'
  BY DEF UploadInv, Knows, InInit, Completing, Writing, RenameFails, GiveUp
<1>5. FileLock'
  BY DEF UploadInv, FileLock, InInit, RenameFails, GiveUp, ReqType
<1>6. InitAlone'
  BY DEF UploadInv, InitAlone, InInit, Early, RenameFails, GiveUp, store,
      files
<1>7. EarlyAlone'
  BY DEF UploadInv, EarlyAlone, Early, Writing, Completing, RenameFails,
      GiveUp, store
<1>8. Published'
  BY DEF UploadInv, Published, Settling, RenameFails, GiveUp, store,
      background
<1>9. CompleteKnows'
  BY DEF UploadInv, CompleteKnows, Completing, RenameFails, GiveUp, store
<1>10. Owned'
  BY DEF UploadInv, Owned, Owner, InInit, RenameFails, GiveUp, store,
      background
<1>11. MergingSeen'
  BY DEF UploadInv, MergingSeen, InMerge, RenameFails, GiveUp, store
<1>12. OneMerge'
  BY DEF UploadInv, OneMerge, InMerge, RenameFails, GiveUp, store
<1>13. SameLock'
  BY DEF UploadInv, SameLock, Named, Writing, Completing, Asleep,
      RenameFails, GiveUp, store, files, background
<1>14. OneFile'
  BY DEF UploadInv, OneFile, RenameFails, GiveUp, files
<1>15. Checked'
  BY DEF UploadInv, Checked, Intact, Writing, RenameFails, GiveUp, files
<1>16. SideFirst'
  BY DEF UploadInv, SideFirst, RenameFails, GiveUp, store, record
<1> QED  BY <1>1, <1>2, <1>3, <1>4, <1>5, <1>6, <1>7, <1>8, <1>9, <1>10,
    <1>11, <1>12, <1>13, <1>14, <1>15, <1>16 DEF UploadInv

\* The session is finished, and its clean-up asked for.
LEMMA FinishedStep ==
    ASSUME UploadInv, NEW p \in Client, Finished(p)
    PROVE  UploadInv'
<1>1. StoreType' /\ ResvType' /\ NameType' /\ BytesType' /\ DirType' /\
    SideType' /\ SweepType' /\ Fresh' /\ RecordOwned' /\ VerifiedLands'
  BY DEF UploadInv, StoreType, ResvType, NameType, BytesType, DirType,
      Record, SideType, SweepType, Fresh, RecordOwned, NoDir, Asleep,
      VerifiedLands, Intact, Finished, files, record
<1>2. ObjType'
  <2>1. ObjType
    BY DEF UploadInv
  <2>2. cur \in Gen
    BY Bounds DEF UploadInv, StoreType, Finished
  <2>3. \E b \in BOOLEAN : obj' = [obj EXCEPT ![cur].done = b]
    BY DEF Finished
  <2> QED  BY <2>1, <2>2, <2>3, ObjField
<1>3. LockType'
  BY DEF UploadInv, LockType, Finished, GiveUp
<1>4. PersType'
  BY DEF UploadInv, PersType, Record, Finished
<1>5. PastType'
  BY DEF UploadInv, PastType, Finished, StoreType
<1>6. ReqType'
  <2>1. ReqType /\ StoreType /\ gens' = gens
    BY DEF UploadInv, Finished, store
  <2>2. GiveUp(p)
    BY DEF Finished
  <2> QED  BY <2>1, <2>2, GiveUpType
<1>7. Knows'
  BY DEF UploadInv, Knows, InInit, Completing, Writing, Finished, GiveUp
<1>8. FileLock'
  BY DEF UploadInv, FileLock, InInit, Finished, GiveUp, ReqType
<1>9. InitAlone'
  BY DEF UploadInv, InitAlone, InInit, Early, Finished, GiveUp, files,
      FileLock
<1>10. EarlyAlone'
  BY DEF UploadInv, EarlyAlone, Early, Writing, Completing, Finished, GiveUp
<1>11. CurHeld'
  BY DEF UploadInv, CurHeld, Finished
<1>12. DoneSettled'
  BY DEF UploadInv, DoneSettled, Finished, CompleteKnows, Completing
<1>13. Published'
  BY DEF UploadInv, Published, Settling, Finished, GiveUp
<1>14. CompleteKnows'
  BY DEF UploadInv, CompleteKnows, Completing, Finished, GiveUp
<1>15. Owned'
  BY DEF UploadInv, Owned, Owner, InInit, Finished, GiveUp
<1>16. LaterDone'
  BY Bounds DEF UploadInv, LaterDone, Finished, StoreType, ObjType
<1>17. MergingSeen'
  BY DEF UploadInv, MergingSeen, InMerge, Finished, GiveUp
<1>18. OneMerge'
  BY DEF UploadInv, OneMerge, InMerge, Finished, GiveUp
<1>19. SameLock'
  BY DEF UploadInv, SameLock, Named, Writing, Completing, Asleep, Finished,
      GiveUp, files
<1>20. OneFile'
  BY DEF UploadInv, OneFile, Finished, GiveUp, files
<1>21. Checked'
  BY DEF UploadInv, Checked, Intact, Writing, Finished, GiveUp, files
<1>22. SideFirst'
  BY DEF UploadInv, SideFirst, Finished, GiveUp, record
<1> QED  BY <1>1, <1>2, <1>3, <1>4, <1>5, <1>6, <1>7, <1>8, <1>9, <1>10,
    <1>11, <1>12, <1>13, <1>14, <1>15, <1>16, <1>17, <1>18, <1>19, <1>20,
    <1>21, <1>22 DEF UploadInv

\* The file has landed, the session is not told.
LEMMA FinishedOnlyStep ==
    ASSUME UploadInv, NEW p \in Client, FinishedOnly(p)
    PROVE  UploadInv'
<1>1. StoreType' /\ ObjType' /\ ResvType' /\ NameType' /\ BytesType' /\
    DirType' /\ SideType' /\ SweepType' /\ PersType' /\ PastType' /\ Fresh' /\
    CurHeld' /\ DoneSettled' /\ LaterDone' /\ RecordOwned' /\ VerifiedLands'
  BY DEF UploadInv, StoreType, ObjType, ResvType, NameType, BytesType,
      DirType, Record, SideType, SweepType, PersType, PastType, Fresh,
      CurHeld, DoneSettled, LaterDone, RecordOwned, NoDir, Asleep,
      VerifiedLands, Intact, FinishedOnly, store, files, record, background
<1>2. LockType'
  BY DEF UploadInv, LockType, FinishedOnly, GiveUp
<1>3. ReqType'
  <2>1. ReqType /\ StoreType /\ gens' = gens
    BY DEF UploadInv, FinishedOnly, store
  <2>2. GiveUp(p)
    BY DEF FinishedOnly
  <2> QED  BY <2>1, <2>2, GiveUpType
<1>4. Knows'
  BY DEF UploadInv, Knows, InInit, Completing, Writing, FinishedOnly, GiveUp
<1>5. FileLock'
  BY DEF UploadInv, FileLock, InInit, FinishedOnly, GiveUp, ReqType
<1>6. InitAlone'
  BY DEF UploadInv, InitAlone, InInit, Early, FinishedOnly, GiveUp, store,
      files
<1>7. EarlyAlone'
  BY DEF UploadInv, EarlyAlone, Early, Writing, Completing, FinishedOnly,
      GiveUp, store
<1>8. Published'
  BY DEF UploadInv, Published, Settling, FinishedOnly, GiveUp, store,
      background
<1>9. CompleteKnows'
  BY DEF UploadInv, CompleteKnows, Completing, FinishedOnly, GiveUp, store
<1>10. Owned'
  BY DEF UploadInv, Owned, Owner, InInit, FinishedOnly, GiveUp, store,
      background
<1>11. MergingSeen'
  BY DEF UploadInv, MergingSeen, InMerge, FinishedOnly, GiveUp, store
<1>12. OneMerge'
  BY DEF UploadInv, OneMerge, InMerge, FinishedOnly, GiveUp, store
<1>13. SameLock'
  BY DEF UploadInv, SameLock, Named, Writing, Completing, Asleep,
      FinishedOnly, GiveUp, store, files, background
<1>14. OneFile'
  BY DEF UploadInv, OneFile, FinishedOnly, GiveUp, files
<1>15. Checked'
  BY DEF UploadInv, Checked, Intact, Writing, FinishedOnly, GiveUp, files
<1>16. SideFirst'
  BY DEF UploadInv, SideFirst, FinishedOnly, GiveUp, store, record
<1> QED  BY <1>1, <1>2, <1>3, <1>4, <1>5, <1>6, <1>7, <1>8, <1>9, <1>10,
    <1>11, <1>12, <1>13, <1>14, <1>15, <1>16 DEF UploadInv

\* The merging mark is cleared.
LEMMA EndCompleteStep ==
    ASSUME UploadInv, NEW p \in Client, EndComplete(p)
    PROVE  UploadInv'
<1>1. StoreType' /\ ResvType' /\ LockType' /\ NameType' /\ BytesType' /\
    DirType' /\ SideType' /\ SweepType' /\ PersType' /\ PastType' /\ Fresh' /\
    RecordOwned' /\ VerifiedLands'
  BY DEF UploadInv, StoreType, ResvType, LockType, NameType, BytesType,
      DirType, Record, SideType, SweepType, PersType, PastType, Fresh,
      RecordOwned, NoDir, Asleep, VerifiedLands, Intact, EndComplete, files,
      record, background
<1>2. ObjType'
  BY DEF UploadInv, ObjType, EndComplete
<1>3. ReqType'
  <2>1. ReqType /\ StoreType /\ gens' = gens
    BY DEF UploadInv, EndComplete, store
  <2>2. Return(p)
    BY DEF EndComplete
  <2> QED  BY <2>1, <2>2, ReturnType
<1>4. Knows'
  BY DEF UploadInv, Knows, InInit, Completing, Writing, EndComplete, Return,
      Idle
<1>5. FileLock'
  BY DEF UploadInv, FileLock, InInit, EndComplete, Return, Idle
<1>6. InitAlone'
  BY DEF UploadInv, InitAlone, InInit, Early, EndComplete, Return, Idle,
      files
<1>7. EarlyAlone'
  BY DEF UploadInv, EarlyAlone, Early, Writing, Completing, EndComplete,
      Return, Idle
<1>8. CurHeld'
  BY DEF UploadInv, CurHeld, EndComplete
<1>9. DoneSettled'
  BY DEF UploadInv, DoneSettled, EndComplete
<1>10. Published'
  BY DEF UploadInv, Published, Settling, EndComplete, Return, Idle,
      background
<1>11. CompleteKnows'
  BY DEF UploadInv, CompleteKnows, Completing, EndComplete, Return, Idle
<1>12. Owned'
  BY DEF UploadInv, Owned, Owner, InInit, EndComplete, Return, background
<1>13. LaterDone'
  BY DEF UploadInv, LaterDone, EndComplete, background
<1>14. MergingSeen'
  BY Bounds DEF UploadInv, MergingSeen, EndComplete, Return, ObjType,
      StoreType
<1>15. OneMerge'
  BY DEF UploadInv, OneMerge, InMerge, EndComplete, Return, Idle, ReqType
<1>16. SameLock'
  BY DEF UploadInv, SameLock, Named, Writing, Completing, Asleep,
      EndComplete, Return, Idle, files, background
<1>17. OneFile'
  BY DEF UploadInv, OneFile, EndComplete, Return, Idle, files
<1>18. Checked'
  BY DEF UploadInv, Checked, Intact, Writing, EndComplete, Return, Idle,
      files
<1>19. SideFirst'
  BY DEF UploadInv, SideFirst, EndComplete, Return, Idle, record
<1> QED  BY <1>1, <1>2, <1>3, <1>4, <1>5, <1>6, <1>7, <1>8, <1>9, <1>10,
    <1>11, <1>12, <1>13, <1>14, <1>15, <1>16, <1>17, <1>18, <1>19 DEF
    UploadInv

\* A session past its TTL is taken out of the map.
LEMMA SweepCollectStep ==
    ASSUME UploadInv, SweepCollect
    PROVE  UploadInv'
<1>1. ObjType' /\ ResvType' /\ LockType' /\ NameType' /\ BytesType' /\
    DirType' /\ SideType' /\ PersType' /\ ReqType' /\ Knows' /\ FileLock' /\
    Fresh' /\ OneFile' /\ Checked' /\ VerifiedLands'
  BY DEF UploadInv, ObjType, ResvType, LockType, NameType, BytesType,
      DirType, Record, SideType, PersType, ReqType, Knows, InInit, Completing,
      Writing, FileLock, Fresh, OneFile, Checked, Intact, VerifiedLands,
      SweepCollect, files, record
<1>2. StoreType'
  BY DEF UploadInv, StoreType, SweepCollect
<1>3. SweepType'
  BY DEF UploadInv, SweepType, SweepCollect, StoreType
<1>4. PastType'
  BY Bounds DEF UploadInv, PastType, SweepCollect
<1>5. InitAlone'
  BY DEF UploadInv, InitAlone, SweepCollect, files
<1>6. EarlyAlone'
  BY DEF UploadInv, EarlyAlone, SweepCollect
<1>7. CurHeld'
  BY DEF UploadInv, CurHeld, SweepCollect
<1>8. DoneSettled'
  BY DEF UploadInv, DoneSettled, SweepCollect
<1>9. Published'
  BY DEF UploadInv, Published, Settling, SweepCollect, InInit, InitAlone
<1>10. CompleteKnows'
  BY DEF UploadInv, CompleteKnows, SweepCollect
<1>11. Owned'
  BY DEF UploadInv, Owned, Owner, SweepCollect, Asleep, CurHeld
<1>12. LaterDone'
  BY DEF UploadInv, LaterDone, SweepCollect, PastType
<1>13. RecordOwned'
  BY DEF UploadInv, RecordOwned, NoDir, Asleep, SweepCollect, record
<1>14. MergingSeen'
  BY DEF UploadInv, MergingSeen, SweepCollect
<1>15. OneMerge'
  BY DEF UploadInv, OneMerge, SweepCollect
<1>16. SameLock'
  BY DEF UploadInv, SameLock, Named, Asleep, SweepCollect, files
<1>17. SideFirst'
  BY DEF UploadInv, SideFirst, SweepCollect, record
<1> QED  BY <1>1, <1>2, <1>3, <1>4, <1>5, <1>6, <1>7, <1>8, <1>9, <1>10,
    <1>11, <1>12, <1>13, <1>14, <1>15, <1>16, <1>17 DEF UploadInv

\* The sweep gives its reservation back.
LEMMA SweepReleaseStep ==
    ASSUME UploadInv, SweepRelease
    PROVE  UploadInv'
<1>1. StoreType' /\ ObjType' /\ LockType' /\ NameType' /\ BytesType' /\
    DirType' /\ SideType' /\ PersType' /\ PastType' /\ ReqType' /\ Knows' /\
    FileLock' /\ EarlyAlone' /\ LaterDone' /\ MergingSeen' /\ OneMerge' /\
    OneFile' /\ Checked' /\ VerifiedLands' /\ SideFirst'
  BY DEF UploadInv, StoreType, ObjType, LockType, NameType, BytesType,
      DirType, Record, SideType, PersType, PastType, ReqType, Knows, InInit,
      Completing, Writing, FileLock, EarlyAlone, Early, LaterDone,
      MergingSeen, InMerge, OneMerge, OneFile, Checked, Intact,
      VerifiedLands, SideFirst, SweepRelease, store, files, record
<1>2. ResvType'
  BY DEF UploadInv, ResvType, SweepRelease, Settled
<1>3. SweepType'
  BY DEF UploadInv, SweepType, SweepRelease, store
<1>4. Fresh'
  BY DEF UploadInv, Fresh, SweepRelease, Settled, store
<1>5. InitAlone'
  BY DEF UploadInv, InitAlone, SweepRelease, Settled, store, files
<1>6. CurHeld'
  BY DEF UploadInv, CurHeld, SweepRelease, Settled, store
<1>7. DoneSettled'
  BY DEF UploadInv, DoneSettled, SweepRelease, Settled, store
<1>8. Published'
  BY Bounds DEF UploadInv, Published, Settling, SweepRelease, Settled, store,
      ReqType, StoreType, ResvType, InInit, InitAlone
<1>9. CompleteKnows'
  BY DEF UploadInv, CompleteKnows, SweepRelease, Settled, store
<1>10. Owned'
  BY DEF UploadInv, Owned, Owner, SweepRelease, Settled, store, ResvType
<1>11. RecordOwned'
  BY DEF UploadInv, RecordOwned, NoDir, Asleep, SweepRelease, store, record
<1>12. SameLock'
  BY DEF UploadInv, SameLock, Named, Asleep, SweepRelease, store, files
<1> QED  BY <1>1, <1>2, <1>3, <1>4, <1>5, <1>6, <1>7, <1>8, <1>9, <1>10,
    <1>11, <1>12 DEF UploadInv

\* The sweep removes what the session left, unless another one has the id.
LEMMA SweepRemoveStep ==
    ASSUME UploadInv, SweepRemove
    PROVE  UploadInv'
<1>1. StoreType' /\ ObjType' /\ ResvType' /\ BytesType' /\ PersType' /\
    PastType' /\ ReqType' /\ Knows' /\ FileLock' /\ Fresh' /\ InitAlone' /\
    EarlyAlone' /\ CurHeld' /\ DoneSettled' /\ CompleteKnows' /\ LaterDone' /\
    MergingSeen' /\ OneMerge' /\ VerifiedLands'
  BY DEF UploadInv, StoreType, ObjType, ResvType, BytesType, PersType,
      Record, PastType, ReqType, Knows, InInit, Completing, Writing, FileLock,
      Fresh, InitAlone, Early, EarlyAlone, CurHeld, DoneSettled,
      CompleteKnows, LaterDone, MergingSeen, InMerge, OneMerge,
      VerifiedLands, Intact, SweepRemove, store
<1>2. LockType'
  BY DEF UploadInv, LockType, SweepRemove, DeleteArtifacts
<1>3. NameType'
  BY DEF UploadInv, NameType, SweepRemove, DeleteArtifacts, store, StoreType
<1>4. DirType'
  <2>1. gens' = gens /\ (dir' = dir \/ dir' = NoDir)
    BY DEF SweepRemove, store, record, CleanupIfCurrent, DeleteArtifacts
  <2> QED  BY <2>1, DirGone
<1>5. SideType'
  BY DEF UploadInv, SideType, SweepRemove, DeleteArtifacts, NoSums, NoDir,
      record, Asleep, Sums, Val
<1>6. SweepType'
  BY DEF UploadInv, SweepType, SweepRemove, store, Asleep, StoreType
<1>7. Published'
  BY DEF UploadInv, Published, Settling, SweepRemove, store
<1>8. Owned'
  BY DEF UploadInv, Owned, Owner, SweepRemove, store
<1>9. RecordOwned'
  BY DEF UploadInv, RecordOwned, SweepRemove, DeleteArtifacts, store, record
<1>10. SameLock'
  BY DEF UploadInv, SameLock, Named, Writing, Completing, SweepRemove,
      DeleteArtifacts, store
<1>11. OneFile'
  BY DEF UploadInv, OneFile, SweepRemove, DeleteArtifacts
<1>12. Checked'
  BY DEF UploadInv, Checked, Intact, SweepRemove, DeleteArtifacts
<1>13. SideFirst'
  BY DEF UploadInv, SideFirst, SweepRemove, DeleteArtifacts, store, record
<1> QED  BY <1>1, <1>2, <1>3, <1>4, <1>5, <1>6, <1>7, <1>8, <1>9, <1>10,
    <1>11, <1>12, <1>13 DEF UploadInv

\* The writer of session.json takes a snapshot.
LEMMA PersistSnapshotStep ==
    ASSUME UploadInv, PersistSnapshot
    PROVE  UploadInv'
<1>1. StoreType' /\ ObjType' /\ ResvType' /\ LockType' /\ NameType' /\
    BytesType' /\ DirType' /\ SideType' /\ SweepType' /\ PastType' /\ ReqType'
    /\ Knows' /\ FileLock' /\ Fresh' /\ InitAlone' /\ EarlyAlone' /\ CurHeld'
    /\ DoneSettled' /\ Published' /\ CompleteKnows' /\ Owned' /\ LaterDone' /\
    RecordOwned' /\ MergingSeen' /\ OneMerge' /\ SameLock' /\ OneFile' /\
    Checked' /\ VerifiedLands' /\ SideFirst'
  BY DEF UploadInv, StoreType, ObjType, ResvType, LockType, NameType,
      BytesType, DirType, Record, SideType, SweepType, PastType, ReqType,
      Knows, InInit, Completing, Writing, FileLock, Fresh, InitAlone, Early,
      EarlyAlone, CurHeld, DoneSettled, Published, Settling, CompleteKnows,
      Owned, Owner, LaterDone, RecordOwned, Asleep, MergingSeen, InMerge,
      OneMerge, SameLock, Named, OneFile, Checked, Intact, VerifiedLands,
      SideFirst, PersistSnapshot, store, files, record
<1>2. PersType'
  <2>1. /\ gens' = gens /\ queue' = FALSE /\ StoreType
        /\ pers' = AtRest \/ (cur # 0 /\ pers' = [at |-> "write",
                                                  snap |-> Snapshot(cur)])
    BY DEF PersistSnapshot, store, UploadInv
  <2>2. Record' = Record
    BY <2>1 DEF Record
  <2>3. cur # 0 => Snapshot(cur) \in Record
    BY Bounds DEF UploadInv, StoreType, ObjType, Snapshot, Record
  <2>4. AtRest \in [at : {"idle", "write"}, snap : Record]
    BY <2>1, RestIs
  <2>5. pers' \in [at : {"idle", "write"}, snap : Record]
    BY <2>1, <2>3, <2>4
  <2> QED  BY <2>1, <2>2, <2>5 DEF PersType
<1> QED  BY <1>1, <1>2 DEF UploadInv

\* The snapshot is written, if the directory is there.
LEMMA PersistWriteStep ==
    ASSUME UploadInv, PersistWrite
    PROVE  UploadInv'
<1>1. StoreType' /\ ObjType' /\ ResvType' /\ LockType' /\ NameType' /\
    BytesType' /\ SweepType' /\ PastType' /\ ReqType' /\ Knows' /\ FileLock'
    /\ Fresh' /\ InitAlone' /\ EarlyAlone' /\ CurHeld' /\ DoneSettled' /\
    Published' /\ CompleteKnows' /\ Owned' /\ LaterDone' /\ MergingSeen' /\
    OneMerge' /\ SameLock' /\ OneFile' /\ Checked' /\ VerifiedLands'
  BY DEF UploadInv, StoreType, ObjType, ResvType, LockType, NameType,
      BytesType, SweepType, PastType, ReqType, Knows, FileLock, Fresh,
      InitAlone, EarlyAlone, CurHeld, DoneSettled, Published, Settling,
      CompleteKnows, Owned, Owner, LaterDone, MergingSeen, OneMerge,
      SameLock, Named, Asleep, OneFile, Checked, Intact, VerifiedLands,
      PersistWrite, store, files
<1>2. DirType'
  BY DEF UploadInv, DirType, Record, PersistWrite, WriteRecord, store,
      PersType
<1>3. SideType'
  BY DEF UploadInv, SideType, PersistWrite, WriteRecord
<1>4. PersType'
  BY DEF UploadInv, PersType, Record, PersistWrite, WriteRecord, NoDir,
      store, files, AtRest, StoreType
<1>5. RecordOwned'
  BY DEF UploadInv, RecordOwned, Asleep, PersistWrite, WriteRecord, store
<1>6. SideFirst'
  BY DEF UploadInv, SideFirst, PersistWrite, WriteRecord, store
<1> QED  BY <1>1, <1>2, <1>3, <1>4, <1>5, <1>6 DEF UploadInv

\* The clean-up of a finished session.
LEMMA DelayedCleanupStep ==
    ASSUME UploadInv, NEW g \in Gen, DelayedCleanup(g)
    PROVE  UploadInv'
<1>1. ObjType' /\ BytesType' /\ SweepType' /\ PersType' /\ ReqType' /\ Knows'
    /\ FileLock' /\ VerifiedLands'
  BY DEF UploadInv, ObjType, BytesType, SweepType, PersType, Record, ReqType,
      Knows, InInit, Completing, Writing, FileLock, VerifiedLands, Intact,
      DelayedCleanup
<1>2. StoreType'
  BY DEF UploadInv, StoreType, DelayedCleanup, CleanupIfCurrent
<1>3. ResvType'
  BY DEF UploadInv, ResvType, DelayedCleanup, CleanupIfCurrent, Settled
<1>4. LockType'
  BY DEF UploadInv, LockType, DelayedCleanup, CleanupIfCurrent,
      DeleteArtifacts
<1>5. NameType'
  BY DEF UploadInv, NameType, DelayedCleanup, CleanupIfCurrent,
      DeleteArtifacts, StoreType
<1>6. DirType'
  <2>1. gens' = gens /\ (dir' = dir \/ dir' = NoDir)
    BY DEF DelayedCleanup, store, record, CleanupIfCurrent, DeleteArtifacts
  <2> QED  BY <2>1, DirGone
<1>7. SideType'
  BY DEF UploadInv, SideType, DelayedCleanup, CleanupIfCurrent, Settled,
      DeleteArtifacts, NoSums, NoDir, record, Sums, Val
<1>8. PastType'
  BY DEF UploadInv, PastType, DelayedCleanup
<1>9. Fresh'
  BY DEF UploadInv, Fresh, DelayedCleanup, CleanupIfCurrent, Settled,
      ResvType
<1>10. InitAlone'
  BY Bounds DEF UploadInv, InitAlone, DelayedCleanup, CleanupIfCurrent,
      Settled
<1>11. EarlyAlone'
  BY DEF UploadInv, EarlyAlone, DelayedCleanup, CleanupIfCurrent
<1>12. CurHeld'
  BY DEF UploadInv, CurHeld, DelayedCleanup, CleanupIfCurrent
<1>13. DoneSettled'
  BY DEF UploadInv, DoneSettled, DelayedCleanup, CleanupIfCurrent
<1>14. Published'
  BY Bounds DEF UploadInv, Published, Settling, DelayedCleanup,
      CleanupIfCurrent, Settled, ResvType, InInit, InitAlone
<1>15. CompleteKnows'
  BY Bounds DEF UploadInv, CompleteKnows, DelayedCleanup, CleanupIfCurrent,
      Settled
<1>16. Owned'
  BY DEF UploadInv, Owned, Owner, DelayedCleanup, CleanupIfCurrent, Settled,
      ResvType
<1>17. LaterDone'
  BY DEF UploadInv, LaterDone, DelayedCleanup, CleanupIfCurrent, PastType
<1>18. RecordOwned'
  BY DEF UploadInv, RecordOwned, Asleep, DelayedCleanup, CleanupIfCurrent,
      DeleteArtifacts, record
<1>19. MergingSeen'
  BY DEF UploadInv, MergingSeen, DelayedCleanup, CleanupIfCurrent
<1>20. OneMerge'
  BY DEF UploadInv, OneMerge, DelayedCleanup, CleanupIfCurrent
<1>21. SameLock'
  BY Bounds DEF UploadInv, SameLock, Named, Writing, Completing, Asleep,
      DelayedCleanup, CleanupIfCurrent, DeleteArtifacts
<1>22. OneFile'
  BY DEF UploadInv, OneFile, DelayedCleanup, CleanupIfCurrent,
      DeleteArtifacts
<1>23. Checked'
  BY DEF UploadInv, Checked, Intact, DelayedCleanup, CleanupIfCurrent,
      DeleteArtifacts
<1>24. SideFirst'
  BY DEF UploadInv, SideFirst, DelayedCleanup, CleanupIfCurrent,
      DeleteArtifacts, record
<1> QED  BY <1>1, <1>2, <1>3, <1>4, <1>5, <1>6, <1>7, <1>8, <1>9, <1>10,
    <1>11, <1>12, <1>13, <1>14, <1>15, <1>16, <1>17, <1>18, <1>19, <1>20,
    <1>21, <1>22, <1>23, <1>24 DEF UploadInv

\* The target is deleted.
LEMMA RemoveFileStep ==
    ASSUME UploadInv, RemoveFile
    PROVE  UploadInv'
<1>1. StoreType' /\ ObjType' /\ ResvType' /\ LockType' /\ BytesType' /\
    DirType' /\ SideType' /\ SweepType' /\ PersType' /\ PastType' /\ ReqType'
    /\ Knows' /\ FileLock' /\ Fresh' /\ EarlyAlone' /\ CurHeld' /\
    DoneSettled' /\ Published' /\ CompleteKnows' /\ Owned' /\ LaterDone' /\
    RecordOwned' /\ MergingSeen' /\ OneMerge' /\ SameLock' /\ Checked' /\
    SideFirst'
  BY DEF UploadInv, StoreType, ObjType, ResvType, LockType, BytesType,
      DirType, Record, SideType, SweepType, PersType, PastType, ReqType,
      Knows, InInit, Completing, Writing, FileLock, Fresh, EarlyAlone, Early,
      CurHeld, DoneSettled, Published, Settling, CompleteKnows, Owned, Owner,
      LaterDone, RecordOwned, NoDir, Asleep, MergingSeen, InMerge, OneMerge,
      SameLock, Named, Checked, Intact, SideFirst, RemoveFile, store, record,
      background
<1>2. NameType'
  BY DEF UploadInv, NameType, RemoveFile, store, StoreType
<1>3. InitAlone'
  BY DEF UploadInv, InitAlone, RemoveFile, store
<1>4. OneFile'
  BY DEF UploadInv, OneFile, RemoveFile
<1>5. VerifiedLands'
  BY DEF UploadInv, VerifiedLands, Intact, RemoveFile
<1> QED  BY <1>1, <1>2, <1>3, <1>4, <1>5 DEF UploadInv

\* A crash, and the session registered again from its record.
LEMMA CrashRestoreStep ==
    ASSUME UploadInv, CrashRestore
    PROVE  UploadInv'
<1>a. /\ Restored \in [temp : BOOLEAN, sums : Sums, done : BOOLEAN,
                       merging : BOOLEAN, res : BOOLEAN]
      /\ ~Restored.merging
      /\ \A i \in Chunk : Restored.sums[i] # "none" => side[i] # "none"
  BY RestoredIs
<1>b. Register(Restored)
  BY DEF CrashRestore
<1>c. /\ gens' = gens + 1 /\ cur' = gens + 1 /\ cur' \in Gen /\ cur' # 0
      /\ gens \in Nat /\ gens + 1 \in 0..MaxGen
      /\ \A x \in 0..gens : x \in 0..gens'
      /\ \A x \in 1..gens : x \in 1..gens'
      /\ StoreType' /\ ObjType' /\ BytesType'
  BY <1>a, <1>b, Registered
<1>d. /\ obj'[cur'] = Restored
      /\ \A f \in Gen : f \in {temp, final} => bytes'[f] = bytes[f]
  BY <1>a, <1>b, Registered
<1>e. /\ UNCHANGED <<temp, final, overlap, dir, side, abandoned>>
      /\ sweep' = Asleep /\ queue' = FALSE /\ pers' = AtRest /\ later' = {}
      /\ \A q \in Client : req'[q] = Idle /\ req'[q].at = "idle"
      /\ \A g \in Gen : resv'[g] # "held"
      /\ \A g \in Gen : resv[g] = "none" => resv'[g] = "none"
  BY DEF CrashRestore, Forget, record, Idle
<1>1. SideType'
  BY DEF UploadInv, SideType, CrashRestore, record
<1>2. StoreType'
  BY <1>c
<1>3. ObjType'
  BY <1>c
<1>4. ResvType'
  BY DEF UploadInv, ResvType, CrashRestore, Forget
<1>5. LockType'
  BY DEF UploadInv, LockType, CrashRestore, Forget
<1>6. NameType'
  BY <1>c, <1>e, RegisteredTypes
<1>7. BytesType'
  BY <1>c
<1>8. DirType'
  BY <1>c, <1>e, RegisteredTypes DEF UploadInv, DirType
<1>9. SweepType'
  BY <1>c, <1>e DEF SweepType, Asleep
<1>10. PersType'
  BY <1>c, <1>e, RestIs, RegisteredTypes DEF UploadInv, PersType, AtRest
<1>11. PastType'
  BY <1>c, <1>e, Bounds DEF CrashRestore, Forget, UploadInv, PastType
<1>12. ReqType'
  <2>1. Idle \in Request'
    BY <1>c, IdleIs, RegisteredTypes DEF UploadInv
  <2>2. req' \in [Client -> Request']
    BY <1>e, <2>1 DEF CrashRestore, Forget
  <2> QED  BY <2>2 DEF ReqType, Request
<1>13. Knows'
  BY DEF UploadInv, Knows, InInit, Completing, Writing, CrashRestore, Forget,
      Idle, AtRest, NoDir, Asleep, Restored
<1>14. FileLock'
  BY DEF UploadInv, FileLock, InInit, CrashRestore, Forget, Idle, AtRest,
      NoDir, Asleep, Restored
<1>15. Fresh'
  BY <1>c, <1>e, Bounds DEF UploadInv, Fresh
<1>16. InitAlone'
  BY DEF UploadInv, InitAlone, InInit, Early, CrashRestore, Register, NoSums,
      NewSession, Forget, Idle, AtRest, NoDir, Asleep, Restored
<1>17. EarlyAlone'
  BY DEF UploadInv, EarlyAlone, Early, Writing, Completing, CrashRestore,
      Register, NoSums, NewSession, Forget, Idle, AtRest, NoDir, Asleep,
      Restored
<1>18. CurHeld'
  BY <1>c, <1>e DEF CurHeld
<1>19. DoneSettled'
  BY <1>c, <1>e DEF DoneSettled
<1>20. Published'
  BY DEF UploadInv, Published, Settling, CrashRestore, Register, NoSums,
      NewSession, Forget, Idle, AtRest, NoDir, Asleep, Restored
<1>21. CompleteKnows'
  BY DEF UploadInv, CompleteKnows, Completing, CrashRestore, Register,
      NoSums, NewSession, Forget, Idle, AtRest, NoDir, Asleep, Restored
<1>22. Owned'
  BY DEF UploadInv, Owned, Owner, CrashRestore, Register, Forget
<1>23. LaterDone'
  BY DEF UploadInv, LaterDone, CrashRestore, Register, Forget
<1>24. RecordOwned'
  BY <1>c DEF RecordOwned
<1>25. MergingSeen'
  BY <1>a, <1>d DEF MergingSeen
<1>26. OneMerge'
  BY DEF UploadInv, OneMerge, InMerge, CrashRestore, Register, NoSums,
      NewSession, Forget, Idle, AtRest, NoDir, Asleep, Restored
<1>27. SameLock'
  BY DEF UploadInv, SameLock, Named, Writing, Completing, Asleep,
      CrashRestore, Register, NoSums, NewSession, Forget, Idle, AtRest, NoDir,
      Restored
<1>28. OneFile'
  BY DEF UploadInv, OneFile, CrashRestore, Forget, Idle, AtRest, NoDir,
      Asleep, Restored
<1>29. Checked'
  BY DEF UploadInv, Checked, Intact, CrashRestore, Register, NoSums,
      NewSession, Forget, Idle, AtRest, NoDir, Asleep, Restored
<1>30. VerifiedLands'
  BY <1>d, <1>e, Bounds DEF UploadInv, VerifiedLands, Intact, NameType,
     StoreType
<1>31. SideFirst'
  BY <1>a, <1>d, <1>e DEF SideFirst
<1> QED  BY <1>1, <1>2, <1>3, <1>4, <1>5, <1>6, <1>7, <1>8, <1>9, <1>10,
    <1>11, <1>12, <1>13, <1>14, <1>15, <1>16, <1>17, <1>18, <1>19, <1>20,
    <1>21, <1>22, <1>23, <1>24, <1>25, <1>26, <1>27, <1>28, <1>29, <1>30,
    <1>31 DEF UploadInv

\* A crash, and what the session left removed.
LEMMA CrashExpiredStep ==
    ASSUME UploadInv, CrashExpired
    PROVE  UploadInv'
<1>1. ObjType' /\ BytesType' /\ VerifiedLands'
  BY DEF UploadInv, ObjType, BytesType, VerifiedLands, Intact, CrashExpired,
      Forget
<1>2. StoreType'
  BY DEF UploadInv, StoreType, CrashExpired
<1>3. ResvType'
  BY DEF UploadInv, ResvType, CrashExpired, Forget
<1>4. LockType'
  BY DEF UploadInv, LockType, CrashExpired, Forget
<1>5. NameType'
  BY DEF UploadInv, NameType, CrashExpired, Forget, StoreType
<1>6. DirType'
  BY DEF UploadInv, DirType, Record, CrashExpired, NoSums, NoDir, StoreType
<1>7. SideType'
  BY DEF UploadInv, SideType, CrashExpired, NoSums, NoDir, Sums, Val
<1>8. SweepType'
  BY DEF UploadInv, SweepType, CrashExpired, Forget, Idle, NoSums, AtRest,
      NoDir, Asleep, StoreType
<1>9. PersType'
  <2>1. gens' = gens /\ queue' = FALSE /\ pers' = AtRest /\ StoreType
    BY DEF CrashExpired, Forget, UploadInv
  <2>2. Record' = Record
    BY <2>1 DEF Record
  <2>3. AtRest \in [at : {"idle", "write"}, snap : Record]
    BY <2>1, RestIs
  <2> QED  BY <2>1, <2>2, <2>3 DEF PersType
<1>10. PastType'
  BY Bounds DEF UploadInv, PastType, CrashExpired, Forget
<1>11. ReqType'
  BY DEF UploadInv, ReqType, CrashExpired, Forget, Idle, NoSums, AtRest,
      NoDir, Asleep, Place, StoreType, Sums, Val
<1>12. Knows'
  BY DEF UploadInv, Knows, InInit, Completing, Writing, CrashExpired, Forget,
      Idle, NoSums, AtRest, NoDir, Asleep
<1>13. FileLock'
  BY DEF UploadInv, FileLock, InInit, CrashExpired, Forget, Idle, NoSums,
      AtRest, NoDir, Asleep
<1>14. Fresh'
  BY DEF UploadInv, Fresh, CrashExpired, Forget
<1>15. InitAlone'
  BY DEF UploadInv, InitAlone, InInit, Early, CrashExpired, Forget, Idle,
      NoSums, AtRest, NoDir, Asleep
<1>16. EarlyAlone'
  BY DEF UploadInv, EarlyAlone, Early, Writing, Completing, CrashExpired,
      Forget
<1>17. CurHeld'
  BY DEF UploadInv, CurHeld, CrashExpired, Forget
<1>18. DoneSettled'
  BY DEF UploadInv, DoneSettled, CrashExpired, Forget
<1>19. Published'
  BY DEF UploadInv, Published, Settling, CrashExpired, Forget, Idle, NoSums,
      AtRest, NoDir, Asleep
<1>20. CompleteKnows'
  BY DEF UploadInv, CompleteKnows, Completing, CrashExpired, Forget, Idle,
      NoSums, AtRest, NoDir, Asleep
<1>21. Owned'
  BY DEF UploadInv, Owned, Owner, CrashExpired, Forget
<1>22. LaterDone'
  BY DEF UploadInv, LaterDone, CrashExpired, Forget
<1>23. RecordOwned'
  BY DEF UploadInv, RecordOwned, CrashExpired, Forget
<1>24. MergingSeen'
  BY DEF UploadInv, MergingSeen, CrashExpired, Forget
<1>25. OneMerge'
  BY DEF UploadInv, OneMerge, InMerge, CrashExpired, Forget, Idle, NoSums,
      AtRest, NoDir, Asleep
<1>26. SameLock'
  BY DEF UploadInv, SameLock, Named, Writing, Completing, Asleep,
      CrashExpired, Forget, Idle, NoSums, AtRest, NoDir
<1>27. OneFile'
  BY DEF UploadInv, OneFile, CrashExpired, Forget, Idle, NoSums, AtRest,
      NoDir, Asleep
<1>28. Checked'
  BY DEF UploadInv, Checked, Intact, CrashExpired, Forget, Idle, NoSums,
      AtRest, NoDir, Asleep
<1>29. SideFirst'
  BY DEF UploadInv, SideFirst, CrashExpired, Forget
<1> QED  BY <1>1, <1>2, <1>3, <1>4, <1>5, <1>6, <1>7, <1>8, <1>9, <1>10,
    <1>11, <1>12, <1>13, <1>14, <1>15, <1>16, <1>17, <1>18, <1>19, <1>20,
    <1>21, <1>22, <1>23, <1>24, <1>25, <1>26, <1>27, <1>28, <1>29 DEF
    UploadInv

\* A crash that leaves no record.
LEMMA CrashNothingStep ==
    ASSUME UploadInv, CrashNothing
    PROVE  UploadInv'
<1>1. ObjType' /\ NameType' /\ BytesType' /\ DirType' /\ SideType' /\
    VerifiedLands'
  BY DEF UploadInv, ObjType, NameType, BytesType, DirType, Record, SideType,
      VerifiedLands, Intact, CrashNothing, Forget, record
<1>2. StoreType'
  BY DEF UploadInv, StoreType, CrashNothing
<1>3. ResvType'
  BY DEF UploadInv, ResvType, CrashNothing, Forget
<1>4. LockType'
  BY DEF UploadInv, LockType, CrashNothing, Forget
<1>5. SweepType'
  BY DEF UploadInv, SweepType, CrashNothing, Forget, Idle, AtRest, NoDir,
      Asleep, StoreType
<1>6. PersType'
  <2>1. gens' = gens /\ queue' = FALSE /\ pers' = AtRest /\ StoreType
    BY DEF CrashNothing, Forget, UploadInv
  <2>2. Record' = Record
    BY <2>1 DEF Record
  <2>3. AtRest \in [at : {"idle", "write"}, snap : Record]
    BY <2>1, RestIs
  <2> QED  BY <2>1, <2>2, <2>3 DEF PersType
<1>7. PastType'
  BY Bounds DEF UploadInv, PastType, CrashNothing, Forget
<1>8. ReqType'
  BY DEF UploadInv, ReqType, CrashNothing, Forget, Idle, NoSums, AtRest,
      NoDir, Asleep, record, Place, StoreType, Sums, Val
<1>9. Knows'
  BY DEF UploadInv, Knows, InInit, Completing, Writing, CrashNothing, Forget,
      Idle, AtRest, NoDir, Asleep
<1>10. FileLock'
  BY DEF UploadInv, FileLock, InInit, CrashNothing, Forget, Idle, AtRest,
      NoDir, Asleep
<1>11. Fresh'
  BY DEF UploadInv, Fresh, CrashNothing, Forget
<1>12. InitAlone'
  BY DEF UploadInv, InitAlone, InInit, Early, CrashNothing, Forget, Idle,
      AtRest, NoDir, Asleep
<1>13. EarlyAlone'
  BY DEF UploadInv, EarlyAlone, Early, Writing, Completing, CrashNothing,
      Forget
<1>14. CurHeld'
  BY DEF UploadInv, CurHeld, CrashNothing, Forget
<1>15. DoneSettled'
  BY DEF UploadInv, DoneSettled, CrashNothing, Forget
<1>16. Published'
  BY DEF UploadInv, Published, Settling, CrashNothing, Forget, Idle, AtRest,
      NoDir, Asleep
<1>17. CompleteKnows'
  BY DEF UploadInv, CompleteKnows, Completing, CrashNothing, Forget, Idle,
      AtRest, NoDir, Asleep
<1>18. Owned'
  BY DEF UploadInv, Owned, Owner, CrashNothing, Forget
<1>19. LaterDone'
  BY DEF UploadInv, LaterDone, CrashNothing, Forget
<1>20. RecordOwned'
  BY DEF UploadInv, RecordOwned, CrashNothing, Forget, record
<1>21. MergingSeen'
  BY DEF UploadInv, MergingSeen, CrashNothing, Forget
<1>22. OneMerge'
  BY DEF UploadInv, OneMerge, InMerge, CrashNothing, Forget, Idle, AtRest,
      NoDir, Asleep
<1>23. SameLock'
  BY DEF UploadInv, SameLock, Named, Writing, Completing, Asleep,
      CrashNothing, Forget, Idle, AtRest, NoDir
<1>24. OneFile'
  BY DEF UploadInv, OneFile, CrashNothing, Forget, Idle, AtRest, NoDir,
      Asleep
<1>25. Checked'
  BY DEF UploadInv, Checked, Intact, CrashNothing, Forget, Idle, AtRest,
      NoDir, Asleep
<1>26. SideFirst'
  BY DEF UploadInv, SideFirst, CrashNothing, Forget, record
<1> QED  BY <1>1, <1>2, <1>3, <1>4, <1>5, <1>6, <1>7, <1>8, <1>9, <1>10,
    <1>11, <1>12, <1>13, <1>14, <1>15, <1>16, <1>17, <1>18, <1>19, <1>20,
    <1>21, <1>22, <1>23, <1>24, <1>25, <1>26 DEF UploadInv

-----------------------------------------------------------------------------
(* The theorems.                                                            *)

\* An id that nobody has used satisfies the invariant.
LEMMA UploadInit == Init => UploadInv
<1> SUFFICES ASSUME Init PROVE UploadInv
  OBVIOUS
<1>1. /\ cur = 0 /\ gens = 0 /\ temp = 0 /\ final = 0 /\ 0 \in 0..MaxGen
      /\ 0 \in 0..MaxFaults
  BY Bounds DEF Init
<1>2. StoreType /\ ResvType /\ LockType /\ NameType
  BY <1>1 DEF Init, StoreType, ResvType, LockType, NameType
<1>3. NoSums \in Sums
  BY DEF NoSums, Sums, Val
<1>4. ObjType /\ BytesType /\ SideType
  BY <1>3 DEF Init, ObjType, NewSession, BytesType, SideType
<1>5. DirType /\ PersType
  BY <1>2, RestIs DEF Init, DirType, PersType
<1>6. SweepType /\ PastType
  <2>1. sweep = [at |-> "idle", g |-> 0] /\ 0 \in 0..gens
    BY <1>1 DEF Init, Asleep
  <2>2. later = {} /\ abandoned = {} /\ overlap = FALSE /\ faults = 0
    BY DEF Init
  <2>3. PastType
    BY <1>1, <2>2 DEF PastType
  <2> QED  BY <2>1, <2>3 DEF SweepType
<1>7. ReqType
  BY <1>2, ReqIs, IdleIs DEF Init
<1>8. \A p \in Client : req[p].at = "idle"
  BY DEF Init, Idle
<1>9. Knows /\ FileLock /\ InitAlone /\ EarlyAlone /\ Published
  BY <1>8 DEF Knows, FileLock, InitAlone, EarlyAlone, Published, InInit,
     Completing, Writing, Early
<1>10. CompleteKnows /\ OneMerge /\ SameLock
  BY <1>8 DEF CompleteKnows, Completing, OneMerge, InMerge, SameLock, Writing
<1>11. Fresh /\ CurHeld /\ DoneSettled /\ Owned
  BY <1>1 DEF Init, Fresh, CurHeld, DoneSettled, Owned
<1>12. LaterDone /\ RecordOwned /\ MergingSeen /\ OneFile
  BY <1>1 DEF Init, LaterDone, RecordOwned, MergingSeen, OneFile
<1>13. Checked /\ VerifiedLands /\ SideFirst
  BY <1>1 DEF Checked, VerifiedLands, SideFirst
<1> QED
  BY <1>2, <1>4, <1>5, <1>6, <1>7, <1>9, <1>10, <1>11, <1>12, <1>13
     DEF UploadInv

\* Every step of a request, of the sweep, of the writer and of the clean-up,
\* and a crash, keep the invariant.
LEMMA UploadStep == UploadInv /\ [Next]_vars => UploadInv'
<1> SUFFICES ASSUME UploadInv, [Next]_vars PROVE UploadInv'
  OBVIOUS
<1>1. CASE UNCHANGED vars
  <2>1. StoreType' /\ ObjType' /\ ResvType' /\ LockType' /\ NameType' /\
     BytesType'
    BY <1>1 DEF vars, store, files, record, background, UploadInv, StoreType,
       ObjType, ResvType, LockType, NameType, BytesType
  <2>2. DirType' /\ SideType' /\ SweepType' /\ PersType' /\ PastType' /\
     ReqType'
    BY <1>1 DEF vars, store, files, record, background, UploadInv, DirType,
       Record, SideType, SweepType, PersType, PastType, ReqType
  <2>3. Knows' /\ FileLock' /\ Fresh' /\ InitAlone' /\ EarlyAlone' /\ CurHeld'
    BY <1>1 DEF vars, store, files, record, background, UploadInv, Knows,
       InInit, Completing, Writing, FileLock, Fresh, InitAlone, Early,
       EarlyAlone, CurHeld
  <2>4. DoneSettled' /\ Published' /\ CompleteKnows' /\ Owned' /\ LaterDone'
     /\ RecordOwned'
    BY <1>1 DEF vars, store, files, record, background, UploadInv,
       DoneSettled, Published, Settling, CompleteKnows, Completing, Owned,
       Owner, InInit, LaterDone, RecordOwned, NoDir, Asleep
  <2>5. MergingSeen' /\ OneMerge' /\ SameLock' /\ OneFile' /\ Checked' /\
     VerifiedLands'
    BY <1>1 DEF vars, store, files, record, background, UploadInv,
       MergingSeen, InMerge, OneMerge, SameLock, Named, Writing, Completing,
       Asleep, OneFile, Checked, Intact, VerifiedLands
  <2>6. SideFirst'
    BY <1>1 DEF vars, store, files, record, background, UploadInv, SideFirst
  <2> QED  BY <2>1, <2>2, <2>3, <2>4, <2>5, <2>6 DEF UploadInv
<1>2. ASSUME NEW p \in Client, Arrive(p) PROVE UploadInv'
  BY <1>2, InitBeginStep, CompleteBeginStep, ChunkBeginStep DEF Arrive
<1>3. ASSUME NEW p \in Client, InitStep(p) PROVE UploadInv'
  <2>1. CASE Route(p) \/ PublishTemp(p) \/ InitSnapshot(p)
    BY <2>1, InitCases, RoutedStep, NamedHereStep, NamedGoneStep,
       SnapKeptStep, SnapOverStep, SnapUndoneStep
  <2>2. CASE RouteFails(p) \/ CreateTemp(p) \/ CreateFails(p) \/ InitWrite(p)
     \/ InitRollback(p)
    BY <2>2, RouteFailsStep, CreateTempStep, CreateFailsStep, InitWriteStep,
       InitRollbackStep
  <2> QED  BY <1>3, <2>1, <2>2 DEF InitStep
<1>4. ASSUME NEW p \in Client, ChunkStep(p) PROVE UploadInv'
  BY <1>4, ChunkCases, RefusedStep, AcceptedStep, OpenedStep, PutDoneStep,
     PutFailsStep, StoredStep, MarkedStep DEF ChunkStep
<1>5. ASSUME NEW p \in Client, CompleteStep(p) PROVE UploadInv'
  <2>1. CASE CompleteCheck(p) \/ BeginComplete(p) \/ AcquireTarget(p)
    BY <2>1, CompleteCases, RefusedStep, AllThereStep, BegunStep,
       AcquiredStep, LockedStep
  <2>2. CASE Verify(p)
    BY <2>2, CompleteCases, FoundIntactStep, FoundOtherStep, FoundNothingStep
  <2>3. CASE Finish(p)
    BY <2>3, CompleteCases, FinishedStep, FinishedOnlyStep
  <2>4. CASE Rename(p) \/ RenameFails(p) \/ EndComplete(p)
    BY <2>4, RenameStep, RenameFailsStep, EndCompleteStep
  <2> QED  BY <1>5, <2>1, <2>2, <2>3, <2>4 DEF CompleteStep
<1>6. CASE SweepCollect \/ SweepRelease \/ SweepRemove
  BY <1>6, SweepCollectStep, SweepReleaseStep, SweepRemoveStep
<1>7. CASE PersistSnapshot \/ PersistWrite \/ RemoveFile
  BY <1>7, PersistSnapshotStep, PersistWriteStep, RemoveFileStep
<1>8. ASSUME NEW g \in Gen, DelayedCleanup(g) PROVE UploadInv'
  BY <1>8, DelayedCleanupStep
<1>9. CASE Crash
  BY <1>9, CrashRestoreStep, CrashExpiredStep, CrashNothingStep DEF Crash
<1> QED
  BY <1>1, <1>2, <1>3, <1>4, <1>5, <1>6, <1>7, <1>8, <1>9 DEF Next, Step

\* The inductive invariant holds in every reachable state.
THEOREM UploadInvariant == Spec => []UploadInv
BY UploadInit, UploadStep, PTL DEF Spec

\* The sessions, the files, the record and what every request holds have
\* their types, and no generation has a number that was not given out,
\* through every registration, expiry and crash.
THEOREM UploadTypes == Spec => []TypeOK
<1>1. UploadInv => TypeOK
  BY DEF UploadInv, TypeOK, StoreType, ObjType, ResvType, LockType, NameType,
     BytesType, DirType, SideType, SweepType, PersType, PastType, ReqType
<1> QED  BY <1>1, UploadInvariant, PTL

\* What lands is what was declared: the file at the target has the bytes that
\* UploadComplete verified, whatever chunks, sweeps and crashes come between
\* the check and the rename.
THEOREM VerifiedBytesLand == Spec => []VerifiedLands
<1>1. UploadInv => VerifiedLands
  BY DEF UploadInv
<1> QED  BY <1>1, UploadInvariant, PTL

\* Reserved space always has somebody who will settle it: the session, the
\* sweep that took it out of the map, or a running init.
THEOREM ReservedHasOwner == Spec => []ReservationOwned
<1>1. UploadInv => ReservationOwned
  <2> SUFFICES ASSUME UploadInv, NEW g \in Gen, resv[g] = "held"
               PROVE  \/ overlap \/ g \in abandoned
                      \/ cur = g /\ obj[g].res
                      \/ sweep = [at |-> "release", g |-> g]
                      \/ \E p \in Client : req[p].g = g /\ req[p].at \in InInit
    BY DEF ReservationOwned
  <2>1. Owner(g)
    BY DEF UploadInv, Owned
  <2>2. cur = g => obj[g].res
    BY Bounds DEF UploadInv, CurHeld
  <2> QED  BY <2>1, <2>2 DEF Owner
<1> QED  BY <1>1, UploadInvariant, PTL

\* A session directory with a record has a session or the sweep that is about
\* to remove it: no late write of session.json brings a session back.
THEOREM RecordHasOwner == Spec => []RecordOwned
<1>1. UploadInv => RecordOwned
  BY DEF UploadInv
<1> QED  BY <1>1, UploadInvariant, PTL

\* No session refuses chunks for a merge that nobody runs, and unless its id
\* was taken over under older requests the merge is its own.
THEOREM MergingHasOwner == Spec => []MergingOwned
<1>1. UploadInv => MergingOwned
  BY DEF UploadInv, MergingSeen, MergingOwned, CompleteKnows, Completing,
     InMerge
<1> QED  BY <1>1, UploadInvariant, PTL

\* No clean-up and no roll-back of an earlier generation removes the file a
\* registered session has named.
THEOREM NamedFileKept == Spec => TempKept
<1> DEFINE Kept == cur' # 0 /\ obj'[cur'].temp /\ temp # 0 /\ temp' = 0 =>
                      final' = temp
<1>1. ASSUME Next PROVE Kept
  <2>1. ASSUME NEW p \in Client, Arrive(p) PROVE Kept
    <3>1. temp' = temp
      BY <2>1 DEF Arrive, InitBegin, CompleteBegin, ChunkBegin, files
    <3> QED  BY <3>1
  <2>2. ASSUME NEW p \in Client, InitStep(p) PROVE Kept
    <3>1. CASE Route(p) \/ PublishTemp(p) \/ InitSnapshot(p) \/ InitWrite(p)
      BY <3>1 DEF Route, PublishTemp, InitSnapshot, InitWrite, files
    <3>2. CASE RouteFails(p) \/ CreateFails(p)
      BY <3>2 DEF RouteFails, CreateFails, CleanupIfCurrent
    <3>3. CASE CreateTemp(p)
      BY <3>3 DEF CreateTemp
    <3>4. CASE InitRollback(p)
      BY <3>4 DEF InitRollback, store
    <3> QED  BY <2>2, <3>1, <3>2, <3>3, <3>4 DEF InitStep
  <2>3. ASSUME NEW p \in Client, ChunkStep(p) PROVE Kept
    <3>1. temp' = temp
      BY <2>3 DEF ChunkStep, ChunkRecheck, ChunkOpen, ChunkPut, ChunkSidecar,
         ChunkMark, files
    <3> QED  BY <3>1
  <2>4. ASSUME NEW p \in Client, CompleteStep(p) PROVE Kept
    <3>1. CASE Rename(p)
      BY <3>1 DEF Rename
    <3>2. CASE ~Rename(p)
      <4>1. temp' = temp
        BY <2>4, <3>2 DEF CompleteStep, CompleteCheck, BeginComplete,
           AcquireTarget, Verify, RenameFails, Finish, EndComplete, files
      <4> QED  BY <4>1
    <3> QED  BY <3>1, <3>2
  <2>5. CASE SweepCollect \/ SweepRelease \/ PersistSnapshot \/ PersistWrite
    BY <2>5 DEF SweepCollect, SweepRelease, PersistSnapshot, PersistWrite,
       files
  <2>6. CASE SweepRemove
    BY <2>6 DEF SweepRemove, store
  <2>7. CASE \E g \in Gen : DelayedCleanup(g)
    BY <2>7 DEF DelayedCleanup, CleanupIfCurrent
  <2>8. CASE RemoveFile \/ Crash
    BY <2>8 DEF RemoveFile, Crash, CrashRestore, CrashExpired, CrashNothing
  <2> QED
    BY <1>1, <2>1, <2>2, <2>3, <2>4, <2>5, <2>6, <2>7, <2>8 DEF Next, Step
<1>2. [Next]_vars => [Kept]_vars
  BY <1>1
<1>3. [][Next]_vars => [][Kept]_vars
  BY <1>2, PTL
<1> QED  BY <1>3, PTL DEF Spec, TempKept

\* A session leaves the map only when it expires, when the process crashes,
\* when its own init fails, or after it has finished: a delayed clean-up of
\* an earlier generation does not remove the next one.
THEOREM LiveSessionKept == Spec => SessionKept
<1> DEFINE Kept == cur # 0 /\ cur' # cur =>
                      \/ obj[cur].done \/ faults' # faults
                      \/ \E p \in Client :
                            req[p].g = cur /\ req[p].at \in InInit
<1>1. ASSUME UploadInv, Next PROVE Kept
  <2>1. ASSUME NEW p \in Client, Arrive(p) PROVE Kept
    BY <2>1 DEF Arrive, InitBegin, CompleteBegin, ChunkBegin, store
  <2>2. ASSUME NEW p \in Client, InitStep(p) PROVE Kept
    <3>1. CASE RouteFails(p) \/ CreateFails(p)
      BY <3>1 DEF RouteFails, CreateFails, CleanupIfCurrent, InInit
    <3>2. CASE ~(RouteFails(p) \/ CreateFails(p))
      <4>1. cur' = cur
        BY <2>2, <3>2 DEF InitStep, Route, CreateTemp, PublishTemp,
           InitSnapshot, InitWrite, InitRollback, store
      <4> QED  BY <4>1
    <3> QED  BY <3>1, <3>2
  <2>3. ASSUME NEW p \in Client, ChunkStep(p) \/ CompleteStep(p) PROVE Kept
    <3>1. cur' = cur
      BY <2>3 DEF ChunkStep, ChunkRecheck, ChunkOpen, ChunkPut, ChunkSidecar,
         ChunkMark, CompleteStep, CompleteCheck, BeginComplete, AcquireTarget,
         Verify, Rename, RenameFails, Finish, EndComplete, store
    <3> QED  BY <3>1
  <2>4. CASE SweepCollect \/ Crash
    <3>1. faults' = faults + 1 /\ faults \in Nat
      BY <1>1, <2>4, Bounds DEF SweepCollect, Crash, CrashRestore,
         CrashExpired, CrashNothing, Forget, UploadInv, PastType
    <3> QED  BY <3>1
  <2>5. CASE SweepRelease \/ SweepRemove \/ PersistSnapshot \/ PersistWrite
             \/ RemoveFile
    BY <2>5 DEF SweepRelease, SweepRemove, PersistSnapshot, PersistWrite,
       RemoveFile, store
  <2>6. ASSUME NEW g \in Gen, DelayedCleanup(g) PROVE Kept
    BY <1>1, <2>6 DEF DelayedCleanup, CleanupIfCurrent, UploadInv, LaterDone
  <2> QED  BY <1>1, <2>1, <2>2, <2>3, <2>4, <2>5, <2>6 DEF Next, Step
<1>2. UploadInv /\ [Next]_vars => [Kept]_vars
  BY <1>1
<1>3. []UploadInv /\ [][Next]_vars => [][Kept]_vars
  BY <1>2, PTL
<1>4. Spec => [][Kept]_vars
  BY <1>3, UploadInvariant, PTL DEF Spec
<1> QED  BY <1>4 DEF SessionKept

\* An acknowledged chunk survives a crash: its sum was in a file before the
\* chunk was recorded, so that recovery finds it.
THEOREM AcknowledgedSurvives == Spec => AckSurvives
<1> DEFINE Survives ==
      ~overlap /\ CrashRestore /\ cur # 0 /\ ~dir.done =>
        \A i \in Chunk :
            /\ temp # 0 /\ obj[cur].sums[i] \in {"good", "bad"}
            /\ bytes[temp][i] = obj[cur].sums[i]
            /\ side[i] \in {"none", obj[cur].sums[i]}
            => obj'[cur'].sums[i] = obj[cur].sums[i]
<1>1. ASSUME UploadInv PROVE Survives
  <2> SUFFICES ASSUME ~overlap, CrashRestore, cur # 0, NEW i \in Chunk,
                      temp # 0, obj[cur].sums[i] \in {"good", "bad"},
                      bytes[temp][i] = obj[cur].sums[i],
                      side[i] \in {"none", obj[cur].sums[i]}
               PROVE  obj'[cur'].sums[i] = obj[cur].sums[i]
    OBVIOUS
  <2>1. obj'[cur'] = Restored
    <3>1. Register(Restored)
      BY DEF CrashRestore
    <3> QED  BY <1>1, <3>1, RestoredIs, Registered
  <2>2. side[i] # "none"
    BY <1>1 DEF UploadInv, SideFirst
  <2>3. side[i] = obj[cur].sums[i]
    BY <2>2
  <2>4. Restored.sums[i] = side[i]
    BY <1>1, <2>3, RestoredIs
  <2> QED  BY <2>1, <2>3, <2>4
<1>2. UploadInv /\ [Next]_vars => [Survives]_vars
  BY <1>1
<1>3. []UploadInv /\ [][Next]_vars => [][Survives]_vars
  BY <1>2, PTL
<1>4. Spec => [][Survives]_vars
  BY <1>3, UploadInvariant, PTL DEF Spec
<1> QED  BY <1>4 DEF AckSurvives
=============================================================================

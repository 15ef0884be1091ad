------------------------------ MODULE MuxTable ------------------------------
(***************************************************************************)
(* The stream table of one mux (pkg/tunnel/mux/mux.go): who is registered, *)
(* the activeStreams count that gates maxStreams, and the end of streams   *)
(* and of the mux.                                                         *)
(*                                                                         *)
(* Concurrent actors: any number of goroutines inside Open, the readLoop   *)
(* handling the peer's Open, Close and Reject frames, the writeLoop        *)
(* sending Close frames, goroutines inside Abort, and mux.Close.  A step   *)
(* is one critical section of m.mu or one atomic operation outside it.     *)
(***************************************************************************)
EXTENDS Integers, Sequences, FiniteSets

CONSTANTS
    FirstID,     \* nextID of a new mux: 1 for the dialer, 0 for the listener
    MaxID,       \* MaxUint32
    PeerIDs,     \* stream IDs the peer opens, of the other parity
    MaxObjs,     \* bound: stream objects created
    maxStreams,  \* 0 means no limit
    AcceptCap    \* capacity of acceptCh

ASSUME TableAssumption ==
    /\ FirstID \in {0, 1} /\ MaxID \in Nat \ {0}
    /\ PeerIDs \subseteq 0..MaxID
    /\ \A p \in PeerIDs : p % 2 # FirstID
    /\ MaxObjs \in Nat /\ maxStreams \in Nat /\ AcceptCap \in Nat

Objs == 1..MaxObjs
IDs == 0..MaxID
None == 0

VARIABLES
    peerReuses, \* the peer may open again an ID it used before
    nextID,
    table,      \* streams: stream ID -> object, or None
    sid,        \* the ID each object was created with
    created,    \* number of objects created
    phase,      \* how far the registration of an object has come
    done,       \* objects whose done channel is closed
    removing,   \* taken out of the table, activeStreams not yet decremented
    active,     \* activeStreams
    acceptCh,
    handles,    \* objects the application holds
    rl,         \* readLoop: idle, or the frame or object it is busy with
    asked,      \* history: objects whose end somebody asked for
    muxDone     \* the mux's done channel is closed

vars == <<peerReuses, nextID, table, sid, created, phase, done, removing,
          active, acceptCh, handles, rl, asked, muxDone>>

Idle == [at |-> "idle", id |-> 0, obj |-> None]
Registered == {table[i] : i \in IDs} \ {None}

Init ==
    /\ peerReuses \in BOOLEAN
    /\ nextID = FirstID
    /\ table = [i \in IDs |-> None]
    /\ sid = [o \in Objs |-> 0]
    /\ created = 0
    /\ phase = [o \in Objs |-> "none"]
    /\ done = {} /\ removing = {} /\ active = 0
    /\ acceptCh = <<>> /\ handles = {}
    /\ rl = Idle /\ asked = {} /\ muxDone = FALSE

\* newStream and its entry in the table.
Register(i, ph) ==
    LET o == created + 1 IN
    /\ created < MaxObjs
    /\ created' = o
    /\ sid' = [sid EXCEPT ![o] = i]
    /\ table' = [table EXCEPT ![i] = o]
    /\ phase' = [phase EXCEPT ![o] = ph]

AtLimit == maxStreams > 0 /\ active >= maxStreams

-----------------------------------------------------------------------------
(* Open.                                                                    *)

\* The checks and the registration, under m.mu.
OpenRegister ==
    /\ ~muxDone
    /\ ~AtLimit
    /\ nextID < MaxID - 2
    /\ nextID' = nextID + 2
    /\ Register(nextID, "send")
    /\ UNCHANGED <<done, removing, active, acceptCh, handles, rl, asked,
                   muxDone>>

\* conn.Send of the Open frame succeeds: the peer may answer from here on.
OpenSent(o) ==
    /\ phase[o] = "send"
    /\ phase' = [phase EXCEPT ![o] = "count"]
    /\ UNCHANGED <<nextID, table, sid, created, done, removing, active,
                   acceptCh, handles, rl, asked, muxDone>>

OpenFails(o) ==
    /\ phase[o] = "send"
    /\ table' = [table EXCEPT ![sid[o]] = None]
    /\ phase' = [phase EXCEPT ![o] = "failed"]
    /\ UNCHANGED <<nextID, sid, created, done, removing, active, acceptCh,
                   handles, rl, asked, muxDone>>

\* activeStreams.Add(1), and the handle is returned.
OpenCount(o) ==
    /\ phase[o] = "count" /\ ~(rl.at = "count" /\ rl.obj = o)
    /\ active' = active + 1
    /\ phase' = [phase EXCEPT ![o] = "up"]
    /\ handles' = handles \cup {o}
    /\ UNCHANGED <<nextID, table, sid, created, done, removing, acceptCh, rl,
                   asked, muxDone>>

-----------------------------------------------------------------------------
(* readLoop.                                                                *)

\* Receive returns a frame; the mux may be closed before it is handled.  The
\* peer answers only Open frames that were sent, and opens its own IDs.
Receive(kind, i) ==
    /\ rl = Idle /\ ~muxDone
    /\ IF kind = "open"
       THEN i \in PeerIDs /\ (peerReuses \/ \A o \in 1..created : sid[o] # i)
       ELSE \E o \in Objs : phase[o] \in {"count", "up"} /\ sid[o] = i
    /\ rl' = [at |-> kind, id |-> i, obj |-> None]
    /\ UNCHANGED <<nextID, table, sid, created, phase, done, removing, active,
                   acceptCh, handles, asked, muxDone>>

\* handleOpenFrame: a known ID is ignored, a mux at its limit rejects.
HandleOpenRefuse ==
    /\ rl.at = "open"
    /\ table[rl.id] # None \/ AtLimit
    /\ rl' = Idle
    /\ UNCHANGED <<nextID, table, sid, created, phase, done, removing, active,
                   acceptCh, handles, asked, muxDone>>

HandleOpen ==
    /\ rl.at = "open" /\ table[rl.id] = None /\ ~AtLimit
    /\ Register(rl.id, "offer")
    /\ rl' = [rl EXCEPT !.at = "offer", !.obj = created']
    /\ UNCHANGED <<nextID, done, removing, active, acceptCh, handles, asked,
                   muxDone>>

\* The non-blocking send to acceptCh; when it is full the stream is rejected
\* and taken out again.
Offer ==
    /\ rl.at = "offer"
    /\ IF Len(acceptCh) < AcceptCap
       THEN /\ acceptCh' = Append(acceptCh, rl.obj)
            /\ phase' = [phase EXCEPT ![rl.obj] = "count"]
            /\ rl' = [rl EXCEPT !.at = "count"]
            /\ UNCHANGED <<table, done, asked>>
       ELSE /\ table' = [table EXCEPT ![rl.id] = None]
            /\ phase' = [phase EXCEPT ![rl.obj] = "failed"]
            /\ done' = done \cup {rl.obj}
            /\ asked' = asked \cup {rl.obj}
            /\ rl' = Idle
            /\ UNCHANGED acceptCh
    /\ UNCHANGED <<nextID, sid, created, removing, active, handles, muxDone>>

AcceptCount ==
    /\ rl.at = "count"
    /\ active' = active + 1
    /\ phase' = [phase EXCEPT ![rl.obj] = "up"]
    /\ rl' = Idle
    /\ UNCHANGED <<nextID, table, sid, created, done, removing, acceptCh,
                   handles, asked, muxDone>>

\* handleCloseFrame and handleRejectFrame: out of the table under m.mu, then
\* the count and the channels.
HandleEnd ==
    /\ rl.at \in {"close", "reject"}
    /\ LET o == table[rl.id] IN
       IF o = None
       THEN rl' = Idle /\ UNCHANGED <<table, asked>>
       ELSE /\ table' = [table EXCEPT ![rl.id] = None]
            /\ asked' = asked \cup {o}
            /\ rl' = [rl EXCEPT !.at = "end", !.obj = o]
    /\ UNCHANGED <<nextID, sid, created, phase, done, removing, active,
                   acceptCh, handles, muxDone>>

HandleEndCount ==
    /\ rl.at = "end"
    /\ active' = active - 1
    /\ done' = done \cup {rl.obj}
    /\ rl' = Idle
    /\ UNCHANGED <<nextID, table, sid, created, phase, removing, acceptCh,
                   handles, asked, muxDone>>

-----------------------------------------------------------------------------
(* The application, the writeLoop and mux.Close.                            *)

Accept ==
    /\ acceptCh # <<>>
    /\ handles' = handles \cup {Head(acceptCh)}
    /\ acceptCh' = Tail(acceptCh)
    /\ UNCHANGED <<nextID, table, sid, created, phase, done, removing, active,
                   rl, asked, muxDone>>

\* Who aborts a stream: the application that holds it, or the readLoop, on a
\* data frame that overruns the window of a stream that was set up, accepted
\* or not (abortWindowViolation).
MayAbort(o) ==
    \/ o \in handles
    \/ rl = Idle /\ ~muxDone /\ phase[o] \in {"count", "up"}

\* Mutant: Abort only closes the channels and leaves entry and count.
Abort_NoUnregister(o) ==
    /\ MayAbort(o)
    /\ asked' = asked \cup {o}
    /\ done' = done \cup {o}
    /\ removing' = removing \cup {o}
    /\ UNCHANGED <<nextID, table, sid, created, phase, active, acceptCh,
                   handles, rl, muxDone>>

\* Mutant: Abort takes out whatever is registered under the ID.
Abort_ByID(o) ==
    /\ MayAbort(o)
    /\ asked' = asked \cup {o}
    /\ done' = done \cup {o}
    /\ table' = [table EXCEPT ![sid[o]] = None]
    /\ removing' = removing \cup ({table[sid[o]]} \ {None})
    /\ UNCHANGED <<nextID, sid, created, phase, active, acceptCh, handles, rl,
                   muxDone>>

\* Abort: removeStreamIf takes the entry out only if it is this object.
Abort(o) ==
    /\ MayAbort(o)
    /\ asked' = asked \cup {o}
    /\ IF table[sid[o]] = o
       THEN /\ table' = [table EXCEPT ![sid[o]] = None]
            /\ removing' = removing \cup {o}
            /\ UNCHANGED done
       ELSE done' = done \cup {o} /\ UNCHANGED <<table, removing>>
    /\ UNCHANGED <<nextID, sid, created, phase, active, acceptCh, handles, rl,
                   muxDone>>

\* The writeLoop has sent the Close frame of a stream: removeStream by ID.
\* The frame names an ID only, so it asks for the end of the stream that has
\* the ID at both ends, be it another one.
CloseSent(o) ==
    /\ o \in handles /\ ~muxDone
    /\ table[sid[o]] # None
    /\ table' = [table EXCEPT ![sid[o]] = None]
    /\ removing' = removing \cup {table[sid[o]]}
    /\ asked' = asked \cup {table[sid[o]]}
    /\ UNCHANGED <<nextID, sid, created, phase, done, active, acceptCh,
                   handles, rl, muxDone>>

\* Mutant: the count is given back and the channels stay open.
FinishRemove_KeepsOpen(o) ==
    /\ o \in removing
    /\ removing' = removing \ {o}
    /\ active' = active - 1
    /\ UNCHANGED <<nextID, table, sid, created, phase, done, acceptCh,
                   handles, rl, asked, muxDone>>

\* The rest of removeStream and removeStreamIf, outside m.mu.
FinishRemove(o) ==
    /\ o \in removing
    /\ removing' = removing \ {o}
    /\ active' = active - 1
    /\ done' = done \cup {o}
    /\ UNCHANGED <<nextID, table, sid, created, phase, acceptCh, handles, rl,
                   asked, muxDone>>

\* Close of the mux: every registered stream, in one critical section.  The
\* count is left as it is.
Close ==
    /\ ~muxDone
    /\ muxDone' = TRUE
    /\ table' = [i \in IDs |-> None]
    /\ done' = done \cup Registered
    /\ asked' = asked \cup Registered
    /\ UNCHANGED <<nextID, sid, created, phase, removing, active, acceptCh,
                   handles, rl>>

-----------------------------------------------------------------------------
Next ==
    /\ \/ OpenRegister
       \/ \E o \in Objs : OpenSent(o) \/ OpenFails(o) \/ OpenCount(o)
       \/ \E kind \in {"open", "close", "reject"}, i \in IDs : Receive(kind, i)
       \/ HandleOpenRefuse \/ HandleOpen \/ Offer \/ AcceptCount
       \/ HandleEnd \/ HandleEndCount
       \/ Accept
       \/ \E o \in Objs : Abort(o) \/ CloseSent(o) \/ FinishRemove(o)
       \/ Close
    /\ UNCHANGED peerReuses

Spec == Init /\ [][Next]_vars

-----------------------------------------------------------------------------
TypeOK ==
    /\ peerReuses \in BOOLEAN /\ nextID \in IDs
    /\ table \in [IDs -> Objs \cup {None}] /\ sid \in [Objs -> IDs]
    /\ created \in 0..MaxObjs
    /\ phase \in [Objs -> {"none", "send", "offer", "count", "up", "failed"}]
    /\ done \subseteq Objs /\ removing \subseteq Objs /\ handles \subseteq Objs
    /\ asked \subseteq Objs
    /\ active \in Int /\ muxDone \in BOOLEAN
    /\ acceptCh \in Seq(Objs)
    /\ rl \in [at : {"idle", "open", "offer", "count", "close", "reject",
                     "end"}, id : IDs, obj : Objs \cup {None}]

\* Registrations whose +1 is still to come, and removals whose -1 is.
Uncounted == {o \in Objs : phase[o] \in {"send", "offer", "count"}}
Ending == removing \cup (IF rl.at = "end" THEN {rl.obj} ELSE {})

\* While the mux is open activeStreams counts the registered streams, up to
\* the updates in progress; when all is quiet it is exact, so a stream that
\* ends, however it ends and whoever ends it, gives its place back once
\* (stream.go:519-527).  A peer that reuses an ID can still break it, through
\* the removal by ID of a stale handle's Close.
CountExact ==
    ~muxDone /\ ~peerReuses =>
        active = Cardinality(Registered) + Cardinality(Ending)
                 - Cardinality(Uncounted)

\* A stream ends only because someone ended it: its owner, the peer, the mux,
\* or a Close frame sent under its ID.  Above all Abort on a stale handle
\* never ends the stream that took its ID (mux.go:542-554).
EndsOnlyIfAsked == done \subseteq asked

\* A stream out of the table is closed, or is about to be: a goroutine
\* blocked in its Read or Write is released.
UnregisteredIsClosed ==
    \A o \in handles : o \notin Registered => o \in done \cup Ending
=============================================================================

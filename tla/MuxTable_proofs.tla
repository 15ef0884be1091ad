--------------------------- MODULE MuxTable_proofs ---------------------------
(***************************************************************************)
(* Proofs about MuxTable for every limit, every number of streams and      *)
(* every set of IDs of the peer: activeStreams is exact, a stream ends     *)
(* only if someone asked, and a stream out of the table is closed.         *)
(***************************************************************************)
EXTENDS MuxTable, FiniteSetTheorems, TLAPS

Live == {"send", "offer", "count", "up"}
Shared == {"count", "up"}

\* The object is in the table, under its own ID.
In(o) == table[sid[o]] = o
InTable == {o \in Objs : In(o)}

\* The mux itself gives out the IDs of one parity.
Own(i) == i % 2 = FirstID

\* The object is being ended by the readLoop or by a removal.
IsEnding(o) == o \in removing \/ (rl.at = "end" /\ rl.obj = o)

\* Objects are created in order and leave the phase "none" when they are.
Fresh == \A o \in Objs : phase[o] = "none" <=> o > created

\* An entry of the table is a live object created under that ID.
TableMatches ==
    \A i \in IDs : table[i] # None =>
        sid[table[i]] = i /\ phase[table[i]] \in Live

\* IDs of the mux grow; every other ID in use is one of the peer's.
OwnIDs ==
    /\ Own(nextID)
    /\ \A o \in Objs : o <= created =>
         \/ Own(sid[o]) /\ sid[o] < nextID
         \/ sid[o] \in PeerIDs

\* No two objects share an ID of the mux, nor one of a peer that never
\* reuses its IDs.
UniqueIDs ==
    \A o, p \in Objs :
        /\ o <= created /\ p <= created
        /\ sid[o] = sid[p]
        /\ Own(sid[o]) \/ ~peerReuses
        => o = p

\* What the phase of an object says about who works on it.
PhaseKnows ==
    \A o \in Objs :
        /\ phase[o] = "send" => Own(sid[o])
        /\ phase[o] = "offer" => rl.at = "offer" /\ rl.obj = o

\* What the readLoop knows at each of its places.
LoopKnows ==
    /\ rl.at = "open" =>
         /\ rl.id \in PeerIDs
         /\ ~peerReuses => \A o \in Objs : o <= created => sid[o] # rl.id
    /\ rl.at = "offer" =>
         /\ rl.obj \in Objs /\ phase[rl.obj] = "offer"
         /\ sid[rl.obj] = rl.id /\ rl.id \in PeerIDs
         /\ table[rl.id] \in {rl.obj, None}
    /\ rl.at = "count" => rl.obj \in Objs /\ phase[rl.obj] = "count"
    /\ rl.at \in {"close", "reject"} =>
         \E o \in Objs : phase[o] \in Shared /\ sid[o] = rl.id
    /\ rl.at = "end" => rl.obj \in Objs /\ phase[rl.obj] \in Shared

\* The application holds, or may accept, only streams that were set up.
HeldAreShared ==
    /\ \A o \in handles : phase[o] \in Shared
    /\ \A k \in 1..Len(acceptCh) : phase[acceptCh[k]] \in Shared

\* An object that is being ended is out of the table, and is ended once.
EndsOnce ==
    /\ \A o \in removing : ~In(o) /\ phase[o] # "none"
    /\ rl.at = "end" => ~In(rl.obj) /\ rl.obj \notin removing

\* Who ends an object was asked to.
AskedFirst == \A o \in Objs : o \in done \/ IsEnding(o) => o \in asked

\* A live object is in the table, closed, or being ended.
Accounted ==
    \A o \in Objs : phase[o] \in Live => In(o) \/ o \in done \/ IsEnding(o)

\* While the mux is open nobody but its own goroutine takes out a stream
\* that is not yet set up.
NotTakenEarly ==
    ~muxDone =>
        /\ \A o \in Objs : phase[o] = "send" => In(o)
        /\ rl.at = "offer" /\ ~peerReuses => In(rl.obj)

\* Everything about the table but the count.
TableInv ==
    /\ TypeOK
    /\ Fresh /\ TableMatches /\ OwnIDs /\ UniqueIDs /\ PhaseKnows
    /\ LoopKnows /\ HeldAreShared /\ EndsOnce /\ AskedFirst /\ Accounted
    /\ NotTakenEarly

-----------------------------------------------------------------------------
(* The table and the updates of it.                                         *)

\* No object is the empty entry.
LEMMA NoneIsNoObj == None \notin Objs
BY TableAssumption DEF None, Objs

\* The registered objects are the ones found under their own ID.
LEMMA RegisteredIs == TypeOK /\ TableMatches => Registered = InTable
BY TableAssumption
   DEF TypeOK, TableMatches, Registered, InTable, In, None, Objs

\* newStream takes an object that nobody has seen, and touches nothing else.
LEMMA RegisterEffect ==
    ASSUME TypeOK, Fresh, NEW i \in IDs, NEW ph, Register(i, ph)
    PROVE  /\ created' = created + 1
           /\ created' \in Objs /\ created' # None
           /\ phase[created'] = "none"
           /\ \A o \in Objs : o <= created' <=> o <= created \/ o = created'
           /\ \A o \in Objs : o <= created => o # created'
           /\ \A o \in Objs :
                /\ sid'[o] = IF o = created' THEN i ELSE sid[o]
                /\ phase'[o] = IF o = created' THEN ph ELSE phase[o]
           /\ \A j \in IDs : table'[j] = IF j = i THEN created' ELSE table[j]
BY TableAssumption DEF TypeOK, Fresh, Register, Objs, None

\* The next ID of the mux is one that nobody uses.
LEMMA NextIDFree ==
    ASSUME TableInv
    PROVE  /\ nextID \in IDs /\ Own(nextID) /\ nextID \notin PeerIDs
           /\ table[nextID] = None
<1>1. nextID \in IDs /\ Own(nextID)
  BY DEF TableInv, OwnIDs, TypeOK
<1>2. nextID \notin PeerIDs
  BY <1>1, TableAssumption DEF Own
<1>3. SUFFICES ASSUME table[nextID] # None PROVE FALSE
  BY <1>1, <1>2
<1>4. /\ table[nextID] \in Objs /\ phase[table[nextID]] # "none"
      /\ sid[table[nextID]] = nextID
  BY <1>1, <1>3 DEF TableInv, TypeOK, TableMatches, Live
<1>5. table[nextID] <= created
  BY <1>4, TableAssumption DEF TableInv, TypeOK, Fresh, Objs
<1> QED
  BY <1>2, <1>4, <1>5, TableAssumption DEF TableInv, OwnIDs, TypeOK, IDs

-----------------------------------------------------------------------------
(* The invariant without the count, one action at a time.                   *)

\* Open registers a stream under a new ID of the mux.
LEMMA OpenRegisterStep ==
    ASSUME TableInv, OpenRegister, UNCHANGED peerReuses
    PROVE  TableInv'
<1>r. Register(nextID, "send") /\ nextID \in IDs
  BY DEF TableInv, TypeOK, OpenRegister
<1>a. created' = created + 1 /\ created' \in Objs /\ created' # None /\
    phase[created'] = "none" /\ (\A o \in Objs : o <= created' <=> o <=
    created \/ o = created') /\ (\A o \in Objs : o <= created => o # created')
  BY <1>r, RegisterEffect DEF TableInv
<1>b. \A o \in Objs : (sid'[o] = IF o = created' THEN nextID ELSE sid[o]) /\
    (phase'[o] = IF o = created' THEN "send" ELSE phase[o])
  BY <1>r, RegisterEffect DEF TableInv
<1>c. \A j \in IDs : table'[j] = IF j = nextID THEN created' ELSE table[j]
  BY <1>r, RegisterEffect DEF TableInv
<1>d. nextID \in IDs /\ Own(nextID) /\ nextID \notin PeerIDs /\ table[nextID]
    = None
  BY NextIDFree
<1> USE <1>r, <1>a, <1>b, <1>c, <1>d
<1>1. AskedFirst'
  BY  DEF TableInv, AskedFirst, IsEnding, OpenRegister
<1>2. TypeOK'
  <2>1. /\ table' \in [IDs -> Objs \cup {None}]
        /\ sid' \in [Objs -> IDs]
        /\ phase' \in [Objs -> {"none", "send", "offer", "count", "up",
                            "failed"}]
    BY DEF TableInv, TypeOK, Register
  <2>2. created' \in 0..MaxObjs
    BY TableAssumption DEF Objs
  <2>3. nextID' \in IDs
    BY TableAssumption DEF TableInv, TypeOK, OpenRegister, IDs
  <2> QED  BY <2>1, <2>2, <2>3 DEF TableInv, TypeOK, OpenRegister
<1>3. Fresh'
  BY  DEF TableInv, Fresh, OpenRegister, TypeOK
<1>4. TableMatches'
  <2> SUFFICES ASSUME NEW j \in IDs, table'[j] # None
               PROVE  sid'[table'[j]] = j /\ phase'[table'[j]] \in Live
    BY DEF TableMatches
  <2>1. CASE j = nextID
    BY <2>1 DEF Live
  <2>2. CASE j # nextID
    <3>1. /\ table'[j] = table[j] /\ table[j] \in Objs
          /\ sid[table[j]] = j /\ phase[table[j]] \in Live
      BY <2>2 DEF TableInv, TypeOK, TableMatches
    <3> QED  BY <3>1 DEF Live
  <2> QED  BY <2>1, <2>2
<1>5. OwnIDs'
  <2>1. /\ nextID' = nextID + 2 /\ nextID \in Nat
        /\ \A o \in Objs : sid[o] \in Nat
    BY TableAssumption DEF TableInv, TypeOK, OpenRegister, IDs
  <2>2. Own(nextID)'
    BY <2>1, TableAssumption DEF Own
  <2>3. ASSUME NEW o \in Objs, o <= created'
        PROVE  (Own(sid[o])' /\ sid'[o] < nextID') \/ sid'[o] \in PeerIDs
    <3>1. CASE o = created'
      BY <3>1, <2>1 DEF Own
    <3>2. CASE o # created'
      BY <3>2, <2>1, <2>3 DEF TableInv, OwnIDs, Own
    <3> QED  BY <3>1, <3>2
  <2> QED  BY <2>2, <2>3 DEF OwnIDs
<1>6. UniqueIDs'
  <2>1. ASSUME NEW o \in Objs, o <= created PROVE sid[o] # nextID
    BY <2>1, TableAssumption DEF TableInv, TypeOK, OwnIDs, IDs
  <2> QED  BY <2>1 DEF TableInv, UniqueIDs, Own
<1>7. PhaseKnows'
  BY  DEF TableInv, PhaseKnows, Own, OpenRegister
<1>8. LoopKnows'
  BY TableAssumption, NoneIsNoObj DEF TableInv, LoopKnows, Shared,
      OpenRegister, TypeOK
<1>9. HeldAreShared'
  <2>1. \A o \in Objs : phase[o] \in Shared => phase'[o] \in Shared
    BY DEF Shared
  <2>2. \A k \in 1..Len(acceptCh) : acceptCh[k] \in Objs
    BY DEF TableInv, TypeOK
  <2>3. acceptCh' = acceptCh /\ handles' = handles /\ handles \subseteq Objs
    BY DEF TableInv, TypeOK, OpenRegister
  <2> QED  BY <2>1, <2>2, <2>3 DEF TableInv, HeldAreShared
<1>10. EndsOnce'
  <2>1. \A o \in Objs : ~In(o) /\ phase[o] # "none" => ~In(o)'
    BY DEF TableInv, TypeOK, In
  <2> QED
    BY <2>1 DEF TableInv, EndsOnce, OpenRegister, LoopKnows, Shared, TypeOK
<1>11. Accounted'
  BY TableAssumption, NoneIsNoObj DEF TableInv, Accounted, In, IsEnding, Live,
      OpenRegister, TypeOK
<1>12. NotTakenEarly'
  <2>1. \A o \in Objs : In(o) => In(o)'
    BY NoneIsNoObj DEF TableInv, TypeOK, In, TableMatches, Live
  <2>2. ASSUME NEW o \in Objs, phase'[o] = "send", ~muxDone PROVE In(o)'
    <3>1. CASE o = created'
      BY <3>1 DEF In
    <3>2. CASE o # created'
      BY <2>1, <2>2, <3>2 DEF TableInv, NotTakenEarly
    <3> QED  BY <3>1, <3>2
  <2>3. ASSUME rl.at = "offer", ~peerReuses, ~muxDone PROVE In(rl.obj)'
    BY <2>1, <2>3 DEF TableInv, NotTakenEarly, LoopKnows, OpenRegister, In
  <2> QED  BY <2>2, <2>3 DEF NotTakenEarly, OpenRegister, In
<1> QED  BY <1>1, <1>2, <1>3, <1>4, <1>5, <1>6, <1>7, <1>8, <1>9, <1>10,
    <1>11, <1>12 DEF TableInv

\* The Open frame is sent.
LEMMA OpenSentStep ==
    ASSUME TableInv, NEW o \in Objs, OpenSent(o), UNCHANGED peerReuses
    PROVE  TableInv'
<1>1. OwnIDs' /\ UniqueIDs' /\ AskedFirst'
  BY  DEF TableInv, OwnIDs, Own, UniqueIDs, AskedFirst, IsEnding, OpenSent
<1>2. TypeOK'
  BY  DEF TableInv, TypeOK, OpenSent
<1>3. Fresh'
  BY  DEF TableInv, Fresh, OpenSent
<1>4. TableMatches'
  BY  DEF TableInv, TableMatches, Live, OpenSent
<1>5. PhaseKnows'
  BY  DEF TableInv, PhaseKnows, Own, OpenSent
<1>6. LoopKnows'
  BY  DEF TableInv, LoopKnows, Shared, OpenSent
<1>7. HeldAreShared'
  BY  DEF TableInv, HeldAreShared, Shared, OpenSent
<1>8. EndsOnce'
  BY  DEF TableInv, EndsOnce, In, OpenSent
<1>9. Accounted'
  BY  DEF TableInv, Accounted, In, IsEnding, Live, OpenSent
<1>10. NotTakenEarly'
  BY  DEF TableInv, NotTakenEarly, In, OpenSent
<1> QED  BY <1>1, <1>2, <1>3, <1>4, <1>5, <1>6, <1>7, <1>8, <1>9, <1>10 DEF
    TableInv

\* The Open frame cannot be sent: Open takes out the entry of its own stream.
LEMMA OpenFailsStep ==
    ASSUME TableInv, NEW o \in Objs, OpenFails(o), UNCHANGED peerReuses
    PROVE  TableInv'
<1>a. table[sid[o]] \in {o, None}
  <2>1. SUFFICES ASSUME table[sid[o]] # None PROVE table[sid[o]] = o
    OBVIOUS
  <2>2. /\ table[sid[o]] \in Objs /\ phase[table[sid[o]]] # "none"
        /\ sid[table[sid[o]]] = sid[o]
    BY <2>1 DEF TableInv, TypeOK, TableMatches, Live
  <2>3. table[sid[o]] <= created /\ o <= created /\ Own(sid[o])
    BY <2>2, TableAssumption
       DEF TableInv, TypeOK, Fresh, Objs, OpenFails, PhaseKnows
  <2> QED  BY <2>2, <2>3 DEF TableInv, UniqueIDs
<1> USE <1>a
<1>1. OwnIDs' /\ UniqueIDs' /\ AskedFirst'
  BY  DEF TableInv, OwnIDs, Own, UniqueIDs, AskedFirst, IsEnding, OpenFails
<1>2. TypeOK'
  BY  DEF TableInv, TypeOK, OpenFails
<1>3. Fresh'
  BY  DEF TableInv, Fresh, OpenFails
<1>4. TableMatches'
  BY  DEF TableInv, TableMatches, Live, OpenFails, TypeOK
<1>5. PhaseKnows'
  BY  DEF TableInv, PhaseKnows, Own, OpenFails
<1>6. LoopKnows'
  BY  DEF TableInv, LoopKnows, Shared, OpenFails
<1>7. HeldAreShared'
  BY  DEF TableInv, HeldAreShared, Shared, OpenFails
<1>8. EndsOnce'
  BY TableAssumption, NoneIsNoObj DEF TableInv, EndsOnce, In, OpenFails,
      TypeOK, LoopKnows
<1>9. Accounted'
  BY  DEF TableInv, Accounted, In, IsEnding, Live, OpenFails, TypeOK
<1>10. NotTakenEarly'
  BY  DEF TableInv, NotTakenEarly, In, OpenFails, TypeOK, LoopKnows
<1> QED  BY <1>1, <1>2, <1>3, <1>4, <1>5, <1>6, <1>7, <1>8, <1>9, <1>10 DEF
    TableInv

\* Open counts the stream and returns its handle.
LEMMA OpenCountStep ==
    ASSUME TableInv, NEW o \in Objs, OpenCount(o), UNCHANGED peerReuses
    PROVE  TableInv'
<1>1. OwnIDs' /\ UniqueIDs' /\ AskedFirst'
  BY  DEF TableInv, OwnIDs, Own, UniqueIDs, AskedFirst, IsEnding, OpenCount
<1>2. TypeOK'
  BY  DEF TableInv, TypeOK, OpenCount
<1>3. Fresh'
  BY  DEF TableInv, Fresh, OpenCount
<1>4. TableMatches'
  BY  DEF TableInv, TableMatches, Live, OpenCount
<1>5. PhaseKnows'
  BY  DEF TableInv, PhaseKnows, Own, OpenCount
<1>6. LoopKnows'
  BY  DEF TableInv, LoopKnows, Shared, OpenCount
<1>7. HeldAreShared'
  BY  DEF TableInv, HeldAreShared, Shared, OpenCount
<1>8. EndsOnce'
  BY  DEF TableInv, EndsOnce, In, OpenCount
<1>9. Accounted'
  BY  DEF TableInv, Accounted, In, IsEnding, Live, OpenCount
<1>10. NotTakenEarly'
  BY  DEF TableInv, NotTakenEarly, In, OpenCount
<1> QED  BY <1>1, <1>2, <1>3, <1>4, <1>5, <1>6, <1>7, <1>8, <1>9, <1>10 DEF
    TableInv

\* The readLoop receives an Open, Close or Reject frame.
LEMMA ReceiveStep ==
    ASSUME TableInv, NEW k \in {"open", "close", "reject"}, NEW i \in IDs,
        Receive(k, i), UNCHANGED peerReuses
    PROVE  TableInv'
<1>a. rl.at = "idle" /\ rl' = [at |-> k, id |-> i, obj |-> None]
  BY DEF Receive, Idle
<1> USE <1>a
<1>1. Fresh' /\ TableMatches' /\ OwnIDs' /\ UniqueIDs' /\ HeldAreShared'
  BY  DEF TableInv, Fresh, TableMatches, Live, OwnIDs, Own, UniqueIDs,
      HeldAreShared, Shared, Receive
<1>2. TypeOK'
  BY  DEF TableInv, TypeOK, Receive
<1>3. PhaseKnows'
  BY  DEF TableInv, PhaseKnows, Own, Receive
<1>4. LoopKnows'
  <2>1. CASE k = "open"
    <3>1. i \in PeerIDs /\ (peerReuses \/ \A o \in 1..created : sid[o] # i)
      BY <2>1 DEF Receive
    <3>2. ~peerReuses => \A o \in Objs : o <= created => sid[o] # i
      BY <3>1, TableAssumption DEF Objs, TableInv, TypeOK
    <3> QED  BY <3>1, <3>2, <2>1 DEF LoopKnows, Receive
  <2>2. CASE k # "open"
    BY <2>2 DEF LoopKnows, Receive, Shared
  <2> QED  BY <2>1, <2>2
<1>5. EndsOnce'
  BY  DEF TableInv, EndsOnce, In, Receive
<1>6. AskedFirst'
  BY  DEF TableInv, AskedFirst, IsEnding, Receive
<1>7. Accounted'
  BY  DEF TableInv, Accounted, In, IsEnding, Live, Receive
<1>8. NotTakenEarly'
  BY  DEF TableInv, NotTakenEarly, In, Receive
<1> QED  BY <1>1, <1>2, <1>3, <1>4, <1>5, <1>6, <1>7, <1>8 DEF TableInv

\* An Open frame is ignored or rejected.
LEMMA HandleOpenRefuseStep ==
    ASSUME TableInv, HandleOpenRefuse, UNCHANGED peerReuses
    PROVE  TableInv'
<1>1. Fresh' /\ TableMatches' /\ OwnIDs' /\ UniqueIDs' /\ HeldAreShared'
  BY  DEF TableInv, Fresh, TableMatches, Live, OwnIDs, Own, UniqueIDs,
      HeldAreShared, Shared, HandleOpenRefuse, Idle
<1>2. TypeOK'
  BY TableAssumption, NoneIsNoObj DEF TableInv, TypeOK, HandleOpenRefuse,
      Idle, IDs
<1>3. PhaseKnows'
  BY  DEF TableInv, PhaseKnows, Own, HandleOpenRefuse, Idle
<1>4. LoopKnows'
  BY  DEF TableInv, LoopKnows, Shared, HandleOpenRefuse, Idle
<1>5. EndsOnce'
  BY  DEF TableInv, EndsOnce, In, HandleOpenRefuse, Idle
<1>6. AskedFirst'
  BY  DEF TableInv, AskedFirst, IsEnding, HandleOpenRefuse, Idle
<1>7. Accounted'
  BY  DEF TableInv, Accounted, In, IsEnding, Live, HandleOpenRefuse, Idle
<1>8. NotTakenEarly'
  BY  DEF TableInv, NotTakenEarly, In, HandleOpenRefuse, Idle
<1> QED  BY <1>1, <1>2, <1>3, <1>4, <1>5, <1>6, <1>7, <1>8 DEF TableInv

\* An Open frame registers a stream of the peer.
LEMMA HandleOpenStep ==
    ASSUME TableInv, HandleOpen, UNCHANGED peerReuses
    PROVE  TableInv'
<1>r. Register(rl.id, "offer") /\ rl.id \in IDs
  BY DEF TableInv, TypeOK, HandleOpen
<1>a. created' = created + 1 /\ created' \in Objs /\ created' # None /\
    phase[created'] = "none" /\ (\A o \in Objs : o <= created' <=> o <=
    created \/ o = created') /\ (\A o \in Objs : o <= created => o # created')
  BY <1>r, RegisterEffect DEF TableInv
<1>b. \A o \in Objs : (sid'[o] = IF o = created' THEN rl.id ELSE sid[o]) /\
    (phase'[o] = IF o = created' THEN "offer" ELSE phase[o])
  BY <1>r, RegisterEffect DEF TableInv
<1>c. \A j \in IDs : table'[j] = IF j = rl.id THEN created' ELSE table[j]
  BY <1>r, RegisterEffect DEF TableInv
<1>d. rl' = [at |-> "offer", id |-> rl.id, obj |-> created'] /\ rl.id \in IDs
    /\ rl.id \in PeerIDs /\ ~Own(rl.id) /\ table[rl.id] = None
  BY TableAssumption DEF TableInv, TypeOK, HandleOpen, LoopKnows, Own
<1> USE <1>r, <1>a, <1>b, <1>c, <1>d
<1>1. TypeOK'
  <2>1. /\ table' \in [IDs -> Objs \cup {None}]
        /\ sid' \in [Objs -> IDs]
        /\ phase' \in [Objs -> {"none", "send", "offer", "count", "up",
                            "failed"}]
    BY DEF TableInv, TypeOK, Register
  <2>2. created' \in 0..MaxObjs
    BY TableAssumption DEF Objs
  <2>3. rl' \in [at : {"offer"}, id : IDs, obj : Objs]
    OBVIOUS
  <2> QED  BY <2>1, <2>2, <2>3 DEF TableInv, TypeOK, HandleOpen
<1>2. Fresh'
  BY TableAssumption DEF TableInv, TypeOK, Fresh, Objs
<1>3. TableMatches'
  BY  DEF TableInv, TableMatches, Live, HandleOpen, TypeOK
<1>4. OwnIDs'
  BY  DEF TableInv, OwnIDs, Own, HandleOpen
<1>5. UniqueIDs'
  BY  DEF TableInv, UniqueIDs, Own, HandleOpen, LoopKnows
<1>6. PhaseKnows'
  BY  DEF TableInv, PhaseKnows, Own, HandleOpen
<1>7. LoopKnows'
  BY  DEF TableInv, LoopKnows, Shared, HandleOpen
<1>8. HeldAreShared'
  <2>1. \A o \in Objs : phase[o] \in Shared => phase'[o] \in Shared
    BY DEF Shared
  <2>2. \A k \in 1..Len(acceptCh) : acceptCh[k] \in Objs
    BY DEF TableInv, TypeOK
  <2>3. acceptCh' = acceptCh /\ handles' = handles /\ handles \subseteq Objs
    BY DEF TableInv, TypeOK, HandleOpen
  <2> QED  BY <2>1, <2>2, <2>3 DEF TableInv, HeldAreShared
<1>9. EndsOnce'
  BY  DEF TableInv, EndsOnce, In, HandleOpen, TypeOK
<1>10. AskedFirst'
  BY  DEF TableInv, AskedFirst, IsEnding, HandleOpen
<1>11. Accounted'
  BY TableAssumption, NoneIsNoObj DEF TableInv, Accounted, In, IsEnding, Live,
      HandleOpen, TypeOK
<1>12. NotTakenEarly'
  BY TableAssumption, NoneIsNoObj DEF TableInv, NotTakenEarly, In, HandleOpen,
      TypeOK
<1> QED  BY <1>1, <1>2, <1>3, <1>4, <1>5, <1>6, <1>7, <1>8, <1>9, <1>10,
    <1>11, <1>12 DEF TableInv

\* The readLoop offers the stream of the peer to Accept.
LEMMA OfferTakenStep ==
    ASSUME TableInv, Offer, Len(acceptCh) < AcceptCap, UNCHANGED peerReuses
    PROVE  TableInv'
<1>a. rl' = [at |-> "count", id |-> rl.id, obj |-> rl.obj] /\ rl.obj \in Objs
  BY DEF TableInv, TypeOK, Offer, LoopKnows
<1> USE <1>a
<1>1. OwnIDs' /\ UniqueIDs'
  BY  DEF TableInv, OwnIDs, Own, UniqueIDs, Offer
<1>2. TypeOK'
  <2>1. rl.id \in IDs
    BY DEF TableInv, TypeOK
  <2>2. rl' \in [at : {"count"}, id : IDs, obj : Objs]
    BY <2>1
  <2>3. /\ acceptCh' = Append(acceptCh, rl.obj)
        /\ phase' = [phase EXCEPT ![rl.obj] = "count"]
    BY DEF Offer
  <2>4. /\ acceptCh' \in Seq(Objs)
        /\ phase' \in [Objs -> {"none", "send", "offer", "count", "up",
                            "failed"}]
    BY <2>3 DEF TableInv, TypeOK
  <2> QED  BY <2>2, <2>4 DEF TableInv, TypeOK, Offer
<1>3. Fresh'
  BY  DEF TableInv, Fresh, Offer, TypeOK, LoopKnows
<1>4. TableMatches'
  BY  DEF TableInv, TableMatches, Live, Offer, TypeOK
<1>5. PhaseKnows'
  BY  DEF TableInv, PhaseKnows, Own, Offer, TypeOK
<1>6. LoopKnows'
  BY  DEF TableInv, LoopKnows, Shared, Offer, TypeOK
<1>7. HeldAreShared'
  <2>1. acceptCh' = Append(acceptCh, rl.obj) /\ acceptCh \in Seq(Objs)
    BY DEF TableInv, TypeOK, Offer
  <2>2. phase' = [phase EXCEPT ![rl.obj] = "count"] /\ handles' = handles
    BY DEF Offer
  <2>3. \A o \in Objs : phase[o] \in Shared => phase'[o] \in Shared
    BY <2>2 DEF TableInv, TypeOK, Shared
  <2>4. phase'[rl.obj] \in Shared
    BY <2>2 DEF TableInv, TypeOK, Shared
  <2> QED  BY <2>1, <2>2, <2>3, <2>4 DEF TableInv, TypeOK, HeldAreShared
<1>8. EndsOnce'
  BY  DEF TableInv, EndsOnce, In, Offer, TypeOK
<1>9. AskedFirst'
  BY  DEF TableInv, AskedFirst, IsEnding, Offer
<1>10. Accounted'
  BY  DEF TableInv, Accounted, In, IsEnding, Live, Offer, TypeOK, LoopKnows
<1>11. NotTakenEarly'
  BY  DEF TableInv, NotTakenEarly, In, Offer, TypeOK
<1> QED  BY <1>1, <1>2, <1>3, <1>4, <1>5, <1>6, <1>7, <1>8, <1>9, <1>10, <1>11
    DEF TableInv

\* The backlog of Accept is full: the stream of the peer is taken out again.
LEMMA OfferRefusedStep ==
    ASSUME TableInv, Offer, ~(Len(acceptCh) < AcceptCap), UNCHANGED peerReuses
    PROVE  TableInv'
<1>a. rl' = Idle /\ rl.obj \in Objs
  BY DEF TableInv, TypeOK, Offer, LoopKnows
<1> USE <1>a
<1>1. OwnIDs' /\ UniqueIDs'
  BY  DEF TableInv, OwnIDs, Own, UniqueIDs, Offer, Idle
<1>2. TypeOK'
  <2>1. table' \in [IDs -> Objs \cup {None}]
    BY DEF TableInv, TypeOK, Offer
  <2>2. phase' \in [Objs -> {"none", "send", "offer", "count", "up", "failed"}]
    BY DEF TableInv, TypeOK, Offer
  <2>3. done' \subseteq Objs /\ asked' \subseteq Objs
    BY DEF TableInv, TypeOK, Offer
  <2>4. rl' \in [at : {"idle", "open", "offer", "count", "close", "reject",
                      "end"}, id : IDs, obj : Objs \cup {None}]
    BY TableAssumption DEF Idle, IDs
  <2>5. UNCHANGED <<peerReuses, nextID, sid, created, removing, active,
                    handles, muxDone, acceptCh>>
    BY DEF Offer
  <2> QED  BY <2>1, <2>2, <2>3, <2>4, <2>5 DEF TableInv, TypeOK
<1>3. Fresh'
  BY  DEF TableInv, Fresh, Offer, Idle, TypeOK, LoopKnows
<1>4. TableMatches'
  BY  DEF TableInv, TableMatches, Live, Offer, Idle, TypeOK, LoopKnows
<1>5. PhaseKnows'
  BY  DEF TableInv, PhaseKnows, Own, Offer, Idle, TypeOK
<1>6. LoopKnows'
  BY  DEF TableInv, LoopKnows, Shared, Offer, Idle
<1>7. HeldAreShared'
  <2>1. \A o \in Objs : phase[o] \in Shared => phase'[o] \in Shared
    BY DEF TableInv, TypeOK, LoopKnows, Offer, Shared
  <2>2. \A k \in 1..Len(acceptCh) : acceptCh[k] \in Objs
    BY DEF TableInv, TypeOK
  <2>3. acceptCh' = acceptCh /\ handles' = handles /\ handles \subseteq Objs
    BY DEF TableInv, TypeOK, Offer
  <2> QED  BY <2>1, <2>2, <2>3 DEF TableInv, HeldAreShared
<1>8. EndsOnce'
  BY TableAssumption, NoneIsNoObj DEF TableInv, EndsOnce, In, Offer, Idle,
      TypeOK
<1>9. AskedFirst'
  BY  DEF TableInv, AskedFirst, IsEnding, Offer, Idle
<1>10. Accounted'
  BY  DEF TableInv, Accounted, In, IsEnding, Live, Offer, Idle, TypeOK,
      LoopKnows
<1>11. NotTakenEarly'
  BY  DEF TableInv, NotTakenEarly, In, Offer, Idle, TypeOK, LoopKnows
<1> QED  BY <1>1, <1>2, <1>3, <1>4, <1>5, <1>6, <1>7, <1>8, <1>9, <1>10, <1>11
    DEF TableInv

\* The readLoop counts the stream of the peer.
LEMMA AcceptCountStep ==
    ASSUME TableInv, AcceptCount, UNCHANGED peerReuses
    PROVE  TableInv'
<1>1. OwnIDs' /\ UniqueIDs'
  BY  DEF TableInv, OwnIDs, Own, UniqueIDs, AcceptCount, Idle
<1>2. TypeOK'
  BY TableAssumption, NoneIsNoObj DEF TableInv, TypeOK, AcceptCount, Idle,
      IDs, LoopKnows
<1>3. Fresh'
  BY  DEF TableInv, Fresh, AcceptCount, Idle, LoopKnows
<1>4. TableMatches'
  BY  DEF TableInv, TableMatches, Live, AcceptCount, Idle
<1>5. PhaseKnows'
  BY  DEF TableInv, PhaseKnows, Own, AcceptCount, Idle
<1>6. LoopKnows'
  BY  DEF TableInv, LoopKnows, Shared, AcceptCount, Idle
<1>7. HeldAreShared'
  BY  DEF TableInv, HeldAreShared, Shared, AcceptCount, Idle
<1>8. EndsOnce'
  BY  DEF TableInv, EndsOnce, In, AcceptCount, Idle
<1>9. AskedFirst'
  BY  DEF TableInv, AskedFirst, IsEnding, AcceptCount, Idle
<1>10. Accounted'
  BY  DEF TableInv, Accounted, In, IsEnding, Live, AcceptCount, Idle,
      LoopKnows
<1>11. NotTakenEarly'
  BY  DEF TableInv, NotTakenEarly, In, AcceptCount, Idle
<1> QED  BY <1>1, <1>2, <1>3, <1>4, <1>5, <1>6, <1>7, <1>8, <1>9, <1>10, <1>11
    DEF TableInv

\* A Close or Reject frame of an unknown stream is ignored.
LEMMA EndIgnoredStep ==
    ASSUME TableInv, HandleEnd, table[rl.id] = None, UNCHANGED peerReuses
    PROVE  TableInv'
<1>1. Fresh' /\ TableMatches' /\ OwnIDs' /\ UniqueIDs' /\ HeldAreShared'
  BY  DEF TableInv, Fresh, TableMatches, Live, OwnIDs, Own, UniqueIDs,
      HeldAreShared, Shared, HandleEnd, Idle
<1>2. TypeOK'
  BY TableAssumption, NoneIsNoObj DEF TableInv, TypeOK, HandleEnd, Idle, IDs
<1>3. PhaseKnows'
  BY  DEF TableInv, PhaseKnows, Own, HandleEnd, Idle
<1>4. LoopKnows'
  BY  DEF TableInv, LoopKnows, Shared, HandleEnd, Idle
<1>5. EndsOnce'
  BY  DEF TableInv, EndsOnce, In, HandleEnd, Idle
<1>6. AskedFirst'
  BY  DEF TableInv, AskedFirst, IsEnding, HandleEnd, Idle
<1>7. Accounted'
  BY  DEF TableInv, Accounted, In, IsEnding, Live, HandleEnd, Idle
<1>8. NotTakenEarly'
  BY  DEF TableInv, NotTakenEarly, In, HandleEnd, Idle
<1> QED  BY <1>1, <1>2, <1>3, <1>4, <1>5, <1>6, <1>7, <1>8 DEF TableInv

\* A Close or Reject frame takes its stream out of the table.
LEMMA EndTakenStep ==
    ASSUME TableInv, HandleEnd, table[rl.id] # None, UNCHANGED peerReuses
    PROVE  TableInv'
<1>a. rl' = [at |-> "end", id |-> rl.id, obj |-> table[rl.id]] /\ table[rl.id]
    \in Objs /\ sid[table[rl.id]] = rl.id /\ rl.id \in IDs
  BY DEF TableInv, TypeOK, HandleEnd, TableMatches, None
<1>b. phase[table[rl.id]] \in Shared
  <2>1. PICK o \in Objs : phase[o] \in Shared /\ sid[o] = rl.id
    BY DEF TableInv, HandleEnd, LoopKnows
  <2>2. phase[table[rl.id]] \in Live
    BY <1>a DEF TableInv, TableMatches
  <2>3. o <= created /\ table[rl.id] <= created
    BY <1>a, <2>1, <2>2, TableAssumption
       DEF TableInv, TypeOK, Fresh, Objs, Shared, Live
  <2>4. phase[table[rl.id]] # "offer"
    BY <1>a DEF TableInv, HandleEnd, PhaseKnows
  <2>5. phase[table[rl.id]] # "send"
    BY <1>a, <2>1, <2>3 DEF TableInv, PhaseKnows, UniqueIDs, Shared
  <2> QED  BY <2>2, <2>4, <2>5 DEF Live, Shared
<1> USE <1>a, <1>b
<1>1. Fresh' /\ OwnIDs' /\ UniqueIDs' /\ HeldAreShared'
  BY  DEF TableInv, Fresh, OwnIDs, Own, UniqueIDs, HeldAreShared, Shared,
      HandleEnd
<1>2. TypeOK'
  BY  DEF TableInv, TypeOK, HandleEnd
<1>3. TableMatches'
  BY  DEF TableInv, TableMatches, Live, HandleEnd, TypeOK
<1>4. PhaseKnows'
  BY  DEF TableInv, PhaseKnows, Own, HandleEnd
<1>5. LoopKnows'
  BY  DEF TableInv, LoopKnows, Shared, HandleEnd
<1>6. EndsOnce'
  BY TableAssumption, NoneIsNoObj DEF TableInv, EndsOnce, In, HandleEnd,
      TypeOK
<1>7. AskedFirst'
  BY  DEF TableInv, AskedFirst, IsEnding, HandleEnd
<1>8. Accounted'
  BY  DEF TableInv, Accounted, In, IsEnding, Live, HandleEnd, TypeOK
<1>9. NotTakenEarly'
  BY  DEF TableInv, NotTakenEarly, In, HandleEnd, TypeOK, Shared
<1> QED  BY <1>1, <1>2, <1>3, <1>4, <1>5, <1>6, <1>7, <1>8, <1>9 DEF TableInv

\* The readLoop gives back the count of a stream it took out and closes it.
LEMMA HandleEndCountStep ==
    ASSUME TableInv, HandleEndCount, UNCHANGED peerReuses
    PROVE  TableInv'
<1>1. Fresh' /\ TableMatches' /\ OwnIDs' /\ UniqueIDs' /\ HeldAreShared'
  BY  DEF TableInv, Fresh, TableMatches, Live, OwnIDs, Own, UniqueIDs,
      HeldAreShared, Shared, HandleEndCount, Idle
<1>2. TypeOK'
  BY TableAssumption, NoneIsNoObj DEF TableInv, TypeOK, HandleEndCount, Idle,
      IDs, LoopKnows
<1>3. PhaseKnows'
  BY  DEF TableInv, PhaseKnows, Own, HandleEndCount, Idle
<1>4. LoopKnows'
  BY  DEF TableInv, LoopKnows, Shared, HandleEndCount, Idle
<1>5. EndsOnce'
  BY  DEF TableInv, EndsOnce, In, HandleEndCount, Idle
<1>6. AskedFirst'
  BY  DEF TableInv, AskedFirst, IsEnding, HandleEndCount, Idle
<1>7. Accounted'
  BY  DEF TableInv, Accounted, In, IsEnding, Live, HandleEndCount, Idle
<1>8. NotTakenEarly'
  BY  DEF TableInv, NotTakenEarly, In, HandleEndCount, Idle
<1> QED  BY <1>1, <1>2, <1>3, <1>4, <1>5, <1>6, <1>7, <1>8 DEF TableInv

\* The application accepts a stream.
LEMMA AcceptStep ==
    ASSUME TableInv, Accept, UNCHANGED peerReuses
    PROVE  TableInv'
<1>1. Fresh' /\ TableMatches' /\ OwnIDs' /\ UniqueIDs' /\ PhaseKnows' /\
    LoopKnows' /\ EndsOnce' /\ AskedFirst' /\ Accounted' /\ NotTakenEarly'
  BY  DEF TableInv, Fresh, TableMatches, Live, OwnIDs, Own, UniqueIDs,
      PhaseKnows, LoopKnows, Shared, EndsOnce, In, AskedFirst, IsEnding,
      Accounted, NotTakenEarly, Accept
<1>2. TypeOK'
  BY  DEF TableInv, TypeOK, Accept
<1>3. HeldAreShared'
  BY  DEF TableInv, HeldAreShared, Shared, Accept
<1> QED  BY <1>1, <1>2, <1>3 DEF TableInv

\* Abort takes out its own stream only.
LEMMA AbortStep ==
    ASSUME TableInv, NEW o \in Objs, Abort(o), UNCHANGED peerReuses
    PROVE  TableInv'
<1>p. phase[o] \in Shared
  BY DEF Abort, MayAbort, TableInv, HeldAreShared, Shared
<1>1. Fresh' /\ OwnIDs' /\ UniqueIDs' /\ PhaseKnows' /\ HeldAreShared'
  BY  DEF TableInv, Fresh, OwnIDs, Own, UniqueIDs, PhaseKnows, HeldAreShared,
      Shared, Abort
<1>2. TypeOK'
  BY  DEF TableInv, TypeOK, Abort
<1>3. TableMatches'
  BY  DEF TableInv, TableMatches, Live, Abort, TypeOK
<1>4. LoopKnows'
  BY  DEF TableInv, LoopKnows, Shared, Abort, TypeOK
<1>5. EndsOnce'
  BY <1>p, NoneIsNoObj DEF TableInv, EndsOnce, In, TypeOK, HeldAreShared,
      Shared, LoopKnows, Abort
<1>6. AskedFirst'
  BY  DEF TableInv, AskedFirst, IsEnding, Abort
<1>7. Accounted'
  BY  DEF TableInv, Accounted, In, IsEnding, Live, Abort, TypeOK
<1>8. NotTakenEarly'
  BY <1>p DEF TableInv, NotTakenEarly, In, Abort, TypeOK, HeldAreShared,
      LoopKnows, Shared
<1> QED  BY <1>1, <1>2, <1>3, <1>4, <1>5, <1>6, <1>7, <1>8 DEF TableInv

\* The writeLoop takes out the stream registered under the ID of a Close
\* frame.
LEMMA CloseSentStep ==
    ASSUME TableInv, NEW o \in Objs, CloseSent(o), UNCHANGED peerReuses
    PROVE  TableInv'
<1>a. table[sid[o]] \in Objs /\ sid[table[sid[o]]] = sid[o] /\ sid[o] \in IDs
  BY DEF TableInv, TypeOK, CloseSent, TableMatches, None
<1> USE <1>a
<1>1. Fresh' /\ OwnIDs' /\ UniqueIDs' /\ PhaseKnows' /\ HeldAreShared'
  BY  DEF TableInv, Fresh, OwnIDs, Own, UniqueIDs, PhaseKnows, HeldAreShared,
      Shared, CloseSent
<1>2. TypeOK'
  BY  DEF TableInv, TypeOK, CloseSent
<1>3. TableMatches'
  BY  DEF TableInv, TableMatches, Live, CloseSent
<1>4. LoopKnows'
  BY  DEF TableInv, LoopKnows, Shared, CloseSent
<1>5. EndsOnce'
  BY TableAssumption, NoneIsNoObj DEF TableInv, EndsOnce, In, CloseSent,
      TypeOK, TableMatches, Live, LoopKnows
<1>6. AskedFirst'
  BY  DEF TableInv, AskedFirst, IsEnding, CloseSent
<1>7. Accounted'
  BY  DEF TableInv, Accounted, In, IsEnding, Live, CloseSent
<1>8. NotTakenEarly'
  <2>1. o <= created
    BY TableAssumption
       DEF TableInv, TypeOK, Fresh, CloseSent, HeldAreShared, Shared, Objs
  <2>2. ASSUME NEW p \in Objs, phase'[p] = "send", ~muxDone PROVE In(p)'
    <3>1. phase[p] = "send" /\ In(p) /\ Own(sid[p]) /\ p <= created
      BY <2>2, TableAssumption DEF TableInv, NotTakenEarly, CloseSent,
         PhaseKnows, Fresh, TypeOK, Objs
    <3>2. p # o
      BY <3>1 DEF TableInv, CloseSent, HeldAreShared, Shared
    <3> QED  BY <3>1, <3>2, <2>1 DEF TableInv, UniqueIDs, CloseSent, In, TypeOK
  <2>3. ASSUME rl.at = "offer", ~peerReuses, ~muxDone PROVE In(rl.obj)'
    <3>1. rl.obj \in Objs /\ In(rl.obj) /\ phase[rl.obj] = "offer"
      BY <2>3 DEF TableInv, NotTakenEarly, LoopKnows
    <3>2. rl.obj # o /\ rl.obj <= created
      BY <3>1, TableAssumption
         DEF TableInv, CloseSent, HeldAreShared, Shared, Fresh, TypeOK, Objs
    <3> QED  BY <3>1, <3>2, <2>1, <2>3
           DEF TableInv, UniqueIDs, CloseSent, In, TypeOK
  <2> QED  BY <2>2, <2>3 DEF NotTakenEarly, CloseSent
<1> QED  BY <1>1, <1>2, <1>3, <1>4, <1>5, <1>6, <1>7, <1>8 DEF TableInv

\* A removal gives back its count and closes the stream.
LEMMA FinishRemoveStep ==
    ASSUME TableInv, NEW o \in Objs, FinishRemove(o), UNCHANGED peerReuses
    PROVE  TableInv'
<1>1. Fresh' /\ TableMatches' /\ OwnIDs' /\ UniqueIDs' /\ PhaseKnows' /\
    LoopKnows' /\ HeldAreShared' /\ NotTakenEarly'
  BY  DEF TableInv, Fresh, TableMatches, Live, OwnIDs, Own, UniqueIDs,
      PhaseKnows, LoopKnows, Shared, HeldAreShared, NotTakenEarly, In,
      FinishRemove
<1>2. TypeOK'
  BY  DEF TableInv, TypeOK, FinishRemove
<1>3. EndsOnce'
  BY  DEF TableInv, EndsOnce, In, FinishRemove
<1>4. AskedFirst'
  BY  DEF TableInv, AskedFirst, IsEnding, FinishRemove
<1>5. Accounted'
  BY  DEF TableInv, Accounted, In, IsEnding, Live, FinishRemove
<1> QED  BY <1>1, <1>2, <1>3, <1>4, <1>5 DEF TableInv

\* Close of the mux takes out every stream.
LEMMA CloseStep ==
    ASSUME TableInv, Close, UNCHANGED peerReuses
    PROVE  TableInv'
<1>a. Registered = {o \in Objs : In(o)}
  BY RegisteredIs DEF TableInv, InTable
<1> USE <1>a
<1>1. Fresh' /\ OwnIDs' /\ UniqueIDs' /\ PhaseKnows' /\ HeldAreShared'
  BY  DEF TableInv, Fresh, OwnIDs, Own, UniqueIDs, PhaseKnows, HeldAreShared,
      Shared, Close
<1>2. TypeOK'
  BY  DEF TableInv, TypeOK, Close
<1>3. TableMatches'
  BY  DEF TableInv, TableMatches, Live, Close
<1>4. LoopKnows'
  BY  DEF TableInv, LoopKnows, Shared, Close, TypeOK
<1>5. EndsOnce'
  BY TableAssumption, NoneIsNoObj DEF TableInv, EndsOnce, In, Close, TypeOK,
      LoopKnows
<1>6. AskedFirst'
  BY  DEF TableInv, AskedFirst, IsEnding, Close
<1>7. Accounted'
  BY  DEF TableInv, Accounted, In, IsEnding, Live, Close
<1>8. NotTakenEarly'
  BY  DEF TableInv, NotTakenEarly, In, Close
<1> QED  BY <1>1, <1>2, <1>3, <1>4, <1>5, <1>6, <1>7, <1>8 DEF TableInv

-----------------------------------------------------------------------------
(* The count.                                                               *)

\* Sets of objects are finite, and grow and shrink by one.
LEMMA CardObjs ==
    ASSUME NEW S \in SUBSET Objs
    PROVE  /\ Cardinality(S) \in Nat
           /\ \A o \in Objs \ S : Cardinality(S \cup {o}) = Cardinality(S) + 1
           /\ \A o \in S : Cardinality(S \ {o}) = Cardinality(S) - 1
<1>1. IsFiniteSet(Objs)
  BY TableAssumption, FS_Interval DEF Objs
<1>2. IsFiniteSet(S)
  BY <1>1, FS_Subset
<1> QED  BY <1>2, FS_CardinalityType, FS_AddElement, FS_RemoveElement

\* The sets that CountExact counts hold objects only.
LEMMA CountedObjs ==
    ASSUME TableInv
    PROVE  InTable \subseteq Objs /\ Ending \subseteq Objs
           /\ Uncounted \subseteq Objs
BY DEF TableInv, TypeOK, LoopKnows, InTable, Ending, Uncounted

Count ==
    active = Cardinality(InTable) + Cardinality(Ending)
             - Cardinality(Uncounted)

\* A registration, which is counted later.
LEMMA CountRegister ==
    ASSUME TableInv, Count, active' = active, Ending' = Ending,
           NEW o \in Objs \ InTable, InTable' = InTable \cup {o},
           o \notin Uncounted, Uncounted' = Uncounted \cup {o}
    PROVE  Count'
<1>1. active \in Int
  BY DEF TableInv, TypeOK
<1>2. /\ Cardinality(InTable) \in Nat /\ Cardinality(Ending) \in Nat
      /\ Cardinality(Uncounted) \in Nat
  BY CountedObjs, CardObjs
<1>3. /\ Cardinality(InTable') = Cardinality(InTable) + 1
      /\ Cardinality(Uncounted') = Cardinality(Uncounted) + 1
  BY CountedObjs, CardObjs
<1> QED  BY <1>1, <1>2, <1>3 DEF Count

\* A registration undone before it was counted.
LEMMA CountUndo ==
    ASSUME TableInv, Count, active' = active, Ending' = Ending,
           NEW o \in InTable, InTable' = InTable \ {o},
           o \in Uncounted, Uncounted' = Uncounted \ {o}
    PROVE  Count'
<1>1. active \in Int
  BY DEF TableInv, TypeOK
<1>2. /\ Cardinality(InTable) \in Nat /\ Cardinality(Ending) \in Nat
      /\ Cardinality(Uncounted) \in Nat
  BY CountedObjs, CardObjs
<1>3. /\ Cardinality(InTable') = Cardinality(InTable) - 1
      /\ Cardinality(Uncounted') = Cardinality(Uncounted) - 1
  BY CountedObjs, CardObjs
<1> QED  BY <1>1, <1>2, <1>3 DEF Count

\* A registration is counted.
LEMMA CountUp ==
    ASSUME TableInv, Count, active' = active + 1, Ending' = Ending,
           InTable' = InTable,
           NEW o \in Uncounted, Uncounted' = Uncounted \ {o}
    PROVE  Count'
<1>1. active \in Int
  BY DEF TableInv, TypeOK
<1>2. /\ Cardinality(InTable) \in Nat /\ Cardinality(Ending) \in Nat
      /\ Cardinality(Uncounted) \in Nat
  BY CountedObjs, CardObjs
<1>3. Cardinality(Uncounted') = Cardinality(Uncounted) - 1
  BY CountedObjs, CardObjs
<1> QED  BY <1>1, <1>2, <1>3 DEF Count

\* A stream leaves the table and is about to be counted down.
LEMMA CountLeave ==
    ASSUME TableInv, Count, active' = active, Uncounted' = Uncounted,
           NEW o \in InTable, InTable' = InTable \ {o},
           o \notin Ending, Ending' = Ending \cup {o}
    PROVE  Count'
<1>1. active \in Int
  BY DEF TableInv, TypeOK
<1>2. /\ Cardinality(InTable) \in Nat /\ Cardinality(Ending) \in Nat
      /\ Cardinality(Uncounted) \in Nat
  BY CountedObjs, CardObjs
<1>3. /\ Cardinality(InTable') = Cardinality(InTable) - 1
      /\ Cardinality(Ending') = Cardinality(Ending) + 1
  BY CountedObjs, CardObjs
<1> QED  BY <1>1, <1>2, <1>3 DEF Count

\* A stream that left the table is counted down.
LEMMA CountDown ==
    ASSUME TableInv, Count, active' = active - 1, Uncounted' = Uncounted,
           InTable' = InTable,
           NEW o \in Ending, Ending' = Ending \ {o}
    PROVE  Count'
<1>1. active \in Int
  BY DEF TableInv, TypeOK
<1>2. /\ Cardinality(InTable) \in Nat /\ Cardinality(Ending) \in Nat
      /\ Cardinality(Uncounted) \in Nat
  BY CountedObjs, CardObjs
<1>3. Cardinality(Ending') = Cardinality(Ending) - 1
  BY CountedObjs, CardObjs
<1> QED  BY <1>1, <1>2, <1>3 DEF Count

\* Nothing that is counted changes.
LEMMA CountSame ==
    ASSUME Count, active' = active, Uncounted' = Uncounted,
           InTable' = InTable, Ending' = Ending
    PROVE  Count'
BY DEF Count

\* Open registers a stream that it will count later.
LEMMA OpenRegisterCounts ==
    ASSUME TableInv, Count, ~muxDone, ~peerReuses, UNCHANGED peerReuses,
           OpenRegister
    PROVE  Count'
<1>1. Register(nextID, "send") /\ nextID \in IDs
  BY DEF TableInv, TypeOK, OpenRegister
<1>2. created' \in Objs /\ created' # None /\ phase[created'] = "none"
  BY <1>1, RegisterEffect DEF TableInv
<1>3. \A o \in Objs : sid'[o] = IF o = created' THEN nextID ELSE sid[o]
  BY <1>1, RegisterEffect DEF TableInv
<1>4. \A o \in Objs : phase'[o] = IF o = created' THEN "send" ELSE phase[o]
  BY <1>1, RegisterEffect DEF TableInv
<1>5. \A j \in IDs : table'[j] = IF j = nextID THEN created' ELSE table[j]
  BY <1>1, RegisterEffect DEF TableInv
<1>6. table[nextID] = None
  BY NextIDFree DEF OpenRegister
<1>7. InTable' = InTable \cup {created'} /\ created' \notin InTable
  <2>1. created' \notin InTable
    BY <1>2 DEF InTable, In, TableInv, TypeOK, TableMatches, Live
  <2>2. \A o \in Objs : o # created' => (In(o)' <=> In(o))
    BY <1>1, <1>2, <1>3, <1>5, <1>6, NoneIsNoObj DEF In, TableInv, TypeOK
  <2>3. table'[sid'[created']] = created'
    BY <1>1, <1>2, <1>3, <1>5
  <2> QED  BY <1>2, <2>1, <2>2, <2>3 DEF InTable, In
<1>8. Uncounted' = Uncounted \cup {created'} /\ created' \notin Uncounted
  BY <1>2, <1>4 DEF Uncounted
<1>9. Ending' = Ending
  BY DEF Ending, OpenRegister
<1> QED  BY <1>2, <1>7, <1>8, <1>9, CountRegister DEF OpenRegister

\* The stream is still to be counted.
LEMMA OpenSentCounts ==
    ASSUME TableInv, Count, ~muxDone, ~peerReuses, UNCHANGED peerReuses, NEW o
           \in Objs, OpenSent(o)
    PROVE  Count'
<1>1. InTable' = InTable
  BY DEF InTable, In, OpenSent
<1>2. Ending' = Ending
  BY DEF Ending, OpenSent
<1>3. Uncounted' = Uncounted
  BY DEF Uncounted, OpenSent, TableInv, TypeOK
<1> QED  BY <1>1, <1>2, <1>3, CountSame DEF OpenSent

\* Open undoes its own registration.
LEMMA OpenFailsCounts ==
    ASSUME TableInv, Count, ~muxDone, ~peerReuses, UNCHANGED peerReuses, NEW o
           \in Objs, OpenFails(o)
    PROVE  Count'
<1>1. o \in InTable
  BY DEF TableInv, NotTakenEarly, OpenFails, InTable
<1>2. table' = [table EXCEPT ![sid[o]] = None] /\ sid' = sid
  BY DEF OpenFails
<1>3. InTable' = InTable \ {o}
  BY <1>1, <1>2, NoneIsNoObj DEF InTable, In, TableInv, TypeOK
<1>4. o \in Uncounted /\ Uncounted' = Uncounted \ {o}
  BY DEF Uncounted, OpenFails, TableInv, TypeOK
<1>5. Ending' = Ending
  BY DEF Ending, OpenFails
<1> QED  BY <1>1, <1>3, <1>4, <1>5, CountUndo DEF OpenFails

\* Open counts its stream.
LEMMA OpenCountCounts ==
    ASSUME TableInv, Count, ~muxDone, ~peerReuses, UNCHANGED peerReuses, NEW o
           \in Objs, OpenCount(o)
    PROVE  Count'
<1>1. InTable' = InTable
  BY DEF InTable, In, OpenCount
<1>2. Ending' = Ending
  BY DEF Ending, OpenCount
<1>3. o \in Uncounted /\ Uncounted' = Uncounted \ {o}
  BY DEF Uncounted, OpenCount, TableInv, TypeOK
<1> QED  BY <1>1, <1>2, <1>3, CountUp DEF OpenCount

\* A frame is received.
LEMMA ReceiveCounts ==
    ASSUME TableInv, Count, ~muxDone, ~peerReuses, UNCHANGED peerReuses, NEW k
           \in {"open", "close", "reject"}, NEW i \in IDs, Receive(k, i)
    PROVE  Count'
<1>1. InTable' = InTable
  BY DEF InTable, In, Receive
<1>2. Ending' = Ending
  BY DEF Ending, Receive, Idle
<1>3. Uncounted' = Uncounted
  BY DEF Uncounted, Receive
<1> QED  BY <1>1, <1>2, <1>3, CountSame DEF Receive

\* A refused Open frame.
LEMMA HandleOpenRefuseCounts ==
    ASSUME TableInv, Count, ~muxDone, ~peerReuses, UNCHANGED peerReuses,
           HandleOpenRefuse
    PROVE  Count'
<1>1. InTable' = InTable
  BY DEF InTable, In, HandleOpenRefuse
<1>2. Ending' = Ending
  BY DEF Ending, HandleOpenRefuse, Idle
<1>3. Uncounted' = Uncounted
  BY DEF Uncounted, HandleOpenRefuse
<1> QED  BY <1>1, <1>2, <1>3, CountSame DEF HandleOpenRefuse

\* The readLoop registers a stream that it will count later.
LEMMA HandleOpenCounts ==
    ASSUME TableInv, Count, ~muxDone, ~peerReuses, UNCHANGED peerReuses,
           HandleOpen
    PROVE  Count'
<1>1. Register(rl.id, "offer") /\ rl.id \in IDs
  BY DEF TableInv, TypeOK, HandleOpen
<1>2. created' \in Objs /\ created' # None /\ phase[created'] = "none"
  BY <1>1, RegisterEffect DEF TableInv
<1>3. \A o \in Objs : sid'[o] = IF o = created' THEN rl.id ELSE sid[o]
  BY <1>1, RegisterEffect DEF TableInv
<1>4. \A o \in Objs : phase'[o] = IF o = created' THEN "offer" ELSE phase[o]
  BY <1>1, RegisterEffect DEF TableInv
<1>5. \A j \in IDs : table'[j] = IF j = rl.id THEN created' ELSE table[j]
  BY <1>1, RegisterEffect DEF TableInv
<1>6. table[rl.id] = None
  BY DEF HandleOpen
<1>7. InTable' = InTable \cup {created'} /\ created' \notin InTable
  <2>1. created' \notin InTable
    BY <1>2 DEF InTable, In, TableInv, TypeOK, TableMatches, Live
  <2>2. \A o \in Objs : o # created' => (In(o)' <=> In(o))
    BY <1>1, <1>2, <1>3, <1>5, <1>6, NoneIsNoObj DEF In, TableInv, TypeOK
  <2>3. table'[sid'[created']] = created'
    BY <1>1, <1>2, <1>3, <1>5
  <2> QED  BY <1>2, <2>1, <2>2, <2>3 DEF InTable, In
<1>8. Uncounted' = Uncounted \cup {created'} /\ created' \notin Uncounted
  BY <1>2, <1>4 DEF Uncounted
<1>9. Ending' = Ending
  BY DEF Ending, HandleOpen
<1> QED  BY <1>2, <1>7, <1>8, <1>9, CountRegister DEF HandleOpen

\* The offered stream is still to be counted.
LEMMA OfferTakenCounts ==
    ASSUME TableInv, Count, ~muxDone, ~peerReuses, UNCHANGED peerReuses,
           Offer, Len(acceptCh) < AcceptCap
    PROVE  Count'
<1>1. InTable' = InTable
  BY DEF InTable, In, Offer
<1>2. Ending' = Ending
  BY DEF Ending, Offer, TableInv, TypeOK
<1>3. Uncounted' = Uncounted
  BY DEF Uncounted, Offer, TableInv, TypeOK, LoopKnows
<1> QED  BY <1>1, <1>2, <1>3, CountSame DEF Offer

\* The readLoop undoes its own registration.
LEMMA OfferRefusedCounts ==
    ASSUME TableInv, Count, ~muxDone, ~peerReuses, UNCHANGED peerReuses,
           Offer, ~(Len(acceptCh) < AcceptCap)
    PROVE  Count'
<1>1. rl.obj \in InTable
  BY DEF TableInv, NotTakenEarly, LoopKnows, Offer, InTable
<1>2. table' = [table EXCEPT ![sid[rl.obj]] = None] /\ sid' = sid
  BY DEF Offer, TableInv, LoopKnows
<1>3. InTable' = InTable \ {rl.obj}
  BY <1>1, <1>2, NoneIsNoObj DEF InTable, In, TableInv, TypeOK
<1>4. rl.obj \in Uncounted /\ Uncounted' = Uncounted \ {rl.obj}
  BY DEF Uncounted, Offer, TableInv, TypeOK, LoopKnows
<1>5. Ending' = Ending
  BY DEF Ending, Offer, Idle
<1> QED  BY <1>1, <1>3, <1>4, <1>5, CountUndo DEF Offer

\* The readLoop counts the stream.
LEMMA AcceptCountCounts ==
    ASSUME TableInv, Count, ~muxDone, ~peerReuses, UNCHANGED peerReuses,
           AcceptCount
    PROVE  Count'
<1>1. InTable' = InTable
  BY DEF InTable, In, AcceptCount
<1>2. Ending' = Ending
  BY DEF Ending, AcceptCount, Idle
<1>3. rl.obj \in Uncounted /\ Uncounted' = Uncounted \ {rl.obj}
  BY DEF Uncounted, AcceptCount, TableInv, TypeOK, LoopKnows
<1> QED  BY <1>1, <1>2, <1>3, CountUp DEF AcceptCount

\* A Close or Reject frame without a stream.
LEMMA EndIgnoredCounts ==
    ASSUME TableInv, Count, ~muxDone, ~peerReuses, UNCHANGED peerReuses,
           HandleEnd, table[rl.id] = None
    PROVE  Count'
<1>1. InTable' = InTable
  BY DEF InTable, In, HandleEnd
<1>2. Ending' = Ending
  BY DEF Ending, HandleEnd, Idle
<1>3. Uncounted' = Uncounted
  BY DEF Uncounted, HandleEnd
<1> QED  BY <1>1, <1>2, <1>3, CountSame DEF HandleEnd

\* The readLoop takes out a stream, and will count it down.
LEMMA EndTakenCounts ==
    ASSUME TableInv, Count, ~muxDone, ~peerReuses, UNCHANGED peerReuses,
           HandleEnd, table[rl.id] # None
    PROVE  Count'
<1>1. table[rl.id] \in InTable
  BY DEF TableInv, TableMatches, TypeOK, InTable, In
<1>2. table' = [table EXCEPT ![sid[table[rl.id]]] = None] /\ sid' = sid
  BY DEF HandleEnd, TableInv, TableMatches, TypeOK
<1>3. InTable' = InTable \ {table[rl.id]}
  BY <1>1, <1>2, NoneIsNoObj DEF InTable, In, TableInv, TypeOK
<1>4. Uncounted' = Uncounted
  BY DEF Uncounted, HandleEnd
<1>5. table[rl.id] \notin Ending /\ Ending' = Ending \cup {table[rl.id]}
  BY <1>1 DEF TableInv, TypeOK, EndsOnce, InTable, Ending, HandleEnd
<1> QED  BY <1>1, <1>3, <1>4, <1>5, CountLeave DEF HandleEnd

\* The readLoop counts down the stream it took out.
LEMMA HandleEndCountCounts ==
    ASSUME TableInv, Count, ~muxDone, ~peerReuses, UNCHANGED peerReuses,
           HandleEndCount
    PROVE  Count'
<1>1. InTable' = InTable
  BY DEF InTable, In, HandleEndCount
<1>2. Uncounted' = Uncounted
  BY DEF Uncounted, HandleEndCount
<1>3. rl.obj \in Ending /\ Ending' = Ending \ {rl.obj}
  BY DEF TableInv, EndsOnce, Ending, HandleEndCount, Idle
<1> QED  BY <1>1, <1>2, <1>3, CountDown DEF HandleEndCount

\* Accept counts nothing.
LEMMA AcceptCounts ==
    ASSUME TableInv, Count, ~muxDone, ~peerReuses, UNCHANGED peerReuses,
           Accept
    PROVE  Count'
<1>1. InTable' = InTable
  BY DEF InTable, In, Accept
<1>2. Ending' = Ending
  BY DEF Ending, Accept
<1>3. Uncounted' = Uncounted
  BY DEF Uncounted, Accept
<1> QED  BY <1>1, <1>2, <1>3, CountSame DEF Accept

\* Abort takes out its stream, and will count it down.
LEMMA AbortInCounts ==
    ASSUME TableInv, Count, ~muxDone, ~peerReuses, UNCHANGED peerReuses, NEW o
           \in Objs, Abort(o), In(o)
    PROVE  Count'
<1>1. o \in InTable
  BY DEF InTable
<1>2. table' = [table EXCEPT ![sid[o]] = None] /\ sid' = sid
  BY DEF Abort, In
<1>3. InTable' = InTable \ {o}
  BY <1>1, <1>2, NoneIsNoObj DEF InTable, In, TableInv, TypeOK
<1>4. Uncounted' = Uncounted
  BY DEF Uncounted, Abort
<1>5. o \notin Ending /\ Ending' = Ending \cup {o}
  BY <1>1 DEF TableInv, EndsOnce, InTable, Ending, Abort, In
<1> QED  BY <1>1, <1>3, <1>4, <1>5, CountLeave DEF Abort

\* Abort of a stream that is out already counts nothing.
LEMMA AbortElseCounts ==
    ASSUME TableInv, Count, ~muxDone, ~peerReuses, UNCHANGED peerReuses, NEW o
           \in Objs, Abort(o), ~In(o)
    PROVE  Count'
<1>1. InTable' = InTable
  BY DEF InTable, In, Abort
<1>2. Ending' = Ending
  BY DEF Ending, Abort, In
<1>3. Uncounted' = Uncounted
  BY DEF Uncounted, Abort
<1> QED  BY <1>1, <1>2, <1>3, CountSame DEF Abort, In

\* The writeLoop takes out a stream, and will count it down.
LEMMA CloseSentCounts ==
    ASSUME TableInv, Count, ~muxDone, ~peerReuses, UNCHANGED peerReuses, NEW o
           \in Objs, CloseSent(o)
    PROVE  Count'
<1>1. table[sid[o]] \in InTable
  BY DEF TableInv, TableMatches, TypeOK, InTable, In, CloseSent
<1>2. table' = [table EXCEPT ![sid[table[sid[o]]]] = None] /\ sid' = sid
  BY DEF CloseSent, TableInv, TableMatches, TypeOK
<1>3. InTable' = InTable \ {table[sid[o]]}
  BY <1>1, <1>2, NoneIsNoObj DEF InTable, In, TableInv, TypeOK
<1>4. Uncounted' = Uncounted
  BY DEF Uncounted, CloseSent
<1>5. table[sid[o]] \notin Ending /\ Ending' = Ending \cup {table[sid[o]]}
  BY <1>1 DEF TableInv, EndsOnce, InTable, Ending, CloseSent
<1> QED  BY <1>1, <1>3, <1>4, <1>5, CountLeave DEF CloseSent

\* The removal counts its stream down.
LEMMA FinishRemoveCounts ==
    ASSUME TableInv, Count, ~muxDone, ~peerReuses, UNCHANGED peerReuses, NEW o
           \in Objs, FinishRemove(o)
    PROVE  Count'
<1>1. InTable' = InTable
  BY DEF InTable, In, FinishRemove
<1>2. Uncounted' = Uncounted
  BY DEF Uncounted, FinishRemove
<1>3. o \in Ending /\ Ending' = Ending \ {o}
  BY DEF TableInv, EndsOnce, Ending, FinishRemove, In
<1> QED  BY <1>1, <1>2, <1>3, CountDown DEF FinishRemove

-----------------------------------------------------------------------------
(* The theorems.                                                            *)

\* While the mux is open and its peer reuses no ID, the count is exact.
CountInv == ~muxDone /\ ~peerReuses => Count

\* A new mux satisfies the invariant.
LEMMA TableInit == Init => TableInv /\ CountInv
<1> SUFFICES ASSUME Init PROVE TableInv /\ CountInv
  OBVIOUS
<1>1. TypeOK
  BY TableAssumption DEF Init, TypeOK, IDs, Idle, None
<1>2. Fresh /\ TableMatches /\ OwnIDs /\ UniqueIDs
  BY TableAssumption DEF Init, Fresh, TableMatches, OwnIDs, UniqueIDs, Own,
     Objs
<1>3. PhaseKnows /\ LoopKnows /\ HeldAreShared
  BY DEF Init, PhaseKnows, LoopKnows, HeldAreShared, Idle
<1>4. EndsOnce /\ AskedFirst /\ Accounted /\ NotTakenEarly
  BY DEF Init, EndsOnce, AskedFirst, IsEnding, Accounted, Live,
     NotTakenEarly, Idle
<1>5. InTable = {} /\ Ending = {} /\ Uncounted = {}
  BY NoneIsNoObj, <1>1
     DEF Init, InTable, In, Ending, Uncounted, Idle, TypeOK
<1>6. Count
  BY <1>5, FS_EmptySet DEF Count, Init
<1> QED  BY <1>1, <1>2, <1>3, <1>4, <1>6 DEF TableInv, CountInv

\* Every step of the mux keeps the invariant.
LEMMA TableStep == TableInv /\ [Next]_vars => TableInv'
<1> SUFFICES ASSUME TableInv, [Next]_vars PROVE TableInv'
  OBVIOUS
<1>1. CASE UNCHANGED vars
  BY <1>1 DEF vars, TableInv, TypeOK, Fresh, TableMatches, OwnIDs, UniqueIDs,
     PhaseKnows, LoopKnows, HeldAreShared, EndsOnce, AskedFirst, Accounted,
     NotTakenEarly, In, IsEnding, Own
<1>2. CASE Next
  <2>1. UNCHANGED peerReuses
    BY <1>2 DEF Next
  <2>2. CASE OpenRegister
    BY <2>1, <2>2, OpenRegisterStep
  <2>3. ASSUME NEW o \in Objs, OpenSent(o) \/ OpenFails(o) \/ OpenCount(o)
        PROVE  TableInv'
    BY <2>1, <2>3, OpenSentStep, OpenFailsStep, OpenCountStep
  <2>4. ASSUME NEW k \in {"open", "close", "reject"}, NEW i \in IDs,
               Receive(k, i)
        PROVE  TableInv'
    BY <2>1, <2>4, ReceiveStep
  <2>5. CASE HandleOpenRefuse \/ HandleOpen \/ Offer \/ AcceptCount
    BY <2>1, <2>5, HandleOpenRefuseStep, HandleOpenStep, OfferTakenStep,
       OfferRefusedStep, AcceptCountStep
  <2>6. CASE HandleEnd \/ HandleEndCount \/ Accept
    BY <2>1, <2>6, EndIgnoredStep, EndTakenStep, HandleEndCountStep,
       AcceptStep
  <2>7. ASSUME NEW o \in Objs, Abort(o) \/ CloseSent(o) \/ FinishRemove(o)
        PROVE  TableInv'
    BY <2>1, <2>7, AbortStep, CloseSentStep, FinishRemoveStep
  <2>8. CASE Close
    BY <2>1, <2>8, CloseStep
  <2> QED  BY <1>2, <2>2, <2>3, <2>4, <2>5, <2>6, <2>7, <2>8 DEF Next
<1> QED  BY <1>1, <1>2

\* Nothing opens a closed mux.
LEMMA StaysClosed ==
    ASSUME [Next]_vars, ~muxDone'
    PROVE  ~muxDone
BY DEF Next, vars, OpenRegister, OpenSent, OpenFails, OpenCount, Receive,
   HandleOpenRefuse, HandleOpen, Offer, AcceptCount, HandleEnd,
   HandleEndCount, Accept, Abort, CloseSent, FinishRemove, Close

\* Every step of the mux keeps the count exact.
LEMMA CountStep == TableInv /\ CountInv /\ [Next]_vars => CountInv'
<1> SUFFICES ASSUME TableInv, CountInv, [Next]_vars,
                    ~muxDone', ~peerReuses'
             PROVE  Count'
  BY DEF CountInv
<1>1. CASE UNCHANGED vars
  BY <1>1 DEF vars, CountInv, Count, InTable, In, Ending, Uncounted
<1>2. CASE Next
  <2>1. UNCHANGED peerReuses /\ ~peerReuses /\ ~muxDone
    BY <1>2, StaysClosed DEF Next
  <2>2. Count
    BY <2>1 DEF CountInv
  <2>3. CASE OpenRegister
    BY <2>1, <2>2, <2>3, OpenRegisterCounts
  <2>4. ASSUME NEW o \in Objs, OpenSent(o) \/ OpenFails(o) \/ OpenCount(o)
        PROVE  Count'
    BY <2>1, <2>2, <2>4, OpenSentCounts, OpenFailsCounts, OpenCountCounts
  <2>5. ASSUME NEW k \in {"open", "close", "reject"}, NEW i \in IDs,
               Receive(k, i)
        PROVE  Count'
    BY <2>1, <2>2, <2>5, ReceiveCounts
  <2>6. CASE HandleOpenRefuse \/ HandleOpen \/ Offer \/ AcceptCount
    BY <2>1, <2>2, <2>6, HandleOpenRefuseCounts, HandleOpenCounts,
       OfferTakenCounts, OfferRefusedCounts, AcceptCountCounts
  <2>7. CASE HandleEnd \/ HandleEndCount \/ Accept
    BY <2>1, <2>2, <2>7, EndIgnoredCounts, EndTakenCounts,
       HandleEndCountCounts, AcceptCounts
  <2>8. ASSUME NEW o \in Objs, Abort(o) \/ CloseSent(o) \/ FinishRemove(o)
        PROVE  Count'
    BY <2>1, <2>2, <2>8, AbortInCounts, AbortElseCounts, CloseSentCounts,
       FinishRemoveCounts
  <2>9. CASE Close
    BY <2>9 DEF Close
  <2> QED  BY <1>2, <2>3, <2>4, <2>5, <2>6, <2>7, <2>8, <2>9 DEF Next
<1> QED  BY <1>1, <1>2

\* The inductive invariant of the stream table holds in every reachable
\* state of the mux.
THEOREM TableInvariant == Spec => [](TableInv /\ CountInv)
BY TableInit, TableStep, CountStep, PTL DEF Spec

\* The stream table of mux.go is well typed: the table holds objects, IDs do
\* not pass MaxID, and the readLoop is at one of its places.
THEOREM TableTypes == Spec => []TypeOK
<1>1. TableInv => TypeOK
  BY DEF TableInv
<1> QED  BY <1>1, TableInvariant, PTL

\* activeStreams of mux.go counts the registered streams, up to the updates
\* in progress, however many streams there are and whoever ends them, as
\* long as the peer reuses no ID.
THEOREM ActiveIsExact == Spec => []CountExact
<1>1. TableInv /\ CountInv => CountExact
  BY RegisteredIs DEF TableInv, CountInv, Count, CountExact
<1> QED  BY <1>1, TableInvariant, PTL

\* A stream of the mux ends only because its owner, the peer or the mux
\* asked for it; Abort on a stale handle ends no other stream.
THEOREM OnlyAskedEnd == Spec => []EndsOnlyIfAsked
<1>1. TableInv => EndsOnlyIfAsked
  BY DEF TableInv, TypeOK, AskedFirst, EndsOnlyIfAsked
<1> QED  BY <1>1, TableInvariant, PTL

\* A stream that the application holds is in the table, closed, or about to
\* be closed by whoever took it out.
THEOREM OutIsClosed == Spec => []UnregisteredIsClosed
<1>1. TableInv => UnregisteredIsClosed
  <2> SUFFICES ASSUME TableInv, NEW o \in handles, o \notin Registered
               PROVE  o \in done \cup Ending
    BY DEF UnregisteredIsClosed
  <2>1. o \in Objs /\ phase[o] \in Live
    BY DEF TableInv, TypeOK, HeldAreShared, Shared, Live
  <2>2. ~In(o)
    BY <2>1, RegisteredIs DEF TableInv, InTable
  <2> QED  BY <2>1, <2>2 DEF TableInv, Accounted, IsEnding, Ending
<1> QED  BY <1>1, TableInvariant, PTL

=============================================================================

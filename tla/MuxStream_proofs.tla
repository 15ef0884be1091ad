-------------------------- MODULE MuxStream_proofs --------------------------
(***************************************************************************)
(* Proofs about the receive half of a mux stream, for every window, frame  *)
(* size, channel capacity and number of frames, and whatever the peer      *)
(* sends.                                                                  *)
(***************************************************************************)
EXTENDS MuxStream, FiniteSetTheorems, FunctionTheorems, TLAPS

\* readLoop holds a frame that is in no queue yet.
Offering == {"gate", "mode", "send", "spill"}
InFlight == IF ppc \in Offering THEN pframe.len ELSE 0

\* An EOF carries no payload.
EofIsEmpty ==
    /\ \A i \in 1..Len(dataCh) : dataCh[i].eof => dataCh[i].len = 0
    /\ \A i \in 1..Len(pending) : pending[i].eof => pending[i].len = 0
    /\ pframe.eof => pframe.len = 0
    /\ hand.eof => hand.len = 0

\* The frame in readLoop's hands is the last one sent, and is queued once.
ProducerKnows ==
    /\ ppc = "idle" => pframe = NoFrame
    /\ ppc # "idle" => pframe \in Frame /\ pframe.seq = sent
    /\ ppc \in Offering => pframe.seq \notin queued
    /\ queued \subseteq 1..sent

\* Read holds a frame between taking it and unpacking it, and takes none
\* before rBuf is empty.
ReaderKnows ==
    /\ rpc = "got" => hand \in Frame
    /\ rpc # "got" => hand = NoFrame
    /\ rpc \notin {"idle", "copy"} => rLeft = 0

\* The window test still holds when the frame reaches its queue: meanwhile
\* buffered can only have become smaller.
RoomKept ==
    /\ Held <= pendingOverflowLimit
    /\ ppc \in {"mode", "send", "spill"} =>
         buffered + pframe.len <= pendingOverflowLimit

\* Both queues are bounded, the overflow list up to its one EOF.
EntriesBounded ==
    /\ Len(pending) <= pendingEntryLimit + (IF pendingEOF THEN 1 ELSE 0)
    /\ Len(dataCh) <= ChanCap

\* The overflow list holds at most one EOF, and pendingEOF knows.
OneEOF ==
    \A i \in 1..Len(pending) : pending[i].eof =>
        pendingEOF /\ \A j \in 1..Len(pending) : pending[j].eof => i = j

\* A peer that respects its credit has the window minus what is on its way
\* to rBuf, and sends no empty data frame.
CreditKept ==
    compliant =>
        /\ credit >= 0
        /\ credit + Bytes(dataCh) + Bytes(pending) + hand.len + InFlight
               <= Window
        /\ \A i \in 1..Len(pending) : pending[i].eof \/ pending[i].len > 0
        /\ ppc # "idle" => pframe.eof \/ pframe.len > 0

\* Nothing is queued once the peer closed the stream, and Read reports the
\* close only with both queues empty.
CloseKnows ==
    /\ how = "peer" => ppc = "idle"
    /\ rpc \in {"drain1", "drain2"} => done
    /\ rpc = "drain2" /\ how = "peer" => dataCh = <<>>
    /\ result = "closed" => done /\ rpc = "idle"
    /\ result = "closed" /\ how = "peer" => dataCh = <<>> /\ pending = <<>>

StreamInv ==
    /\ TypeOK
    /\ EofIsEmpty /\ ProducerKnows /\ ReaderKnows
    /\ BufferedExact /\ RoomKept /\ EntriesBounded
    /\ OneEOF /\ CreditKept /\ NoFalseViolation
    /\ ExactlyOnce /\ CloseKnows

-----------------------------------------------------------------------------
(* Queues: their bytes and the numbers of their frames.                     *)

\* The bytes of a queue can be counted.
LEMMA BytesType ==
    ASSUME NEW q \in Seq(Frame)
    PROVE  IsFiniteSet(ByteSet(q)) /\ Bytes(q) \in Nat
<1>1. IsFiniteSet(1..Len(q)) /\ IsFiniteSet(1..MaxFrame)
  BY FS_Interval, StreamAssumption
<1>2. IsFiniteSet((1..Len(q)) \X (1..MaxFrame))
  BY <1>1, FS_Product
<1>3. IsFiniteSet(ByteSet(q))
  BY <1>2, FS_Subset DEF ByteSet
<1> QED  BY <1>3, FS_CardinalityType DEF Bytes

\* The first k numbers.
LEMMA UpTo ==
    ASSUME NEW k \in Nat
    PROVE  IsFiniteSet(1..k) /\ Cardinality(1..k) = k
BY FS_Interval

\* The bytes of one frame, as pairs.
LEMMA RowCount ==
    ASSUME NEW n, NEW k \in Nat
    PROVE  /\ IsFiniteSet({n} \X (1..k))
           /\ Cardinality({n} \X (1..k)) = k
<1>1. IsFiniteSet({n}) /\ Cardinality({n}) = 1
  BY FS_Singleton
<1>2. IsFiniteSet(1..k) /\ Cardinality(1..k) = k
  BY UpTo
<1>3. /\ IsFiniteSet({n} \X (1..k))
      /\ Cardinality({n} \X (1..k)) = Cardinality({n}) * Cardinality(1..k)
  BY <1>1, <1>2, FS_Product
<1> QED  BY <1>1, <1>2, <1>3

\* An empty queue holds no byte.
LEMMA BytesEmpty == Bytes(<<>>) = 0
<1>1. ByteSet(<<>>) = {}
  BY DEF ByteSet
<1> QED  BY <1>1, FS_EmptySet DEF Bytes

\* Append adds the bytes of its frame.
LEMMA BytesAppend ==
    ASSUME NEW q \in Seq(Frame), NEW f \in Frame
    PROVE  Bytes(Append(q, f)) = Bytes(q) + f.len
<1> DEFINE row == {Len(q) + 1} \X (1..f.len)
<1>1. f.len \in Nat /\ f.len <= MaxFrame /\ Len(q) \in Nat
  BY StreamAssumption DEF Frame
<1>2. /\ Len(Append(q, f)) = Len(q) + 1
      /\ Append(q, f)[Len(q) + 1] = f
      /\ \A i \in 1..Len(q) : Append(q, f)[i] = q[i]
  OBVIOUS
<1>3. ByteSet(Append(q, f)) = ByteSet(q) \cup row
  <2>1. ASSUME NEW b \in ByteSet(Append(q, f)) PROVE b \in ByteSet(q) \cup row
    <3>1. PICK i \in 1..(Len(q) + 1), k \in 1..MaxFrame :
             b = <<i, k>> /\ k <= Append(q, f)[i].len
      BY <1>2 DEF ByteSet
    <3>2. CASE i = Len(q) + 1
      BY <3>1, <3>2, <1>1, <1>2
    <3>3. CASE i # Len(q) + 1
      <4>1. i \in 1..Len(q)
        BY <3>3, <1>1
      <4> QED  BY <3>1, <4>1, <1>2 DEF ByteSet
    <3> QED  BY <3>2, <3>3
  <2>2. ASSUME NEW b \in ByteSet(q) PROVE b \in ByteSet(Append(q, f))
    <3>1. PICK i \in 1..Len(q), k \in 1..MaxFrame :
             b = <<i, k>> /\ k <= q[i].len
      BY DEF ByteSet
    <3>2. i \in 1..Len(Append(q, f))
      BY <1>1, <1>2
    <3> QED  BY <3>1, <3>2, <1>2 DEF ByteSet
  <2>3. ASSUME NEW b \in row PROVE b \in ByteSet(Append(q, f))
    <3>1. PICK k \in 1..f.len : b = <<Len(q) + 1, k>>
      OBVIOUS
    <3>2. k \in 1..MaxFrame /\ k <= f.len
      BY <1>1, StreamAssumption
    <3>3. Len(q) + 1 \in 1..Len(Append(q, f))
      BY <1>1, <1>2
    <3> QED  BY <3>1, <3>2, <3>3, <1>2 DEF ByteSet
  <2> QED  BY <2>1, <2>2, <2>3
<1>4. ByteSet(q) \cap row = {}
  <2> SUFFICES ASSUME NEW b \in ByteSet(q), b \in row PROVE FALSE
    OBVIOUS
  <2>1. b[1] \in 1..Len(q) /\ b[1] = Len(q) + 1
    BY DEF ByteSet
  <2> QED  BY <2>1, <1>1
<1>5. IsFiniteSet(row) /\ Cardinality(row) = f.len
  BY <1>1, RowCount
<1>6. IsFiniteSet(ByteSet(q)) /\ Cardinality(ByteSet(q)) \in Nat
  BY BytesType DEF Bytes
<1> HIDE DEF row
<1>7. Cardinality(ByteSet(q) \cup row) =
          Cardinality(ByteSet(q)) + Cardinality(row) - Cardinality({})
  BY <1>4, <1>5, <1>6, FS_Union
<1> QED  BY <1>1, <1>3, <1>5, <1>6, <1>7, FS_EmptySet DEF Bytes

\* Taking the head removes its bytes.
LEMMA BytesTail ==
    ASSUME NEW q \in Seq(Frame), q # <<>>
    PROVE  Bytes(q) = Head(q).len + Bytes(Tail(q))
<1> DEFINE row == {1} \X (1..Head(q).len)
           rest == {b \in ByteSet(q) : b[1] > 1}
           shift == [b \in ByteSet(Tail(q)) |-> <<b[1] + 1, b[2]>>]
<1>1. /\ Len(q) \in Nat \ {0} /\ Head(q) = q[1] /\ q[1] \in Frame
      /\ Tail(q) \in Seq(Frame) /\ Len(Tail(q)) = Len(q) - 1
      /\ \A i \in 1..(Len(q) - 1) : Tail(q)[i] = q[i + 1]
  OBVIOUS
<1>2. Head(q).len \in Nat /\ Head(q).len <= MaxFrame
  BY <1>1, StreamAssumption DEF Frame
<1>3. ByteSet(q) = row \cup rest
  <2>1. ASSUME NEW b \in ByteSet(q) PROVE b \in row \cup rest
    <3>1. PICK i \in 1..Len(q), k \in 1..MaxFrame :
             b = <<i, k>> /\ k <= q[i].len
      BY DEF ByteSet
    <3>2. CASE i = 1
      BY <3>1, <3>2, <1>1, <1>2
    <3>3. CASE i # 1
      BY <3>1, <3>3
    <3> QED  BY <3>2, <3>3
  <2>2. ASSUME NEW b \in row PROVE b \in ByteSet(q)
    <3>1. PICK k \in 1..Head(q).len : b = <<1, k>>
      OBVIOUS
    <3>2. k \in 1..MaxFrame /\ k <= q[1].len /\ 1 \in 1..Len(q)
      BY <1>1, <1>2, StreamAssumption
    <3> QED  BY <3>1, <3>2 DEF ByteSet
  <2> QED  BY <2>1, <2>2
<1>4. row \cap rest = {}
  BY <1>2
<1>5. shift \in Bijection(ByteSet(Tail(q)), rest)
  <2>1. ASSUME NEW b \in ByteSet(Tail(q)) PROVE shift[b] \in rest
    <3>1. PICK i \in 1..(Len(q) - 1), k \in 1..MaxFrame :
             b = <<i, k>> /\ k <= Tail(q)[i].len
      BY <1>1 DEF ByteSet
    <3>2. shift[b] = <<i + 1, k>> /\ i + 1 \in 1..Len(q) /\ k <= q[i + 1].len
      BY <3>1, <1>1
    <3>3. i + 1 > 1
      BY <3>1
    <3> QED  BY <3>2, <3>3 DEF ByteSet
  <2>2. ASSUME NEW b \in ByteSet(Tail(q)), NEW c \in ByteSet(Tail(q)),
               shift[b] = shift[c]
        PROVE  b = c
    <3>1. PICK i \in 1..(Len(q) - 1), k \in 1..MaxFrame : b = <<i, k>>
      BY <1>1 DEF ByteSet
    <3>2. PICK j \in 1..(Len(q) - 1), l \in 1..MaxFrame : c = <<j, l>>
      BY <1>1 DEF ByteSet
    <3>3. <<i + 1, k>> = <<j + 1, l>>
      BY <2>2, <3>1, <3>2
    <3> QED  BY <3>1, <3>2, <3>3, <1>1
  <2>3. ASSUME NEW c \in rest
        PROVE  \E b \in ByteSet(Tail(q)) : shift[b] = c
    <3>1. PICK i \in 1..Len(q), k \in 1..MaxFrame :
             c = <<i, k>> /\ k <= q[i].len /\ i > 1
      BY DEF ByteSet
    <3>2. i - 1 \in 1..(Len(q) - 1) /\ Tail(q)[i - 1] = q[(i - 1) + 1]
      BY <3>1, <1>1
    <3>3. (i - 1) + 1 = i
      BY <3>1
    <3>4. <<i - 1, k>> \in ByteSet(Tail(q))
      BY <3>1, <3>2, <3>3, <1>1 DEF ByteSet
    <3>5. shift[<<i - 1, k>>] = c
      BY <3>1, <3>3, <3>4
    <3> QED  BY <3>4, <3>5
  <2>4. shift \in [ByteSet(Tail(q)) -> rest]
    BY <2>1
  <2> HIDE DEF shift, rest
  <2> QED  BY <2>2, <2>3, <2>4, Fun_IsBij
<1>6. IsFiniteSet(row) /\ Cardinality(row) = Head(q).len
  BY <1>2, RowCount
<1>7. IsFiniteSet(ByteSet(Tail(q))) /\ Cardinality(ByteSet(Tail(q))) \in Nat
  BY <1>1, BytesType DEF Bytes
<1> HIDE DEF row, rest, shift
<1>8. IsFiniteSet(rest) /\ Cardinality(rest) = Cardinality(ByteSet(Tail(q)))
  BY <1>5, <1>7, FS_Bijection DEF ExistsBijection
<1>9. Cardinality(row \cup rest) =
          Cardinality(row) + Cardinality(rest) - Cardinality({})
  BY <1>4, <1>6, <1>8, FS_Union
<1> QED  BY <1>2, <1>3, <1>6, <1>7, <1>8, <1>9, FS_EmptySet DEF Bytes

\* A queue with at most one empty frame has at most one frame more than
\* bytes.
LEMMA FewEntries ==
    ASSUME NEW q \in Seq(Frame),
           \A i, j \in 1..Len(q) : q[i].len = 0 /\ q[j].len = 0 => i = j
    PROVE  Len(q) <= Bytes(q) + 1
<1> DEFINE full == {i \in 1..Len(q) : q[i].len > 0}
           first == [i \in full |-> <<i, 1>>]
<1>1. Len(q) \in Nat /\ \A i \in 1..Len(q) : q[i].len \in 0..MaxFrame
  <2>1. Len(q) \in Nat /\ \A i \in 1..Len(q) : q[i] \in Frame
    OBVIOUS
  <2> QED  BY <2>1 DEF Frame
<1>2. IsFiniteSet(1..Len(q)) /\ Cardinality(1..Len(q)) = Len(q)
  <2>1. Len(q) \in Nat
    OBVIOUS
  <2> QED  BY <2>1, UpTo
<1>3. IsFiniteSet(full) /\ Cardinality(full) \in Nat
  BY <1>2, FS_Subset, FS_CardinalityType
<1>4. Len(q) <= Cardinality(full) + 1
  <2>1. CASE full = 1..Len(q)
    <3>1. Cardinality(full) = Len(q)
      BY <2>1, <1>2
    <3> HIDE DEF full
    <3> QED  BY <3>1, <1>1
  <2>2. CASE full # 1..Len(q)
    <3>1. PICK e \in 1..Len(q) : q[e].len = 0
      BY <2>2, <1>1
    <3>2. full = (1..Len(q)) \ {e}
      BY <3>1, <1>1
    <3>3. Cardinality(full) = Cardinality(1..Len(q)) - 1
      BY <3>2, <1>2, FS_RemoveElement
    <3> QED  BY <3>3, <1>1, <1>2
  <2> QED  BY <2>1, <2>2
<1>5. first \in Injection(full, ByteSet(q))
  <2>1. \A i \in full : first[i] \in ByteSet(q)
    <3> SUFFICES ASSUME NEW i \in full PROVE <<i, 1>> \in ByteSet(q)
      OBVIOUS
    <3>1. 1 \in 1..MaxFrame /\ 1 <= q[i].len
      BY <1>1, StreamAssumption
    <3> QED  BY <3>1 DEF ByteSet
  <2>2. \A i, j \in full : first[i] = first[j] => i = j
    OBVIOUS
  <2>3. first \in [full -> ByteSet(q)]
    BY <2>1
  <2> HIDE DEF first, full
  <2> QED  BY <2>2, <2>3, Fun_IsInj
<1> HIDE DEF first, full
<1>6. Cardinality(full) <= Bytes(q)
  BY <1>5, BytesType, FS_Injection DEF Bytes
<1> QED  BY <1>1, <1>3, <1>4, <1>6, BytesType

\* The numbers in a queue after Append, and around its head.
LEMMA SeqNumsAppend ==
    ASSUME NEW q \in Seq(Frame), NEW f \in Frame
    PROVE  SeqNums(Append(q, f)) = SeqNums(q) \cup {f.seq}
<1>1. Len(Append(q, f)) = Len(q) + 1 /\ Len(q) \in Nat
  OBVIOUS
<1>2. \A i \in 1..Len(q) : Append(q, f)[i] = q[i]
  OBVIOUS
<1>3. Append(q, f)[Len(q) + 1] = f
  OBVIOUS
<1>4. ASSUME NEW i \in 1..(Len(q) + 1)
      PROVE  Append(q, f)[i].seq \in SeqNums(q) \cup {f.seq}
  BY <1>1, <1>2, <1>3 DEF SeqNums
<1>5. ASSUME NEW i \in 1..Len(q) PROVE q[i].seq \in SeqNums(Append(q, f))
  BY <1>1, <1>2 DEF SeqNums
<1>6. f.seq \in SeqNums(Append(q, f))
  BY <1>1, <1>3 DEF SeqNums
<1> QED  BY <1>1, <1>4, <1>5, <1>6 DEF SeqNums

\* The same for the head of a queue.
LEMMA SeqNumsTail ==
    ASSUME NEW q \in Seq(Frame), q # <<>>
    PROVE  SeqNums(q) = {Head(q).seq} \cup SeqNums(Tail(q))
<1>1. /\ Len(q) \in Nat \ {0} /\ Head(q) = q[1] /\ Len(Tail(q)) = Len(q) - 1
      /\ \A i \in 1..(Len(q) - 1) : Tail(q)[i] = q[i + 1]
  OBVIOUS
<1>2. ASSUME NEW i \in 1..Len(q)
      PROVE  q[i].seq \in {Head(q).seq} \cup SeqNums(Tail(q))
  <2>1. CASE i = 1
    BY <2>1, <1>1
  <2>2. CASE i # 1
    <3>1. i - 1 \in 1..(Len(q) - 1) /\ Tail(q)[i - 1] = q[(i - 1) + 1]
      BY <2>2, <1>1
    <3>2. (i - 1) + 1 = i
      OBVIOUS
    <3> QED  BY <3>1, <3>2, <1>1 DEF SeqNums
  <2> QED  BY <2>1, <2>2
<1>3. ASSUME NEW i \in 1..Len(Tail(q)) PROVE Tail(q)[i].seq \in SeqNums(q)
  <2>1. i + 1 \in 1..Len(q) /\ Tail(q)[i] = q[i + 1]
    BY <1>1
  <2> QED  BY <2>1 DEF SeqNums
<1>4. Head(q).seq \in SeqNums(q)
  BY <1>1 DEF SeqNums
<1> QED  BY <1>2, <1>3, <1>4 DEF SeqNums

\* The set of a sequence of numbers grows by what is appended.
LEMMA ToSetAppend ==
    ASSUME NEW s \in Seq(1..MaxFrames), NEW n \in 1..MaxFrames
    PROVE  ToSet(Append(s, n)) = ToSet(s) \cup {n}
<1>1. /\ DOMAIN Append(s, n) = 1..(Len(s) + 1) /\ DOMAIN s = 1..Len(s)
      /\ Len(s) \in Nat
  OBVIOUS
<1>2. \A i \in 1..Len(s) : Append(s, n)[i] = s[i]
  OBVIOUS
<1>3. Append(s, n)[Len(s) + 1] = n
  OBVIOUS
<1>4. ASSUME NEW i \in 1..(Len(s) + 1)
      PROVE  Append(s, n)[i] \in ToSet(s) \cup {n}
  BY <1>1, <1>2, <1>3 DEF ToSet
<1>5. ASSUME NEW i \in 1..Len(s) PROVE s[i] \in ToSet(Append(s, n))
  BY <1>1, <1>2 DEF ToSet
<1>6. n \in ToSet(Append(s, n))
  BY <1>1, <1>3 DEF ToSet
<1> QED  BY <1>1, <1>4, <1>5, <1>6 DEF ToSet

-----------------------------------------------------------------------------
(* Frames and numbers.                                                      *)

\* What a frame is.
LEMMA FrameIs ==
    /\ \A f \in Frame : /\ f.len \in Nat /\ f.len <= MaxFrame
                        /\ f.eof \in BOOLEAN
                        /\ f.seq \in 1..MaxFrames
    /\ NoFrame.len = 0 /\ NoFrame.eof = FALSE
BY StreamAssumption DEF Frame, NoFrame

\* The quantities of the window test are numbers.
LEMMA Numbers ==
    ASSUME StreamInv
    PROVE  /\ Bytes(dataCh) \in Nat /\ Bytes(pending) \in Nat
           /\ hand.len \in Nat /\ pframe.len \in Nat
           /\ rLeft \in Nat /\ rLeft <= MaxFrame
           /\ buffered \in Int /\ credit \in Int
<1>1. dataCh \in Seq(Frame) /\ pending \in Seq(Frame)
  BY DEF StreamInv, TypeOK
<1>2. hand \in Frame \cup {NoFrame} /\ pframe \in Frame \cup {NoFrame}
  BY DEF StreamInv, TypeOK
<1>3. rLeft \in 0..MaxFrame /\ buffered \in Int /\ credit \in Int
  BY DEF StreamInv, TypeOK
<1> QED  BY <1>1, <1>2, <1>3, BytesType, FrameIs, StreamAssumption

-----------------------------------------------------------------------------
(* The invariant, one step of a goroutine at a time.                        *)

\* A frame arrives.
LEMMA PushBeginStep ==
    ASSUME StreamInv, NEW f \in Frame, PushBegin(f), UNCHANGED compliant
    PROVE  StreamInv'
<1>a. /\ f.len \in Nat /\ f.len <= MaxFrame /\ f.eof \in BOOLEAN
      /\ f.seq \in 1..MaxFrames
  BY FrameIs
<1>b. /\ sent \in Nat /\ sent' = sent + 1 /\ sent' \in 0..MaxFrames
      /\ credit' = credit - f.len /\ credit' \in Int
  BY <1>a, StreamAssumption, Numbers DEF PushBegin, StreamInv, TypeOK
<1>c. /\ ppc = "idle" /\ pframe = NoFrame /\ queued \subseteq 1..sent
      /\ f.seq = sent + 1
  BY DEF PushBegin, StreamInv, ProducerKnows
<1> USE <1>a, <1>b, <1>c
<1>1. ReaderKnows' /\ EntriesBounded' /\ OneEOF' /\ NoFalseViolation' /\
    ExactlyOnce'
  BY DEF StreamInv, ReaderKnows, EntriesBounded, OneEOF, NoFalseViolation,
      ExactlyOnce, PushBegin, readVars, queueVars
<1>2. TypeOK'
  BY DEF StreamInv, TypeOK, PushBegin, readVars, queueVars
<1>3. EofIsEmpty'
  BY DEF StreamInv, EofIsEmpty, PushBegin, readVars, queueVars
<1>4. ProducerKnows'
  BY DEF StreamInv, ProducerKnows, Offering, PushBegin, readVars, queueVars
<1>5. BufferedExact'
  BY DEF StreamInv, BufferedExact, Held, PushBegin, readVars, queueVars
<1>6. RoomKept'
  BY DEF StreamInv, RoomKept, Held, PushBegin, readVars, queueVars
<1>7. CreditKept'
  <2>1. UNCHANGED <<dataCh, pending, hand, compliant>>
    BY DEF PushBegin, queueVars, readVars
  <2>2. InFlight = 0
    BY DEF InFlight, Offering
  <2>3. IF done THEN ppc' = "idle" /\ InFlight' = 0
        ELSE pframe' = f /\ InFlight' = f.len
    BY DEF PushBegin, InFlight, Offering
  <2> SUFFICES ASSUME compliant PROVE CreditKept'
    BY <2>1 DEF CreditKept
  <2>4. f.len <= credit /\ (f.eof \/ f.len > 0)
    BY DEF PushBegin
  <2>5. credit + Bytes(dataCh) + Bytes(pending) + hand.len <= Window
    BY <2>2, Numbers DEF StreamInv, CreditKept
  <2>6. credit' >= 0
    BY <2>4, Numbers
  <2>7. InFlight' <= f.len /\ InFlight' \in Nat
    BY <2>3
  <2>8. credit' + Bytes(dataCh') + Bytes(pending') + hand'.len + InFlight'
            <= Window
    BY <2>1, <2>5, <2>7, Numbers, StreamAssumption
  <2>9. ppc' # "idle" => pframe'.eof \/ pframe'.len > 0
    BY <2>3, <2>4
  <2>10. \A i \in 1..Len(pending') : pending'[i].eof \/ pending'[i].len > 0
    BY <2>1 DEF StreamInv, CreditKept
  <2> QED  BY <2>6, <2>8, <2>9, <2>10 DEF CreditKept
<1>8. CloseKnows'
  BY DEF StreamInv, CloseKnows, done, PushBegin, readVars, queueVars
<1> QED  BY <1>1, <1>2, <1>3, <1>4, <1>5, <1>6, <1>7, <1>8 DEF StreamInv

\* The window test fails: the stream is aborted.
LEMMA GateShutStep ==
    ASSUME StreamInv, PushGate, ~pframe.eof, buffered + pframe.len >
        pendingOverflowLimit, UNCHANGED compliant
    PROVE  StreamInv'
<1>a. compliant => buffered + pframe.len <= pendingOverflowLimit
  <2>1. ppc = "gate"
    BY DEF PushGate
  <2>2. buffered = Bytes(dataCh) + Bytes(pending) + hand.len + rLeft
    BY <2>1, Numbers DEF StreamInv, BufferedExact, Held
  <2>3. compliant => credit >= 0 /\ credit + Bytes(dataCh) + Bytes(pending)
                                      + hand.len + pframe.len <= Window
    BY <2>1 DEF StreamInv, CreditKept, InFlight, Offering
  <2> QED  BY <2>2, <2>3, Numbers, StreamAssumption DEF pendingOverflowLimit
<1>c. ~compliant
  BY <1>a, Numbers, StreamAssumption DEF pendingOverflowLimit
<1> USE <1>a, <1>c
<1>1. ReaderKnows' /\ EntriesBounded' /\ OneEOF' /\ ExactlyOnce'
  BY DEF StreamInv, ReaderKnows, EntriesBounded, OneEOF, ExactlyOnce,
      PushGate, ProducerReturns, CloseChannels, done, readVars, queueVars
<1>2. TypeOK'
  BY DEF StreamInv, TypeOK, PushGate, ProducerReturns, CloseChannels, done,
      readVars, queueVars
<1>3. EofIsEmpty'
  BY StreamAssumption, Numbers, FrameIs DEF StreamInv, EofIsEmpty, PushGate,
      ProducerReturns, CloseChannels, done, readVars, queueVars
<1>4. ProducerKnows'
  BY DEF StreamInv, ProducerKnows, Offering, PushGate, ProducerReturns,
      CloseChannels, done, readVars, queueVars
<1>5. BufferedExact'
  BY DEF StreamInv, BufferedExact, Held, PushGate, ProducerReturns,
      CloseChannels, done, readVars, queueVars
<1>6. RoomKept'
  BY DEF StreamInv, RoomKept, Held, PushGate, ProducerReturns, CloseChannels,
      done, readVars, queueVars
<1>7. CreditKept'
  BY DEF StreamInv, CreditKept, InFlight, Offering, PushGate,
      ProducerReturns, CloseChannels, done, readVars, queueVars
<1>8. NoFalseViolation'
  BY DEF StreamInv, NoFalseViolation, PushGate, ProducerReturns,
      CloseChannels, done, readVars, queueVars
<1>9. CloseKnows'
  BY DEF StreamInv, CloseKnows, done, PushGate, ProducerReturns,
      CloseChannels, readVars, queueVars
<1> QED  BY <1>1, <1>2, <1>3, <1>4, <1>5, <1>6, <1>7, <1>8, <1>9 DEF StreamInv

\* The window test lets the frame pass.
LEMMA GateOpenStep ==
    ASSUME StreamInv, PushGate, pframe.eof \/ ~(buffered + pframe.len >
        pendingOverflowLimit), UNCHANGED compliant
    PROVE  StreamInv'
<1>b. /\ pframe.eof \in BOOLEAN /\ buffered <= pendingOverflowLimit
      /\ (pframe.eof => pframe.len = 0)
  <2>1. buffered = Held /\ Held <= pendingOverflowLimit
    BY Numbers DEF PushGate, StreamInv, BufferedExact, Held, RoomKept
  <2>2. pframe \in Frame
    BY DEF PushGate, StreamInv, ProducerKnows
  <2> QED  BY <2>1, <2>2, FrameIs DEF StreamInv, EofIsEmpty
<1> USE <1>b
<1>1. EofIsEmpty' /\ ReaderKnows' /\ EntriesBounded' /\ OneEOF' /\
    NoFalseViolation' /\ ExactlyOnce'
  BY DEF StreamInv, EofIsEmpty, ReaderKnows, EntriesBounded, OneEOF,
      NoFalseViolation, ExactlyOnce, PushGate, readVars, queueVars
<1>2. TypeOK'
  BY DEF StreamInv, TypeOK, PushGate, readVars, queueVars
<1>3. ProducerKnows'
  BY DEF StreamInv, ProducerKnows, Offering, PushGate, readVars, queueVars
<1>4. BufferedExact'
  BY DEF StreamInv, BufferedExact, Held, PushGate, readVars, queueVars
<1>5. RoomKept'
  <2>1. UNCHANGED <<dataCh, pending, hand, rLeft, buffered, pframe>>
    BY DEF PushGate, queueVars, readVars
  <2>2. Held' = Held
    BY <2>1 DEF Held
  <2>3. pframe.eof => buffered + pframe.len <= pendingOverflowLimit
    BY Numbers
  <2>4. ~pframe.eof => buffered + pframe.len <= pendingOverflowLimit
    BY Numbers, StreamAssumption DEF pendingOverflowLimit
  <2>5. buffered + pframe.len <= pendingOverflowLimit
    BY <2>3, <2>4
  <2> QED  BY <2>1, <2>2, <2>5 DEF StreamInv, RoomKept
<1>6. CreditKept'
  BY DEF StreamInv, CreditKept, InFlight, Offering, PushGate, readVars,
      queueVars
<1>7. CloseKnows'
  BY DEF StreamInv, CloseKnows, done, PushGate, readVars, queueVars
<1> QED  BY <1>1, <1>2, <1>3, <1>4, <1>5, <1>6, <1>7 DEF StreamInv

\* A second EOF for the overflow list is dropped.
LEMMA SpillDupStep ==
    ASSUME StreamInv, ppc \in {"mode", "spill"}, AppendPending,
        ProducerReturns, UNCHANGED <<dataCh, readVars, credit, sent>>,
        pframe.eof, pendingEOF, UNCHANGED compliant
    PROVE  StreamInv'
<1>1. ReaderKnows' /\ EntriesBounded' /\ OneEOF' /\ NoFalseViolation' /\
    ExactlyOnce'
  BY DEF StreamInv, ReaderKnows, EntriesBounded, OneEOF, NoFalseViolation,
      ExactlyOnce, AppendPending, ProducerReturns, readVars
<1>2. TypeOK'
  BY DEF StreamInv, TypeOK, AppendPending, ProducerReturns, readVars
<1>3. EofIsEmpty'
  BY StreamAssumption, Numbers, FrameIs DEF StreamInv, EofIsEmpty,
      AppendPending, ProducerReturns, readVars
<1>4. ProducerKnows'
  BY DEF StreamInv, ProducerKnows, Offering, AppendPending, ProducerReturns,
      readVars
<1>5. BufferedExact'
  BY DEF StreamInv, BufferedExact, Held, AppendPending, ProducerReturns,
      readVars
<1>6. RoomKept'
  BY DEF StreamInv, RoomKept, Held, AppendPending, ProducerReturns, readVars
<1>7. CreditKept'
  BY DEF StreamInv, CreditKept, InFlight, Offering, AppendPending,
      ProducerReturns, readVars, EofIsEmpty
<1>8. CloseKnows'
  BY DEF StreamInv, CloseKnows, done, AppendPending, ProducerReturns,
      readVars
<1> QED  BY <1>1, <1>2, <1>3, <1>4, <1>5, <1>6, <1>7, <1>8 DEF StreamInv

\* An EOF joins the overflow list.
LEMMA SpillEofStep ==
    ASSUME StreamInv, ppc \in {"mode", "spill"}, AppendPending,
        ProducerReturns, UNCHANGED <<dataCh, readVars, credit, sent>>,
        pframe.eof, ~pendingEOF, UNCHANGED compliant
    PROVE  StreamInv'
<1>p. pframe \in Frame /\ pframe.seq = sent /\ pframe.seq \notin queued
  BY DEF StreamInv, ProducerKnows, Offering
<1>q. pending \in Seq(Frame) /\ pending' = Append(pending, pframe)
  BY DEF StreamInv, TypeOK, AppendPending
<1>a. Bytes(pending') = Bytes(pending) + pframe.len
  BY <1>p, <1>q, BytesAppend
<1>b. SeqNums(pending') = SeqNums(pending) \cup {pframe.seq}
  BY <1>p, <1>q, SeqNumsAppend
<1>c. /\ pending' \in Seq(Frame) /\ Len(pending) \in Nat
      /\ Len(pending') = Len(pending) + 1
      /\ pending'[Len(pending) + 1] = pframe
      /\ (\A i \in 1..Len(pending) : pending'[i] = pending[i])
  BY <1>p, <1>q
<1>g. (\A i \in 1..Len(pending') : i \in 1..Len(pending) \/ i = Len(pending) +
    1)
  BY <1>c
<1>e. pframe.len = 0 /\ (\A i \in 1..Len(pending) : ~pending[i].eof)
  BY DEF StreamInv, EofIsEmpty, OneEOF
<1>u. /\ buffered' = buffered /\ dataCh' = dataCh /\ hand' = hand
      /\ rLeft' = rLeft /\ credit' = credit /\ sent' = sent
      /\ delivered' = delivered /\ ppc' = "idle" /\ pframe' = NoFrame
      /\ how' = how /\ queued' = queued \cup {pframe.seq}
      /\ pendingEOF' = TRUE /\ pframe.eof
  BY DEF AppendPending, ProducerReturns, readVars
<1>n. /\ Bytes(dataCh) \in Nat /\ Bytes(pending) \in Nat /\ hand.len \in Nat
      /\ pframe.len \in Nat /\ rLeft \in Nat /\ buffered \in Int
      /\ credit \in Int /\ Window \in Nat
  BY Numbers, StreamAssumption
<1>k. (compliant => credit' + Bytes(dataCh') + Bytes(pending') + hand'.len +
    InFlight' <= Window)
  <2>1. compliant => credit + Bytes(dataCh) + Bytes(pending) + hand.len
                       + InFlight <= Window
    BY DEF StreamInv, CreditKept
  <2>2. InFlight = pframe.len /\ InFlight' = 0
    BY <1>u DEF InFlight, Offering
  <2> QED  BY <2>1, <2>2, <1>n, <1>a, <1>u
<1>x. /\ Cardinality(queued') = Cardinality(queued) + 1
      /\ Cardinality(queued) \in Nat
  <2>1. queued \subseteq 1..MaxFrames /\ IsFiniteSet(1..MaxFrames)
    BY FS_Interval, StreamAssumption DEF StreamInv, TypeOK
  <2>2. IsFiniteSet(queued)
    BY <2>1, FS_Subset
  <2>3. queued' = queued \cup {pframe.seq} /\ pframe.seq \notin queued
    BY <1>p, <1>u
  <2> QED  BY <2>2, <2>3, FS_AddElement, FS_CardinalityType
<1> USE <1>p, <1>q, <1>a, <1>b, <1>c, <1>g, <1>e, <1>u, <1>n, <1>k, <1>x
<1>1. ReaderKnows' /\ NoFalseViolation'
  BY DEF StreamInv, ReaderKnows, NoFalseViolation, AppendPending,
      ProducerReturns, readVars
<1>2. TypeOK'
  <2>1. queued' \subseteq 1..MaxFrames
    BY FrameIs DEF StreamInv, TypeOK
  <2> QED  BY <2>1 DEF StreamInv, TypeOK, AppendPending, ProducerReturns,
     readVars
<1>3. EofIsEmpty'
  BY StreamAssumption, Numbers, FrameIs DEF StreamInv, EofIsEmpty,
      AppendPending, ProducerReturns, readVars
<1>4. ProducerKnows'
  <2>1. sent \in Nat /\ sent \in 1..sent /\ queued \subseteq 1..sent
    BY FrameIs DEF StreamInv, ProducerKnows, TypeOK
  <2>2. queued' \subseteq 1..sent'
    BY <2>1
  <2> QED  BY <2>2 DEF ProducerKnows, Offering
<1>5. BufferedExact'
  BY DEF StreamInv, BufferedExact, Held, AppendPending, ProducerReturns,
      readVars
<1>6. RoomKept'
  BY DEF StreamInv, RoomKept, Held, AppendPending, ProducerReturns, readVars
<1>7. EntriesBounded'
  <2>1. Len(pending) <= pendingEntryLimit /\ Len(dataCh) <= ChanCap
    BY StreamAssumption DEF StreamInv, EntriesBounded, pendingEntryLimit
  <2>2. pendingEntryLimit \in Nat
    BY StreamAssumption DEF pendingEntryLimit
  <2> QED  BY <2>1, <2>2 DEF EntriesBounded
<1>8. OneEOF'
  BY DEF StreamInv, OneEOF, AppendPending, ProducerReturns, readVars
<1>9. CreditKept'
  <2> SUFFICES ASSUME compliant PROVE CreditKept'
    BY DEF CreditKept
  <2>1. credit' >= 0
    BY DEF StreamInv, CreditKept
  <2>2. \A i \in 1..Len(pending') : pending'[i].eof \/ pending'[i].len > 0
    <3>1. pframe.eof \/ pframe.len > 0
      BY DEF StreamInv, CreditKept
    <3>2. \A i \in 1..Len(pending) : pending[i].eof \/ pending[i].len > 0
      BY DEF StreamInv, CreditKept
    <3>3. ASSUME NEW i \in 1..Len(pending')
          PROVE  i \in 1..Len(pending) \/ i = Len(pending) + 1
      BY <1>g
    <3> QED  BY <3>1, <3>2, <3>3
  <2>3. ppc' # "idle" => pframe'.eof \/ pframe'.len > 0
    OBVIOUS
  <2> QED  BY <2>1, <2>2, <2>3 DEF CreditKept
<1>10. ExactlyOnce'
  <2>1. Len(dataCh) \in Nat /\ Len(pending) \in Nat /\ Len(delivered) \in Nat
    BY DEF StreamInv, TypeOK
  <2>2. queued = SeqNums(dataCh) \cup SeqNums(pending) \cup ToSet(delivered)
    BY DEF StreamInv, ExactlyOnce
  <2>3. Cardinality(queued) = Len(dataCh) + Len(pending) + Len(delivered)
    BY DEF StreamInv, ExactlyOnce
  <2>4. queued' =
          SeqNums(dataCh') \cup SeqNums(pending') \cup ToSet(delivered')
    BY <2>2
  <2>5. Cardinality(queued') = Len(dataCh') + Len(pending') + Len(delivered')
    BY <2>1, <2>3
  <2> QED  BY <2>4, <2>5 DEF ExactlyOnce
<1>11. CloseKnows'
  BY DEF StreamInv, CloseKnows, done, AppendPending, ProducerReturns,
      readVars
<1> QED  BY <1>1, <1>2, <1>3, <1>4, <1>5, <1>6, <1>7, <1>8, <1>9, <1>10, <1>11
    DEF StreamInv

\* The overflow list is at its limit: the stream is aborted.
LEMMA SpillRefusedStep ==
    ASSUME StreamInv, ppc \in {"mode", "spill"}, AppendPending,
        ProducerReturns, UNCHANGED <<dataCh, readVars, credit, sent>>,
        ~pframe.eof, Len(pending) >= pendingEntryLimit, UNCHANGED compliant
    PROVE  StreamInv'
<1>n. /\ Bytes(dataCh) \in Nat /\ Bytes(pending) \in Nat /\ hand.len \in Nat
      /\ pframe.len \in Nat /\ rLeft \in Nat /\ buffered \in Int
      /\ credit \in Int /\ Window \in Nat
  BY Numbers, StreamAssumption
<1>a. ~compliant
  <2> SUFFICES ASSUME compliant PROVE FALSE
    OBVIOUS
  <2>1. pending \in Seq(Frame) /\ \A i \in 1..Len(pending) : pending[i] \in
     Frame
    BY DEF StreamInv, TypeOK
  <2>2. \A i \in 1..Len(pending) : pending[i].eof \/ pending[i].len > 0
    BY DEF StreamInv, CreditKept
  <2>3. \A i \in 1..Len(pending) : pending[i].len = 0 => pending[i].eof
    BY <2>1, <2>2, FrameIs
  <2>4. \A i, j \in 1..Len(pending) :
           pending[i].len = 0 /\ pending[j].len = 0 => i = j
    BY <2>3 DEF StreamInv, OneEOF
  <2>5. Len(pending) <= Bytes(pending) + 1
    BY <2>1, <2>4, FewEntries
  <2>6. Bytes(pending) <= Window
    BY <1>n DEF StreamInv, CreditKept, InFlight
  <2>7. Len(pending) \in Nat
    BY <2>1
  <2> QED  BY <2>5, <2>6, <2>7, Numbers, StreamAssumption
         DEF pendingEntryLimit
<1> USE <1>n, <1>a
<1>1. ReaderKnows' /\ EntriesBounded' /\ OneEOF' /\ ExactlyOnce'
  BY DEF StreamInv, ReaderKnows, EntriesBounded, OneEOF, ExactlyOnce,
      AppendPending, ProducerReturns, CloseChannels, done, readVars
<1>2. TypeOK'
  BY DEF StreamInv, TypeOK, AppendPending, ProducerReturns, CloseChannels,
      done, readVars
<1>3. EofIsEmpty'
  BY StreamAssumption, Numbers, FrameIs DEF StreamInv, EofIsEmpty,
      AppendPending, ProducerReturns, CloseChannels, done, readVars
<1>4. ProducerKnows'
  BY DEF StreamInv, ProducerKnows, Offering, AppendPending, ProducerReturns,
      CloseChannels, done, readVars
<1>5. BufferedExact'
  BY DEF StreamInv, BufferedExact, Held, AppendPending, ProducerReturns,
      CloseChannels, done, readVars
<1>6. RoomKept'
  BY DEF StreamInv, RoomKept, Held, AppendPending, ProducerReturns,
      CloseChannels, done, readVars
<1>7. CreditKept'
  BY DEF StreamInv, CreditKept, InFlight, Offering, AppendPending,
      ProducerReturns, CloseChannels, done, readVars
<1>8. NoFalseViolation'
  BY DEF StreamInv, NoFalseViolation, AppendPending, ProducerReturns,
      CloseChannels, done, readVars
<1>9. CloseKnows'
  BY DEF StreamInv, CloseKnows, done, AppendPending, ProducerReturns,
      CloseChannels, readVars
<1> QED  BY <1>1, <1>2, <1>3, <1>4, <1>5, <1>6, <1>7, <1>8, <1>9 DEF StreamInv

\* A data frame joins the overflow list.
LEMMA SpillDataStep ==
    ASSUME StreamInv, ppc \in {"mode", "spill"}, AppendPending,
        ProducerReturns, UNCHANGED <<dataCh, readVars, credit, sent>>,
        ~pframe.eof, Len(pending) < pendingEntryLimit, UNCHANGED compliant
    PROVE  StreamInv'
<1>z. /\ Len(pending) \in Nat /\ pendingEntryLimit \in Nat
      /\ ~(Len(pending) >= pendingEntryLimit)
  BY StreamAssumption DEF StreamInv, TypeOK, pendingEntryLimit
<1>p. pframe \in Frame /\ pframe.seq = sent /\ pframe.seq \notin queued
  BY DEF StreamInv, ProducerKnows, Offering
<1>q. pending \in Seq(Frame) /\ pending' = Append(pending, pframe)
  BY <1>z DEF StreamInv, TypeOK, AppendPending
<1>a. Bytes(pending') = Bytes(pending) + pframe.len
  BY <1>p, <1>q, BytesAppend
<1>b. SeqNums(pending') = SeqNums(pending) \cup {pframe.seq}
  BY <1>p, <1>q, SeqNumsAppend
<1>c. /\ pending' \in Seq(Frame) /\ Len(pending) \in Nat
      /\ Len(pending') = Len(pending) + 1
      /\ pending'[Len(pending) + 1] = pframe
      /\ (\A i \in 1..Len(pending) : pending'[i] = pending[i])
  BY <1>p, <1>q
<1>g. (\A i \in 1..Len(pending') : i \in 1..Len(pending) \/ i = Len(pending) +
    1)
  BY <1>c
<1>u. /\ buffered' = buffered + pframe.len /\ dataCh' = dataCh
      /\ hand' = hand /\ rLeft' = rLeft /\ credit' = credit /\ sent' = sent
      /\ delivered' = delivered /\ ppc' = "idle" /\ pframe' = NoFrame
      /\ how' = how /\ queued' = queued \cup {pframe.seq}
      /\ pendingEOF' = pendingEOF /\ ~pframe.eof
  BY <1>z DEF AppendPending, ProducerReturns, readVars
<1>n. /\ Bytes(dataCh) \in Nat /\ Bytes(pending) \in Nat /\ hand.len \in Nat
      /\ pframe.len \in Nat /\ rLeft \in Nat /\ buffered \in Int
      /\ credit \in Int /\ Window \in Nat
  BY Numbers, StreamAssumption
<1>k. (compliant => credit' + Bytes(dataCh') + Bytes(pending') + hand'.len +
    InFlight' <= Window)
  <2>1. compliant => credit + Bytes(dataCh) + Bytes(pending) + hand.len
                       + InFlight <= Window
    BY DEF StreamInv, CreditKept
  <2>2. InFlight = pframe.len /\ InFlight' = 0
    BY <1>u DEF InFlight, Offering
  <2> QED  BY <2>1, <2>2, <1>n, <1>a, <1>u
<1>x. /\ Cardinality(queued') = Cardinality(queued) + 1
      /\ Cardinality(queued) \in Nat
  <2>1. queued \subseteq 1..MaxFrames /\ IsFiniteSet(1..MaxFrames)
    BY FS_Interval, StreamAssumption DEF StreamInv, TypeOK
  <2>2. IsFiniteSet(queued)
    BY <2>1, FS_Subset
  <2>3. queued' = queued \cup {pframe.seq} /\ pframe.seq \notin queued
    BY <1>p, <1>u
  <2> QED  BY <2>2, <2>3, FS_AddElement, FS_CardinalityType
<1>h. Held' = Held + pframe.len
  BY <1>n, <1>a, <1>u DEF Held
<1>v. buffered = Held
  BY <1>n DEF StreamInv, BufferedExact, Held, PushSend
<1> USE <1>z, <1>p, <1>q, <1>a, <1>b, <1>c, <1>g, <1>u, <1>n, <1>k, <1>x,
   <1>h, <1>v
<1>1. ReaderKnows' /\ NoFalseViolation'
  BY DEF StreamInv, ReaderKnows, NoFalseViolation, AppendPending,
      ProducerReturns, readVars
<1>2. TypeOK'
  <2>1. queued' \subseteq 1..MaxFrames
    BY FrameIs DEF StreamInv, TypeOK
  <2>2. buffered' \in Int
    BY <1>n, <1>u
  <2> QED  BY <2>1, <2>2 DEF StreamInv, TypeOK, ProducerReturns, readVars
<1>3. EofIsEmpty'
  <2>1. \A i \in 1..Len(pending') : pending'[i].eof => pending'[i].len = 0
    <3>1. ASSUME NEW i \in 1..Len(pending')
          PROVE  i \in 1..Len(pending) \/ i = Len(pending) + 1
      BY <1>g
    <3> QED  BY <3>1 DEF StreamInv, EofIsEmpty
  <2> QED  BY <2>1, FrameIs DEF StreamInv, EofIsEmpty
<1>4. ProducerKnows'
  <2>1. sent \in Nat /\ sent \in 1..sent /\ queued \subseteq 1..sent
    BY FrameIs DEF StreamInv, ProducerKnows, TypeOK
  <2>2. queued' \subseteq 1..sent'
    BY <2>1
  <2> QED  BY <2>2 DEF ProducerKnows, Offering
<1>5. BufferedExact'
  BY DEF BufferedExact
<1>6. RoomKept'
  <2>1. buffered + pframe.len <= pendingOverflowLimit
    BY DEF StreamInv, RoomKept
  <2> QED  BY <2>1 DEF RoomKept
<1>7. EntriesBounded'
  <2>1. Len(pending') <= pendingEntryLimit
    OBVIOUS
  <2>2. Len(dataCh') <= ChanCap
    BY DEF StreamInv, EntriesBounded
  <2> QED  BY <2>1, <2>2 DEF EntriesBounded
<1>8. OneEOF'
  <2>1. ASSUME NEW i \in 1..Len(pending'), pending'[i].eof
        PROVE  i \in 1..Len(pending) /\ pending[i].eof
    <3>1. i \in 1..Len(pending) \/ i = Len(pending) + 1
      BY <2>1, <1>g
    <3> QED  BY <2>1, <3>1
  <2> QED  BY <2>1 DEF StreamInv, OneEOF
<1>9. CreditKept'
  <2> SUFFICES ASSUME compliant PROVE CreditKept'
    BY DEF CreditKept
  <2>1. credit' >= 0
    BY DEF StreamInv, CreditKept
  <2>2. \A i \in 1..Len(pending') : pending'[i].eof \/ pending'[i].len > 0
    <3>1. pframe.eof \/ pframe.len > 0
      BY DEF StreamInv, CreditKept
    <3>2. \A i \in 1..Len(pending) : pending[i].eof \/ pending[i].len > 0
      BY DEF StreamInv, CreditKept
    <3>3. ASSUME NEW i \in 1..Len(pending')
          PROVE  i \in 1..Len(pending) \/ i = Len(pending) + 1
      BY <1>g
    <3> QED  BY <3>1, <3>2, <3>3
  <2>3. ppc' # "idle" => pframe'.eof \/ pframe'.len > 0
    OBVIOUS
  <2> QED  BY <2>1, <2>2, <2>3 DEF CreditKept
<1>10. ExactlyOnce'
  <2>1. Len(dataCh) \in Nat /\ Len(pending) \in Nat /\ Len(delivered) \in Nat
    BY DEF StreamInv, TypeOK
  <2>2. queued = SeqNums(dataCh) \cup SeqNums(pending) \cup ToSet(delivered)
    BY DEF StreamInv, ExactlyOnce
  <2>3. Cardinality(queued) = Len(dataCh) + Len(pending) + Len(delivered)
    BY DEF StreamInv, ExactlyOnce
  <2>4. queued' =
          SeqNums(dataCh') \cup SeqNums(pending') \cup ToSet(delivered')
    BY <2>2
  <2>5. Cardinality(queued') = Len(dataCh') + Len(pending') + Len(delivered')
    BY <2>1, <2>3
  <2> QED  BY <2>4, <2>5 DEF ExactlyOnce
<1>11. CloseKnows'
  BY DEF StreamInv, CloseKnows, done, AppendPending, ProducerReturns,
      readVars
<1> QED  BY <1>1, <1>2, <1>3, <1>4, <1>5, <1>6, <1>7, <1>8, <1>9, <1>10, <1>11
    DEF StreamInv

\* The overflow list is empty: the frame may go to the channel.
LEMMA PushModeStep ==
    ASSUME StreamInv, PushMode, pending = <<>>, UNCHANGED compliant
    PROVE  StreamInv'
<1>1. EofIsEmpty' /\ ReaderKnows' /\ EntriesBounded' /\ OneEOF' /\
    NoFalseViolation' /\ ExactlyOnce'
  BY DEF StreamInv, EofIsEmpty, ReaderKnows, EntriesBounded, OneEOF,
      NoFalseViolation, ExactlyOnce, PushMode, readVars
<1>2. TypeOK'
  BY StreamAssumption, Numbers, FrameIs DEF StreamInv, TypeOK, PushMode,
      readVars
<1>3. ProducerKnows'
  <2>1. ppc = "mode" /\ ppc' = "send" /\ UNCHANGED <<pframe, queued, sent>>
    BY DEF PushMode
  <2> QED  BY <2>1 DEF StreamInv, ProducerKnows, Offering
<1>4. BufferedExact'
  BY DEF StreamInv, BufferedExact, Held, PushMode, readVars
<1>5. RoomKept'
  BY DEF StreamInv, RoomKept, Held, PushMode, readVars
<1>6. CreditKept'
  BY DEF StreamInv, CreditKept, InFlight, Offering, PushMode, readVars
<1>7. CloseKnows'
  BY DEF StreamInv, CloseKnows, done, PushMode, readVars
<1> QED  BY <1>1, <1>2, <1>3, <1>4, <1>5, <1>6, <1>7 DEF StreamInv

\* The frame goes to the channel.
LEMMA PushSendStep ==
    ASSUME StreamInv, PushSend, UNCHANGED compliant
    PROVE  StreamInv'
<1>p. pframe \in Frame /\ pframe.seq = sent /\ pframe.seq \notin queued
  BY DEF StreamInv, ProducerKnows, Offering, PushSend
<1>q. dataCh \in Seq(Frame) /\ dataCh' = Append(dataCh, pframe)
  BY DEF StreamInv, TypeOK, PushSend
<1>a. Bytes(dataCh') = Bytes(dataCh) + pframe.len
  BY <1>p, <1>q, BytesAppend
<1>b. SeqNums(dataCh') = SeqNums(dataCh) \cup {pframe.seq}
  BY <1>p, <1>q, SeqNumsAppend
<1>c. /\ dataCh' \in Seq(Frame) /\ Len(dataCh) \in Nat
      /\ Len(dataCh') = Len(dataCh) + 1 /\ dataCh'[Len(dataCh) + 1] = pframe
      /\ (\A i \in 1..Len(dataCh) : dataCh'[i] = dataCh[i])
  BY <1>p, <1>q
<1>g. (\A i \in 1..Len(dataCh') : i \in 1..Len(dataCh) \/ i = Len(dataCh) + 1)
  BY <1>c
<1>u. /\ buffered' = buffered /\ pending' = pending /\ hand' = hand
      /\ rLeft' = rLeft /\ credit' = credit /\ sent' = sent
      /\ delivered' = delivered /\ ppc = "send" /\ ppc' = "account"
      /\ pframe' = pframe /\ queued' = queued \cup {pframe.seq}
  BY DEF PushSend, readVars
<1>n. /\ Bytes(dataCh) \in Nat /\ Bytes(pending) \in Nat /\ hand.len \in Nat
      /\ pframe.len \in Nat /\ rLeft \in Nat /\ buffered \in Int
      /\ credit \in Int /\ Window \in Nat
  BY Numbers, StreamAssumption
<1>k. (compliant => credit' + Bytes(dataCh') + Bytes(pending') + hand'.len +
    InFlight' <= Window)
  <2>1. compliant => credit + Bytes(dataCh) + Bytes(pending) + hand.len
                       + InFlight <= Window
    BY DEF StreamInv, CreditKept
  <2>2. InFlight = pframe.len /\ InFlight' = 0
    BY <1>u DEF InFlight, Offering
  <2> QED  BY <2>1, <2>2, <1>n, <1>a, <1>u
<1>x. /\ Cardinality(queued') = Cardinality(queued) + 1
      /\ Cardinality(queued) \in Nat
  <2>1. queued \subseteq 1..MaxFrames /\ IsFiniteSet(1..MaxFrames)
    BY FS_Interval, StreamAssumption DEF StreamInv, TypeOK
  <2>2. IsFiniteSet(queued)
    BY <2>1, FS_Subset
  <2>3. queued' = queued \cup {pframe.seq} /\ pframe.seq \notin queued
    BY <1>p, <1>u
  <2> QED  BY <2>2, <2>3, FS_AddElement, FS_CardinalityType
<1>h. Held' = Held + pframe.len
  BY <1>n, <1>a, <1>u DEF Held
<1>v. buffered = Held
  BY <1>n DEF StreamInv, BufferedExact, Held, PushSend
<1> USE <1>p, <1>q, <1>a, <1>b, <1>c, <1>g, <1>u, <1>n, <1>k, <1>x, <1>h, <1>v
<1>1. ReaderKnows' /\ OneEOF' /\ NoFalseViolation'
  BY DEF StreamInv, ReaderKnows, OneEOF, NoFalseViolation, PushSend, readVars
<1>2. TypeOK'
  <2>1. queued' \subseteq 1..MaxFrames
    BY FrameIs DEF StreamInv, TypeOK
  <2> QED  BY <2>1 DEF StreamInv, TypeOK, PushSend, readVars
<1>3. EofIsEmpty'
  <2>1. \A i \in 1..Len(dataCh') : dataCh'[i].eof => dataCh'[i].len = 0
    <3>1. ASSUME NEW i \in 1..Len(dataCh')
          PROVE  i \in 1..Len(dataCh) \/ i = Len(dataCh) + 1
      BY <1>g
    <3> QED  BY <3>1 DEF StreamInv, EofIsEmpty
  <2> QED  BY <2>1 DEF StreamInv, EofIsEmpty
<1>4. ProducerKnows'
  <2>1. sent \in Nat /\ sent \in 1..sent /\ queued \subseteq 1..sent
    BY FrameIs DEF StreamInv, ProducerKnows, TypeOK
  <2>2. queued' \subseteq 1..sent'
    BY <2>1
  <2> QED  BY <2>2 DEF ProducerKnows, Offering
<1>5. BufferedExact'
  BY DEF BufferedExact
<1>6. RoomKept'
  <2>1. buffered + pframe.len <= pendingOverflowLimit
    BY DEF StreamInv, RoomKept
  <2> QED  BY <2>1 DEF RoomKept
<1>7. EntriesBounded'
  BY StreamAssumption, Numbers, FrameIs DEF StreamInv, EntriesBounded,
      PushSend, readVars
<1>8. CreditKept'
  <2> SUFFICES ASSUME compliant PROVE CreditKept'
    BY DEF CreditKept
  <2>1. credit' >= 0
    BY DEF StreamInv, CreditKept
  <2>2. \A i \in 1..Len(pending') : pending'[i].eof \/ pending'[i].len > 0
    BY DEF StreamInv, CreditKept
  <2>3. ppc' # "idle" => pframe'.eof \/ pframe'.len > 0
    BY DEF StreamInv, CreditKept
  <2> QED  BY <2>1, <2>2, <2>3 DEF CreditKept
<1>9. ExactlyOnce'
  <2>1. Len(dataCh) \in Nat /\ Len(pending) \in Nat /\ Len(delivered) \in Nat
    BY DEF StreamInv, TypeOK
  <2>2. queued = SeqNums(dataCh) \cup SeqNums(pending) \cup ToSet(delivered)
    BY DEF StreamInv, ExactlyOnce
  <2>3. Cardinality(queued) = Len(dataCh) + Len(pending) + Len(delivered)
    BY DEF StreamInv, ExactlyOnce
  <2>4. queued' =
          SeqNums(dataCh') \cup SeqNums(pending') \cup ToSet(delivered')
    BY <2>2
  <2>5. Cardinality(queued') = Len(dataCh') + Len(pending') + Len(delivered')
    BY <2>1, <2>3
  <2> QED  BY <2>4, <2>5 DEF ExactlyOnce
<1>10. CloseKnows'
  BY DEF StreamInv, CloseKnows, done, PushSend, readVars
<1> QED  BY <1>1, <1>2, <1>3, <1>4, <1>5, <1>6, <1>7, <1>8, <1>9, <1>10 DEF
    StreamInv

\* A closed stream drops the frame.
LEMMA PushDropStep ==
    ASSUME StreamInv, PushDrop, UNCHANGED compliant
    PROVE  StreamInv'
<1>1. ReaderKnows' /\ EntriesBounded' /\ OneEOF' /\ NoFalseViolation' /\
    ExactlyOnce'
  BY DEF StreamInv, ReaderKnows, EntriesBounded, OneEOF, NoFalseViolation,
      ExactlyOnce, PushDrop, ProducerReturns, readVars, queueVars
<1>2. TypeOK'
  BY DEF StreamInv, TypeOK, PushDrop, ProducerReturns, readVars, queueVars
<1>3. EofIsEmpty'
  BY StreamAssumption, Numbers, FrameIs DEF StreamInv, EofIsEmpty, PushDrop,
      ProducerReturns, readVars, queueVars
<1>4. ProducerKnows'
  BY DEF StreamInv, ProducerKnows, Offering, PushDrop, ProducerReturns,
      readVars, queueVars
<1>5. BufferedExact'
  BY DEF StreamInv, BufferedExact, Held, PushDrop, ProducerReturns, readVars,
      queueVars
<1>6. RoomKept'
  BY DEF StreamInv, RoomKept, Held, PushDrop, ProducerReturns, readVars,
      queueVars
<1>7. CreditKept'
  BY StreamAssumption, Numbers, FrameIs DEF StreamInv, CreditKept, InFlight,
      Offering, PushDrop, ProducerReturns, readVars, queueVars
<1>8. CloseKnows'
  BY DEF StreamInv, CloseKnows, done, PushDrop, ProducerReturns, readVars,
      queueVars
<1> QED  BY <1>1, <1>2, <1>3, <1>4, <1>5, <1>6, <1>7, <1>8 DEF StreamInv

\* The channel is full.
LEMMA PushFullStep ==
    ASSUME StreamInv, PushFull, UNCHANGED compliant
    PROVE  StreamInv'
<1>1. EofIsEmpty' /\ ReaderKnows' /\ EntriesBounded' /\ OneEOF' /\
    NoFalseViolation' /\ ExactlyOnce'
  BY DEF StreamInv, EofIsEmpty, ReaderKnows, EntriesBounded, OneEOF,
      NoFalseViolation, ExactlyOnce, PushFull, readVars, queueVars
<1>2. TypeOK'
  BY DEF StreamInv, TypeOK, PushFull, readVars, queueVars
<1>3. ProducerKnows'
  BY DEF StreamInv, ProducerKnows, Offering, PushFull, readVars, queueVars
<1>4. BufferedExact'
  BY DEF StreamInv, BufferedExact, Held, PushFull, readVars, queueVars
<1>5. RoomKept'
  BY DEF StreamInv, RoomKept, Held, PushFull, readVars, queueVars
<1>6. CreditKept'
  BY DEF StreamInv, CreditKept, InFlight, Offering, PushFull, readVars,
      queueVars
<1>7. CloseKnows'
  BY DEF StreamInv, CloseKnows, done, PushFull, readVars, queueVars
<1> QED  BY <1>1, <1>2, <1>3, <1>4, <1>5, <1>6, <1>7 DEF StreamInv

\* The bytes of the frame in the channel are added to buffered.
LEMMA PushAccountStep ==
    ASSUME StreamInv, PushAccount, UNCHANGED compliant
    PROVE  StreamInv'
<1>1. ReaderKnows' /\ EntriesBounded' /\ OneEOF' /\ NoFalseViolation' /\
    ExactlyOnce'
  BY DEF StreamInv, ReaderKnows, EntriesBounded, OneEOF, NoFalseViolation,
      ExactlyOnce, PushAccount, ProducerReturns, readVars, queueVars
<1>2. TypeOK'
  BY DEF StreamInv, TypeOK, PushAccount, ProducerReturns, readVars, queueVars
<1>3. EofIsEmpty'
  BY StreamAssumption, Numbers, FrameIs DEF StreamInv, EofIsEmpty,
      PushAccount, ProducerReturns, readVars, queueVars
<1>4. ProducerKnows'
  BY DEF StreamInv, ProducerKnows, Offering, PushAccount, ProducerReturns,
      readVars, queueVars
<1>5. BufferedExact'
  BY DEF StreamInv, BufferedExact, Held, PushAccount, ProducerReturns,
      readVars, queueVars
<1>6. RoomKept'
  BY DEF StreamInv, RoomKept, Held, PushAccount, ProducerReturns, readVars,
      queueVars
<1>7. CreditKept'
  BY DEF StreamInv, CreditKept, InFlight, Offering, PushAccount,
      ProducerReturns, readVars, queueVars
<1>8. CloseKnows'
  BY DEF StreamInv, CloseKnows, done, PushAccount, ProducerReturns, readVars,
      queueVars
<1> QED  BY <1>1, <1>2, <1>3, <1>4, <1>5, <1>6, <1>7, <1>8 DEF StreamInv

\* The peer closes or rejects the stream.
LEMMA PeerCloseStep ==
    ASSUME StreamInv, PeerClose, UNCHANGED compliant
    PROVE  StreamInv'
<1>1. EofIsEmpty' /\ ProducerKnows' /\ ReaderKnows' /\ BufferedExact' /\
    RoomKept' /\ EntriesBounded' /\ OneEOF' /\ CreditKept' /\ ExactlyOnce'
  BY DEF StreamInv, EofIsEmpty, ProducerKnows, Offering, ReaderKnows,
      BufferedExact, Held, RoomKept, EntriesBounded, OneEOF, CreditKept,
      InFlight, ExactlyOnce, PeerClose, done, readVars, queueVars, prodVars
<1>2. TypeOK'
  BY DEF StreamInv, TypeOK, PeerClose, done, readVars, queueVars, prodVars
<1>3. NoFalseViolation'
  BY DEF StreamInv, NoFalseViolation, PeerClose, done, readVars, queueVars,
      prodVars
<1>4. CloseKnows'
  BY DEF StreamInv, CloseKnows, done, PeerClose, readVars, queueVars,
      prodVars
<1> QED  BY <1>1, <1>2, <1>3, <1>4 DEF StreamInv

\* The stream is aborted or closed on this side.
LEMMA LocalAbortStep ==
    ASSUME StreamInv, LocalAbort, UNCHANGED compliant
    PROVE  StreamInv'
<1>1. EofIsEmpty' /\ ProducerKnows' /\ ReaderKnows' /\ BufferedExact' /\
    RoomKept' /\ EntriesBounded' /\ OneEOF' /\ CreditKept' /\ ExactlyOnce'
  BY DEF StreamInv, EofIsEmpty, ProducerKnows, Offering, ReaderKnows,
      BufferedExact, Held, RoomKept, EntriesBounded, OneEOF, CreditKept,
      InFlight, ExactlyOnce, LocalAbort, CloseChannels, done, readVars,
      queueVars, prodVars
<1>2. TypeOK'
  BY DEF StreamInv, TypeOK, LocalAbort, CloseChannels, done, readVars,
      queueVars, prodVars
<1>3. NoFalseViolation'
  BY DEF StreamInv, NoFalseViolation, LocalAbort, CloseChannels, done,
      readVars, queueVars, prodVars
<1>4. CloseKnows'
  BY DEF StreamInv, CloseKnows, done, LocalAbort, CloseChannels, readVars,
      queueVars, prodVars
<1> QED  BY <1>1, <1>2, <1>3, <1>4 DEF StreamInv

\* Read begins.
LEMMA ReadBeginStep ==
    ASSUME StreamInv, ReadBegin, UNCHANGED compliant
    PROVE  StreamInv'
<1>1. EofIsEmpty' /\ ProducerKnows' /\ BufferedExact' /\ RoomKept' /\
    EntriesBounded' /\ OneEOF' /\ CreditKept' /\ NoFalseViolation' /\
    ExactlyOnce'
  BY DEF StreamInv, EofIsEmpty, ProducerKnows, Offering, BufferedExact, Held,
      RoomKept, EntriesBounded, OneEOF, CreditKept, InFlight,
      NoFalseViolation, ExactlyOnce, ReadBegin, queueVars, prodVars
<1>2. TypeOK'
  BY DEF StreamInv, TypeOK, ReadBegin, queueVars, prodVars
<1>3. ReaderKnows'
  BY StreamAssumption, Numbers, FrameIs DEF StreamInv, ReaderKnows, ReadBegin,
      queueVars, prodVars
<1>4. CloseKnows'
  BY DEF StreamInv, CloseKnows, done, ReadBegin, queueVars, prodVars
<1> QED  BY <1>1, <1>2, <1>3, <1>4 DEF StreamInv

\* Read takes the head of the channel.
LEMMA TakeChanStep ==
    ASSUME StreamInv, rpc \in {"pull", "drain1", "wait"}, dataCh # <<>>,
        Take(Head(dataCh)), dataCh' = Tail(dataCh), UNCHANGED <<pending,
        pendingEOF, buffered, how, prodVars, rLeft, result, credit, queued>>,
        UNCHANGED compliant
    PROVE  StreamInv'
<1>q. /\ dataCh \in Seq(Frame) /\ delivered \in Seq(1..MaxFrames)
      /\ dataCh # <<>> /\ dataCh' = Tail(dataCh) /\ hand' = Head(dataCh)
      /\ delivered' = Append(delivered, Head(dataCh).seq)
  BY DEF StreamInv, TypeOK, Take
<1>p. /\ Head(dataCh) \in Frame /\ Head(dataCh).seq \in 1..MaxFrames
      /\ Head(dataCh).len \in Nat
  BY <1>q, FrameIs
<1>c. /\ dataCh' \in Seq(Frame) /\ Len(dataCh) \in Nat
      /\ Len(dataCh') = Len(dataCh) - 1 /\ Head(dataCh) = dataCh[1]
      /\ (\A i \in 1..Len(dataCh') : i + 1 \in 1..Len(dataCh) /\ dataCh'[i] =
             dataCh[i + 1])
      /\ 1 \in 1..Len(dataCh)
  BY <1>q
<1>a. Bytes(dataCh) = Head(dataCh).len + Bytes(dataCh')
  BY <1>q, BytesTail
<1>f. Bytes(dataCh') \in Nat
  BY <1>c, BytesType
<1>b. SeqNums(dataCh) = {Head(dataCh).seq} \cup SeqNums(dataCh')
  BY <1>q, SeqNumsTail
<1>d. ToSet(delivered') = ToSet(delivered) \cup {Head(dataCh).seq}
  BY <1>q, <1>p, ToSetAppend
<1>e. /\ Len(delivered') = Len(delivered) + 1 /\ Len(delivered) \in Nat
      /\ delivered' \in Seq(1..MaxFrames)
  BY <1>q, <1>p
<1>u. /\ buffered' = buffered /\ pending' = pending /\ rLeft' = rLeft
      /\ rLeft = 0 /\ hand.len = 0 /\ credit' = credit /\ sent' = sent
      /\ ppc' = ppc /\ pframe' = pframe /\ queued' = queued
  BY FrameIs DEF StreamInv, ReaderKnows, prodVars
<1>n. /\ Bytes(dataCh) \in Nat /\ Bytes(pending) \in Nat /\ hand.len \in Nat
      /\ pframe.len \in Nat /\ rLeft \in Nat /\ buffered \in Int
      /\ credit \in Int /\ Window \in Nat
  BY Numbers, StreamAssumption
<1>k. (compliant => credit' + Bytes(dataCh') + Bytes(pending') + hand'.len +
    InFlight' <= Window)
  <2>1. compliant => credit + Bytes(dataCh) + Bytes(pending) + hand.len
                       + InFlight <= Window
    BY DEF StreamInv, CreditKept
  <2>2. InFlight' = InFlight /\ InFlight \in Nat
    BY <1>n, <1>u DEF InFlight
  <2>3. hand'.len + Bytes(dataCh') = Bytes(dataCh) /\ Bytes(pending') =
     Bytes(pending)
    BY <1>a, <1>q, <1>u
  <2>4. hand.len = 0 /\ credit' = credit /\ hand'.len \in Nat
    BY <1>p, <1>q, <1>u
  <2> QED  BY <2>1, <2>2, <2>3, <2>4, <1>n, <1>f, <1>u
<1>h. Held' = Held
  BY <1>n, <1>a, <1>f, <1>p, <1>q, <1>u DEF Held
<1> USE <1>q, <1>p, <1>c, <1>a, <1>f, <1>b, <1>d, <1>e, <1>u, <1>n, <1>k, <1>h
<1>1. ProducerKnows' /\ OneEOF' /\ NoFalseViolation'
  BY DEF StreamInv, ProducerKnows, Offering, OneEOF, NoFalseViolation, Take,
      prodVars
<1>2. TypeOK'
  BY DEF StreamInv, TypeOK, Take, prodVars
<1>3. EofIsEmpty'
  BY DEF StreamInv, EofIsEmpty, Take, prodVars
<1>4. ReaderKnows'
  BY DEF StreamInv, ReaderKnows, Take, prodVars
<1>5. BufferedExact'
  BY DEF StreamInv, BufferedExact
<1>6. RoomKept'
  BY DEF StreamInv, RoomKept
<1>7. EntriesBounded'
  BY StreamAssumption, Numbers, FrameIs DEF StreamInv, EntriesBounded, Take,
      prodVars
<1>8. CreditKept'
  <2> SUFFICES ASSUME compliant PROVE CreditKept'
    BY DEF CreditKept
  <2>1. credit' >= 0
    BY DEF StreamInv, CreditKept
  <2>2. \A i \in 1..Len(pending') : pending'[i].eof \/ pending'[i].len > 0
    BY DEF StreamInv, CreditKept
  <2>3. ppc' # "idle" => pframe'.eof \/ pframe'.len > 0
    BY DEF StreamInv, CreditKept
  <2> QED  BY <2>1, <2>2, <2>3 DEF CreditKept
<1>9. ExactlyOnce'
  <2>1. Len(dataCh) \in Nat /\ Len(pending) \in Nat
    BY DEF StreamInv, TypeOK
  <2>2. queued = SeqNums(dataCh) \cup SeqNums(pending) \cup ToSet(delivered)
    BY DEF StreamInv, ExactlyOnce
  <2>3. Cardinality(queued) = Len(dataCh) + Len(pending) + Len(delivered)
    BY DEF StreamInv, ExactlyOnce
  <2>4. queued' =
          SeqNums(dataCh') \cup SeqNums(pending') \cup ToSet(delivered')
    BY <2>2
  <2>5. Cardinality(queued') = Len(dataCh') + Len(pending') + Len(delivered')
    BY <2>1, <2>3
  <2> QED  BY <2>4, <2>5 DEF ExactlyOnce
<1>10. CloseKnows'
  BY DEF StreamInv, CloseKnows, done, Take, prodVars
<1> QED  BY <1>1, <1>2, <1>3, <1>4, <1>5, <1>6, <1>7, <1>8, <1>9, <1>10 DEF
    StreamInv

\* The channel is empty.
LEMMA ChanEmptyStep ==
    ASSUME StreamInv, PullChan, dataCh = <<>>, UNCHANGED compliant
    PROVE  StreamInv'
<1>1. EofIsEmpty' /\ ProducerKnows' /\ BufferedExact' /\ RoomKept' /\
    EntriesBounded' /\ OneEOF' /\ CreditKept' /\ NoFalseViolation' /\
    ExactlyOnce'
  BY DEF StreamInv, EofIsEmpty, ProducerKnows, Offering, BufferedExact, Held,
      RoomKept, EntriesBounded, OneEOF, CreditKept, InFlight,
      NoFalseViolation, ExactlyOnce, PullChan, prodVars
<1>2. TypeOK'
  BY DEF StreamInv, TypeOK, PullChan, prodVars
<1>3. ReaderKnows'
  BY DEF StreamInv, ReaderKnows, PullChan, prodVars
<1>4. CloseKnows'
  BY DEF StreamInv, CloseKnows, done, PullChan, prodVars
<1> QED  BY <1>1, <1>2, <1>3, <1>4 DEF StreamInv

\* Read takes the head of the overflow list.
LEMMA TakePendingStep ==
    ASSUME StreamInv, PullPending, pending # <<>>, UNCHANGED compliant
    PROVE  StreamInv'
<1>q. /\ pending \in Seq(Frame) /\ delivered \in Seq(1..MaxFrames)
      /\ pending # <<>> /\ pending' = Tail(pending) /\ hand' = Head(pending)
      /\ delivered' = Append(delivered, Head(pending).seq)
  BY DEF StreamInv, TypeOK, Take, PullPending
<1>p. /\ Head(pending) \in Frame /\ Head(pending).seq \in 1..MaxFrames
      /\ Head(pending).len \in Nat
  BY <1>q, FrameIs
<1>c. /\ pending' \in Seq(Frame) /\ Len(pending) \in Nat
      /\ Len(pending') = Len(pending) - 1 /\ Head(pending) = pending[1]
      /\ (\A i \in 1..Len(pending') : i + 1 \in 1..Len(pending) /\ pending'[i]
             = pending[i + 1])
      /\ 1 \in 1..Len(pending)
  BY <1>q
<1>a. Bytes(pending) = Head(pending).len + Bytes(pending')
  BY <1>q, BytesTail
<1>f. Bytes(pending') \in Nat
  BY <1>c, BytesType
<1>b. SeqNums(pending) = {Head(pending).seq} \cup SeqNums(pending')
  BY <1>q, SeqNumsTail
<1>d. ToSet(delivered') = ToSet(delivered) \cup {Head(pending).seq}
  BY <1>q, <1>p, ToSetAppend
<1>e. /\ Len(delivered') = Len(delivered) + 1 /\ Len(delivered) \in Nat
      /\ delivered' \in Seq(1..MaxFrames)
  BY <1>q, <1>p
<1>u. /\ buffered' = buffered /\ dataCh' = dataCh /\ rLeft' = rLeft
      /\ rLeft = 0 /\ hand.len = 0 /\ credit' = credit /\ sent' = sent
      /\ ppc' = ppc /\ pframe' = pframe /\ queued' = queued
      /\ (pendingEOF' = (pendingEOF /\ ~Head(pending).eof))
  BY FrameIs DEF StreamInv, ReaderKnows, prodVars, PullPending
<1>n. /\ Bytes(dataCh) \in Nat /\ Bytes(pending) \in Nat /\ hand.len \in Nat
      /\ pframe.len \in Nat /\ rLeft \in Nat /\ buffered \in Int
      /\ credit \in Int /\ Window \in Nat
  BY Numbers, StreamAssumption
<1>k. (compliant => credit' + Bytes(dataCh') + Bytes(pending') + hand'.len +
    InFlight' <= Window)
  <2>1. compliant => credit + Bytes(dataCh) + Bytes(pending) + hand.len
                       + InFlight <= Window
    BY DEF StreamInv, CreditKept
  <2>2. InFlight' = InFlight /\ InFlight \in Nat
    BY <1>n, <1>u DEF InFlight
  <2>3. hand'.len + Bytes(pending') = Bytes(pending) /\ Bytes(dataCh') =
     Bytes(dataCh)
    BY <1>a, <1>q, <1>u
  <2>4. hand.len = 0 /\ credit' = credit /\ hand'.len \in Nat
    BY <1>p, <1>q, <1>u
  <2> QED  BY <2>1, <2>2, <2>3, <2>4, <1>n, <1>f, <1>u
<1>h. Held' = Held
  BY <1>n, <1>a, <1>f, <1>p, <1>q, <1>u DEF Held
<1> USE <1>q, <1>p, <1>c, <1>a, <1>f, <1>b, <1>d, <1>e, <1>u, <1>n, <1>k, <1>h
<1>1. ProducerKnows' /\ NoFalseViolation'
  BY DEF StreamInv, ProducerKnows, Offering, NoFalseViolation, PullPending,
      Take, prodVars
<1>2. TypeOK'
  BY DEF StreamInv, TypeOK, PullPending, Take, prodVars
<1>3. EofIsEmpty'
  <2>1. \A i \in 1..Len(pending') : pending'[i].eof => pending'[i].len = 0
    BY DEF StreamInv, EofIsEmpty
  <2>2. hand'.eof => hand'.len = 0
    BY DEF StreamInv, EofIsEmpty
  <2> QED  BY <2>1, <2>2 DEF StreamInv, EofIsEmpty
<1>4. ReaderKnows'
  BY DEF StreamInv, ReaderKnows, PullPending, Take, prodVars
<1>5. BufferedExact'
  BY DEF StreamInv, BufferedExact
<1>6. RoomKept'
  BY DEF StreamInv, RoomKept
<1>7. EntriesBounded'
  <2>1. Len(dataCh') <= ChanCap
    BY DEF StreamInv, EntriesBounded
  <2>2. Len(pending) <= pendingEntryLimit + 1 /\ pendingEntryLimit \in Nat
    BY StreamAssumption DEF StreamInv, EntriesBounded, pendingEntryLimit
  <2>3. Len(pending') <= pendingEntryLimit
    BY <2>2
  <2> QED  BY <2>1, <2>2, <2>3 DEF EntriesBounded
<1>8. OneEOF'
  <2>1. \A i, j \in 1..Len(pending) : pending[i].eof /\ pending[j].eof => i =
     j
    BY DEF StreamInv, OneEOF
  <2>2. ASSUME NEW i \in 1..Len(pending'), pending'[i].eof
        PROVE  pendingEOF'
    <3>1. i + 1 \in 1..Len(pending) /\ pending[i + 1].eof /\ i + 1 # 1
      BY <2>2
    <3>2. pendingEOF /\ ~Head(pending).eof
      BY <3>1, <2>1 DEF StreamInv, OneEOF
    <3> QED  BY <3>2
  <2>3. ASSUME NEW i \in 1..Len(pending'), NEW j \in 1..Len(pending'),
               pending'[i].eof, pending'[j].eof
        PROVE  i = j
    <3>1. i + 1 = j + 1
      BY <2>1, <2>3
    <3> QED  BY <3>1
  <2> QED  BY <2>2, <2>3 DEF OneEOF
<1>9. CreditKept'
  <2> SUFFICES ASSUME compliant PROVE CreditKept'
    BY DEF CreditKept
  <2>1. credit' >= 0
    BY DEF StreamInv, CreditKept
  <2>2. \A i \in 1..Len(pending') : pending'[i].eof \/ pending'[i].len > 0
    <3>1. \A i \in 1..Len(pending) : pending[i].eof \/ pending[i].len > 0
      BY DEF StreamInv, CreditKept
    <3> QED  BY <3>1
  <2>3. ppc' # "idle" => pframe'.eof \/ pframe'.len > 0
    BY DEF StreamInv, CreditKept
  <2> QED  BY <2>1, <2>2, <2>3 DEF CreditKept
<1>10. ExactlyOnce'
  <2>1. Len(dataCh) \in Nat /\ Len(pending) \in Nat
    BY DEF StreamInv, TypeOK
  <2>2. queued = SeqNums(dataCh) \cup SeqNums(pending) \cup ToSet(delivered)
    BY DEF StreamInv, ExactlyOnce
  <2>3. Cardinality(queued) = Len(dataCh) + Len(pending) + Len(delivered)
    BY DEF StreamInv, ExactlyOnce
  <2>4. queued' =
          SeqNums(dataCh') \cup SeqNums(pending') \cup ToSet(delivered')
    BY <2>2
  <2>5. Cardinality(queued') = Len(dataCh') + Len(pending') + Len(delivered')
    BY <2>1, <2>3
  <2> QED  BY <2>4, <2>5 DEF ExactlyOnce
<1>11. CloseKnows'
  BY DEF StreamInv, CloseKnows, done, PullPending, Take, prodVars
<1> QED  BY <1>1, <1>2, <1>3, <1>4, <1>5, <1>6, <1>7, <1>8, <1>9, <1>10, <1>11
    DEF StreamInv

\* The overflow list is empty.
LEMMA PendingEmptyStep ==
    ASSUME StreamInv, PullPending, pending = <<>>, UNCHANGED compliant
    PROVE  StreamInv'
<1>1. EofIsEmpty' /\ ProducerKnows' /\ BufferedExact' /\ RoomKept' /\
    EntriesBounded' /\ OneEOF' /\ CreditKept' /\ NoFalseViolation' /\
    ExactlyOnce'
  BY DEF StreamInv, EofIsEmpty, ProducerKnows, Offering, BufferedExact, Held,
      RoomKept, EntriesBounded, OneEOF, CreditKept, InFlight,
      NoFalseViolation, ExactlyOnce, PullPending, prodVars
<1>2. TypeOK'
  BY DEF StreamInv, TypeOK, PullPending, prodVars
<1>3. ReaderKnows'
  BY DEF StreamInv, ReaderKnows, PullPending, prodVars
<1>4. CloseKnows'
  BY DEF StreamInv, CloseKnows, done, PullPending, prodVars
<1> QED  BY <1>1, <1>2, <1>3, <1>4 DEF StreamInv

\* A blocked Read sees the close, and looks again.
LEMMA WaitDoneStep ==
    ASSUME StreamInv, WaitDone, UNCHANGED compliant
    PROVE  StreamInv'
<1>1. EofIsEmpty' /\ ProducerKnows' /\ BufferedExact' /\ RoomKept' /\
    EntriesBounded' /\ OneEOF' /\ CreditKept' /\ NoFalseViolation' /\
    ExactlyOnce'
  BY DEF StreamInv, EofIsEmpty, ProducerKnows, Offering, BufferedExact, Held,
      RoomKept, EntriesBounded, OneEOF, CreditKept, InFlight,
      NoFalseViolation, ExactlyOnce, WaitDone, done, queueVars, prodVars
<1>2. TypeOK'
  BY DEF StreamInv, TypeOK, WaitDone, done, queueVars, prodVars
<1>3. ReaderKnows'
  BY DEF StreamInv, ReaderKnows, WaitDone, done, queueVars, prodVars
<1>4. CloseKnows'
  BY DEF StreamInv, CloseKnows, done, WaitDone, queueVars, prodVars
<1> QED  BY <1>1, <1>2, <1>3, <1>4 DEF StreamInv

\* Read unpacks the frame it took.
LEMMA ReadGotStep ==
    ASSUME StreamInv, ReadGot, UNCHANGED compliant
    PROVE  StreamInv'
<1>a. /\ hand \in Frame /\ hand.len \in 0..MaxFrame /\ hand.eof \in BOOLEAN
      /\ (hand.eof => hand.len = 0) /\ rLeft = 0
  BY FrameIs, StreamAssumption DEF ReadGot, StreamInv, ReaderKnows, EofIsEmpty
<1> USE <1>a
<1>1. ProducerKnows' /\ EntriesBounded' /\ OneEOF' /\ NoFalseViolation' /\
    ExactlyOnce'
  BY DEF StreamInv, ProducerKnows, Offering, EntriesBounded, OneEOF,
      NoFalseViolation, ExactlyOnce, ReadGot, queueVars, prodVars
<1>2. TypeOK'
  BY DEF StreamInv, TypeOK, ReadGot, queueVars, prodVars
<1>3. EofIsEmpty'
  BY StreamAssumption, Numbers, FrameIs DEF StreamInv, EofIsEmpty, ReadGot,
      queueVars, prodVars
<1>4. ReaderKnows'
  BY DEF StreamInv, ReaderKnows, ReadGot, queueVars, prodVars
<1>5. BufferedExact'
  BY StreamAssumption, Numbers, FrameIs DEF StreamInv, BufferedExact, Held,
      ReadGot, queueVars, prodVars
<1>6. RoomKept'
  BY StreamAssumption, Numbers, FrameIs DEF StreamInv, RoomKept, Held,
      ReadGot, queueVars, prodVars
<1>7. CreditKept'
  BY StreamAssumption, Numbers, FrameIs DEF StreamInv, CreditKept, InFlight,
      Offering, ReadGot, queueVars, prodVars
<1>8. CloseKnows'
  BY DEF StreamInv, CloseKnows, done, ReadGot, queueVars, prodVars
<1> QED  BY <1>1, <1>2, <1>3, <1>4, <1>5, <1>6, <1>7, <1>8 DEF StreamInv

\* Read copies bytes to its caller.
LEMMA ReadCopyStep ==
    ASSUME StreamInv, ReadCopy, UNCHANGED compliant
    PROVE  StreamInv'
<1>a. \E n \in 1..rLeft : rLeft' = rLeft - n /\ buffered' = buffered - n
  BY DEF ReadCopy
<1>b. /\ rLeft' \in Nat /\ rLeft' <= rLeft /\ buffered' \in Int
      /\ buffered' - rLeft' = buffered - rLeft
  BY <1>a, Numbers
<1> USE <1>a, <1>b
<1>1. EofIsEmpty' /\ ProducerKnows' /\ EntriesBounded' /\ OneEOF' /\
    CreditKept' /\ NoFalseViolation' /\ ExactlyOnce'
  BY DEF StreamInv, EofIsEmpty, ProducerKnows, Offering, EntriesBounded,
      OneEOF, CreditKept, InFlight, NoFalseViolation, ExactlyOnce, ReadCopy,
      queueVars, prodVars
<1>2. TypeOK'
  BY StreamAssumption, Numbers, FrameIs DEF StreamInv, TypeOK, ReadCopy,
      queueVars, prodVars
<1>3. ReaderKnows'
  BY DEF StreamInv, ReaderKnows, ReadCopy, queueVars, prodVars
<1>4. BufferedExact'
  BY StreamAssumption, Numbers, FrameIs DEF StreamInv, BufferedExact, Held,
      ReadCopy, queueVars, prodVars
<1>5. RoomKept'
  <2>1. UNCHANGED <<dataCh, pending, hand, ppc, pframe>>
    BY DEF ReadCopy, queueVars, prodVars
  <2>2. pendingOverflowLimit \in Nat
    BY StreamAssumption DEF pendingOverflowLimit
  <2>3. Held' <= Held /\ Held \in Nat /\ Held' \in Nat
    BY <2>1, Numbers DEF Held
  <2>4. Held' <= pendingOverflowLimit
    BY <2>2, <2>3 DEF StreamInv, RoomKept
  <2>5. buffered' <= buffered
    BY Numbers
  <2>6. ppc' \in {"mode", "send", "spill"} =>
          buffered' + pframe'.len <= pendingOverflowLimit
    BY <2>1, <2>2, <2>5, Numbers DEF StreamInv, RoomKept
  <2> QED  BY <2>4, <2>6 DEF RoomKept
<1>6. CloseKnows'
  BY DEF StreamInv, CloseKnows, done, ReadCopy, queueVars, prodVars
<1> QED  BY <1>1, <1>2, <1>3, <1>4, <1>5, <1>6 DEF StreamInv

-----------------------------------------------------------------------------
(* The theorems.                                                            *)

\* A new stream satisfies the invariant.
LEMMA StreamInit == Init => StreamInv
<1> SUFFICES ASSUME Init PROVE StreamInv
  OBVIOUS
<1>1. TypeOK
  <2>1. dataCh \in Seq(Frame) /\ pending \in Seq(Frame)
    BY DEF Init
  <2>2. delivered \in Seq(1..MaxFrames) /\ queued \subseteq 1..MaxFrames
    BY DEF Init
  <2>3. rLeft \in 0..MaxFrame /\ sent \in 0..MaxFrames /\ credit \in Int
    BY StreamAssumption DEF Init
  <2>4. compliant \in BOOLEAN /\ pendingEOF \in BOOLEAN
    BY DEF Init
  <2>5. buffered \in Int
    BY DEF Init
  <2>6. pframe \in Frame \cup {NoFrame} /\ hand \in Frame \cup {NoFrame}
    BY DEF Init
  <2>7. how = "open" /\ ppc = "idle" /\ rpc = "idle" /\ result = "none"
    BY DEF Init
  <2> QED  BY <2>1, <2>2, <2>3, <2>4, <2>5, <2>6, <2>7 DEF TypeOK
<1>2. EofIsEmpty /\ ProducerKnows /\ ReaderKnows /\ OneEOF
  BY FrameIs DEF Init, EofIsEmpty, ProducerKnows, ReaderKnows, OneEOF,
     Offering
<1>3. Bytes(dataCh) = 0 /\ Bytes(pending) = 0 /\ hand.len = 0 /\ rLeft = 0
  BY BytesEmpty, FrameIs DEF Init
<1>4. Held = 0 /\ InFlight = 0
  BY <1>3 DEF Held, InFlight, Offering, Init
<1>5. BufferedExact /\ RoomKept
  BY <1>4, StreamAssumption
     DEF Init, BufferedExact, RoomKept, pendingOverflowLimit
<1>6. Len(pending) = 0 /\ Len(dataCh) = 0 /\ Len(delivered) = 0
  BY DEF Init
<1>7. EntriesBounded
  BY <1>6, StreamAssumption DEF EntriesBounded, pendingEntryLimit, Init
<1>8. CreditKept
  <2>1. credit = Window /\ ppc = "idle"
    BY DEF Init
  <2> QED  BY <2>1, <1>3, <1>4, <1>6, StreamAssumption DEF CreditKept
<1>9. NoFalseViolation /\ CloseKnows
  BY DEF Init, NoFalseViolation, CloseKnows, done
<1>10. ExactlyOnce
  <2>1. SeqNums(dataCh) = {} /\ SeqNums(pending) = {} /\ ToSet(delivered) = {}
    BY DEF Init, SeqNums, ToSet
  <2>2. queued = {} /\ Cardinality(queued) = 0
    BY FS_EmptySet DEF Init
  <2> QED  BY <2>1, <2>2, <1>6 DEF ExactlyOnce
<1> QED  BY <1>1, <1>2, <1>5, <1>7, <1>8, <1>9, <1>10 DEF StreamInv

\* Every way a frame can meet the overflow list keeps the invariant.
LEMMA SpillStep ==
    ASSUME StreamInv, ppc \in {"mode", "spill"}, AppendPending,
           ProducerReturns, UNCHANGED <<dataCh, readVars, credit, sent>>,
           UNCHANGED compliant
    PROVE  StreamInv'
<1>1. Len(pending) \in Nat /\ pendingEntryLimit \in Nat
  BY StreamAssumption DEF StreamInv, TypeOK, pendingEntryLimit
<1>2. Len(pending) >= pendingEntryLimit \/ Len(pending) < pendingEntryLimit
  BY <1>1
<1> QED  BY <1>2, SpillDupStep, SpillEofStep, SpillRefusedStep, SpillDataStep

\* Every step of the two goroutines and of the peer keeps the invariant.
LEMMA StreamStep == StreamInv /\ [Next]_vars => StreamInv'
<1> SUFFICES ASSUME StreamInv, [Next]_vars PROVE StreamInv'
  OBVIOUS
<1>1. CASE UNCHANGED vars
  <2>1. TypeOK' /\ EofIsEmpty' /\ ProducerKnows' /\ ReaderKnows'
    BY <1>1 DEF vars, StreamInv, TypeOK, EofIsEmpty, ProducerKnows,
       ReaderKnows, Offering
  <2>2. BufferedExact' /\ RoomKept' /\ EntriesBounded' /\ OneEOF'
    BY <1>1 DEF vars, StreamInv, BufferedExact, RoomKept, EntriesBounded,
       OneEOF, Held
  <2>3. CreditKept' /\ NoFalseViolation'
    BY <1>1 DEF vars, StreamInv, CreditKept, NoFalseViolation, InFlight,
       Offering
  <2>4. ExactlyOnce' /\ CloseKnows'
    BY <1>1 DEF vars, StreamInv, ExactlyOnce, CloseKnows, done
  <2> QED  BY <2>1, <2>2, <2>3, <2>4 DEF StreamInv
<1>2. CASE Producer
  <2>1. UNCHANGED compliant
    BY <1>2 DEF Producer
  <2>2. CASE PushGate
    BY <2>1, <2>2, GateShutStep, GateOpenStep
  <2>3. CASE PushMode
    <3>1. CASE pending = <<>>
      BY <2>1, <2>3, <3>1, PushModeStep
    <3>2. CASE pending # <<>>
      BY <2>1, <2>3, <3>2, SpillStep DEF PushMode
    <3> QED  BY <3>1, <3>2
  <2>4. CASE PushSend \/ PushDrop \/ PushFull \/ PushAccount
    BY <2>1, <2>4, PushSendStep, PushDropStep, PushFullStep, PushAccountStep
  <2>5. CASE PushSpill
    BY <2>1, <2>5, SpillStep DEF PushSpill
  <2> QED  BY <1>2, <2>2, <2>3, <2>4, <2>5 DEF Producer
<1>3. CASE Reader
  <2>1. UNCHANGED compliant
    BY <1>3 DEF Reader
  <2>2. CASE PullChan
    <3>1. CASE dataCh = <<>>
      BY <2>1, <2>2, <3>1, ChanEmptyStep
    <3>2. CASE dataCh # <<>>
      BY <2>1, <2>2, <3>2, TakeChanStep DEF PullChan
    <3> QED  BY <3>1, <3>2
  <2>3. CASE PullPending
    BY <2>1, <2>3, TakePendingStep, PendingEmptyStep
  <2>4. CASE WaitData
    BY <2>1, <2>4, TakeChanStep DEF WaitData
  <2>5. CASE WaitDone \/ ReadGot \/ ReadCopy
    BY <2>1, <2>5, WaitDoneStep, ReadGotStep, ReadCopyStep
  <2> QED  BY <1>3, <2>2, <2>3, <2>4, <2>5 DEF Reader
<1>4. CASE Environment
  BY <1>4, PushBeginStep, PeerCloseStep, LocalAbortStep, ReadBeginStep
     DEF Environment
<1> QED  BY <1>1, <1>2, <1>3, <1>4 DEF Next

\* The inductive invariant holds in every reachable state of a stream.
THEOREM StreamInvariant == Spec => []StreamInv
BY StreamInit, StreamStep, PTL DEF Spec

\* The receive half of a stream is well typed: queues of frames, numbered
\* places in pushFrame and in Read, and rBuf never longer than a frame.
THEOREM StreamTypes == Spec => []TypeOK
<1>1. StreamInv => TypeOK
  BY DEF StreamInv
<1> QED  BY <1>1, StreamInvariant, PTL

\* Whatever the peer sends and however pushFrame and Read interleave, the
\* counter buffered is exact and the stream holds at most
\* pendingOverflowLimit bytes, pendingEntryLimit + 1 overflow entries and a
\* channel of frames, for every window, frame size and channel capacity.
THEOREM MemoryStaysBounded == Spec => []MemoryBounded
<1>1. StreamInv => MemoryBounded
  <2> SUFFICES ASSUME StreamInv PROVE MemoryBounded
    OBVIOUS
  <2>1. BufferedExact /\ Held <= pendingOverflowLimit
    BY DEF StreamInv, RoomKept
  <2>2. Len(pending) \in Nat /\ pendingEntryLimit \in Nat
    BY StreamAssumption DEF StreamInv, TypeOK, pendingEntryLimit
  <2>3. Len(pending) <= pendingEntryLimit + 1
    BY <2>2 DEF StreamInv, EntriesBounded
  <2>4. Len(dataCh) <= ChanCap
    BY DEF StreamInv, EntriesBounded
  <2> QED  BY <2>1, <2>3, <2>4 DEF MemoryBounded
<1> QED  BY <1>1, StreamInvariant, PTL

\* The limits of pushFrame never abort a peer that respects its credit,
\* whatever the window and the frame size (stream.go:18-22).
THEOREM CompliantIsSafe == Spec => []NoFalseViolation
<1>1. StreamInv => NoFalseViolation
  BY DEF StreamInv
<1> QED  BY <1>1, StreamInvariant, PTL

\* Every frame pushFrame accepted is in the channel, in the overflow list or
\* taken by Read, and in one of them only: none is lost or read twice.
THEOREM FramesExactlyOnce == Spec => []ExactlyOnce
<1>1. StreamInv => ExactlyOnce
  BY DEF StreamInv
<1> QED  BY <1>1, StreamInvariant, PTL

\* Read reports the peer's close only after every accepted frame was read:
\* the second tryPull of waitForData misses nothing.
THEOREM ClosesAfterDrain == Spec => []ClosedAfterDrain
<1>1. StreamInv => ClosedAfterDrain
  <2> SUFFICES ASSUME StreamInv, result = "closed", how = "peer"
               PROVE  queued = ToSet(delivered)
    BY DEF ClosedAfterDrain
  <2>1. dataCh = <<>> /\ pending = <<>>
    BY DEF StreamInv, CloseKnows
  <2>2. SeqNums(dataCh) = {} /\ SeqNums(pending) = {}
    BY <2>1 DEF SeqNums
  <2> QED  BY <2>2 DEF StreamInv, ExactlyOnce
<1> QED  BY <1>1, StreamInvariant, PTL
=============================================================================

--------------------------- MODULE MuxFlow_proofs ---------------------------
(***************************************************************************)
(* Proofs about the flow control of a mux stream, for every window, frame  *)
(* size and capacity: the contract MuxCredit keeps its promises, both ends *)
(* of a stream as MuxFlow has them implement the contract, and frames      *)
(* arrive in order while no Send fails.                                    *)
(***************************************************************************)
EXTENDS MuxFlow, FiniteSetTheorems, FunctionTheorems, TLAPS

\* Bytes handed to writeLoop and not yet taken off the window.
Debited == IF wpc = "debit" THEN wlen ELSE 0

\* Where the bytes of the window are.
Flight == Bytes(chA) + Bytes(wireAB) + RBytes(retrans)
Owed == pendingCredit + Sum(chB) + Sum(wireBA)
Account == window - Debited + Flight + Bytes(recvQ) + Owed

\* A data frame has at least one byte and fits; a marker carries none.
Sized(f) == IF f.kind = "data" THEN f.len \in 1..MaxFrame ELSE f.len = 0
SizedFrame == {f \in Frame : Sized(f)}
SizedEntry == [frame : SizedFrame, retries : 0..maxRetries - 1]
AllSized ==
    /\ chA \in Seq(SizedFrame) /\ wireAB \in Seq(SizedFrame)
    /\ recvQ \in Seq(SizedFrame) /\ retrans \in Seq(SizedEntry)
    /\ rLeft <= MaxFrame

\* A Write that has settled on a length has the window for it, since only
\* Write lowers the window.
WriterKnows ==
    /\ window >= 0
    /\ wpc \in {"enqueue", "debit"} =>
          wlen \in 1..MaxFrame /\ wlen <= window
    /\ ended # "no" => wpc = "idle"

\* The account is exact while the stream lives; after that it may lose
\* bytes, and only a mux that is about to close may send a frame twice.
Balanced ==
    /\ Healthy => Account = Window
    /\ ~closing => Account <= Window

\* Without a failing Send nothing is retransmitted and no mux closes.
NothingFailed ==
    fails = 0 => retrans = <<>> /\ ~closing /\ ~closedA /\ ~closedB

\* What belongs at place k of all that A has sent, when w frames are written
\* and the end e was requested: the frames in their order, then the end.
Belongs(w, k, seq) == IF k <= w THEN seq = k ELSE k = w + 1 /\ seq = 0
InPlace(w, e, k, f) ==
    /\ Belongs(w, k, f.seq)
    /\ f.kind = IF k <= w THEN "data" ELSE e

\* What arrived, what is on the wire and what is in writeCh are all that A
\* has sent; or the close has arrived, after all data.
Underway(w, e, arr, wire, ch) ==
    /\ \A i \in 1..Len(arr) : Belongs(w, i, arr[i])
    /\ \A i \in 1..Len(wire) : InPlace(w, e, Len(arr) + i, wire[i])
    /\ \A i \in 1..Len(ch) : InPlace(w, e, Len(arr) + Len(wire) + i, ch[i])
    /\ Len(arr) + Len(wire) + Len(ch) = IF e = "no" THEN w ELSE w + 1
Over(w, e, arr) ==
    /\ \A i \in 1..Len(arr) : Belongs(w, i, arr[i])
    /\ Len(arr) = w /\ e = "close"
Ordered ==
    fails = 0 => IF streamB
                 THEN Underway(written, ended, arrived, wireAB, chA)
                 ELSE Over(written, ended, arrived)

FlowInv ==
    /\ TypeOK /\ AllSized /\ WriterKnows /\ Balanced /\ ~violated
    /\ NothingFailed /\ Ordered
-----------------------------------------------------------------------------
(* Sums, as the number of their units.                                      *)

Row(f, h) == {h} \X (1..f[h])

\* The units of one place.
LEMMA RowCount ==
    ASSUME NEW n, NEW k \in Nat
    PROVE  /\ IsFiniteSet({n} \X (1..k))
           /\ Cardinality({n} \X (1..k)) = k
<1>1. IsFiniteSet({n}) /\ Cardinality({n}) = 1
  BY FS_Singleton
<1>2. IsFiniteSet(1..k) /\ Cardinality(1..k) = k
  BY FS_Interval
<1>3. /\ IsFiniteSet({n} \X (1..k))
      /\ Cardinality({n} \X (1..k)) = Cardinality({n}) * Cardinality(1..k)
  BY <1>1, <1>2, FS_Product
<1> QED  BY <1>1, <1>2, <1>3

\* What a unit is.
LEMMA UnitsMember ==
    ASSUME NEW D, NEW f \in [D -> Nat]
    PROVE  \A u : u \in Units(f) <=>
                 \E h \in D : \E i \in 1..f[h] : u = <<h, i>>
BY DEF Units

\* The units of a sum can be counted.
LEMMA SumType ==
    ASSUME NEW D, IsFiniteSet(D), NEW f \in [D -> Nat]
    PROVE  IsFiniteSet(Units(f)) /\ Sum(f) \in Nat
<1> DEFINE rows == {Row(f, h) : h \in D}
           lay == [h \in D |-> Row(f, h)]
<1>1. lay \in Surjection(D, rows)
  BY DEF Surjection
<1>2. IsFiniteSet(rows)
  BY <1>1, FS_Surjection
<1>3. ASSUME NEW R \in rows PROVE IsFiniteSet(R)
  <2>1. PICK h \in D : R = Row(f, h)
    OBVIOUS
  <2>2. f[h] \in Nat
    OBVIOUS
  <2> QED  BY <2>1, <2>2, RowCount DEF Row
<1>4. IsFiniteSet(UNION rows)
  BY <1>2, <1>3, FS_UNION
<1>5. Units(f) = UNION rows
  BY DEF Units, Row
<1>6. IsFiniteSet(Units(f))
  BY <1>4, <1>5
<1> QED  BY <1>6, FS_CardinalityType DEF Sum

\* h takes every place of f to one of g that holds as much.
Moves(D, E, f, g, h) ==
    /\ IsFiniteSet(D) /\ f \in [D -> Nat]
    /\ g \in [E -> Nat] /\ h \in [D -> E]
    /\ \A d, e \in D : h[d] = h[e] => d = e
    /\ \A e \in E : \E d \in D : h[d] = e
    /\ \A d \in D : g[h[d]] = f[d]

\* A sum does not depend on the order of its places.
LEMMA SumMoved ==
    ASSUME NEW D, NEW E, NEW f, NEW g, NEW h, Moves(D, E, f, g, h)
    PROVE  Sum(g) = Sum(f)
<1> USE DEF Moves
<1> DEFINE move == [u \in Units(f) |-> <<h[u[1]], u[2]>>]
<1>0. \A d \in D : h[d] \in E
  OBVIOUS
<1>1. ASSUME NEW u \in Units(f) PROVE move[u] \in Units(g)
  <2>1. PICK d \in D : \E i \in 1..f[d] : u = <<d, i>>
    BY UnitsMember
  <2>2. PICK i \in 1..f[d] : u = <<d, i>>
    BY <2>1
  <2>3. move[u] = <<h[d], i>> /\ i \in 1..g[h[d]]
    BY <2>2
  <2> QED  BY <2>3, <1>0, UnitsMember
<1>2. ASSUME NEW u \in Units(f), NEW v \in Units(f), move[u] = move[v]
      PROVE  u = v
  <2>1. PICK d \in D : \E i \in 1..f[d] : u = <<d, i>>
    BY UnitsMember
  <2>2. PICK e \in D : \E i \in 1..f[e] : v = <<e, i>>
    BY UnitsMember
  <2>3. h[u[1]] = h[v[1]] /\ u[2] = v[2]
    BY <1>2
  <2>4. u[1] = d /\ v[1] = e
    BY <2>1, <2>2
  <2>5. d = e
    BY <2>3, <2>4, <1>0
  <2> QED  BY <2>1, <2>2, <2>3, <2>5
<1>3. ASSUME NEW v \in Units(g) PROVE \E u \in Units(f) : move[u] = v
  <2>1. PICK e \in E : \E i \in 1..g[e] : v = <<e, i>>
    BY UnitsMember
  <2>2. PICK i \in 1..g[e] : v = <<e, i>>
    BY <2>1
  <2>3. PICK d \in D : h[d] = e
    BY <1>0
  <2>4. <<d, i>> \in Units(f)
    BY <2>2, <2>3, UnitsMember
  <2>5. move[<<d, i>>] = v
    BY <2>2, <2>3, <2>4
  <2> QED  BY <2>4, <2>5
<1>4. move \in [Units(f) -> Units(g)]
  BY <1>1
<1> HIDE DEF move
<1>5. move \in Bijection(Units(f), Units(g))
  BY <1>2, <1>3, <1>4, Fun_IsBij
<1>6. IsFiniteSet(Units(f))
  BY SumType
<1> QED  BY <1>5, <1>6, FS_Bijection DEF ExistsBijection, Sum

\* A sum is the sum over some places and the sum over the others.
LEMMA SumParts ==
    ASSUME NEW D, IsFiniteSet(D), NEW f \in [D -> Nat], NEW S \in SUBSET D
    PROVE  Sum(f) = Sum([d \in S |-> f[d]]) + Sum([d \in D \ S |-> f[d]])
<1> DEFINE a == [d \in S |-> f[d]]
           b == [d \in D \ S |-> f[d]]
<1>1. /\ a \in [S -> Nat] /\ b \in [D \ S -> Nat]
      /\ \A d \in S : a[d] = f[d]
      /\ \A d \in D \ S : b[d] = f[d]
  OBVIOUS
<1>2. IsFiniteSet(S) /\ IsFiniteSet(D \ S)
  BY FS_Subset
<1> HIDE DEF a, b
<1>3. Units(f) = Units(a) \cup Units(b)
  <2>1. ASSUME NEW u \in Units(f) PROVE u \in Units(a) \cup Units(b)
    <3>1. PICK d \in D : \E i \in 1..f[d] : u = <<d, i>>
      BY UnitsMember
    <3>2. CASE d \in S
      BY <3>1, <3>2, <1>1, UnitsMember
    <3>3. CASE d \notin S
      BY <3>1, <3>3, <1>1, UnitsMember
    <3> QED  BY <3>2, <3>3
  <2>2. ASSUME NEW u \in Units(a) PROVE u \in Units(f)
    <3>1. PICK d \in S : \E i \in 1..a[d] : u = <<d, i>>
      BY <1>1, UnitsMember
    <3> QED  BY <3>1, <1>1, UnitsMember
  <2>3. ASSUME NEW u \in Units(b) PROVE u \in Units(f)
    <3>1. PICK d \in D \ S : \E i \in 1..b[d] : u = <<d, i>>
      BY <1>1, UnitsMember
    <3> QED  BY <3>1, <1>1, UnitsMember
  <2> QED  BY <2>1, <2>2, <2>3
<1>4. Units(a) \cap Units(b) = {}
  <2> SUFFICES ASSUME NEW u \in Units(a), u \in Units(b) PROVE FALSE
    OBVIOUS
  <2>1. PICK d \in S : \E i \in 1..a[d] : u = <<d, i>>
    BY <1>1, UnitsMember
  <2>2. PICK e \in D \ S : \E i \in 1..b[e] : u = <<e, i>>
    BY <1>1, UnitsMember
  <2> QED  BY <2>1, <2>2
<1>5. /\ IsFiniteSet(Units(a)) /\ Sum(a) \in Nat
      /\ IsFiniteSet(Units(b)) /\ Sum(b) \in Nat
  BY <1>1, <1>2, SumType
<1>6. Cardinality(Units(a) \cup Units(b)) =
          Cardinality(Units(a)) + Cardinality(Units(b)) - Cardinality({})
  BY <1>4, <1>5, FS_Union
<1>7. Cardinality({}) = 0
  BY FS_EmptySet
<1>8. Sum(f) = Sum(a) + Sum(b)
  BY <1>3, <1>5, <1>6, <1>7 DEF Sum
<1> QED  BY <1>8 DEF a, b

\* A sum over nothing.
LEMMA SumEmpty == ASSUME NEW f \in [{} -> Nat] PROVE Sum(f) = 0
<1>1. Units(f) = {}
  BY UnitsMember
<1> QED  BY <1>1, FS_EmptySet DEF Sum

\* Sequences of numbers, as functions.
LEMMA SeqFun ==
    ASSUME NEW s \in Seq(Nat)
    PROVE  /\ Len(s) \in Nat /\ s \in [1..Len(s) -> Nat]
           /\ IsFiniteSet(1..Len(s)) /\ Sum(s) \in Nat
<1>1. Len(s) \in Nat /\ s \in [1..Len(s) -> Nat]
  OBVIOUS
<1>2. IsFiniteSet(1..Len(s))
  BY <1>1, FS_Interval
<1> QED  BY <1>1, <1>2, SumType

\* f is r at the places A of D, and g is r at the others, under names E.
Splits(D, A, E, r, f, g, up) ==
    /\ IsFiniteSet(D) /\ r \in [D -> Nat]
    /\ A \in SUBSET D /\ f \in [A -> Nat]
    /\ IsFiniteSet(E) /\ g \in [E -> Nat] /\ up \in [E -> D \ A]
    /\ \A i, j \in E : up[i] = up[j] => i = j
    /\ \A d \in D \ A : \E i \in E : up[i] = d
    /\ \A i \in A : r[i] = f[i]
    /\ \A i \in E : r[up[i]] = g[i]

\* A sum over some places, and over the others under other names.
LEMMA SumSplit ==
    ASSUME NEW D, NEW A, NEW E, NEW r, NEW f, NEW g, NEW up,
           Splits(D, A, E, r, f, g, up)
    PROVE  Sum(r) = Sum(f) + Sum(g)
<1> USE DEF Splits, Moves
<1> DEFINE b == [d \in D \ A |-> r[d]]
<1>1. [d \in A |-> r[d]] = f
  OBVIOUS
<1>2. b \in [D \ A -> Nat] /\ \A i \in E : b[up[i]] = g[i]
  OBVIOUS
<1>3. Sum(r) = Sum([d \in A |-> r[d]]) + Sum(b)
  BY SumParts
<1> HIDE DEF b
<1>4. Sum(b) = Sum(g)
  <2>1. Moves(E, D \ A, g, b, up)
    BY <1>2
  <2> QED  BY <2>1, SumMoved
<1> QED  BY <1>1, <1>3, <1>4

\* A longer sequence of numbers, when the last ones move to its end.
LEMMA SumJoin ==
    ASSUME NEW m \in Nat, NEW n \in Nat, NEW f \in [1..m -> Nat],
           NEW g \in [1..n -> Nat], NEW r \in [1..(m + n) -> Nat],
           \A i \in 1..m : r[i] = f[i],
           \A i \in 1..n : r[m + i] = g[i]
    PROVE  Sum(r) = Sum(f) + Sum(g)
<1> DEFINE D == 1..(m + n)
           A == 1..m
           E == 1..n
           up == [i \in E |-> m + i]
<1>1. IsFiniteSet(D) /\ IsFiniteSet(E) /\ A \in SUBSET D
  BY FS_Interval
<1>2. D \ A = (m + 1)..(m + n)
  OBVIOUS
<1>3. up \in [E -> D \ A]
  <2>1. up \in [E -> (m + 1)..(m + n)]
    OBVIOUS
  <2> QED  BY <1>2, <2>1
<1>4. \A i, j \in E : up[i] = up[j] => i = j
  OBVIOUS
<1>5. \A d \in D \ A : \E i \in E : up[i] = d
  <2> SUFFICES ASSUME NEW d \in (m + 1)..(m + n)
               PROVE  \E i \in 1..n : up[i] = d
    BY <1>2
  <2>1. d - m \in 1..n /\ up[d - m] = d
    OBVIOUS
  <2> QED  BY <2>1
<1>6. \A i \in E : r[up[i]] = g[i]
  OBVIOUS
<1>7. /\ r \in [D -> Nat] /\ f \in [A -> Nat] /\ g \in [E -> Nat]
      /\ \A i \in A : r[i] = f[i]
  OBVIOUS
<1> HIDE DEF D, A, E, up
<1> USE <1>1, <1>3, <1>4, <1>5, <1>6, <1>7
<1>8. Splits(D, A, E, r, f, g, up)
  BY DEF Splits
<1> QED  BY <1>8, SumSplit

\* One number.
LEMMA SumOne ==
    ASSUME NEW f \in [1..1 -> Nat]
    PROVE  Sum(f) = f[1]
<1>1. Units(f) = {1} \X (1..f[1])
  <2>1. ASSUME NEW u \in Units(f) PROVE u \in {1} \X (1..f[1])
    BY UnitsMember
  <2>2. ASSUME NEW u \in {1} \X (1..f[1]) PROVE u \in Units(f)
    BY UnitsMember
  <2> QED  BY <2>1, <2>2
<1>2. f[1] \in Nat
  OBVIOUS
<1> QED  BY <1>1, <1>2, RowCount DEF Sum

\* A number at the end.
LEMMA SumAppend ==
    ASSUME NEW n \in Nat, NEW f \in [1..n -> Nat], NEW k \in Nat,
           NEW r \in [1..(n + 1) -> Nat],
           \A i \in 1..n : r[i] = f[i], r[n + 1] = k
    PROVE  Sum(r) = Sum(f) + k
<1> DEFINE g == [i \in 1..1 |-> k]
<1>1. g \in [1..1 -> Nat] /\ g[1] = k /\ \A i \in 1..1 : r[n + i] = g[i]
  OBVIOUS
<1> DEFINE one == 1
<1>2. one \in Nat /\ r \in [1..(n + one) -> Nat] /\ g \in [1..one -> Nat]
      /\ \A i \in 1..one : r[n + i] = g[i]
  BY <1>1
<1> HIDE DEF g, one
<1>3. Sum(r) = Sum(f) + Sum(g)
  BY <1>2, SumJoin
<1> QED  BY <1>1, <1>3, SumOne

\* A number at the front.
LEMMA SumTail ==
    ASSUME NEW n \in Nat, NEW f \in [1..n -> Nat], NEW k \in Nat,
           NEW r \in [1..(n + 1) -> Nat],
           \A i \in 1..n : r[i + 1] = f[i], r[1] = k
    PROVE  Sum(r) = k + Sum(f)
<1> DEFINE g == [i \in 1..1 |-> k]
<1>1. g \in [1..1 -> Nat] /\ g[1] = k /\ \A i \in 1..1 : r[i] = g[i]
  OBVIOUS
<1>2. \A i \in 1..n : r[1 + i] = f[i]
  OBVIOUS
<1>3. r \in [1..(1 + n) -> Nat]
  OBVIOUS
<1> HIDE DEF g
<1>4. Sum(r) = Sum(g) + Sum(f)
  BY <1>1, <1>2, <1>3, SumJoin
<1> QED  BY <1>1, <1>4, SumOne

\* a visits each member of S once.
Lists(a, S, c) ==
    /\ c \in Nat /\ a \in [1..c -> S] /\ IsFiniteSet(S)
    /\ \A i, j \in 1..c : a[i] = a[j] => i = j
    /\ \A x \in S : \E i \in 1..c : a[i] = x

\* An ascending enumeration does.
LEMMA AscendingBij ==
    ASSUME NEW n \in Nat, NEW S \in SUBSET (1..n), NEW a \in Ascending(S)
    PROVE  Lists(a, S, Cardinality(S))
<1> DEFINE c == Cardinality(S)
<1>1. IsFiniteSet(1..n)
  BY FS_Interval
<1>2. IsFiniteSet(S)
  BY <1>1, FS_Subset
<1>3. c \in Nat
  BY <1>2, FS_CardinalityType
<1>4. a \in [1..c -> S] /\ \A i, j \in 1..c : i < j => a[i] < a[j]
  BY DEF Ascending
<1>5. Cardinality(1..c) = c /\ IsFiniteSet(1..c)
  BY <1>3, FS_Interval
<1> HIDE DEF c
<1>6. ASSUME NEW i \in 1..c, NEW j \in 1..c, a[i] = a[j]
      PROVE  i = j
  <2>1. a[i] \in 1..n /\ a[j] \in 1..n
    BY <1>4
  <2>2. ~(i < j) /\ ~(j < i)
    BY <1>4, <1>6, <2>1
  <2> QED  BY <1>3, <2>2
<1>7. a \in Injection(1..c, S)
  BY <1>4, <1>6 DEF Injection, IsInjective
<1>8. a \in Surjection(1..c, S)
  BY <1>2, <1>5, <1>7, FS_Injection DEF c
<1>9. \A x \in S : \E i \in 1..c : a[i] = x
  BY <1>8 DEF Surjection
<1>10. Lists(a, S, c)
  BY <1>2, <1>3, <1>4, <1>6, <1>9 DEF Lists
<1> QED  BY <1>10 DEF c

\* The sum over some places, read in their order.
LEMMA SumPicked ==
    ASSUME NEW n \in Nat, NEW f \in [1..n -> Nat], NEW S \in SUBSET (1..n),
           NEW a \in Ascending(S)
    PROVE  Sum([i \in 1..Cardinality(S) |-> f[a[i]]]) =
               Sum([d \in S |-> f[d]])
<1> DEFINE c == Cardinality(S)
           E == 1..c
           p == [i \in E |-> f[a[i]]]
           q == [d \in S |-> f[d]]
<1>0. Lists(a, S, c)
  BY AscendingBij
<1> HIDE DEF c
<1>1. /\ c \in Nat /\ a \in [E -> S]
      /\ \A i, j \in E : a[i] = a[j] => i = j
      /\ \A x \in S : \E i \in E : a[i] = x
  BY <1>0 DEF Lists
<1>2. IsFiniteSet(E)
  BY <1>1, FS_Interval
<1>3. p \in [E -> Nat] /\ q \in [S -> Nat] /\ \A i \in E : q[a[i]] = p[i]
  BY <1>1
<1> HIDE DEF E, p, q
<1>4. Moves(E, S, p, q, a)
  BY <1>1, <1>2, <1>3 DEF Moves
<1>5. Sum(q) = Sum(p)
  BY <1>4, SumMoved
<1> QED  BY <1>5 DEF c, E, p, q

\* a lists the places S, b lists the others, R.
Picks(n, f, S, R, a, b) ==
    /\ n \in Nat /\ f \in [1..n -> Nat]
    /\ S \in SUBSET (1..n) /\ R = (1..n) \ S
    /\ a \in Ascending(S) /\ b \in Ascending(R)

\* The sum over some places and over the others, each read in their order.
LEMMA SumPickedRest ==
    ASSUME NEW n, NEW f, NEW S, NEW R, NEW a, NEW b, Picks(n, f, S, R, a, b)
    PROVE  Sum(f) = Sum([i \in 1..Cardinality(S) |-> f[a[i]]]) +
                    Sum([i \in 1..Cardinality(R) |-> f[b[i]]])
<1> USE DEF Picks
<1>1. IsFiniteSet(1..n)
  BY FS_Interval
<1>2. R \in SUBSET (1..n)
  OBVIOUS
<1>3. Sum([i \in 1..Cardinality(S) |-> f[a[i]]]) = Sum([d \in S |-> f[d]])
  BY SumPicked
<1>4. Sum([i \in 1..Cardinality(R) |-> f[b[i]]]) = Sum([d \in R |-> f[d]])
  BY <1>2, SumPicked
<1> DEFINE D == 1..n
<1>5. IsFiniteSet(D) /\ f \in [D -> Nat] /\ S \in SUBSET D /\ R = D \ S
  BY <1>1
<1> HIDE DEF D, Picks
<1>6. Sum(f) = Sum([d \in S |-> f[d]]) + Sum([d \in D \ S |-> f[d]])
  BY ONLY <1>5, SumParts, Zenon
<1> QED  BY <1>3, <1>4, <1>5, <1>6

-----------------------------------------------------------------------------
(* The bytes of queues of frames and of credits.                            *)

Lens(q) == [i \in 1..Len(q) |-> q[i].len]
RLens(q) == [i \in 1..Len(q) |-> q[i].frame.len]
Entry == [frame : Frame, retries : 0..maxRetries - 1]

\* The lengths of a queue are numbers.
LEMMA LensType ==
    ASSUME NEW q \in Seq(Frame)
    PROVE  /\ Len(q) \in Nat /\ Lens(q) \in [1..Len(q) -> Nat]
           /\ Bytes(q) = Sum(Lens(q))
<1>1. Len(q) \in Nat /\ \A i \in 1..Len(q) : q[i] \in Frame
  OBVIOUS
<1>2. \A i \in 1..Len(q) : q[i].len \in Nat
  BY <1>1 DEF Frame
<1> QED  BY <1>1, <1>2 DEF Lens, Bytes

\* The bytes of a queue are a number.
LEMMA BytesType ==
    ASSUME NEW q \in Seq(Frame)
    PROVE  Bytes(q) \in Nat
<1>1. IsFiniteSet(1..Len(q))
  BY LensType, FS_Interval
<1> QED  BY <1>1, LensType, SumType

\* An empty queue holds nothing.
LEMMA BytesEmpty == Bytes(<<>>) = 0 /\ RBytes(<<>>) = 0 /\ Sum(<<>>) = 0
<1>1. Lens(<<>>) \in [{} -> Nat] /\ RLens(<<>>) \in [{} -> Nat]
  BY DEF Lens, RLens
<1>2. <<>> \in [{} -> Nat]
  OBVIOUS
<1>3. Sum(Lens(<<>>)) = 0 /\ Sum(RLens(<<>>)) = 0 /\ Sum(<<>>) = 0
  BY <1>1, <1>2, SumEmpty
<1> QED  BY <1>3 DEF Bytes, RBytes, Lens, RLens

\* A frame at the end.
LEMMA BytesAppend ==
    ASSUME NEW q \in Seq(Frame), NEW f \in Frame
    PROVE  /\ Append(q, f) \in Seq(Frame)
           /\ Bytes(Append(q, f)) = Bytes(q) + f.len
<1> DEFINE n == Len(q)
           e == Append(q, f)
<1>1. /\ e \in Seq(Frame) /\ Len(e) = n + 1 /\ n \in Nat
      /\ \A i \in 1..n : e[i] = q[i]
      /\ e[n + 1] = f
  OBVIOUS
<1>2. f.len \in Nat
  BY DEF Frame
<1>3. Lens(q) \in [1..n -> Nat] /\ Lens(e) \in [1..(n + 1) -> Nat]
  <2> HIDE DEF e
  <2> QED  BY <1>1, LensType
<1>4. \A i \in 1..n : Lens(e)[i] = Lens(q)[i]
  <2> HIDE DEF e
  <2> QED  BY <1>1 DEF Lens
<1>5. Lens(e)[n + 1] = f.len
  <2> HIDE DEF e
  <2> QED  BY <1>1 DEF Lens
<1> HIDE DEF e
<1>6. Sum(Lens(e)) = Sum(Lens(q)) + f.len
  BY <1>1, <1>2, <1>3, <1>4, <1>5, SumAppend
<1> QED  BY <1>1, <1>6, LensType DEF e

\* The frame at the front.
LEMMA BytesTail ==
    ASSUME NEW q \in Seq(Frame), q # <<>>
    PROVE  /\ Head(q) \in Frame /\ Tail(q) \in Seq(Frame)
           /\ Bytes(q) = Head(q).len + Bytes(Tail(q))
<1> DEFINE t == Tail(q)
           n == Len(t)
<1>1. /\ t \in Seq(Frame) /\ Len(q) = n + 1 /\ n \in Nat
      /\ \A i \in 1..n : q[i + 1] = t[i]
      /\ q[1] = Head(q) /\ Head(q) \in Frame
  OBVIOUS
<1>2. Head(q).len \in Nat
  BY <1>1 DEF Frame
<1> HIDE DEF t
<1>3. Lens(t) \in [1..n -> Nat] /\ Lens(q) \in [1..(n + 1) -> Nat]
  BY <1>1, LensType
<1>4. \A i \in 1..n : Lens(q)[i + 1] = Lens(t)[i]
  BY <1>1 DEF Lens
<1>5. Lens(q)[1] = Head(q).len
  BY <1>1 DEF Lens
<1>6. Sum(Lens(q)) = Head(q).len + Sum(Lens(t))
  BY <1>1, <1>2, <1>3, <1>4, <1>5, SumTail
<1> QED  BY <1>1, <1>6, LensType DEF t

\* A credit at the end.
LEMMA CreditAppend ==
    ASSUME NEW q \in Seq(Nat), NEW k \in Nat
    PROVE  /\ Append(q, k) \in Seq(Nat)
           /\ Sum(Append(q, k)) = Sum(q) + k
<1> DEFINE n == Len(q)
           e == Append(q, k)
<1>1. /\ e \in Seq(Nat) /\ Len(e) = n + 1 /\ n \in Nat
      /\ \A i \in 1..n : e[i] = q[i]
      /\ e[n + 1] = k
  OBVIOUS
<1> HIDE DEF e
<1>2. q \in [1..n -> Nat] /\ e \in [1..(n + 1) -> Nat]
  BY <1>1
<1>3. Sum(e) = Sum(q) + k
  BY <1>1, <1>2, SumAppend
<1> QED  BY <1>1, <1>3 DEF e

\* The credit at the front.
LEMMA CreditTail ==
    ASSUME NEW q \in Seq(Nat), q # <<>>
    PROVE  /\ Head(q) \in Nat /\ Tail(q) \in Seq(Nat)
           /\ Sum(q) = Head(q) + Sum(Tail(q))
<1> DEFINE t == Tail(q)
           n == Len(t)
<1>1. /\ t \in Seq(Nat) /\ Len(q) = n + 1 /\ n \in Nat
      /\ \A i \in 1..n : q[i + 1] = t[i]
      /\ q[1] = Head(q) /\ Head(q) \in Nat
  OBVIOUS
<1> HIDE DEF t
<1>2. t \in [1..n -> Nat] /\ q \in [1..(n + 1) -> Nat]
  BY <1>1
<1>3. Sum(q) = Head(q) + Sum(t)
  BY <1>1, <1>2, SumTail
<1> QED  BY <1>1, <1>3 DEF t

\* The lengths in the retransmission queue are numbers.
LEMMA RLensType ==
    ASSUME NEW q \in Seq(Entry)
    PROVE  /\ Len(q) \in Nat /\ RLens(q) \in [1..Len(q) -> Nat]
           /\ RBytes(q) = Sum(RLens(q)) /\ RBytes(q) \in Nat
<1>1. Len(q) \in Nat /\ \A i \in 1..Len(q) : q[i] \in Entry
  OBVIOUS
<1>2. \A i \in 1..Len(q) : q[i].frame.len \in Nat
  BY <1>1 DEF Entry, Frame
<1>3. RLens(q) \in [1..Len(q) -> Nat] /\ RBytes(q) = Sum(RLens(q))
  BY <1>1, <1>2 DEF RLens, RBytes
<1>4. IsFiniteSet(1..Len(q))
  BY <1>1, FS_Interval
<1> QED  BY <1>1, <1>3, <1>4, SumType

\* An entry at the end of the retransmission queue.
LEMMA RBytesAppend ==
    ASSUME NEW q \in Seq(Entry), NEW f \in Entry
    PROVE  /\ Append(q, f) \in Seq(Entry)
           /\ RBytes(Append(q, f)) = RBytes(q) + f.frame.len
<1> DEFINE n == Len(q)
           e == Append(q, f)
<1>1. /\ e \in Seq(Entry) /\ Len(e) = n + 1 /\ n \in Nat
      /\ \A i \in 1..n : e[i] = q[i]
      /\ e[n + 1] = f
  OBVIOUS
<1>2. f.frame.len \in Nat
  BY DEF Entry, Frame
<1> HIDE DEF e
<1>3. RLens(q) \in [1..n -> Nat] /\ RLens(e) \in [1..(n + 1) -> Nat]
  BY <1>1, RLensType
<1>4. \A i \in 1..n : RLens(e)[i] = RLens(q)[i]
  BY <1>1 DEF RLens
<1>5. RLens(e)[n + 1] = f.frame.len
  BY <1>1 DEF RLens
<1>6. Sum(RLens(e)) = Sum(RLens(q)) + f.frame.len
  BY <1>1, <1>2, <1>3, <1>4, <1>5, SumAppend
<1> QED  BY <1>1, <1>6, RLensType DEF e

\* Two queues of frames, one behind the other.
LEMMA BytesConcat ==
    ASSUME NEW q \in Seq(Frame), NEW t \in Seq(Frame)
    PROVE  /\ q \o t \in Seq(Frame)
           /\ Bytes(q \o t) = Bytes(q) + Bytes(t)
<1> DEFINE m == Len(q)
           n == Len(t)
           e == q \o t
<1>1. /\ e \in Seq(Frame) /\ Len(e) = m + n /\ n \in Nat /\ m \in Nat
      /\ \A i \in 1..m : e[i] = q[i]
      /\ \A i \in 1..n : e[m + i] = t[i]
  OBVIOUS
<1> HIDE DEF e
<1>2. /\ Lens(q) \in [1..m -> Nat] /\ Lens(t) \in [1..n -> Nat]
      /\ Lens(e) \in [1..(m + n) -> Nat]
  BY <1>1, LensType
<1>3. \A i \in 1..m : Lens(e)[i] = Lens(q)[i]
  BY <1>1 DEF Lens
<1>4. \A i \in 1..n : Lens(e)[m + i] = Lens(t)[i]
  BY <1>1 DEF Lens
<1>5. Sum(Lens(e)) = Sum(Lens(q)) + Sum(Lens(t))
  BY <1>1, <1>2, <1>3, <1>4, SumJoin
<1> QED  BY <1>1, <1>5, LensType DEF e

-----------------------------------------------------------------------------
(* Types.                                                                   *)

TypeWrite ==
    /\ wpc \in {"idle", "check", "wait", "enqueue", "debit"}
    /\ wlen \in 0..MaxFrame
    /\ window \in Int /\ signal \in 0..SignalCap
    /\ ended \in {"no", "closeWrite", "close"}
    /\ written \in 0..MaxWrites
TypeQueues ==
    /\ chA \in Seq(Frame) /\ wireAB \in Seq(Frame) /\ recvQ \in Seq(Frame)
    /\ chB \in Seq(Nat) /\ wireBA \in Seq(Nat) /\ arrived \in Seq(Nat)
    /\ lpc \in {"select", "scan"}
    /\ retrans \in Seq(Entry)
    /\ rLeft \in Nat /\ pendingCredit \in Nat
    /\ noise \in 0..MaxNoise /\ fails \in 0..MaxFails
    /\ inChan \in 0..RecvCap
TypeFlags ==
    /\ streamA \in BOOLEAN /\ streamB \in BOOLEAN /\ closing \in BOOLEAN
    /\ closedA \in BOOLEAN /\ closedB \in BOOLEAN /\ violated \in BOOLEAN
    /\ spilling \in BOOLEAN /\ stranded \in BOOLEAN

\* The type invariant, in three parts.
LEMMA TypeParts == TypeOK <=> TypeWrite /\ TypeQueues /\ TypeFlags
<1>1. TypeOK => TypeFlags
  BY Zenon DEF TypeOK, TypeFlags
<1>2. TypeOK => TypeWrite
  BY DEF TypeOK, TypeWrite
<1>3. TypeOK => TypeQueues
  BY DEF TypeOK, TypeQueues, Entry
<1>4. ASSUME TypeFlags
      PROVE /\ {streamA, streamB, closing, closedA, closedB, violated}
                   \subseteq BOOLEAN
            /\ {spilling, stranded} \subseteq BOOLEAN
  BY <1>4, Zenon DEF TypeFlags
<1>5. ASSUME TypeWrite, TypeQueues, TypeFlags
      PROVE  TypeOK
  BY <1>4, <1>5 DEF TypeWrite, TypeQueues, TypeOK, Entry
<1> QED  BY <1>1, <1>2, <1>3, <1>5

\* The constants.
LEMMA Consts ==
    /\ Window \in Nat \ {0} /\ MaxFrame \in Nat \ {0} /\ WriteCap \in Nat \ {0}
    /\ WireCap \in Nat \ {0} /\ SignalCap \in Nat \ {0}
    /\ RecvCap \in Nat \ {0}
    /\ maxRetransmitQ \in Nat \ {0} /\ maxRetries \in Nat \ {0}
    /\ MaxWrites \in Nat /\ MaxNoise \in Nat /\ MaxFails \in Nat
BY FlowAssumption

\* Write keeps its own variables in their types.
LEMMA TypeWriteStep == TypeOK /\ WriterKnows /\ Next => TypeWrite'
<1> SUFFICES ASSUME TypeOK, WriterKnows, Next PROVE TypeWrite'
  OBVIOUS
<1>1. TypeWrite /\ wireBA \in Seq(Nat)
  BY TypeParts DEF TypeQueues
<1> USE Consts DEF TypeWrite
<1>2. CASE WriteBegin
  BY <1>1, <1>2 DEF WriteBegin
<1>3. CASE WriteSize
  BY <1>1, <1>3 DEF WriteSize
<1>4. CASE WriteWake
  BY <1>1, <1>4 DEF WriteWake
<1>5. CASE WriteFails
  BY <1>1, <1>5 DEF WriteFails
<1>6. CASE WriteEnqueue
  BY <1>1, <1>6 DEF WriteEnqueue, WriterKnows
<1>7. CASE WriteDebit
  BY <1>1, <1>7 DEF WriteDebit
<1>8. CASE Finish("closeWrite") \/ Finish("close")
  BY <1>1, <1>8 DEF Finish
<1>9. CASE SendOK \/ SendFails \/ TickA \/ CloseA
  BY <1>1, <1>9 DEF SendOK, SendFails, TickA, CloseA, uLoopA, readB
<1>10. CASE ScanRetransmitQ
  BY <1>1, <1>10 DEF ScanRetransmitQ, Scan, uLoopA, readB
<1>11. CASE RecvB \/ ReadTake \/ ReadCopy \/ Noise \/ PushFull \/ SendB
            \/ FlushPendingWindowUpdates
  BY <1>1, <1>11
  DEF RecvB, ReadTake, ReadCopy, Noise, PushFull, SendB,
      FlushPendingWindowUpdates, uB, readB
<1>12. CASE CloseB
  BY <1>1, <1>12 DEF CloseB, readB
<1>13. CASE RecvA
  <2>1. Head(wireBA) \in Nat
    BY <1>1, <1>13, CreditTail DEF RecvA
  <2> QED  BY <1>1, <1>13, <2>1 DEF RecvA, uB, readB
<1> QED  BY <1>2, <1>3, <1>4, <1>5, <1>6, <1>7, <1>8, <1>9, <1>10, <1>11,
            <1>12, <1>13 DEF Next

\* A pass over the retransmission queue, spelled out.
Stops(outcome) == {i \in 1..Len(retrans) : Exhausts(i, outcome)}
Seen(outcome) ==
    {i \in 1..Len(retrans) : \A j \in Stops(outcome) : i <= j}
Sent(outcome) == {i \in Seen(outcome) : outcome[i] = "ok"}
Failed(outcome) == {i \in Seen(outcome) : outcome[i] = "fail"}
Carried(order, S) == [i \in 1..Cardinality(S) |-> retrans[order[i]].frame]
Left(order, R, failed) == [i \in 1..Cardinality(R) |-> Kept(order[i], failed)]
Pass(outcome, order) ==
    /\ outcome \in [1..Len(retrans) -> {"keep", "ok", "fail"}]
    /\ order \in Ascending(Sent(outcome))
    /\ wireAB' = wireAB \o Carried(order, Sent(outcome))
    /\ fails + Cardinality(Failed(outcome)) <= MaxFails
    /\ fails' = fails + Cardinality(Failed(outcome))
    /\ closing' = (closing \/ Stops(outcome) # {})
    /\ \/ Stops(outcome) # {} /\ UNCHANGED retrans
       \/ /\ Stops(outcome) = {}
          /\ \E rest \in Ascending(Seen(outcome) \ Sent(outcome)) :
                retrans' = Left(rest, Seen(outcome) \ Sent(outcome),
                                Failed(outcome))

\* What a pass changes.
LEMMA ScanEffect ==
    ASSUME ScanRetransmitQ
    PROVE  /\ lpc' = "select" /\ UNCHANGED <<chA, streamA, closedA, uLoopA>>
           /\ \E outcome, order : Pass(outcome, order)
<1>1. PICK outcome \in [1..Len(retrans) -> {"keep", "ok", "fail"}] :
          /\ fails + Cardinality(Failed(outcome)) <= MaxFails
          /\ fails' = fails + Cardinality(Failed(outcome))
          /\ \E order \in Ascending(Sent(outcome)) :
                wireAB' = wireAB \o [i \in 1..Cardinality(Sent(outcome)) |->
                                        retrans[order[i]].frame]
          /\ closing' = (closing \/ Stops(outcome) # {})
          /\ IF Stops(outcome) # {}
             THEN UNCHANGED retrans
             ELSE \E order \in Ascending(Seen(outcome) \ Sent(outcome)) :
                     retrans' = [i \in 1..Cardinality(Seen(outcome)
                                                      \ Sent(outcome)) |->
                                   Kept(order[i], Failed(outcome))]
  BY Zenon DEF ScanRetransmitQ, Scan, Stops, Seen, Sent, Failed
<1>2. PICK order \in Ascending(Sent(outcome)) :
          wireAB' = wireAB \o Carried(order, Sent(outcome))
  BY <1>1, Zenon DEF Carried
<1>3. \/ Stops(outcome) # {} /\ UNCHANGED retrans
      \/ /\ Stops(outcome) = {}
         /\ \E rest \in Ascending(Seen(outcome) \ Sent(outcome)) :
               retrans' = Left(rest, Seen(outcome) \ Sent(outcome),
                               Failed(outcome))
  BY <1>1, Zenon DEF Left
<1>4. Pass(outcome, order)
  BY <1>1, <1>2, <1>3, Zenon DEF Pass
<1>5. lpc' = "select" /\ UNCHANGED <<chA, streamA, closedA, uLoopA>>
  BY Zenon DEF ScanRetransmitQ, Scan
<1> QED  BY <1>4, <1>5

\* The frames a pass puts on the wire and the entries it leaves.
LEMMA PassTypes ==
    ASSUME TypeOK, NEW outcome, NEW order, Pass(outcome, order)
    PROVE  /\ Carried(order, Sent(outcome)) \in Seq(Frame)
           /\ wireAB' \in Seq(Frame) /\ retrans' \in Seq(Entry)
           /\ Cardinality(Failed(outcome)) \in Nat
<1> DEFINE n == Len(retrans)
           S == Sent(outcome)
           R == Seen(outcome) \ Sent(outcome)
<1>1. /\ n \in Nat /\ wireAB \in Seq(Frame) /\ retrans \in Seq(Entry)
      /\ \A i \in 1..n : retrans[i] \in Entry
  BY TypeParts DEF TypeQueues
<1>2. S \in SUBSET (1..n) /\ R \in SUBSET (1..n)
      /\ Failed(outcome) \in SUBSET (1..n)
  BY DEF Sent, Seen, Failed
<1>3. order \in Ascending(S)
  BY DEF Pass
<1> HIDE DEF S, R
<1>4. Lists(order, S, Cardinality(S))
  BY <1>1, <1>2, <1>3, AscendingBij
<1>5. Carried(order, S) \in Seq(Frame)
  <2>1. /\ Cardinality(S) \in Nat
        /\ \A i \in 1..Cardinality(S) : order[i] \in 1..n
    BY <1>2, <1>4 DEF Lists
  <2>2. \A i \in 1..Cardinality(S) : retrans[order[i]].frame \in Frame
    BY <1>1, <2>1 DEF Entry
  <2> QED  BY <2>1, <2>2 DEF Carried
<1>6. wireAB' \in Seq(Frame)
  BY <1>1, <1>5 DEF Pass, S
<1>7. Cardinality(Failed(outcome)) \in Nat
  <2>1. IsFiniteSet(1..n)
    BY <1>1, FS_Interval
  <2>2. IsFiniteSet(Failed(outcome))
    BY <1>2, <2>1, FS_Subset
  <2> QED  BY <2>2, FS_CardinalityType
<1>8. retrans' \in Seq(Entry)
  <2>1. CASE UNCHANGED retrans
    BY <1>1, <2>1
  <2>2. ASSUME NEW rest \in Ascending(R), Stops(outcome) = {},
               retrans' = Left(rest, R, Failed(outcome))
        PROVE  retrans' \in Seq(Entry)
    <3>1. Lists(rest, R, Cardinality(R))
      BY <1>1, <1>2, AscendingBij
    <3>2. /\ Cardinality(R) \in Nat
          /\ \A i \in 1..Cardinality(R) : rest[i] \in 1..n /\ rest[i] \in R
      BY <1>2, <3>1 DEF Lists
    <3>3. ASSUME NEW i \in 1..n PROVE Kept(i, Failed(outcome)) \in Entry
      <4>1. retrans[i].frame \in Frame
            /\ retrans[i].retries \in 0..maxRetries - 1
        BY <1>1 DEF Entry
      <4>2. i \in Failed(outcome) => retrans[i].retries + 1 < maxRetries
        <5>1. ~Exhausts(i, outcome)
          BY <2>2 DEF Stops
        <5> QED  BY <4>1, <5>1, Consts DEF Exhausts, Failed
      <4> QED  BY <4>1, <4>2, Consts DEF Kept, Entry
    <3>4. \A i \in 1..Cardinality(R) : Kept(rest[i], Failed(outcome)) \in Entry
      BY <3>2, <3>3
    <3> QED  BY <2>2, <3>2, <3>4 DEF Left
  <2> QED  BY <2>1, <2>2 DEF Pass, R
<1> QED  BY <1>5, <1>6, <1>7, <1>8 DEF S

\* Queues and counters keep their types.
LEMMA TypeQueuesStep == TypeOK /\ Next => TypeQueues'
<1> SUFFICES ASSUME TypeOK, Next PROVE TypeQueues'
  OBVIOUS
<1>1. TypeWrite /\ TypeQueues
  BY TypeParts
<1> USE Consts DEF TypeQueues
<1>2. CASE WriteBegin \/ WriteSize \/ WriteWake \/ WriteFails \/ WriteDebit
  BY <1>1, <1>2
  DEF WriteBegin, WriteSize, WriteWake, WriteFails, WriteDebit, uApp, readB
<1>3. CASE WriteEnqueue
  <2>1. Data(written + 1, wlen) \in Frame
    BY <1>1 DEF TypeWrite, Data, Frame
  <2> QED  BY <1>1, <1>3, <2>1 DEF WriteEnqueue, uApp, readB
<1>4. ASSUME NEW kind \in {"closeWrite", "close"}, Finish(kind)
      PROVE  TypeQueues'
  <2>1. Mark(kind) \in Frame
    BY DEF Mark, Frame
  <2> QED  BY <1>1, <1>4, <2>1 DEF Finish, uApp, readB
<1>5. CASE SendOK
  <2>1. Head(chA) \in Frame /\ Tail(chA) \in Seq(Frame)
    BY <1>1, <1>5, BytesTail DEF SendOK
  <2> QED  BY <1>1, <1>5, <2>1 DEF SendOK, uLoopA, readB
<1>6. CASE SendFails
  <2>1. Head(chA) \in Frame /\ Tail(chA) \in Seq(Frame)
    BY <1>1, <1>6, BytesTail DEF SendFails
  <2>2. [frame |-> Head(chA), retries |-> 0] \in Entry
    BY <2>1 DEF Entry
  <2>3. retrans' \in Seq(Entry)
    <3>1. Append(retrans, [frame |-> Head(chA), retries |-> 0]) \in Seq(Entry)
      BY <1>1, <2>2, RBytesAppend
    <3> QED  BY <1>1, <1>6, <3>1 DEF SendFails
  <2> QED  BY <1>1, <1>6, <2>1, <2>3 DEF SendFails, uLoopA, readB
<1>7. CASE TickA \/ CloseA
  BY <1>1, <1>7 DEF TickA, CloseA, uLoopA, readB
<1>8. CASE ScanRetransmitQ
  <2>1. PICK outcome, order : Pass(outcome, order)
    BY <1>8, ScanEffect
  <2>2. /\ wireAB' \in Seq(Frame) /\ retrans' \in Seq(Entry)
        /\ Cardinality(Failed(outcome)) \in Nat
    BY <2>1, PassTypes
  <2>3. fails' \in 0..MaxFails
    BY <1>1, <2>1, <2>2 DEF Pass
  <2>4. lpc' = "select" /\ UNCHANGED <<chA, streamA, closedA, uLoopA>>
    BY <1>8, ScanEffect
  <2> QED  BY <1>1, <2>2, <2>3, <2>4 DEF uLoopA, readB
<1>9. CASE RecvB
  <2>1. Head(wireAB) \in Frame /\ Tail(wireAB) \in Seq(Frame)
    BY <1>1, <1>9, BytesTail DEF RecvB
  <2>2. Head(wireAB).seq \in Nat
    BY <2>1 DEF Frame
  <2>3. recvQ' \in Seq(Frame) /\ arrived' \in Seq(Nat)
    <3>1. Append(recvQ, Head(wireAB)) \in Seq(Frame)
      BY <1>1, <2>1, BytesAppend
    <3>2. Append(arrived, Head(wireAB).seq) \in Seq(Nat)
      BY <1>1, <2>2, CreditAppend
    <3> QED  BY <1>1, <1>9, <3>1, <3>2 DEF RecvB
  <2>4. inChan' \in 0..RecvCap
    <3>1. \/ inChan' = inChan
          \/ /\ inChan' = inChan + 1 /\ ~(Len(recvQ) > inChan)
             /\ ~spilling /\ Accepts
      <4>1. CASE inChan' = inChan
        BY <4>1
      <4>2. CASE inChan' # inChan
        <5>1. /\ inChan' = IF spilling \/ Len(recvQ) > inChan
                           THEN inChan ELSE inChan + 1
              /\ streamB /\ Head(wireAB).kind # "close"
              /\ ~(/\ Head(wireAB).kind = "data"
                   /\ Bytes(recvQ) + rLeft + Head(wireAB).len
                          > Window + MaxFrame)
          BY <1>9, <4>2, Zenon DEF RecvB
        <5>2. Bytes(recvQ) \in Nat /\ Head(wireAB).len \in Nat
          BY <1>1, <2>1, BytesType DEF Frame
        <5>3. Head(wireAB).kind = "data" =>
                 Bytes(recvQ) + rLeft + Head(wireAB).len <= Window + MaxFrame
          BY <1>1, <5>1, <5>2
        <5> QED  BY <4>2, <5>1, <5>3, Zenon DEF Accepts
      <4> QED  BY <4>1, <4>2
    <3>2. ASSUME ~spilling, Accepts, ~(Len(recvQ) > inChan)
          PROVE  inChan < RecvCap
      <4>1. ~Overflows
        BY <1>9, <3>2, Zenon DEF RecvB
      <4> QED  BY <1>1, <3>2, <4>1 DEF Overflows
    <3> QED  BY <1>1, <3>1, <3>2
  <2> QED  BY <1>1, <1>9, <2>1, <2>3, <2>4 DEF RecvB, uB
<1>10. CASE CloseB
  BY <1>1, <1>10 DEF CloseB, readB
<1>11. CASE ReadTake
  <2>1. Head(recvQ) \in Frame /\ Tail(recvQ) \in Seq(Frame)
    BY <1>1, <1>11, BytesTail DEF ReadTake
  <2>2. rLeft' \in Nat
    BY <1>11, <2>1 DEF ReadTake, Frame
  <2>3. chB' \in Seq(Nat) /\ pendingCredit' \in Nat
    <3>1. Append(chB, rLeft') \in Seq(Nat)
      BY <1>1, <2>2, CreditAppend
    <3>2. \/ UNCHANGED <<chB, pendingCredit>>
          \/ chB' = Append(chB, rLeft') /\ UNCHANGED pendingCredit
          \/ pendingCredit' = pendingCredit + rLeft' /\ UNCHANGED chB
      BY <1>11, Zenon DEF ReadTake
    <3>3. CASE UNCHANGED <<chB, pendingCredit>>
      BY <1>1, <3>3
    <3>4. CASE chB' = Append(chB, rLeft') /\ UNCHANGED pendingCredit
      BY <1>1, <3>1, <3>4
    <3>5. CASE pendingCredit' = pendingCredit + rLeft' /\ UNCHANGED chB
      <4>1. pendingCredit \in Nat /\ chB \in Seq(Nat)
        BY <1>1
      <4>2. pendingCredit + rLeft' \in Nat
        <5>1. PICK n \in Nat : rLeft' = n
          BY <2>2
        <5>2. pendingCredit + n \in Nat
          BY <4>1
        <5> QED  BY <5>1, <5>2, Zenon
      <4> QED  BY <4>1, <4>2, <3>5, Zenon
    <3> QED  BY <3>2, <3>3, <3>4, <3>5
  <2> QED  BY <1>1, <1>11, <2>1, <2>2, <2>3 DEF ReadTake, uB, readB
<1>12. CASE ReadCopy
  BY <1>1, <1>12 DEF ReadCopy, uB, readB
<1>13. CASE Noise \/ PushFull \/ FlushPendingWindowUpdates
  <2>1. Append(chB, 0) \in Seq(Nat) /\ Append(chB, pendingCredit) \in Seq(Nat)
    BY <1>1, CreditAppend
  <2>2. CASE Noise
    BY <1>1, <2>1, <2>2 DEF Noise, uB, readB
  <2>3. CASE FlushPendingWindowUpdates
    BY <1>1, <2>1, <2>3 DEF FlushPendingWindowUpdates, uB, readB
  <2>4. CASE PushFull
    BY <1>1, <2>4 DEF PushFull, uB, readB
  <2> QED  BY <1>13, <2>2, <2>3, <2>4
<1>14. CASE SendB
  <2>1. Head(chB) \in Nat /\ Tail(chB) \in Seq(Nat)
    BY <1>1, <1>14, CreditTail DEF SendB
  <2> QED  BY <1>1, <1>14, <2>1 DEF SendB, uB, readB
<1>15. CASE RecvA
  <2>1. Tail(wireBA) \in Seq(Nat)
    BY <1>1, <1>15, CreditTail DEF RecvA
  <2> QED  BY <1>1, <1>15, <2>1 DEF RecvA, uB, readB
<1> QED  BY <1>2, <1>3, <1>4, <1>5, <1>6, <1>7, <1>8, <1>9, <1>10, <1>11,
            <1>12, <1>13, <1>14, <1>15 DEF Next

\* Flags stay flags.
LEMMA TypeFlagsStep == TypeOK /\ Next => TypeFlags'
<1> SUFFICES ASSUME TypeOK, Next PROVE TypeFlags'
  OBVIOUS
<1>1. TypeFlags
  BY TypeParts
<1> USE DEF TypeFlags
<1>2. CASE WriteBegin \/ WriteSize \/ WriteWake \/ WriteFails \/ WriteDebit
           \/ WriteEnqueue \/ Finish("closeWrite") \/ Finish("close")
  BY <1>1, <1>2, Zenon
  DEF WriteBegin, WriteSize, WriteWake, WriteFails, WriteDebit, WriteEnqueue,
      Finish, uApp, readB
<1>3. CASE SendOK
  BY <1>1, <1>3, Zenon DEF SendOK, uLoopA, readB
<1>4. CASE SendFails
  BY <1>1, <1>4, Zenon DEF SendFails, uLoopA, readB
<1>5. CASE TickA \/ CloseA
  BY <1>1, <1>5, Zenon DEF TickA, CloseA, uLoopA, readB
<1>6. CASE ScanRetransmitQ
  <2>1. PICK outcome, order : Pass(outcome, order)
    BY <1>6, ScanEffect
  <2>2. closing' \in BOOLEAN
    BY <2>1, Zenon DEF Pass
  <2>3. lpc' = "select" /\ UNCHANGED <<chA, streamA, closedA, uLoopA>>
    BY <1>6, ScanEffect
  <2> QED  BY <1>1, <2>2, <2>3, Zenon DEF uLoopA, readB
<1>7. CASE RecvB
  BY <1>1, <1>7, Zenon DEF RecvB, uB, readB
<1>8. CASE CloseB
  BY <1>1, <1>8, Zenon DEF CloseB, readB
<1>9. CASE ReadTake \/ ReadCopy \/ Noise \/ PushFull \/ SendB
           \/ RecvA
           \/ FlushPendingWindowUpdates
  BY <1>1, <1>9, Zenon
  DEF ReadTake, ReadCopy, Noise, PushFull, SendB, RecvA,
      FlushPendingWindowUpdates, uB, readB
<1> QED  BY <1>2, <1>3, <1>4, <1>5, <1>6, <1>7, <1>8, <1>9 DEF Next

\* Every step keeps the types.
LEMMA TypeStep == TypeOK /\ WriterKnows /\ [Next]_vars => TypeOK'
<1>1. TypeOK /\ WriterKnows /\ Next => TypeOK'
  BY TypeWriteStep, TypeQueuesStep, TypeFlagsStep, TypeParts, PTL
<1>2. TypeOK /\ UNCHANGED vars => TypeOK'
  BY DEF vars, TypeOK
<1> QED  BY <1>1, <1>2

-----------------------------------------------------------------------------
(* What each step does to the bytes of the window.                          *)

Still ==
    /\ window' = window /\ Debited' = Debited /\ Flight' = Flight
    /\ Bytes(recvQ)' = Bytes(recvQ) /\ rLeft' = rLeft /\ Owed' = Owed
AsEnqueue(n) ==
    /\ n \in 1..MaxFrame /\ n <= window
    /\ Debited = 0 /\ Debited' = n /\ Flight' = Flight + n
    /\ window' = window
    /\ Bytes(recvQ)' = Bytes(recvQ) /\ rLeft' = rLeft /\ Owed' = Owed
AsDebit ==
    /\ Debited > 0 /\ window' = window - Debited /\ Debited' = 0
    /\ Flight' = Flight
    /\ Bytes(recvQ)' = Bytes(recvQ) /\ rLeft' = rLeft /\ Owed' = Owed
AsArrive(n) ==
    /\ n \in 1..MaxFrame /\ n <= Flight
    /\ ~(Bytes(recvQ) + rLeft + n > Window + MaxFrame)
    /\ Flight' = Flight - n /\ Bytes(recvQ)' = Bytes(recvQ) + n
    /\ window' = window /\ Debited' = Debited
    /\ rLeft' = rLeft /\ Owed' = Owed
AsTake(n) ==
    /\ n \in 1..MaxFrame /\ n <= Bytes(recvQ) /\ rLeft = 0
    /\ Bytes(recvQ)' = Bytes(recvQ) - n /\ rLeft' = n /\ Owed' = Owed + n
    /\ window' = window /\ Debited' = Debited /\ Flight' = Flight
AsConsume(n) ==
    /\ n \in 1..MaxFrame /\ n <= rLeft /\ rLeft' = rLeft - n
    /\ window' = window /\ Debited' = Debited /\ Flight' = Flight
    /\ Bytes(recvQ)' = Bytes(recvQ) /\ Owed' = Owed
AsCredit(n) ==
    /\ n \in Nat \ {0} /\ n <= Owed
    /\ Owed' = Owed - n /\ window' = window + n
    /\ Debited' = Debited /\ Flight' = Flight
    /\ Bytes(recvQ)' = Bytes(recvQ) /\ rLeft' = rLeft
\* Bytes are lost, but then the stream has ended.
AsLoss == ~Healthy' /\ Account' <= Account

Classified ==
    \/ Still \/ AsDebit \/ AsLoss \/ closing'
    \/ \E n \in Nat : \/ AsEnqueue(n) \/ AsArrive(n) \/ AsTake(n)
                      \/ AsConsume(n) \/ AsCredit(n)

\* The counters as numbers.
CountTypes ==
    /\ window \in Int /\ Debited \in Nat /\ Bytes(recvQ) \in Nat
    /\ Bytes(chA) \in Nat /\ Bytes(wireAB) \in Nat /\ RBytes(retrans) \in Nat
    /\ rLeft \in Nat /\ pendingCredit \in Nat /\ Sum(chB) \in Nat
    /\ Sum(wireBA) \in Nat
    /\ Flight \in Nat /\ Owed \in Nat /\ Account \in Int

\* The types of the variables give those of the counters.
LEMMA Counts == TypeOK => CountTypes
<1> SUFFICES ASSUME TypeOK PROVE CountTypes
  OBVIOUS
<1>1. TypeWrite /\ TypeQueues
  BY TypeParts
<1>2. window \in Int /\ Debited \in Nat
  BY <1>1, Consts DEF TypeWrite, Debited
<1>3. /\ Bytes(chA) \in Nat /\ Bytes(wireAB) \in Nat /\ Bytes(recvQ) \in Nat
  BY <1>1, BytesType DEF TypeQueues
<1>4. RBytes(retrans) \in Nat
  BY <1>1, RLensType DEF TypeQueues
<1>5. Sum(chB) \in Nat /\ Sum(wireBA) \in Nat
  BY <1>1, SeqFun DEF TypeQueues
<1>6. rLeft \in Nat /\ pendingCredit \in Nat
  BY <1>1 DEF TypeQueues
<1>7. Flight \in Nat /\ Owed \in Nat
  BY <1>3, <1>4, <1>5, <1>6 DEF Flight, Owed
<1>8. Account \in Int
  BY <1>2, <1>3, <1>7 DEF Account
<1> QED  BY <1>2, <1>3, <1>4, <1>5, <1>6, <1>7, <1>8 DEF CountTypes

\* Write and its bookkeeping.
LEMMA WriteClass ==
    ASSUME TypeOK, WriterKnows,
           \/ WriteBegin \/ WriteSize \/ WriteWake \/ WriteFails
           \/ WriteEnqueue \/ WriteDebit
           \/ Finish("closeWrite") \/ Finish("close")
    PROVE  Classified
<1>1. TypeWrite /\ TypeQueues /\ CountTypes
  BY TypeParts, Counts
<1>2. CASE WriteBegin \/ WriteSize \/ WriteWake \/ WriteFails
  <2>1. Debited = 0 /\ Debited' = 0
    BY <1>2 DEF WriteBegin, WriteSize, WriteWake, WriteFails, Debited
  <2>2. Still
    BY <1>2, <2>1
    DEF WriteBegin, WriteSize, WriteWake, WriteFails, uApp, Still, Flight, Owed
  <2> QED  BY <2>2 DEF Classified
<1>3. CASE WriteEnqueue
  <2>1. Data(written + 1, wlen) \in Frame /\ Data(written + 1, wlen).len = wlen
    BY <1>1 DEF TypeWrite, Data, Frame
  <2>2. Bytes(chA') = Bytes(chA) + wlen
    BY <1>1, <1>3, <2>1, BytesAppend DEF WriteEnqueue, TypeQueues
  <2>3. Flight' = Flight + wlen
    <3>1. wireAB' = wireAB /\ retrans' = retrans
      BY <1>3 DEF WriteEnqueue, uApp
    <3> QED  BY <1>1, <2>2, <3>1 DEF Flight, CountTypes, TypeWrite
  <2>4. Debited = 0 /\ Debited' = wlen
    BY <1>3 DEF WriteEnqueue, Debited
  <2>5. wlen \in 1..MaxFrame /\ wlen <= window
    BY <1>3 DEF WriterKnows, WriteEnqueue
  <2>6. AsEnqueue(wlen)
    BY <1>3, <2>3, <2>4, <2>5 DEF AsEnqueue, WriteEnqueue, uApp, Owed
  <2> QED  BY <2>5, <2>6 DEF Classified
<1>4. CASE WriteDebit
  <2>1. Debited = wlen /\ Debited' = 0 /\ wlen \in 1..MaxFrame
    BY <1>4 DEF WriteDebit, Debited, WriterKnows
  <2>2. AsDebit
    BY <1>4, <2>1 DEF WriteDebit, AsDebit, uApp, Flight, Owed
  <2> QED  BY <2>2 DEF Classified
<1>5. ASSUME NEW kind \in {"closeWrite", "close"}, Finish(kind)
      PROVE  Classified
  <2>1. Mark(kind) \in Frame /\ Mark(kind).len = 0
    BY DEF Mark, Frame
  <2>2. Bytes(chA') = Bytes(chA) + 0
    BY <1>1, <1>5, <2>1, BytesAppend DEF Finish, TypeQueues
  <2>3. Bytes(chA') = Bytes(chA)
    BY <1>1, <2>2 DEF CountTypes
  <2>4. Still
    BY <1>5, <2>3 DEF Finish, Still, uApp, Flight, Owed, Debited
  <2> QED  BY <2>4 DEF Classified
<1> QED  BY <1>2, <1>3, <1>4, <1>5

\* A's writeLoop.
LEMMA LoopClass ==
    ASSUME TypeOK, AllSized, SendOK \/ SendFails \/ TickA \/ CloseA
    PROVE  Classified
<1>1. TypeQueues /\ CountTypes
  BY TypeParts, Counts
<1>2. CASE TickA \/ CloseA
  <2>1. Still
    BY <1>2 DEF TickA, CloseA, uLoopA, Still, Flight, Owed, Debited
  <2> QED  BY <2>1 DEF Classified
<1>3. CASE SendOK
  <2>1. /\ Head(chA) \in Frame /\ Head(chA).len \in Nat
        /\ Bytes(chA) = Head(chA).len + Bytes(chA')
    <3>1. /\ Head(chA) \in Frame
          /\ Bytes(chA) = Head(chA).len + Bytes(Tail(chA))
      BY <1>1, <1>3, BytesTail DEF SendOK, TypeQueues
    <3> QED  BY <1>3, <3>1 DEF SendOK, Frame
  <2>2. Bytes(wireAB') = Bytes(wireAB) + Head(chA).len
    BY <1>1, <1>3, <2>1, BytesAppend DEF SendOK, TypeQueues
  <2>3. Tail(chA) \in Seq(Frame)
    BY <1>1, <1>3, BytesTail DEF SendOK, TypeQueues
  <2>4. Bytes(chA') \in Nat
    BY <1>3, <2>3, BytesType DEF SendOK
  <2>5. Bytes(chA') + Bytes(wireAB') = Bytes(chA) + Bytes(wireAB)
    BY <1>1, <2>1, <2>2, <2>4 DEF CountTypes
  <2>6. Still
    BY <1>3, <2>5 DEF SendOK, uLoopA, Still, Flight, Owed, Debited
  <2> QED  BY <2>6 DEF Classified
<1>4. CASE SendFails
  <2>1. /\ Head(chA) \in Frame /\ Head(chA).len \in Nat
        /\ Bytes(chA) = Head(chA).len + Bytes(chA')
        /\ Bytes(chA') \in Nat
    <3>1. /\ Head(chA) \in Frame /\ Tail(chA) \in Seq(Frame)
          /\ Bytes(chA) = Head(chA).len + Bytes(Tail(chA))
      BY <1>1, <1>4, BytesTail DEF SendFails, TypeQueues
    <3> QED  BY <1>4, <3>1, BytesType DEF SendFails, Frame
  <2>2. Sized(Head(chA))
    BY <1>1, <1>4 DEF AllSized, SizedFrame, SendFails
  <2>3. CASE Head(chA).kind # "data"
    <3>1. Bytes(chA') = Bytes(chA)
      BY <1>1, <2>1, <2>2, <2>3 DEF Sized, CountTypes
    <3>2. Still
      BY <1>4, <2>3, <3>1 DEF SendFails, uLoopA, Still, Flight, Owed, Debited
    <3> QED  BY <3>2 DEF Classified
  <2>4. CASE /\ Head(chA).kind = "data" /\ Len(retrans) >= maxRetransmitQ
    <3>1. closing' = TRUE
      BY <1>4, <2>4, Zenon DEF SendFails
    <3> QED  BY <3>1 DEF Classified
  <2>5. CASE /\ Head(chA).kind = "data" /\ ~(Len(retrans) >= maxRetransmitQ)
    <3> DEFINE e == [frame |-> Head(chA), retries |-> 0]
    <3>1. e \in Entry /\ e.frame.len = Head(chA).len
      BY <2>1, Consts DEF Entry
    <3>2. retrans' = Append(retrans, e)
      BY <1>4, <2>5 DEF SendFails
    <3> HIDE DEF e
    <3>3. RBytes(retrans') = RBytes(retrans) + Head(chA).len
      BY <1>1, <3>1, <3>2, RBytesAppend DEF TypeQueues
    <3>4. Bytes(chA') + RBytes(retrans') = Bytes(chA) + RBytes(retrans)
      BY <1>1, <2>1, <3>3 DEF CountTypes
    <3>5. wireAB' = wireAB
      BY <1>4 DEF SendFails
    <3>6. Flight' = Flight
      BY <1>1, <2>1, <3>3, <3>5 DEF Flight, CountTypes
    <3>7. Still
      BY <1>4, <3>6 DEF SendFails, uLoopA, Still, Owed, Debited
    <3> QED  BY <3>7 DEF Classified
  <2> QED  BY <2>3, <2>4, <2>5
<1> QED  BY <1>2, <1>3, <1>4

\* A pass moves the bytes it sends from the queue to the wire.
LEMMA ScanClass ==
    ASSUME TypeOK, ScanRetransmitQ
    PROVE  Classified
<1>1. TypeQueues /\ CountTypes
  BY TypeParts, Counts
<1>2. PICK outcome, order : Pass(outcome, order)
  BY ScanEffect
<1>3. lpc' = "select" /\ UNCHANGED <<chA, streamA, closedA, uLoopA>>
  BY ScanEffect
<1>4. CASE Stops(outcome) # {}
  <2>1. closing'
    BY <1>2, <1>4, Zenon DEF Pass
  <2> QED  BY <2>1 DEF Classified
<1>5. CASE Stops(outcome) = {}
  <2> DEFINE n == Len(retrans)
             S == Sent(outcome)
             R == Seen(outcome) \ Sent(outcome)
             f == RLens(retrans)
  <2>1. n \in Nat /\ f \in [1..n -> Nat] /\ RBytes(retrans) = Sum(f)
    BY <1>1, RLensType DEF TypeQueues
  <2>2. S \in SUBSET (1..n) /\ R = (1..n) \ S
    BY <1>5 DEF Sent, Seen
  <2>3. order \in Ascending(S)
    BY <1>2 DEF Pass
  <2>4. PICK rest \in Ascending(R) : retrans' = Left(rest, R, Failed(outcome))
    BY <1>2, <1>5 DEF Pass
  <2> HIDE DEF n, S, R, f
  <2>5. Sum(f) = Sum([i \in 1..Cardinality(S) |-> f[order[i]]]) +
                 Sum([i \in 1..Cardinality(R) |-> f[rest[i]]])
    <3>1. Picks(n, f, S, R, order, rest)
      BY <2>1, <2>2, <2>3, <2>4 DEF Picks
    <3> QED  BY <3>1, SumPickedRest
  <2>6. /\ Cardinality(S) \in Nat /\ Cardinality(R) \in Nat
        /\ \A i \in 1..Cardinality(S) : order[i] \in 1..n
        /\ \A i \in 1..Cardinality(R) : rest[i] \in 1..n
    <3>1. Lists(order, S, Cardinality(S))
      BY <2>1, <2>2, <2>3, AscendingBij
    <3>2. R \in SUBSET (1..n)
      BY <2>2
    <3>3. Lists(rest, R, Cardinality(R))
      BY <2>1, <2>4, <3>2, AscendingBij
    <3> QED  BY <2>2, <3>1, <3>2, <3>3 DEF Lists
  <2>7. Bytes(Carried(order, S)) =
            Sum([i \in 1..Cardinality(S) |-> f[order[i]]])
    <3> DEFINE cs == Carried(order, S)
    <3>1. /\ Len(cs) = Cardinality(S)
          /\ \A i \in 1..Cardinality(S) : cs[i] = retrans[order[i]].frame
      BY <2>6 DEF Carried
    <3>2. \A i \in 1..Cardinality(S) :
             f[order[i]] = retrans[order[i]].frame.len
      BY <2>6 DEF f, n, RLens
    <3> HIDE DEF cs
    <3>3. Lens(cs) = [i \in 1..Cardinality(S) |-> f[order[i]]]
      BY <3>1, <3>2 DEF Lens
    <3>4. Bytes(cs) = Sum(Lens(cs))
      BY DEF Bytes, Lens
    <3> QED  BY <3>3, <3>4 DEF cs
  <2>8. RBytes(retrans') = Sum([i \in 1..Cardinality(R) |-> f[rest[i]]])
    <3> DEFINE ks == Left(rest, R, Failed(outcome))
    <3>1. /\ Len(ks) = Cardinality(R)
          /\ \A i \in 1..Cardinality(R) : ks[i].frame = retrans[rest[i]].frame
      BY <2>6 DEF Left, Kept
    <3>2. \A i \in 1..Cardinality(R) : f[rest[i]] = retrans[rest[i]].frame.len
      BY <2>6 DEF f, n, RLens
    <3> HIDE DEF ks
    <3>3. RLens(ks) = [i \in 1..Cardinality(R) |-> f[rest[i]]]
      BY <3>1, <3>2 DEF RLens
    <3>4. RBytes(ks) = Sum(RLens(ks))
      BY DEF RBytes, RLens
    <3> QED  BY <2>4, <3>3, <3>4 DEF ks
  <2>9. Bytes(wireAB') = Bytes(wireAB) + Bytes(Carried(order, S))
    <3>1. Carried(order, S) \in Seq(Frame)
      BY <1>2, PassTypes DEF S
    <3> QED  BY <1>1, <1>2, <3>1, BytesConcat DEF Pass, TypeQueues, S
  <2>10. Bytes(Carried(order, S)) \in Nat /\ RBytes(retrans') \in Nat
    <3>1. Carried(order, S) \in Seq(Frame) /\ retrans' \in Seq(Entry)
      BY <1>2, PassTypes DEF S
    <3> QED  BY <3>1, BytesType, RLensType
  <2>11. RBytes(retrans) = Bytes(Carried(order, S)) + RBytes(retrans')
    BY <2>1, <2>5, <2>7, <2>8
  <2>12. Bytes(wireAB') + RBytes(retrans') = Bytes(wireAB) + RBytes(retrans)
    BY <1>1, <2>9, <2>10, <2>11 DEF CountTypes
  <2>13. Flight' = Flight
    BY <1>1, <1>3, <2>9, <2>10, <2>11 DEF Flight, CountTypes
  <2>14. Still
    BY <1>3, <2>13 DEF Still, uLoopA, Owed, Debited
  <2> QED  BY <2>14 DEF Classified
<1> QED  BY <1>4, <1>5

\* A stream or a mux that has ended does not come back.
LEMMA EndsForGood ==
    TypeOK /\ Next => (Healthy' => Healthy) /\ (closing => closing')
<1> SUFFICES ASSUME TypeOK, Next
             PROVE  (Healthy' => Healthy) /\ (closing => closing')
  OBVIOUS
<1> USE DEF Healthy
<1>1. CASE WriteBegin \/ WriteSize \/ WriteWake \/ WriteFails \/ WriteDebit
           \/ WriteEnqueue \/ Finish("closeWrite") \/ Finish("close")
  <2>1. UNCHANGED <<streamA, streamB, closing, closedA, closedB>>
    BY <1>1, Zenon
    DEF WriteBegin, WriteSize, WriteWake, WriteFails, WriteDebit,
        WriteEnqueue, Finish, uApp
  <2> QED  BY <2>1, Zenon
<1>2. CASE SendOK
  BY <1>2, Zenon DEF SendOK, uLoopA
<1>3. CASE SendFails
  BY <1>3, Zenon DEF SendFails, uLoopA
<1>4. CASE TickA
  BY <1>4, Zenon DEF TickA, uLoopA
<1>5. CASE CloseA
  BY <1>5, Zenon DEF CloseA, uLoopA
<1>6. CASE ScanRetransmitQ
  <2>1. PICK outcome, order : Pass(outcome, order)
    BY <1>6, ScanEffect
  <2>2. closing => closing'
    BY <2>1, Zenon DEF Pass
  <2>3. lpc' = "select" /\ UNCHANGED <<chA, streamA, closedA, uLoopA>>
    BY <1>6, ScanEffect
  <2> QED  BY <2>2, <2>3, Zenon DEF uLoopA
<1>7. CASE RecvB
  BY <1>7, Zenon DEF RecvB, uB
<1>8. CASE CloseB
  BY <1>8, Zenon DEF CloseB
<1>9. CASE ReadTake \/ ReadCopy \/ Noise \/ PushFull \/ SendB
           \/ RecvA
           \/ FlushPendingWindowUpdates
  <2>1. UNCHANGED <<streamA, streamB, closing, closedA, closedB>>
    BY <1>9, Zenon
    DEF ReadTake, ReadCopy, Noise, PushFull, SendB, RecvA,
        FlushPendingWindowUpdates, uB
  <2> QED  BY <2>1, Zenon
<1> QED  BY <1>1, <1>2, <1>3, <1>4, <1>5, <1>6, <1>7, <1>8, <1>9 DEF Next

\* The window test of pushFrame cannot fail while no mux is about to close:
\* the bytes at B are bytes of the window, and rBuf holds at most a frame.
LEMMA WithinLimit ==
    ASSUME TypeOK, AllSized, WriterKnows, Balanced, ~closing,
           wireAB # <<>>, Head(wireAB).kind = "data"
    PROVE  /\ Head(wireAB).len \in 1..MaxFrame
           /\ ~(Bytes(recvQ) + rLeft + Head(wireAB).len > Window + MaxFrame)
<1>1. TypeQueues /\ CountTypes /\ TypeWrite
  BY TypeParts, Counts
<1>2. Head(wireAB).len \in 1..MaxFrame
  <2>1. Sized(wireAB[1])
    BY <1>1 DEF AllSized, SizedFrame
  <2>2. Head(wireAB) = wireAB[1]
    BY <1>1 DEF TypeQueues
  <2> QED  BY <2>1, <2>2 DEF Sized
<1>3. /\ Bytes(wireAB) = Head(wireAB).len + Bytes(Tail(wireAB))
      /\ Tail(wireAB) \in Seq(Frame)
  BY <1>1, BytesTail DEF TypeQueues
<1>4. Bytes(Tail(wireAB)) \in Nat
  BY <1>3, BytesType
<1>5. Debited <= window
  BY <1>1 DEF WriterKnows, Debited, CountTypes
<1>6. Account <= Window /\ rLeft <= MaxFrame
  BY DEF Balanced, AllSized
<1>7. Head(wireAB).len <= Flight
  BY <1>1, <1>2, <1>3, <1>4 DEF CountTypes, Flight
<1>8. Bytes(recvQ) + Head(wireAB).len <= Window
  BY <1>1, <1>2, <1>5, <1>6, <1>7, Consts DEF CountTypes, Account
<1> QED  BY <1>1, <1>2, <1>6, <1>8, Consts DEF CountTypes

\* A frame arrives at B.
LEMMA RecvClass ==
    ASSUME TypeOK, AllSized, WriterKnows, Balanced, RecvB
    PROVE  Classified
<1> DEFINE f == Head(wireAB)
<1>1. TypeQueues /\ CountTypes /\ TypeWrite
  BY TypeParts, Counts
<1>2. wireAB # <<>> /\ wireAB' = Tail(wireAB)
  BY DEF RecvB
<1>3. /\ f \in Frame /\ Bytes(wireAB) = f.len + Bytes(wireAB')
      /\ wireAB' \in Seq(Frame)
  BY <1>1, <1>2, BytesTail DEF TypeQueues
<1>4. Bytes(wireAB') \in Nat /\ f.len \in Nat
  BY <1>3, BytesType DEF Frame
<1>5. Sized(f)
  <2>1. Sized(wireAB[1])
    BY <1>1, <1>2 DEF AllSized, SizedFrame
  <2>2. f = wireAB[1]
    BY <1>1, <1>2 DEF TypeQueues
  <2> QED  BY <2>1, <2>2
<1>6. /\ window' = window /\ Debited' = Debited /\ rLeft' = rLeft
      /\ chA' = chA /\ retrans' = retrans /\ Owed' = Owed
  BY DEF RecvB, uB, Debited, Owed
<1> HIDE DEF f
<1>7. PICK fl \in Nat : fl = Flight - f.len /\ Flight' = fl
  <2>0. PICK b \in Nat : b = Bytes(wireAB')
    BY <1>4, Zenon
  <2>1. Bytes(wireAB) = f.len + b
    BY <1>3, <2>0, Zenon
  <2>2. Flight' = Bytes(chA) + b + RBytes(retrans)
    BY <1>6, <2>0, Zenon DEF Flight
  <2> HIDE <2>0
  <2>3. Bytes(chA) + b + RBytes(retrans) \in Nat
    BY <1>1 DEF CountTypes
  <2>4. Bytes(chA) + b + RBytes(retrans) = Flight - f.len
    BY <1>1, <1>4, <2>1 DEF CountTypes, Flight
  <2> QED  BY <2>2, <2>3, <2>4, Zenon
<1>8. ASSUME recvQ' = recvQ, ~Healthy' PROVE Classified
  <2>1. Account' = window - Debited + fl + Bytes(recvQ) + Owed
    BY <1>6, <1>7, <1>8, Zenon DEF Account
  <2>2. Account' <= Account
    <3>1. window - Debited + fl + Bytes(recvQ) + Owed <= Account
      BY <1>1, <1>4, <1>7 DEF CountTypes, Account
    <3> QED  BY <2>1, <3>1, Zenon
  <2> QED  BY <1>8, <2>2 DEF Classified, AsLoss
<1>9. ASSUME recvQ' = Append(recvQ, f), f.kind = "data",
             ~(Bytes(recvQ) + rLeft + f.len > Window + MaxFrame)
      PROVE  Classified
  <2>1. Bytes(recvQ') = Bytes(recvQ) + f.len
    BY <1>1, <1>3, <1>9, BytesAppend DEF TypeQueues
  <2>2. f.len \in 1..MaxFrame
    BY <1>5, <1>9 DEF Sized
  <2>3. f.len <= Flight
    BY <1>1, <1>4, <1>7 DEF CountTypes
  <2>4. Flight' = Flight - f.len
    BY <1>7
  <2>5. AsArrive(f.len)
    BY <1>6, <1>9, <2>1, <2>2, <2>3, <2>4, Zenon DEF AsArrive
  <2> QED  BY <1>4, <2>5 DEF Classified
<1>10. ASSUME recvQ' = Append(recvQ, f), f.kind # "data"
       PROVE  Classified
  <2>1. f.len = 0
    BY <1>5, <1>10 DEF Sized
  <2>2. Bytes(recvQ') = Bytes(recvQ) + f.len
    BY <1>1, <1>3, <1>10, BytesAppend DEF TypeQueues
  <2>3. Bytes(recvQ') = Bytes(recvQ)
    BY <1>1, <2>1, <2>2 DEF CountTypes
  <2>4. Flight' = Flight
    BY <1>1, <1>7, <2>1 DEF CountTypes
  <2>5. Still
    BY <1>6, <2>3, <2>4, Zenon DEF Still
  <2> QED  BY <2>5 DEF Classified
<1>11. CASE ~streamB
  <2>1. recvQ' = recvQ /\ streamB' = streamB
    BY <1>11, Zenon DEF RecvB
  <2> QED  BY <1>8, <1>11, <2>1, Zenon DEF Healthy
<1>12. CASE streamB /\ f.kind = "close"
  <2>1. recvQ' = recvQ /\ streamB' = FALSE
    BY <1>12, Zenon DEF RecvB, f
  <2> QED  BY <1>8, <2>1, Zenon DEF Healthy
<1>13. CASE /\ streamB /\ f.kind = "data"
            /\ Bytes(recvQ) + rLeft + f.len > Window + MaxFrame
  <2>1. f.kind # "close"
    BY <1>13
  <2>2. recvQ' = recvQ /\ streamB' = FALSE
    BY <1>13, <2>1, Zenon DEF RecvB, f
  <2> QED  BY <1>8, <2>2, Zenon DEF Healthy
<1>14. CASE /\ streamB /\ f.kind # "close"
            /\ ~(/\ f.kind = "data"
                 /\ Bytes(recvQ) + rLeft + f.len > Window + MaxFrame)
  <2>1. recvQ' = Append(recvQ, f)
    BY <1>14, Zenon DEF RecvB, f
  <2> QED  BY <1>9, <1>10, <1>14, <2>1, Zenon
<1> QED  BY <1>11, <1>12, <1>13, <1>14, Zenon

\* The other steps of B, and credit arriving at A.
LEMMA BackClass ==
    ASSUME TypeOK, AllSized,
           CloseB \/ ReadTake \/ ReadCopy \/ Noise \/ PushFull \/ SendB
               \/ FlushPendingWindowUpdates \/ RecvA
    PROVE  Classified
<1>1. TypeQueues /\ CountTypes /\ TypeWrite
  BY TypeParts, Counts
<1>2. CASE CloseB
  <2>1. Still
    BY <1>2, Zenon DEF CloseB, Still, Flight, Owed, Debited
  <2> QED  BY <2>1 DEF Classified
<1>3. CASE ReadTake
  <2> DEFINE k == Head(recvQ).len
  <2>1. /\ Head(recvQ) \in Frame /\ Bytes(recvQ) = k + Bytes(recvQ')
        /\ recvQ' \in Seq(Frame) /\ rLeft = 0 /\ rLeft' = k
    BY <1>1, <1>3, BytesTail DEF TypeQueues, ReadTake
  <2>2. Bytes(recvQ') \in Nat /\ k \in Nat
    BY <2>1, BytesType DEF Frame
  <2>3. k <= MaxFrame
    <3>1. Head(recvQ) = recvQ[1] /\ Sized(recvQ[1])
      BY <1>1, <1>3 DEF AllSized, SizedFrame, ReadTake
    <3> QED  BY <3>1, Consts DEF Sized
  <2> HIDE DEF k
  <2>4. /\ window' = window /\ Debited' = Debited /\ Flight' = Flight
        /\ wireBA' = wireBA /\ closedB' = closedB
    BY <1>3, Zenon DEF ReadTake, uB, Debited, Flight
  <2>5. \/ k = 0 /\ UNCHANGED <<chB, pendingCredit>>
        \/ closedB /\ UNCHANGED <<chB, pendingCredit>>
        \/ k # 0 /\ chB' = Append(chB, k) /\ UNCHANGED pendingCredit
        \/ k # 0 /\ pendingCredit' = pendingCredit + k /\ UNCHANGED chB
    BY <1>3, <2>1, Zenon DEF ReadTake
  <2>6. CASE k = 0 /\ UNCHANGED <<chB, pendingCredit>>
    <3>1. Bytes(recvQ') = Bytes(recvQ)
      BY <1>1, <2>1, <2>2, <2>6 DEF CountTypes
    <3>2. Still
      BY <2>1, <2>4, <2>6, <3>1, Zenon DEF Still, Owed
    <3> QED  BY <3>2 DEF Classified
  <2>7. CASE closedB /\ UNCHANGED <<chB, pendingCredit>>
    <3>1. ~Healthy'
      BY <2>4, <2>7, Zenon DEF Healthy
    <3>2. Account' = window - Debited + Flight + Bytes(recvQ') + Owed
      BY <2>4, <2>7, Zenon DEF Account, Owed
    <3>3. Account = window - Debited + Flight + (k + Bytes(recvQ')) + Owed
      BY <2>1, Zenon DEF Account
    <3>4. Account' <= Account
      <4>1. /\ window \in Int /\ Debited \in Int /\ Flight \in Int
            /\ Owed \in Int
        BY <1>1 DEF CountTypes
      <4> QED  BY ONLY <2>2, <3>2, <3>3, <4>1, SMT
    <3> QED  BY <3>1, <3>4 DEF Classified, AsLoss
  <2>8. ASSUME k # 0, Owed' = Owed + k PROVE Classified
    <3>1. k \in 1..MaxFrame /\ k <= Bytes(recvQ)
      BY <1>1, <2>1, <2>2, <2>3, <2>8, Consts DEF CountTypes
    <3>2. Bytes(recvQ') = Bytes(recvQ) - k
      BY <1>1, <2>1, <2>2 DEF CountTypes
    <3>3. AsTake(k)
      BY <2>1, <2>4, <2>8, <3>1, <3>2, Zenon DEF AsTake
    <3> QED  BY <2>2, <3>3 DEF Classified
  <2>9. CASE k # 0 /\ chB' = Append(chB, k) /\ UNCHANGED pendingCredit
    <3>1. Sum(chB') = Sum(chB) + k
      BY <1>1, <2>2, <2>9, CreditAppend DEF TypeQueues
    <3>2. Owed' = pendingCredit + (Sum(chB) + k) + Sum(wireBA)
      BY <2>4, <2>9, <3>1, Zenon DEF Owed
    <3>3. Owed' = Owed + k
      BY <1>1, <2>2, <3>2 DEF CountTypes, Owed
    <3> QED  BY <2>8, <2>9, <3>3
  <2>10. CASE k # 0 /\ pendingCredit' = pendingCredit + k /\ UNCHANGED chB
    <3>1. Owed' = (pendingCredit + k) + Sum(chB) + Sum(wireBA)
      BY <2>4, <2>10, Zenon DEF Owed
    <3>2. Owed' = Owed + k
      BY <1>1, <2>2, <3>1 DEF CountTypes, Owed
    <3> QED  BY <2>8, <2>10, <3>2
  <2> QED  BY <2>5, <2>6, <2>7, <2>9, <2>10
<1>4. CASE ReadCopy
  <2>1. PICK n \in 1..rLeft : rLeft' = rLeft - n
    BY <1>4 DEF ReadCopy
  <2>2. rLeft <= MaxFrame
    BY DEF AllSized
  <2>3. n \in Nat /\ n \in 1..MaxFrame /\ n <= rLeft
    BY <1>1, <2>1, <2>2, Consts DEF CountTypes
  <2>4. AsConsume(n)
    BY <1>4, <2>1, <2>3, Zenon
    DEF AsConsume, ReadCopy, uB, Debited, Flight, Owed
  <2> QED  BY <2>3, <2>4 DEF Classified
<1>5. CASE Noise
  <2>1. Sum(chB') = Sum(chB) + 0
    BY <1>1, <1>5, CreditAppend DEF Noise, TypeQueues
  <2>2. Sum(chB') = Sum(chB)
    BY <1>1, <2>1 DEF CountTypes
  <2>3. Still
    BY <1>5, <2>2, Zenon DEF Noise, uB, Still, Owed, Debited, Flight
  <2> QED  BY <2>3 DEF Classified
<1>6. CASE SendB
  <2>1. /\ Head(chB) \in Nat /\ Sum(chB) = Head(chB) + Sum(chB')
        /\ chB' \in Seq(Nat)
    BY <1>1, <1>6, CreditTail DEF SendB, TypeQueues
  <2>2. Sum(chB') \in Nat
    BY <2>1, SeqFun
  <2>3. Sum(wireBA') = Sum(wireBA) + Head(chB)
    BY <1>1, <1>6, <2>1, CreditAppend DEF SendB, TypeQueues
  <2>4. PICK b \in Nat : b = Sum(chB')
    BY <2>2, Zenon
  <2>5. Owed' = Owed
    <3>1. Owed' = pendingCredit + b + (Sum(wireBA) + Head(chB))
      BY <1>6, <2>3, <2>4, Zenon DEF SendB, Owed
    <3>2. Sum(chB) = Head(chB) + b
      BY <2>1, <2>4, Zenon
    <3>3. pendingCredit + b + (Sum(wireBA) + Head(chB)) = Owed
      <4>1. Head(chB) \in Nat
        BY <2>1
      <4> QED  BY ONLY <1>1, <3>2, <4>1, b \in Nat DEF CountTypes, Owed
    <3> QED  BY <3>1, <3>3, Zenon
  <2>6. Still
    BY <1>6, <2>5, Zenon DEF SendB, uB, Still, Debited, Flight
  <2> QED  BY <2>6 DEF Classified
<1>7. CASE FlushPendingWindowUpdates
  <2>1. Sum(chB') = Sum(chB) + pendingCredit
    BY <1>1, <1>7, CreditAppend DEF FlushPendingWindowUpdates, TypeQueues
  <2>2. Owed' = 0 + (Sum(chB) + pendingCredit) + Sum(wireBA)
    BY <1>7, <2>1, Zenon DEF FlushPendingWindowUpdates, Owed
  <2>3. Owed' = Owed
    BY <1>1, <2>2 DEF CountTypes, Owed
  <2>4. Still
    BY <1>7, <2>3, Zenon
    DEF FlushPendingWindowUpdates, uB, Still, Debited, Flight
  <2> QED  BY <2>4 DEF Classified
<1>8. CASE RecvA
  <2> DEFINE k == Head(wireBA)
  <2>1. /\ k \in Nat /\ Sum(wireBA) = k + Sum(wireBA')
        /\ wireBA' \in Seq(Nat)
    BY <1>1, <1>8, CreditTail DEF RecvA, TypeQueues
  <2>2. Sum(wireBA') \in Nat
    BY <2>1, SeqFun
  <2> HIDE DEF k
  <2>3. /\ Debited' = Debited /\ Flight' = Flight /\ recvQ' = recvQ
        /\ rLeft' = rLeft /\ pendingCredit' = pendingCredit /\ chB' = chB
        /\ streamA' = streamA
    BY <1>8, Zenon DEF RecvA, uB, Debited, Flight
  <2>4. PICK b \in Nat : b = Sum(wireBA')
    BY <2>2, Zenon
  <2>5. Owed' = pendingCredit + Sum(chB) + b
    BY <2>3, <2>4, Zenon DEF Owed
  <2>6. Sum(wireBA) = k + b
    BY <2>1, <2>4, Zenon
  <2>7. /\ pendingCredit + Sum(chB) + b = Owed - k /\ k <= Owed
         /\ pendingCredit + Sum(chB) + b <= Owed
    <3>1. k \in Nat
      BY <2>1
    <3> QED  BY ONLY <1>1, <2>6, <3>1, b \in Nat DEF CountTypes, Owed
  <2>8. Owed' = Owed - k /\ k <= Owed
    BY <2>5, <2>7, Zenon
  <2>9. CASE streamA /\ k > 0
    <3>1. window' = window + k
      BY <1>8, <2>9, Zenon DEF RecvA, k
    <3>2. k \in Nat \ {0}
      BY <2>1, <2>9
    <3>3. AsCredit(k)
      BY <2>3, <2>8, <3>1, <3>2, Zenon DEF AsCredit
    <3> QED  BY <2>1, <3>3 DEF Classified
  <2>10. CASE ~streamA
    <3>1. ~Healthy'
      BY <2>3, <2>10, Zenon DEF Healthy
    <3>2. window' = window
      BY <1>8, <2>10, Zenon DEF RecvA
    <3> DEFINE o == pendingCredit + Sum(chB) + b
    <3>3. Account' = window - Debited + Flight + Bytes(recvQ) + o
      BY <2>3, <2>5, <3>2, Zenon DEF Account
    <3>4. window - Debited + Flight + Bytes(recvQ) + o <= Account
      <4>1. o \in Nat /\ o <= Owed
        BY ONLY <1>1, <2>7, b \in Nat DEF CountTypes
      <4> HIDE DEF o
      <4> QED  BY ONLY <1>1, <4>1 DEF CountTypes, Account
    <3>5. Account' <= Account
      BY <3>3, <3>4, Zenon
    <3> QED  BY <3>1, <3>5 DEF Classified, AsLoss
  <2>11. CASE ~(k > 0)
    <3>1. window' = window
      BY <1>8, <2>11, Zenon DEF RecvA, k
    <3>2. Owed' = Owed
      BY <1>1, <2>1, <2>8, <2>11 DEF CountTypes
    <3>3. Still
      BY <2>3, <3>1, <3>2, Zenon DEF Still
    <3> QED  BY <3>3 DEF Classified
  <2> QED  BY <2>9, <2>10, <2>11, Zenon
<1>9. CASE PushFull
  <2>1. Still
    BY <1>9, Zenon DEF PushFull, uB, Still, Flight, Owed, Debited
  <2> QED  BY <2>1 DEF Classified
<1> QED  BY <1>2, <1>3, <1>4, <1>5, <1>6, <1>7, <1>8, <1>9

-----------------------------------------------------------------------------
(* Every step keeps the invariant.                                          *)

\* Every step of both muxes moves bytes of the window, or ends the stream.
LEMMA EveryStep ==
    ASSUME TypeOK, AllSized, WriterKnows, Balanced, Next
    PROVE  Classified
<1>1. CASE WriteBegin \/ WriteSize \/ WriteWake \/ WriteFails \/ WriteEnqueue
           \/ WriteDebit \/ Finish("closeWrite") \/ Finish("close")
  BY <1>1, WriteClass
<1>2. CASE SendOK \/ SendFails \/ TickA \/ CloseA
  BY <1>2, LoopClass
<1>3. CASE ScanRetransmitQ
  BY <1>3, ScanClass
<1>4. CASE RecvB
  BY <1>4, RecvClass
<1>5. CASE CloseB \/ ReadTake \/ ReadCopy \/ Noise \/ PushFull \/ SendB
           \/ FlushPendingWindowUpdates \/ RecvA
  BY <1>5, BackClass
<1> QED  BY <1>1, <1>2, <1>3, <1>4, <1>5 DEF Next

\* A step that moves bytes moves all of them.
LEMMA SameAccount ==
    ASSUME CountTypes, CountTypes',
           \/ Still \/ AsDebit
           \/ \E n \in Nat : \/ AsEnqueue(n) \/ AsArrive(n) \/ AsTake(n)
                             \/ AsConsume(n) \/ AsCredit(n)
    PROVE  Account' = Account
<1>1. PICK w \in Int, d \in Nat, f \in Nat, q \in Nat, o \in Nat :
          /\ window' = w /\ Debited' = d /\ Flight' = f /\ Bytes(recvQ)' = q
          /\ Owed' = o
  BY Zenon DEF CountTypes
<1>2. Account' = w - d + f + q + o
  BY <1>1, Zenon DEF Account
<1>3. /\ window \in Int /\ Debited \in Nat /\ Flight \in Nat
      /\ Bytes(recvQ) \in Nat /\ Owed \in Nat
  BY DEF CountTypes
<1> HIDE DEF Debited, Flight, Owed
<1>4. w - d + f + q + o = Account
  <2>1. CASE Still
    <3>1. w = window /\ d = Debited /\ f = Flight /\ q = Bytes(recvQ)
          /\ o = Owed
      BY <1>1, <2>1, Zenon DEF Still
    <3> QED  BY <3>1 DEF Account
  <2>2. CASE AsDebit
    <3>1. w = window - Debited /\ d = 0 /\ f = Flight /\ q = Bytes(recvQ)
          /\ o = Owed
      BY <1>1, <2>2, Zenon DEF AsDebit
    <3> QED  BY ONLY <1>3, <3>1 DEF Account
  <2>3. ASSUME NEW n \in Nat, AsEnqueue(n)
        PROVE  w - d + f + q + o = Account
    <3>1. w = window /\ Debited = 0 /\ d = n /\ f = Flight + n
          /\ q = Bytes(recvQ) /\ o = Owed
      BY <1>1, <2>3, Zenon DEF AsEnqueue
    <3> QED  BY ONLY <1>3, <3>1, n \in Nat DEF Account
  <2>4. ASSUME NEW n \in Nat, AsArrive(n)
        PROVE  w - d + f + q + o = Account
    <3>1. w = window /\ d = Debited /\ f = Flight - n
          /\ q = Bytes(recvQ) + n /\ o = Owed
      BY <1>1, <2>4, Zenon DEF AsArrive
    <3> QED  BY ONLY <1>3, <3>1, n \in Nat DEF Account
  <2>5. ASSUME NEW n \in Nat, AsTake(n)
        PROVE  w - d + f + q + o = Account
    <3>1. w = window /\ d = Debited /\ f = Flight
          /\ q = Bytes(recvQ) - n /\ o = Owed + n
      BY <1>1, <2>5, Zenon DEF AsTake
    <3> QED  BY ONLY <1>3, <3>1, n \in Nat DEF Account
  <2>6. ASSUME NEW n \in Nat, AsConsume(n)
        PROVE  w - d + f + q + o = Account
    <3>1. w = window /\ d = Debited /\ f = Flight /\ q = Bytes(recvQ)
          /\ o = Owed
      BY <1>1, <2>6, Zenon DEF AsConsume
    <3> QED  BY <3>1 DEF Account
  <2>7. ASSUME NEW n \in Nat, AsCredit(n)
        PROVE  w - d + f + q + o = Account
    <3>1. w = window + n /\ d = Debited /\ f = Flight /\ q = Bytes(recvQ)
          /\ o = Owed - n
      BY <1>1, <2>7, Zenon DEF AsCredit
    <3> QED  BY ONLY <1>3, <3>1, n \in Nat DEF Account
  <2> QED  BY <2>1, <2>2, <2>3, <2>4, <2>5, <2>6, <2>7
<1> QED  BY <1>2, <1>4, Zenon

\* The account stays balanced.
LEMMA BalancedStep ==
    ASSUME TypeOK, TypeOK', AllSized, WriterKnows, Balanced, Next
    PROVE  Balanced'
<1>1. CountTypes
  BY Counts
<1>2. CountTypes'
  <2>1. TypeOK' => CountTypes'
    BY Counts, PTL
  <2> QED  BY <2>1
<1>3. Classified
  BY EveryStep
<1>4. (Healthy' => Healthy) /\ (closing => closing')
  BY EndsForGood
<1>5. Healthy' => ~closing'
  BY Zenon DEF Healthy
<1>6. CASE closing'
  BY <1>5, <1>6, Zenon DEF Balanced
<1>7. ASSUME AsLoss, ~closing' PROVE Balanced'
  <2>1. ~Healthy' /\ Account' <= Account
    BY <1>7 DEF AsLoss
  <2>2. Account <= Window
    BY <1>4, <1>7, Zenon DEF Balanced
  <2>3. PICK a \in Int : a = Account'
    BY <1>2, Zenon DEF CountTypes
  <2>4. a <= Account
    BY <2>1, <2>3, Zenon
  <2>5. a <= Window
    BY ONLY <1>1, <2>2, <2>4, a \in Int, Consts DEF CountTypes
  <2> QED  BY <2>1, <2>3, <2>5, Zenon DEF Balanced
<1>8. ASSUME Account' = Account, ~closing' PROVE Balanced'
  BY <1>4, <1>8, Zenon DEF Balanced
<1>9. \/ closing' \/ AsLoss \/ Account' = Account
  BY <1>1, <1>2, <1>3, SameAccount DEF Classified
<1> QED  BY <1>6, <1>7, <1>8, <1>9, Zenon

\* Sequences over any set.
LEMMA SeqOf ==
    ASSUME NEW S, NEW q \in Seq(S)
    PROVE  /\ \A e \in S : Append(q, e) \in Seq(S)
           /\ q # <<>> => Head(q) \in S /\ Tail(q) \in Seq(S)
OBVIOUS

\* Frames keep to their sizes.
LEMMA SizedStep ==
    ASSUME TypeOK, AllSized, WriterKnows, Next
    PROVE  AllSized'
<1>1. TypeQueues /\ TypeWrite
  BY TypeParts
<1> USE DEF AllSized
<1>2. CASE WriteBegin \/ WriteSize \/ WriteWake \/ WriteFails \/ WriteDebit
  BY <1>2
  DEF WriteBegin, WriteSize, WriteWake, WriteFails, WriteDebit, uApp
<1>3. CASE WriteEnqueue
  <2>1. Data(written + 1, wlen) \in SizedFrame
    BY <1>1, <1>3
    DEF WriteEnqueue, WriterKnows, TypeWrite, Data, Frame, SizedFrame, Sized
  <2>2. Append(chA, Data(written + 1, wlen)) \in Seq(SizedFrame)
    BY <2>1, SeqOf
  <2> QED  BY <1>3, <2>2 DEF WriteEnqueue, uApp
<1>4. ASSUME NEW kind \in {"closeWrite", "close"}, Finish(kind)
      PROVE  AllSized'
  <2>1. Mark(kind) \in SizedFrame
    BY DEF Mark, Frame, SizedFrame, Sized
  <2>2. Append(chA, Mark(kind)) \in Seq(SizedFrame)
    BY <2>1, SeqOf
  <2> QED  BY <1>4, <2>2 DEF Finish, uApp
<1>5. CASE SendOK
  <2>1. Head(chA) \in SizedFrame /\ Tail(chA) \in Seq(SizedFrame)
    BY <1>5, SeqOf DEF SendOK
  <2>2. Append(wireAB, Head(chA)) \in Seq(SizedFrame)
    BY <2>1, SeqOf
  <2> QED  BY <1>5, <2>1, <2>2 DEF SendOK, uLoopA
<1>6. CASE SendFails
  <2> DEFINE e == [frame |-> Head(chA), retries |-> 0]
  <2>1. Head(chA) \in SizedFrame /\ Tail(chA) \in Seq(SizedFrame)
    BY <1>6, SeqOf DEF SendFails
  <2>2. e \in SizedEntry
    BY <2>1, Consts DEF SizedEntry
  <2>3. Append(retrans, e) \in Seq(SizedEntry)
    <3> HIDE DEF e
    <3> QED  BY <2>2, SeqOf
  <2>4. retrans' = retrans \/ retrans' = Append(retrans, e)
    BY <1>6, Zenon DEF SendFails
  <2>5. retrans' \in Seq(SizedEntry)
    <3> HIDE DEF e
    <3> QED  BY <2>3, <2>4
  <2> QED  BY <1>6, <2>1, <2>5 DEF SendFails, uLoopA
<1>7. CASE TickA \/ CloseA
  BY <1>7 DEF TickA, CloseA, uLoopA
<1>8. CASE ScanRetransmitQ
  <2>1. PICK outcome, order : Pass(outcome, order)
    BY <1>8, ScanEffect
  <2>2. UNCHANGED <<chA, streamA, closedA, uLoopA>>
    BY <1>8, ScanEffect
  <2>3. \A i \in 1..Len(retrans) : retrans[i] \in SizedEntry
    OBVIOUS
  <2>4. Len(retrans) \in Nat
    BY <1>1 DEF TypeQueues
  <2>5. wireAB' \in Seq(SizedFrame)
    <3> DEFINE S == Sent(outcome)
               n == Cardinality(S)
    <3>1. S \in SUBSET (1..Len(retrans)) /\ order \in Ascending(S)
      BY <2>1 DEF Sent, Seen, Pass
    <3> HIDE DEF S
    <3>2. Lists(order, S, n)
      BY <2>4, <3>1, AscendingBij
    <3>3. n \in Nat /\ \A i \in 1..n : order[i] \in 1..Len(retrans)
      BY <3>1, <3>2 DEF Lists
    <3>4. \A i \in 1..n : retrans[order[i]].frame \in SizedFrame
      BY <2>3, <3>3 DEF SizedEntry
    <3>5. Carried(order, S) \in Seq(SizedFrame)
      <4> DEFINE g == [i \in 1..n |-> retrans[order[i]].frame]
      <4>1. Carried(order, S) = g
        BY DEF Carried
      <4> HIDE DEF n
      <4>2. g \in Seq(SizedFrame)
        BY ONLY <3>3, <3>4
      <4> QED  BY <4>1, <4>2
    <3>6. wireAB \o Carried(order, S) \in Seq(SizedFrame)
      BY <3>5
    <3> QED  BY <2>1, <3>6 DEF Pass, S
  <2>6. retrans' \in Seq(SizedEntry)
    <3>1. retrans' \in Seq(Entry)
      BY <2>1, PassTypes
    <3>2. CASE Stops(outcome) # {}
      BY <2>1, <3>2 DEF Pass
    <3>3. CASE Stops(outcome) = {}
      <4> DEFINE R == Seen(outcome) \ Sent(outcome)
                 n == Cardinality(R)
      <4>1. PICK rest \in Ascending(R) :
                retrans' = Left(rest, R, Failed(outcome))
        BY <2>1, <3>3 DEF Pass
      <4>2. R \in SUBSET (1..Len(retrans))
        BY DEF Seen
      <4> HIDE DEF R
      <4>3. Lists(rest, R, n)
        BY <2>4, <4>1, <4>2, AscendingBij
      <4>4. n \in Nat /\ \A i \in 1..n : rest[i] \in 1..Len(retrans)
        BY <4>2, <4>3 DEF Lists
      <4>5. Len(retrans') = n
        BY <4>1, <4>4 DEF Left
      <4>6. ASSUME NEW i \in 1..n PROVE retrans'[i] \in SizedEntry
        <5>1. retrans'[i] \in Entry
          BY <3>1, <4>4, <4>5
        <5>2. retrans'[i] = Kept(rest[i], Failed(outcome))
          BY <4>1, <4>4 DEF Left
        <5>3. retrans'[i].frame = retrans[rest[i]].frame
          BY <5>2 DEF Kept
        <5>4. retrans[rest[i]].frame \in SizedFrame
          BY <2>3, <4>4 DEF SizedEntry
        <5> QED  BY <5>1, <5>3, <5>4 DEF Entry, SizedEntry
      <4> QED  BY <3>1, <4>4, <4>5, <4>6
    <3> QED  BY <3>2, <3>3
  <2> QED  BY <2>2, <2>5, <2>6 DEF uLoopA
<1>9. CASE RecvB
  <2>1. Head(wireAB) \in SizedFrame /\ Tail(wireAB) \in Seq(SizedFrame)
    BY <1>9, SeqOf DEF RecvB
  <2>2. Append(recvQ, Head(wireAB)) \in Seq(SizedFrame)
    BY <2>1, SeqOf
  <2>3. recvQ' = recvQ \/ recvQ' = Append(recvQ, Head(wireAB))
    BY <1>9, Zenon DEF RecvB
  <2>4. recvQ' \in Seq(SizedFrame)
    BY <2>2, <2>3
  <2> QED  BY <1>9, <2>1, <2>4 DEF RecvB, uB
<1>10. CASE CloseB
  BY <1>10 DEF CloseB
<1>11. CASE ReadTake
  <2>1. Head(recvQ) \in SizedFrame /\ Tail(recvQ) \in Seq(SizedFrame)
    BY <1>11, SeqOf DEF ReadTake
  <2>2. Head(recvQ).len <= MaxFrame
    BY <2>1, Consts DEF SizedFrame, Sized
  <2> QED  BY <1>11, <2>1, <2>2, Zenon DEF ReadTake, uB
<1>12. CASE ReadCopy
  <2>1. PICK n \in 1..rLeft : rLeft' = rLeft - n
    BY <1>12 DEF ReadCopy
  <2>2. rLeft - n <= MaxFrame
    BY <1>1, <2>1, Consts DEF TypeQueues
  <2>3. rLeft' <= MaxFrame
    BY <2>1, <2>2, Zenon
  <2> QED  BY <1>12, <2>3 DEF ReadCopy, uB
<1>13. CASE Noise \/ PushFull \/ SendB \/ FlushPendingWindowUpdates
           \/ RecvA
  BY <1>13
  DEF Noise, PushFull, SendB, FlushPendingWindowUpdates, RecvA, uB
<1> QED  BY <1>2, <1>3, <1>4, <1>5, <1>6, <1>7, <1>8, <1>9, <1>10, <1>11,
            <1>12, <1>13 DEF Next

\* Write keeps to the window, and only Write takes from it.
LEMMA WriterStep ==
    ASSUME TypeOK, AllSized, WriterKnows, Next
    PROVE  WriterKnows'
<1>1. TypeQueues /\ TypeWrite
  BY TypeParts
<1> USE DEF WriterKnows
<1>2. CASE WriteBegin
  BY <1>1, <1>2 DEF WriteBegin
<1>3. CASE WriteSize
  BY <1>1, <1>3, Consts DEF WriteSize, TypeWrite
<1>4. CASE WriteWake \/ WriteFails \/ WriteEnqueue
  BY <1>1, <1>4 DEF WriteWake, WriteFails, WriteEnqueue
<1>5. CASE WriteDebit
  BY <1>1, <1>5 DEF WriteDebit, TypeWrite
<1>6. CASE Finish("closeWrite") \/ Finish("close")
  BY <1>1, <1>6 DEF Finish
<1>7. CASE SendOK \/ SendFails \/ TickA \/ CloseA
  BY <1>7 DEF SendOK, SendFails, TickA, CloseA, uLoopA
<1>8. CASE ScanRetransmitQ
  BY <1>8, ScanEffect DEF uLoopA
<1>9. CASE RecvB \/ ReadTake \/ ReadCopy \/ Noise \/ PushFull \/ SendB
           \/ FlushPendingWindowUpdates
  BY <1>9
  DEF RecvB, ReadTake, ReadCopy, Noise, PushFull, SendB,
      FlushPendingWindowUpdates, uB
<1>10. CASE CloseB
  BY <1>10 DEF CloseB
<1>11. CASE RecvA
  <2>1. PICK k \in Nat : window' = window + k
    <3>1. Head(wireBA) \in Nat
      BY <1>1, <1>11, CreditTail DEF RecvA, TypeQueues
    <3>2. window' = window + Head(wireBA) \/ window' = window + 0
      BY <1>1, <1>11 DEF RecvA, TypeWrite
    <3> QED  BY <3>1, <3>2
  <2>2. /\ window + k >= 0
        /\ wpc \in {"enqueue", "debit"} =>
             wlen \in 1..MaxFrame /\ wlen <= window + k
    BY <1>1, Consts DEF TypeWrite
  <2>3. UNCHANGED <<wpc, wlen, ended, written>>
    BY <1>11 DEF RecvA, uB
  <2> QED  BY <2>1, <2>2, <2>3, Zenon
<1> QED  BY <1>2, <1>3, <1>4, <1>5, <1>6, <1>7, <1>8, <1>9, <1>10, <1>11
         DEF Next

\* A frame written.
LEMMA UnderwayWrite ==
    ASSUME NEW w \in Nat, NEW arr \in Seq(Nat), NEW wire \in Seq(Frame),
           NEW ch \in Seq(Frame), NEW n \in Nat,
           Underway(w, "no", arr, wire, ch)
    PROVE  Underway(w + 1, "no", arr, wire, Append(ch, Data(w + 1, n)))
<1> DEFINE a == Len(arr)
           l == Len(wire)
           c == Len(ch)
           d == Data(w + 1, n)
           ch2 == Append(ch, d)
<1>1. a \in Nat /\ l \in Nat /\ c \in Nat /\ a + l + c = w
  BY DEF Underway
<1>2. d \in Frame /\ d.seq = w + 1 /\ d.kind = "data"
  BY DEF Data, Frame
<1> HIDE DEF d
<1>3. /\ Len(ch2) = c + 1 /\ ch2[c + 1] = d
      /\ \A i \in 1..c : ch2[i] = ch[i]
  BY <1>2
<1> HIDE DEF ch2
<1>4. ASSUME NEW i \in 1..a PROVE Belongs(w + 1, i, arr[i])
  BY <1>1 DEF Underway, Belongs
<1>5. ASSUME NEW i \in 1..l PROVE InPlace(w + 1, "no", a + i, wire[i])
  <2>1. a + i <= w /\ a + i <= w + 1 /\ a + i \in Nat
    BY <1>1
  <2>2. InPlace(w, "no", a + i, wire[i])
    BY DEF Underway
  <2> QED  BY <2>1, <2>2 DEF InPlace, Belongs
<1>6. ASSUME NEW i \in 1..(c + 1)
      PROVE  InPlace(w + 1, "no", a + l + i, ch2[i])
  <2>1. CASE i \in 1..c
    <3>1. a + l + i <= w /\ a + l + i <= w + 1 /\ a + l + i \in Nat
      BY <1>1, <2>1
    <3>2. InPlace(w, "no", a + l + i, ch[i])
      BY <2>1 DEF Underway
    <3>3. ch2[i] = ch[i]
      BY <1>3, <2>1
    <3> QED  BY <3>1, <3>2, <3>3 DEF InPlace, Belongs
  <2>2. CASE i = c + 1
    <3>1. a + l + i = w + 1
      BY <1>1, <2>2
    <3>2. ch2[i] = d
      BY <1>3, <2>2
    <3> QED  BY <1>2, <3>1, <3>2 DEF InPlace, Belongs
  <2> QED  BY <1>1, <2>1, <2>2
<1>7. a + l + (c + 1) = w + 1
  BY <1>1
<1> QED  BY <1>3, <1>4, <1>5, <1>6, <1>7 DEF Underway, ch2, d

\* The end requested.
LEMMA UnderwayFinish ==
    ASSUME NEW w \in Nat, NEW arr \in Seq(Nat), NEW wire \in Seq(Frame),
           NEW ch \in Seq(Frame), NEW e \in {"closeWrite", "close"},
           Underway(w, "no", arr, wire, ch)
    PROVE  Underway(w, e, arr, wire, Append(ch, Mark(e)))
<1> DEFINE a == Len(arr)
           l == Len(wire)
           c == Len(ch)
           d == Mark(e)
           ch2 == Append(ch, d)
<1>1. a \in Nat /\ l \in Nat /\ c \in Nat /\ a + l + c = w
  BY DEF Underway
<1>2. d \in Frame /\ d.seq = 0 /\ d.kind = e
  BY DEF Mark, Frame
<1> HIDE DEF d
<1>3. /\ Len(ch2) = c + 1 /\ ch2[c + 1] = d
      /\ \A i \in 1..c : ch2[i] = ch[i]
  BY <1>2
<1> HIDE DEF ch2
<1>4. ASSUME NEW i \in 1..a PROVE Belongs(w, i, arr[i])
  BY DEF Underway
<1>5. ASSUME NEW i \in 1..l PROVE InPlace(w, e, a + i, wire[i])
  <2>1. a + i <= w /\ a + i \in Nat
    BY <1>1
  <2>2. InPlace(w, "no", a + i, wire[i])
    BY DEF Underway
  <2> QED  BY <2>1, <2>2 DEF InPlace, Belongs
<1>6. ASSUME NEW i \in 1..(c + 1) PROVE InPlace(w, e, a + l + i, ch2[i])
  <2>1. CASE i \in 1..c
    <3>1. a + l + i <= w /\ a + l + i \in Nat
      BY <1>1, <2>1
    <3>2. InPlace(w, "no", a + l + i, ch[i])
      BY <2>1 DEF Underway
    <3>3. ch2[i] = ch[i]
      BY <1>3, <2>1
    <3> QED  BY <3>1, <3>2, <3>3 DEF InPlace, Belongs
  <2>2. CASE i = c + 1
    <3>1. a + l + i = w + 1 /\ ~(a + l + i <= w)
      BY <1>1, <2>2
    <3>2. ch2[i] = d
      BY <1>3, <2>2
    <3> QED  BY <1>2, <3>1, <3>2 DEF InPlace, Belongs
  <2> QED  BY <1>1, <2>1, <2>2
<1>7. a + l + (c + 1) = w + 1 /\ e # "no"
  BY <1>1
<1> QED  BY <1>3, <1>4, <1>5, <1>6, <1>7 DEF Underway, ch2, d

\* A frame sent.
LEMMA UnderwaySend ==
    ASSUME NEW w \in Nat, NEW arr \in Seq(Nat), NEW wire \in Seq(Frame),
           NEW ch \in Seq(Frame), NEW e, ch # <<>>,
           Underway(w, e, arr, wire, ch)
    PROVE  Underway(w, e, arr, Append(wire, Head(ch)), Tail(ch))
<1> DEFINE a == Len(arr)
           l == Len(wire)
           t == Tail(ch)
           c == Len(t)
           wire2 == Append(wire, Head(ch))
<1>1. /\ a \in Nat /\ l \in Nat /\ c \in Nat /\ Len(ch) = c + 1
      /\ Head(ch) = ch[1] /\ \A i \in 1..c : t[i] = ch[i + 1]
  OBVIOUS
<1>2. /\ Len(wire2) = l + 1 /\ wire2[l + 1] = ch[1]
      /\ \A i \in 1..l : wire2[i] = wire[i]
  BY <1>1
<1> HIDE DEF t, wire2
<1>3. ASSUME NEW i \in 1..(l + 1) PROVE InPlace(w, e, a + i, wire2[i])
  <2>1. CASE i \in 1..l
    BY <1>2, <2>1 DEF Underway
  <2>2. CASE i = l + 1
    <3>1. 1 \in 1..Len(ch) /\ a + i = a + l + 1
      BY <1>1, <2>2
    <3>2. InPlace(w, e, a + l + 1, ch[1])
      BY <3>1 DEF Underway
    <3> QED  BY <1>2, <2>2, <3>1, <3>2
  <2>3. i \in 1..l \/ i = l + 1
    BY ONLY <1>1, i \in 1..(l + 1)
  <2> QED  BY <2>1, <2>2, <2>3
<1>4. ASSUME NEW i \in 1..c PROVE InPlace(w, e, a + (l + 1) + i, t[i])
  <2>1. i + 1 \in 1..Len(ch) /\ a + (l + 1) + i = a + l + (i + 1)
    BY <1>1
  <2>2. InPlace(w, e, a + l + (i + 1), ch[i + 1])
    BY <2>1 DEF Underway
  <2>3. t[i] = ch[i + 1]
    BY <1>1
  <2> QED  BY <2>1, <2>2, <2>3, Zenon
<1>5. a + (l + 1) + c = a + l + Len(ch)
  BY <1>1
<1> QED  BY <1>2, <1>3, <1>4, <1>5 DEF Underway, t, wire2

\* A frame received, which is not the close.
LEMMA UnderwayRecv ==
    ASSUME NEW w \in Nat, NEW arr \in Seq(Nat), NEW wire \in Seq(Frame),
           NEW ch \in Seq(Frame), NEW e, wire # <<>>,
           Underway(w, e, arr, wire, ch)
    PROVE  Underway(w, e, Append(arr, Head(wire).seq), Tail(wire), ch)
<1> DEFINE a == Len(arr)
           t == Tail(wire)
           l == Len(t)
           arr2 == Append(arr, Head(wire).seq)
<1>1. /\ a \in Nat /\ l \in Nat /\ Len(ch) \in Nat /\ Len(wire) = l + 1
      /\ Head(wire) = wire[1] /\ \A i \in 1..l : t[i] = wire[i + 1]
      /\ wire[1] \in Frame
  OBVIOUS
<1>2. /\ Len(arr2) = a + 1 /\ arr2[a + 1] = wire[1].seq
      /\ \A i \in 1..a : arr2[i] = arr[i]
  <2>1. wire[1].seq \in Nat
    BY <1>1 DEF Frame
  <2> QED  BY <1>1, <2>1
<1> HIDE DEF t, arr2
<1>3. ASSUME NEW i \in 1..(a + 1) PROVE Belongs(w, i, arr2[i])
  <2>1. CASE i \in 1..a
    BY <1>2, <2>1 DEF Underway
  <2>2. CASE i = a + 1
    <3>1. 1 \in 1..Len(wire)
      BY <1>1
    <3>2. InPlace(w, e, a + 1, wire[1])
      BY <3>1 DEF Underway
    <3> QED  BY <1>2, <2>2, <3>2 DEF InPlace
  <2>3. i \in 1..a \/ i = a + 1
    BY ONLY <1>1, i \in 1..(a + 1)
  <2> QED  BY <2>1, <2>2, <2>3
<1>4. ASSUME NEW i \in 1..l PROVE InPlace(w, e, (a + 1) + i, t[i])
  <2>1. i + 1 \in 1..Len(wire) /\ (a + 1) + i = a + (i + 1)
    BY <1>1
  <2>2. InPlace(w, e, a + (i + 1), wire[i + 1])
    BY <2>1 DEF Underway
  <2>3. t[i] = wire[i + 1]
    BY <1>1
  <2> QED  BY <2>1, <2>2, <2>3, Zenon
<1>5. ASSUME NEW i \in 1..Len(ch)
      PROVE  InPlace(w, e, (a + 1) + l + i, ch[i])
  <2>1. (a + 1) + l + i = a + Len(wire) + i
    BY <1>1
  <2>2. InPlace(w, e, a + Len(wire) + i, ch[i])
    BY DEF Underway
  <2> QED  BY <2>1, <2>2
<1>6. (a + 1) + l + Len(ch) = a + Len(wire) + Len(ch)
  BY <1>1
<1> QED  BY <1>2, <1>3, <1>4, <1>5, <1>6 DEF Underway, t, arr2

\* The close received: all that was written is there.
LEMMA UnderwayClose ==
    ASSUME NEW w \in Nat, NEW arr \in Seq(Nat), NEW wire \in Seq(Frame),
           NEW ch \in Seq(Frame), NEW e, wire # <<>>,
           Underway(w, e, arr, wire, ch), Head(wire).kind = "close"
    PROVE  Over(w, e, arr)
<1>1. Len(arr) \in Nat /\ Head(wire) = wire[1] /\ 1 \in 1..Len(wire)
  OBVIOUS
<1>2. InPlace(w, e, Len(arr) + 1, wire[1])
  BY <1>1 DEF Underway
<1>3. ~(Len(arr) + 1 <= w) /\ e = "close"
  BY <1>1, <1>2 DEF InPlace
<1>4. Len(arr) + 1 = w + 1
  BY <1>2, <1>3 DEF InPlace, Belongs
<1>5. Len(arr) = w
  BY <1>1, <1>4
<1> QED  BY <1>3, <1>5 DEF Over, Underway

\* An empty retransmission queue stays empty in a pass, and nothing is sent.
LEMMA QuietPass ==
    ASSUME TypeOK, retrans = <<>>, ScanRetransmitQ
    PROVE  /\ wireAB' = wireAB /\ retrans' = <<>> /\ closing' = closing
           /\ fails' = fails
<1>1. wireAB \in Seq(Frame) /\ fails \in Nat
  BY TypeParts DEF TypeQueues
<1>2. closing \in BOOLEAN
  BY TypeParts, Zenon DEF TypeFlags
<1>3. PICK outcome, order : Pass(outcome, order)
  BY ScanEffect
<1>4. 1..Len(retrans) = {}
  OBVIOUS
<1>5. Stops(outcome) = {} /\ Seen(outcome) = {}
  BY <1>4 DEF Stops, Seen
<1>6. /\ Sent(outcome) = {} /\ Failed(outcome) = {}
      /\ Seen(outcome) \ Sent(outcome) = {}
  BY <1>5 DEF Sent, Failed
<1>7. Cardinality({}) = 0
  BY FS_EmptySet
<1>8. Carried(order, Sent(outcome)) = <<>>
  BY <1>6, <1>7 DEF Carried
<1>9. wireAB' = wireAB
  <2>1. wireAB' = wireAB \o <<>>
    BY <1>3, <1>8 DEF Pass
  <2> QED  BY <1>1, <2>1
<1>10. retrans' = <<>>
  <2>1. PICK rest : retrans' = Left(rest, Seen(outcome) \ Sent(outcome),
                                    Failed(outcome))
    BY <1>3, <1>5 DEF Pass
  <2>2. retrans' = Left(rest, {}, {})
    BY <1>6, <2>1, Zenon
  <2>3. Left(rest, {}, {}) = <<>>
    BY <1>7 DEF Left
  <2> QED  BY <2>2, <2>3, Zenon
<1>11. closing' = closing
  <2>1. closing' = (closing \/ Stops(outcome) # {})
    BY <1>3 DEF Pass
  <2> QED  BY <1>2, <1>5, <2>1, Zenon
<1>12. fails' = fails
  <2>1. fails' = fails + 0
    BY <1>3, <1>6, <1>7 DEF Pass
  <2> QED  BY <1>1, <2>1
<1> QED  BY <1>9, <1>10, <1>11, <1>12

\* Nothing is retransmitted and no mux closes before a Send fails.
LEMMA NothingStep ==
    ASSUME TypeOK, NothingFailed, Next
    PROVE  NothingFailed'
<1>1. fails \in Nat
  BY TypeParts DEF TypeQueues
<1>2. fails + 1 # 0
  BY <1>1
<1> USE DEF NothingFailed
<1>3. CASE WriteBegin \/ WriteSize \/ WriteWake \/ WriteFails \/ WriteDebit
           \/ WriteEnqueue \/ Finish("closeWrite") \/ Finish("close")
  <2>1. UNCHANGED <<fails, retrans, closing, closedA, closedB>>
    BY <1>3, Zenon
    DEF WriteBegin, WriteSize, WriteWake, WriteFails, WriteDebit,
        WriteEnqueue, Finish, uApp
  <2> QED  BY <2>1, Zenon
<1>4. CASE SendOK
  BY <1>4, Zenon DEF SendOK, uLoopA
<1>5. CASE SendFails
  BY <1>2, <1>5, Zenon DEF SendFails
<1>6. CASE TickA
  BY <1>6, Zenon DEF TickA, uLoopA
<1>7. CASE ScanRetransmitQ
  <2>1. UNCHANGED <<chA, streamA, closedA, uLoopA>>
    BY <1>7, ScanEffect
  <2>2. CASE fails = 0
    <3>1. retrans' = <<>> /\ closing' = closing
      BY <1>7, <2>2, QuietPass
    <3> QED  BY <2>1, <2>2, <3>1, Zenon DEF uLoopA
  <2>3. CASE fails # 0
    <3>1. PICK outcome, order : Pass(outcome, order)
      BY <1>7, ScanEffect
    <3>2. Cardinality(Failed(outcome)) \in Nat
      BY <3>1, PassTypes
    <3>3. fails' = fails + Cardinality(Failed(outcome))
      BY <3>1 DEF Pass
    <3>4. fails' # 0
      BY <1>1, <2>3, <3>2, <3>3
    <3> QED  BY <3>4, Zenon
  <2> QED  BY <2>2, <2>3
<1>8. CASE CloseA
  BY <1>8, Zenon DEF CloseA, uLoopA
<1>9. CASE CloseB
  BY <1>2, <1>9, Zenon DEF CloseB
<1>10. CASE RecvB \/ ReadTake \/ ReadCopy \/ Noise \/ PushFull \/ SendB
           \/ RecvA
           \/ FlushPendingWindowUpdates
  <2>1. UNCHANGED <<fails, retrans, closing, closedA, closedB>>
    BY <1>10, Zenon
    DEF RecvB, ReadTake, ReadCopy, Noise, PushFull, SendB, RecvA,
        FlushPendingWindowUpdates, uB
  <2> QED  BY <2>1, Zenon
<1> QED  BY <1>3, <1>4, <1>5, <1>6, <1>7, <1>8, <1>9, <1>10 DEF Next

\* No step aborts a healthy stream for its window.
LEMMA NotViolatedStep ==
    ASSUME TypeOK, AllSized, WriterKnows, Balanced, ~violated, Next
    PROVE  ~violated'
<1>1. violated = FALSE
  <2>1. violated \in BOOLEAN
    BY TypeParts, Zenon DEF TypeFlags
  <2> QED  BY <2>1, Zenon
<1>2. CASE RecvB
  <2>1. \/ violated' = violated
        \/ /\ wireAB # <<>> /\ Head(wireAB).kind = "data"
           /\ Bytes(recvQ) + rLeft + Head(wireAB).len > Window + MaxFrame
           /\ violated' = (violated \/ Healthy)
    BY <1>2, Zenon DEF RecvB
  <2>2. CASE ~Healthy
    BY <1>1, <2>1, <2>2, Zenon
  <2>3. CASE Healthy
    <3>1. ~closing
      BY <2>3, Zenon DEF Healthy
    <3>2. violated' = violated
      BY <2>1, <3>1, WithinLimit, Zenon
    <3> QED  BY <1>1, <3>2, Zenon
  <2> QED  BY <2>2, <2>3, Zenon
<1>3. CASE WriteBegin \/ WriteSize \/ WriteWake \/ WriteFails \/ WriteDebit
           \/ WriteEnqueue \/ Finish("closeWrite") \/ Finish("close")
  <2>1. violated' = violated
    BY <1>3, Zenon
    DEF WriteBegin, WriteSize, WriteWake, WriteFails, WriteDebit,
        WriteEnqueue, Finish, uApp
  <2> QED  BY <2>1, Zenon
<1>4. CASE SendOK \/ SendFails \/ TickA \/ CloseA
  <2>1. violated' = violated
    BY <1>4, Zenon DEF SendOK, SendFails, TickA, CloseA, uLoopA
  <2> QED  BY <2>1, Zenon
<1>5. CASE ScanRetransmitQ
  <2>1. violated' = violated
    BY <1>5, ScanEffect DEF uLoopA
  <2> QED  BY <2>1, Zenon
<1>6. CASE CloseB \/ ReadTake \/ ReadCopy \/ Noise \/ PushFull \/ SendB
           \/ RecvA
           \/ FlushPendingWindowUpdates
  <2>1. violated' = violated
    BY <1>6, Zenon
    DEF CloseB, ReadTake, ReadCopy, Noise, PushFull, SendB, RecvA,
        FlushPendingWindowUpdates, uB
  <2> QED  BY <2>1, Zenon
<1> QED  BY <1>2, <1>3, <1>4, <1>5, <1>6 DEF Next

\* Order is kept while no Send fails.
LEMMA OrderedStep ==
    ASSUME FlowInv, Next
    PROVE  Ordered'
<1> SUFFICES ASSUME fails' = 0
             PROVE  IF streamB'
                    THEN Underway(written', ended', arrived', wireAB', chA')
                    ELSE Over(written', ended', arrived')
  BY DEF Ordered
<1>1. /\ written \in Nat /\ arrived \in Seq(Nat) /\ wireAB \in Seq(Frame)
      /\ chA \in Seq(Frame) /\ wlen \in Nat /\ fails \in Nat
  BY TypeParts, Consts DEF FlowInv, TypeWrite, TypeQueues
<1>2. streamB \in BOOLEAN
  BY TypeParts, Zenon DEF FlowInv, TypeFlags
<1>3. ASSUME fails' = fails PROVE fails = 0
  BY <1>3
<1>4. fails = 0 =>
        /\ IF streamB
           THEN Underway(written, ended, arrived, wireAB, chA)
           ELSE Over(written, ended, arrived)
        /\ retrans = <<>> /\ ~closing
  BY DEF FlowInv, Ordered, NothingFailed
<1>5. ASSUME UNCHANGED <<fails, streamB, written, ended, arrived, wireAB, chA>>
      PROVE  IF streamB'
             THEN Underway(written', ended', arrived', wireAB', chA')
             ELSE Over(written', ended', arrived')
  BY <1>4, <1>5, Zenon
<1>6. CASE WriteBegin \/ WriteSize \/ WriteWake \/ WriteFails \/ WriteDebit
  <2>1. UNCHANGED <<fails, streamB, written, ended, arrived, wireAB, chA>>
    BY <1>6, Zenon
    DEF WriteBegin, WriteSize, WriteWake, WriteFails, WriteDebit, uApp
  <2> QED  BY <1>5, <2>1
<1>7. CASE WriteEnqueue
  <2>1. /\ UNCHANGED <<fails, streamB, ended, arrived, wireAB>>
        /\ written' = written + 1
        /\ chA' = Append(chA, Data(written + 1, wlen))
    BY <1>7, Zenon DEF WriteEnqueue, uApp
  <2>2. ended = "no"
    BY <1>7 DEF FlowInv, WriterKnows, WriteEnqueue
  <2>3. fails = 0
    BY <1>3, <2>1
  <2>4. streamB /\ Underway(written, "no", arrived, wireAB, chA)
    BY <1>4, <2>2, <2>3 DEF Over
  <2>5. Underway(written + 1, "no", arrived, wireAB,
                 Append(chA, Data(written + 1, wlen)))
    BY <1>1, <2>4, UnderwayWrite
  <2> QED  BY <2>1, <2>2, <2>4, <2>5, Zenon
<1>8. ASSUME NEW kind \in {"closeWrite", "close"}, Finish(kind)
      PROVE  IF streamB'
             THEN Underway(written', ended', arrived', wireAB', chA')
             ELSE Over(written', ended', arrived')
  <2>1. /\ UNCHANGED <<fails, streamB, written, arrived, wireAB>>
        /\ ended = "no" /\ ended' = kind
        /\ chA' = Append(chA, Mark(kind))
    BY <1>8, Zenon DEF Finish, uApp
  <2>2. fails = 0
    BY <1>3, <2>1
  <2>3. streamB /\ Underway(written, "no", arrived, wireAB, chA)
    BY <1>4, <2>1, <2>2 DEF Over
  <2>4. Underway(written, kind, arrived, wireAB, Append(chA, Mark(kind)))
    BY <1>1, <2>3, UnderwayFinish
  <2> QED  BY <2>1, <2>3, <2>4, Zenon
<1>9. CASE SendOK
  <2>1. /\ UNCHANGED <<fails, streamB, written, ended, arrived>>
        /\ chA # <<>> /\ chA' = Tail(chA)
        /\ wireAB' = Append(wireAB, Head(chA))
    BY <1>9, Zenon DEF SendOK, uLoopA
  <2>2. fails = 0
    BY <1>3, <2>1
  <2>3. CASE streamB
    <3>1. Underway(written, ended, arrived, wireAB, chA)
      BY <1>4, <2>2, <2>3
    <3>2. Underway(written, ended, arrived, Append(wireAB, Head(chA)),
                   Tail(chA))
      BY <1>1, <2>1, <3>1, UnderwaySend
    <3> QED  BY <2>1, <2>3, <3>2, Zenon
  <2>4. CASE ~streamB
    BY <1>4, <2>1, <2>2, <2>4, Zenon
  <2> QED  BY <2>3, <2>4
<1>10. CASE SendFails
  <2>1. fails' = fails + 1
    BY <1>10 DEF SendFails
  <2> QED  BY <1>1, <2>1
<1>11. CASE TickA \/ CloseA
  <2>1. UNCHANGED <<fails, streamB, written, ended, arrived, wireAB, chA>>
    BY <1>11, Zenon DEF TickA, CloseA, uLoopA
  <2> QED  BY <1>5, <2>1
<1>12. CASE ScanRetransmitQ
  <2>1. fails = 0
    <3>1. PICK outcome, order : Pass(outcome, order)
      BY <1>12, ScanEffect
    <3>2. Cardinality(Failed(outcome)) \in Nat
      BY <3>1, PassTypes DEF FlowInv
    <3>3. fails' = fails + Cardinality(Failed(outcome))
      BY <3>1 DEF Pass
    <3> QED  BY <1>1, <3>2, <3>3
  <2>2. wireAB' = wireAB /\ fails' = fails
    BY <1>4, <1>12, <2>1, QuietPass DEF FlowInv
  <2>3. UNCHANGED <<chA, streamA, closedA, uLoopA>>
    BY <1>12, ScanEffect
  <2>4. UNCHANGED <<fails, streamB, written, ended, arrived, wireAB, chA>>
    BY <2>2, <2>3, Zenon DEF uLoopA
  <2> QED  BY <1>5, <2>4
<1>13. CASE RecvB
  <2>1. /\ UNCHANGED <<fails, written, ended, chA>>
        /\ wireAB # <<>> /\ wireAB' = Tail(wireAB)
    BY <1>13, Zenon DEF RecvB, uB
  <2>2. fails = 0
    BY <1>3, <2>1
  <2>3. CASE ~streamB
    <3>1. UNCHANGED <<streamB, arrived>>
      BY <1>13, <2>3, Zenon DEF RecvB
    <3> QED  BY <1>4, <2>1, <2>2, <2>3, <3>1, Zenon
  <2>4. CASE streamB /\ Head(wireAB).kind = "close"
    <3>1. streamB' = FALSE /\ arrived' = arrived
      BY <1>13, <2>4, Zenon DEF RecvB
    <3>2. Underway(written, ended, arrived, wireAB, chA)
      BY <1>4, <2>2, <2>4
    <3>3. Over(written, ended, arrived)
      BY <1>1, <2>1, <2>4, <3>2, UnderwayClose
    <3> QED  BY <2>1, <3>1, <3>3, Zenon
  <2>5. CASE streamB /\ Head(wireAB).kind # "close"
    <3>1. ~(/\ Head(wireAB).kind = "data"
            /\ Bytes(recvQ) + rLeft + Head(wireAB).len > Window + MaxFrame)
      BY <1>4, <2>1, <2>2, WithinLimit DEF FlowInv
    <3>2. arrived' = Append(arrived, Head(wireAB).seq) /\ streamB' = streamB
      BY <1>13, <2>5, <3>1, Zenon DEF RecvB
    <3>3. Underway(written, ended, arrived, wireAB, chA)
      BY <1>4, <2>2, <2>5
    <3>4. Underway(written, ended, Append(arrived, Head(wireAB).seq),
                   Tail(wireAB), chA)
      BY <1>1, <2>1, <3>3, UnderwayRecv
    <3> QED  BY <2>1, <2>5, <3>2, <3>4, Zenon
  <2> QED  BY <2>3, <2>4, <2>5
<1>14. CASE CloseB \/ ReadTake \/ ReadCopy \/ Noise \/ PushFull \/ SendB
           \/ RecvA
            \/ FlushPendingWindowUpdates
  <2>1. CASE CloseB
    <3>1. fails' = fails \/ fails' = fails + 1
      BY <2>1, Zenon DEF CloseB
    <3>2. fails' = fails
      BY <1>1, <3>1
    <3>3. UNCHANGED <<fails, streamB, written, ended, arrived, wireAB, chA>>
      BY <2>1, <3>2, Zenon DEF CloseB
    <3> QED  BY <1>5, <3>3
  <2>2. CASE ~CloseB
    <3>1. UNCHANGED <<fails, streamB, written, ended, arrived, wireAB, chA>>
      BY <1>14, <2>2, Zenon
      DEF ReadTake, ReadCopy, Noise, PushFull, SendB, RecvA,
          FlushPendingWindowUpdates, uB
    <3> QED  BY <1>5, <3>1
  <2> QED  BY <2>1, <2>2
<1> QED  BY <1>6, <1>7, <1>8, <1>9, <1>10, <1>11, <1>12, <1>13, <1>14 DEF Next

-----------------------------------------------------------------------------
(* The invariant holds, and what follows from it.                           *)

\* At the start.
LEMMA FlowInit == Init => FlowInv
<1> SUFFICES ASSUME Init PROVE FlowInv
  OBVIOUS
<1> USE Consts
<1>1. TypeOK
  <2>1. TypeFlags
    BY Zenon DEF Init, TypeFlags
  <2>2. TypeWrite
    BY DEF Init, TypeWrite
  <2>3. TypeQueues
    BY DEF Init, TypeQueues
  <2> QED  BY <2>1, <2>2, <2>3, TypeParts
<1>2. AllSized /\ WriterKnows
  BY DEF Init, AllSized, WriterKnows
<1>3. Account = Window
  <2>1. Debited = 0
    BY DEF Init, Debited
  <2>2. Flight = 0 + 0 + 0 /\ Bytes(recvQ) = 0 /\ Owed = 0 + 0 + 0
    BY BytesEmpty, Zenon DEF Init, Flight, Owed
  <2>3. window = Window
    BY DEF Init
  <2> QED  BY <2>1, <2>2, <2>3 DEF Account
<1>4. Balanced
  BY <1>3 DEF Balanced
<1>5. ~violated /\ NothingFailed
  BY Zenon DEF Init, NothingFailed
<1>6. Ordered
  <2>1. Underway(0, "no", <<>>, <<>>, <<>>)
    BY DEF Underway
  <2> QED  BY <2>1, Zenon DEF Init, Ordered
<1> QED  BY <1>1, <1>2, <1>4, <1>5, <1>6, Zenon DEF FlowInv

\* Every step keeps it.
LEMMA FlowStep == FlowInv /\ [Next]_vars => FlowInv'
<1>1. ASSUME FlowInv, Next PROVE FlowInv'
  <2>1. TypeOK /\ AllSized /\ WriterKnows /\ Balanced /\ ~violated
        /\ NothingFailed
    BY <1>1 DEF FlowInv
  <2>2. TypeOK'
    BY <1>1, <2>1, TypeStep
  <2>3. AllSized' /\ WriterKnows'
    BY <1>1, <2>1, SizedStep, WriterStep
  <2>4. Balanced'
    BY <1>1, <2>1, <2>2, BalancedStep
  <2>5. ~violated' /\ NothingFailed'
    BY <1>1, <2>1, NotViolatedStep, NothingStep
  <2>6. Ordered'
    BY <1>1, OrderedStep
  <2> QED  BY <2>2, <2>3, <2>4, <2>5, <2>6, Zenon DEF FlowInv
<1>2. ASSUME FlowInv, UNCHANGED vars PROVE FlowInv'
  <2>1. TypeOK'
    BY <1>2, TypeStep DEF FlowInv
  <2>2. AllSized' /\ WriterKnows'
    BY <1>2 DEF FlowInv, AllSized, WriterKnows, vars
  <2>3. Balanced'
    BY <1>2, Zenon
    DEF FlowInv, Balanced, Account, Healthy, Debited, Flight, Owed, vars
  <2>4. ~violated' /\ NothingFailed' /\ Ordered'
    BY <1>2, Zenon DEF FlowInv, NothingFailed, Ordered, vars
  <2> QED  BY <2>1, <2>2, <2>3, <2>4, Zenon DEF FlowInv
<1> QED  BY <1>1, <1>2

\* Both ends of a stream, with their channels, writeLoops, retransmission
\* queue and tickers, keep the invariant: each byte of the window is in one
\* place, no stream is aborted for its window, and order holds until a Send
\* fails.
THEOREM FlowInvariant == Spec => []FlowInv
<1>1. Init => FlowInv
  BY FlowInit
<1>2. FlowInv /\ [Next]_vars => FlowInv'
  BY FlowStep
<1> QED  BY <1>1, <1>2, PTL DEF Spec

\* Every variable of the two muxes stays in its type.
THEOREM FlowTypes == Spec => []TypeOK
<1>1. FlowInv => TypeOK
  BY DEF FlowInv
<1> QED  BY <1>1, FlowInvariant, PTL

\* Every byte of the window is accounted for in the queues of both muxes
\* while the stream lives; afterwards bytes may be lost but none appear,
\* until a mux that gave up on retransmitting sends a frame twice.
THEOREM WindowAccounted == Spec => []Balanced
<1>1. FlowInv => Balanced
  BY DEF FlowInv
<1> QED  BY <1>1, FlowInvariant, PTL

\* pushFrame never aborts a healthy stream for exceeding its window, whatever
\* is queued, retransmitted or put on account on the way.
THEOREM NeverAborted == Spec => []~violated
<1>1. FlowInv => ~violated
  BY DEF FlowInv
<1> QED  BY <1>1, FlowInvariant, PTL

\* While no Send fails, frames arrive in the order they were written, each
\* once, and the half-close or close after all of them, whatever the
\* interleaving of Write, Close, the two writeLoops and the tickers.
THEOREM InOrderWithoutFailure == Spec => []InOrderIfNoSendFails
<1>1. FlowInv => InOrderIfNoSendFails
  <2> SUFFICES ASSUME FlowInv, fails = 0 PROVE ArrivesInOrder
    BY DEF InOrderIfNoSendFails
  <2>1. written \in Nat /\ arrived \in Seq(Nat)
    BY TypeParts DEF FlowInv, TypeWrite, TypeQueues
  <2>2. \A i \in 1..Len(arrived) : Belongs(written, i, arrived[i])
    BY DEF FlowInv, Ordered, Underway, Over
  <2>3. \A i \in 1..Len(arrived) :
          IF arrived[i] # 0 THEN arrived[i] = i ELSE i = written + 1
    BY <2>1, <2>2 DEF Belongs
  <2>4. ~streamB => Len(arrived) = written
    BY DEF FlowInv, Ordered, Over
  <2> QED  BY <2>3, <2>4 DEF ArrivesInOrder
<1> QED  BY <1>1, FlowInvariant, PTL

-----------------------------------------------------------------------------
(* Both ends implement MuxCredit.                                           *)

\* The detailed specification starts where the contract does.
LEMMA CreditStarts == Init => Abstract!Init
<1> SUFFICES ASSUME Init PROVE Abstract!Init
  OBVIOUS
<1>1. Healthy
  BY Zenon DEF Init, Healthy
<1>2. /\ Bytes(chA) + Bytes(wireAB) + RBytes(retrans) = 0
      /\ Bytes(recvQ) = 0
      /\ pendingCredit + Sum(chB) + Sum(wireBA) = 0
  <2>1. /\ Bytes(chA) + Bytes(wireAB) + RBytes(retrans) = 0 + 0 + 0
        /\ Bytes(recvQ) = 0
        /\ pendingCredit + Sum(chB) + Sum(wireBA) = 0 + 0 + 0
    BY BytesEmpty, Zenon DEF Init
  <2> QED  BY <2>1
<1>3. wpc = "idle" /\ window = Window /\ rLeft = 0 /\ violated = FALSE
  BY DEF Init
<1>4. Healthy = TRUE
  BY <1>1, Zenon DEF Healthy
<1> QED  BY <1>1, <1>2, <1>3, <1>4 DEF Abstract!Init, If

\* A step after the end leaves the contract's state alone.
LEMMA DeadStep ==
    ASSUME ~Healthy, ~Healthy', violated' = violated
    PROVE  UNCHANGED Abstract!vars
<1>1. Healthy' = Healthy
  BY Zenon DEF Healthy
<1> QED  BY <1>1, Zenon DEF Abstract!vars, If

\* The step that ends the stream.
LEMMA EndStep ==
    ASSUME Healthy, ~Healthy', violated' = violated
    PROVE  Abstract!Terminate
<1>1. Healthy' = FALSE
  BY Zenon DEF Healthy
<1> QED  BY <1>1, Zenon DEF Abstract!Terminate, Abstract!Shut, If

\* A step of a live stream is a step of the contract.
LEMMA LiveStep ==
    ASSUME FlowInv, Healthy, Healthy', violated' = violated, Classified
    PROVE  Abstract!Next \/ UNCHANGED Abstract!vars
<1>1. Healthy = TRUE /\ Healthy' = TRUE
  BY Zenon DEF Healthy
<1>2. CountTypes
  BY Counts DEF FlowInv
<1>3. CASE Still
  BY <1>1, <1>3, Zenon
  DEF Abstract!vars, If, Still, Debited, Flight, Owed
<1>4. CASE AsDebit
  <2>1. Abstract!Debit
    BY <1>1, <1>4, Zenon DEF Abstract!Debit, If, AsDebit, Debited, Flight, Owed
  <2> QED  BY <2>1 DEF Abstract!Next
<1>5. CASE AsLoss \/ closing'
  BY <1>5, Zenon DEF AsLoss, Healthy
<1>6. ASSUME NEW n \in Nat, AsEnqueue(n) PROVE Abstract!Enqueue
  BY <1>1, <1>6, Zenon
  DEF Abstract!Enqueue, If, AsEnqueue, Debited, Flight, Owed
<1>7. ASSUME NEW n \in Nat, AsArrive(n) PROVE Abstract!Arrive
  BY <1>1, <1>7, Zenon DEF Abstract!Arrive, If, AsArrive, Debited, Flight, Owed
<1>8. ASSUME NEW n \in Nat, AsTake(n) PROVE Abstract!Take
  BY <1>1, <1>8, Zenon DEF Abstract!Take, If, AsTake, Debited, Flight, Owed
<1>9. ASSUME NEW n \in Nat, AsConsume(n) PROVE Abstract!Consume
  BY <1>1, <1>9, Zenon
  DEF Abstract!Consume, If, AsConsume, Debited, Flight, Owed
<1>10. ASSUME NEW n \in Nat, AsCredit(n) PROVE Abstract!Credit
  <2>1. Debited <= window
    BY <1>2 DEF FlowInv, WriterKnows, Debited, CountTypes
  <2>2. Account = Window
    BY DEF FlowInv, Balanced
  <2>3. n # 0 /\ n <= Owed
    BY <1>10 DEF AsCredit
  <2>4. n \in 1..Window
    BY ONLY <1>2, <2>1, <2>2, <2>3, n \in Nat, Consts DEF Account, CountTypes
  <2> QED  BY <1>1, <1>10, <2>4, Zenon
           DEF Abstract!Credit, If, AsCredit, Debited, Flight, Owed
<1> QED  BY <1>3, <1>4, <1>5, <1>6, <1>7, <1>8, <1>9, <1>10
         DEF Classified, Abstract!Next

\* Every step of both muxes is a step of the contract, or none.
LEMMA CreditSteps ==
    FlowInv /\ FlowInv' /\ [Next]_vars => [Abstract!Next]_(Abstract!vars)
<1>1. ASSUME FlowInv, FlowInv', Next
      PROVE  Abstract!Next \/ UNCHANGED Abstract!vars
  <2>1. violated' = violated
    <3>1. violated \in BOOLEAN /\ violated' \in BOOLEAN
      <4>1. TypeOK' => TypeFlags'
        BY TypeParts, PTL
      <4>2. TypeOK => TypeFlags
        BY TypeParts
      <4> QED  BY <1>1, <4>1, <4>2, Zenon DEF FlowInv, TypeFlags
    <3> QED  BY <1>1, <3>1, Zenon DEF FlowInv
  <2>2. Classified
    BY <1>1, EveryStep DEF FlowInv
  <2>3. Healthy' => Healthy
    BY <1>1, EndsForGood DEF FlowInv
  <2>4. CASE ~Healthy
    BY <2>1, <2>3, <2>4, DeadStep
  <2>5. CASE Healthy /\ ~Healthy'
    BY <2>1, <2>5, EndStep DEF Abstract!Next
  <2>6. CASE Healthy /\ Healthy'
    BY <1>1, <2>1, <2>2, <2>6, LiveStep
  <2> QED  BY <2>4, <2>5, <2>6
<1>2. ASSUME UNCHANGED vars PROVE UNCHANGED Abstract!vars
  BY <1>2, Zenon DEF vars, Abstract!vars, If, Healthy
<1> QED  BY <1>1, <1>2

\* The channels, the credit that could not be sent and is queued, the
\* retransmissions and the two tables implement the contract MuxCredit.
THEOREM FlowImplementsCredit == Spec => ImplementsCredit
<1>1. Init => Abstract!Init
  BY CreditStarts
<1>2. FlowInv /\ FlowInv' /\ [Next]_vars => [Abstract!Next]_(Abstract!vars)
  BY CreditSteps
<1> QED  BY <1>1, <1>2, FlowInvariant, PTL
         DEF Spec, ImplementsCredit, Abstract!Spec

-----------------------------------------------------------------------------
(* What the contract promises, over variables of its own.                   *)

VARIABLES open, cWindow, debit, flight, queued, held, owed, cViolated

Credit == INSTANCE MuxCredit WITH window <- cWindow, violated <- cViolated

\* The contract's invariant at the start.
LEMMA CreditInit == Credit!Init => Credit!CreditInv
<1> SUFFICES ASSUME Credit!Init PROVE Credit!CreditInv
  OBVIOUS
<1> USE Consts DEF Credit!Init
<1>1. Credit!TypeOK
  <2>1. open \in BOOLEAN /\ cViolated \in BOOLEAN
    BY Zenon
  <2> QED  BY <2>1 DEF Credit!TypeOK
<1>2. Credit!Conservation /\ Credit!WindowInRange
  BY DEF Credit!Conservation, Credit!WindowInRange
<1>3. Credit!HeldBounded /\ Credit!NoViolation
  BY DEF Credit!HeldBounded, Credit!NoViolation
<1> QED  BY <1>1, <1>2, <1>3 DEF Credit!CreditInv

\* Each action keeps the invariant.  Conservation does the work: with it the
\* bytes queued and travelling never exceed the window, and with HeldBounded
\* the window test of Arrive cannot fail.
LEMMA CreditStep ==
    Credit!CreditInv /\ [Credit!Next]_(Credit!vars) => Credit!CreditInv'
<1> SUFFICES ASSUME Credit!CreditInv, [Credit!Next]_(Credit!vars)
             PROVE  Credit!CreditInv'
  OBVIOUS
<1> USE Consts
        DEF Credit!CreditInv, Credit!TypeOK, Credit!Conservation,
            Credit!WindowInRange, Credit!HeldBounded, Credit!NoViolation
<1>1. CASE Credit!Enqueue
  BY <1>1 DEF Credit!Enqueue
<1>2. CASE Credit!Debit
  BY <1>2 DEF Credit!Debit
<1>3. CASE Credit!Arrive
  <2>1. PICK n \in 1..MaxFrame :
           /\ n <= flight
           /\ IF queued + held + n > Window + MaxFrame
              THEN Credit!Shut /\ cViolated' = TRUE
              ELSE /\ flight' = flight - n
                   /\ queued' = queued + n
                   /\ UNCHANGED <<open, cWindow, debit, held, owed, cViolated>>
    BY <1>3 DEF Credit!Arrive
  <2>2. queued + n <= Window
    BY <1>3, <2>1 DEF Credit!Arrive
  <2>3. ~(queued + held + n > Window + MaxFrame)
    BY <2>2
  <2> QED  BY <1>3, <2>1, <2>3 DEF Credit!Arrive
<1>4. CASE Credit!Take
  BY <1>4 DEF Credit!Take
<1>5. CASE Credit!Consume
  BY <1>5 DEF Credit!Consume
<1>6. CASE Credit!Credit
  BY <1>6 DEF Credit!Credit
<1>7. CASE Credit!Terminate
  <2>1. open' = FALSE /\ cViolated' = cViolated
    BY <1>7 DEF Credit!Terminate, Credit!Shut
  <2>2. open' \in BOOLEAN /\ cViolated' \in BOOLEAN
    BY <2>1, Zenon
  <2> QED  BY <1>7, <2>1, <2>2 DEF Credit!Terminate, Credit!Shut
<1>8. CASE UNCHANGED Credit!vars
  BY <1>8 DEF Credit!vars
<1> QED
  BY <1>1, <1>2, <1>3, <1>4, <1>5, <1>6, <1>7, <1>8 DEF Credit!Next

\* The contract's invariant holds in every reachable state.
THEOREM CreditInvariant == Credit!Spec => []Credit!CreditInv
<1>1. Credit!Init => Credit!CreditInv
  BY CreditInit
<1>2. Credit!CreditInv /\ [Credit!Next]_(Credit!vars) => Credit!CreditInv'
  BY CreditStep
<1> QED  BY <1>1, <1>2, PTL DEF Credit!Spec

\* No credit is lost and none is given twice, whatever the window.
THEOREM CreditConserved == Credit!Spec => []Credit!Conservation
<1>1. Credit!CreditInv => Credit!Conservation
  BY DEF Credit!CreditInv
<1> QED  BY <1>1, CreditInvariant, PTL

\* The limit of pushFrame (window plus one frame) never aborts a stream whose
\* two ends follow the protocol.
THEOREM NeverViolated == Credit!Spec => []Credit!NoViolation
<1>1. Credit!CreditInv => Credit!NoViolation
  BY DEF Credit!CreditInv
<1> QED  BY <1>1, CreditInvariant, PTL
=============================================================================

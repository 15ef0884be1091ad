------------------------------ MODULE MuxFlow ------------------------------
(***************************************************************************)
(* One direction of one mux stream across a connection, with both muxes'   *)
(* loops (pkg/tunnel/mux): the application writes at end A and reads at    *)
(* end B.  Data goes Write -> writeCh -> writeLoop -> conn -> readLoop ->  *)
(* receive queue -> Read; credit goes back Read -> writeCh (or, when that  *)
(* is full, pendingWindowUpdate) -> writeLoop -> conn -> readLoop ->       *)
(* windowSize.  A Send of A may fail; a data frame is then queued for      *)
(* retransmission.                                                         *)
(*                                                                         *)
(* The two receive queues of MuxStream are one FIFO here, its first inChan *)
(* frames in dataCh and the rest in pending: Read's two looks are one step *)
(* and MuxStream has what can happen between them.  What stays is the step *)
(* of pushFrame from a full dataCh to the lock of pending: Read may empty  *)
(* the channel and go to sleep in between, and waitForData is not woken by *)
(* pending.  The frames of B's other streams are noise that competes for   *)
(* writeCh.                                                                *)
(***************************************************************************)
EXTENDS Integers, Sequences, FiniteSets

CONSTANTS
    Window,       \* DefaultWindowSize
    MaxFrame,     \* MaxFramePayload
    WriteCap,     \* capacity of writeCh
    WireCap,      \* messages the connection buffers before Send blocks
    SignalCap,    \* capacity of windowUpdateCh
    RecvCap,      \* capacity of dataCh
    maxRetransmitQ,
    maxRetries,
    MaxWrites,    \* bound: Writes that get their frame into writeCh
    MaxNoise,     \* bound: frames of B's other streams
    MaxFails      \* bound: failing Sends

ASSUME FlowAssumption ==
    /\ {Window, MaxFrame, WriteCap, WireCap, SignalCap, RecvCap,
        maxRetransmitQ, maxRetries} \subseteq Nat \ {0}
    /\ {MaxWrites, MaxNoise, MaxFails} \subseteq Nat

VARIABLES
    wpc, wlen,     \* where Write is, and the length it settled on
    window,        \* A: windowSize
    signal,        \* A: tokens in windowUpdateCh
    chA, chB,      \* writeCh of each mux
    lpc,           \* A's writeLoop: at its select, or before scanRetransmitQ
    retrans,       \* A: retransmitQ, a sequence of [frame, retries]
    wireAB, wireBA,
    recvQ, rLeft,  \* B: frames received and not read; unread bytes of rBuf
    inChan,        \* B: how many of recvQ are in dataCh, the rest in pending
    spilling,      \* B: pushFrame left dataCh full and is about to lock
                   \*    pending, with the frame at the head of wireAB
    stranded,      \* B: Read sleeps in waitForData with frames in pending only
    pendingCredit, \* B: pendingWindowUpdate
    streamA, streamB, \* the stream is in each mux's table
    closing,       \* A: a go m.Close() was started
    closedA, closedB, \* mux.Close has run
    violated,      \* B aborted a healthy stream for exceeding its window
    ended,         \* A: "no", or the half-close or close already requested
    written, noise, fails,
    arrived        \* numbers of the frames B's readLoop has seen, in order

vars == <<wpc, wlen, window, signal, chA, chB, lpc, retrans, wireAB, wireBA,
          recvQ, rLeft, inChan, spilling, stranded, pendingCredit, streamA,
          streamB, closing, closedA, closedB, violated, ended, written, noise,
          fails, arrived>>
readB == <<inChan, spilling, stranded>>

Frame == [kind : {"data", "closeWrite", "close"}, seq : Nat, len : Nat]
Data(k, n) == [kind |-> "data", seq |-> k, len |-> n]
Mark(kind) == [kind |-> kind, seq |-> 0, len |-> 0]

\* A sum, as the number of units it consists of.  The bytes of a queue of
\* frames and of the retransmission queue; a queue of credits is its own sum.
Units(s) == UNION {{i} \X (1..s[i]) : i \in DOMAIN s}
Sum(s) == Cardinality(Units(s))
Bytes(q) == Sum([i \in 1..Len(q) |-> q[i].len])
RBytes(q) == Sum([i \in 1..Len(q) |-> q[i].frame.len])

\* The one sequence that lists the numbers of S in ascending order.
Ascending(S) ==
    {s \in [1..Cardinality(S) -> S] :
        \A i, j \in 1..Cardinality(S) : i < j => s[i] < s[j]}

Init ==
    /\ wpc = "idle" /\ wlen = 0 /\ window = Window /\ signal = 0
    /\ chA = <<>> /\ chB = <<>> /\ lpc = "select" /\ retrans = <<>>
    /\ wireAB = <<>> /\ wireBA = <<>>
    /\ recvQ = <<>> /\ rLeft = 0 /\ pendingCredit = 0
    /\ inChan = 0 /\ spilling = FALSE /\ stranded = FALSE
    /\ streamA = TRUE /\ streamB = TRUE
    /\ closing = FALSE /\ closedA = FALSE /\ closedB = FALSE
    /\ violated = FALSE /\ ended = "no"
    /\ written = 0 /\ noise = 0 /\ fails = 0 /\ arrived = <<>>

\* The done channel of a stream is closed: mux.Close or removeStream ran.
doneA == closedA \/ ~streamA
doneB == closedB \/ ~streamB
Healthy == streamA /\ streamB /\ ~closing /\ ~closedA /\ ~closedB

-----------------------------------------------------------------------------
(* A's application: Write, CloseWrite and Close.                            *)

uApp == <<chB, lpc, retrans, wireAB, wireBA, recvQ, rLeft, pendingCredit,
          streamA, streamB, closing, closedA, closedB, violated, noise, fails,
          arrived, readB>>

WriteBegin ==
    /\ wpc = "idle" /\ ended = "no" /\ ~doneA
    /\ wpc' = "check"
    /\ UNCHANGED <<wlen, window, signal, chA, ended, written, uApp>>

\* The loop on windowSize: leave it with a length, or block until a token of
\* windowUpdateCh, then look again, or fail because the stream is done.
WriteSize ==
    /\ wpc = "check"
    /\ IF window > 0
       THEN /\ \E n \in 1..MaxFrame : n <= window /\ wlen' = n
            /\ wpc' = "enqueue"
       ELSE wpc' = "wait" /\ UNCHANGED wlen
    /\ UNCHANGED <<window, signal, chA, ended, written, uApp>>

WriteWake ==
    /\ wpc = "wait" /\ signal > 0
    /\ signal' = signal - 1
    /\ wpc' = "check"
    /\ UNCHANGED <<wlen, window, chA, ended, written, uApp>>

WriteFails ==
    /\ wpc \in {"enqueue", "wait"}
    /\ doneA
    /\ wpc' = "idle" /\ wlen' = 0
    /\ UNCHANGED <<window, signal, chA, ended, written, uApp>>

WriteEnqueue ==
    /\ wpc = "enqueue" /\ Len(chA) < WriteCap /\ written < MaxWrites
    /\ chA' = Append(chA, Data(written + 1, wlen))
    /\ written' = written + 1
    /\ wpc' = "debit"
    /\ UNCHANGED <<wlen, window, signal, ended, uApp>>

\* Mutant: a Write cut short by the window is not taken off it.
WriteDebit_Free ==
    /\ wpc = "debit"
    /\ window' = IF wlen = window THEN window ELSE window - wlen
    /\ wpc' = "idle" /\ wlen' = 0
    /\ UNCHANGED <<signal, chA, ended, written, uApp>>

WriteDebit ==
    /\ wpc = "debit"
    /\ window' = window - wlen
    /\ wpc' = "idle" /\ wlen' = 0
    /\ UNCHANGED <<signal, chA, ended, written, uApp>>

\* Mutant: Close and CloseWrite go to the connection, not behind the data.
Finish_Direct(kind) ==
    /\ wpc = "idle" /\ ended = "no" /\ ~doneA
    /\ wireAB' = Append(wireAB, Mark(kind))
    /\ ended' = kind
    /\ UNCHANGED <<wpc, wlen, window, signal, written, chA, chB, lpc, retrans,
                   wireBA, recvQ, rLeft, pendingCredit, streamA, streamB,
                   closing, closedA, closedB, violated, noise, fails, arrived,
                   readB>>

\* CloseWrite and Close put a marker behind the data; the application
\* writes nothing after it.
Finish(kind) ==
    /\ wpc = "idle" /\ ended = "no" /\ ~doneA
    /\ Len(chA) < WriteCap
    /\ chA' = Append(chA, Mark(kind))
    /\ ended' = kind
    /\ UNCHANGED <<wpc, wlen, window, signal, written, uApp>>

-----------------------------------------------------------------------------
(* A's writeLoop: sendFrame for each message, then scanRetransmitQ.         *)

uLoopA == <<wpc, wlen, window, signal, chB, wireBA, recvQ, rLeft,
            pendingCredit, streamB, closedB, violated, ended, written, noise,
            arrived, readB>>

\* Send succeeds.  After a Close frame the stream leaves A's table.
SendOK ==
    /\ lpc = "select" /\ ~closedA /\ chA # <<>> /\ Len(wireAB) < WireCap
    /\ wireAB' = Append(wireAB, Head(chA))
    /\ chA' = Tail(chA)
    /\ streamA' = (streamA /\ Head(chA).kind # "close")
    /\ lpc' = "scan"
    /\ UNCHANGED <<retrans, closing, closedA, fails, uLoopA>>

\* Send fails without the connection being closed.  A data frame is queued
\* for retransmission, unless the queue is full; for a control frame the mux
\* closes at once.
SendFails ==
    /\ lpc = "select" /\ ~closedA /\ chA # <<>> /\ fails < MaxFails
    /\ fails' = fails + 1
    /\ chA' = Tail(chA)
    /\ lpc' = "scan"
    /\ IF Head(chA).kind # "data"
       THEN closedA' = TRUE /\ UNCHANGED <<retrans, closing>>
       ELSE /\ UNCHANGED closedA
            /\ IF Len(retrans) >= maxRetransmitQ
               THEN closing' = TRUE /\ UNCHANGED retrans
               ELSE /\ retrans' = Append(retrans, [frame |-> Head(chA),
                                                   retries |-> 0])
                    /\ UNCHANGED closing
    /\ UNCHANGED <<wireAB, streamA, uLoopA>>

\* Mutant: no ticker; the queue is scanned after a send only.
TickA_OnlyBusy ==
    /\ lpc = "select" /\ ~closedA /\ retrans # <<>> /\ chA # <<>>
    /\ lpc' = "scan"
    /\ UNCHANGED <<chA, retrans, wireAB, streamA, closing, closedA, fails,
                   uLoopA>>

\* The 50 ms ticker of A only matters for the scan that follows it.
TickA ==
    /\ lpc = "select" /\ ~closedA /\ retrans # <<>>
    /\ lpc' = "scan"
    /\ UNCHANGED <<chA, retrans, wireAB, streamA, closing, closedA, fails,
                   uLoopA>>

\* One pass over retransmitQ.  An entry that is not due is kept; one that is
\* due is sent, or fails and counts a retry.  The entry that exhausts its
\* retries stops the pass, starts the Close and leaves the queue as it was.
\* The pass is one step: B takes frames off the wire while it goes on.
Exhausts(i, outcome) ==
    outcome[i] = "fail" /\ retrans[i].retries + 1 >= maxRetries

Kept(i, failed) ==
    [frame |-> retrans[i].frame,
     retries |-> IF i \in failed THEN retrans[i].retries + 1
                 ELSE retrans[i].retries]

Scan(Outcomes) ==
    /\ lpc = "scan"
    /\ lpc' = "select"
    /\ \E outcome \in [1..Len(retrans) -> Outcomes] :
          LET stops == {i \in 1..Len(retrans) : Exhausts(i, outcome)}
              seen == {i \in 1..Len(retrans) : \A j \in stops : i <= j}
              sent == {i \in seen : outcome[i] = "ok"}
              failed == {i \in seen : outcome[i] = "fail"}
          IN /\ fails + Cardinality(failed) <= MaxFails
             /\ fails' = fails + Cardinality(failed)
             /\ sent # {} => Len(wireAB) < WireCap
             /\ closedA => failed = {} /\ sent = {}
             /\ \E order \in Ascending(sent) :
                   wireAB' = wireAB \o [i \in 1..Cardinality(sent) |->
                                           retrans[order[i]].frame]
             /\ closing' = (closing \/ stops # {})
             /\ IF stops # {}
                THEN UNCHANGED retrans
                ELSE \E order \in Ascending(seen \ sent) :
                        retrans' = [i \in 1..Cardinality(seen \ sent) |->
                                      Kept(order[i], failed)]
    /\ UNCHANGED <<chA, streamA, closedA, uLoopA>>

ScanRetransmitQ == Scan({"keep", "ok", "fail"})

\* The goroutine of go m.Close(), or A's readLoop after B closed.
CloseA ==
    /\ ~closedA /\ (closing \/ closedB)
    /\ closedA' = TRUE
    /\ UNCHANGED <<chA, lpc, retrans, wireAB, streamA, closing, fails, uLoopA>>

-----------------------------------------------------------------------------
(* B's readLoop, application and writeLoop.                                 *)

uB == <<wpc, wlen, chA, lpc, retrans, streamA, closing, closedA, ended,
        written, fails>>

\* readLoop at B: the head of the wire is a frame pushFrame accepts.
Accepts ==
    /\ streamB /\ Head(wireAB).kind # "close"
    /\ Head(wireAB).kind = "data" =>
          Bytes(recvQ) + rLeft + Head(wireAB).len <= Window + MaxFrame

\* pending holds nothing and dataCh is full.
Overflows == Len(recvQ) <= inChan /\ inChan >= RecvCap

\* The select of pushFrame takes its default branch.  The frame is queued by
\* the RecvB that follows, whatever Read does in between.
PushFull ==
    /\ ~closedB /\ wireAB # <<>> /\ ~spilling
    /\ Accepts /\ Overflows
    /\ spilling' = TRUE
    /\ UNCHANGED <<window, signal, chB, wireAB, wireBA, recvQ, rLeft, inChan,
                   stranded, pendingCredit, streamB, closedB, violated, noise,
                   arrived, uB>>

\* readLoop at B.  Frames for an unknown stream are dropped.  A frame that
\* follows others in pending, or comes from PushFull, goes to pending.  When
\* Read has emptied both queues since PushFull, it may be asleep by now: only
\* dataCh and done wake it, and from now on dataCh gets nothing.
RecvB ==
    /\ wireAB # <<>>
    /\ \/ spilling
       \/ ~closedB /\ ~(Accepts /\ Overflows)
    /\ wireAB' = Tail(wireAB)
    /\ spilling' = FALSE
    /\ stranded' \in IF spilling /\ recvQ = <<>> /\ rLeft = 0
                     THEN BOOLEAN ELSE {stranded}
    /\ LET f == Head(wireAB) IN
       IF ~streamB
       THEN UNCHANGED <<recvQ, inChan, streamB, violated, arrived>>
       ELSE IF f.kind = "close"
       THEN streamB' = FALSE /\ UNCHANGED <<recvQ, inChan, violated, arrived>>
       ELSE IF f.kind = "data"
               /\ Bytes(recvQ) + rLeft + f.len > Window + MaxFrame
       THEN /\ streamB' = FALSE /\ violated' = (violated \/ Healthy)
            /\ UNCHANGED <<recvQ, inChan, arrived>>
       ELSE /\ recvQ' = Append(recvQ, f)
            /\ inChan' = IF spilling \/ Len(recvQ) > inChan
                         THEN inChan ELSE inChan + 1
            /\ arrived' = Append(arrived, f.seq)
            /\ UNCHANGED <<streamB, violated>>
    /\ UNCHANGED <<window, signal, chB, wireBA, rLeft, pendingCredit, closedB,
                   noise, uB>>

\* Receive reports the connection A closed; or a Send of B failed, which for
\* a WindowUpdate frame closes the mux.
CloseB ==
    /\ ~closedB
    /\ \/ closedA /\ UNCHANGED fails
       \/ chB # <<>> /\ fails < MaxFails /\ fails' = fails + 1
    /\ closedB' = TRUE
    /\ UNCHANGED <<window, signal, chB, wireAB, wireBA, recvQ, rLeft,
                   pendingCredit, streamB, violated, noise, arrived, readB,
                   wpc, wlen, chA, lpc, retrans, streamA, closing, closedA,
                   ended, written>>

\* Read takes a frame, unless it is stranded; done wakes it even then.  Data
\* is credited at once, through writeCh when it has room and on account
\* otherwise.  An EOF marker carries no credit.
ReadTake ==
    /\ rLeft = 0 /\ recvQ # <<>>
    /\ stranded => doneB
    /\ stranded' = FALSE
    /\ recvQ' = Tail(recvQ)
    /\ inChan' = IF inChan > 0 THEN inChan - 1 ELSE 0
    /\ rLeft' = Head(recvQ).len
    /\ IF rLeft' = 0 \/ closedB
       THEN UNCHANGED <<chB, pendingCredit>>
       ELSE IF Len(chB) < WriteCap
       THEN chB' = Append(chB, rLeft') /\ UNCHANGED pendingCredit
       ELSE pendingCredit' = pendingCredit + rLeft' /\ UNCHANGED chB
    /\ UNCHANGED <<window, signal, wireAB, wireBA, spilling, streamB, closedB,
                   violated, noise, arrived, uB>>

ReadCopy ==
    /\ \E n \in 1..rLeft : rLeft' = rLeft - n
    /\ UNCHANGED <<window, signal, chB, wireAB, wireBA, recvQ, pendingCredit,
                   streamB, closedB, violated, noise, arrived, readB, uB>>

\* Another stream of B puts a frame in writeCh.
Noise ==
    /\ ~closedB /\ noise < MaxNoise /\ Len(chB) < WriteCap
    /\ chB' = Append(chB, 0) /\ noise' = noise + 1
    /\ UNCHANGED <<window, signal, wireAB, wireBA, recvQ, rLeft, pendingCredit,
                   streamB, closedB, violated, arrived, readB, uB>>

SendB ==
    /\ ~closedB /\ chB # <<>> /\ Len(wireBA) < WireCap
    /\ wireBA' = Append(wireBA, Head(chB))
    /\ chB' = Tail(chB)
    /\ UNCHANGED <<window, signal, wireAB, recvQ, rLeft, pendingCredit,
                   streamB, closedB, violated, noise, arrived, readB, uB>>

\* flushPendingWindowUpdates, for streams still in the table.  When writeCh
\* is full the credit taken is put back.
FlushPendingWindowUpdates ==
    /\ ~closedB /\ streamB /\ pendingCredit > 0
    /\ Len(chB) < WriteCap
    /\ chB' = Append(chB, pendingCredit)
    /\ pendingCredit' = 0
    /\ UNCHANGED <<window, signal, wireAB, wireBA, recvQ, rLeft, streamB,
                   closedB, violated, noise, arrived, readB, uB>>

\* Mutant: the writer is not told.
RecvA_NoToken ==
    /\ ~closedA /\ wireBA # <<>>
    /\ wireBA' = Tail(wireBA)
    /\ window' = IF streamA THEN window + Head(wireBA) ELSE window
    /\ UNCHANGED <<signal, chB, wireAB, recvQ, rLeft, pendingCredit, streamB,
                   closedB, violated, noise, arrived, readB, uB>>

\* readLoop at A: handleWindowUpdateFrame.
RecvA ==
    /\ ~closedA /\ wireBA # <<>>
    /\ wireBA' = Tail(wireBA)
    /\ IF streamA /\ Head(wireBA) > 0
       THEN /\ window' = window + Head(wireBA)
            /\ signal' = IF signal < SignalCap THEN signal + 1 ELSE signal
       ELSE UNCHANGED <<window, signal>>
    /\ UNCHANGED <<chB, wireAB, recvQ, rLeft, pendingCredit, streamB, closedB,
                   violated, noise, arrived, readB, uB>>

-----------------------------------------------------------------------------
Next ==
    \/ WriteBegin \/ WriteSize \/ WriteWake \/ WriteFails \/ WriteEnqueue
    \/ WriteDebit \/ Finish("closeWrite") \/ Finish("close")
    \/ SendOK \/ SendFails \/ TickA \/ ScanRetransmitQ \/ CloseA
    \/ PushFull \/ RecvB \/ CloseB \/ ReadTake \/ ReadCopy
    \/ Noise \/ SendB \/ FlushPendingWindowUpdates \/ RecvA

\* Each goroutine of both muxes runs, the ticker fires, the backoff of a
\* queued frame elapses, and B's application keeps calling Read, which
\* takes a frame unless it is stranded.  Writing, closing and failing are free.
Fairness ==
    /\ WF_vars(WriteSize \/ WriteWake \/ WriteFails \/ WriteEnqueue
               \/ WriteDebit)
    /\ WF_vars(SendOK \/ TickA \/ ScanRetransmitQ)
    /\ SF_vars(Scan({"ok", "fail"}))
    /\ WF_vars(CloseA) /\ WF_vars(PushFull \/ RecvB)
    /\ WF_vars(CloseB /\ closedA)
    /\ WF_vars(ReadTake \/ ReadCopy)
    /\ WF_vars(SendB \/ FlushPendingWindowUpdates) /\ WF_vars(RecvA)

Spec == Init /\ [][Next]_vars /\ Fairness

-----------------------------------------------------------------------------
TypeOK ==
    /\ wpc \in {"idle", "check", "wait", "enqueue", "debit"}
    /\ wlen \in 0..MaxFrame
    /\ window \in Int /\ signal \in 0..SignalCap
    /\ {chA, wireAB, recvQ} \subseteq Seq(Frame)
    /\ {chB, wireBA} \subseteq Seq(Nat)
    /\ lpc \in {"select", "scan"}
    /\ retrans \in Seq([frame : Frame, retries : 0..maxRetries - 1])
    /\ rLeft \in Nat /\ pendingCredit \in Nat
    /\ inChan \in 0..RecvCap /\ {spilling, stranded} \subseteq BOOLEAN
    /\ {streamA, streamB, closing, closedA, closedB, violated}
          \subseteq BOOLEAN
    /\ ended \in {"no", "closeWrite", "close"}
    /\ written \in 0..MaxWrites /\ noise \in 0..MaxNoise
    /\ fails \in 0..MaxFails
    /\ arrived \in Seq(Nat)

\* The flow control promised by MuxCredit, with every counter read as 0 once
\* the stream or the connection has ended.
If(n) == IF Healthy THEN n ELSE 0
Abstract == INSTANCE MuxCredit WITH
    open <- Healthy,
    window <- If(window),
    debit <- If(IF wpc = "debit" THEN wlen ELSE 0),
    flight <- If(Bytes(chA) + Bytes(wireAB) + RBytes(retrans)),
    queued <- If(Bytes(recvQ)),
    held <- If(rLeft),
    owed <- If(pendingCredit + Sum(chB) + Sum(wireBA))

\* The channels, the lost and re-queued credit and the retransmissions of the
\* code implement MuxCredit.
ImplementsCredit == Abstract!Spec

\* A Write that is short of window gets it, or fails, unless the reader at B
\* sleeps over it (stream.go:235-239 against 413-429): no credit is lost when
\* B's writeCh is full (retransmit.go:26-34), and no token when the channel
\* that tells the writer is full.
WriterReleased ==
    wpc \in {"check", "wait"} ~> wpc \notin {"check", "wait"} \/ stranded

\* Data reaches B's readLoop: nothing written stays missing there, unless the
\* stream or a mux is closed.
Missing == 1..written \ {arrived[i] : i \in 1..Len(arrived)}
WrittenArrives == Missing # {} ~> Missing = {} \/ ~Healthy

\* The bytes arrive in the order they were written, each once, and the
\* half-close or close arrives after all of them (retransmit.go:233-237:
\* rather fail the whole connection than produce a silently misaligned byte
\* stream).
ArrivesInOrder ==
    /\ \A i \in 1..Len(arrived) :
          IF arrived[i] # 0 THEN arrived[i] = i ELSE i = written + 1
    /\ ~streamB /\ ~violated => Len(arrived) = written

\* Without a failing Send that is so, whatever the interleaving of Write,
\* Close, the two writeLoops and the tickers.
InOrderIfNoSendFails == fails = 0 => ArrivesInOrder
=============================================================================

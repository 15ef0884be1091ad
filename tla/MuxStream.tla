----------------------------- MODULE MuxStream -----------------------------
(***************************************************************************)
(* The receive half of one mux stream (pkg/tunnel/mux/stream.go).          *)
(*                                                                         *)
(* Two goroutines share it.  The mux's readLoop is the only producer: for  *)
(* every Data or CloseWrite frame it runs pushFrame, which must never      *)
(* block.  The application's Read is the only consumer (rMu).  A frame     *)
(* waits in dataCh, a bounded channel, or, when that is full, in the       *)
(* overflow list pending, guarded by pendingMu.  Every step below is one   *)
(* channel operation, one critical section of pendingMu or one atomic      *)
(* load/store, so all their interleavings are explored.                    *)
(*                                                                         *)
(* The peer is seen through the frames it sends and the window credit it   *)
(* holds; compliant says whether it respects that credit.                  *)
(***************************************************************************)
EXTENDS Integers, Sequences, FiniteSets, SequencesExt

CONSTANTS
    Window,      \* DefaultWindowSize: the credit a stream starts with
    MaxFrame,    \* MaxFramePayload: the longest payload of a frame
    ChanCap,     \* capacity of dataCh, in frames
    MaxFrames    \* bound: frames the peer sends

ASSUME StreamAssumption ==
    /\ Window \in Nat \ {0}
    /\ MaxFrame \in Nat \ {0}
    /\ ChanCap \in Nat \ {0}
    /\ MaxFrames \in Nat

\* Mutant: the limit forgets the frame already credited and not yet read.
limit_NoMargin == Window

pendingOverflowLimit == Window + MaxFrame
pendingEntryLimit == Window + 2

VARIABLES
    compliant,   \* the peer never sends more than its credit
    dataCh,      \* the bounded channel, a sequence of frames
    pending,     \* unconsumed part of the overflow list
    pendingEOF,  \* an EOF marker is in pending
    buffered,    \* bytes received and not yet read by the application
    how,         \* "open", or what closed the done channel
    ppc, pframe, \* where readLoop is inside pushFrame, and its frame
    rpc, hand,   \* where the reader is inside Read, and the frame it took
    rLeft,       \* unread bytes of rBuf
    result,      \* what the last finished Read returned
    credit,      \* bytes the peer may still send
    sent,        \* number of frames the peer has sent
    queued,      \* numbers of the frames pushFrame put in a queue
    delivered    \* numbers of the frames taken by Read, in that order

prodVars == <<ppc, pframe, sent>>
readVars == <<rpc, hand, rLeft, result, delivered>>
queueVars == <<dataCh, pending, pendingEOF>>
vars == <<compliant, dataCh, pending, pendingEOF, buffered, how, ppc, pframe, rpc, hand,
          rLeft, result, credit, sent, queued, delivered>>

Frame == [seq : 1..MaxFrames, eof : BOOLEAN, len : 0..MaxFrame]
NoFrame == [seq |-> 0, eof |-> FALSE, len |-> 0]

\* The payload bytes of a queue, one pair per byte, and how many there are.
ByteSet(q) == {b \in (1..Len(q)) \X (1..MaxFrame) : b[2] <= q[b[1]].len}
Bytes(q) == Cardinality(ByteSet(q))

\* The done channel is closed once and stays closed (closeChannels).
done == how # "open"
CloseChannels(by) == how' = IF done THEN how ELSE by

Init ==
    /\ compliant \in BOOLEAN
    /\ dataCh = <<>> /\ pending = <<>> /\ pendingEOF = FALSE
    /\ buffered = 0
    /\ how = "open"
    /\ ppc = "idle" /\ pframe = NoFrame
    /\ rpc = "idle" /\ hand = NoFrame /\ rLeft = 0 /\ result = "none"
    /\ credit = Window
    /\ sent = 0 /\ queued = {} /\ delivered = <<>>

-----------------------------------------------------------------------------
(* The producer: readLoop -> handleDataFrame / handleCloseWriteFrame ->     *)
(* pushFrame.                                                               *)

\* A frame arrives.  A stream that is gone from the table, or whose done
\* channel is closed, drops it.
PushBegin(f) ==
    /\ ppc = "idle"
    /\ sent < MaxFrames
    /\ f.seq = sent + 1
    /\ f.eof => f.len = 0
    /\ compliant => f.len <= credit /\ (f.eof \/ f.len > 0)
    /\ sent' = sent + 1
    /\ credit' = credit - f.len
    /\ IF done
       THEN UNCHANGED <<ppc, pframe>>
       ELSE ppc' = "gate" /\ pframe' = f
    /\ UNCHANGED <<queueVars, buffered, how, readVars, queued>>

ProducerReturns == ppc' = "idle" /\ pframe' = NoFrame

\* Mutant: no window test before the frame is queued.
PushGate_NoTest ==
    /\ ppc = "gate"
    /\ ppc' = "mode"
    /\ UNCHANGED <<pframe, how, queueVars, buffered, readVars, credit, sent,
                   queued>>

\* The window test, made before either queue is touched.
PushGate ==
    /\ ppc = "gate"
    /\ IF ~pframe.eof /\ buffered + pframe.len > pendingOverflowLimit
       THEN ProducerReturns /\ CloseChannels("violation")
       ELSE ppc' = "mode" /\ UNCHANGED <<pframe, how>>
    /\ UNCHANGED <<queueVars, buffered, readVars, credit, sent, queued>>

\* appendPendingLocked and, when it refuses, abortWindowViolation.
AppendPending ==
    IF pframe.eof
    THEN /\ pending' = IF pendingEOF THEN pending ELSE Append(pending, pframe)
         /\ pendingEOF' = TRUE
         /\ queued' = IF pendingEOF THEN queued ELSE queued \cup {pframe.seq}
         /\ UNCHANGED <<buffered, how>>
    ELSE IF Len(pending) >= pendingEntryLimit
         THEN CloseChannels("violation")
              /\ UNCHANGED <<pending, pendingEOF, buffered, queued>>
         ELSE /\ pending' = Append(pending, pframe)
              /\ buffered' = buffered + pframe.len
              /\ queued' = queued \cup {pframe.seq}
              /\ UNCHANGED <<pendingEOF, how>>

\* In overflow mode (pending not empty) the frame must follow the others.
PushMode ==
    /\ ppc = "mode"
    /\ IF pending # <<>>
       THEN AppendPending /\ ProducerReturns
       ELSE ppc' = "send"
            /\ UNCHANGED <<pframe, pending, pendingEOF, buffered, how, queued>>
    /\ UNCHANGED <<dataCh, readVars, credit, sent>>

\* The select of pushFrame: send, or give up because done is closed, or,
\* when neither is possible, leave for the overflow list.
PushSend ==
    /\ ppc = "send"
    /\ Len(dataCh) < ChanCap
    /\ dataCh' = Append(dataCh, pframe)
    /\ queued' = queued \cup {pframe.seq}
    /\ ppc' = "account"
    /\ UNCHANGED <<pframe, pending, pendingEOF, buffered, how, readVars,
                   credit, sent>>

PushDrop ==
    /\ ppc = "send"
    /\ done
    /\ ProducerReturns
    /\ UNCHANGED <<queueVars, buffered, how, readVars, credit, sent, queued>>

PushFull ==
    /\ ppc = "send"
    /\ Len(dataCh) >= ChanCap /\ ~done
    /\ ppc' = "spill"
    /\ UNCHANGED <<pframe, queueVars, buffered, how, readVars, credit, sent,
                   queued>>

\* buffered.Add after the channel send: the reader may already have the frame.
PushAccount ==
    /\ ppc = "account"
    /\ buffered' = buffered + pframe.len
    /\ ProducerReturns
    /\ UNCHANGED <<queueVars, how, readVars, credit, sent, queued>>

PushSpill ==
    /\ ppc = "spill"
    /\ AppendPending
    /\ ProducerReturns
    /\ UNCHANGED <<dataCh, readVars, credit, sent>>

\* readLoop handles the peer's Close or Reject frame.
PeerClose ==
    /\ ppc = "idle" /\ ~done
    /\ how' \in {"peer", "rejected"}
    /\ UNCHANGED <<queueVars, buffered, prodVars, readVars, credit, queued>>

\* Abort from another goroutine, or the end of a local Close.
LocalAbort ==
    /\ ~done
    /\ CloseChannels("local")
    /\ UNCHANGED <<queueVars, buffered, prodVars, readVars, credit, queued>>

-----------------------------------------------------------------------------
(* The consumer: Read -> tryPull / waitForData.  drain1 and drain2 are the  *)
(* second tryPull, the one waitForData makes once done is closed.           *)

ReadBegin ==
    /\ rpc = "idle"
    /\ result # "closed"
    /\ IF how = "rejected"
       THEN rpc' = "idle" /\ result' = "closed"
       ELSE rpc' = (IF rLeft > 0 THEN "copy" ELSE "pull") /\ result' = "none"
    /\ UNCHANGED <<queueVars, buffered, how, prodVars, hand, rLeft, credit,
                   queued, delivered>>

Take(f) ==
    /\ hand' = f
    /\ delivered' = Append(delivered, f.seq)
    /\ rpc' = "got"

\* The first half of tryPull: a non-blocking receive from dataCh.
PullChan ==
    /\ rpc \in {"pull", "drain1"}
    /\ IF dataCh # <<>>
       THEN Take(Head(dataCh)) /\ dataCh' = Tail(dataCh)
       ELSE /\ rpc' = (IF rpc = "pull" THEN "pull2" ELSE "drain2")
            /\ UNCHANGED <<dataCh, hand, delivered>>
    /\ UNCHANGED <<pending, pendingEOF, buffered, how, prodVars, rLeft, result,
                   credit, queued>>

\* Mutant: an entry without payload, so EOF too, is skipped.
PullPending_SkipsEmpty ==
    /\ rpc \in {"pull2", "drain2"}
    /\ IF pending # <<>>
       THEN /\ IF Head(pending).len = 0
               THEN rpc' = "wait" /\ UNCHANGED <<hand, delivered>>
               ELSE Take(Head(pending))
            /\ pending' = Tail(pending)
            /\ pendingEOF' = (pendingEOF /\ ~Head(pending).eof)
            /\ UNCHANGED result
       ELSE /\ UNCHANGED <<pending, pendingEOF, hand, delivered>>
            /\ IF rpc = "pull2"
               THEN rpc' = "wait" /\ UNCHANGED result
               ELSE rpc' = "idle" /\ result' = "closed"
    /\ UNCHANGED <<dataCh, buffered, how, prodVars, rLeft, credit, queued>>

\* The second half: the head of the overflow list, under pendingMu.
PullPending ==
    /\ rpc \in {"pull2", "drain2"}
    /\ IF pending # <<>>
       THEN /\ Take(Head(pending))
            /\ pending' = Tail(pending)
            /\ pendingEOF' = (pendingEOF /\ ~Head(pending).eof)
            /\ UNCHANGED result
       ELSE /\ UNCHANGED <<pending, pendingEOF, hand, delivered>>
            /\ IF rpc = "pull2"
               THEN rpc' = "wait" /\ UNCHANGED result
               ELSE rpc' = "idle" /\ result' = "closed"
    /\ UNCHANGED <<dataCh, buffered, how, prodVars, rLeft, credit, queued>>

\* The select of waitForData; with both ready Go picks either.
WaitData ==
    /\ rpc = "wait"
    /\ dataCh # <<>>
    /\ Take(Head(dataCh))
    /\ dataCh' = Tail(dataCh)
    /\ UNCHANGED <<pending, pendingEOF, buffered, how, prodVars, rLeft, result,
                   credit, queued>>

\* Mutant: a closed done channel ends the Read without a second tryPull.
WaitDone_NoDrain ==
    /\ rpc = "wait"
    /\ done
    /\ rpc' = "idle" /\ result' = "closed"
    /\ UNCHANGED <<queueVars, buffered, how, prodVars, hand, rLeft, credit,
                   queued, delivered>>

\* Mutant: waitForData does not watch the done channel.
WaitDone_Missing == FALSE

WaitDone ==
    /\ rpc = "wait"
    /\ done
    /\ rpc' = "drain1"
    /\ UNCHANGED <<queueVars, buffered, how, prodVars, hand, rLeft, result,
                   credit, queued, delivered>>

\* EOF ends the Read; data becomes rBuf and its credit goes back to the peer.
ReadGot ==
    /\ rpc = "got"
    /\ hand' = NoFrame
    /\ IF hand.eof
       THEN rpc' = "idle" /\ result' = "eof" /\ UNCHANGED <<rLeft, credit>>
       ELSE /\ rLeft' = hand.len
            /\ credit' = credit + hand.len
            /\ rpc' = (IF hand.len > 0 THEN "copy" ELSE "pull")
            /\ UNCHANGED result
    /\ UNCHANGED <<queueVars, buffered, how, prodVars, queued, delivered>>

\* copy into the caller's buffer, of any length.
ReadCopy ==
    /\ rpc = "copy"
    /\ \E n \in 1..rLeft :
          rLeft' = rLeft - n /\ buffered' = buffered - n
    /\ rpc' = "idle" /\ result' = "data"
    /\ UNCHANGED <<queueVars, how, prodVars, hand, credit, queued, delivered>>

-----------------------------------------------------------------------------
\* The steps the two goroutines take on their own.
Producer ==
    /\ PushGate \/ PushMode \/ PushSend \/ PushDrop \/ PushFull \/ PushAccount
       \/ PushSpill
    /\ UNCHANGED compliant

Reader ==
    /\ PullChan \/ PullPending \/ WaitData \/ WaitDone \/ ReadGot \/ ReadCopy
    /\ UNCHANGED compliant

Environment ==
    /\ (\E f \in Frame : PushBegin(f)) \/ PeerClose \/ LocalAbort \/ ReadBegin
    /\ UNCHANGED compliant

Next == Producer \/ Reader \/ Environment

\* Both goroutines are scheduled; the peer and the application owe nothing.
Spec == Init /\ [][Next]_vars /\ WF_vars(Producer) /\ WF_vars(Reader)

-----------------------------------------------------------------------------
TypeOK ==
    /\ dataCh \in Seq(Frame) /\ pending \in Seq(Frame)
    /\ compliant \in BOOLEAN /\ pendingEOF \in BOOLEAN
    /\ buffered \in Int /\ rLeft \in 0..MaxFrame /\ credit \in Int
    /\ how \in {"open", "peer", "rejected", "local", "violation"}
    /\ ppc \in {"idle", "gate", "mode", "send", "spill", "account"}
    /\ rpc \in {"idle", "pull", "pull2", "wait", "drain1", "drain2", "got",
                "copy"}
    /\ pframe \in Frame \cup {NoFrame} /\ hand \in Frame \cup {NoFrame}
    /\ result \in {"none", "data", "eof", "closed"}
    /\ sent \in 0..MaxFrames /\ queued \subseteq 1..MaxFrames
    /\ delivered \in Seq(1..MaxFrames)

\* Bytes this side really holds for the application.
Held == Bytes(dataCh) + Bytes(pending) + hand.len + rLeft

\* The counter buffered, on which the window test of pushFrame and the
\* overflow accounting rest, equals the bytes held, except for the frame
\* readLoop has sent to dataCh and not yet added (stream.go:229-231, 402).
BufferedExact ==
    buffered + (IF ppc = "account" THEN pframe.len ELSE 0) = Held

\* Whatever the peer sends, the account is exact and the memory one stream
\* holds is bounded in bytes and in entries (pendingOverflowLimit,
\* pendingEntryLimit plus one EOF).
MemoryBounded ==
    /\ BufferedExact
    /\ Held <= pendingOverflowLimit
    /\ Len(pending) <= pendingEntryLimit + 1
    /\ Len(dataCh) <= ChanCap

\* A peer that respects its credit is never aborted as a violator
\* (stream.go:18-22, the argument for pendingOverflowLimit).
NoFalseViolation == compliant => how # "violation"

\* A frame accepted into a queue is in exactly one place: a queue, or taken
\* by Read exactly once.
SeqNums(q) == {q[i].seq : i \in 1..Len(q)}
ExactlyOnce ==
    /\ queued = SeqNums(dataCh) \cup SeqNums(pending) \cup ToSet(delivered)
    /\ Cardinality(queued) = Len(dataCh) + Len(pending) + Len(delivered)

\* When the peer closed the stream, Read reports the close only after every
\* frame received before it has been read (Read and waitForData drain both
\* queues first).
ClosedAfterDrain ==
    result = "closed" /\ how = "peer" => queued = ToSet(delivered)

\* Closing done, for whatever reason, releases a blocked Read.
DoneReleasesReader == done ~> rpc = "idle"

\* Read's comment (stream.go:381-383) and tryPull's (305-308): frames leave
\* the two queues in the order they arrived.
FIFO == \A i, j \in 1..Len(delivered) : i < j => delivered[i] < delivered[j]
=============================================================================

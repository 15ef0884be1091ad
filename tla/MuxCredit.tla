----------------------------- MODULE MuxCredit -----------------------------
(***************************************************************************)
(* What the flow control of a mux stream promises, for one direction of    *)
(* one stream (pkg/tunnel/mux: stream.Write, stream.Read, pushFrame,       *)
(* handleWindowUpdateFrame).  Frames, queues and channels are abstracted   *)
(* to the number of bytes they hold; MuxFlow is the detailed               *)
(* specification that implements this one.                                 *)
(***************************************************************************)
EXTENDS Integers

CONSTANTS
    Window,     \* DefaultWindowSize
    MaxFrame    \* MaxFramePayload

ASSUME CreditAssumption ==
    /\ Window \in Nat \ {0}
    /\ MaxFrame \in Nat \ {0}

VARIABLES
    open,       \* the stream is registered at both ends and the muxes run
    window,     \* sender: windowSize
    debit,      \* sender: bytes handed to writeLoop, not yet taken off window
    flight,     \* data bytes between Write and the receiver's pushFrame
    queued,     \* receiver: bytes in dataCh and pending
    held,       \* receiver: unread bytes of rBuf
    owed,       \* credit between Read and the sender's windowSize
    violated    \* the receiver aborted the stream for exceeding its window

vars == <<open, window, debit, flight, queued, held, owed, violated>>

Init ==
    /\ open = TRUE
    /\ window = Window
    /\ debit = 0 /\ flight = 0 /\ queued = 0 /\ held = 0 /\ owed = 0
    /\ violated = FALSE

\* Write hands a frame to writeLoop: no longer than the window it loaded and
\* than one frame may be.
Enqueue ==
    /\ open /\ debit = 0
    /\ \E n \in 1..MaxFrame :
          /\ n <= window
          /\ flight' = flight + n
          /\ debit' = n
    /\ UNCHANGED <<open, window, queued, held, owed, violated>>

\* Only then does it take the bytes off the window.
Debit ==
    /\ open /\ debit > 0
    /\ window' = window - debit
    /\ debit' = 0
    /\ UNCHANGED <<open, flight, queued, held, owed, violated>>

\* After the end of a stream its counters mean nothing; they read 0.
Shut ==
    /\ open' = FALSE
    /\ window' = 0 /\ debit' = 0 /\ flight' = 0 /\ queued' = 0 /\ held' = 0
    /\ owed' = 0

\* Mutant: the limit is the window alone.
Arrive_NoMargin ==
    /\ open
    /\ \E n \in 1..MaxFrame :
          /\ n <= flight
          /\ IF queued + held + n > Window
             THEN Shut /\ violated' = TRUE
             ELSE /\ flight' = flight - n
                  /\ queued' = queued + n
                  /\ UNCHANGED <<open, window, debit, held, owed, violated>>

\* pushFrame at the receiver: a frame that would take the bytes held over
\* the limit aborts the stream, any other is queued.
Arrive ==
    /\ open
    /\ \E n \in 1..MaxFrame :
          /\ n <= flight
          /\ IF queued + held + n > Window + MaxFrame
             THEN Shut /\ violated' = TRUE
             ELSE /\ flight' = flight - n
                  /\ queued' = queued + n
                  /\ UNCHANGED <<open, window, debit, held, owed, violated>>

\* Read takes a frame into rBuf and reports it as consumed at once.
Take ==
    /\ open /\ held = 0
    /\ \E n \in 1..MaxFrame :
          /\ n <= queued
          /\ queued' = queued - n
          /\ held' = n
          /\ owed' = owed + n
    /\ UNCHANGED <<open, window, debit, flight, violated>>

\* The application copies bytes out of rBuf.
Consume ==
    /\ open
    /\ \E n \in 1..MaxFrame : n <= held /\ held' = held - n
    /\ UNCHANGED <<open, window, debit, flight, queued, owed, violated>>

\* Mutant: credit that could not be delivered is added back and also sent.
Credit_Twice ==
    /\ open
    /\ \E n \in 1..Window : n <= owed /\ window' = window + n
    /\ UNCHANGED <<open, debit, flight, queued, held, owed, violated>>

\* A WindowUpdate frame reaches the sender.
Credit ==
    /\ open
    /\ \E n \in 1..Window :
          /\ n <= owed
          /\ owed' = owed - n
          /\ window' = window + n
    /\ UNCHANGED <<open, debit, flight, queued, held, violated>>

\* One end closes or aborts the stream, or the connection ends.
Terminate ==
    /\ open
    /\ Shut
    /\ UNCHANGED violated

Next == Enqueue \/ Debit \/ Arrive \/ Take \/ Consume \/ Credit
        \/ Terminate

Spec == Init /\ [][Next]_vars

-----------------------------------------------------------------------------
TypeOK ==
    /\ open \in BOOLEAN /\ violated \in BOOLEAN
    /\ window \in Int /\ debit \in Nat /\ flight \in Nat /\ queued \in Nat
    /\ held \in Nat /\ owed \in Nat

\* Every byte of the window is somewhere: it can be sent, is travelling, is
\* waiting to be read, or its credit is on the way back
\* (retransmit.go:26-34, takePendingWindowUpdate: no credit is lost or given
\* twice).
Conservation == open => window - debit + flight + queued + owed = Window

\* Write never spends credit it does not have, although it takes the bytes
\* off windowSize only after the frame is out of its hands; until then
\* windowSize may exceed the initial window, by that frame and no more.
WindowInRange == open => debit <= window /\ window <= Window + debit

\* rBuf holds at most one frame: the margin in pendingOverflowLimit.
HeldBounded == held <= MaxFrame

\* A stream whose two ends follow the protocol is never aborted for
\* exceeding its window (stream.go:18-22).
NoViolation == ~violated

CreditInv == TypeOK /\ Conservation /\ WindowInRange /\ HeldBounded
             /\ NoViolation
=============================================================================

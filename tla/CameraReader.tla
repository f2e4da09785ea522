---------------------------- MODULE CameraReader ----------------------------
(***************************************************************************)
(* One camera's front end: the CameraReader thread, which opens its source,*)
(* reads frames, reconnects for ever and feeds a bounded queue, and the    *)
(* DetectionWorker's end of that queue.  Frames are their numbers.         *)
(***************************************************************************)
EXTENDS Integers, Sequences

CONSTANTS
    QueueSize,           \* FRAME_QUEUE_SIZE
    EveryN,              \* DETECT_EVERY_N_FRAMES
    MinDelay, MaxDelay,  \* CAMERA_RECONNECT_MIN_DELAY, ..._MAX_DELAY
    MaxFrames            \* frames the source delivers (bound)

ASSUME ReaderAssumption ==
    /\ QueueSize \in Nat \ {0} /\ EveryN \in Nat \ {0}
    /\ MinDelay \in Nat \ {0} /\ MaxDelay \in Nat /\ MinDelay <= MaxDelay
    /\ MaxFrames \in Nat

VARIABLES
    frameQ,
    rpc,        \* where the reader is
    delay,      \* wait before the next attempt
    frame,      \* frame_index
    connected,  \* CameraState.connected
    stopping,   \* the reader's stop event
    counter,    \* frame_counter, modulo EveryN
    inHand,     \* frame being processed, 0 for none
    given       \* history: last frame the queue handed over

reader == <<rpc, delay, frame, connected>>
detector == <<counter, inHand, given>>
readerVars == <<frameQ, reader, stopping, detector>>

Smaller(a, b) == IF a < b THEN a ELSE b

FlagsOK == connected \in BOOLEAN /\ stopping \in BOOLEAN

CountsOK ==
    /\ frameQ \in Seq(1..MaxFrames) /\ Len(frameQ) <= QueueSize
    /\ rpc \in {"open", "wait", "opened", "check", "read", "put", "evict", "released", "done"}
    /\ delay \in MinDelay..MaxDelay
    /\ frame \in 0..MaxFrames
    /\ counter \in 0..(EveryN - 1)
    /\ inHand \in 0..MaxFrames /\ given \in 0..MaxFrames

ReaderTypeOK == FlagsOK /\ CountsOK

ReaderInit ==
    /\ frameQ = <<>>
    /\ rpc = "open" /\ delay = MinDelay /\ frame = 0 /\ connected = FALSE
    /\ stopping = FALSE
    /\ counter = 0 /\ inHand = 0 /\ given = 0

---------------------------------------------------------------------------
(* CameraReader.run *)

OpenUnchecked ==
    /\ rpc = "open"
    /\ rpc' = "wait" /\ connected' = FALSE
    /\ UNCHANGED <<frameQ, delay, frame, stopping, detector>>

OpenFails ==
    /\ rpc = "open" /\ ~stopping
    /\ rpc' = "wait" /\ connected' = FALSE
    /\ UNCHANGED <<frameQ, delay, frame, stopping, detector>>

WaitUncapped ==
    /\ rpc = "wait"
    /\ delay' = delay * 2
    /\ rpc' = "open"
    /\ UNCHANGED <<frameQ, frame, connected, stopping, detector>>

\* The wait ends early when the reader is stopped; the delay doubles anyway.
Wait ==
    /\ rpc = "wait"
    /\ delay' = Smaller(delay * 2, MaxDelay)
    /\ rpc' = "open"
    /\ UNCHANGED <<frameQ, frame, connected, stopping, detector>>

OpenWorks ==
    /\ rpc = "open" /\ ~stopping
    /\ rpc' = "opened"
    /\ UNCHANGED <<frameQ, delay, frame, connected, stopping, detector>>

Connect ==
    /\ rpc = "opened"
    /\ rpc' = "check" /\ connected' = TRUE /\ delay' = MinDelay
    /\ UNCHANGED <<frameQ, frame, stopping, detector>>

StartRead ==
    /\ rpc = "check" /\ ~stopping
    /\ rpc' = "read"
    /\ UNCHANGED <<frameQ, delay, frame, connected, stopping, detector>>

ReadFrame ==
    /\ rpc = "read" /\ frame < MaxFrames
    /\ frame' = frame + 1
    /\ rpc' = "put"
    /\ UNCHANGED <<frameQ, delay, connected, stopping, detector>>

PutBlocking ==
    /\ rpc = "put" /\ Len(frameQ) < QueueSize
    /\ frameQ' = Append(frameQ, frame) /\ rpc' = "check"
    /\ UNCHANGED <<delay, frame, connected, stopping, detector>>

\* _put_frame: put_nowait, and on a full queue get_nowait and again.
PutFrame ==
    /\ rpc = "put"
    /\ IF Len(frameQ) < QueueSize
         THEN frameQ' = Append(frameQ, frame) /\ rpc' = "check"
         ELSE rpc' = "evict" /\ UNCHANGED frameQ
    /\ UNCHANGED <<delay, frame, connected, stopping, detector>>

EvictNewest ==
    /\ rpc = "evict"
    /\ frameQ' = SubSeq(frameQ, 1, Len(frameQ) - 1)
    /\ rpc' = "put"
    /\ UNCHANGED <<delay, frame, connected, stopping, detector>>

\* The consumer may have taken the last frame in between.
EvictOldest ==
    /\ rpc = "evict"
    /\ frameQ' = IF frameQ = <<>> THEN frameQ ELSE Tail(frameQ)
    /\ rpc' = "put"
    /\ UNCHANGED <<delay, frame, connected, stopping, detector>>

\* The stream is lost, or the reader is told to stop.  The state says connected
\* until the next step.
Release ==
    /\ rpc = "read" \/ (rpc = "check" /\ stopping)
    /\ rpc' = "released"
    /\ UNCHANGED <<frameQ, delay, frame, connected, stopping, detector>>

Disconnect ==
    /\ rpc = "released"
    /\ rpc' = "open" /\ connected' = FALSE
    /\ UNCHANGED <<frameQ, delay, frame, stopping, detector>>

Exit ==
    /\ rpc = "open" /\ stopping
    /\ rpc' = "done"
    /\ UNCHANGED <<frameQ, delay, frame, connected, stopping, detector>>

Reader ==
    \/ OpenFails \/ Wait \/ OpenWorks \/ Connect \/ StartRead \/ ReadFrame
    \/ PutFrame \/ EvictOldest \/ Release \/ Disconnect \/ Exit

---------------------------------------------------------------------------
(* DetectionWorker.run, as far as the queue is concerned, and stop() *)

TakeFrameTwice ==
    /\ inHand = 0 /\ frameQ # <<>>
    /\ given' = Head(frameQ)
    /\ counter' = (counter + 1) % EveryN
    /\ inHand' = IF counter' = 0 THEN given' ELSE 0
    /\ UNCHANGED <<frameQ, reader, stopping>>

\* Of the frames handed over every EveryN-th is processed.
TakeFrame ==
    /\ inHand = 0 /\ frameQ # <<>>
    /\ frameQ' = Tail(frameQ)
    /\ given' = Head(frameQ)
    /\ counter' = (counter + 1) % EveryN
    /\ inHand' = IF counter' = 0 THEN given' ELSE 0
    /\ UNCHANGED <<reader, stopping>>

Process ==
    /\ inHand # 0
    /\ inHand' = 0
    /\ UNCHANGED <<frameQ, reader, stopping, counter, given>>

Stop ==
    /\ ~stopping
    /\ stopping' = TRUE
    /\ UNCHANGED <<frameQ, reader, detector>>

ReaderNext == Reader \/ TakeFrame \/ Process \/ Stop

ReaderSpec == ReaderInit /\ [][ReaderNext]_readerVars

\* Opening and reading return, if only with a failure.  Nothing is assumed of
\* the consumer.
ReaderFairSpec == ReaderSpec /\ WF_readerVars(Reader)

---------------------------------------------------------------------------
(* Properties *)

Putting == rpc \in {"put", "evict"}

\* The newest frame that has been queued.
Newest == IF Putting THEN frame - 1 ELSE frame

\* The queue holds the most recent frames without a gap, whoever takes or
\* evicts one between the reader's two attempts (camera.py:120-130).
HoldsNewest ==
    \A i \in 1..Len(frameQ) : frameQ[i] = Newest - Len(frameQ) + i

\* The worker is given frames in the order in which they were read, and no
\* frame twice (camera.py:120-130, workers.py:108).
InOrder ==
    /\ \A i \in 1..Len(frameQ) : given < frameQ[i]
    /\ inHand <= given

\* A capture is open.
CaptureOpen == rpc \in {"opened", "check", "read", "put", "evict"}

\* The health snapshot is never more than one step behind the capture: it says
\* connected while a capture is open, but for the step between the opening and
\* its report, and says so of a closed one only between the release and its
\* report (camera.py:138-156, 178-179).
ConnectedIsOpen ==
    /\ CaptureOpen => connected \/ rpc = "opened"
    /\ connected => CaptureOpen \/ rpc = "released"

\* No consumer, however slow, holds the camera up (ARCHITECTURE.md:5).
NeverBlocked == Putting ~> rpc = "check"

\* A stopped reader ends (orchestrator.py:173-176).
StopEnds == stopping ~> rpc = "done"

=============================================================================

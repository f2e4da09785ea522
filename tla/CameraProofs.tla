------------------------------ MODULE CameraProofs ------------------------------
(***************************************************************************)
(* Proofs about what each camera has of its own: its reader with the queue *)
(* of frames (CameraReader), for queues of every size and every delay, and *)
(* its capture zone (CaptureZone), for any cameras, polygons and editors.  *)
(* The two share no state; their theorems stand side by side.              *)
(***************************************************************************)
EXTENDS CameraReader, CaptureZone, TLAPS

---------------------------------------------------------------------------
(* The reader and its queue *)

LEMMA ReaderConstants ==
    /\ QueueSize \in Nat \ {0} /\ EveryN \in Nat \ {0}
    /\ MinDelay \in Nat \ {0} /\ MaxDelay \in Nat /\ MinDelay <= MaxDelay
    /\ MaxFrames \in Nat
  BY ReaderAssumption

\* A frame on its way into the queue has been read.
HasRead == Putting => frame > 0

LEMMA FlagsStep ==
  ASSUME FlagsOK, [ReaderNext]_readerVars
  PROVE  FlagsOK'
  BY Zenon DEF FlagsOK, ReaderNext, Reader, OpenFails, Wait, OpenWorks, Connect, StartRead, ReadFrame,
     PutFrame, EvictOldest, Release, Disconnect, Exit, TakeFrame, Process, Stop, readerVars, reader

LEMMA CountsStep ==
  ASSUME CountsOK, HasRead, [ReaderNext]_readerVars
  PROVE  CountsOK' /\ HasRead'
<1> USE ReaderConstants DEF CountsOK, HasRead, Putting
<1>1. CASE OpenFails
  BY <1>1 DEF OpenFails, detector, Smaller
<1>2. CASE Wait
  BY <1>2 DEF Wait, detector, Smaller
<1>3. CASE OpenWorks \/ Connect
  BY <1>3 DEF OpenWorks, Connect, detector
<1>4. CASE StartRead
  BY <1>4 DEF StartRead, detector
<1>5. CASE ReadFrame
  BY <1>5 DEF ReadFrame, detector
<1>6. CASE PutFrame
  <2>1. rpc = "put" /\ frame \in 1..MaxFrames
    BY <1>6 DEF PutFrame
  <2>2. /\ Append(frameQ, frame) \in Seq(1..MaxFrames)
        /\ Len(Append(frameQ, frame)) = Len(frameQ) + 1
    BY <2>1
  <2>3. CASE Len(frameQ) < QueueSize
    BY <1>6, <2>1, <2>2, <2>3 DEF PutFrame, detector
  <2>4. CASE ~(Len(frameQ) < QueueSize)
    BY <1>6, <2>1, <2>4 DEF PutFrame, detector
  <2>5. QED
    BY <2>3, <2>4
<1>7. CASE EvictOldest
  <2>1. CASE frameQ = <<>>
    BY <1>7, <2>1 DEF EvictOldest, detector
  <2>2. CASE frameQ # <<>>
    BY <1>7, <2>2 DEF EvictOldest, detector
  <2>3. QED
    BY <2>1, <2>2
<1>8. CASE Release \/ Disconnect
  BY <1>8 DEF Release, Disconnect, detector
<1>9. CASE Exit
  BY <1>9 DEF Exit, detector
<1>10. CASE TakeFrame
  BY <1>10 DEF TakeFrame, reader
<1>11. CASE Process
  BY <1>11 DEF Process, reader
<1>12. CASE Stop
  BY <1>12 DEF Stop, reader, detector
<1>13. CASE UNCHANGED readerVars
  BY <1>13 DEF readerVars, reader, detector
<1>14. QED
  BY <1>1, <1>2, <1>3, <1>4, <1>5, <1>6, <1>7, <1>8, <1>9, <1>10, <1>11, <1>12, <1>13
     DEF ReaderNext, Reader

LEMMA ReaderStarted == ReaderInit => ReaderTypeOK /\ HasRead
<1>1. ReaderInit => FlagsOK
  BY Zenon DEF ReaderInit, FlagsOK
<1>2. ReaderInit => CountsOK /\ HasRead
  BY ReaderConstants DEF ReaderInit, CountsOK, HasRead, Putting
<1>3. QED
  BY <1>1, <1>2 DEF ReaderTypeOK

\* Whatever the camera and the consumer do, every variable keeps its type: the
\* queue its bound, the delay its range (camera.py:120-149).
THEOREM ReaderTyping == ReaderSpec => []ReaderTypeOK
<1>1. ReaderTypeOK /\ HasRead /\ [ReaderNext]_readerVars => (ReaderTypeOK /\ HasRead)'
  BY FlagsStep, CountsStep DEF ReaderTypeOK
<1>2. QED
  BY ReaderStarted, <1>1, PTL DEF ReaderSpec

---------------------------------------------------------------------------
\* What the worker was given is older than all that waits.
GivenBefore == given <= Newest - Len(frameQ) /\ inHand <= given

FeedInv == HoldsNewest /\ GivenBefore

LEMMA FeedStep ==
  ASSUME CountsOK, HasRead, FeedInv, [ReaderNext]_readerVars
  PROVE  FeedInv'
<1> USE ReaderConstants DEF CountsOK, HasRead, FeedInv, HoldsNewest, GivenBefore, Newest, Putting
<1>1. CASE PutFrame
  <2>1. CASE Len(frameQ) < QueueSize
    <3>1. rpc = "put" /\ rpc' = "check" /\ frameQ' = Append(frameQ, frame)
      BY <1>1, <2>1 DEF PutFrame
    <3>2. UNCHANGED <<frame, given, inHand>>
      BY <1>1 DEF PutFrame, detector
    <3>3. Len(frameQ') = Len(frameQ) + 1 /\ Newest = frame - 1 /\ Newest' = frame
      BY <3>1, <3>2
    <3>4. ASSUME NEW i \in 1..Len(frameQ') PROVE frameQ'[i] = Newest' - Len(frameQ') + i
      <4>1. CASE i \in 1..Len(frameQ)
        <5>1. frameQ'[i] = frameQ[i] /\ frameQ[i] = Newest - Len(frameQ) + i
          BY <3>1, <4>1
        <5>2. QED
          BY <3>3, <4>1, <5>1
      <4>2. CASE i = Len(frameQ) + 1
        <5>1. frameQ'[i] = frame
          BY <3>1, <4>2
        <5>2. QED
          BY <3>2, <3>3, <4>2, <5>1
      <4>3. QED
        BY <3>3, <3>4, <4>1, <4>2
    <3>5. QED
      BY <3>2, <3>3, <3>4
  <2>2. CASE ~(Len(frameQ) < QueueSize)
    BY <1>1, <2>2 DEF PutFrame, detector
  <2>3. QED
    BY <2>1, <2>2
<1>2. ASSUME frameQ # <<>>, frameQ' = Tail(frameQ), Newest' = Newest
      PROVE  HoldsNewest'
  <2>1. Len(frameQ') = Len(frameQ) - 1 /\ \A i \in 1..Len(frameQ') : frameQ'[i] = frameQ[i + 1]
    BY <1>2
  <2>2. QED
    BY <1>2, <2>1
<1>3. CASE EvictOldest
  <2>1. UNCHANGED <<frame, given, inHand>> /\ Newest' = Newest
    BY <1>3 DEF EvictOldest, detector
  <2>2. CASE frameQ = <<>>
    BY <1>3, <2>1, <2>2 DEF EvictOldest
  <2>3. CASE frameQ # <<>>
    BY <1>2, <1>3, <2>1, <2>3 DEF EvictOldest
  <2>4. QED
    BY <2>2, <2>3
<1>4. CASE TakeFrame
  <2>1. frameQ # <<>> /\ frameQ' = Tail(frameQ) /\ Newest' = Newest
    BY <1>4 DEF TakeFrame, reader
  <2>2. given' = Newest - Len(frameQ) + 1 /\ inHand' <= given'
    BY <1>4 DEF TakeFrame
  <2>3. QED
    BY <1>2, <2>1, <2>2
<1>5. CASE ReadFrame
  BY <1>5 DEF ReadFrame, detector
<1>6. CASE \/ OpenFails \/ Wait \/ OpenWorks \/ Connect
           \/ StartRead \/ Release \/ Disconnect \/ Exit
  BY <1>6 DEF OpenFails, Wait, OpenWorks, Connect, StartRead, Release, Disconnect, Exit, detector
<1>7. CASE Process \/ Stop \/ UNCHANGED readerVars
  BY <1>7, SMTT(30) DEF Process, Stop, readerVars, reader, detector
<1>8. QED
  BY <1>1, <1>3, <1>4, <1>5, <1>6, <1>7 DEF ReaderNext, Reader

LEMMA FeedHolds == ReaderSpec => [](ReaderTypeOK /\ FeedInv)
<1>1. ReaderInit => FeedInv
  BY DEF ReaderInit, FeedInv, HoldsNewest, GivenBefore, Newest, Putting
<1>2. ReaderTypeOK /\ HasRead /\ FeedInv /\ [ReaderNext]_readerVars => (ReaderTypeOK /\ HasRead /\ FeedInv)'
  BY FlagsStep, CountsStep, FeedStep DEF ReaderTypeOK
<1>3. QED
  BY ReaderStarted, <1>1, <1>2, PTL DEF ReaderSpec

\* Whoever takes or evicts a frame between the reader's two attempts, the
\* queue holds the newest frames without a gap (camera.py:120-130).
THEOREM Freshest == ReaderSpec => []HoldsNewest
  BY FeedHolds, PTL DEF FeedInv

\* The worker is given frames in the order they were read, and none twice
\* (camera.py:120-130, workers.py:108).
THEOREM Ordered == ReaderSpec => []InOrder
<1>1. ReaderTypeOK /\ FeedInv => InOrder
  BY ReaderConstants DEF ReaderTypeOK, CountsOK, FeedInv, HoldsNewest, GivenBefore, InOrder, Newest, Putting
<1>2. QED
  BY FeedHolds, <1>1, PTL

---------------------------------------------------------------------------
\* The reader has said connected once per capture, and not before it opened one.
Reported ==
    /\ rpc \in {"check", "read", "put", "evict", "released"} => connected
    /\ rpc \in {"open", "wait", "opened", "done"} => ~connected

\* The health snapshot is never more than one step behind the capture: only
\* between the opening or the release and its report (camera.py:138-156,
\* 178-179) do the two differ.
THEOREM Honest == ReaderSpec => []ConnectedIsOpen
<1>1. ReaderInit => Reported
  BY Zenon DEF ReaderInit, Reported
<1>2. FlagsOK /\ Reported /\ [ReaderNext]_readerVars => Reported'
  <2> SUFFICES ASSUME FlagsOK, Reported, [ReaderNext]_readerVars PROVE Reported'
    OBVIOUS
  <2> USE DEF Reported
  <2>1. CASE OpenFails \/ Disconnect
    BY <2>1 DEF OpenFails, Disconnect
  <2>2. CASE Connect
    BY <2>2 DEF Connect
  <2>3. CASE OpenWorks \/ Wait \/ StartRead \/ ReadFrame \/ PutFrame \/ EvictOldest \/ Release \/ Exit
    BY <2>3 DEF OpenWorks, Wait, StartRead, ReadFrame, PutFrame, EvictOldest, Release, Exit
  <2>4. CASE TakeFrame \/ Process \/ Stop \/ UNCHANGED readerVars
    BY <2>4 DEF TakeFrame, Process, Stop, reader, readerVars
  <2>5. QED
    BY <2>1, <2>2, <2>3, <2>4 DEF ReaderNext, Reader
<1>3. CountsOK /\ Reported => ConnectedIsOpen
  BY DEF CountsOK, Reported, ConnectedIsOpen, CaptureOpen
<1>4. QED
  BY ReaderTyping, <1>1, <1>2, <1>3, PTL DEF ReaderSpec, ReaderTypeOK

---------------------------------------------------------------------------
(* The capture zone *)

\* The definitions most steps look into.
USE DEF Zones, Contents, FaceBoxes

---------------------------------------------------------------------------
(* Types *)

\* Wherever the zone comes from, it is a zone.
LEMMA LoadIsZone ==
    ASSUME NEW k \in Cameras
    PROVE  Load(k) \in Zones
BY ZoneAssumption DEF Load

LEMMA RestTypes ==
    /\ Rest \in Cameras \X FaceBoxes
    /\ Idle \in Cameras \X Zones
<1>1. (CHOOSE k \in Cameras : TRUE) \in Cameras
  BY ZoneAssumption
<1> QED BY <1>1 DEF Rest, Idle, Off

LEMMA InitTypes == Init => TypeOK
<1> SUFFICES ASSUME Init PROVE TypeOK
  OBVIOUS
<1>1. mem \in [Cameras -> Zones]
  BY LoadIsZone DEF Init
<1>2. /\ asked \in Cameras \X FaceBoxes
      /\ edit \in [Editors -> Cameras \X Zones]
  BY RestTypes DEF Init
<1> QED BY <1>1, <1>2 DEF Init, TypeOK

LEMMA StepTypes == TypeOK /\ [Next]_vars => TypeOK'
<1> SUFFICES ASSUME TypeOK, [Next]_vars PROVE TypeOK'
  OBVIOUS
<1> USE RestTypes
<1>1. ASSUME NEW e \in Editors, SetZone(e) PROVE TypeOK'
  BY <1>1 DEF TypeOK, SetZone, SetPoints, test
<1>2. ASSUME NEW e \in Editors, Truncate(e) PROVE TypeOK'
  BY <1>2 DEF TypeOK, Truncate, test
<1>3. ASSUME NEW e \in Editors, Write(e) PROVE TypeOK'
  BY <1>3 DEF TypeOK, Write, test
<1>4. CASE Enabled
  BY <1>4 DEF TypeOK, Enabled, request
<1>5. CASE TestPolygon
  BY <1>5 DEF TypeOK, TestPolygon, request
<1>6. ASSUME NEW k \in Cameras, AddCamera(k) \/ DeleteCamera(k) PROVE TypeOK'
  BY <1>6 DEF TypeOK, AddCamera, DeleteCamera, test, request
<1>7. CASE Restart
  BY <1>7, LoadIsZone DEF TypeOK, Restart
<1>8. CASE UNCHANGED vars
  BY <1>8 DEF TypeOK, vars, test, request
<1> QED BY <1>1, <1>2, <1>3, <1>4, <1>5, <1>6, <1>7, <1>8 DEF Next

\* Every variable keeps its type.
THEOREM ZoneTyping == Spec => []TypeOK
<1> QED BY InitTypes, StepTypes, PTL DEF Spec

---------------------------------------------------------------------------
(* Memory and file *)

\* The one edit of a camera that nothing disturbed has put its zone into the
\* memory, and has emptied the file before it writes.
Undisturbed ==
    \A k \in running, e \in Editors :
        e \in Editing(k) /\ k \notin spoiled =>
            /\ Editing(k) = {e}
            /\ mem[k] = edit[e][2]
            /\ epc[e] = "write" => file[k] = Empty

SyncInv == Undisturbed /\ SurvivesRestart

\* A file that holds a zone is read as that zone.
LEMMA LoadsWritten ==
    ASSUME NEW k, file[k] \in Zones
    PROVE  Load(k) = file[k]
BY ZoneAssumption DEF Load, Off, Missing

LEMMA InitSync == Init => SyncInv
BY DEF Init, SyncInv, Undisturbed, SurvivesRestart, Editing

LEMMA StepSync == TypeOK /\ SyncInv /\ [Next]_vars => SyncInv'
<1> SUFFICES ASSUME TypeOK, SyncInv, [Next]_vars PROVE SyncInv'
  OBVIOUS
<1> USE DEF Editing, Load
<1>1. ASSUME NEW e \in Editors, SetZone(e) PROVE SyncInv'
  <2>1. PICK k \in running, z \in Zones :
            /\ mem' = [mem EXCEPT ![k] = z]
            /\ edit' = [edit EXCEPT ![e] = <<k, z>>]
            /\ spoiled' = IF Editing(k) = {} THEN spoiled \ {k} ELSE spoiled \cup {k}
    BY <1>1 DEF SetZone, SetPoints
  <2>2. epc[e] = "idle" /\ epc' = [epc EXCEPT ![e] = "truncate"]
        /\ running' = running /\ file' = file
    BY <1>1 DEF SetZone
  <2>3. Undisturbed'
    BY <2>1, <2>2 DEF TypeOK, SyncInv, Undisturbed
  <2>4. SurvivesRestart'
    BY <2>1, <2>2 DEF TypeOK, SyncInv, SurvivesRestart
  <2> QED BY <2>3, <2>4 DEF SyncInv
<1>2. ASSUME NEW e \in Editors, Truncate(e) PROVE SyncInv'
  <2>1. running' = running /\ mem' = mem
    BY <1>2 DEF Truncate
  <2>2. CASE /\ file' = [file EXCEPT ![edit[e][1]] = Empty]
             /\ epc' = [epc EXCEPT ![e] = "write"]
             /\ UNCHANGED <<edit, spoiled>>
    BY <1>2, <2>1, <2>2 DEF Truncate, TypeOK, SyncInv, Undisturbed, SurvivesRestart
  <2>3. CASE /\ epc' = [epc EXCEPT ![e] = "idle"]
             /\ edit' = [edit EXCEPT ![e] = Idle]
             /\ spoiled' = spoiled \cup {edit[e][1]}
             /\ UNCHANGED file
    BY <1>2, <2>1, <2>3 DEF Truncate, TypeOK, SyncInv, Undisturbed, SurvivesRestart
  <2> QED BY <1>2, <2>2, <2>3 DEF Truncate
<1>3. ASSUME NEW e \in Editors, Write(e) PROVE SyncInv'
  <2> DEFINE k == edit[e][1]
  <2>1. /\ running' = running /\ mem' = mem /\ epc[e] = "write"
        /\ epc' = [epc EXCEPT ![e] = "idle"] /\ edit' = [edit EXCEPT ![e] = Idle]
    BY <1>3 DEF Write
  <2>2. CASE file' = [file EXCEPT ![k] = edit[e][2]] /\ UNCHANGED spoiled
    <3>1. Undisturbed'
      BY <2>1, <2>2 DEF TypeOK, SyncInv, Undisturbed
    <3>2. ASSUME NEW c \in running, Editing(c)' = {}, c \notin spoiled
          PROVE  Load(c)' = mem[c]
      <4>1. CASE c = k
        <5>1. mem[c] = edit[e][2]
          BY <2>1, <3>2, <4>1 DEF TypeOK, SyncInv, Undisturbed
        <5>2. file'[c] = edit[e][2] /\ edit[e][2] \in Zones
          BY <2>2, <4>1 DEF TypeOK
        <5> QED BY <5>1, <5>2, ZoneAssumption DEF Off, Missing
      <4>2. CASE c # k
        BY <2>1, <2>2, <3>2, <4>2 DEF TypeOK, SyncInv, SurvivesRestart
      <4> QED BY <4>1, <4>2
    <3> QED BY <3>1, <3>2, <2>1, <2>2 DEF SyncInv, SurvivesRestart
  <2>3. CASE file[k] \notin {Empty, edit[e][2]} /\ file' = [file EXCEPT ![k] = Mixed]
             /\ UNCHANGED spoiled
    <3>1. k \in running => k \in spoiled
      BY <2>1, <2>3 DEF TypeOK, SyncInv, Undisturbed
    <3> QED BY <2>1, <2>3, <3>1 DEF TypeOK, SyncInv, Undisturbed, SurvivesRestart
  <2>4. CASE spoiled' = spoiled \cup {k} /\ UNCHANGED file
    BY <2>1, <2>4 DEF TypeOK, SyncInv, Undisturbed, SurvivesRestart
  <2> QED BY <1>3, <2>2, <2>3, <2>4 DEF Write
<1>4. CASE Enabled \/ TestPolygon
  BY <1>4 DEF Enabled, TestPolygon, request, SyncInv, Undisturbed, SurvivesRestart
<1>5. ASSUME NEW c \in Cameras, AddCamera(c) \/ DeleteCamera(c) PROVE SyncInv'
  BY <1>5 DEF AddCamera, DeleteCamera, request, SyncInv, Undisturbed, SurvivesRestart
<1>6. CASE Restart
  BY <1>6 DEF Restart, SyncInv, Undisturbed, SurvivesRestart, TypeOK
<1>7. CASE UNCHANGED vars
  BY <1>7 DEF vars, request, SyncInv, Undisturbed, SurvivesRestart
<1> QED BY <1>1, <1>2, <1>3, <1>4, <1>5, <1>6, <1>7 DEF Next

\* A restart brings back the zone a camera has, unless its last edits
\* overlapped or failed (set_capture_zone and _load_zone_points).
THEOREM Persistent == Spec => []SurvivesRestart
<1>1. Spec => []SyncInv
  BY InitTypes, StepTypes, InitSync, StepSync, PTL DEF Spec
<1>2. SyncInv => SurvivesRestart
  BY DEF SyncInv
<1> QED BY <1>1, <1>2, PTL

---------------------------------------------------------------------------
(* Verdicts *)

\* The cache holds the polygon in force or nothing, and a test under way has
\* no answer yet and remembers that polygon.
TestInv ==
    /\ \A k \in Cameras : cache[k] \in {NoCache, mem[k]}
    /\ testing => answer = "none" /\ mem[asked[1]] \in held
    /\ VerdictFair

LEMMA InitTest == Init => TestInv
BY DEF Init, TestInv, VerdictFair

LEMMA StepTest == TypeOK /\ TestInv /\ [Next]_vars => TestInv'
<1> SUFFICES ASSUME TypeOK, TestInv, [Next]_vars PROVE TestInv'
  OBVIOUS
<1> USE DEF TestInv, VerdictFair
<1>1. ASSUME NEW e \in Editors, SetZone(e) PROVE TestInv'
  BY <1>1 DEF TypeOK, SetZone, SetPoints
<1>2. ASSUME NEW e \in Editors, Truncate(e) \/ Write(e) PROVE TestInv'
  BY <1>2 DEF Truncate, Write, test
<1>3. CASE Enabled
  BY <1>3 DEF TypeOK, Enabled
<1>4. CASE TestPolygon
  <2>1. PICK polygon :
          /\ polygon = IF cache[asked[1]] # NoCache THEN cache[asked[1]] ELSE mem[asked[1]]
          /\ cache' = [cache EXCEPT ![asked[1]] = polygon]
          /\ answer' = IF polygon \in asked[2] THEN "inside" ELSE "outside"
    BY <1>4 DEF TestPolygon
  <2>2. polygon = mem[asked[1]] /\ polygon \in held
    BY <1>4, <2>1 DEF TypeOK, TestPolygon
  <2> QED BY <1>4, <2>1, <2>2 DEF TypeOK, TestPolygon
<1>5. ASSUME NEW k \in Cameras, AddCamera(k) \/ DeleteCamera(k) PROVE TestInv'
  BY <1>5 DEF AddCamera, DeleteCamera, test
<1>6. CASE Restart
  BY <1>6 DEF Restart
<1>7. CASE UNCHANGED vars
  BY <1>7 DEF vars, test
<1> QED BY <1>1, <1>2, <1>3, <1>4, <1>5, <1>6, <1>7 DEF Next

\* A face is judged by zones the camera had during the test
\* (CaptureZone.contains_bbox against set_normalized).
THEOREM Verdicts == Spec => []VerdictFair
<1>1. Spec => []TestInv
  BY InitTypes, StepTypes, InitTest, StepTest, PTL DEF Spec
<1>2. TestInv => VerdictFair
  BY DEF TestInv
<1> QED BY <1>1, <1>2, PTL
================================================================================

---------------------------- MODULE CameraProofs ----------------------------
(* Theorems of Camera, for every timeout, frame duration and clock.          *)
EXTENDS Camera, TLAPS

\* A process that has just begun knows nothing of the stream.
NewInv == proc = "new" => ~stream /\ info = "none"

\* A start listens; a message that waits was sent with the last frame.
StartInv == proc = "starting" =>
    /\ listening /\ info # "taken"
    /\ stream => info \in {"queued", "bad"}
    /\ info = "queued" => stream /\ seen /\ age = 0

\* What the watchdog's sleep has left is in store for the age of the last frame.
WatchInv == Guarded =>
    /\ stream /\ seen
    /\ got = None => age + nap <= Stall + Period
    /\ got # None => age <= got /\ age <= Stall + Period

\* A sensor's clock that has only gone on is what the packets are stamped with.
StampInv == /\ first = None => last = -1
            /\ steady /\ first # None => last = sensor - first

IInv == TypeOK /\ NewInv /\ StartInv /\ WatchInv /\ StampInv

\* What a process begins with has its type.
LEMMA FreshTypes ==
    /\ -1 \in -1 .. MaxPts /\ 0 \in Times /\ 0 \in 0 .. StartWait
    /\ Period \in 0 .. Period /\ StopWait \in 0 .. StopWait
BY CameraAssumption DEF Times

-----------------------------------------------------------------------------
(* The callback.                                                             *)

\* A timestamp is given a place after the last one.
LEMMA PtsAfter ==
    ASSUME NEW x \in Int, last \in Int
    PROVE  /\ Pts(x) \in Int /\ Pts(x) > last
           /\ x > last => Pts(x) = x
BY CameraAssumption DEF Pts

\* Stamping a frame keeps the types and the agreement with the sensor.
LEMMA Stamped ==
    ASSUME TypeOK, StampInv, NEW ts \in Times, Stamp(ts), last' <= MaxPts
    PROVE  /\ first' \in Times /\ last' \in -1 .. MaxPts
           /\ sensor' \in Times /\ steady' \in BOOLEAN
           /\ last' > last
           /\ StampInv'
<1> USE CameraAssumption DEF TypeOK, Times
<1>1. first' \in Times /\ first' # None /\ sensor' = ts
      BY DEF Stamp
<1>2. ts - first' \in Int /\ last \in Int /\ last >= -1
      BY <1>1
<1>3. last' = Pts(ts - first')
      BY DEF Stamp
<1>4. /\ last' \in Int /\ last' > last
      /\ ts - first' > last => last' = ts - first'
      BY <1>2, <1>3, PtsAfter
<1>5. last' \in -1 .. MaxPts
      BY <1>2, <1>4
<1>6. ASSUME steady'
      PROVE  last' = sensor' - first'
  <2>1. CASE first = None
    <3>1. first' = ts /\ last = -1
          BY <2>1 DEF Stamp, StampInv
    <3> QED BY <1>1, <1>4, <3>1
  <2>2. CASE first # None
    <3>1. first' = first /\ steady /\ ts > sensor
          BY <1>6, <2>2 DEF Stamp
    <3>2. last = sensor - first
          BY <2>2, <3>1 DEF StampInv
    <3>3. ts - first' > last
          BY <1>1, <2>2, <3>1, <3>2
    <3> QED BY <1>1, <1>4, <3>3
  <2> QED BY <2>1, <2>2
<1>7. steady' \in BOOLEAN
  <2>1. steady' = (steady /\ (first # None => ts > sensor))
        BY DEF Stamp
  <2> QED BY ONLY <2>1, Zenon
<1> QED BY <1>1, <1>4, <1>5, <1>6, <1>7 DEF StampInv

-----------------------------------------------------------------------------
(* The invariant.                                                            *)

LEMMA InitInv ==
    ASSUME Init
    PROVE  IInv
<1>1. TypeOK
      BY FreshTypes DEF Init, TypeOK
<1>2. NewInv /\ StartInv /\ WatchInv /\ StampInv
      BY DEF Init, NewInv, StartInv, WatchInv, StampInv, Guarded
<1> QED BY <1>1, <1>2 DEF IInv

\* A frame makes the last one young, and leaves a start with its message.
LEMMA FrameInv ==
    ASSUME IInv, NEW ts \in Times, NEW found \in BOOLEAN, NEW built \in BOOLEAN,
           Frame(ts, found, built)
    PROVE  IInv' /\ (stream' => last' > last)
<1> USE CameraAssumption DEF IInv
<1>1. /\ UNCHANGED <<wedged, proc, listening, waited, nap, got, left>>
      /\ seen' = TRUE /\ age' = 0 /\ proc # "new"
      /\ stream' = (stream \/ found)
      BY DEF Frame, timers, Capturing, Guarded, Analyze
<1>2. info' \in {"none", "queued", "taken", "bad"}
      BY DEF Frame, Analyze, TypeOK
<1>3. /\ first' \in Times \cup {None} /\ last' \in -1 .. MaxPts
      /\ sensor' \in Times /\ steady' \in BOOLEAN /\ StampInv'
      /\ stream' => last' > last
  <2>1. CASE stream'
        BY <2>1, Stamped DEF Frame
  <2>2. CASE ~stream'
        BY <2>2 DEF Frame, stamps, TypeOK, StampInv
  <2> QED BY <2>1, <2>2
<1>4. TypeOK'
      BY <1>1, <1>2, <1>3 DEF TypeOK
<1>5. NewInv'
      BY <1>1 DEF NewInv
<1>6. StartInv'
      BY <1>1 DEF StartInv, Frame, Analyze, TypeOK
<1>7. WatchInv'
      BY <1>1 DEF WatchInv, Guarded, TypeOK
<1> QED BY <1>3, <1>4, <1>5, <1>6, <1>7

LEMMA NextInv ==
    ASSUME IInv, [Next]_vars
    PROVE  IInv'
<1> USE CameraAssumption DEF IInv, TypeOK, NewInv, StartInv, WatchInv, StampInv,
        Guarded, Goes, frame, stamps, timers
<1>1. CASE Boot
  <2>1. TypeOK'  BY <1>1, FreshTypes DEF Boot
  <2> QED BY <1>1, <2>1 DEF Boot
<1>2. CASE Subscribe  BY <1>2 DEF Subscribe
<1>3. CASE StartCamera  BY <1>3 DEF StartCamera
<1>4. CASE TakeInfo  BY <1>4 DEF TakeInfo
<1>5. CASE GiveUp  BY <1>5 DEF GiveUp
<1>6. CASE Die  BY <1>6 DEF Die
<1>7. CASE AnyFrame  BY <1>7, FrameInv DEF AnyFrame
<1>8. CASE Wedge  BY <1>8 DEF Wedge
<1>9. CASE WatchLoad  BY <1>9 DEF WatchLoad
<1>10. CASE WatchCheck  BY <1>10 DEF WatchCheck
<1>11. CASE Signal  BY <1>11 DEF Signal
<1>12. CASE Stopped  BY <1>12 DEF Stopped
<1>13. CASE ForceExit  BY <1>13 DEF ForceExit
<1>14. CASE Tick  BY <1>14 DEF Tick, Due, Capturing
<1>15. CASE UNCHANGED vars  BY <1>15 DEF vars
<1> QED BY <1>1, <1>2, <1>3, <1>4, <1>5, <1>6, <1>7, <1>8, <1>9, <1>10, <1>11,
           <1>12, <1>13, <1>14, <1>15 DEF Next

THEOREM CameraInductive == Spec => []IInv
<1>1. Init => IInv  BY InitInv
<1>2. IInv /\ [Next]_vars => IInv'  BY NextInv
<1> QED BY <1>1, <1>2, PTL DEF Spec

-----------------------------------------------------------------------------
(* What follows.                                                             *)

\* Types and bounds of the callback's, the start's and the watchdog's state.
THEOREM CameraTypeCorrect == Spec => []TypeOK
<1>1. IInv => TypeOK  BY DEF IInv
<1> QED BY <1>1, CameraInductive, PTL

\* The one-shot stream info cannot pass a start by (app/mod.rs:63-64).
THEOREM CameraInfo == Spec => []InfoNotMissed
<1>1. IInv => InfoNotMissed  BY DEF IInv, StartInv, InfoNotMissed
<1> QED BY <1>1, CameraInductive, PTL

\* A stall lasts the timeout and one sleep at the most (app/mod.rs:148-168).
THEOREM CameraFresh == Spec => []FramesFresh
<1>1. IInv => FramesFresh
      BY CameraAssumption DEF IInv, WatchInv, FramesFresh, TypeOK
<1> QED BY <1>1, CameraInductive, PTL

\* Presentation time is sensor time while that goes on (libcam.rs:237-243).
THEOREM CameraTracks == Spec => []TracksSensor
<1>1. IInv => TracksSensor  BY DEF IInv, StampInv, TracksSensor
<1> QED BY <1>1, CameraInductive, PTL

\* Packets are stamped in growing order (libcam.rs:241-244).
THEOREM CameraPtsGrow == Spec => PtsGrow
<1>1. IInv /\ [Next]_vars => [AnyFrame /\ stream' => last' > last]_vars
      BY FrameInv DEF AnyFrame
<1> QED BY <1>1, CameraInductive, PTL DEF Spec, PtsGrow
=============================================================================

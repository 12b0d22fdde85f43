------------------------------- MODULE Camera -------------------------------
(* The process around its camera: the H.264 callback (src/libcam/libcam.rs),   *)
(* the start that waits for the first stream info, the frame watchdog          *)
(* (src/app/mod.rs) and the bounded shutdown (src/main.rs). Time is a tick     *)
(* that no due timer lets pass.                                                *)
EXTENDS Integers

CONSTANTS Stall,      \* FRAME_STALL_TIMEOUT, in ticks
          Period,     \* the watchdog's sleep
          StartWait,  \* STREAM_INFO_TIMEOUT
          StopWait,   \* the shutdown's limit
          Duration,   \* frame_duration_us, 1000000 / framerate
          MaxTime,    \* bound: the sensor's timestamps
          MaxPts,     \* bound: presentation timestamps
          None

ASSUME CameraAssumption ==
    /\ Stall \in Nat /\ Period \in Nat \ {0} /\ StartWait \in Nat /\ StopWait \in Nat
    /\ Duration \in Nat \ {0} /\ MaxTime \in Nat /\ MaxPts \in Nat
    /\ None \notin Int

VARIABLES wedged,     \* the camera gives no frames
          proc,       \* the process: off, new, starting, running, stopping
          listening,  \* App::start has subscribed to the stream info
          info,       \* its one-shot message: none, queued, taken, bad
          stream,     \* the encoder's parameters are known
          first,      \* first_ts_us
          last,       \* last_pts_us
          sensor,     \* timestamp of the last frame that was stamped
          steady,     \* history: no timestamp has repeated or gone back
          seen, age,  \* last_frame: set at all, and how long ago
          waited,     \* how long App::start has waited
          nap,        \* what is left of the watchdog's sleep
          got,        \* the age it has read and not yet judged
          left        \* what is left of the shutdown's time

stamps == <<first, last, sensor, steady>>
frame == <<stream, stamps, seen, age>>
timers == <<waited, nap, got, left>>
vars == <<wedged, proc, listening, info, frame, timers>>

Times == 0 .. MaxTime
Guarded == proc \in {"running", "stopping"}
Capturing == Guarded \/ proc = "starting"

TypeOK ==
    /\ wedged \in BOOLEAN
    /\ proc \in {"off", "new", "starting", "running", "stopping"}
    /\ listening \in BOOLEAN /\ info \in {"none", "queued", "taken", "bad"}
    /\ stream \in BOOLEAN /\ seen \in BOOLEAN /\ steady \in BOOLEAN
    /\ first \in Times \cup {None} /\ sensor \in Times
    /\ last \in -1 .. MaxPts
    /\ age \in Nat /\ waited \in 0 .. StartWait
    /\ nap \in 0 .. Period /\ left \in 0 .. StopWait
    /\ got \in Nat \cup {None}

Init == /\ wedged = FALSE /\ proc = "off"
        /\ listening = FALSE /\ info = "none" /\ stream = FALSE
        /\ first = None /\ last = -1 /\ sensor = 0 /\ steady = TRUE
        /\ seen = FALSE /\ age = 0
        /\ waited = 0 /\ nap = Period /\ got = None /\ left = StopWait

Goes(from, to) == proc = from /\ proc' = to

-----------------------------------------------------------------------------
(* App::start                                                                *)

\* systemd, Restart=always
Boot == /\ Goes("off", "new")
        /\ listening' = FALSE /\ info' = "none" /\ stream' = FALSE
        /\ first' = None /\ last' = -1 /\ sensor' = 0 /\ steady' = TRUE
        /\ seen' = FALSE /\ age' = 0
        /\ waited' = 0 /\ nap' = Period /\ got' = None /\ left' = StopWait
        /\ UNCHANGED wedged

Subscribe == /\ proc = "new" /\ ~listening
             /\ listening' = TRUE
             /\ UNCHANGED <<wedged, proc, info, frame, timers>>

\* Mutant: the camera is started before the subscription.
StartCameraDeaf == /\ Goes("new", "starting")
                   /\ UNCHANGED <<wedged, listening, info, frame, timers>>

StartCamera == /\ listening /\ Goes("new", "starting")
               /\ UNCHANGED <<wedged, listening, info, frame, timers>>

TakeInfo == /\ info = "queued" /\ Goes("starting", "running")
            /\ info' = "taken" /\ nap' = Period /\ got' = None
            /\ UNCHANGED <<wedged, listening, frame, waited, left>>

GiveUp == /\ info # "queued" /\ waited = StartWait /\ Goes("starting", "off")
          /\ UNCHANGED <<wedged, listening, info, frame, timers>>

\* A later step of the start fails, or the process is killed.
Die == /\ proc # "off" /\ proc' = "off"
       /\ UNCHANGED <<wedged, listening, info, frame, timers>>

-----------------------------------------------------------------------------
(* callbackH264                                                              *)

\* Mutant: a timestamp that repeats is let through.
PtsRepeats(since) == IF since < last THEN last + Duration ELSE since

Pts(since) == IF since <= last THEN last + Duration ELSE since

\* Mutant: frames are counted, the sensor's clock is not looked at.
StampCounted(ts) == /\ first' = IF first = None THEN ts ELSE first
                    /\ last' = Pts(last)
                    /\ sensor' = ts
                    /\ steady' = (steady /\ (first # None => ts > sensor))

Stamp(ts) == /\ first' = IF first = None THEN ts ELSE first
             /\ last' = Pts(ts - first')
             /\ sensor' = ts
             /\ steady' = (steady /\ (first # None => ts > sensor))

\* The bytes do, or do not, make the parameters known; from them a stream
\* info is built, or is not. A message goes to those who listen.
Analyze(found, built) ==
    /\ stream' = (stream \/ found)
    /\ info' = IF stream \/ ~found THEN info
               ELSE IF ~built THEN "bad"
               ELSE IF listening THEN "queued" ELSE "none"

Frame(ts, found, built) ==
    /\ Capturing /\ ~wedged
    /\ seen' = TRUE /\ age' = 0
    /\ Analyze(found, built)
    /\ IF stream' THEN Stamp(ts) /\ last' <= MaxPts ELSE UNCHANGED stamps
    /\ UNCHANGED <<wedged, proc, listening, timers>>

\* The camera stops giving frames, and libcamlite may get it going again.
Wedge == /\ wedged' = ~wedged
         /\ UNCHANGED <<proc, listening, info, frame, timers>>

-----------------------------------------------------------------------------
(* spawn_frame_watchdog and main                                             *)

WatchLoad == /\ Guarded /\ nap = 0 /\ got = None
             /\ got' = IF seen THEN age ELSE 0
             /\ UNCHANGED <<wedged, proc, listening, info, frame, waited, nap, left>>

\* Mutant: the sleep is added to the timeout.
WatchCheckLate == /\ Guarded /\ got # None
                  /\ proc' = IF got > Stall + Period THEN "off" ELSE proc
                  /\ got' = None /\ nap' = Period
                  /\ UNCHANGED <<wedged, listening, info, frame, waited, left>>

WatchCheck == /\ Guarded /\ got # None
              /\ proc' = IF got > Stall THEN "off" ELSE proc
              /\ got' = None /\ nap' = Period
              /\ UNCHANGED <<wedged, listening, info, frame, waited, left>>

Signal == /\ Goes("running", "stopping") /\ left' = StopWait
          /\ UNCHANGED <<wedged, listening, info, frame, waited, nap, got>>

\* App::stop returns, if it does: libcamera can block for ever.
Stopped == /\ Goes("stopping", "off")
           /\ UNCHANGED <<wedged, listening, info, frame, timers>>

\* Mutant: the limit only helps while the camera works.
ForceExitUnwedged == /\ left = 0 /\ ~wedged /\ Goes("stopping", "off")
                     /\ UNCHANGED <<wedged, listening, info, frame, timers>>

ForceExit == /\ left = 0 /\ Goes("stopping", "off")
             /\ UNCHANGED <<wedged, listening, info, frame, timers>>

-----------------------------------------------------------------------------
(* Time: whoever is due goes first.                                          *)

Due == \/ proc = "starting" /\ (info = "queued" \/ waited = StartWait)
       \/ Guarded /\ (nap = 0 \/ got # None)
       \/ proc = "stopping" /\ left = 0

Tick == /\ Capturing /\ ~Due
        /\ age' = IF seen THEN age + 1 ELSE age
        /\ waited' = IF proc = "starting" THEN waited + 1 ELSE waited
        /\ nap' = IF Guarded THEN nap - 1 ELSE nap
        /\ left' = IF proc = "stopping" THEN left - 1 ELSE left
        /\ UNCHANGED <<wedged, proc, listening, info, stream, stamps, seen, got>>

AnyFrame == \E ts \in Times, found, built \in BOOLEAN : Frame(ts, found, built)

Next == \/ Boot \/ Subscribe \/ StartCamera \/ TakeInfo \/ GiveUp \/ Die
        \/ AnyFrame \/ Wedge
        \/ WatchLoad \/ WatchCheck \/ Signal \/ Stopped \/ ForceExit \/ Tick

\* Time passes and timers that are due run. Frames, signals, the end of
\* App::stop and restarts need not come.
Fairness == /\ WF_vars(Tick) /\ WF_vars(TakeInfo) /\ WF_vars(GiveUp)
            /\ WF_vars(WatchLoad) /\ WF_vars(WatchCheck) /\ WF_vars(ForceExit)

Spec == Init /\ [][Next]_vars /\ Fairness

-----------------------------------------------------------------------------
(* app/mod.rs:63-64: "Subscribe before starting the camera so the one-shot   *)
(* stream info message can't be sent before anyone is listening": a start    *)
(* that waits while the stream is known has the message waiting for it.      *)
InfoNotMissed == proc = "starting" /\ stream => info \in {"queued", "bad"}

(* app/mod.rs:148-152: a process past its start is never without frames for  *)
(* longer than the stall timeout and one sleep of the watchdog.              *)
FramesFresh == Guarded => stream /\ seen /\ age <= Stall + Period

(* libcam.rs:237-238: "Use the sensor timestamp so RTP time tracks real time *)
(* even when frames are dropped": as long as the sensor's clock goes on.     *)
TracksSensor == steady /\ first # None => last = sensor - first

(* libcam.rs:241-243: of two packets, the later one has the later timestamp, *)
(* whatever the sensor's clock does.                                         *)
PtsGrow == [][AnyFrame /\ stream' => last' > last]_vars

(* main.rs:62-63: "never let a clean stop hang past this".                   *)
StopEnds == proc = "stopping" ~> proc = "off"
=============================================================================

# A formal model of atomrust

atomrust turns a Raspberry Pi camera into an RTSP server with object detection
reported over MQTT. This directory holds TLA+ specifications of the parts of it
where concurrency, ordering and shutdown are hard to test, TLC runs over small
instances, and TLAPS proofs of what should hold for every instance. Paths below
are relative to the repository; `src/` is its Rust crate.

## 1. Inventory

| Component | State | Operations | Talks to |
|---|---|---|---|
| `src/runtime/task_manager.rs` | `hold_tx` (an `Option` under a mutex), `hold_rx`, broadcast `stop_tx`; per task a hold and a stop channel | `spawn`, `stop`, `Task::stop`, drop of a `Task`, `wait_for_stop` | everybody that owns a worker |
| `src/net/server.rs`, `connection_manager.rs` | accept loop; map of connections, channel of ended ones | accept, `spawn`, worker `run`, `stop` | connections, App |
| `src/net/connection.rs` | socket halves, bounded media queue (`MEDIA_QUEUE_LEN`) | batch and flush media, handle a request, see a stop | handler, sessions |
| `src/app/handler.rs` | none (a read guard of the context per use) | OPTIONS, DESCRIBE, SETUP, PLAY, TEARDOWN | both managers |
| `src/session/session_manager.rs` | map from id to `Arc<Mutex<Session>>`, channel of stopped ids | `setup`, `play`, `teardown`, worker `run`, `stop` | sessions, handler |
| `src/session/mod.rs` | Ready or Playing, `need_stream_state`, `wait_for_keyframe`, muxer, control channel | its select loop, `play`, `teardown` | source broadcast, media queue |
| `src/source/` | map of sources, SDP cache; media info broadcast | register, describe, subscribe, `query_media_info`, stop | LibCam, sessions |
| `src/libcam/` | last pts, last frame time, one-shot flag, rate windows | callbacks of the camera thread | source broadcast, publishers |
| `src/app/mod.rs`, `src/main.rs` | the whole | start, stop, watchdog, forced exit | all |
| `src/hamqtt/`, publishers in `src/app/mod.rs` | announced topics, connection events | publish with discovery, reconnect | LibCam, broker |
| `packaging/atomrust-overlay` | command line, fstab, saved timers | ro, rw | the boot |
| `src/session/setup.rs`, `transport.rs` | none | choose a transport | handler |
| `src/pipeline/`, `src/media/`, config, sysinfo | none of interest | pure functions, I/O | |

What is hard, and what makes each part correct:

* **Tasks.** Any task may be spawned, stopped, dropped or end while the runtime
  stops. Correct when no task misses the stop, `stop` waits for all it let in, and
  both stops return.
* **Media.** A camera that does not wait, a lagging receiver, a full queue, a slow
  client and PLAY requests meet in one select loop. Correct when a client can
  decode all it gets, media begins after the PLAY response, at a sequence number
  not before the announced one, and nothing is queued any more once TEARDOWN is
  answered (what is queued by then may still be written after the response).
* **Sessions.** Requests of several connections, workers that end by themselves
  and a manager that learns of it later share a map. Correct when a live session
  is reachable, an ended one leaves the map, a request is answered, and nothing of a
  connection that has gone goes on playing. A PLAY is not always answered: it waits
  for ever if the worker ends before it reads the query (section 4), and what waits
  for that PLAY waits with it. What is shown is that this is the only exception.
* **Shutdown.** Server, managers and runtime stop in an order that each relies on.
  Correct when each stop returns, unless such a PLAY keeps `Server::stop` waiting,
  and leaves nothing running behind it.
* **Requests.** Each connection has one request at a time handled, on state that
  the start builds and the stop takes down. Correct when every request is answered
  but for a PLAY that hangs and a request that waits for it, the camera is found by whoever asks while the server serves, and a SETUP is
  granted what it asked for and nothing else.
* **Reports.** Detections come when they like, over a ring that overwrites, to a
  publisher that waits for a broker that comes and goes. Correct when every sensor
  is announced, what is seen shows, and what is not seen any more is cleared.
* **Camera, overlay.** Timestamps that must grow, and a script that may lose power
  between two steps.

`PROJECT.json` lists each hazard at its line with the property that covers it.

## 2. Modules

| Module | Models |
|---|---|
| `StopBarrier` | what `TaskManager` promises: a barrier that closes and waits |
| `TaskManager` | spawn, the hold and stop channels, both stops, futures of three kinds |
| `TaskManagerProofs` | its theorems |
| `ClientFeed` | what a decoding client may rely on |
| `StreamStateQuery` | what `Session::play` may rely on of the worker it asks |
| `Session` | one session worker, its source, the media queue and its connection |
| `SessionProofs` | its theorems |
| `SessionManager` | the control plane: connections, session map, workers, `App::stop` |
| `SessionManagerProofs` | its theorems |
| `ConnectionManager` | server loop, registry of connections, life of a connection |
| `Source` | the source of the camera, its manager, media info queries |
| `Transport` | the choice of a transport for a SETUP, as pure operators |
| `App` | `ConnectionManager` and `Source` composed by the handler, `App::start` and `App::stop` |
| `AppProofs` | its theorems, and those about `ConnectionManager` |
| `Overlay` | `atomrust-ro` and `atomrust-rw` step by step, with power cuts and errors |
| `OverlayProofs` | its theorems |
| `HaMqtt` | `HAMQTTClient`: announcements over reconnects |
| `HaMqttProofs` | its theorems |
| `Detections` | from the network's outputs to detections and their summary, as pure operators |
| `Publishers` | the low resolution callback and the object publisher, composed with `HaMqtt` |
| `PublishersProofs` | its theorems |
| `Camera` | the H.264 callback, the start that waits for it, the watchdog, the bounded stop |
| `CameraProofs` | its theorems |
| `MC*` | constants for TLC |

Modules meet at these points: `TaskManager` proves what the others take for granted of
a worker (`StopSeen`: a dropped `Task`, `Task::stop` or the runtime's broadcast; a
hold released when the loop is left). `ConnectionManager` shows that `Server::stop`
leaves no connection in its loop, which is the guard of `ServerStopped` in
`SessionManager`. `App` keeps of a PLAY only that it is answered somehow or hangs, and
of a TEARDOWN that it is answered or waits behind a PLAY that hangs (`hung`); when a
PLAY can hang is the subject of `SessionManager` (`AnsweredOrHung`), as is the session
map that `App` leaves out. `Session` has the worker
in full for one connection, `SessionManager` has of a frame only that it answers a
query and that a closed queue ends the worker, but for any number of connections and
sessions. What the two have in common is stated once: `StreamStateQuery` is the
conversation of `play` with the worker, without channels and mutex (a question is
read, owed, answered; a worker plays when a PLAY that has its answer says so), and both
implement it.

### TaskManager

`task[t]` follows one spawn: `spawning` while `spawn` holds the mutex (the
temporary guard of `if let` lives to the end of its block, so nothing else gets
at `hold_tx` until the stop channel is subscribed), then `running`, `leaving` and
`finished`. `ctx[t]` says that a clone of `hold_tx` made for `t` is alive.
`Detached` are the publishers, whose closure drops the context unused;
`EarlyDrop` are sessions, which move it into an inner function. `rt` is the
progress of `TaskManager::stop`.

### Session and ClientFeed

`frames` is what the camera has broadcast; `pos` is the receiver, and it is
`Lagged` when it is more than `RingCap` behind. `wpc` is `sending` between two
`try_send` calls, so the connection may take packets in the middle of a frame.
The media queue is `stream` from `taken` on: keeping the packets that were taken
lets a property speak of all a client ever gets. The connection is one task: while
it handles PLAY (`awaiting`, `replying`) or TEARDOWN (`tearing`) it takes nothing
from the queue. `reply` is the receiver that `play` subscribes, `info` the
sequence number of the first PLAY response written.

### SessionManager

Media is reduced to the step `Frame`. A session value lives while the map or a
request refers to it (`Held`); dropping it stops the worker. A request takes the
steps of its awaits: SETUP spawns, then inserts; PLAY and TEARDOWN look the
session up, lock it, wait. `app` is the progress of `App::stop`. `Hangs(s)` says that
a PLAY waits for the stream state of a worker that is over and has not sent it: the
exception of `AnsweredOrHung` and `ShutdownCompletes`, and of nothing else.

### ConnectionManager

The accept loop starts a worker, then inserts its handle; the registry's worker
removes what it is told of. A connection sees a stop in its select only, never
while it handles a request or writes.

### Source, Transport and App

`App` has two instances: `CM` (`ConnectionManager`) and `Src` (`Source`), over the
same set of connections. Its own state is `phase`, the statement of `App::start`
or `App::stop` that is next, and per connection `req`, the request `handle` is
working on, and `answer`, what it has returned. A request is a record of what
`handle` looks at: method, which headers there are or can be read, path, candidate
transports. `Decision` is what the headers settle; the rest takes one action per
await: `SetupSubscribe`, `SetupQuery` (send the query, receive an answer),
`SetupFinish`. A connection in `handling` takes no other step. `hung` are those whose
`handle` never returns: any PLAY may (`PlayHangs`), and then any TEARDOWN may wait for
the same session's mutex (`TeardownHangs`).

In `Source`, `value` is the `Source` in the manager's map: `draining` while
`SourceManager::stop` waits for its worker, `dropped` afterwards, and with it the
sender that keeps the answers' channel open (`Closed`). `unread[c]` counts answers in
the receiver of `c`, `Cap + 1` standing for a receiver that lags, and `control`
queries the worker has not read. An answer goes to everyone who listens: a client may
get the answer to another's query, which is as good. `Cached` is the description
cache, from which nothing is ever removed.

`Transport` has a candidate's lower protocol, the kinds of its parameters and its
channels, and gives the outcome of the negotiation: the target, and the channels
the response tells. Channels are `u8`: the one after 255 is 0 (a release build
wraps; a debug build would panic instead).

### Camera

Time is a tick (five seconds in the run), and no due timer lets one pass: tasks
are assumed to run much faster than their timeouts. `age` is the time since
`last_frame` was set; the watchdog reads it (`got`) and judges it in a second step,
between which frames may come. `sensor` is any timestamp at all: it may repeat or
step back; `steady` remembers whether it did. `info` is the message to the receiver
that `App::start` holds. `Die` is a later step of the start that fails, or a kill;
`Stopped` is the end of `App::stop`, which need not come.

### Overlay

One action per command of the script. `root` and `boot` are the card's root file
system and command line as running programs see them, `disk` what of them has been
written: `WriteBack` may write either at any moment, `Sync` writes both, and a
power cut leaves `disk`. `hand` is a timer that is disabled and not yet in the
`STATE` file. A reboot takes the overlay from the command line on the card; while
it is active the script works on the card below it. `Abort` is `set -e`. Three
commands may fail without it: `systemctl is-enabled` is the condition of an `if`, so
a failing one leaves the timer enabled (`IsEnabledFails`, `spared` remembers it), and
the loop of rw passes over a list it cannot read (`CatFails`) and a timer it cannot
enable (`EnableFails`). `told` is the script's last message, `broken` a history
variable. What the script asks of the running system and its mounts is taken to be
answered right.

### HaMqtt, Detections and Publishers

`pub[s]` is how far the one task that publishes sensor `s` is in `publish`. The
library's thread sets `up` and runs the connected callback later (`callbacks`
counts those that are due), so a sample may fall between the two. What a message
meets on its way is in `lost` and `refusals`; a broker without persistence may
forget what it knows while it is away.

`Publishers` runs `HaMqtt` with the sensors of one object publisher: a round
(`todo`, `values`) publishes the total and then the classes one after the other,
which `HaMqtt` takes for independent tasks. `Detections` says what a frame's
outputs become and what of it is reported. `queue` is the ring as the publisher
sees it, `lagged` that something it had not received is gone. `shown` is the last
state the broker got. A state goes out at QoS 0 and is not looked at again: without a
connection, or refused, it is lost (`LoseState`).

## 3. Runs

| Run | Instance | Shows |
|---|---|---|
| `task_manager` | a worker, a publisher, a session | every order of spawn, end, drop and both stops; the barrier refinement; both stops return |
| `session` | 4 frames (keyframes of 2 packets, others of 1 or 2), ring of 1, queue of 2, batches of 2, two PLAYs | decodability, RTP-Info, response before media, nothing queued once TEARDOWN is answered; `play` and the worker implement `StreamStateQuery` |
| `session_manager` | 2 connections, 2 sessions, mux failures, any connection may PLAY | live sessions are reachable; shutdown leaves none running; for each session, all that PLAY it and its worker implement `StreamStateQuery` |
| `session_manager_live` | 2 connections, 1 session, mux failures, any connection may PLAY | ended sessions leave the map, orphans end; unless a PLAY hangs every request is answered and `App::stop` completes |
| `session_id_collision` | ids may repeat | *violated*: a refused SETUP ends another session |
| `play_never_answered` | PLAY from any connection | *violated*: a PLAY that nobody answers |
| `overlay_faults` | 2 timers, 2 files, 2 power cuts and 2 errors anywhere | what the script reports is on the card, whatever is cut later, but for the timers whose `is-enabled` failed; a rw that ended with an error is finished by the next one |
| `overlay_timers_lost` | the same, 1 cut | *violated*: a cut in ro, then ro and rw: a timer stays disabled |
| `overlay_ro_ignored` | the same, no faults | *violated*: ro after rw says it is done, and the next boot is read-write |
| `publishers` | the total and one class, 3 network outputs, ring of 1, 2 connections, 1 refused message | announced sensors are known to the broker; when the connection lasts all are announced, counts go to 0 when nothing is seen and detections show, also to a publisher that lags |
| `camera` | timeouts of 3, 1, 4 and 2 ticks, 4 timestamps, a frame duration of 2 | the start misses no stream info; no stall outlasts the watchdog; timestamps grow, and track the sensor while it is steady; a stop ends |
| `app` | 2 connections, 11 requests, `MAX_QUEUED_INFO` of 1, 2 queries under way, a start that may fail at two steps, a stop at any time | no connection survives the stop; registered ones are removed; the camera is there for who asks; transports are as asked; a failed start returns, and unless a PLAY hangs every request is answered and stop returns |

Bounds. Three tasks are one of each kind, which already puts two in any race with a
third. Four frames are the fewest in which one answers the query, one is sent, one is
lost to a lag, a full queue or a second PLAY, and the next one arrives; two packets a
frame and a queue of two let the queue fill in the middle of one. Two connections are
needed for contention on a session and two sessions for a collision and for shutdown
in turn. Two timers put one before and one after any interruption of a loop; two
faults are one that breaks a switch and one that breaks its repetition. Two
connections to the broker, a ring of one and one refused message let a publisher lag,
be refused and have its sensors forgotten in one behaviour; one class beside the total
makes a round of two, and the proof is for any sensors. In `app` one client sends
requests that lead to each action of the handler and to each branch of the
negotiation, PLAYs that hang among them, and the other SETUPs and TEARDOWNs, which may
wait behind such a PLAY: with a ring of one answer and two queries the first
lags while the second is answered. (`MaxQueries` bounds the control channel, which has
no bound; a query that would exceed it waits.) Four timestamps and a duration of two
let a step back be followed by steps that catch up or do not. Deadlock is checked for
`camera` only: each of the other systems may come to rest (all frames sent, all
stopped).

Fairness. `TaskManager`: a call that has begun goes on and a worker gets to its
select; nobody has to call anything. `SessionManager`: weak fairness of each arm of
the worker's select that stays ready (tokio polls arms in random order), of `Frame`
(the frame watchdog ends the process when the camera stalls; a frame that cannot be
muxed may come in its place), of the handler's own
steps; strong fairness where a step waits for a mutex, because tokio's is first in,
first out, and for the stop of a connection that keeps being busy. `App`: weak
fairness of each task, `App`'s own, the accept loop's with the stop it runs, and the
workers', and of the stop arms, strong for a connection, whose select has the stop
among its ready arms again and again, and whose query `MaxQueries` may hold up; a
write ends or hits `WRITE_TIMEOUT`; the start may wait at any of its steps.
`Publishers`: the publisher's awaits go on, its timeout among them (the library
completes every token of a lasting connection and fails those of a lost one), and a
due callback runs; after `Lagged` the loop is back in `recv` long before the camera
has filled the ring of 5 again, hence strong fairness of `Take`. Nobody has to
connect, so the properties are about a connection that lasts. `Camera`: time passes
and due timers run; frames, signals, restarts and the end of `App::stop` need not
come. `Overlay` has no fairness: a script may stop anywhere. No request, disconnect,
frame loss or shutdown is ever forced to happen.

## 4. What the violated runs say

* **`play_never_answered`** (`src/session/mod.rs:111`). `play` waits on a broadcast
  channel whose sender the `Session` keeps itself, so it is not told that the
  worker ended. In the trace a session that plays to a connection that has gone is
  asked for its state by another connection, and the next frame ends the worker
  before it reads the query. A muxer error does the same to an ordinary client. The
  connection is stuck, holds the session's mutex, and only the forced exit of
  `main.rs` gets the process down.
* **`session_id_collision`** (`src/session/session_manager.rs:135`). The refused
  session is dropped, its worker stops and reports the id, and the manager removes
  the session that had it first.
* **`overlay_timers_lost`** (`packaging/atomrust-overlay:105`). ro disables a timer
  before it writes it down, and a second ro begins with an empty list. After a
  power cut in ro, the timers disabled so far are known to nobody.
* **`overlay_ro_ignored`** (`packaging/atomrust-overlay:90`). ro looks at what is
  running, not at what boots next; with rw run from inside read-only mode the two
  differ.

Some small things are stated in the models without a run of their own.

* A comment of `task_manager.rs` (line 83) says a broken hold channel means
  that all tasks have finished, but publishers release it before they begin
  (`src/app/mod.rs:307`) and sessions a moment before they end
  (`src/session/mod.rs:159`), which is why `StopWaitsForLoop` speaks of the loop of a
  task that keeps its context.
* `describe` never returns `None`, so DESCRIBE of a path that does not exist is
  answered with 500, and the 404 of `src/app/handler.rs:66` is never sent.
* A candidate transport without a lower protocol passes `is_supported` but has no
  target: as the first that passes it makes the SETUP fail with 461 even if a later
  one would do (`src/session/setup.rs:27`).
* An MQTT client that cannot be made (`src/app/mod.rs:105`) ends the start without
  the stop of the runtime that the other failures get; `main` exits right after.
* ro says that read-only mode is configured also when `systemctl is-enabled` failed for
  a timer (`packaging/atomrust-overlay:104`), which stays enabled then; likewise rw
  when it could not read the list of timers (line 130), which it removes.
  `RoReported` and `RwResumes` make the exception.
* A session whose muxer fails between its spawn and its insertion
  (`src/session/session_manager.rs:69-79`) is reported before it is in the map and
  stays there, ended, until shutdown. `EndedSessionsLeaveTheMap` says so.
* A query that lags (`src/source/mod.rs:161`) ends in 500 though an answer is there:
  `CameraIsServed` allows for it.

## 5. Proofs

`TaskManagerProofs`, for any set of tasks of any kinds:

* `TypeCorrect`: `Spec => []TypeOK`.
* `Inductive`: the invariant `IInv`. `NoMissedStop` alone is not inductive: that a
  holder has the signal after `RtStopSend` needs that no spawn is in progress
  then (`SpawnHolds` with `ApexUntilStop`: a spawn in progress has `hold_tx` in
  place, and `stop` has taken it), and that nobody comes in later needs that
  `hold_tx` stays taken.
* `NoMissedStopHolds`, `StopWaitsHolds` and `Refinement` follow from it.

`SessionProofs`, for any ring, queue and batch size, any kinds and number of frames,
and any number of PLAYs:

* `SessionTypeCorrect`: `Spec => []TypeOK`, with the bound of the media queue. It
  needs `SendingInv` (in the send loop there is a frame, and a packet of it left).
* `SessionInductive`: the invariant `IInv`. `Decodable` looks back at packets the
  queue has accepted; it is inductive once the worker's state is tied to the last
  of them: `GateInv` says that with the gate open the tip is the packet right
  before the next one, `BehindInv` that frames and sequence numbers are past it.
  `RtpInfoNotAhead` needs that no media is queued before the first PLAY is told its
  number (`SilentInv`: no Play message is under way, `ReadyShut`) and that a number
  that is not ahead stays so (`ReplyInv`, by the lemma `NotAheadKept`).
* `SessionDecodable`, `SessionRtpInfo` and `SessionTeardown` follow from it.
* `SessionImplementsQuery`: the refinement of `StreamStateQuery`. It needs `Talk`: what
  the control channel holds, by where the PLAY is (at most the Play of the last PLAY
  and the question of this one, in this order), and that the worker owes an answer or
  has given it, not both.
* `SessionImplementsFeed`: the refinement of `ClientFeed`. Taking a packet out of
  the queue appends it to the wire (`FirstOfNext`), the tip of the wire and the
  packet are neighbours in `Decodable`, and there is one to take only after the
  response (`TakenInv`, `SilentInv`); every other step stutters.

`CameraProofs`, for all timeouts, frame durations and clocks:

* `CameraInductive`: the invariant `IInv`. `FramesFresh` needs what the watchdog's
  sleep has left: as long as it sleeps, the age of the last frame and that rest are
  within the stall timeout and one sleep (`WatchInv`), and a start is entered with
  a frame that is new (`StartInv`: the message waits since the last frame).
  `TracksSensor` needs `StampInv`.
* `CameraTypeCorrect`, `CameraInfo`, `CameraFresh`, `CameraTracks` and
  `CameraPtsGrow` follow from it.

`AppProofs`, for any connections, requests and bounds (for the types: any finite set of
connections):

* `ServerCloses`: `Spec => []StoppedMeansClosed` of `ConnectionManager`. The invariant says that a worker
  that has not ended is in the registry or about to be inserted (`Accounted`), for
  which only ended ones may be reported (`ReportedIsDone`), and that nothing comes
  in once the accept loop is left (`Closing`).
* `AppServes`: a step of `App` is a step or a stutter of `ConnectionManager`
  (`ServerTakesSteps`); `AppCloses` takes `ServerCloses` over from there.
* `CameraServed`: `Spec => CameraIsServed`. The invariant ties the source to the phase
  (`Boot`), says that connections run only while the server does (`Serving`, for
  which the invariant of `ConnectionManager` is needed: past `ServerDone` none is
  in its loop), that a request is answered once (`Handling`) and that a query fails
  only by lagging (`Asking`).
* `AppTypes`: `Spec => []TypeOK`. The queue of ended connections has no bound in the
  code; that it never holds more than there are connections is a count of those that
  are over (`Counted`: each reports once).
* `Granted`: `Spec => GrantedAsAsked`, from lemmas on the operators of `Transport`; the
  answer to a request is written by the handler of that request only (`OnlyItsHandler`).

`SessionManagerProofs`, for any connections, sessions and ids. As long as no id is
drawn twice (`AllowCollision = FALSE`; with a collision the code does not have the
first property, section 4):

* `SessionsReachable` and `SessionsStopped`: `LiveIsReachable` and `DrainedMeansStopped`.
  Each of the two needs the other's half of the invariant: the drain gets every
  live session because each is in the map (`Reachable`) or has a SETUP under way
  (`Started`), of which there is none past the server (`Closing`); a session stays
  in the map because its id is its own (`Named`) and only ended ones are reported
  (`ReportedIsDone`); and its insertion finds the place free (`Inserting`).

Whether or not ids collide:

* `SessionManagerTypes`, for a finite set of sessions: `Spec => []TypeOK`, which bounds
  two channels that have no bound in the code. That a control channel holds at most two
  messages takes the session's mutex, which is held across the await of PLAY
  (`Locking`): one PLAY at a time has its question in the channel, behind at most one
  Play of the PLAY before (`Channels`). The manager's channel holds at most one report
  for each session that is over (`Counted`).
* `PlayHasItsOwnAnswer`: while a PLAY waits, its question is in the channel, the worker
  owes the answer, or it is there, and nobody else waits in the session. So nothing
  but the end of the worker can leave a PLAY without an answer, which is what the run
  `play_never_answered` shows.
* `QueriesAnswered`: `Spec => ImplementsQueries`, the refinement of `StreamStateQuery` for
  each session, action by action, from the same invariant `TInv` (`Conversation`).
* `HangsForGood`: a PLAY that hangs is not delayed but lost: no step of the other
  connections, of the worker or of `App::stop` ends it.
* `OwnPlayNeverHangs`: it takes a PLAY of another connection's session or a muxer that
  fails. Without both no PLAY hangs, so that `AnsweredOrHung` and `ShutdownCompletes`
  hold there without their exception. The invariant (`PInv`): a connection plays
  only what it set up and holds the session while it waits (`OwnPlays`, `PlaysTheLive`),
  so its worker sees neither a dropped session nor a stop before the answer
  (`StopIsHeld`), nor a shutdown, which closes connections first (`ClosedInOrder`).
* `NoneOutlivesTheApp`: when `App::stop` is over no session is live. A session that a
  collision kept out of the map is not drained, but the runtime waits for it.

`OverlayProofs`, for any timers and files and any number of faults:

* `ReportedRo`, `ReportedRw`, `ResumedRw`, `OverlayTypes`. What a run of the script says at
  its end follows from what it has done so far (`RoProgress`, `RwProgress`, one line per
  step), and that it is on the card from the sync before each message (`Synced`: a script
  that has said it is done left card and page cache the same). `ReportedRo` speaks of
  all timers but those in `spared`: one that the loop is done with is disabled or its
  `is-enabled` failed. `RwResumes` needs that,
  unless power was cut, a timer that is not enabled is in the list or in hand, and that
  the list goes only when all it names are enabled (`Remembered`).

`HaMqttProofs` and `PublishersProofs`, for any sensors, outputs of the network, ring, and
number of connections and refusals:

* `Announced`: `Spec => []AnnouncedIsKnown` of the client. It needs `LostInv`: only a
  message on its way can be lost.
* `ClientTypes`: `Spec => []TypeOK` of the client.
* `PublishesAsClient`: each step of `Publishers` is one of `HaMqtt` or none: a task that
  publishes one sensor after the other does nothing that independent tasks do not.
  `PublishersAnnounced` follows.
* `PublishersTypes`: `Spec => []TypeOK`, from `ClientTypes` by the refinement and an
  invariant on the publisher's own variables (`Own`).

The proofs assume the named assumptions on the constants only and, where it is said,
that no id is drawn twice or that a set that bounds a queue is finite. Every invariant
and every action property or refinement that a passing run checks is proved; the types
of `Camera` and `Overlay`, which bound no queue, are proved and not run. Only
model-checked is liveness, which is out of the prover's reach: `RuntimeStopReturns`,
`TaskStopReturns`, `ShutdownCompletes`, `EndedSessionsLeaveTheMap`, `AnsweredOrHung`,
`OrphanEnds`, `AllAnnounced`, `Clears`, `DetectionsShow`, `StopEnds`,
`RegisteredAreRemoved`, `RequestsAnswered` and `StopReturns`.

## 6. Not modelled

* The reset arm of the session loop: no code sends on `reset_tx`. The UDP target:
  transport selection never returns one.
* RTCP packets, which travel like RTP packets, and the contents of packets.
* Two sessions of one connection that share channels 0-1: each session is modelled
  with its own view of the queue.
* Mounts and what the script finds out about them, the check of the initramfs and the status command of the overlay
  script. A file system is written back as a whole: a card with some of its files
  new and some old is left out, so the timers that a cut can lose may be more.
* The MQTT library, the broker, systemd and the kernel are modelled by what the
  code relies on. Of the publishers there is only the one of detections: those of
  rates and of system statistics publish what they read.
* The rate windows of the camera callbacks: a window that becomes due between the two
  looks at it (`src/libcam/timereporter.rs:36`) is made up for by the next.
* The sessions inside `App`: PLAY has any outcome there, or none, and so has TEARDOWN
  once a PLAY hangs.
* The network itself, the boxes and scores of detections, the ports of UDP.
* Parsing, formatting, logging, SDP text, configuration and system statistics.

## 7. Plan

1. Done: `TaskManager`, `Session`, `SessionManager`, `ConnectionManager`, `Source`,
   `Transport`, `App`, `Camera`, `Overlay`, `HaMqtt`, `Detections`, `Publishers`, the
   refinements of `StopBarrier`, `ClientFeed`, `StreamStateQuery` (by `Session` and
   `SessionManager`), `ConnectionManager` (by `App`) and `HaMqtt` (by `Publishers`), the
   proofs above.
2. Next: `App` with `SessionManager` in the place of its free PLAY and TEARDOWN; the
   rate windows.
3. Proofs: the step invariants behind liveness (what a step that is waited for cannot
   lose once it is enabled, for shutdown above all); `RwUndoes` for a script that records
   a timer before it disables it.

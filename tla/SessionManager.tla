--------------------------- MODULE SessionManager ---------------------------
(* The control plane of the sessions: connections that serve one request at  *)
(* a time (SETUP, PLAY and TEARDOWN of src/app/handler.rs), the session map  *)
(* and its worker (src/session/session_manager.rs), the session workers      *)
(* (src/session/mod.rs, their media left out) and App::stop. A session value *)
(* is dropped, and its worker stopped, when nothing refers to it any more.   *)
EXTENDS Naturals, Sequences, FiniteSets

CONSTANTS Conns,           \* connections
          Sessions,        \* every session ever created
          Ids,             \* session ids
          AllowCollision,  \* generate() may return an id that was used before
          ForeignPlay,     \* PLAY may name a session set up on another connection
          MuxMayFail,      \* RtpMuxer::mux may return an error
          NoConn, NoSession, NoId

ASSUME ValueAssumption == /\ NoConn \notin Conns
                          /\ NoSession \notin Sessions
                          /\ NoId \notin Ids
                          /\ {AllowCollision, ForeignPlay, MuxMayFail} \subseteq BOOLEAN

VARIABLES conn,      \* connection worker: idle in its select, or in which await
          target,    \* the session its request is about: it holds an Arc to it
          map,       \* sessions: SessionId to session
          id,        \* the id generated for each session
          accepted,  \* the sessions whose SETUP was answered with 200
          owner,     \* the connection its media is sent on
          worker,    \* session worker; "left": out of its loop, hold released
          need,      \* need_stream_state of the worker
          control,   \* its control channel
          answer,    \* a stream state is in the receiver of the PLAY that waits
          lock,      \* holder of the session's mutex
          stop,      \* Task::stop has been called on the worker
          stateQ,    \* session_state channel: ids of stopped sessions
          app        \* how far App::stop is

connVars == <<conn, target>>
mapVars == <<map, accepted>>
sessionVars == <<id, owner, worker, need, control, answer, lock, stop>>
vars == <<connVars, mapVars, sessionVars, stateQ, app>>

Handling == {"inserting", "playLock", "playWait", "tearLock", "tearWait"}
Live == {"ready", "playing"}
AppPhases == {"up", "server", "manager", "draining", "runtime", "down"}

TypeOK ==
    /\ conn \in [Conns -> {"idle", "gone"} \cup Handling]
    /\ target \in [Conns -> Sessions \cup {NoSession}]
    /\ map \in [Ids -> Sessions \cup {NoSession}]
    /\ id \in [Sessions -> Ids \cup {NoId}]
    /\ accepted \subseteq Sessions
    /\ owner \in [Sessions -> Conns \cup {NoConn}]
    /\ worker \in [Sessions -> {"new", "left", "done"} \cup Live]
    /\ need \in [Sessions -> BOOLEAN] /\ answer \in [Sessions -> BOOLEAN]
    /\ \A s \in Sessions : /\ control[s] \in Seq({"StreamState", "Play"})
                           /\ Len(control[s]) <= 2
    /\ lock \in [Sessions -> Conns \cup {NoConn}]
    /\ stop \in [Sessions -> BOOLEAN]
    /\ stateQ \in Seq(Ids) /\ Len(stateQ) <= Cardinality(Sessions)
    /\ app \in AppPhases

Init ==
    /\ conn = [c \in Conns |-> "idle"] /\ target = [c \in Conns |-> NoSession]
    /\ map = [i \in Ids |-> NoSession]
    /\ id = [s \in Sessions |-> NoId] /\ owner = [s \in Sessions |-> NoConn]
    /\ worker = [s \in Sessions |-> "new"]
    /\ need = [s \in Sessions |-> FALSE] /\ answer = [s \in Sessions |-> FALSE]
    /\ control = [s \in Sessions |-> <<>>]
    /\ lock = [s \in Sessions |-> NoConn]
    /\ stop = [s \in Sessions |-> FALSE]
    /\ stateQ = <<>> /\ app = "up" /\ accepted = {}

-----------------------------------------------------------------------------
(* Requests. A connection is busy with one from its first step to its last. *)

Go(c, pc, s) == /\ conn' = [conn EXCEPT ![c] = pc]
                /\ target' = [target EXCEPT ![c] = s]

Idle(c) == Go(c, "idle", NoSession)

\* Mutant: the ids are too few to be unique.
FreshAny(i) == TRUE

\* 8 random digits: an id that a session already has is not expected.
Fresh(i) == AllowCollision \/ \A s \in Sessions : id[s] # i

\* SETUP: Session::setup_and_start has spawned the worker.
SetupStart(c, s, i) ==
    /\ conn[c] = "idle" /\ worker[s] = "new" /\ Fresh(i)
    /\ worker' = [worker EXCEPT ![s] = "ready"]
    /\ id' = [id EXCEPT ![s] = i]
    /\ owner' = [owner EXCEPT ![s] = c]
    /\ Go(c, "inserting", s)
    /\ UNCHANGED <<mapVars, need, control, answer, lock, stop, stateQ, app>>

\* ... and SessionManager::setup registers it, or drops it when the id is taken.
SetupInsert(c) ==
    /\ conn[c] = "inserting"
    /\ LET s == target[c]
       IN IF map[id[s]] = NoSession
          THEN map' = [map EXCEPT ![id[s]] = s] /\ accepted' = accepted \cup {s}
          ELSE UNCHANGED <<map, accepted>>
    /\ Idle(c)
    /\ UNCHANGED <<sessionVars, stateQ, app>>

\* The map is read, the session's Arc cloned, the map released.
PlayLookup(c, i) ==
    /\ conn[c] = "idle" /\ map[i] # NoSession
    /\ ForeignPlay \/ owner[map[i]] = c
    /\ Go(c, "playLock", map[i])
    /\ UNCHANGED <<mapVars, sessionVars, stateQ, app>>

\* Mutant: the session is used without locking its mutex.
PlayStartUnlocked(c) ==
    /\ conn[c] = "playLock"
    /\ LET s == target[c]
       IN IF worker[s] \notin Live
          THEN Idle(c) /\ UNCHANGED <<lock, control, answer>>
          ELSE /\ lock' = [lock EXCEPT ![s] = c]
               /\ control' = [control EXCEPT ![s] = Append(@, "StreamState")]
               /\ answer' = [answer EXCEPT ![s] = FALSE]
               /\ Go(c, "playWait", s)
    /\ UNCHANGED <<mapVars, id, owner, worker, need, stop, stateQ, app>>

\* Session::play up to its await. With the worker over, ControlBroken: 500.
PlayStart(c) ==
    /\ conn[c] = "playLock"
    /\ LET s == target[c]
       IN /\ lock[s] = NoConn
          /\ IF worker[s] \notin Live
             THEN Idle(c) /\ UNCHANGED <<lock, control, answer>>
             ELSE /\ lock' = [lock EXCEPT ![s] = c]
                  /\ control' = [control EXCEPT ![s] = Append(@, "StreamState")]
                  /\ answer' = [answer EXCEPT ![s] = FALSE]
                  /\ Go(c, "playWait", s)
    /\ UNCHANGED <<mapVars, id, owner, worker, need, stop, stateQ, app>>

\* ... and after it: send Play, unless the worker is over by now.
PlayFinish(c) ==
    /\ conn[c] = "playWait"
    /\ LET s == target[c]
       IN /\ answer[s]
          /\ control' = IF worker[s] \in Live
                        THEN [control EXCEPT ![s] = Append(@, "Play")] ELSE control
          /\ lock' = [lock EXCEPT ![s] = NoConn]
    /\ Idle(c)
    /\ UNCHANGED <<mapVars, id, owner, worker, need, answer, stop, stateQ, app>>

TearLookup(c, i) ==
    /\ conn[c] = "idle" /\ map[i] # NoSession
    /\ Go(c, "tearLock", map[i])
    /\ UNCHANGED <<mapVars, sessionVars, stateQ, app>>

\* Session::teardown: Task::stop under the session's mutex ...
TearStart(c) ==
    /\ conn[c] = "tearLock"
    /\ LET s == target[c]
       IN /\ lock[s] = NoConn
          /\ lock' = [lock EXCEPT ![s] = c]
          /\ stop' = [stop EXCEPT ![s] = TRUE]
          /\ Go(c, "tearWait", s)
    /\ UNCHANGED <<mapVars, id, owner, worker, need, control, answer, stateQ, app>>

\* ... returns when the hold is released; the map is not touched.
TearFinish(c) ==
    /\ conn[c] = "tearWait"
    /\ worker[target[c]] \in {"left", "done"}
    /\ lock' = [lock EXCEPT ![target[c]] = NoConn]
    /\ Idle(c)
    /\ UNCHANGED <<mapVars, id, owner, worker, need, control, answer, stop, stateQ, app>>

\* The client disconnects or fails; noticed only between requests.
Disconnect(c) ==
    /\ conn[c] = "idle"
    /\ Go(c, "gone", NoSession)
    /\ UNCHANGED <<mapVars, sessionVars, stateQ, app>>

-----------------------------------------------------------------------------
(* Session workers.                                                         *)

\* What keeps the Session value, and with it its Task and control_tx, alive.
Held(s) == \/ \E i \in Ids : map[i] = s
           \/ \E c \in Conns : target[c] = s

\* Mutant: wait_for_stop is ready only when the Task is dropped.
StopSeenDropped(s) == ~Held(s) \/ app = "runtime"

StopSeen(s) == stop[s] \/ ~Held(s) \/ app = "runtime"

Waiter(s) == \E c \in Conns : conn[c] = "playWait" /\ target[c] = s

\* Mutant: every frame answers, asked or not.
AnswerUnasked(s) == /\ answer' = [answer EXCEPT ![s] = @ \/ Waiter(s)]
                    /\ need' = [need EXCEPT ![s] = FALSE]

\* need_stream_state is answered after muxing, whatever muxing returned.
Answer(s) == /\ answer' = [answer EXCEPT ![s] = @ \/ (need[s] /\ Waiter(s))]
             /\ need' = [need EXCEPT ![s] = FALSE]

\* Mutant: a session that is not playing yet does not answer.
FramePlayingOnly(s) ==
    /\ worker[s] = "playing"
    /\ Answer(s)
    /\ worker' = IF worker[s] = "playing" /\ conn[owner[s]] = "gone"
                 THEN [worker EXCEPT ![s] = "left"] ELSE worker
    /\ UNCHANGED <<connVars, mapVars, id, owner, control, lock, stop, stateQ, app>>

\* Mutant: a closed media queue is treated like a full one.
FrameIgnoresClosed(s) ==
    /\ worker[s] \in Live
    /\ Answer(s)
    /\ UNCHANGED <<connVars, mapVars, id, owner, worker, control, lock, stop,
                   stateQ, app>>

\* A frame the worker muxes; try_send finds out that the connection has gone.
Frame(s) ==
    /\ worker[s] \in Live
    /\ Answer(s)
    /\ worker' = IF worker[s] = "playing" /\ conn[owner[s]] = "gone"
                 THEN [worker EXCEPT ![s] = "left"] ELSE worker
    /\ UNCHANGED <<connVars, mapVars, id, owner, control, lock, stop, stateQ, app>>

MuxFail(s) ==
    /\ MuxMayFail /\ worker[s] \in Live
    /\ Answer(s)
    /\ worker' = [worker EXCEPT ![s] = "left"]
    /\ UNCHANGED <<connVars, mapVars, id, owner, control, lock, stop, stateQ, app>>

ControlMessage(s) ==
    /\ worker[s] \in Live /\ control[s] # <<>>
    /\ control' = [control EXCEPT ![s] = Tail(@)]
    /\ IF Head(control[s]) = "Play"
       THEN worker' = [worker EXCEPT ![s] = "playing"] /\ UNCHANGED need
       ELSE need' = [need EXCEPT ![s] = TRUE] /\ UNCHANGED worker
    /\ UNCHANGED <<connVars, mapVars, id, owner, answer, lock, stop, stateQ, app>>

SeeStop(s) ==
    /\ worker[s] \in Live /\ StopSeen(s)
    /\ worker' = [worker EXCEPT ![s] = "left"]
    /\ UNCHANGED <<connVars, mapVars, id, owner, need, control, answer, lock, stop,
                   stateQ, app>>

\* The manager's receiver is dropped when its worker is over.
MgrUp == app \in {"up", "server", "manager"}

\* Mutant: the worker ends without a word when its session was torn down.
NotifyUnlessStopped(s) ==
    /\ worker[s] = "left"
    /\ worker' = [worker EXCEPT ![s] = "done"]
    /\ stateQ' = IF MgrUp /\ ~stop[s] THEN Append(stateQ, id[s]) ELSE stateQ
    /\ UNCHANGED <<connVars, mapVars, id, owner, need, control, answer, lock, stop, app>>

\* Session::run sends Stopped when the loop, which owned the context, is over.
Notify(s) ==
    /\ worker[s] = "left"
    /\ worker' = [worker EXCEPT ![s] = "done"]
    /\ stateQ' = IF MgrUp THEN Append(stateQ, id[s]) ELSE stateQ
    /\ UNCHANGED <<connVars, mapVars, id, owner, need, control, answer, lock, stop, app>>

\* SessionManager::run: the id is removed, whichever session is under it.
Remove ==
    /\ MgrUp /\ stateQ # <<>>
    /\ map' = [map EXCEPT ![Head(stateQ)] = NoSession]
    /\ stateQ' = Tail(stateQ)
    /\ UNCHANGED <<connVars, accepted, sessionVars, app>>

-----------------------------------------------------------------------------
(* App::stop: the server with its connections, the session manager's worker, *)
(* the sessions it has, then the runtime.                                    *)

Phase(from, to) == app = from /\ app' = to

StopServer == Phase("up", "server")
              /\ UNCHANGED <<connVars, mapVars, sessionVars, stateQ>>

\* Connection::close: a connection sees the stop between requests.
CloseConnection(c) == app = "server" /\ Disconnect(c)

\* Mutant: the session manager is stopped without waiting for the server.
ServerStoppedAtOnce == Phase("server", "manager")
                       /\ UNCHANGED <<connVars, mapVars, sessionVars, stateQ>>

ServerStopped == /\ Phase("server", "manager")
                 /\ \A c \in Conns : conn[c] = "gone"
                 /\ UNCHANGED <<connVars, mapVars, sessionVars, stateQ>>

StopManager == Phase("manager", "draining")
               /\ stateQ' = <<>>
               /\ UNCHANGED <<connVars, mapVars, sessionVars>>

\* sessions.write().await.drain(): teardown of each, one after the other.
Registered == {map[i] : i \in Ids} \ {NoSession}

DrainStop(s) ==
    /\ app = "draining" /\ s \in Registered /\ lock[s] = NoConn
    /\ \A u \in Registered : ~(stop[u] /\ worker[u] \in Live)
    /\ stop' = [stop EXCEPT ![s] = TRUE]
    /\ UNCHANGED <<connVars, mapVars, id, owner, worker, need, control, answer,
                   lock, stateQ, app>>

Drained == /\ Phase("draining", "runtime")
           /\ \A s \in Registered : stop[s] /\ worker[s] \in {"left", "done"}
           /\ map' = [i \in Ids |-> NoSession]
           /\ UNCHANGED <<connVars, accepted, sessionVars, stateQ>>

\* Runtime::stop returns when no worker is left in its loop.
RuntimeStopped == /\ Phase("runtime", "down")
                  /\ \A s \in Sessions : worker[s] \notin Live
                  /\ UNCHANGED <<connVars, mapVars, sessionVars, stateQ>>

-----------------------------------------------------------------------------
Request(c) == \/ \E s \in Sessions, i \in Ids : SetupStart(c, s, i)
              \/ \E i \in Ids : PlayLookup(c, i) \/ TearLookup(c, i)

Handle(c) == \/ SetupInsert(c) \/ PlayStart(c) \/ PlayFinish(c)
             \/ TearStart(c) \/ TearFinish(c)

WorkerStep(s) == \/ Frame(s) \/ MuxFail(s) \/ ControlMessage(s)
                 \/ SeeStop(s) \/ Notify(s)

StopStep == \/ ServerStopped \/ StopManager \/ Drained \/ RuntimeStopped
            \/ \E c \in Conns : CloseConnection(c)
            \/ \E s \in Sessions : DrainStop(s)

Next == \/ \E c \in Conns : Request(c) \/ Handle(c) \/ Disconnect(c)
        \/ \E s \in Sessions : WorkerStep(s)
        \/ Remove \/ StopServer \/ StopStep

Spec == Init /\ [][Next]_vars

(* The camera keeps producing (the process exits when it stalls), so a muxed *)
(* frame always comes; a worker whose arm of the select is ready takes it in *)
(* the end; tokio's mutex is FIFO, so who waits for it gets it. No request,  *)
(* disconnect or shutdown has to happen.                                     *)
Fairness ==
    /\ \A s \in Sessions : /\ WF_vars(Frame(s)) /\ WF_vars(ControlMessage(s))
                           /\ WF_vars(SeeStop(s)) /\ WF_vars(Notify(s))
    /\ \A c \in Conns : /\ WF_vars(SetupInsert(c)) /\ SF_vars(PlayStart(c))
                        /\ WF_vars(PlayFinish(c)) /\ SF_vars(TearStart(c))
                        /\ WF_vars(TearFinish(c)) /\ SF_vars(CloseConnection(c))
    /\ WF_vars(Remove)
    /\ WF_vars(ServerStopped) /\ WF_vars(StopManager)
    /\ WF_vars(Drained) /\ WF_vars(RuntimeStopped)
    /\ \A s \in Sessions : WF_vars(DrainStop(s))

FairSpec == Spec /\ Fairness

-----------------------------------------------------------------------------
(* handler.rs:166-172: a session whose SETUP was answered can be reached     *)
(* under its id by PLAY and TEARDOWN for as long as its worker runs: no      *)
(* other session's end or refusal takes it out of the map.                   *)
LiveIsReachable == \A s \in Sessions :
    MgrUp /\ s \in accepted /\ worker[s] \in Live => map[id[s]] = s

(* app/mod.rs:137-143: when SessionManager::stop is over no session runs any *)
(* more, also one whose SETUP was being handled when the shutdown began.     *)
DrainedMeansStopped ==
    app \in {"runtime", "down"} => \A s \in Sessions : worker[s] \notin Live

\* The conversation of the PLAYs in a session with its worker.
Asking(s) == IF ~Waiter(s) THEN "none"
             ELSE IF answer[s] THEN "answered"
             ELSE IF need[s] THEN "owed" ELSE "asked"

Told(s) == \E k \in DOMAIN control[s] : control[s][k] = "Play"

Life(s) == IF worker[s] \in {"left", "done"} THEN "over"
           ELSE IF worker[s] = "playing" THEN "playing" ELSE "ready"

Query(s) == INSTANCE StreamStateQuery
              WITH query <- Asking(s), told <- Told(s), life <- Life(s)

(* session/mod.rs:105-123, 254-264, 312-322 and session_manager.rs:94-96: of  *)
(* all the connections that PLAY a session, one at a time asks for the stream *)
(* state, gets the one it asked for after the worker has read the question,   *)
(* and only then makes it play.                                               *)
ImplementsQueries ==
    /\ \A s \in Sessions : Query(s)!Init
    /\ [][\A s \in Sessions : [Query(s)!Next]_(Query(s)!vars)]_vars

\* session/mod.rs:111: a PLAY waits for the answer of a worker that is over. Its
\* own session keeps the channel open, so nothing ends the wait, and the session's
\* mutex is not released.
Hangs(s) == \E c \in Conns : /\ conn[c] = "playWait" /\ target[c] = s
                             /\ worker[s] \in {"left", "done"} /\ ~answer[s]

(* session_manager.rs:134-136: a session that ends while it is in the map, or *)
(* whose report the manager has not read yet, leaves the map, also when a     *)
(* PLAY of it hangs. Left out, because it is false of it: a session whose     *)
(* muxer fails so early that its report is read before SETUP inserts it       *)
(* (session_manager.rs:69-79); that entry stays until the shutdown.           *)
EndedSessionsLeaveTheMap == \A s \in Sessions :
    /\ s \in Registered
    /\ worker[s] = "left" \/ \E k \in DOMAIN stateQ : stateQ[k] = id[s]
    ~> s \notin Registered

(* handler.rs:176-263: SETUP, PLAY and TEARDOWN are answered, stream state or *)
(* error, whoever else uses the session and whenever its worker ends. What    *)
(* excuses one is a PLAY that hangs: its own, or that of another connection   *)
(* behind whose mutex it waits.                                               *)
AnsweredOrHung == \A c \in Conns, s \in Sessions :
    conn[c] \in Handling /\ target[c] = s ~> conn[c] = "idle" \/ Hangs(s)

(* handler.rs:192-210 answers a PLAY with a stream state or with an error: it *)
(* has no case for no answer. That needs a connection that plays its own      *)
(* session and a muxer that does not fail (OwnPlayNeverHangs); for a session  *)
(* set up by another connection it is false, see AnsweredOrHung.              *)
PlayAnswered == \A c \in Conns :
    conn[c] \in {"playLock", "playWait"} ~> conn[c] = "idle"

\* session/mod.rs:306: a session that plays to a connection that is gone ends.
OrphanEnds == \A s \in Sessions :
    worker[s] = "playing" /\ conn[owner[s]] = "gone" ~> worker[s] = "done"

(* app/mod.rs:137-143: App::stop returns, whatever is being handled when it   *)
(* begins, unless a PLAY hangs: its connection never sees the stop, and       *)
(* Server::stop waits for it until main.rs forces the exit.                   *)
ShutdownCompletes == app = "server" ~> app = "down" \/ \E s \in Sessions : Hangs(s)
=============================================================================

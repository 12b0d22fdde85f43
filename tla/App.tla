--------------------------------- MODULE App ---------------------------------
(* The server as a whole (src/app/mod.rs, src/app/handler.rs): App::start from *)
(* the first stream info on, connections (ConnectionManager) whose requests    *)
(* are handled one at a time, the source they query (Source), App::stop.       *)
(* Sessions are in SessionManager: here a PLAY or TEARDOWN has any outcome, or *)
(* none, when the session worker ends with the PLAY's query unread.            *)
EXTENDS Naturals, Sequences, FiniteSets, Transport

CONSTANTS Conns, Cap, MaxQueries, Describable,
          Requests,   \* the requests that each client may send
          NoRequest

Method == {"OPTIONS", "ANNOUNCE", "DESCRIBE", "GET_PARAMETER", "SET_PARAMETER", "SETUP",
           "PLAY", "PAUSE", "RECORD", "TEARDOWN", "REDIRECT"}

\* What handle looks at: headers that are there, or not, or cannot be read.
Request == [method : Method, require : BOOLEAN, accept : BOOLEAN, session : BOOLEAN,
            path : {"camera", "other"}, range : {"none", "ok", "unit", "bad"},
            valid : BOOLEAN, transport : Seq(Candidate)]

ASSUME AppAssumption == /\ Cap \in Nat \ {0} /\ MaxQueries \in Nat \ {0}
                        /\ Describable \in BOOLEAN
                        /\ \A c \in Conns : /\ Requests[c] \subseteq Request
                                            /\ NoRequest \notin Requests[c]

VARIABLES server, incoming, conns, worker, stop, stateQ, manager,   \* connections
          source, value, control, ask, unread, note,        \* the source
          sourceManager, rt,
          phase,    \* how far App::start or App::stop is
          req,      \* the request each connection is handling
          answer,   \* and what handle has returned for it
          hung      \* those whose handle never returns

CM == INSTANCE ConnectionManager
Src == INSTANCE Source WITH Clients <- Conns, manager <- sourceManager

net == <<server, incoming, conns, worker, stop, stateQ, manager>>
src == <<source, value, control, ask, unread, note, sourceManager, rt>>
handler == <<req, answer, hung>>
vars == <<net, src, handler, phase>>

Phases == {"context", "source", "register", "bind", "mqtt", "up", "server", "sessions",
           "sources", "drain", "runtime", "down", "failing", "failed", "exit"}

NoAnswer == [status |-> 0, outcome |-> Refused]

TypeOK == /\ CM!TypeOK /\ Src!TypeOK
          /\ phase \in Phases
          /\ \A c \in Conns :
                /\ req[c] \in Requests[c] \cup {NoRequest}
                /\ answer[c].status \in {0, 200, 400, 404, 405, 406, 454, 455, 457, 459,
                                         461, 500, 501, 551}
                /\ ask[c] # "none" => req[c] # NoRequest
                /\ (worker[c] = "handling") = ((req[c] # NoRequest) # (answer[c] # NoAnswer))
          /\ hung \subseteq {c \in Conns : req[c] # NoRequest}

Init == /\ CM!Init /\ Src!Init
        /\ phase = "context"
        /\ req = [c \in Conns |-> NoRequest] /\ answer = [c \in Conns |-> NoAnswer]
        /\ hung = {}

Net(step) == step /\ UNCHANGED <<src, handler, phase>>
Cam(step) == step /\ UNCHANGED <<net, handler, phase>>

-----------------------------------------------------------------------------
(* App::start, after the stream info                                          *)

Phase(from, to) == phase = from /\ phase' = to

StartContext == /\ Phase("context", "source") /\ Src!Start
                /\ UNCHANGED <<net, handler>>

StartSource == /\ Phase("source", "register") /\ Src!StartSource
               /\ UNCHANGED <<net, handler>>

Register == /\ Phase("register", "bind") /\ Src!Register
            /\ UNCHANGED <<net, handler>>

Bind == Phase("bind", "mqtt") /\ UNCHANGED <<net, src, handler>>

\* handle_err: the runtime is stopped before the error is returned.
BindFails == /\ Phase("bind", "failing") /\ Src!SignalStop
             /\ UNCHANGED <<net, handler>>

WorkersOver == /\ source \in {"absent", "over"} /\ sourceManager \in {"absent", "over"}
               /\ \A c \in Conns : worker[c] \notin CM!Loop

Failed == Phase("failing", "failed") /\ WorkersOver /\ UNCHANGED <<net, src, handler>>

MqttStarts == Phase("mqtt", "up") /\ UNCHANGED <<net, src, handler>>

\* HAMQTTClient::new fails: main exits, and all there is goes with it.
MqttFails == Phase("mqtt", "exit") /\ UNCHANGED <<net, src, handler>>

-----------------------------------------------------------------------------
(* App::stop                                                                  *)

StopServer == /\ Phase("up", "server") /\ CM!StopServer
              /\ UNCHANGED <<src, handler>>

\* Mutant: the sources are stopped while the server still closes connections.
ServerDoneAtOnce == Phase("server", "sessions") /\ UNCHANGED <<net, src, handler>>

ServerDone == /\ Phase("server", "sessions") /\ server = "stopped"
              /\ UNCHANGED <<net, src, handler>>

StopSessions == Phase("sessions", "sources") /\ UNCHANGED <<net, src, handler>>

StopSources == /\ Phase("sources", "drain") /\ Src!StopManager
               /\ UNCHANGED <<net, handler>>

Drain == phase = "drain" /\ Cam(Src!Drain \/ Src!DropSource)

StopRuntime == /\ Phase("drain", "runtime") /\ Src!Drained /\ Src!SignalStop
               /\ UNCHANGED <<net, handler>>

Down == Phase("runtime", "down") /\ WorkersOver /\ UNCHANGED <<net, src, handler>>

StopStep == ServerDone \/ StopSessions \/ StopSources \/ Drain \/ StopRuntime \/ Down

-----------------------------------------------------------------------------
(* AppHandler::handle                                                         *)

Take(c, r) == /\ CM!Handle(c)
              /\ req' = [req EXCEPT ![c] = r]
              /\ UNCHANGED <<src, answer, hung, phase>>

Give(c, status, outcome) ==
    /\ answer' = [answer EXCEPT ![c] = [status |-> status, outcome |-> outcome]]
    /\ req' = [req EXCEPT ![c] = NoRequest]

Reply(c, status) == Give(c, status, Refused) /\ UNCHANGED <<net, src, hung, phase>>

\* What the headers alone decide; 0: it takes more.
Decision(r) ==
    CASE r.require -> 551
      [] r.method = "OPTIONS" -> 200
      [] r.method \in {"ANNOUNCE", "GET_PARAMETER", "SET_PARAMETER", "PAUSE", "RECORD"} -> 405
      [] r.method = "REDIRECT" -> 455
      [] r.method = "DESCRIBE" /\ ~r.accept -> 406
      [] r.method = "SETUP" /\ r.session -> 459
      [] r.method = "SETUP" /\ ~r.valid -> 461
      [] r.method = "PLAY" /\ r.range = "unit" -> 501
      [] r.method = "PLAY" /\ r.range = "bad" -> 400
      [] r.method \in {"PLAY", "TEARDOWN"} /\ ~r.session -> 454
      [] OTHER -> 0

Is(c, method) == /\ req[c] # NoRequest /\ ~req[c].require
                 /\ req[c].method = method /\ Decision(req[c]) = 0

Decide(c) == /\ req[c] # NoRequest /\ Decision(req[c]) # 0
             /\ Reply(c, Decision(req[c]))

\* describe looks into the cache only: a path that is not in it is an error.
Describe(c) == /\ Is(c, "DESCRIBE")
               /\ Reply(c, IF req[c].path = "camera" /\ Src!Cached THEN 200 ELSE 500)

SetupSubscribe(c) ==
    /\ Is(c, "SETUP") /\ ask[c] = "none"
    /\ IF req[c].path = "camera" /\ value = "registered"
       THEN Src!Subscribe(c) /\ UNCHANGED <<net, handler, phase>>
       ELSE Reply(c, 404)

SetupQuery(c) == Cam(Src!Query(c) \/ Src!Receive(c))

\* The query has ended: choose a transport, make the muxer, start the session.
SetupFinish(c) ==
    /\ Is(c, "SETUP") /\ Src!Release(c)
    /\ LET outcome == Negotiate(req[c].transport)
           supported == \E i \in DOMAIN req[c].transport : IsSupported(req[c].transport[i])
       IN \/ (ask[c] = "nothing" \/ supported) /\ Give(c, 500, Refused)
          \/ ask[c] = "info" /\ outcome = Refused /\ Give(c, 461, Refused)
          \/ ask[c] = "info" /\ outcome # Refused /\ Give(c, 200, outcome)
    /\ UNCHANGED <<net, hung, phase>>

Play(c) == /\ Is(c, "PLAY") /\ c \notin hung
           /\ \/ \E status \in {200, 454, 500} : Reply(c, status)
              \/ req[c].range = "ok" /\ Reply(c, 457)

Teardown(c) == /\ Is(c, "TEARDOWN") /\ c \notin hung
               /\ \E status \in {200, 454} : Reply(c, status)

Hang(c) == /\ c \notin hung /\ hung' = hung \cup {c}
           /\ UNCHANGED <<net, src, req, answer, phase>>

\* Session::play waits for a stream state that nobody will send.
PlayHangs(c) == Is(c, "PLAY") /\ Hang(c)

\* Behind it, Session::teardown waits for the session's mutex.
TeardownHangs(c) == Is(c, "TEARDOWN") /\ hung # {} /\ Hang(c)

Respond(c) == /\ answer[c] # NoAnswer /\ CM!Respond(c)
              /\ answer' = [answer EXCEPT ![c] = NoAnswer]
              /\ UNCHANGED <<src, req, hung, phase>>

HandlerStep(c) == \/ Decide(c) \/ Describe(c) \/ SetupSubscribe(c) \/ SetupQuery(c)
                  \/ SetupFinish(c) \/ Play(c) \/ Teardown(c)
                  \/ PlayHangs(c) \/ TeardownHangs(c) \/ Respond(c)

-----------------------------------------------------------------------------
(* The connections and the workers, as long as the process is there.          *)

Accept(c) == phase \in {"mqtt", "up", "server"} /\ Net(CM!Accept(c))

ServerStep == Net(CM!LeaveAccept \/ CM!StopManager \/ CM!ServerStopped \/ CM!Remove)

ConnStep(c) == Net(\/ CM!Insert(c) \/ CM!CloseStart(c) \/ CM!CloseFinish(c)
                   \/ CM!TakeMedia(c) \/ CM!Written(c) \/ CM!WriteFails(c)
                   \/ CM!ClientGone(c) \/ CM!SeeStop(c) \/ CM!Notify(c))

SourceStep == Cam(\/ Src!Serve \/ Src!SeeStop \/ Src!Finish \/ Src!Remove
                  \/ Src!ManagerSeesStop)

StartStep == \/ StartContext \/ StartSource \/ Register \/ Bind \/ BindFails \/ Failed
             \/ MqttStarts \/ MqttFails

Next == /\ phase # "exit"
        /\ \/ StartStep \/ StopServer \/ StopStep \/ ServerStep \/ SourceStep
           \/ \E c \in Conns : \/ Accept(c) \/ ConnStep(c) \/ HandlerStep(c)
                               \/ \E r \in Requests[c] : Take(c, r)

Spec == Init /\ [][Next]_vars

(* The tasks: App's own, the accept loop with its stop, a connection's.      *)
AppTask == StopStep \/ Failed

ServerTask == Net(\/ CM!LeaveAccept \/ CM!StopManager \/ CM!ServerStopped
                  \/ \E c \in Conns : CM!Insert(c) \/ CM!CloseStart(c) \/ CM!CloseFinish(c))

ConnTask(c) == HandlerStep(c) \/ Net(CM!Written(c) \/ CM!WriteFails(c) \/ CM!Notify(c))

(* A task that can go on does, strongly for a connection because MaxQueries, *)
(* which is of this model only, can hold up a query. A select that has a     *)
(* stop among its ready arms takes it in the end. Nobody has to connect,     *)
(* ask, disconnect or stop, and App::start may wait at any step.             *)
Live(step) == phase # "exit" /\ step

Fairness ==
    /\ WF_vars(AppTask) /\ WF_vars(Live(ServerTask)) /\ WF_vars(Live(Net(CM!Remove)))
    /\ WF_vars(Live(Cam(Src!Serve))) /\ WF_vars(Live(Cam(Src!SeeStop \/ Src!Finish)))
    /\ WF_vars(Live(Cam(Src!ManagerSeesStop)))
    /\ \A c \in Conns : /\ SF_vars(Live(ConnTask(c)))
                        /\ SF_vars(Live(Net(CM!SeeStop(c))))

FairSpec == Spec /\ Fairness

-----------------------------------------------------------------------------
(* app/mod.rs:86-100 and 137-140: the camera is registered before the server *)
(* takes connections and stopped after the last of them is closed, so a      *)
(* SETUP of it finds it there, and gets its media info unless more than Cap  *)
(* others went by while it was not looking (source/mod.rs:50-52).            *)
CameraIsServed == [][\A c \in Conns :
    Is(c, "SETUP") /\ req[c].path = "camera" /\ answer'[c] # answer[c] =>
        /\ answer'[c].status # 404
        /\ ask[c] = "nothing" => unread[c] > Cap]_vars

\* transport.rs and setup.rs: what a SETUP is granted is what it asked for.
GrantedAsAsked == [][\A c \in Conns :
    Is(c, "SETUP") /\ answer'[c].status = 200 =>
        /\ OnOwnConnection(req[c].transport, answer'[c].outcome)
        /\ RtcpApart(answer'[c].outcome)]_vars

\* app/mod.rs:137-139: when Server::stop is over, no connection is in its loop.
StoppedMeansClosed == CM!StoppedMeansClosed

(* connection_manager.rs:77-114: the entry of a connection that is registered *)
(* when its loop ends leaves the registry, unless the process has gone, or    *)
(* Server::stop, which closes the connections in turn once the worker is over, *)
(* is held up by a PLAY that hangs. (An entry whose connection ends before    *)
(* Insert stays: its message has been and gone.)                              *)
RegisteredAreRemoved == \A c \in Conns :
    worker[c] = "left" /\ c \in conns
        ~> c \notin conns \/ phase = "exit" \/ (~manager /\ hung # {})

(* handler.rs:28-272: a request is answered, also when the server stops while *)
(* it is handled, or the source it queries lags or ends. What excuses one is  *)
(* a PLAY that hangs (session/mod.rs:111): its own, or the one behind which   *)
(* it waits; no other connection is held up by it. SessionManager's           *)
(* AnsweredOrHung says that nothing else keeps a PLAY or TEARDOWN.            *)
RequestsAnswered == \A c \in Conns :
    worker[c] = "handling" ~> worker[c] # "handling" \/ c \in hung \/ phase = "exit"

(* app/mod.rs:137-143 and 38-48: App::stop returns, whatever the connections  *)
(* are doing when it is called, unless a PLAY hangs: Server::stop then waits  *)
(* for its connection until main.rs forces the exit. A start that fails       *)
(* comes to its end.                                                          *)
StopReturns == /\ phase = "server" ~> phase = "down" \/ hung # {}
               /\ phase = "failing" ~> phase = "failed"
=============================================================================

------------------------------ MODULE AppProofs ------------------------------
(* The server as a whole, for any connections, requests and bounds: it runs  *)
(* its connections as ConnectionManager says and closes them all, the camera *)
(* is there for whoever asks for it, and a SETUP gets what it asked for.     *)
EXTENDS App, FiniteSetTheorems, TLAPS

-----------------------------------------------------------------------------
(* The server: it has no connection in its loop when it has stopped, however *)
(* many there were and whenever they came.                                   *)

NetTypes == /\ server \in {"accepting", "stopping", "stopManager", "draining", "stopped"}
            /\ incoming \subseteq Conns /\ conns \subseteq Conns
            /\ worker \in [Conns -> {"absent", "left", "done"} \cup CM!Loop]
            /\ stop \in [Conns -> BOOLEAN] /\ manager \in BOOLEAN
            /\ stateQ \in Seq(Conns)
            /\ \A c, d \in incoming : c = d

\* A worker that has not ended is one that close, or the accept loop, knows of.
Accounted == \A c \in Conns :
    worker[c] \in CM!Loop \cup {"left"} => c \in conns \cup incoming

\* Only what has ended is reported, and so taken out.
ReportedIsDone == \A i \in 1 .. Len(stateQ) : worker[stateQ[i]] = "done"

\* Past the accept loop nothing comes in; past the drain nothing is left.
Closing == /\ server \notin {"accepting", "stopping"} => incoming = {}
           /\ server = "stopped" => conns = {}

\* Each connection reports its end once.
Over == {c \in Conns : worker[c] = "done"}

Counted == IsFiniteSet(Conns) => Len(stateQ) <= Cardinality(Over)

NetInv == NetTypes /\ Accounted /\ ReportedIsDone /\ Closing

LEMMA NetBegins == CM!Init => NetInv
BY DEF CM!Init, NetInv, NetTypes, Accounted, ReportedIsDone, Closing, CM!Loop

\* A queue that loses its head keeps only what it had.
LEMMA TailKeeps ==
    ASSUME NEW s \in Seq(Conns), s # <<>>
    PROVE  /\ Head(s) \in Conns /\ Tail(s) \in Seq(Conns) /\ s[1] = Head(s)
           /\ Len(s) \in Nat \ {0}
           /\ Len(Tail(s)) = Len(s) - 1
           /\ \A i \in 1 .. Len(Tail(s)) : Tail(s)[i] = s[i + 1]
OBVIOUS

\* The connection's own steps move its worker, and report its end.
LEMMA ConnKeeps ==
    ASSUME NetInv, NEW c \in Conns, CM!ConnStep(c)
    PROVE  NetInv'
<1> USE DEF NetInv, NetTypes, Accounted, Closing, CM!Loop
<1>1. ASSUME NEW to \in CM!Loop \cup {"left"}, NEW from \in CM!Loop, CM!Step(c, from, to)
      PROVE  NetInv'
  <2>1. NetTypes' /\ Accounted' /\ Closing'
        BY <1>1 DEF CM!Step
  <2>2. ReportedIsDone'
    <3> SUFFICES ASSUME NEW i \in 1 .. Len(stateQ)
                 PROVE  worker'[stateQ[i]] = "done"
        BY <1>1 DEF ReportedIsDone, CM!Step
    <3>1. stateQ[i] \in Conns /\ worker[stateQ[i]] = "done"
          BY DEF ReportedIsDone
    <3>2. stateQ[i] # c
          BY <1>1, <3>1 DEF CM!Step
    <3> QED
        BY <1>1, <3>1, <3>2 DEF CM!Step
  <2> QED
      BY <2>1, <2>2
<1>2. CASE CM!Notify(c)
  <2>1. NetTypes' /\ Accounted' /\ Closing'
        BY <1>2 DEF CM!Notify
  <2>2. ReportedIsDone'
    <3> SUFFICES ASSUME NEW i \in 1 .. Len(stateQ')
                 PROVE  worker'[stateQ'[i]] = "done"
        BY DEF ReportedIsDone
    <3>1. CASE i = Len(stateQ) + 1
          BY <1>2, <3>1 DEF CM!Notify
    <3>2. CASE i \in 1 .. Len(stateQ)
      <4>1. stateQ[i] \in Conns /\ worker[stateQ[i]] = "done"
            BY <3>2 DEF ReportedIsDone
      <4>2. stateQ'[i] = stateQ[i]
            BY <1>2, <3>2 DEF CM!Notify
      <4> QED
          BY <1>2, <4>1, <4>2 DEF CM!Notify
    <3>3. i \in 1 .. Len(stateQ) \/ i = Len(stateQ) + 1
          BY <1>2 DEF CM!Notify
    <3> QED
        BY <3>1, <3>2, <3>3
  <2> QED
      BY <2>1, <2>2
<1> QED
    BY <1>1, <1>2 DEF CM!ConnStep, CM!Handle, CM!Respond, CM!TakeMedia, CM!Written, CM!WriteFails,
       CM!ClientGone, CM!SeeStop

\* A worker that starts has reported nothing; its Connection is on its way in.
LEMMA AcceptKeeps ==
    ASSUME NetInv, NEW c \in Conns, CM!Accept(c)
    PROVE  NetInv'
<1> USE DEF NetInv, NetTypes, Accounted, Closing, CM!Loop
<1>1. NetTypes' /\ Accounted' /\ Closing'
      BY DEF CM!Accept
<1>2. ReportedIsDone'
  <2> SUFFICES ASSUME NEW i \in 1 .. Len(stateQ)
               PROVE  worker'[stateQ[i]] = "done"
      BY DEF ReportedIsDone, CM!Accept
  <2>1. stateQ[i] \in Conns /\ worker[stateQ[i]] = "done" /\ stateQ[i] # c
        BY DEF ReportedIsDone, CM!Accept
  <2> QED
      BY <2>1 DEF CM!Accept
<1> QED
    BY <1>1, <1>2

\* The registry drops what is done only.
LEMMA RemoveKeeps ==
    ASSUME NetInv, CM!Remove
    PROVE  NetInv'
<1> USE DEF NetInv, NetTypes, Accounted, Closing, CM!Loop
<1>1. /\ stateQ # <<>> /\ worker[Head(stateQ)] = "done" /\ Head(stateQ) \in Conns
      /\ stateQ' = Tail(stateQ) /\ conns' = conns \ {Head(stateQ)}
      /\ UNCHANGED <<server, incoming, worker, stop, manager>>
      BY TailKeeps DEF CM!Remove, ReportedIsDone
<1>2. NetTypes' /\ Accounted' /\ Closing'
      BY <1>1, TailKeeps
<1>3. ReportedIsDone'
  <2> SUFFICES ASSUME NEW i \in 1 .. Len(Tail(stateQ))
               PROVE  worker[Tail(stateQ)[i]] = "done"
      BY <1>1 DEF ReportedIsDone
  <2>1. Tail(stateQ)[i] = stateQ[i + 1] /\ i + 1 \in 1 .. Len(stateQ)
        BY <1>1, TailKeeps
  <2> QED
      BY <2>1 DEF ReportedIsDone
<1> QED
    BY <1>2, <1>3

\* The server and its manager: the phases of a stop.
LEMMA ServerKeeps ==
    ASSUME NetInv,
           \/ CM!StopServer \/ CM!LeaveAccept \/ CM!StopManager \/ CM!ServerStopped
           \/ \E c \in Conns : CM!Insert(c) \/ CM!CloseStart(c) \/ CM!CloseFinish(c)
    PROVE  NetInv'
<1> USE DEF NetInv, NetTypes, Accounted, ReportedIsDone, Closing, CM!Loop
<1>1. CASE CM!StopServer
      BY <1>1 DEF CM!StopServer
<1>5. CASE CM!LeaveAccept \/ CM!ServerStopped
      BY <1>5 DEF CM!LeaveAccept, CM!ServerStopped
<1>2. CASE CM!StopManager
  <2>1. /\ server' = "draining" /\ manager' = FALSE /\ stateQ' = <<>>
        /\ UNCHANGED <<incoming, conns, worker, stop>>
        BY <1>2 DEF CM!StopManager
  <2>2. stateQ' \in Seq(Conns) /\ Len(stateQ') = 0 /\ incoming = {}
        BY <1>2, <2>1 DEF CM!StopManager
  <2>3. NetTypes'
        BY <2>1, <2>2
  <2>4. Accounted' /\ ReportedIsDone' /\ Closing'
        BY <2>1, <2>2
  <2> QED
      BY <2>3, <2>4
<1>3. ASSUME NEW c \in Conns, CM!Insert(c) PROVE NetInv'
      BY <1>3 DEF CM!Insert
<1>4. ASSUME NEW c \in Conns, CM!CloseStart(c) \/ CM!CloseFinish(c) PROVE NetInv'
      BY <1>4 DEF CM!CloseStart, CM!CloseFinish
<1> QED
    BY <1>1, <1>2, <1>3, <1>4, <1>5

LEMMA NetSteps == NetInv /\ [CM!Next]_(CM!vars) => NetInv'
<1> SUFFICES ASSUME NetInv, [CM!Next]_(CM!vars) PROVE NetInv'
    OBVIOUS
<1>1. CASE CM!Next
      BY <1>1, ConnKeeps, AcceptKeeps, RemoveKeeps, ServerKeeps DEF CM!Next
<1>2. CASE UNCHANGED CM!vars
      BY <1>2 DEF CM!vars, NetInv, NetTypes, Accounted, ReportedIsDone, Closing
<1> QED
    BY <1>1, <1>2

LEMMA NetCloses == NetInv => CM!StoppedMeansClosed
BY DEF NetInv, Accounted, Closing, CM!StoppedMeansClosed


\* The channel grows only with the set of those that are over.
LEMMA CountKeeps ==
    ASSUME NetInv, Counted, CM!Next
    PROVE  Counted'
<1> SUFFICES ASSUME IsFiniteSet(Conns) PROVE Len(stateQ') <= Cardinality(Over')
    BY DEF Counted
<1> USE DEF NetInv, NetTypes, CM!Loop
<1>1. /\ IsFiniteSet(Over) /\ Cardinality(Over) \in Nat /\ Len(stateQ) \in Nat
      /\ Len(stateQ) <= Cardinality(Over)
      BY FS_Subset, FS_CardinalityType DEF Over, Counted
<1>2. ASSUME Over' = Over, UNCHANGED stateQ \/ stateQ' = <<>>
      PROVE  Len(stateQ') <= Cardinality(Over')
      BY <1>1, <1>2
<1>3. ASSUME NEW c \in Conns, CM!Notify(c) PROVE Len(stateQ') <= Cardinality(Over')
  <2>1. Over' = Over \cup {c} /\ c \notin Over
        BY <1>3 DEF CM!Notify, Over
  <2>2. Cardinality(Over') = Cardinality(Over) + 1
        BY <1>1, <2>1, FS_AddElement
  <2>3. Len(stateQ') <= Len(stateQ) + 1
        BY <1>1, <1>3 DEF CM!Notify
  <2> QED
      BY <1>1, <2>2, <2>3
<1>4. CASE CM!Remove
  <2>1. Over' = Over /\ Len(stateQ') = Len(stateQ) - 1
        BY <1>4, TailKeeps DEF CM!Remove, Over
  <2> QED
      BY <1>1, <2>1
<1>5. ASSUME NEW c \in Conns, CM!ConnStep(c) PROVE Len(stateQ') <= Cardinality(Over')
  <2>1. ASSUME NEW from \in CM!Loop, NEW to \in CM!Loop \cup {"left"}, CM!Step(c, from, to)
        PROVE  Over' = Over /\ UNCHANGED stateQ
        BY <2>1 DEF CM!Step, Over
  <2> QED
      BY <1>2, <1>3, <1>5, <2>1 DEF CM!ConnStep, CM!Handle, CM!Respond, CM!TakeMedia,
         CM!Written, CM!WriteFails, CM!ClientGone, CM!SeeStop
<1>6. ASSUME NEW c \in Conns, CM!Accept(c) PROVE Over' = Over /\ UNCHANGED stateQ
      BY <1>6 DEF CM!Accept, Over
<1>7. ASSUME \/ CM!StopServer \/ CM!LeaveAccept \/ CM!StopManager \/ CM!ServerStopped
             \/ \E c \in Conns : CM!Insert(c) \/ CM!CloseStart(c) \/ CM!CloseFinish(c)
      PROVE  Over' = Over /\ (UNCHANGED stateQ \/ stateQ' = <<>>)
      BY <1>7 DEF CM!StopServer, CM!LeaveAccept, CM!StopManager, CM!ServerStopped,
         CM!Insert, CM!CloseStart, CM!CloseFinish, Over
<1> QED
    BY <1>2, <1>4, <1>5, <1>6, <1>7 DEF CM!Next

\* What ConnectionManager says of its variables.
LEMMA NetTyped ==
    ASSUME NetInv, Counted, IsFiniteSet(Conns)
    PROVE  CM!TypeOK
<1>1. Cardinality(incoming) <= 1
  <2>1. CASE incoming = {}
        BY <2>1, FS_EmptySet
  <2>2. ASSUME NEW c \in incoming PROVE Cardinality(incoming) <= 1
    <3>1. incoming = {c}
          BY DEF NetInv, NetTypes
    <3>2. Cardinality({c}) = 1
          BY FS_Singleton
    <3> QED
        BY <3>1, <3>2
  <2> QED
      BY <2>1, <2>2
<1>2. Len(stateQ) <= Cardinality(Conns)
  <2>1. /\ Cardinality(Over) <= Cardinality(Conns)
        /\ Cardinality(Over) \in Nat /\ Cardinality(Conns) \in Nat
        BY FS_Subset, FS_CardinalityType DEF Over
  <2> QED
      BY <2>1 DEF Counted, NetInv, NetTypes
<1>3. \A S : CM!Cardinality(S) = Cardinality(S)
      BY DEF CM!Cardinality, Cardinality
<1> QED
    BY <1>1, <1>2, <1>3 DEF NetInv, NetTypes, CM!TypeOK

\* server.rs:47-51: no connection is in its loop when Server::stop returns.
THEOREM ServerCloses == CM!Spec => []CM!StoppedMeansClosed
BY NetBegins, NetSteps, NetCloses, PTL DEF CM!Spec

-----------------------------------------------------------------------------
(* The App runs it.                                                          *)

\* What the App does to its connections is a step of theirs.
LEMMA ServerTakesStep ==
    ASSUME Next
    PROVE  CM!Next \/ UNCHANGED net
<1> USE DEF net, Net, Cam
<1>1. ASSUME NEW c \in Conns, CM!Handle(c) \/ CM!Respond(c) PROVE CM!Next
      BY <1>1 DEF CM!ConnStep, CM!Next
<1>2. ASSUME NEW c \in Conns, Accept(c) PROVE CM!Next
      BY <1>2 DEF Accept, CM!Next
<1>3. ASSUME NEW c \in Conns, ConnStep(c) PROVE CM!Next
      BY <1>3 DEF ConnStep, CM!ConnStep, CM!Next
<1>4. ASSUME ServerStep PROVE CM!Next
      BY <1>4 DEF ServerStep, CM!Next
<1>5. ASSUME StopServer PROVE CM!Next
      BY <1>5 DEF StopServer, CM!Next
<1>6. ASSUME StartStep \/ StopStep \/ SourceStep PROVE UNCHANGED net
      BY <1>6 DEF StartStep, StartContext, StartSource, Register, Bind, BindFails, Failed,
         MqttStarts, MqttFails, StopStep, ServerDone, StopSessions, StopSources, Drain,
         StopRuntime, Down, SourceStep
<1>7. ASSUME NEW c \in Conns, HandlerStep(c) PROVE UNCHANGED net \/ CM!Respond(c)
      BY <1>7 DEF HandlerStep, Decide, Describe, SetupSubscribe, SetupQuery, SetupFinish,
         Play, Teardown, PlayHangs, TeardownHangs, Hang, Respond, Reply
<1>8. ASSUME NEW c \in Conns, NEW r, Take(c, r) PROVE CM!Handle(c)
      BY <1>8 DEF Take
<1> QED
    BY <1>1, <1>2, <1>3, <1>4, <1>5, <1>6, <1>7, <1>8 DEF Next

LEMMA ServerTakesSteps == [Next]_vars => [CM!Next]_(CM!vars)
BY ServerTakesStep DEF vars, net, CM!vars

(* The server that App runs, with its requests handled one at a time and its *)
(* stop called once, is the one that ConnectionManager describes.            *)
THEOREM AppServes == Spec => CM!Spec
BY ServerTakesSteps, PTL DEF Spec, Init, CM!Spec

\* app/mod.rs:137-139: Server::stop leaves no connection in its loop.
THEOREM AppCloses == Spec => []StoppedMeansClosed
BY AppServes, ServerCloses, PTL DEF StoppedMeansClosed

-----------------------------------------------------------------------------
(* The camera.                                                               *)

\* The order of App::start and App::stop, seen from the source.
Boot ==
    /\ phase \in {"context", "source"} => value = "none" /\ source = "absent"
    /\ phase = "register" => value = "started" /\ source = "running"
    /\ phase \in {"bind", "mqtt", "up", "server"} =>
          value = "registered" /\ source = "running"
    /\ phase \in {"context", "source", "register", "bind", "mqtt", "up", "server"} =>
          ~rt /\ ~note

\* Connections are served between the start of the server and its stop.
Serving == \A c \in Conns :
    worker[c] \in {"select", "handling", "writing"} =>
        phase \in {"mqtt", "up", "server", "exit"}

\* A request is handled by its connection, and answered once.
Handling ==
    /\ req = [c \in Conns |-> req[c]] /\ answer = [c \in Conns |-> answer[c]]
    /\ \A c \in Conns :
          /\ req[c] # NoRequest => worker[c] = "handling" /\ answer[c] = NoAnswer
          /\ answer[c] # NoAnswer => worker[c] = "handling"

\* A SETUP, and nothing else, has a delegate of the source.
Asking ==
    /\ ask \in [Conns -> {"none", "subscribed", "sent", "info", "nothing"}]
    /\ unread \in [Conns -> Nat]
    /\ \A c \in Conns : /\ ask[c] # "none" => Is(c, "SETUP")
                        /\ ask[c] = "nothing" => unread[c] > Cap

IInv == NetInv /\ Boot /\ Serving /\ Handling /\ Asking

LEMMA AppInit == Init => IInv
<1> SUFFICES ASSUME Init PROVE IInv
    OBVIOUS
<1>1. NetInv
      BY NetBegins DEF Init
<1>2. Boot /\ Serving /\ Handling /\ Asking
      BY AppAssumption DEF Init, CM!Init, Src!Init, Boot, Serving, Handling, Asking
<1> QED
    BY <1>1, <1>2 DEF IInv

\* What the connections' types say of one that is served.
LEMMA WorkerType ==
    ASSUME NetInv
    PROVE  worker \in [Conns -> {"absent", "left", "done", "select", "handling", "writing"}]
BY DEF NetInv, NetTypes, CM!Loop

\* A server that has stopped serves nobody.
LEMMA StoppedServesNone ==
    ASSUME NetInv, server = "stopped", NEW c \in Conns
    PROVE  worker[c] \notin {"select", "handling", "writing"}
BY NetCloses DEF CM!StoppedMeansClosed, CM!Loop

\* The steps of App::start and App::stop.
LEMMA PhasesKeep ==
    ASSUME IInv, StartStep \/ StopServer \/ StopStep
    PROVE  Boot' /\ Serving' /\ Handling' /\ Asking'
<1> USE DEF IInv, Boot, Phase, src, handler, net, Cam
<1>1. Boot' /\ UNCHANGED <<worker, req, answer, ask, unread>>
  <2>1. CASE StartContext \/ StartSource \/ Register
        BY <2>1 DEF StartContext, StartSource, Register, Src!Start, Src!StartSource,
           Src!Register, Src!delegates
  <2>2. CASE Bind \/ BindFails \/ Failed
        BY <2>2 DEF Bind, BindFails, Failed, Src!SignalStop, Src!delegates
  <2>3. CASE MqttStarts \/ MqttFails
        BY <2>3 DEF MqttStarts, MqttFails
  <2>4. CASE StopServer \/ ServerDone \/ StopSessions
        BY <2>4 DEF StopServer, ServerDone, StopSessions, CM!StopServer
  <2>5. CASE StopSources \/ Drain
        BY <2>5 DEF StopSources, Drain, Src!StopManager, Src!Drain, Src!DropSource,
           Src!delegates
  <2>6. CASE StopRuntime \/ Down
        BY <2>6 DEF StopRuntime, Down, Src!SignalStop, Src!delegates
  <2> QED
      BY <2>1, <2>2, <2>3, <2>4, <2>5, <2>6 DEF StartStep, StopStep
<1>2. Serving'
  <2> USE DEF Serving
  <2>1. CASE ServerDone
        BY <1>1, <2>1, StoppedServesNone DEF ServerDone
  <2>2. CASE StartStep
        BY <1>1, <2>2 DEF StartStep, StartContext, StartSource, Register, Bind, BindFails,
           Failed, MqttStarts, MqttFails
  <2>3. CASE StopServer \/ StopSessions \/ StopSources \/ Drain \/ StopRuntime \/ Down
        BY <1>1, <2>3 DEF StopServer, StopSessions, StopSources, Drain, StopRuntime, Down
  <2> QED
      BY <2>1, <2>2, <2>3 DEF StopStep
<1>3. Handling' /\ Asking'
      BY <1>1 DEF Handling, Asking, Is
<1> QED
    BY <1>1, <1>2, <1>3

\* The connections' own steps leave a request that is handled alone.
LEMMA NetKeeps ==
    ASSUME IInv,
           ServerStep \/ \E c \in Conns : Accept(c) \/ ConnStep(c)
    PROVE  Boot' /\ Serving' /\ Handling' /\ Asking'
<1>1. UNCHANGED <<src, handler, phase>>
      BY DEF ServerStep, Accept, ConnStep, Net
<1>2. ASSUME NEW d \in Conns
      PROVE  /\ worker[d] = "handling" => worker'[d] = "handling"
             /\ worker'[d] \in {"select", "handling", "writing"} =>
                   phase \in {"mqtt", "up", "server", "exit"}
  <2> DEFINE Alone == /\ worker[d] = "handling" => worker'[d] = "handling"
                      /\ worker'[d] \in {"select", "handling", "writing"} =>
                            phase \in {"mqtt", "up", "server", "exit"}
  <2> USE WorkerType DEF IInv, Serving, Net
  <2>1. CASE ServerStep
        BY <2>1 DEF ServerStep, CM!LeaveAccept, CM!StopManager, CM!ServerStopped, CM!Remove
  <2>2. ASSUME NEW c \in Conns, Accept(c) PROVE Alone
        BY <2>2 DEF Accept, CM!Accept
  <2>3. ASSUME NEW c \in Conns, ConnStep(c) PROVE Alone
        BY <2>3 DEF ConnStep, CM!Insert, CM!CloseStart, CM!CloseFinish, CM!TakeMedia,
           CM!Written, CM!WriteFails, CM!ClientGone, CM!SeeStop, CM!Notify, CM!Step
  <2> QED
      BY <2>1, <2>2, <2>3
<1> QED
    BY <1>1, <1>2 DEF IInv, Boot, Serving, Handling, Asking, Is, src, handler

\* The source's own steps: it goes on while it may be asked.
LEMMA SourceKeeps ==
    ASSUME IInv, SourceStep
    PROVE  Boot' /\ Serving' /\ Handling' /\ Asking'
<1> USE AppAssumption DEF IInv, Cam, net, handler
<1>1. UNCHANGED <<worker, req, answer, phase, ask>>
      BY DEF SourceStep, Src!Serve, Src!SeeStop, Src!Finish, Src!Remove,
         Src!ManagerSeesStop, Src!StopManager, Src!delegates
<1>2. Boot'
      BY <1>1 DEF SourceStep, Boot, Src!Serve, Src!SeeStop, Src!Finish, Src!Remove,
         Src!ManagerSeesStop, Src!StopManager, Src!delegates
<1>3. unread' \in [Conns -> Nat] /\ \A c \in Conns : ask[c] = "nothing" => unread'[c] > Cap
  <2>1. CASE Cam(Src!Serve)
        BY <2>1 DEF Src!Serve, Asking, Src!Listening
  <2>2. CASE UNCHANGED unread
        BY <2>2 DEF Asking
  <2> QED
      BY <2>1, <2>2 DEF SourceStep, Src!SeeStop, Src!Finish, Src!Remove,
         Src!ManagerSeesStop, Src!StopManager, Src!delegates
<1> QED
    BY <1>1, <1>2, <1>3 DEF Serving, Handling, Asking, Is

\* While a request is handled the camera is registered and its worker runs.
LEMMA CameraThere ==
    ASSUME IInv, phase # "exit", NEW c \in Conns, req[c] # NoRequest
    PROVE  phase \in {"mqtt", "up", "server"} /\ value = "registered" /\ source = "running"
BY DEF IInv, Handling, Serving, Boot

\* The handler's steps for one request.
LEMMA HandlerKeeps ==
    ASSUME IInv, phase # "exit", NEW c \in Conns, HandlerStep(c)
    PROVE  Boot' /\ Serving' /\ Handling' /\ Asking'
<1> USE WorkerType, AppAssumption DEF IInv, net, src, handler, Src!delegates
<1>1. ASSUME NEW status, NEW outcome, Give(c, status, outcome), req[c] # NoRequest,
             UNCHANGED <<net, phase, source, value, note, rt>>,
             ask' = [ask EXCEPT ![c] = "none"], unread' \in [Conns -> Nat],
             \A d \in Conns \ {c} : unread'[d] = unread[d]
      PROVE  Boot' /\ Serving' /\ Handling' /\ Asking'
      BY <1>1 DEF Give, Boot, Serving, Handling, Asking, Is
<1>2. ASSUME NEW status, Reply(c, status), req[c] # NoRequest, ask[c] = "none"
      PROVE  Boot' /\ Serving' /\ Handling' /\ Asking'
  <2>1. ask' = [ask EXCEPT ![c] = "none"]
        BY <1>2 DEF Reply, Asking
  <2> QED
      BY <1>1, <1>2, <2>1 DEF Reply, Asking
<1>3. CASE Decide(c)
      BY <1>2, <1>3 DEF Decide, Asking, Is
<1>4. CASE Describe(c)
      BY <1>2, <1>4 DEF Describe, Asking, Is
<1>5. CASE Play(c) \/ Teardown(c)
      BY <1>2, <1>5 DEF Play, Teardown, Asking, Is
<1>10. CASE PlayHangs(c) \/ TeardownHangs(c)
      BY <1>10 DEF PlayHangs, TeardownHangs, Hang, Boot, Serving, Handling, Asking, Is
<1>6. CASE SetupSubscribe(c)
  <2>1. ASSUME Src!Subscribe(c), UNCHANGED <<net, handler, phase>>
        PROVE  Boot' /\ Serving' /\ Handling' /\ Asking'
        BY <1>6, <2>1 DEF SetupSubscribe, Src!Subscribe, Boot, Serving, Handling, Asking, Is
  <2> QED
      BY <1>2, <1>6, <2>1 DEF SetupSubscribe, Is
<1>7. CASE SetupQuery(c)
  <2>1. ask[c] # "none" /\ req[c] # NoRequest
        BY <1>7 DEF SetupQuery, Cam, Src!Query, Src!Receive, Asking, Is
  <2>2. source = "running"
        BY <2>1, CameraThere
  <2>3. CASE Cam(Src!Query(c))
        BY <2>1, <2>2, <2>3 DEF Cam, Src!Query, Boot, Serving, Handling, Asking, Is
  <2>4. CASE Cam(Src!Receive(c))
        BY <2>1, <2>2, <2>4 DEF Cam, Src!Receive, Src!Closed, Boot, Serving, Handling, Asking, Is
  <2> QED
      BY <1>7, <2>3, <2>4 DEF SetupQuery, Cam
<1>8. CASE SetupFinish(c)
      BY <1>1, <1>8 DEF SetupFinish, Src!Release, Asking, Is
<1>9. CASE Respond(c)
  <2>1. /\ worker[c] = "handling" /\ worker' = [worker EXCEPT ![c] = "writing"]
        /\ answer' = [answer EXCEPT ![c] = NoAnswer] /\ req[c] = NoRequest
        /\ UNCHANGED <<src, req, hung, phase>>
        BY <1>9 DEF Respond, CM!Respond, CM!Step, Handling
  <2> QED
      BY <2>1 DEF Boot, Serving, Handling, Asking, Is
<1> QED
    BY <1>3, <1>4, <1>5, <1>6, <1>7, <1>8, <1>9, <1>10 DEF HandlerStep

\* A connection that waits has neither a request nor an answer.
LEMMA TakeKeeps ==
    ASSUME IInv, NEW c \in Conns, NEW r \in Requests[c], Take(c, r)
    PROVE  Boot' /\ Serving' /\ Handling' /\ Asking'
<1>1. /\ worker[c] = "select" /\ worker' = [worker EXCEPT ![c] = "handling"]
      /\ req' = [req EXCEPT ![c] = r] /\ UNCHANGED <<src, answer, hung, phase>>
      BY DEF Take, CM!Handle, CM!Step
<1>2. req[c] = NoRequest /\ answer[c] = NoAnswer /\ ask[c] = "none"
      BY <1>1 DEF IInv, Handling, Asking, Is
<1> QED
    BY <1>1, <1>2, WorkerType DEF IInv, Boot, Serving, Handling, Asking, Is, src

LEMMA AppKeeps == IInv /\ [Next]_vars => IInv'
<1> SUFFICES ASSUME IInv, [Next]_vars PROVE IInv'
    OBVIOUS
<1>1. NetInv'
      BY ServerTakesSteps, NetSteps DEF IInv
<1>2. Boot' /\ Serving' /\ Handling' /\ Asking'
  <2>1. CASE Next
        BY <2>1, PhasesKeep, NetKeeps, SourceKeeps, HandlerKeeps, TakeKeeps DEF Next
  <2>2. CASE UNCHANGED vars
        BY <2>2 DEF vars, net, src, handler, IInv, Boot, Serving, Handling, Asking, Is
  <2> QED
      BY <2>1, <2>2
<1> QED
    BY <1>1, <1>2 DEF IInv

\* Only its own handler answers a request that is handled.
LEMMA OnlyItsHandler ==
    ASSUME IInv, Next, NEW c \in Conns, req[c] # NoRequest, answer'[c] # answer[c]
    PROVE  HandlerStep(c) /\ ~Respond(c) /\ phase # "exit"
<1> USE DEF net, src, handler, Net, Cam
<1>1. ASSUME NEW d \in Conns, HandlerStep(d), d # c PROVE answer'[c] = answer[c]
      BY <1>1 DEF IInv, Handling, HandlerStep, Decide, Describe, SetupSubscribe, SetupQuery,
         SetupFinish, Play, Teardown, PlayHangs, TeardownHangs, Hang, Respond, Reply, Give
<1>2. ASSUME StartStep \/ StopServer \/ StopStep \/ ServerStep \/ SourceStep
      PROVE  UNCHANGED answer
      BY <1>2 DEF StartStep, StartContext, StartSource, Register, Bind, BindFails, Failed,
         MqttStarts, MqttFails, StopServer, StopStep, ServerDone, StopSessions, StopSources,
         Drain, StopRuntime, Down, ServerStep, SourceStep
<1>3. ASSUME NEW d \in Conns, NEW r, Accept(d) \/ ConnStep(d) \/ Take(d, r)
      PROVE  UNCHANGED answer
      BY <1>3 DEF Accept, ConnStep, Take
<1>4. ~Respond(c)
      BY DEF Respond, IInv, Handling
<1> QED
    BY <1>1, <1>2, <1>3, <1>4 DEF Next

\* app/mod.rs:86-100 and 137-140: a SETUP of the camera finds it, and fails to
\* get its media info only when more than Cap went by while it did not look.
THEOREM CameraServed == Spec => CameraIsServed
<1> DEFINE Served == \A c \in Conns :
        Is(c, "SETUP") /\ req[c].path = "camera" /\ answer'[c] # answer[c] =>
            /\ answer'[c].status # 404
            /\ ask[c] = "nothing" => unread[c] > Cap
<1>1. IInv /\ [Next]_vars => [Served]_vars
  <2> SUFFICES ASSUME IInv, Next, NEW c \in Conns, Is(c, "SETUP"),
                      req[c].path = "camera", answer'[c] # answer[c]
               PROVE  /\ answer'[c].status # 404
                      /\ ask[c] = "nothing" => unread[c] > Cap
      BY DEF vars
  <2>1. ask[c] = "nothing" => unread[c] > Cap
        BY DEF IInv, Asking
  <2>2. HandlerStep(c) /\ ~Respond(c) /\ value = "registered"
        BY OnlyItsHandler, CameraThere DEF Is
  <2>3. ASSUME NEW status, NEW outcome, Give(c, status, outcome)
        PROVE  answer'[c].status = status
        BY <2>3 DEF Give, IInv, Handling
  <2>4. ~SetupSubscribe(c) /\ ~SetupQuery(c)
        BY <2>2 DEF SetupSubscribe, SetupQuery, Cam, handler
  <2>5. CASE SetupFinish(c)
        BY <2>1, <2>3, <2>5 DEF SetupFinish
  <2>6. /\ ~Decide(c) /\ ~Describe(c) /\ ~Play(c) /\ ~Teardown(c)
        /\ ~PlayHangs(c) /\ ~TeardownHangs(c)
        BY DEF Decide, Describe, Play, Teardown, PlayHangs, TeardownHangs, Is
  <2> QED
      BY <2>1, <2>2, <2>4, <2>5, <2>6 DEF HandlerStep
<1>2. [][Served]_vars => CameraIsServed
      BY PTL DEF CameraIsServed
<1> QED
    BY AppInit, AppKeeps, <1>1, <1>2, PTL DEF Spec

-----------------------------------------------------------------------------
(* The choice of a transport.                                                *)

\* The first of some indices is there to be found.
LEMMA FirstIsThere ==
    ASSUME NEW S \in SUBSET Nat, S # {}
    PROVE  LET first == CHOOSE i \in S : \A j \in S : i <= j
           IN  first \in S /\ \A j \in S : first <= j
<1>1. \E i \in S : \A j \in S : ~(<<j, i>> \in OpToRel(<, Nat))
      BY NatLessThanWellFounded, WFMin
<1>2. \A i, j \in Nat : j < i => <<j, i>> \in OpToRel(<, Nat)
      BY DEF OpToRel
<1> DEFINE R == OpToRel(<, Nat)
<1> HIDE DEF R
<1>3. \E i \in S : \A j \in S : i <= j
  <2>1. PICK i \in S : \A j \in S : ~(<<j, i>> \in R)
        BY <1>1 DEF R
  <2>2. \A k \in Nat : k < i => <<k, i>> \in R
        BY <1>2, Zenon DEF R
  <2>3. ASSUME NEW j \in S PROVE i <= j
    <3>1. ~(j < i)
          BY <2>1, <2>2, Zenon
    <3> QED
        BY <3>1
  <2> QED
      BY <2>3
<1> QED
    BY <1>3

\* transport.rs:33-52, setup.rs:97-104: whatever a client offers, it is granted
\* what it offered, with RTCP apart from RTP unless it said otherwise.
LEMMA NegotiateGrants ==
    ASSUME NEW candidates \in Seq(Candidate)
    PROVE  /\ OnOwnConnection(candidates, Negotiate(candidates))
           /\ RtcpApart(Negotiate(candidates))
<1> DEFINE supported == {i \in DOMAIN candidates : IsSupported(candidates[i])}
           first == CHOOSE i \in supported : \A j \in supported : i <= j
           asked == candidates[first]
           chosen == Resolve(asked)
           outcome == Negotiate(candidates)
<1> SUFFICES ASSUME outcome # Refused
             PROVE  OnOwnConnection(candidates, outcome) /\ RtcpApart(outcome)
    BY DEF OnOwnConnection, RtcpApart
<1>1. /\ supported # {} /\ Target(chosen) # NoTarget
      /\ outcome = [target |-> Target(chosen), told |-> chosen.channel]
      BY DEF Negotiate
<1>2. first \in supported
  <2>1. supported \subseteq Nat
        OBVIOUS
  <2> HIDE DEF supported
  <2> QED
      BY <1>1, <2>1, FirstIsThere
<1> HIDE DEF first, asked, chosen, outcome
<1>3. asked \in Candidate /\ asked.lower # "udp" /\ first \in DOMAIN candidates
  <2>1. first \in DOMAIN candidates /\ IsSupported(candidates[first])
        BY <1>2
  <2>2. candidates[first] \in Candidate
        BY <2>1
  <2> QED
      BY <2>1, <2>2 DEF IsSupported, asked
<1> HIDE DEF supported
<1>4. /\ chosen.lower = asked.lower
      /\ chosen.channel = IF asked.channel = <<>> THEN <<0, 1>> ELSE asked.channel
      BY <1>3 DEF Resolve, Candidate, chosen
<1>5. asked.lower = "tcp" /\ Target(chosen) = Interleaved(chosen)
  <2>1. asked.lower \in {"none", "tcp", "udp"}
        BY <1>3 DEF Candidate
  <2> QED
      BY <1>1, <1>3, <1>4, <2>1 DEF Target
<1>6. \/ \E a \in Channels : chosen.channel = <<a>>
      \/ \E a, b \in Channels : chosen.channel = <<a, b>>
  <2>1. 0 \in Channels /\ 1 \in Channels
        BY DEF Channels
  <2>2. \/ asked.channel = <<>> \/ \E a \in Channels : asked.channel = <<a>>
        \/ \E a, b \in Channels : asked.channel = <<a, b>>
        BY <1>3 DEF Candidate
  <2> QED
      BY <1>4, <2>1, <2>2
<1>7. OnOwnConnection(candidates, outcome)
  <2>1. /\ outcome.told = chosen.channel /\ outcome.target.to = "sender"
        /\ outcome.target.rtp = chosen.channel[1]
        BY <1>1, <1>5 DEF Interleaved
  <2> QED
      BY <1>3, <1>4, <1>5, <2>1 DEF OnOwnConnection, asked
<1>8. RtcpApart(outcome)
  <2>1. ASSUME NEW a \in Channels, chosen.channel = <<a>> PROVE RtcpApart(outcome)
        BY <1>1, <1>5, <2>1 DEF RtcpApart, Interleaved, Channels
  <2>2. ASSUME NEW a \in Channels, NEW b \in Channels, chosen.channel = <<a, b>>
        PROVE  RtcpApart(outcome)
        BY <1>1, <1>5, <2>2 DEF RtcpApart, Interleaved
  <2> QED
      BY <1>6, <2>1, <2>2
<1> QED
    BY <1>7, <1>8

-----------------------------------------------------------------------------
(* Types.                                                                    *)

Statuses == {0, 200, 400, 404, 405, 406, 454, 455, 457, 459, 461, 500, 501, 551}

\* A request that is taken is held, or answered, until it is responded to.
HandlerTypes == \A c \in Conns :
    /\ req[c] \in Requests[c] \cup {NoRequest}
    /\ answer[c].status \in Statuses
    /\ worker[c] = "handling" => req[c] # NoRequest \/ answer[c] # NoAnswer

\* Who hangs has not finished its PLAY or TEARDOWN.
HungTypes == hung \subseteq {c \in Conns : Is(c, "PLAY") \/ Is(c, "TEARDOWN")}

TInv == /\ IInv /\ Counted /\ Src!TypeOK /\ HandlerTypes /\ HungTypes
        /\ phase \in Phases

LEMMA TypesBegin == Init => TInv
<1> SUFFICES ASSUME Init PROVE TInv
    OBVIOUS
<1>1. IInv
      BY AppInit
<1>2. Counted
  <2> SUFFICES ASSUME IsFiniteSet(Conns) PROVE Len(stateQ) <= Cardinality(Over)
      BY DEF Counted
  <2>1. Over = {} /\ Len(stateQ) = 0
        BY DEF Init, CM!Init, Over
  <2> QED
      BY <2>1, FS_EmptySet
<1>3. Src!TypeOK
  <2>1. 0 \in 0 .. MaxQueries /\ 0 \in 0 .. Cap + 1
        BY AppAssumption
  <2> QED
      BY <2>1 DEF Init, Src!Init, Src!TypeOK, Src!Worker
<1>4. HandlerTypes /\ HungTypes /\ phase \in Phases
      BY DEF Init, CM!Init, HandlerTypes, HungTypes, Statuses, NoAnswer, Phases
<1> QED
    BY <1>1, <1>2, <1>3, <1>4 DEF TInv

\* The source's variables, whoever moves them.
LEMMA SourceTyped ==
    ASSUME Src!TypeOK, Next
    PROVE  Src!TypeOK'
<1> USE AppAssumption DEF Src!TypeOK, Src!Worker, Src!delegates, Cam
<1>1. ASSUME StartStep \/ StopServer \/ StopStep PROVE Src!TypeOK'
  <2>1. CASE StartContext \/ StartSource \/ Register
        BY <2>1 DEF StartContext, StartSource, Register, Src!Start, Src!StartSource,
           Src!Register
  <2>2. CASE BindFails \/ StopRuntime
        BY <2>2 DEF BindFails, StopRuntime, Src!SignalStop
  <2>3. CASE StopSources \/ Drain
        BY <2>3 DEF StopSources, Drain, Src!StopManager, Src!Drain, Src!DropSource
  <2>4. CASE \/ Bind \/ Failed \/ MqttStarts \/ MqttFails \/ StopServer \/ ServerDone
             \/ StopSessions \/ Down
        BY <2>4 DEF Bind, Failed, MqttStarts, MqttFails, StopServer, ServerDone,
           StopSessions, Down, src
  <2> QED
      BY <1>1, <2>1, <2>2, <2>3, <2>4 DEF StartStep, StopStep
<1>2. ASSUME SourceStep PROVE Src!TypeOK'
  <2>1. CASE Cam(Src!Serve)
        BY <2>1 DEF Src!Serve
  <2>2. CASE Cam(Src!SeeStop)
        BY <2>2 DEF Src!SeeStop
  <2>4. CASE Cam(Src!Finish)
    <3>1. 0 \in 0 .. MaxQueries
          OBVIOUS
    <3> QED
        BY <2>4, <3>1 DEF Src!Finish
  <2>3. CASE Cam(Src!Remove \/ Src!ManagerSeesStop)
        BY <2>3 DEF Src!Remove, Src!ManagerSeesStop, Src!StopManager
  <2> QED
      BY <1>2, <2>1, <2>2, <2>3, <2>4 DEF SourceStep
<1>3. ASSUME NEW c \in Conns, HandlerStep(c) PROVE Src!TypeOK'
  <2>1. CASE UNCHANGED src
        BY <2>1 DEF src
  <2>2. ASSUME Src!Subscribe(c) \/ Src!Release(c) PROVE Src!TypeOK'
        BY <2>2 DEF Src!Subscribe, Src!Release
  <2>3. ASSUME Src!Query(c) PROVE Src!TypeOK'
        BY <2>3 DEF Src!Query
  <2>4. ASSUME Src!Receive(c) PROVE Src!TypeOK'
        BY <2>4 DEF Src!Receive
  <2>5. CASE Decide(c) \/ Describe(c) \/ Play(c) \/ Teardown(c) \/ Respond(c)
        BY <2>1, <2>5 DEF Decide, Describe, Play, Teardown, Respond, Reply
  <2>9. CASE PlayHangs(c) \/ TeardownHangs(c)
        BY <2>1, <2>9 DEF PlayHangs, TeardownHangs, Hang
  <2>6. CASE SetupSubscribe(c)
        BY <2>1, <2>2, <2>6 DEF SetupSubscribe, Reply
  <2>7. CASE SetupQuery(c)
        BY <2>3, <2>4, <2>7 DEF SetupQuery
  <2>8. CASE SetupFinish(c)
        BY <2>2, <2>8 DEF SetupFinish
  <2> QED
      BY <1>3, <2>5, <2>6, <2>7, <2>8, <2>9 DEF HandlerStep
<1>4. ASSUME NEW c \in Conns, NEW r, Accept(c) \/ ConnStep(c) \/ Take(c, r)
      PROVE  Src!TypeOK'
      BY <1>4 DEF Accept, ConnStep, Take, Net, src
<1>5. ASSUME ServerStep PROVE Src!TypeOK'
      BY <1>5 DEF ServerStep, Net, src
<1> QED
    BY <1>1, <1>2, <1>3, <1>4, <1>5 DEF Next

\* The handler's: what is taken is one of the client's requests, and what it is
\* answered with is one of the statuses.
LEMMA HandlerTyped ==
    ASSUME IInv, HandlerTypes, Next
    PROVE  HandlerTypes'
<1> USE WorkerType DEF IInv, HandlerTypes, Handling, net, src, handler, Net, Cam
<1>1. ASSUME NEW c \in Conns, NEW status \in Statuses \ {0}, NEW outcome,
             Give(c, status, outcome), UNCHANGED worker
      PROVE  HandlerTypes'
  <2>1. [status |-> status, outcome |-> outcome] # NoAnswer
    <3>1. [status |-> status, outcome |-> outcome].status # NoAnswer.status
          BY DEF NoAnswer
    <3> QED
        BY <3>1
  <2>2. /\ req'[c] = NoRequest /\ answer'[c] = [status |-> status, outcome |-> outcome]
        /\ answer'[c].status \in Statuses /\ answer'[c] # NoAnswer
        /\ \A d \in Conns \ {c} : req'[d] = req[d] /\ answer'[d] = answer[d]
        BY <1>1, <2>1 DEF Give
  <2> QED
      BY <1>1, <2>2
<1>2. ASSUME NEW c \in Conns, NEW status \in Statuses \ {0}, Reply(c, status)
      PROVE  HandlerTypes'
      BY <1>1, <1>2 DEF Reply
<1>3. ASSUME NEW c \in Conns, HandlerStep(c) PROVE HandlerTypes'
  <2>1. CASE Decide(c)
    <3>1. Decision(req[c]) \in Statuses
          BY DEF Decision, Statuses
    <3> QED
        BY <1>2, <2>1, <3>1 DEF Decide
  <2>2. CASE Describe(c)
        BY <1>2, <2>2 DEF Describe, Statuses
  <2>3. CASE SetupSubscribe(c)
        BY <1>2, <2>3 DEF SetupSubscribe, Statuses
  <2>4. CASE SetupQuery(c)
        BY <2>4 DEF SetupQuery
  <2>5. CASE SetupFinish(c)
    <3>1. UNCHANGED worker /\ \E status \in {200, 461, 500}, outcome \in {Refused,
              Negotiate(req[c].transport)} : Give(c, status, outcome)
          BY <2>5 DEF SetupFinish
    <3> QED
        BY <1>1, <3>1 DEF Statuses
  <2>6. CASE Play(c) \/ Teardown(c)
        BY <1>2, <2>6 DEF Play, Teardown, Statuses
  <2>7. CASE Respond(c)
    <3>1. /\ worker' = [worker EXCEPT ![c] = "writing"] /\ UNCHANGED req
          /\ answer' = [answer EXCEPT ![c] = NoAnswer]
          BY <2>7 DEF Respond, CM!Respond, CM!Step
    <3>2. answer'[c].status \in Statuses /\ worker'[c] # "handling"
          BY <3>1 DEF NoAnswer, Statuses
    <3> QED
        BY <3>1, <3>2
  <2>8. CASE PlayHangs(c) \/ TeardownHangs(c)
        BY <2>8 DEF PlayHangs, TeardownHangs, Hang
  <2> QED
      BY <1>3, <2>1, <2>2, <2>3, <2>4, <2>5, <2>6, <2>7, <2>8 DEF HandlerStep
<1>4. ASSUME NEW c \in Conns, NEW r \in Requests[c], Take(c, r) PROVE HandlerTypes'
  <2>1. /\ worker' = [worker EXCEPT ![c] = "handling"] /\ UNCHANGED answer
        /\ req' = [req EXCEPT ![c] = r] /\ r # NoRequest
        BY <1>4, AppAssumption DEF Take, CM!Handle, CM!Step
  <2> QED
      BY <2>1
<1>5. ASSUME UNCHANGED handler, \A d \in Conns : worker'[d] = "handling" => worker[d] = "handling"
      PROVE  HandlerTypes'
      BY <1>5
<1>6. ASSUME StartStep \/ StopServer \/ StopStep \/ SourceStep PROVE HandlerTypes'
  <2>1. UNCHANGED handler /\ UNCHANGED worker
        BY <1>6 DEF StartStep, StartContext, StartSource, Register, Bind, BindFails, Failed,
           MqttStarts, MqttFails, StopServer, CM!StopServer, StopStep, ServerDone,
           StopSessions, StopSources, Drain, StopRuntime, Down, SourceStep
  <2> QED
      BY <1>5, <2>1
<1>7. ASSUME ServerStep PROVE HandlerTypes'
      BY <1>5, <1>7 DEF ServerStep, CM!LeaveAccept, CM!StopManager, CM!ServerStopped,
         CM!Remove
<1>8. ASSUME NEW c \in Conns, Accept(c) PROVE HandlerTypes'
      BY <1>5, <1>8 DEF Accept, CM!Accept
<1>9. ASSUME NEW c \in Conns, ConnStep(c) PROVE HandlerTypes'
      BY <1>5, <1>9 DEF ConnStep, CM!Insert, CM!CloseStart, CM!CloseFinish, CM!TakeMedia,
         CM!Written, CM!WriteFails, CM!ClientGone, CM!SeeStop, CM!Notify, CM!Step
<1> QED
    BY <1>3, <1>4, <1>6, <1>7, <1>8, <1>9 DEF Next

LEMMA PhaseTyped ==
    ASSUME phase \in Phases, Next
    PROVE  phase' \in Phases
<1> USE DEF Phases, Phase, Net, Cam
<1>1. CASE StartStep \/ StopServer \/ StopStep
      BY <1>1 DEF StartStep, StartContext, StartSource, Register, Bind, BindFails, Failed,
         MqttStarts, MqttFails, StopServer, StopStep, ServerDone, StopSessions, StopSources,
         Drain, StopRuntime, Down
<1>2. CASE ServerStep \/ SourceStep
      BY <1>2 DEF ServerStep, SourceStep
<1>3. ASSUME NEW c \in Conns, NEW r, Accept(c) \/ ConnStep(c) \/ Take(c, r)
      PROVE  UNCHANGED phase
      BY <1>3 DEF Accept, ConnStep, Take
<1>4. ASSUME NEW c \in Conns, HandlerStep(c) PROVE UNCHANGED phase
      BY <1>4 DEF HandlerStep, Decide, Describe, SetupSubscribe, SetupQuery, SetupFinish,
         Play, Teardown, PlayHangs, TeardownHangs, Hang, Respond, Reply
<1> QED
    BY <1>1, <1>2, <1>3, <1>4 DEF Next

\* A connection whose handler has not returned takes no other step.
LEMMA HungStays ==
    ASSUME IInv, HungTypes, Next
    PROVE  HungTypes'
<1> USE DEF IInv, Handling, HungTypes, net, src, handler, Net, Cam
<1>1. ASSUME NEW c \in Conns, UNCHANGED hung, c \notin hung,
             \A d \in Conns \ {c} : req'[d] = req[d]
      PROVE  HungTypes'
      BY <1>1 DEF Is
<1>2. ASSUME UNCHANGED <<req, hung>> PROVE HungTypes'
      BY <1>2 DEF Is
<1>3. ASSUME NEW c \in Conns, HandlerStep(c) PROVE HungTypes'
  <2>1. ASSUME NEW status, NEW outcome, Give(c, status, outcome), UNCHANGED hung,
               c \notin hung
        PROVE  HungTypes'
        BY <1>1, <2>1 DEF Give
  <2>2. CASE Decide(c) \/ Describe(c)
        BY <2>1, <2>2 DEF Decide, Describe, Reply, Is
  <2>3. CASE Play(c) \/ Teardown(c)
        BY <2>1, <2>3 DEF Play, Teardown, Reply
  <2>4. CASE SetupSubscribe(c)
        BY <1>2, <2>1, <2>4 DEF SetupSubscribe, Reply, Is
  <2>5. CASE SetupQuery(c) \/ Respond(c)
        BY <1>2, <2>5 DEF SetupQuery, Respond
  <2>6. CASE SetupFinish(c)
        BY <2>1, <2>6 DEF SetupFinish, Is
  <2>7. CASE PlayHangs(c) \/ TeardownHangs(c)
    <3>1. hung' = hung \cup {c} /\ UNCHANGED req /\ (Is(c, "PLAY") \/ Is(c, "TEARDOWN"))
          BY <2>7 DEF PlayHangs, TeardownHangs, Hang
    <3> QED
        BY <3>1 DEF Is
  <2> QED
      BY <1>3, <2>2, <2>3, <2>4, <2>5, <2>6, <2>7 DEF HandlerStep
<1>4. ASSUME NEW c \in Conns, NEW r \in Requests[c], Take(c, r) PROVE HungTypes'
  <2>1. worker[c] = "select" /\ UNCHANGED hung /\ \A d \in Conns \ {c} : req'[d] = req[d]
        BY <1>4 DEF Take, CM!Handle, CM!Step
  <2> QED
      BY <1>1, <2>1 DEF Is
<1>5. CASE StartStep \/ StopServer \/ StopStep \/ ServerStep \/ SourceStep
      BY <1>2, <1>5 DEF StartStep, StartContext, StartSource, Register, Bind, BindFails,
         Failed, MqttStarts, MqttFails, StopServer, StopStep, ServerDone, StopSessions,
         StopSources, Drain, StopRuntime, Down, ServerStep, SourceStep
<1>6. ASSUME NEW c \in Conns, Accept(c) \/ ConnStep(c) PROVE HungTypes'
      BY <1>2, <1>6 DEF Accept, ConnStep
<1> QED
    BY <1>3, <1>4, <1>5, <1>6 DEF Next

LEMMA TypesKeep == TInv /\ [Next]_vars => TInv'
<1> SUFFICES ASSUME TInv, [Next]_vars PROVE TInv'
    OBVIOUS
<1>1. IInv'
      BY AppKeeps DEF TInv
<1>2. CASE Next
  <2>1. Counted'
    <3>1. CASE CM!Next
          BY <3>1, CountKeeps DEF TInv, IInv
    <3>2. CASE UNCHANGED net
          BY <3>2 DEF TInv, Counted, Over, net
    <3> QED
        BY <1>2, <3>1, <3>2, ServerTakesStep
  <2> QED
      BY <1>1, <1>2, <2>1, SourceTyped, HandlerTyped, HungStays, PhaseTyped DEF TInv
<1>3. CASE UNCHANGED vars
      BY <1>1, <1>3 DEF TInv, vars, net, src, handler, Counted, Over, Src!TypeOK, HandlerTypes,
         HungTypes, Is
<1> QED
    BY <1>2, <1>3

\* Every variable stays in its set: no channel holds more than there are
\* connections, no receiver more than its bound, and a connection has a request
\* or its answer, and not both, exactly while it handles one.
THEOREM AppTypes ==
    ASSUME IsFiniteSet(Conns)
    PROVE  Spec => []TypeOK
<1>1. TInv => TypeOK
  <2> SUFFICES ASSUME TInv PROVE TypeOK
      OBVIOUS
  <2>1. CM!TypeOK
        BY NetTyped DEF TInv, IInv
  <2>2. ASSUME NEW c \in Conns
        PROVE  /\ req[c] \in Requests[c] \cup {NoRequest}
               /\ answer[c].status \in Statuses
               /\ ask[c] # "none" => req[c] # NoRequest
               /\ (worker[c] = "handling") =
                     ((req[c] # NoRequest) # (answer[c] # NoAnswer))
        BY DEF TInv, IInv, HandlerTypes, Handling, Asking, Is
  <2>3. hung \subseteq {c \in Conns : req[c] # NoRequest}
        BY DEF TInv, HungTypes, Is
  <2> QED
      BY <2>1, <2>2, <2>3 DEF TInv, TypeOK, Statuses
<1> QED
    BY <1>1, TypesBegin, TypesKeep, PTL DEF Spec

-----------------------------------------------------------------------------
\* transport.rs, setup.rs: a SETUP is granted what it asked for, whatever else
\* the connections, the source and the server do while it is handled.
THEOREM Granted == Spec => GrantedAsAsked
<1> DEFINE AsAsked == \A c \in Conns :
        Is(c, "SETUP") /\ answer'[c].status = 200 =>
            /\ OnOwnConnection(req[c].transport, answer'[c].outcome)
            /\ RtcpApart(answer'[c].outcome)
<1>1. TInv /\ [Next]_vars => [AsAsked]_vars
  <2> SUFFICES ASSUME TInv, Next, NEW c \in Conns, Is(c, "SETUP"), answer'[c].status = 200
               PROVE  /\ OnOwnConnection(req[c].transport, answer'[c].outcome)
                      /\ RtcpApart(answer'[c].outcome)
      BY DEF vars
  <2>1. req[c] # NoRequest /\ req[c].transport \in Seq(Candidate)
        BY AppAssumption DEF TInv, HandlerTypes, Is, Request
  <2>2. answer[c] = NoAnswer /\ answer'[c] # answer[c]
        BY <2>1 DEF TInv, IInv, Handling, NoAnswer
  <2>3. HandlerStep(c) /\ ~Respond(c)
        BY <2>1, <2>2, OnlyItsHandler DEF TInv
  <2>4. ASSUME NEW status, NEW outcome, Give(c, status, outcome)
        PROVE  status = 200 /\ answer'[c].outcome = outcome
        BY <2>4 DEF Give, TInv, IInv, Handling
  <2>5. ~SetupSubscribe(c)
    <3>1. ~Give(c, 404, Refused)
          BY <2>4
    <3> QED
        BY <2>2, <3>1 DEF SetupSubscribe, Reply, handler
  <2>6. ~SetupQuery(c)
        BY <2>2 DEF SetupQuery, Cam, handler
  <2>7. /\ ~Decide(c) /\ ~Describe(c) /\ ~Play(c) /\ ~Teardown(c)
        /\ ~PlayHangs(c) /\ ~TeardownHangs(c)
        BY DEF Decide, Describe, Play, Teardown, PlayHangs, TeardownHangs, Is
  <2>8. SetupFinish(c)
        BY <2>3, <2>5, <2>6, <2>7 DEF HandlerStep
  <2>9. answer'[c].outcome = Negotiate(req[c].transport)
    <3>1. ~Give(c, 500, Refused) /\ ~Give(c, 461, Refused)
          BY <2>4
    <3>2. Give(c, 200, Negotiate(req[c].transport))
          BY <2>8, <3>1 DEF SetupFinish
    <3> QED
        BY <2>4, <3>2
  <2> QED
      BY <2>1, <2>9, NegotiateGrants
<1>2. [][AsAsked]_vars => GrantedAsAsked
      BY PTL DEF GrantedAsAsked
<1> QED
    BY TypesBegin, TypesKeep, <1>1, <1>2, PTL DEF Spec
=============================================================================

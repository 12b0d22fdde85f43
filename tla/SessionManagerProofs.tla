------------------------ MODULE SessionManagerProofs ------------------------
(* As long as no id is drawn twice, a live session stays reachable, and none *)
(* survives the session manager: for any connections and sessions, any order *)
(* of their requests and any failure of a muxer. Ids that collide leave the  *)
(* types, the answers to PLAY and the end of the shutdown as they are.       *)
EXTENDS SessionManager, FiniteSetTheorems, SequenceTheorems, TLAPS

Types == /\ conn \in [Conns -> {"idle", "gone"} \cup Handling]
         /\ target \in [Conns -> Sessions \cup {NoSession}]
         /\ map \in [Ids -> Sessions \cup {NoSession}]
         /\ id \in [Sessions -> Ids \cup {NoId}]
         /\ accepted \subseteq Sessions
         /\ worker \in [Sessions -> {"new", "left", "done"} \cup Live]
         /\ stateQ \in Seq(Ids)
         /\ app \in AppPhases

\* A session has an id of its own from its start on, and is filed under it.
Named == /\ \A s \in Sessions : (worker[s] = "new") = (id[s] = NoId)
         /\ \A s, u \in Sessions : id[s] = id[u] /\ id[s] # NoId => s = u
         /\ \A i \in Ids : map[i] # NoSession => id[map[i]] = i
         /\ \A s \in accepted : id[s] # NoId

\* A session that is being set up is not in the map, and one SETUP has it.
Inserting ==
    /\ \A c \in Conns : conn[c] = "inserting" =>
          /\ target[c] \in Sessions /\ id[target[c]] # NoId
          /\ \A i \in Ids : map[i] # target[c]
    /\ \A c, d \in Conns :
          conn[c] = "inserting" /\ conn[d] = "inserting" /\ target[c] = target[d] => c = d

\* A live session is one whose SETUP was answered, or is about to be.
Started == \A s \in Sessions : worker[s] \in Live =>
    \/ s \in accepted
    \/ \E c \in Conns : conn[c] = "inserting" /\ target[c] = s

\* What is to be removed has ended.
ReportedIsDone == \A k \in 1 .. Len(stateQ) :
    \E s \in Sessions : id[s] = stateQ[k] /\ worker[s] = "done"

\* LiveIsReachable, until the map is drained.
Reachable == \A s \in accepted :
    app \notin {"runtime", "down"} /\ worker[s] \in Live => map[id[s]] = s

\* The order of App::stop.
Closing == /\ app \notin {"up", "server"} => \A c \in Conns : conn[c] = "gone"
           /\ DrainedMeansStopped

IInv == /\ Types /\ Named /\ Inserting /\ Started
        /\ ReportedIsDone /\ Reachable /\ Closing

LEMMA InitInv == Init => IInv
BY ValueAssumption DEF Init, IInv, Types, Named, Inserting, Started, ReportedIsDone,
   Reachable, Closing, DrainedMeansStopped, Handling, Live, AppPhases

-----------------------------------------------------------------------------
(* Requests.                                                                 *)

\* SETUP draws an id that no session has.
LEMMA SetupStartKeeps ==
    ASSUME AllowCollision = FALSE, IInv,
           NEW c \in Conns, NEW s \in Sessions, NEW i \in Ids, SetupStart(c, s, i)
    PROVE  IInv'
<1> USE ValueAssumption DEF SetupStart, Go, Fresh, mapVars, IInv
<1>1. /\ i # NoId /\ id[s] = NoId /\ s \notin accepted
      /\ \A k \in Ids : map[k] # s
      /\ \A u \in Sessions : id[u] # i
      BY DEF Named, Types
<1>2. /\ id' = [id EXCEPT ![s] = i] /\ id'[s] = i
      /\ \A u \in Sessions \ {s} : id'[u] = id[u] /\ worker'[u] = worker[u]
      /\ worker'[s] = "ready"
      /\ conn'[c] = "inserting" /\ target'[c] = s
      /\ \A d \in Conns \ {c} : conn'[d] = conn[d] /\ target'[d] = target[d]
      BY DEF Types
<1>3. Types'
      BY DEF Types, Handling, Live
<1>4. Named'
      BY <1>1, <1>2 DEF Named, Types
<1>5. Inserting'
      BY <1>1, <1>2 DEF Inserting, Types, Named
<1>6. Started'
      BY <1>1, <1>2 DEF Started
<1>7. ReportedIsDone'
      BY <1>2 DEF ReportedIsDone, Types
<1>8. Reachable'
      BY <1>1, <1>2 DEF Reachable
<1>9. Closing'
      BY <1>2 DEF Closing, DrainedMeansStopped, Types, AppPhases
<1> QED
    BY <1>3, <1>4, <1>5, <1>6, <1>7, <1>8, <1>9

\* No other session has the id: the map is free for it.
LEMMA SetupInsertKeeps ==
    ASSUME IInv, NEW c \in Conns, SetupInsert(c)
    PROVE  IInv'
<1> USE ValueAssumption DEF SetupInsert, Idle, Go, sessionVars, IInv
<1> DEFINE s == target[c]
<1>1. /\ s \in Sessions /\ id[s] \in Ids
      /\ \A i \in Ids : map[i] # s
      BY DEF Inserting, Types
<1>2. map[id[s]] = NoSession
      BY <1>1 DEF Named, Types
<1>3. /\ map' = [map EXCEPT ![id[s]] = s] /\ accepted' = accepted \cup {s}
      /\ conn'[c] = "idle"
      /\ \A d \in Conns \ {c} : conn'[d] = conn[d] /\ target'[d] = target[d]
      BY <1>2 DEF Types
<1>4. \A i \in Ids : map'[i] = IF i = id[s] THEN s ELSE map[i]
      BY <1>3 DEF Types
<1> HIDE DEF s
<1>5. Types'
      BY <1>1, <1>3 DEF Types, Handling
<1>6. Named'
      BY <1>1, <1>3, <1>4 DEF Named, Types
<1>7. Inserting'
  <2>1. \A d \in Conns : d # c /\ conn[d] = "inserting" => target[d] # s
        BY DEF Inserting, s
  <2> QED
      BY <1>3, <1>4, <2>1 DEF Inserting
<1>8. Started'
      BY <1>3 DEF Started, s
<1>9. ReportedIsDone'
      BY DEF ReportedIsDone
<1>10. Reachable'
  <2>1. \A u \in accepted : id[u] = id[s] => u = s
        BY <1>1 DEF Named, Types
  <2> QED
      BY <1>1, <1>3, <1>4, <2>1 DEF Reachable, Named, Types
<1>11. Closing'
      BY DEF Closing, DrainedMeansStopped
<1> QED
    BY <1>5, <1>6, <1>7, <1>8, <1>9, <1>10, <1>11

\* PLAY and TEARDOWN leave the map, the ids and the workers alone.
LEMMA OtherRequestKeeps ==
    ASSUME IInv, NEW c \in Conns,
           \/ \E i \in Ids : PlayLookup(c, i) \/ TearLookup(c, i)
           \/ PlayStart(c) \/ PlayFinish(c) \/ TearStart(c) \/ TearFinish(c)
           \/ Disconnect(c)
    PROVE  IInv'
<1>1. /\ UNCHANGED <<map, accepted, id, worker, stateQ, app>>
      /\ conn[c] # "gone" /\ conn[c] # "inserting"
      /\ \/ UNCHANGED connVars
         \/ \E pc \in ({"idle", "gone"} \cup Handling) \ {"inserting"},
               s \in Sessions \cup {NoSession} : Go(c, pc, s)
  <2> USE DEF IInv, Types, Idle, Go, mapVars, sessionVars, Handling
  <2>1. CASE \E i \in Ids : PlayLookup(c, i) \/ TearLookup(c, i)
        BY <2>1 DEF PlayLookup, TearLookup
  <2>2. CASE PlayStart(c)
        BY <2>2 DEF PlayStart
  <2>3. CASE PlayFinish(c)
        BY <2>3 DEF PlayFinish
  <2>4. CASE TearStart(c)
        BY <2>4 DEF TearStart
  <2>5. CASE TearFinish(c) \/ Disconnect(c)
        BY <2>5 DEF TearFinish, Disconnect
  <2> QED
      BY <2>1, <2>2, <2>3, <2>4, <2>5
<1> USE <1>1 DEF Go, connVars, IInv
<1>2. /\ conn'[c] # "inserting"
      /\ \A d \in Conns \ {c} : conn'[d] = conn[d] /\ target'[d] = target[d]
      BY DEF Types
<1>3. Types'
      BY DEF Types
<1>4. Named' /\ ReportedIsDone' /\ Reachable'
      BY DEF Named, ReportedIsDone, Reachable
<1>5. Inserting' /\ Started'
      BY <1>2 DEF Inserting, Started
<1>6. Closing'
      BY <1>2 DEF Closing, DrainedMeansStopped
<1> QED
    BY <1>3, <1>4, <1>5, <1>6

-----------------------------------------------------------------------------
(* Workers and the manager.                                                  *)

\* A worker that has started does not start again.
LEMMA WorkerKeeps ==
    ASSUME IInv, NEW s \in Sessions,
           Frame(s) \/ MuxFail(s) \/ ControlMessage(s) \/ SeeStop(s)
    PROVE  IInv'
<1>1. /\ UNCHANGED <<conn, target, map, accepted, id, stateQ, app>>
      /\ worker[s] \in Live
      /\ \/ UNCHANGED worker
         \/ \E w \in {"left", "playing"} : worker' = [worker EXCEPT ![s] = w]
      BY DEF Frame, MuxFail, ControlMessage, SeeStop, connVars, mapVars
<1> USE <1>1 DEF IInv, Live
<1>2. /\ \A u \in Sessions \ {s} : worker'[u] = worker[u]
      /\ worker'[s] \in {"left", "playing", "ready"}
      BY DEF Types
<1>3. Types'
      BY DEF Types
<1>4. Named' /\ Inserting' /\ Started'
      BY <1>2 DEF Named, Inserting, Started
<1>5. ReportedIsDone'
      BY <1>2 DEF ReportedIsDone
<1>6. Reachable' /\ Closing'
      BY <1>2 DEF Reachable, Closing, DrainedMeansStopped, Types
<1> QED
    BY <1>3, <1>4, <1>5, <1>6

\* A worker reports its id when it is done.
LEMMA NotifyKeeps ==
    ASSUME IInv, NEW s \in Sessions, Notify(s)
    PROVE  IInv'
<1> USE ValueAssumption DEF Notify, connVars, mapVars, IInv
<1>1. /\ \A u \in Sessions \ {s} : worker'[u] = worker[u]
      /\ worker[s] = "left" /\ worker'[s] = "done" /\ id[s] \in Ids
      BY DEF Types, Named
<1>2. Types'
      BY <1>1 DEF Types
<1>3. Named' /\ Inserting' /\ Started'
      BY <1>1 DEF Named, Inserting, Started, Live
<1>4. ReportedIsDone'
  <2>1. \A u \in Sessions : worker[u] = "done" => worker'[u] = "done"
        BY <1>1
  <2>2. CASE UNCHANGED stateQ
        BY <2>1, <2>2 DEF ReportedIsDone
  <2>3. CASE stateQ' = Append(stateQ, id[s])
    <3>1. /\ Len(stateQ') = Len(stateQ) + 1 /\ Len(stateQ) \in Nat
          /\ stateQ'[Len(stateQ) + 1] = id[s]
          /\ \A k \in 1 .. Len(stateQ) : stateQ'[k] = stateQ[k]
          BY <1>1, <2>3 DEF Types
    <3> SUFFICES ASSUME NEW k \in 1 .. Len(stateQ')
                 PROVE  \E u \in Sessions : id[u] = stateQ'[k] /\ worker'[u] = "done"
        BY DEF ReportedIsDone
    <3>2. CASE k = Len(stateQ) + 1
          BY <1>1, <3>1, <3>2
    <3>3. CASE k \in 1 .. Len(stateQ)
          BY <2>1, <3>1, <3>3 DEF ReportedIsDone
    <3> QED
        BY <3>1, <3>2, <3>3
  <2> QED
      BY <2>2, <2>3
<1>5. Reachable' /\ Closing'
      BY <1>1 DEF Reachable, Closing, DrainedMeansStopped, Live
<1> QED
    BY <1>2, <1>3, <1>4, <1>5

\* A queue that loses its head keeps only what it had.
LEMMA TailKeeps ==
    ASSUME NEW q \in Seq(Ids), q # <<>>
    PROVE  /\ 1 \in 1 .. Len(q) /\ Head(q) = q[1] /\ Head(q) \in Ids
           /\ Tail(q) \in Seq(Ids)
           /\ \A k \in 1 .. Len(Tail(q)) : k + 1 \in 1 .. Len(q) /\ Tail(q)[k] = q[k + 1]
OBVIOUS

\* The id that is removed is not a live session's.
LEMMA RemoveKeeps ==
    ASSUME IInv, Remove
    PROVE  IInv'
<1> USE ValueAssumption DEF Remove, connVars, sessionVars, IInv
<1>1. /\ 1 \in 1 .. Len(stateQ) /\ Head(stateQ) = stateQ[1] /\ Head(stateQ) \in Ids
      /\ Tail(stateQ) \in Seq(Ids)
      /\ \A k \in 1 .. Len(Tail(stateQ)) :
            k + 1 \in 1 .. Len(stateQ) /\ Tail(stateQ)[k] = stateQ[k + 1]
      BY TailKeeps DEF Types
<1>2. PICK u \in Sessions : id[u] = Head(stateQ) /\ worker[u] = "done"
      BY <1>1 DEF ReportedIsDone
<1>3. \A i \in Ids : map'[i] = IF i = id[u] THEN NoSession ELSE map[i]
      BY <1>1, <1>2 DEF Types
<1>4. Types'
      BY <1>1 DEF Types
<1>5. Named' /\ Inserting' /\ Started'
  <2>1. Named'
        BY <1>3 DEF Named
  <2>2. Inserting'
        BY <1>3 DEF Inserting
  <2> QED
      BY <2>1, <2>2 DEF Started
<1>6. ReportedIsDone'
      BY <1>1 DEF ReportedIsDone
<1>7. Reachable'
  <2>1. \A s \in accepted : worker[s] \in Live => id[s] \in Ids /\ id[s] # id[u]
        BY <1>1, <1>2 DEF Named, Types, Live
  <2> QED
      BY <1>3, <2>1 DEF Reachable
<1>8. Closing'
      BY DEF Closing, DrainedMeansStopped
<1> QED
    BY <1>4, <1>5, <1>6, <1>7, <1>8

-----------------------------------------------------------------------------
(* App::stop.                                                                *)

\* Past the server no SETUP is under way, so every live session is drained.
LEMMA DrainedKeeps ==
    ASSUME IInv, Drained
    PROVE  IInv'
<1> USE ValueAssumption DEF Drained, Phase, connVars, sessionVars, IInv
<1>1. \A s \in Sessions : worker[s] \notin Live
  <2> SUFFICES ASSUME NEW s \in Sessions, worker[s] \in Live
               PROVE  FALSE
      OBVIOUS
  <2>1. s \in accepted
        BY DEF Started, Closing
  <2>2. map[id[s]] = s /\ id[s] \in Ids
        BY <2>1 DEF Reachable, Named, Types
  <2>3. s \in Registered
        BY <2>2 DEF Registered
  <2> QED
      BY <2>3 DEF Live
<1>2. Types' /\ Named' /\ Inserting' /\ Started'
      BY DEF Types, AppPhases, Named, Inserting, Started, Closing
<1>3. ReportedIsDone' /\ Reachable' /\ Closing'
      BY <1>1 DEF ReportedIsDone, Reachable, Closing, DrainedMeansStopped
<1> QED
    BY <1>2, <1>3

\* The other steps of App::stop, in their order.
LEMMA StopKeeps ==
    ASSUME IInv,
           \/ StopServer \/ ServerStopped \/ StopManager \/ RuntimeStopped
           \/ \E s \in Sessions : DrainStop(s)
    PROVE  IInv'
<1> USE DEF IInv, Phase, connVars, mapVars, sessionVars
<1>1. /\ UNCHANGED <<conn, target, map, accepted, id, worker>>
      /\ stateQ' = stateQ \/ stateQ' = <<>>
      BY DEF StopServer, ServerStopped, StopManager, DrainStop, RuntimeStopped
<1>2. Named' /\ Inserting' /\ Started' /\ ReportedIsDone'
      BY <1>1 DEF Named, Inserting, Started, ReportedIsDone
<1>3. Types' /\ Reachable' /\ Closing'
  <2> USE <1>1 DEF Types, AppPhases, Reachable, Closing, DrainedMeansStopped
  <2>1. CASE StopServer \/ ServerStopped
        BY <2>1 DEF StopServer, ServerStopped
  <2>2. CASE StopManager
        BY <2>2 DEF StopManager
  <2>3. CASE \E s \in Sessions : DrainStop(s)
        BY <2>3 DEF DrainStop
  <2>4. CASE RuntimeStopped
        BY <2>4 DEF RuntimeStopped
  <2> QED
      BY <2>1, <2>2, <2>3, <2>4
<1> QED
    BY <1>2, <1>3

-----------------------------------------------------------------------------
LEMMA StepKeeps ==
    ASSUME AllowCollision = FALSE, IInv, [Next]_vars
    PROVE  IInv'
<1>1. CASE UNCHANGED vars
      BY <1>1 DEF vars, connVars, mapVars, sessionVars, IInv, Types, Named, Inserting,
         Started, ReportedIsDone, Reachable, Closing, DrainedMeansStopped
<1>2. ASSUME NEW c \in Conns, Request(c) \/ Handle(c) \/ Disconnect(c) PROVE IInv'
      BY <1>2, SetupStartKeeps, SetupInsertKeeps, OtherRequestKeeps DEF Request, Handle
<1>3. ASSUME NEW s \in Sessions, WorkerStep(s) PROVE IInv'
      BY <1>3, WorkerKeeps, NotifyKeeps DEF WorkerStep
<1>4. CASE Remove
      BY <1>4, RemoveKeeps
<1>5. CASE StopServer \/ StopStep
  <2>1. ASSUME NEW c \in Conns, CloseConnection(c) PROVE IInv'
        BY <2>1, OtherRequestKeeps DEF CloseConnection
  <2> QED
      BY <1>5, <2>1, DrainedKeeps, StopKeeps DEF StopStep
<1> QED
    BY <1>1, <1>2, <1>3, <1>4, <1>5 DEF Next

(* session_manager.rs:122-149, handler.rs:166-172: a live session stays       *)
(* reachable under its id, whatever others do, when no id is drawn twice.     *)
THEOREM SessionsReachable ==
    ASSUME AllowCollision = FALSE
    PROVE  Spec => []LiveIsReachable
<1>1. IInv => LiveIsReachable
      BY DEF IInv, Reachable, LiveIsReachable, MgrUp
<1> QED
    BY <1>1, InitInv, StepKeeps, PTL DEF Spec

(* app/mod.rs:137-143: when the session manager has stopped, so have all      *)
(* sessions, those of a SETUP that was in flight included.                    *)
THEOREM SessionsStopped ==
    ASSUME AllowCollision = FALSE
    PROVE  Spec => []DrainedMeansStopped
<1>1. IInv => DrainedMeansStopped
      BY DEF IInv, Closing
<1> QED
    BY <1>1, InitInv, StepKeeps, PTL DEF Spec

-----------------------------------------------------------------------------
(* Types, whether or not an id is drawn twice. That a control channel never   *)
(* holds more than two messages takes the session's mutex: one PLAY at a time *)
(* waits for the worker, and leaves one message behind.                       *)

Shapes ==
    /\ conn \in [Conns -> {"idle", "gone"} \cup Handling]
    /\ target \in [Conns -> Sessions \cup {NoSession}]
    /\ map \in [Ids -> Sessions \cup {NoSession}]
    /\ id \in [Sessions -> Ids \cup {NoId}]
    /\ accepted \subseteq Sessions
    /\ owner \in [Sessions -> Conns \cup {NoConn}]
    /\ worker \in [Sessions -> {"new", "left", "done"} \cup Live]
    /\ need \in [Sessions -> BOOLEAN] /\ answer \in [Sessions -> BOOLEAN]
    /\ control \in [Sessions -> Seq({"StreamState", "Play"})]
    /\ lock \in [Sessions -> Conns \cup {NoConn}]
    /\ stop \in [Sessions -> BOOLEAN]
    /\ stateQ \in Seq(Ids) /\ app \in AppPhases

\* What a request is about, or is filed, is a session that has been started.
Known == /\ \A s \in Sessions : worker[s] # "new" => id[s] \in Ids
         /\ \A i \in Ids : map[i] # NoSession => worker[map[i]] # "new"
         /\ \A c \in Conns : conn[c] \in Handling =>
               target[c] \in Sessions /\ worker[target[c]] # "new"

\* The session's mutex is held across both awaits.
Locking == \A c \in Conns :
    conn[c] \in {"playWait", "tearWait"} => lock[target[c]] = c

\* The stream state of the PLAY that waits is asked for, owed or there.
Channel(s) ==
    \/ ~Waiter(s) /\ ~need[s] /\ control[s] \in {<<>>, <<"Play">>}
    \/ /\ Waiter(s) /\ ~need[s] /\ ~answer[s]
       /\ control[s] \in {<<"StreamState">>, <<"Play", "StreamState">>}
    \/ Waiter(s) /\ control[s] = <<>> /\ need[s] # answer[s]

Channels == \A s \in Sessions : Channel(s)

\* Each session reports its end once.
Over == {s \in Sessions : worker[s] = "done"}

Counted == IsFiniteSet(Sessions) => Len(stateQ) <= Cardinality(Over)

TInv == Shapes /\ Known /\ Locking /\ Channels /\ Counted

LEMMA TypesBegin == Init => TInv
<1> SUFFICES ASSUME Init PROVE TInv
    OBVIOUS
<1>1. Shapes /\ Known /\ Locking
      BY ValueAssumption DEF Init, Shapes, Known, Locking, Handling, Live, AppPhases
<1>2. Channels
      BY DEF Init, Channels, Channel, Waiter
<1>3. Counted
  <2>1. Over = {} /\ Len(stateQ) = 0
        BY DEF Init, Over
  <2> QED
      BY <2>1, FS_EmptySet DEF Counted
<1> QED
    BY <1>1, <1>2, <1>3 DEF TInv

-----------------------------------------------------------------------------
(* The number of reports.                                                    *)

\* Nothing is reported, and no session ends.
LEMMA CountStays ==
    ASSUME TInv, Over' = Over, stateQ' = stateQ \/ stateQ' = <<>>
    PROVE  Counted'
<1> SUFFICES ASSUME IsFiniteSet(Sessions) PROVE Len(stateQ') <= Cardinality(Over')
    BY DEF Counted
<1>1. IsFiniteSet(Over) /\ Cardinality(Over) \in Nat
      BY FS_Subset, FS_CardinalityType DEF Over
<1> QED
    BY <1>1 DEF TInv, Counted

\* The session that ends is not one that ended before.
LEMMA NotifyCounts ==
    ASSUME TInv, NEW s \in Sessions, Notify(s)
    PROVE  Counted'
<1> SUFFICES ASSUME IsFiniteSet(Sessions) PROVE Len(stateQ') <= Cardinality(Over')
    BY DEF Counted
<1>1. IsFiniteSet(Over) /\ Cardinality(Over) \in Nat
      BY FS_Subset, FS_CardinalityType DEF Over
<1>2. Over' = Over \cup {s} /\ s \notin Over
      BY DEF Notify, Over, TInv, Shapes
<1>3. Cardinality(Over') = Cardinality(Over) + 1
      BY <1>1, <1>2, FS_AddElement
<1>4. id[s] \in Ids
      BY DEF Notify, TInv, Known
<1>5. Len(stateQ) \in Nat /\ Len(stateQ') <= Len(stateQ) + 1
      BY <1>4 DEF Notify, TInv, Shapes
<1>6. Len(stateQ) <= Cardinality(Over)
      BY DEF TInv, Counted
<1> QED
    BY <1>1, <1>3, <1>5, <1>6

\* A report that is taken makes room.
LEMMA RemoveCounts ==
    ASSUME TInv, Remove
    PROVE  Counted'
<1> SUFFICES ASSUME IsFiniteSet(Sessions) PROVE Len(stateQ') <= Cardinality(Over')
    BY DEF Counted
<1>1. IsFiniteSet(Over) /\ Cardinality(Over) \in Nat
      BY FS_Subset, FS_CardinalityType DEF Over
<1>2. Over' = Over
      BY DEF Remove, Over, sessionVars
<1>3. Len(stateQ) \in Nat /\ Len(stateQ') = Len(stateQ) - 1
      BY DEF Remove, TInv, Shapes
<1>4. Len(stateQ) <= Cardinality(Over)
      BY DEF TInv, Counted
<1> QED
    BY <1>1, <1>2, <1>3, <1>4

-----------------------------------------------------------------------------
(* Connections. A request that is not a PLAY between its awaits touches no    *)
(* channel.                                                                  *)

\* A connection that does not wait, and will not, is nobody's waiter.
LEMMA SameWaiters ==
    ASSUME TInv, NEW c \in Conns, NEW pc, NEW t, Go(c, pc, t),
           conn[c] # "playWait", pc # "playWait"
    PROVE  \A u \in Sessions : Waiter(u)' = Waiter(u)
<1>1. /\ conn'[c] = pc
      /\ \A d \in Conns \ {c} : conn'[d] = conn[d] /\ target'[d] = target[d]
      BY DEF Go, TInv, Shapes
<1> QED
    BY <1>1 DEF Waiter

LEMMA ChannelsStay ==
    ASSUME TInv, \A u \in Sessions : Waiter(u)' = Waiter(u),
           UNCHANGED <<need, control, answer>>
    PROVE  Channels'
BY DEF TInv, Channels, Channel

\* The channels of one session are enough to look at.
LEMMA OneChannel ==
    ASSUME TInv, NEW s \in Sessions, Channel(s)',
           \A u \in Sessions \ {s} :
               /\ Waiter(u)' = Waiter(u) /\ need'[u] = need[u]
               /\ control'[u] = control[u] /\ answer'[u] = answer[u]
    PROVE  Channels'
BY DEF TInv, Channels, Channel

LEMMA SetupStartTyped ==
    ASSUME TInv, NEW c \in Conns, NEW s \in Sessions, NEW i \in Ids, SetupStart(c, s, i)
    PROVE  TInv'
<1> USE ValueAssumption DEF SetupStart
<1>1. /\ conn' = [conn EXCEPT ![c] = "inserting"] /\ target' = [target EXCEPT ![c] = s]
      BY DEF Go
<1>2. Shapes'
      BY <1>1 DEF TInv, Shapes, Handling, Live, mapVars
<1>3. Known'
      BY <1>1 DEF TInv, Shapes, Known, Handling, Live, mapVars
<1>4. Locking'
      BY <1>1 DEF TInv, Shapes, Locking
<1>5. Channels'
      BY SameWaiters, ChannelsStay
<1>6. Counted'
  <2>1. Over' = Over
        BY DEF Over, TInv, Shapes
  <2> QED
      BY <2>1, CountStays
<1> QED
    BY <1>2, <1>3, <1>4, <1>5, <1>6 DEF TInv

LEMMA SetupInsertTyped ==
    ASSUME TInv, NEW c \in Conns, SetupInsert(c)
    PROVE  TInv'
<1> USE ValueAssumption DEF SetupInsert, Idle, sessionVars
<1> DEFINE s == target[c]
<1>1. /\ conn' = [conn EXCEPT ![c] = "idle"] /\ target' = [target EXCEPT ![c] = NoSession]
      BY DEF Go
<1>2. s \in Sessions /\ worker[s] # "new" /\ id[s] \in Ids
      BY DEF TInv, Known, Handling
<1>3. /\ map' = map \/ map' = [map EXCEPT ![id[s]] = s]
      /\ accepted' \subseteq Sessions
      BY <1>2 DEF TInv, Shapes
<1> HIDE DEF s
<1>4. Shapes'
      BY <1>1, <1>2, <1>3 DEF TInv, Shapes
<1>5. Known'
      BY <1>1, <1>2, <1>3 DEF TInv, Shapes, Known, Handling
<1>6. Locking'
      BY <1>1 DEF TInv, Shapes, Locking
<1>7. Channels'
      BY SameWaiters, ChannelsStay
<1>8. Counted'
      BY CountStays DEF Over
<1> QED
    BY <1>4, <1>5, <1>6, <1>7, <1>8 DEF TInv

\* A request that reads the map, or a connection that goes.
LEMMA LookupTyped ==
    ASSUME TInv, NEW c \in Conns,
           (\E i \in Ids : PlayLookup(c, i) \/ TearLookup(c, i)) \/ Disconnect(c)
    PROVE  TInv'
<1>1. PICK pc \in {"playLock", "tearLock", "gone"}, t \in Sessions \cup {NoSession} :
         /\ conn[c] = "idle" /\ Go(c, pc, t)
         /\ pc # "gone" => t \in Sessions /\ worker[t] # "new"
         /\ UNCHANGED <<mapVars, sessionVars, stateQ, app>>
  <2> USE DEF TInv, Shapes, Known
  <2>1. CASE \E i \in Ids : PlayLookup(c, i)
        BY <2>1 DEF PlayLookup
  <2>2. CASE \E i \in Ids : TearLookup(c, i)
        BY <2>2 DEF TearLookup
  <2>3. CASE Disconnect(c)
        BY <2>3 DEF Disconnect
  <2> QED
      BY <2>1, <2>2, <2>3
<1> USE DEF sessionVars, mapVars
<1>2. Shapes'
      BY <1>1 DEF TInv, Shapes, Handling, Go
<1>3. Known'
      BY <1>1 DEF TInv, Shapes, Known, Handling, Go
<1>4. Locking'
      BY <1>1 DEF TInv, Shapes, Locking, Go
<1>5. Channels'
      BY <1>1, SameWaiters, ChannelsStay
<1>6. Counted'
      BY <1>1, CountStays DEF Over
<1> QED
    BY <1>2, <1>3, <1>4, <1>5, <1>6 DEF TInv

\* A channel of one message, and one more.
LEMMA AppendToOne ==
    ASSUME NEW x, NEW y
    PROVE  Append(<<x>>, y) = <<x, y>>
<1> DEFINE a == Append(<<x>>, y)
           b == <<x, y>>
<1>1. a \in Seq({x, y}) /\ Len(a) = 2
      OBVIOUS
<1>2. a[1] = x /\ a[2] = y
      OBVIOUS
<1>3. b \in Seq({x, y}) /\ Len(b) = 2
      OBVIOUS
<1>4. b[1] = x /\ b[2] = y
      OBVIOUS
<1> HIDE DEF a, b
<1>5. \A i \in 1 .. Len(a) : a[i] = b[i]
      BY <1>1, <1>2, <1>4
<1>6. a = b
      BY <1>1, <1>3, <1>5, SeqEqual
<1> QED
    BY <1>6 DEF a, b

\* Nobody else waits in a session whose mutex was free, or this connection's.
LEMMA SoleHolder ==
    ASSUME TInv, NEW c \in Conns, conn[c] \in Handling,
           lock[target[c]] \in {c, NoConn}
    PROVE  /\ target[c] \in Sessions /\ worker[target[c]] # "new"
           /\ \A d \in Conns \ {c} : conn[d] \in {"playWait", "tearWait"} =>
                  target[d] \in Sessions /\ target[d] # target[c]
BY ValueAssumption DEF TInv, Known, Locking, Handling

LEMMA PlayStartTyped ==
    ASSUME TInv, NEW c \in Conns, PlayStart(c)
    PROVE  TInv'
<1>1. PICK s \in Sessions :
      /\ s = target[c] /\ worker[s] # "new" /\ lock[s] = NoConn /\ conn[c] = "playLock"
      /\ \A d \in Conns \ {c} : conn[d] \in {"playWait", "tearWait"} =>
            target[d] \in Sessions /\ target[d] # s
      BY SoleHolder DEF PlayStart, Handling
<1>2. /\ UNCHANGED <<map, accepted, id, owner, worker, need, stop, stateQ, app>>
      /\ \/ Idle(c) /\ UNCHANGED <<lock, control, answer>>
         \/ /\ lock' = [lock EXCEPT ![s] = c]
            /\ control' = [control EXCEPT ![s] = Append(@, "StreamState")]
            /\ answer' = [answer EXCEPT ![s] = FALSE]
            /\ Go(c, "playWait", s)
      BY <1>1 DEF PlayStart, mapVars
<1>3. Counted'
      BY <1>2, CountStays DEF Over
<1>4. CASE Idle(c) /\ UNCHANGED <<lock, control, answer>>
  <2>1. Shapes' /\ Known' /\ Locking'
        BY <1>1, <1>2, <1>4 DEF TInv, Shapes, Known, Locking, Handling, Idle, Go
  <2>2. Channels'
        BY <1>1, <1>2, <1>4, SameWaiters, ChannelsStay DEF Idle
  <2> QED
      BY <1>3, <2>1, <2>2 DEF TInv
<1>5. CASE /\ lock' = [lock EXCEPT ![s] = c]
           /\ control' = [control EXCEPT ![s] = Append(@, "StreamState")]
           /\ answer' = [answer EXCEPT ![s] = FALSE]
           /\ Go(c, "playWait", s)
  <2>1. /\ conn' = [conn EXCEPT ![c] = "playWait"] /\ target' = [target EXCEPT ![c] = s]
        BY <1>5 DEF Go
  <2>2. Shapes'
        BY <1>1, <1>2, <1>5, <2>1 DEF TInv, Shapes, Handling
  <2>3. Known'
        BY <1>1, <1>2, <2>1 DEF TInv, Shapes, Known, Handling
  <2>4. Locking'
        BY <1>1, <1>5, <2>1 DEF TInv, Shapes, Locking
  <2>5. Channels'
    <3>1. ~Waiter(s)
          BY <1>1 DEF Waiter
    <3>2. Waiter(s)' /\ \A u \in Sessions \ {s} : Waiter(u)' = Waiter(u)
      <4>1. /\ conn'[c] = "playWait" /\ target'[c] = s /\ conn[c] # "playWait"
            /\ \A d \in Conns \ {c} : conn'[d] = conn[d] /\ target'[d] = target[d]
            BY <1>1, <2>1 DEF TInv, Shapes
      <4> QED
          BY <4>1 DEF Waiter
    <3>3. /\ ~need'[s] /\ ~answer'[s]
          /\ control'[s] \in {<<"StreamState">>, <<"Play", "StreamState">>}
      <4>1. ~need[s] /\ control[s] \in {<<>>, <<"Play">>}
            BY <1>1, <3>1 DEF TInv, Channels, Channel
      <4>2. control'[s] = Append(control[s], "StreamState") /\ answer'[s] = FALSE
            BY <1>1, <1>5 DEF TInv, Shapes
      <4>3. CASE control[s] = <<>>
        <5>1. Append(<<>>, "StreamState") = <<"StreamState">>
              OBVIOUS
        <5>2. control'[s] = <<"StreamState">>
              BY <4>2, <4>3, <5>1, Zenon
        <5> QED
            BY <1>2, <4>1, <4>2, <5>2
      <4>4. CASE control[s] = <<"Play">>
        <5>1. Append(<<"Play">>, "StreamState") = <<"Play", "StreamState">>
              BY AppendToOne
        <5>2. control'[s] = <<"Play", "StreamState">>
              BY <4>2, <4>4, <5>1, Zenon
        <5> QED
            BY <1>2, <4>1, <4>2, <5>2
      <4> QED
          BY <4>1, <4>3, <4>4
    <3>4. \A u \in Sessions \ {s} : control'[u] = control[u] /\ answer'[u] = answer[u]
          BY <1>5 DEF TInv, Shapes
    <3>5. Channel(s)'
          BY <3>2, <3>3 DEF Channel
    <3> QED
        BY <1>1, <1>2, <3>2, <3>4, <3>5, OneChannel
  <2> QED
      BY <1>3, <2>2, <2>3, <2>4, <2>5 DEF TInv
<1> QED
    BY <1>2, <1>4, <1>5

LEMMA PlayFinishTyped ==
    ASSUME TInv, NEW c \in Conns, PlayFinish(c)
    PROVE  TInv'
<1>1. PICK s \in Sessions :
      /\ s = target[c] /\ worker[s] # "new" /\ conn[c] = "playWait"
      /\ \A d \in Conns \ {c} : conn[d] \in {"playWait", "tearWait"} =>
            target[d] \in Sessions /\ target[d] # s
      BY SoleHolder DEF PlayFinish, Handling, TInv, Locking
<1>2. /\ UNCHANGED <<map, accepted, id, owner, worker, need, answer, stop, stateQ, app>>
      /\ answer[s] /\ lock' = [lock EXCEPT ![s] = NoConn]
      /\ control' = [control EXCEPT ![s] = Append(@, "Play")] \/ control' = control
      /\ conn' = [conn EXCEPT ![c] = "idle"] /\ target' = [target EXCEPT ![c] = NoSession]
      BY <1>1 DEF PlayFinish, Idle, Go, mapVars
<1>3. Shapes'
  <2>1. control' \in [Sessions -> Seq({"StreamState", "Play"})]
    <3>1. Append(control[s], "Play") \in Seq({"StreamState", "Play"})
          BY DEF TInv, Shapes
    <3> QED
        BY <1>2, <3>1 DEF TInv, Shapes
  <2> QED
      BY <1>1, <1>2, <2>1 DEF TInv, Shapes
<1>4. Known' /\ Locking'
      BY <1>1, <1>2 DEF TInv, Shapes, Known, Locking, Handling
<1>5. Channels'
  <2>1. ~Waiter(s)' /\ \A u \in Sessions \ {s} : Waiter(u)' = Waiter(u)
    <3>1. /\ conn'[c] = "idle" /\ conn[c] = "playWait" /\ target[c] = s
          /\ \A d \in Conns \ {c} : conn'[d] = conn[d] /\ target'[d] = target[d]
          BY <1>1, <1>2 DEF TInv, Shapes
    <3> QED
        BY <1>1, <3>1 DEF Waiter
  <2>2. control[s] = <<>> /\ ~need[s]
    <3>1. Waiter(s)
          BY <1>1 DEF Waiter
    <3> QED
        BY <1>1, <1>2, <3>1 DEF TInv, Channels, Channel
  <2>3. control'[s] \in {<<>>, <<"Play">>}
    <3>1. Append(<<>>, "Play") = <<"Play">>
          OBVIOUS
    <3>2. control'[s] = control[s] \/ control'[s] = Append(control[s], "Play")
          BY <1>1, <1>2 DEF TInv, Shapes
    <3> QED
        BY <2>2, <3>1, <3>2, Zenon
  <2>4. \A u \in Sessions \ {s} : control'[u] = control[u]
        BY <1>2 DEF TInv, Shapes
  <2>5. Channel(s)'
        BY <1>2, <2>1, <2>2, <2>3 DEF Channel
  <2> QED
      BY <1>1, <1>2, <2>1, <2>4, <2>5, OneChannel
<1>6. Counted'
      BY <1>2, CountStays DEF Over
<1> QED
    BY <1>3, <1>4, <1>5, <1>6 DEF TInv

LEMMA TearTyped ==
    ASSUME TInv, NEW c \in Conns, TearStart(c) \/ TearFinish(c)
    PROVE  TInv'
<1>1. PICK s \in Sessions :
      /\ s = target[c] /\ worker[s] # "new" /\ conn[c] \in {"tearLock", "tearWait"}
      /\ \A d \in Conns \ {c} : conn[d] \in {"playWait", "tearWait"} =>
            target[d] \in Sessions /\ target[d] # s
      BY SoleHolder DEF TearStart, TearFinish, Handling, TInv, Locking
<1>2. /\ UNCHANGED <<map, accepted, id, owner, worker, need, control, answer, stateQ, app>>
      /\ stop' = stop \/ stop' = [stop EXCEPT ![s] = TRUE]
      /\ \/ Go(c, "tearWait", s) /\ lock' = [lock EXCEPT ![s] = c]
         \/ Go(c, "idle", NoSession) /\ lock' = [lock EXCEPT ![s] = NoConn]
      BY <1>1 DEF TearStart, TearFinish, Idle, mapVars
<1>3. Shapes'
  <2>1. stop' \in [Sessions -> BOOLEAN]
        BY <1>2 DEF TInv, Shapes
  <2>3. lock' \in [Sessions -> Conns \cup {NoConn}]
    <3>1. lock' = [lock EXCEPT ![s] = c] \/ lock' = [lock EXCEPT ![s] = NoConn]
          BY <1>2
    <3> QED
        BY <3>1 DEF TInv, Shapes
  <2>2. /\ conn' \in [Conns -> {"idle", "gone"} \cup Handling]
        /\ target' \in [Conns -> Sessions \cup {NoSession}]
        BY <1>1, <1>2 DEF TInv, Shapes, Handling, Go
  <2> QED
      BY <1>2, <2>1, <2>2, <2>3 DEF TInv, Shapes
<1>4. Known'
      BY <1>1, <1>2 DEF TInv, Shapes, Known, Handling, Go
<1>5. Locking'
  <2>1. CASE Go(c, "tearWait", s) /\ lock' = [lock EXCEPT ![s] = c]
        BY <1>1, <2>1 DEF TInv, Shapes, Locking, Go
  <2>2. CASE Go(c, "idle", NoSession) /\ lock' = [lock EXCEPT ![s] = NoConn]
        BY <1>1, <2>2 DEF TInv, Shapes, Locking, Go
  <2> QED
      BY <1>2, <2>1, <2>2
<1>6. Channels'
      BY <1>1, <1>2, SameWaiters, ChannelsStay
<1>7. Counted'
      BY <1>2, CountStays DEF Over
<1> QED
    BY <1>3, <1>4, <1>5, <1>6, <1>7 DEF TInv

-----------------------------------------------------------------------------
(* Workers, the manager and the shutdown.                                    *)

\* What has started stays known, and waits where it did.
LEMMA WorkerKnown ==
    ASSUME TInv, NEW s \in Sessions, worker[s] # "new",
           NEW w \in {"playing", "left", "done"},
           worker' = worker \/ worker' = [worker EXCEPT ![s] = w],
           UNCHANGED <<connVars, mapVars, id, lock>>
    PROVE  Known' /\ Locking' /\ (\A u \in Sessions : Waiter(u)' = Waiter(u))
<1> USE DEF connVars, mapVars
<1>1. \A u \in Sessions : worker'[u] = "new" <=> worker[u] = "new"
      BY DEF TInv, Shapes
<1>2. Known'
      BY <1>1 DEF TInv, Shapes, Known
<1> QED
    BY <1>2 DEF TInv, Locking, Waiter

LEMMA MuxTyped ==
    ASSUME TInv, NEW s \in Sessions, Frame(s) \/ MuxFail(s)
    PROVE  TInv'
<1>1. /\ UNCHANGED <<connVars, mapVars, id, owner, control, lock, stop, stateQ, app>>
      /\ worker[s] \in Live /\ Answer(s)
      /\ worker' = worker \/ worker' = [worker EXCEPT ![s] = "left"]
      BY DEF Frame, MuxFail
<1>2. Known' /\ Locking' /\ \A u \in Sessions : Waiter(u)' = Waiter(u)
      BY <1>1, WorkerKnown DEF Live
<1>3. Shapes'
  <2>1. worker' \in [Sessions -> {"new", "left", "done"} \cup Live]
        BY <1>1 DEF TInv, Shapes
  <2>2. need' \in [Sessions -> BOOLEAN] /\ answer' \in [Sessions -> BOOLEAN]
        BY <1>1 DEF TInv, Shapes, Answer
  <2> QED
      BY <1>1, <2>1, <2>2 DEF TInv, Shapes, connVars, mapVars
<1>4. Channels'
  <2>1. /\ need'[s] = FALSE /\ answer'[s] = (answer[s] \/ (need[s] /\ Waiter(s)))
        /\ \A u \in Sessions \ {s} : need'[u] = need[u] /\ answer'[u] = answer[u]
        BY <1>1 DEF TInv, Shapes, Answer
  <2>2. Channel(s)'
        BY <1>1, <1>2, <2>1 DEF TInv, Shapes, Channels, Channel
  <2> QED
      BY <1>1, <1>2, <2>1, <2>2, OneChannel
<1>5. Counted'
  <2>1. Over' = Over
        BY <1>1 DEF Over, TInv, Shapes, Live
  <2> QED
      BY <1>1, <2>1, CountStays
<1> QED
    BY <1>2, <1>3, <1>4, <1>5 DEF TInv

LEMMA ControlTyped ==
    ASSUME TInv, NEW s \in Sessions, ControlMessage(s)
    PROVE  TInv'
<1>1. /\ UNCHANGED <<connVars, mapVars, id, owner, answer, lock, stop, stateQ, app>>
      /\ worker[s] \in Live /\ control[s] # <<>>
      /\ control' = [control EXCEPT ![s] = Tail(@)]
      /\ worker' = worker \/ worker' = [worker EXCEPT ![s] = "playing"]
      BY DEF ControlMessage
<1>2. need' = IF Head(control[s]) = "Play" THEN need ELSE [need EXCEPT ![s] = TRUE]
      BY DEF ControlMessage
<1>3. Known' /\ Locking' /\ \A u \in Sessions : Waiter(u)' = Waiter(u)
      BY <1>1, WorkerKnown DEF Live
<1>4. Shapes'
  <2>1. worker' \in [Sessions -> {"new", "left", "done"} \cup Live]
        BY <1>1 DEF TInv, Shapes, Live
  <2>2. need' \in [Sessions -> BOOLEAN]
        BY <1>2 DEF TInv, Shapes
  <2>3. control' \in [Sessions -> Seq({"StreamState", "Play"})]
        BY <1>1 DEF TInv, Shapes
  <2> QED
      BY <1>1, <2>1, <2>2, <2>3 DEF TInv, Shapes, connVars, mapVars
<1>5. Channels'
  <2>1. /\ control'[s] = Tail(control[s])
        /\ \A u \in Sessions \ {s} : control'[u] = control[u] /\ need'[u] = need[u]
        BY <1>1, <1>2 DEF TInv, Shapes
  <2>2. /\ Head(control[s]) = "Play" => need'[s] = need[s]
        /\ Head(control[s]) # "Play" => need'[s] = TRUE
        BY <1>2 DEF TInv, Shapes
  <2>3. \/ ~Waiter(s) /\ ~need'[s] /\ control'[s] = <<>>
        \/ /\ Waiter(s) /\ ~answer[s]
           /\ \/ ~need'[s] /\ control'[s] = <<"StreamState">>
              \/ need'[s] = TRUE /\ control'[s] = <<>>
    <3>1. CASE control[s] = <<"Play">>
      <4>1. ~Waiter(s) /\ ~need[s]
        <5>1. /\ <<"Play">> # <<>> /\ <<"Play">> # <<"StreamState">>
              /\ <<"Play">> # <<"Play", "StreamState">>
              OBVIOUS
        <5>2. Channel(s)
              BY DEF TInv, Channels
        <5> QED
            BY <3>1, <5>1, <5>2 DEF Channel
      <4>2. Head(<<"Play">>) = "Play" /\ Tail(<<"Play">>) = <<>>
            OBVIOUS
      <4> QED
          BY <2>1, <2>2, <3>1, <4>1, <4>2
    <3>2. CASE control[s] = <<"StreamState">>
          BY <2>1, <2>2, <3>2 DEF TInv, Channels, Channel
    <3>3. CASE control[s] = <<"Play", "StreamState">>
          BY <2>1, <2>2, <3>3 DEF TInv, Channels, Channel
    <3> QED
        BY <1>1, <3>1, <3>2, <3>3 DEF TInv, Channels, Channel
  <2>4. Channel(s)'
        BY <1>1, <1>3, <2>3 DEF Channel
  <2> QED
      BY <1>1, <1>3, <2>1, <2>4, OneChannel
<1>6. Counted'
  <2>1. Over' = Over
        BY <1>1 DEF Over, TInv, Shapes, Live
  <2> QED
      BY <1>1, <2>1, CountStays
<1> QED
    BY <1>3, <1>4, <1>5, <1>6 DEF TInv

\* A worker that leaves its loop, or reports, leaves its channels as they are.
LEMMA LeaveTyped ==
    ASSUME TInv, NEW s \in Sessions, SeeStop(s) \/ Notify(s)
    PROVE  TInv'
<1>1. /\ UNCHANGED <<connVars, mapVars, id, owner, need, control, answer, lock, stop, app>>
      /\ worker[s] # "new"
      /\ \E w \in {"left", "done"} : worker' = [worker EXCEPT ![s] = w]
      BY DEF SeeStop, Notify, Live
<1>2. Known' /\ Locking' /\ \A u \in Sessions : Waiter(u)' = Waiter(u)
      BY <1>1, WorkerKnown
<1>3. Channels'
      BY <1>1, <1>2, ChannelsStay
<1>4. Shapes'
  <2>1. stateQ' \in Seq(Ids)
    <3>1. id[s] \in Ids
          BY <1>1 DEF TInv, Known
    <3>2. stateQ' = stateQ \/ stateQ' = Append(stateQ, id[s])
          BY DEF SeeStop, Notify
    <3>3. stateQ \in Seq(Ids)
          BY DEF TInv, Shapes
    <3> QED
        BY <3>1, <3>2, <3>3
  <2> QED
      BY <1>1, <2>1 DEF TInv, Shapes, connVars, mapVars
<1>5. Counted'
  <2>1. CASE SeeStop(s)
    <3>1. Over' = Over /\ UNCHANGED stateQ
          BY <2>1 DEF SeeStop, Over, TInv, Shapes, Live
    <3> QED
        BY <3>1, CountStays
  <2> QED
      BY <2>1, NotifyCounts
<1> QED
    BY <1>2, <1>3, <1>4, <1>5 DEF TInv

\* The map loses entries; the queue is emptied.
LEMMA ManagerTyped ==
    ASSUME TInv,
           \/ Remove \/ StopServer \/ ServerStopped \/ StopManager \/ Drained
           \/ RuntimeStopped \/ \E s \in Sessions : DrainStop(s)
    PROVE  TInv'
<1> USE ValueAssumption DEF connVars, mapVars, sessionVars, Phase
<1>1. /\ UNCHANGED <<conn, target, accepted, id, owner, worker>>
      /\ UNCHANGED <<need, control, answer, lock>>
      /\ \A i \in Ids : map'[i] \in {map[i], NoSession}
      /\ Shapes'
  <2> USE DEF TInv, Shapes
  <2>1. CASE Remove
        BY <2>1, TailKeeps DEF Remove
  <2>2. CASE Drained
        BY <2>2 DEF Drained, AppPhases
  <2>3. CASE StopServer \/ ServerStopped \/ StopManager \/ RuntimeStopped
    <3>1. CASE StopManager
      <4>1. stateQ' \in Seq(Ids)
            BY <3>1 DEF StopManager
      <4> QED
          BY <3>1, <4>1 DEF StopManager, AppPhases
    <3> QED
        BY <2>3, <3>1 DEF StopServer, ServerStopped, RuntimeStopped, AppPhases
  <2>4. CASE \E s \in Sessions : DrainStop(s)
        BY <2>4 DEF DrainStop
  <2> QED
      BY <2>1, <2>2, <2>3, <2>4
<1>2. Known' /\ Locking'
      BY <1>1 DEF TInv, Known, Locking
<1>3. Channels'
      BY <1>1, ChannelsStay DEF Waiter
<1>4. Counted'
  <2>1. CASE Remove
        BY <2>1, RemoveCounts
  <2>2. CASE ~Remove
    <3>1. stateQ' = stateQ \/ stateQ' = <<>>
          BY <2>2 DEF StopServer, ServerStopped, StopManager, Drained,
             RuntimeStopped, DrainStop
    <3> QED
        BY <1>1, <3>1, CountStays DEF Over
  <2> QED
      BY <2>1, <2>2
<1> QED
    BY <1>1, <1>2, <1>3, <1>4 DEF TInv

LEMMA TypesKeep ==
    ASSUME TInv, [Next]_vars
    PROVE  TInv'
<1>1. CASE UNCHANGED vars
      BY <1>1 DEF vars, connVars, mapVars, sessionVars, TInv, Shapes, Known, Locking,
         Channels, Channel, Waiter, Counted, Over
<1>2. ASSUME NEW c \in Conns, Request(c) \/ Handle(c) \/ Disconnect(c) PROVE TInv'
      BY <1>2, SetupStartTyped, SetupInsertTyped, LookupTyped, PlayStartTyped,
         PlayFinishTyped, TearTyped DEF Request, Handle
<1>3. ASSUME NEW s \in Sessions, WorkerStep(s) PROVE TInv'
      BY <1>3, MuxTyped, ControlTyped, LeaveTyped DEF WorkerStep
<1>4. CASE Remove \/ StopServer \/ StopStep
  <2>1. ASSUME NEW c \in Conns, CloseConnection(c) PROVE TInv'
        BY <2>1, LookupTyped DEF CloseConnection
  <2> QED
      BY <1>4, <2>1, ManagerTyped DEF StopStep
<1> QED
    BY <1>1, <1>2, <1>3, <1>4 DEF Next

(* session/mod.rs:105-131, session_manager.rs:122-149: every variable stays in its  *)
(* set, colliding ids or not. No control channel holds more than the Play of the    *)
(* last PLAY and the question of the next, and the manager's channel one report per *)
(* session: the unbounded channels are bounded.                                     *)
THEOREM SessionManagerTypes ==
    ASSUME IsFiniteSet(Sessions)
    PROVE  Spec => []TypeOK
<1>1. TInv => TypeOK
  <2> SUFFICES ASSUME TInv PROVE TypeOK
      OBVIOUS
  <2>1. Len(stateQ) <= Cardinality(Sessions)
    <3>1. /\ Cardinality(Over) <= Cardinality(Sessions)
          /\ Cardinality(Over) \in Nat /\ Cardinality(Sessions) \in Nat
          BY FS_Subset, FS_CardinalityType DEF Over
    <3>2. Len(stateQ) \in Nat /\ Len(stateQ) <= Cardinality(Over)
          BY DEF TInv, Counted, Shapes
    <3> QED
        BY <3>1, <3>2
  <2>2. ASSUME NEW s \in Sessions PROVE Len(control[s]) <= 2
    <3>1. control[s] \in {<<>>, <<"Play">>, <<"StreamState">>, <<"Play", "StreamState">>}
          BY DEF TInv, Channels, Channel
    <3>2. /\ Len(<<>>) <= 2 /\ Len(<<"Play">>) <= 2 /\ Len(<<"StreamState">>) <= 2
          /\ Len(<<"Play", "StreamState">>) <= 2
          OBVIOUS
    <3> QED
        BY <3>1, <3>2, Zenon
  <2>3. \A s \in Sessions : control[s] \in Seq({"StreamState", "Play"})
        BY DEF TInv, Shapes
  <2> QED
      BY <2>1, <2>2, <2>3 DEF TInv, Shapes, TypeOK
<1> QED
    BY <1>1, TypesBegin, TypesKeep, PTL DEF Spec

-----------------------------------------------------------------------------
\* The stream state that a PLAY waits for is not lost: the question is in the
\* worker's channel, or the worker owes it with its next frame, or it is there.
\* Only a worker that ends before can leave the PLAY without it.
OwedOrThere == \A c \in Conns : conn[c] = "playWait" =>
    LET s == target[c]
    IN \/ \E k \in DOMAIN control[s] : control[s][k] = "StreamState"
       \/ need[s] \/ answer[s]

\* session_manager.rs:94-96: two PLAYs never wait for the same session's worker,
\* which broadcasts its answer to whoever waits.
OneWaits == \A c, d \in Conns :
    conn[c] = "playWait" /\ conn[d] = "playWait" /\ target[c] = target[d] => c = d

(* session/mod.rs:105-123, 254-264: each PLAY in a session gets the stream     *)
(* state it asked for, and no other, as far as the worker's life goes.         *)
THEOREM PlayHasItsOwnAnswer == Spec => [](OwedOrThere /\ OneWaits)
<1>1. TInv => OwedOrThere /\ OneWaits
  <2> SUFFICES ASSUME TInv PROVE OwedOrThere /\ OneWaits
      OBVIOUS
  <2>1. OneWaits
        BY DEF TInv, Locking, OneWaits
  <2>2. ASSUME NEW c \in Conns, conn[c] = "playWait", ~need[target[c]], ~answer[target[c]]
        PROVE  \E k \in DOMAIN control[target[c]] : control[target[c]][k] = "StreamState"
    <3>1. PICK s \in Sessions : s = target[c]
          BY <2>2 DEF TInv, Known, Handling
    <3>2. control[s] \in {<<"StreamState">>, <<"Play", "StreamState">>}
      <4>1. Waiter(s)
            BY <2>2, <3>1 DEF Waiter
      <4>2. need[s] = FALSE /\ answer[s] = FALSE
            BY <2>2, <3>1 DEF TInv, Shapes
      <4>3. Channel(s)
            BY DEF TInv, Channels
      <4> QED
          BY <4>1, <4>2, <4>3 DEF Channel
    <3>3. \A q \in {<<"StreamState">>, <<"Play", "StreamState">>} :
             \E k \in DOMAIN q : q[k] = "StreamState"
      <4>1. 1 \in DOMAIN <<"StreamState">> /\ <<"StreamState">>[1] = "StreamState"
            OBVIOUS
      <4>2. /\ 2 \in DOMAIN <<"Play", "StreamState">>
            /\ <<"Play", "StreamState">>[2] = "StreamState"
            OBVIOUS
      <4> QED
          BY <4>1, <4>2
    <3> QED
        BY <3>1, <3>2, <3>3
  <2> QED
      BY <2>1, <2>2 DEF OwedOrThere
<1> QED
    BY <1>1, TypesBegin, TypesKeep, PTL DEF Spec

-----------------------------------------------------------------------------
(* A PLAY without an answer.                                                 *)

(* session/mod.rs:111: what AnsweredOrHung and ShutdownCompletes allow for is  *)
(* no delay: a PLAY that hangs once hangs for ever, whatever the other         *)
(* connections, the worker and App::stop do.                                   *)
THEOREM HangsForGood == Spec => [][\A s \in Sessions : Hangs(s) => Hangs(s)']_vars
<1>1. ASSUME TInv, [Next]_vars PROVE [\A s \in Sessions : Hangs(s) => Hangs(s)']_vars
  <2> SUFFICES ASSUME Next, NEW s \in Sessions, Hangs(s)
               PROVE  Hangs(s)'
      BY <1>1
  <2>1. PICK c \in Conns : /\ conn[c] = "playWait" /\ target[c] = s
                           /\ worker[s] \in {"left", "done"} /\ ~answer[s]
        BY DEF Hangs
  <2>2. lock[s] = c /\ worker[s] \notin Live \cup {"new"} /\ c # NoConn
        BY <1>1, <2>1, ValueAssumption DEF TInv, Locking, Live
  <2> SUFFICES /\ conn'[c] = "playWait" /\ target'[c] = s
               /\ worker'[s] \in {"left", "done"} /\ ~answer'[s]
      BY DEF Hangs
  <2> USE <1>1, <2>1, <2>2 DEF TInv, Shapes, Go, Idle, connVars, mapVars, sessionVars
  <2>3. ASSUME NEW d \in Conns, Request(d) \/ Handle(d) \/ Disconnect(d)
        PROVE  /\ conn'[c] = "playWait" /\ target'[c] = s
               /\ worker'[s] \in {"left", "done"} /\ ~answer'[s]
    <3>1. CASE Request(d)
          BY <3>1 DEF Request, SetupStart, PlayLookup, TearLookup
    <3>2. CASE SetupInsert(d) \/ Disconnect(d)
          BY <3>2 DEF SetupInsert, Disconnect
    <3>3. CASE PlayStart(d)
      <4>1. d # c /\ (worker[target[d]] \in Live => target[d] # s)
            BY <3>3 DEF PlayStart
      <4> QED
          BY <3>3, <4>1 DEF PlayStart
    <3>4. CASE PlayFinish(d)
          BY <3>4 DEF PlayFinish
    <3>5. CASE TearStart(d) \/ TearFinish(d)
          BY <3>5 DEF TearStart, TearFinish
    <3> QED
        BY <2>3, <3>1, <3>2, <3>3, <3>4, <3>5 DEF Handle
  <2>4. ASSUME NEW u \in Sessions, WorkerStep(u)
        PROVE  /\ conn'[c] = "playWait" /\ target'[c] = s
               /\ worker'[s] \in {"left", "done"} /\ ~answer'[s]
    <3>1. CASE Frame(u) \/ MuxFail(u)
          BY <3>1 DEF Frame, MuxFail, Answer
    <3>2. CASE ControlMessage(u)
          BY <3>2 DEF ControlMessage
    <3>3. CASE SeeStop(u) \/ Notify(u)
          BY <3>3 DEF SeeStop, Notify
    <3> QED
        BY <2>4, <3>1, <3>2, <3>3 DEF WorkerStep
  <2>5. CASE Remove \/ StopServer \/ StopStep
    <3>1. CASE Remove \/ StopServer \/ ServerStopped \/ StopManager \/ Drained
               \/ RuntimeStopped
          BY <3>1 DEF Remove, StopServer, ServerStopped, StopManager, Drained,
             RuntimeStopped
    <3>2. ASSUME NEW d \in Conns, CloseConnection(d)
          PROVE  /\ conn'[c] = "playWait" /\ target'[c] = s
                 /\ worker'[s] \in {"left", "done"} /\ ~answer'[s]
          BY <3>2 DEF CloseConnection, Disconnect
    <3>3. ASSUME NEW u \in Sessions, DrainStop(u)
          PROVE  /\ conn'[c] = "playWait" /\ target'[c] = s
                 /\ worker'[s] \in {"left", "done"} /\ ~answer'[s]
          BY <3>3 DEF DrainStop
    <3> QED
        BY <2>5, <3>1, <3>2, <3>3 DEF StopStep
  <2> QED
      BY <2>3, <2>4, <2>5 DEF Next
<1> QED
    BY <1>1, TypesBegin, TypesKeep, PTL DEF Spec

-----------------------------------------------------------------------------
\* A connection plays what it has set up.
OwnPlays == \A c \in Conns :
    conn[c] \in {"playLock", "playWait"} => owner[target[c]] = c

\* Who has stopped a worker that is not over holds its session's mutex, or is
\* App::stop behind the last connection.
StopIsHeld == \A s \in Sessions : stop[s] /\ worker[s] \notin {"left", "done"} =>
    \/ \E c \in Conns : conn[c] = "tearWait" /\ target[c] = s
    \/ app \in {"draining", "runtime", "down"}

PlaysTheLive == \A c \in Conns : conn[c] = "playWait" => worker[target[c]] \in Live

ClosedInOrder == app \notin {"up", "server"} => \A c \in Conns : conn[c] = "gone"

PInv == OwnPlays /\ StopIsHeld /\ PlaysTheLive /\ ClosedInOrder

\* The worker of a session whose owner waits in a PLAY does not leave its loop.
LEMMA OwnWorkerStays ==
    ASSUME TInv, PInv, NEW c \in Conns, conn[c] = "playWait",
           NEW s \in Sessions, s = target[c]
    PROVE  conn[owner[s]] # "gone" /\ ~StopSeen(s)
<1>1. lock[s] = c /\ owner[s] = c /\ app \in {"up", "server"}
      BY DEF TInv, Locking, PInv, OwnPlays, ClosedInOrder, Shapes
<1>2. ~stop[s]
      BY <1>1 DEF TInv, Locking, PInv, StopIsHeld, PlaysTheLive, Live
<1> QED
    BY <1>1, <1>2 DEF StopSeen, Held

\* A connection goes on to another request, or to its end.
LEMMA OneMoves ==
    ASSUME Shapes, PInv, NEW d \in Conns, conn[d] \notin {"gone", "tearWait"},
           UNCHANGED <<owner, stop, worker, app>>,
           \A c \in Conns \ {d} : conn'[c] = conn[c] /\ target'[c] = target[c],
           conn'[d] \in {"playLock", "playWait"} => owner[target'[d]] = d,
           conn'[d] = "playWait" => worker[target'[d]] \in Live
    PROVE  PInv'
<1>1. OwnPlays' /\ PlaysTheLive'
      BY DEF PInv, OwnPlays, PlaysTheLive
<1>2. StopIsHeld'
      BY DEF PInv, StopIsHeld
<1>3. ClosedInOrder'
      BY DEF PInv, ClosedInOrder
<1> QED
    BY <1>1, <1>2, <1>3 DEF PInv

LEMMA PlaysKeep ==
    ASSUME ForeignPlay = FALSE, MuxMayFail = FALSE, TInv, TInv', PInv, [Next]_vars
    PROVE  PInv'
<1> USE DEF TInv, Shapes, Known, Go, Idle, connVars, mapVars, sessionVars,
        OwnPlays, StopIsHeld, PlaysTheLive, ClosedInOrder, Live, Handling, AppPhases
<1>1. ASSUME NEW d \in Conns, Request(d) \/ Handle(d) \/ Disconnect(d)
      PROVE  PInv'
  <2>1. ASSUME NEW s \in Sessions, NEW i \in Ids, SetupStart(d, s, i)
        PROVE  PInv'
    <3>1. /\ \A c \in Conns \ {d} : conn'[c] = conn[c] /\ target'[c] = target[c]
          /\ conn'[d] = "inserting" /\ target'[d] = s /\ conn[d] = "idle"
          /\ \A c \in Conns : conn[c] \in Handling => target[c] # s
          BY <2>1 DEF SetupStart
    <3>2. OwnPlays' /\ PlaysTheLive'
          BY <2>1, <3>1 DEF SetupStart, PInv
    <3>3. StopIsHeld'
          BY <2>1, <3>1 DEF SetupStart, PInv
    <3>4. ClosedInOrder'
          BY <2>1, <3>1 DEF SetupStart, PInv
    <3> QED
        BY <3>2, <3>3, <3>4 DEF PInv
  <2>2. ASSUME NEW i \in Ids, PlayLookup(d, i) \/ TearLookup(d, i)
        PROVE  PInv'
    <3>1. conn'[d] = "playLock" => owner[target'[d]] = d
          BY <2>2 DEF PlayLookup, TearLookup
    <3> QED
        BY <2>2, <3>1, OneMoves DEF PlayLookup, TearLookup
  <2>3. CASE SetupInsert(d) \/ Disconnect(d)
        BY <2>3, OneMoves DEF SetupInsert, Disconnect
  <2>4. CASE PlayStart(d)
    <3>1. /\ conn'[d] = "playWait" => worker[target'[d]] \in Live
          /\ conn'[d] \in {"playLock", "playWait"} => target'[d] = target[d]
          BY <2>4 DEF PlayStart
    <3>2. /\ owner[target[d]] = d /\ conn[d] = "playLock"
          /\ UNCHANGED <<owner, stop, worker, app>>
          BY <2>4 DEF PlayStart, PInv
    <3>3. \A c \in Conns \ {d} : conn'[c] = conn[c] /\ target'[c] = target[c]
          BY <2>4 DEF PlayStart
    <3> QED
        BY <3>1, <3>2, <3>3, OneMoves
  <2>5. CASE PlayFinish(d)
        BY <2>5 DEF PlayFinish, PInv
  <2>6. CASE TearStart(d)
        BY <2>6 DEF TearStart, PInv
  <2>7. CASE TearFinish(d)
        BY <2>7 DEF TearFinish, PInv
  <2> QED
      BY <1>1, <2>1, <2>2, <2>3, <2>4, <2>5, <2>6, <2>7 DEF Request, Handle
<1>2. ASSUME NEW u \in Sessions, WorkerStep(u)
      PROVE  PInv'
  <2>1. CASE Frame(u)
    <3>1. \A c \in Conns : conn[c] = "playWait" /\ target[c] = u => conn[owner[u]] # "gone"
          BY OwnWorkerStays
    <3> QED
        BY <2>1, <3>1 DEF Frame, PInv
  <2>2. CASE MuxFail(u)
        BY <2>2 DEF MuxFail
  <2>3. CASE ControlMessage(u)
    <3>1. /\ UNCHANGED <<conn, target, owner, stop, app>>
          /\ worker[u] \in Live /\ worker'[u] \in Live
          /\ \A s \in Sessions \ {u} : worker'[s] = worker[s]
          BY <2>3 DEF ControlMessage
    <3> QED
        BY <3>1 DEF PInv
  <2>4. CASE SeeStop(u)
    <3>1. \A c \in Conns : conn[c] = "playWait" => target[c] # u
          BY <2>4, OwnWorkerStays DEF SeeStop
    <3> QED
        BY <2>4, <3>1 DEF SeeStop, PInv
  <2>5. CASE Notify(u)
        BY <2>5 DEF Notify, PInv
  <2> QED
      BY <1>2, <2>1, <2>2, <2>3, <2>4, <2>5 DEF WorkerStep
<1>3. CASE Remove \/ StopServer \/ StopStep
  <2>1. CASE Remove
        BY <2>1 DEF Remove, PInv
  <2>2. CASE StopServer \/ ServerStopped \/ StopManager \/ Drained \/ RuntimeStopped
        BY <2>2 DEF StopServer, ServerStopped, StopManager, Drained, RuntimeStopped,
           Phase, PInv
  <2>3. ASSUME NEW d \in Conns, CloseConnection(d)
        PROVE  PInv'
        BY <2>3 DEF CloseConnection, Disconnect, PInv
  <2>4. ASSUME NEW u \in Sessions, DrainStop(u)
        PROVE  PInv'
        BY <2>4 DEF DrainStop, PInv
  <2> QED
      BY <1>3, <2>1, <2>2, <2>3, <2>4 DEF StopStep
<1>4. CASE UNCHANGED vars
      BY <1>4 DEF vars, PInv
<1> QED
    BY <1>1, <1>2, <1>3, <1>4 DEF Next

(* handler.rs:192-210, session/mod.rs:105-123: as long as connections play     *)
(* only what they set up and no muxer fails, no PLAY hangs: its worker outlives *)
(* it whatever the clients do. PlayAnswered and ShutdownCompletes have no      *)
(* exception then.                                                             *)
THEOREM OwnPlayNeverHangs ==
    ASSUME ForeignPlay = FALSE, MuxMayFail = FALSE
    PROVE  Spec => [](\A s \in Sessions : ~Hangs(s))
<1>1. Init => PInv
      BY DEF Init, PInv, OwnPlays, StopIsHeld, PlaysTheLive, ClosedInOrder
<1>2. TInv /\ TInv' /\ PInv /\ [Next]_vars => PInv'
      BY PlaysKeep
<1>3. PInv => \A s \in Sessions : ~Hangs(s)
      BY DEF PInv, PlaysTheLive, Hangs, Live
<1> QED
    BY <1>1, <1>2, <1>3, TypesBegin, TypesKeep, PTL DEF Spec

-----------------------------------------------------------------------------
\* Whatever the ids were: a session that a collision kept out of the map is
\* not drained, but the runtime waits for it.
DownMeansStopped == app = "down" => \A s \in Sessions : worker[s] \notin Live

\* Past the server there is nobody left to set a session up.
DownInv == /\ app \in AppPhases
           /\ app \notin {"up", "server"} => \A c \in Conns : conn[c] = "gone"
           /\ DownMeansStopped

(* app/mod.rs:137-143: when App::stop is over no session runs any more,        *)
(* also when ids are drawn twice.                                              *)
THEOREM NoneOutlivesTheApp == Spec => []DownMeansStopped
<1>1. Init => DownInv
      BY DEF Init, DownInv, DownMeansStopped, AppPhases
<1>2. TInv /\ DownInv /\ [Next]_vars => DownInv'
  <2> SUFFICES ASSUME TInv, DownInv, [Next]_vars PROVE DownInv'
      OBVIOUS
  <2> USE DEF DownInv, DownMeansStopped
  <2>2. ASSUME NEW c \in Conns, Request(c) \/ Handle(c) PROVE DownInv'
    <3>1. UNCHANGED app /\ conn[c] # "gone"
          BY <2>2 DEF Request, Handle, SetupStart, PlayLookup, TearLookup, SetupInsert,
             PlayStart, PlayFinish, TearStart, TearFinish
    <3> QED
        BY <3>1 DEF AppPhases
  <2>3. ASSUME NEW c \in Conns, Disconnect(c) \/ CloseConnection(c) PROVE DownInv'
    <3>1. UNCHANGED <<app, worker>> /\ conn[c] # "gone"
          BY <2>3 DEF Disconnect, CloseConnection, sessionVars
    <3> QED
        BY <3>1 DEF AppPhases
  <2>4. ASSUME NEW s \in Sessions, WorkerStep(s) PROVE DownInv'
    <3>1. UNCHANGED <<app, conn>>
          BY <2>4 DEF WorkerStep, Frame, MuxFail, ControlMessage, SeeStop, Notify, connVars
    <3>2. app = "down" => worker[s] = "left" /\ worker' = [worker EXCEPT ![s] = "done"]
          BY <2>4 DEF WorkerStep, Frame, MuxFail, ControlMessage, SeeStop, Notify
    <3> QED
        BY <3>1, <3>2 DEF TInv, Shapes, Live
  <2>5. CASE Remove \/ StopServer \/ ServerStopped \/ StopManager \/ Drained
             \/ RuntimeStopped \/ \E s \in Sessions : DrainStop(s)
        BY <2>5 DEF Remove, StopServer, ServerStopped, StopManager, Drained, RuntimeStopped,
           DrainStop, Phase, connVars, sessionVars, AppPhases
  <2>6. CASE UNCHANGED vars
        BY <2>6 DEF vars, connVars, sessionVars
  <2> QED
      BY <2>2, <2>3, <2>4, <2>5, <2>6 DEF Next, StopStep
<1>3. DownInv => DownMeansStopped
      BY DEF DownInv
<1> QED
    BY <1>1, <1>2, <1>3, TypesBegin, TypesKeep, PTL DEF Spec

-----------------------------------------------------------------------------
(* Each step of this module is, for each session, a step of StreamStateQuery *)
(* or none.                                                                  *)

QueryStep(s) == [Query(s)!Next]_(Query(s)!vars)

\* A session whose channels, and worker's life, stay as they are.
LEMMA QuietQuery ==
    ASSUME NEW s \in Sessions, Waiter(s)' = Waiter(s), need'[s] = need[s],
           control'[s] = control[s], answer'[s] = answer[s], Life(s)' = Life(s)
    PROVE  QueryStep(s)
BY DEF QueryStep, Query!vars, Asking, Told

\* Where the Play messages are.
HasPlay(q) == \E k \in DOMAIN q : q[k] = "Play"

LEMMA PlaysIn ==
    /\ ~HasPlay(<<>>) /\ ~HasPlay(<<"StreamState">>)
    /\ HasPlay(<<"Play">>) /\ HasPlay(<<"Play", "StreamState">>)
<1>1. ~HasPlay(<<>>)
      BY DEF HasPlay
<1>2. ~HasPlay(<<"StreamState">>)
      BY DEF HasPlay
<1>3. HasPlay(<<"Play">>)
  <2>1. 1 \in DOMAIN <<"Play">> /\ <<"Play">>[1] = "Play"
        OBVIOUS
  <2> QED
      BY <2>1 DEF HasPlay
<1>4. HasPlay(<<"Play", "StreamState">>)
  <2>1. 1 \in DOMAIN <<"Play", "StreamState">> /\ <<"Play", "StreamState">>[1] = "Play"
        OBVIOUS
  <2> QED
      BY <2>1 DEF HasPlay
<1> QED
    BY <1>1, <1>2, <1>3, <1>4

\* The state of the conversation, by what TInv says of the channels.
LEMMA Conversation ==
    ASSUME TInv, NEW s \in Sessions
    PROVE  /\ Waiter(s) <=> Asking(s) # "none"
           /\ need[s] <=> Asking(s) = "owed"
           /\ \/ Asking(s) = "none" /\ control[s] = <<>> /\ ~Told(s)
              \/ Asking(s) = "none" /\ control[s] = <<"Play">> /\ Told(s)
              \/ Asking(s) = "asked" /\ control[s] = <<"StreamState">> /\ ~Told(s)
              \/ Asking(s) = "asked" /\ control[s] = <<"Play", "StreamState">> /\ Told(s)
              \/ Asking(s) \in {"owed", "answered"} /\ control[s] = <<>> /\ ~Told(s)
<1>1. Channel(s) /\ need[s] \in BOOLEAN /\ answer[s] \in BOOLEAN
      BY DEF TInv, Channels, Shapes
<1>2. Told(s) = HasPlay(control[s])
      BY DEF Told, HasPlay
<1>3. CASE ~Waiter(s)
      BY <1>1, <1>2, <1>3, PlaysIn DEF Channel, Asking
<1>4. CASE Waiter(s) /\ control[s] = <<>>
  <2>1. <<>> \notin {<<"StreamState">>, <<"Play", "StreamState">>}
        OBVIOUS
  <2> QED
      BY <1>1, <1>2, <1>4, <2>1, PlaysIn DEF Channel, Asking
<1>5. CASE Waiter(s) /\ control[s] # <<>>
  <2>1. /\ ~need[s] /\ ~answer[s]
        /\ control[s] \in {<<"StreamState">>, <<"Play", "StreamState">>}
        BY <1>1, <1>5 DEF Channel
  <2> QED
      BY <1>2, <1>5, <2>1, PlaysIn DEF Asking
<1> QED
    BY <1>3, <1>4, <1>5

\* What a session's worker is, in short.
LEMMA Lives ==
    ASSUME TInv, NEW s \in Sessions
    PROVE  /\ Life(s) = "over" <=> worker[s] \in {"left", "done"}
           /\ worker[s] # "new" => (Life(s) # "over" <=> worker[s] \in Live)
BY DEF TInv, Shapes, Life, Live

\* A connection that neither waits nor is going to.
LEMMA ElsewhereQueries ==
    ASSUME TInv, NEW c \in Conns, NEW pc, NEW t, Go(c, pc, t),
           conn[c] # "playWait", pc # "playWait",
           UNCHANGED <<need, control, answer>>,
           \A s \in Sessions : Life(s)' = Life(s)
    PROVE  \A s \in Sessions : QueryStep(s)
BY SameWaiters, QuietQuery

LEMMA RequestQueries ==
    ASSUME TInv, NEW c \in Conns,
           \/ \E s \in Sessions, i \in Ids : SetupStart(c, s, i)
           \/ \E i \in Ids : PlayLookup(c, i) \/ TearLookup(c, i)
           \/ SetupInsert(c) \/ TearStart(c) \/ TearFinish(c) \/ Disconnect(c)
    PROVE  \A s \in Sessions : QueryStep(s)
<1>1. CASE \E s \in Sessions, i \in Ids : SetupStart(c, s, i)
  <2>1. PICK s \in Sessions, i \in Ids : SetupStart(c, s, i)
        BY <1>1
  <2>2. \A u \in Sessions : Life(u)' = Life(u)
        BY <2>1 DEF SetupStart, Life, TInv, Shapes
  <2> QED
      BY <2>1, <2>2, ElsewhereQueries DEF SetupStart
<1>2. CASE ~(\E s \in Sessions, i \in Ids : SetupStart(c, s, i))
  <2>1. /\ UNCHANGED <<need, control, answer, worker>>
        /\ \E pc, t : Go(c, pc, t) /\ conn[c] # "playWait" /\ pc # "playWait"
    <3> USE DEF sessionVars, Idle
    <3>1. CASE \E i \in Ids : PlayLookup(c, i) \/ TearLookup(c, i)
          BY <3>1 DEF PlayLookup, TearLookup
    <3>2. CASE SetupInsert(c)
          BY <3>2 DEF SetupInsert
    <3>3. CASE TearStart(c)
          BY <3>3 DEF TearStart
    <3>4. CASE TearFinish(c)
          BY <3>4 DEF TearFinish
    <3>5. CASE Disconnect(c)
          BY <3>5 DEF Disconnect
    <3> QED
        BY <1>2, <3>1, <3>2, <3>3, <3>4, <3>5
  <2>2. \A u \in Sessions : Life(u)' = Life(u)
        BY <2>1 DEF Life
  <2> QED
      BY <2>1, <2>2, ElsewhereQueries
<1> QED
    BY <1>1, <1>2

\* A PLAY that begins asks its session, unless the worker is over.
LEMMA PlayStartQueries ==
    ASSUME TInv, TInv', NEW c \in Conns, PlayStart(c)
    PROVE  \A s \in Sessions : QueryStep(s)
<1>1. PICK s \in Sessions :
      /\ s = target[c] /\ worker[s] # "new" /\ lock[s] = NoConn /\ conn[c] = "playLock"
      /\ \A d \in Conns \ {c} : conn[d] \in {"playWait", "tearWait"} => target[d] # s
      BY SoleHolder DEF PlayStart, Handling
<1>2. \A u \in Sessions : Life(u)' = Life(u)
      BY DEF PlayStart, Life
<1>3. CASE worker[s] \notin Live
  <2>1. Go(c, "idle", NoSession) /\ UNCHANGED <<need, control, answer>>
        BY <1>1, <1>3 DEF PlayStart, Idle
  <2> QED
      BY <1>1, <1>2, <2>1, ElsewhereQueries
<1>4. CASE worker[s] \in Live
  <2>1. /\ control' = [control EXCEPT ![s] = Append(@, "StreamState")]
        /\ answer' = [answer EXCEPT ![s] = FALSE] /\ UNCHANGED need
        /\ conn' = [conn EXCEPT ![c] = "playWait"] /\ target' = [target EXCEPT ![c] = s]
        BY <1>1, <1>4 DEF PlayStart, Go
  <2>2. /\ conn'[c] = "playWait" /\ target'[c] = s
        /\ \A d \in Conns \ {c} : conn'[d] = conn[d] /\ target'[d] = target[d]
        BY <2>1 DEF TInv, Shapes
  <2>3. /\ ~Waiter(s) /\ Waiter(s)'
        /\ \A u \in Sessions \ {s} : Waiter(u)' = Waiter(u)
    <3>1. conn[c] # "playWait"
          BY <1>1
    <3> QED
        BY <1>1, <2>2, <3>1 DEF Waiter
  <2>4. /\ control'[s] = Append(control[s], "StreamState") /\ answer'[s] = FALSE
        /\ \A u \in Sessions \ {s} : control'[u] = control[u] /\ answer'[u] = answer[u]
        BY <2>1 DEF TInv, Shapes
  <2>5. Asking(s) = "none" /\ Asking(s)' = "asked"
    <3>1. need'[s] = need[s] /\ ~need[s]
          BY <2>1, <2>3, Conversation
    <3> QED
        BY <2>3, <2>4, <3>1 DEF Asking
  <2>6. Told(s)' = Told(s)
    <3>1. control[s] \in Seq({"StreamState", "Play"})
          BY DEF TInv, Shapes
    <3>2. /\ DOMAIN control'[s] = 1 .. Len(control[s]) + 1
          /\ DOMAIN control[s] = 1 .. Len(control[s]) /\ Len(control[s]) \in Nat
          /\ control'[s][Len(control[s]) + 1] = "StreamState"
          /\ \A k \in DOMAIN control[s] : control'[s][k] = control[s][k]
          BY <2>4, <3>1
    <3>3. \A k \in DOMAIN control'[s] : k \in DOMAIN control[s] \/ k = Len(control[s]) + 1
          BY <3>2
    <3>4. \A k \in DOMAIN control[s] : k \in DOMAIN control'[s]
          BY <3>2
    <3> QED
        BY <3>2, <3>3, <3>4 DEF Told
  <2>7. QueryStep(s)
    <3>1. Life(s) # "over"
          BY <1>1, <1>4, Lives
    <3> QED
        BY <1>2, <2>5, <2>6, <3>1
        DEF QueryStep, Query!Next, Query!Ask, Query!Alive
  <2>8. ASSUME NEW u \in Sessions \ {s} PROVE QueryStep(u)
        BY <1>2, <2>1, <2>3, <2>4, QuietQuery
  <2> QED
      BY <2>7, <2>8
<1> QED
    BY <1>3, <1>4

\* A PLAY that has its answer tells a worker that is alive to play.
LEMMA PlayFinishQueries ==
    ASSUME TInv, TInv', NEW c \in Conns, PlayFinish(c)
    PROVE  \A s \in Sessions : QueryStep(s)
<1>1. PICK s \in Sessions :
      /\ s = target[c] /\ worker[s] # "new" /\ conn[c] = "playWait"
      /\ \A d \in Conns \ {c} : conn[d] \in {"playWait", "tearWait"} => target[d] # s
      BY SoleHolder DEF PlayFinish, Handling, TInv, Locking
<1>2. \A u \in Sessions : Life(u)' = Life(u)
      BY DEF PlayFinish, Life
<1>3. /\ answer[s] /\ UNCHANGED <<need, answer>>
      /\ control' = IF worker[s] \in Live
                    THEN [control EXCEPT ![s] = Append(@, "Play")] ELSE control
      /\ conn' = [conn EXCEPT ![c] = "idle"] /\ target' = [target EXCEPT ![c] = NoSession]
      BY <1>1 DEF PlayFinish, Idle, Go
<1>4. /\ Waiter(s) /\ ~Waiter(s)'
      /\ \A u \in Sessions \ {s} : Waiter(u)' = Waiter(u)
  <2>1. /\ conn'[c] = "idle" /\ conn[c] = "playWait" /\ target[c] = s
        /\ \A d \in Conns \ {c} : conn'[d] = conn[d] /\ target'[d] = target[d]
        BY <1>1, <1>3 DEF TInv, Shapes
  <2> QED
      BY <1>1, <2>1 DEF Waiter
<1>5. Asking(s) = "answered" /\ Asking(s)' = "none"
      BY <1>3, <1>4 DEF Asking
<1>6. control[s] = <<>> /\ ~Told(s)
      BY <1>5, Conversation
<1>7. Told(s)' <=> Life(s) # "over"
  <2>1. Append(<<>>, "Play") = <<"Play">>
        OBVIOUS
  <2>2. control'[s] = IF worker[s] \in Live THEN <<"Play">> ELSE <<>>
    <3>1. worker[s] \in Live => control'[s] = Append(control[s], "Play")
          BY <1>3 DEF TInv, Shapes
    <3>2. worker[s] \notin Live => control'[s] = control[s]
          BY <1>3
    <3> QED
        BY <1>6, <2>1, <3>1, <3>2, Zenon
  <2>3. Told(s)' = HasPlay(control'[s])
        BY DEF Told, HasPlay
  <2> QED
      BY <1>1, <2>2, <2>3, Lives, PlaysIn
<1>8. QueryStep(s)
      BY <1>2, <1>5, <1>6, <1>7 DEF QueryStep, Query!Next, Query!Proceed, Query!Alive, Told
<1>9. ASSUME NEW u \in Sessions \ {s} PROVE QueryStep(u)
  <2>1. control'[u] = control[u]
        BY <1>3 DEF TInv, Shapes
  <2> QED
      BY <1>2, <1>3, <1>4, <2>1, QuietQuery
<1> QED
    BY <1>8, <1>9

\* A frame answers what is owed, and may be the worker's last.
LEMMA MuxQueries ==
    ASSUME TInv, NEW s \in Sessions, Frame(s) \/ MuxFail(s)
    PROVE  \A u \in Sessions : QueryStep(u)
<1>1. /\ UNCHANGED <<connVars, mapVars, id, owner, control, lock, stop, stateQ, app>>
      /\ worker[s] \in Live /\ Answer(s)
      /\ worker' = worker \/ worker' = [worker EXCEPT ![s] = "left"]
      BY DEF Frame, MuxFail
<1>2. \A u \in Sessions : Waiter(u)' = Waiter(u)
      BY <1>1, WorkerKnown DEF Live
<1>3. /\ need'[s] = FALSE /\ answer'[s] = (answer[s] \/ (need[s] /\ Waiter(s)))
      /\ \A u \in Sessions \ {s} : /\ need'[u] = need[u] /\ answer'[u] = answer[u]
                                   /\ worker'[u] = worker[u]
      BY <1>1 DEF TInv, Shapes, Answer
<1>4. Life(s) # "over" /\ Life(s)' \in {Life(s), "over"}
  <2>1. worker'[s] \in {worker[s], "left"}
        BY <1>1 DEF TInv, Shapes
  <2> QED
      BY <1>1, <2>1 DEF Life, Live
<1>5. Told(s)' = Told(s)
      BY <1>1 DEF Told
<1>6. QueryStep(s)
  <2>1. CASE need[s]
    <3>1. Asking(s) = "owed" /\ Waiter(s)
          BY <2>1, Conversation
    <3>2. Asking(s)' = "answered"
      <4>1. answer'[s] = TRUE
            BY <1>3, <2>1, <3>1 DEF TInv, Shapes
      <4> QED
          BY <1>2, <3>1, <4>1 DEF Asking
    <3> QED
        BY <1>4, <1>5, <3>1, <3>2 DEF QueryStep, Query!Next, Query!Answer, Query!Alive
  <2>2. CASE ~need[s]
    <3>1. Asking(s)' = Asking(s)
      <4>1. answer'[s] = answer[s] /\ need'[s] = need[s]
            BY <1>3, <2>2 DEF TInv, Shapes
      <4> QED
          BY <1>2, <4>1 DEF Asking
    <3> QED
        BY <1>4, <1>5, <3>1
        DEF QueryStep, Query!Next, Query!End, Query!Alive, Query!vars
  <2> QED
      BY <2>1, <2>2
<1>7. ASSUME NEW u \in Sessions \ {s} PROVE QueryStep(u)
  <2>1. Life(u)' = Life(u)
        BY <1>3 DEF Life
  <2> QED
      BY <1>1, <1>2, <1>3, <2>1, QuietQuery
<1> QED
    BY <1>6, <1>7

\* A message is read: the question, or the Play of the PLAY before.
LEMMA ControlQueries ==
    ASSUME TInv, NEW s \in Sessions, ControlMessage(s)
    PROVE  \A u \in Sessions : QueryStep(u)
<1>1. /\ UNCHANGED <<connVars, mapVars, id, owner, answer, lock, stop, stateQ, app>>
      /\ worker[s] \in Live /\ control[s] # <<>>
      /\ control' = [control EXCEPT ![s] = Tail(@)]
      /\ worker' = worker \/ worker' = [worker EXCEPT ![s] = "playing"]
      BY DEF ControlMessage
<1>2. \A u \in Sessions : Waiter(u)' = Waiter(u)
      BY <1>1, WorkerKnown DEF Live
<1>3. /\ control'[s] = Tail(control[s])
      /\ Head(control[s]) = "Play" => worker'[s] = "playing" /\ need'[s] = need[s]
      /\ Head(control[s]) # "Play" => worker'[s] = worker[s] /\ need'[s] = TRUE
      /\ \A u \in Sessions \ {s} : /\ control'[u] = control[u] /\ need'[u] = need[u]
                                   /\ worker'[u] = worker[u]
      BY DEF ControlMessage, TInv, Shapes
<1>4. Life(s) # "over"
      BY <1>1 DEF Life, Live
<1>5. QueryStep(s)
  <2>1. Told(s)' = HasPlay(control'[s])
        BY DEF Told, HasPlay
  <2>2. CASE control[s] \in {<<"Play">>, <<"Play", "StreamState">>}
    <3>1. Head(control[s]) = "Play" /\ control'[s] \in {<<>>, <<"StreamState">>}
      <4>1. CASE control[s] = <<"Play">>
            BY <1>3, <4>1
      <4>2. CASE control[s] = <<"Play", "StreamState">>
            BY <1>3, <4>2
      <4> QED
          BY <2>2, <4>1, <4>2
    <3>2. Told(s)
      <4>1. Told(s) = HasPlay(control[s])
            BY DEF Told, HasPlay
      <4> QED
          BY <2>2, <4>1, PlaysIn
    <3>3. Told(s)' = FALSE /\ Life(s)' = "playing" /\ Asking(s)' = Asking(s)
      <4>1. ~Told(s)'
            BY <2>1, <3>1, PlaysIn
      <4>2. Life(s)' = "playing"
            BY <1>3, <3>1 DEF Life
      <4>3. Asking(s)' = Asking(s)
            BY <1>1, <1>2, <1>3, <3>1 DEF Asking
      <4> QED
          BY <4>1, <4>2, <4>3 DEF Told
    <3> QED
        BY <1>4, <3>2, <3>3 DEF QueryStep, Query!Next, Query!Play, Query!Alive, Told
  <2>3. CASE control[s] = <<"StreamState">>
    <3>1. Head(control[s]) # "Play" /\ control'[s] = <<>>
          BY <1>3, <2>3
    <3>2. Asking(s) = "asked" /\ ~Told(s)
      <4>1. /\ <<"StreamState">> # <<>> /\ <<"StreamState">> # <<"Play">>
            /\ <<"StreamState">> # <<"Play", "StreamState">>
        <5>1. <<"StreamState">> # <<>>
              OBVIOUS
        <5>2. <<"StreamState">> # <<"Play">>
              OBVIOUS
        <5>3. <<"StreamState">> # <<"Play", "StreamState">>
              OBVIOUS
        <5> QED
            BY <5>1, <5>2, <5>3
      <4> QED
          BY <2>3, <4>1, Conversation
    <3>3. Told(s)' = FALSE /\ Life(s)' = Life(s)
          BY <1>3, <2>1, <3>1, PlaysIn DEF Life
    <3>4. Asking(s)' = "owed"
          BY <1>1, <1>2, <1>3, <3>1, <3>2 DEF Asking
    <3>5. (Told(s)' = Told(s)) /\ ~Told(s)
          BY <3>2, <3>3 DEF Told
    <3> QED
        BY <1>4, <3>2, <3>3, <3>4, <3>5 DEF QueryStep, Query!Next, Query!Read, Query!Alive
  <2> QED
      BY <1>1, <2>2, <2>3, Conversation
<1>6. ASSUME NEW u \in Sessions \ {s} PROVE QueryStep(u)
  <2>1. Life(u)' = Life(u)
        BY <1>3 DEF Life
  <2> QED
      BY <1>1, <1>2, <1>3, <2>1, QuietQuery
<1> QED
    BY <1>5, <1>6

\* The worker ends, and whoever waits goes on waiting.
LEMMA LeaveQueries ==
    ASSUME TInv, NEW s \in Sessions, SeeStop(s) \/ Notify(s)
    PROVE  \A u \in Sessions : QueryStep(u)
<1>1. /\ UNCHANGED <<connVars, mapVars, id, owner, need, control, answer, lock, stop, app>>
      /\ worker[s] \in Live \cup {"left"}
      /\ \E w \in {"left", "done"} : worker' = [worker EXCEPT ![s] = w]
      BY DEF SeeStop, Notify
<1>2. \A u \in Sessions : Waiter(u)' = Waiter(u)
      BY <1>1 DEF connVars, Waiter
<1>3. \A u \in Sessions : Asking(u)' = Asking(u) /\ Told(u)' = Told(u)
      BY <1>1, <1>2 DEF Asking, Told
<1>4. /\ Life(s)' = "over"
      /\ \A u \in Sessions \ {s} : Life(u)' = Life(u)
      BY <1>1 DEF Life, TInv, Shapes
<1> QED
    BY <1>3, <1>4 DEF QueryStep, Query!Next, Query!End, Query!Alive, Query!vars

\* The manager and App::stop speak to no worker's channels.
LEMMA ManagerQueries ==
    ASSUME \/ Remove \/ StopServer \/ ServerStopped \/ StopManager \/ Drained
           \/ RuntimeStopped \/ \E s \in Sessions : DrainStop(s)
           \/ UNCHANGED vars
    PROVE  \A u \in Sessions : QueryStep(u)
<1> USE DEF connVars, sessionVars
<1>1. UNCHANGED <<conn, target, worker, need, control, answer>>
  <2>1. CASE Remove \/ StopServer \/ ServerStopped \/ StopManager \/ Drained
             \/ RuntimeStopped
        BY <2>1 DEF Remove, StopServer, ServerStopped, StopManager, Drained,
           RuntimeStopped
  <2>2. CASE \E s \in Sessions : DrainStop(s)
        BY <2>2 DEF DrainStop
  <2>3. CASE UNCHANGED vars
        BY <2>3 DEF vars
  <2> QED
      BY <2>1, <2>2, <2>3
<1> QED
    BY <1>1, QuietQuery DEF Waiter, Life

LEMMA StepQueries ==
    ASSUME TInv, TInv', [Next]_vars
    PROVE  \A s \in Sessions : QueryStep(s)
<1>1. ASSUME NEW c \in Conns, Request(c) \/ Handle(c) \/ Disconnect(c)
      PROVE  \A s \in Sessions : QueryStep(s)
      BY <1>1, RequestQueries, PlayStartQueries, PlayFinishQueries DEF Request, Handle
<1>2. ASSUME NEW s \in Sessions, WorkerStep(s)
      PROVE  \A u \in Sessions : QueryStep(u)
      BY <1>2, MuxQueries, ControlQueries, LeaveQueries DEF WorkerStep
<1>3. CASE Remove \/ StopServer \/ StopStep
  <2>1. ASSUME NEW c \in Conns, CloseConnection(c)
        PROVE  \A s \in Sessions : QueryStep(s)
        BY <2>1, RequestQueries DEF CloseConnection
  <2> QED
      BY <1>3, <2>1, ManagerQueries DEF StopStep
<1>4. CASE UNCHANGED vars
      BY <1>4, ManagerQueries
<1> QED
    BY <1>1, <1>2, <1>3, <1>4 DEF Next

(* session/mod.rs:105-123, 254-264, 312-322: of all the connections that PLAY a *)
(* session one at a time speaks to its worker, and each step of any of them,    *)
(* and of the worker, is a step of the conversation StreamStateQuery describes  *)
(* or none, whatever ids collide.                                               *)
THEOREM QueriesAnswered == Spec => ImplementsQueries
<1>1. Init => \A s \in Sessions : Query(s)!Init
      BY DEF Init, Query!Init, Asking, Waiter, Told, Life
<1>2. TInv /\ TInv' /\ [Next]_vars
      => [\A s \in Sessions : [Query(s)!Next]_(Query(s)!vars)]_vars
      BY StepQueries DEF QueryStep
<1> QED
    BY <1>1, <1>2, TypesBegin, TypesKeep, PTL DEF Spec, ImplementsQueries
=============================================================================

------------------------- MODULE ConnectionManager -------------------------
(* The server's accept loop (src/net/server.rs), the registry of connections *)
(* with its worker (src/net/connection_manager.rs) and the life of each      *)
(* connection worker (Connection::run; what it sends is in Session.tla).     *)
EXTENDS Naturals, Sequences, FiniteSets

CONSTANT Conns   \* every connection ever accepted

VARIABLES server,     \* the accept loop, then ConnectionManager::stop
          incoming,   \* the connections between their start and their insertion
          conns,      \* connections: the registry
          worker,     \* connection worker: which await it is in, or over
          stop,       \* Task::stop has been called on the worker
          stateQ,     \* connection_state channel: connections that are over
          manager     \* the registry's worker runs

vars == <<server, incoming, conns, worker, stop, stateQ, manager>>

Loop == {"select", "handling", "writing"}

TypeOK == /\ server \in {"accepting", "stopping", "stopManager", "draining", "stopped"}
          /\ incoming \subseteq Conns /\ Cardinality(incoming) <= 1
          /\ conns \subseteq Conns
          /\ worker \in [Conns -> {"absent", "left", "done"} \cup Loop]
          /\ stop \in [Conns -> BOOLEAN]
          /\ stateQ \in Seq(Conns) /\ Len(stateQ) <= Cardinality(Conns)
          /\ manager \in BOOLEAN

Init == /\ server = "accepting" /\ incoming = {} /\ conns = {}
        /\ worker = [c \in Conns |-> "absent"]
        /\ stop = [c \in Conns |-> FALSE]
        /\ stateQ = <<>> /\ manager = TRUE

-----------------------------------------------------------------------------
(* Server::run and ConnectionManager::spawn: the loop starts the worker,     *)
(* then awaits the registry's mutex to insert the Connection.                *)

Accept(c) ==
    /\ server \in {"accepting", "stopping"} /\ incoming = {}
    /\ worker[c] = "absent"
    /\ worker' = [worker EXCEPT ![c] = "select"]
    /\ incoming' = {c}
    /\ UNCHANGED <<server, conns, stop, stateQ, manager>>

Insert(c) ==
    /\ c \in incoming
    /\ conns' = conns \cup {c}
    /\ incoming' = {}
    /\ UNCHANGED <<server, worker, stop, stateQ, manager>>

\* Server::stop: the accept loop's select may see the stop from now on.
StopServer ==
    /\ server = "accepting"
    /\ server' = "stopping"
    /\ UNCHANGED <<incoming, conns, worker, stop, stateQ, manager>>

\* Mutant: connections are spawned beside the loop, which does not await them.
LeaveAcceptBusy ==
    /\ server = "stopping"
    /\ server' = "stopManager"
    /\ UNCHANGED <<incoming, conns, worker, stop, stateQ, manager>>

LeaveAccept ==
    /\ server = "stopping" /\ incoming = {}
    /\ server' = "stopManager"
    /\ UNCHANGED <<incoming, conns, worker, stop, stateQ, manager>>

\* ConnectionManager::stop: first its worker; its receiver goes with it.
StopManager ==
    /\ server = "stopManager"
    /\ manager' = FALSE /\ stateQ' = <<>>
    /\ server' = "draining"
    /\ UNCHANGED <<incoming, conns, worker, stop>>

\* Then close each connection in turn: signal it, wait for its hold, drop it.
CloseStart(c) ==
    /\ server = "draining" /\ c \in conns
    /\ \A d \in conns : ~stop[d]
    /\ stop' = [stop EXCEPT ![c] = TRUE]
    /\ UNCHANGED <<server, incoming, conns, worker, stateQ, manager>>

CloseFinish(c) ==
    /\ server = "draining" /\ c \in conns /\ stop[c] /\ worker[c] = "done"
    /\ conns' = conns \ {c}
    /\ UNCHANGED <<server, incoming, worker, stop, stateQ, manager>>

ServerStopped ==
    /\ server = "draining" /\ conns = {}
    /\ server' = "stopped"
    /\ UNCHANGED <<incoming, conns, worker, stop, stateQ, manager>>

-----------------------------------------------------------------------------
(* Connection::run. It sees a stop and the client's end in its select only.  *)

Step(c, from, to) == /\ worker[c] = from
                     /\ worker' = [worker EXCEPT ![c] = to]
                     /\ UNCHANGED <<server, incoming, conns, stop, stateQ, manager>>

Handle(c) == Step(c, "select", "handling")
Respond(c) == Step(c, "handling", "writing")
TakeMedia(c) == Step(c, "select", "writing")
Written(c) == Step(c, "writing", "select")

\* The write failed, or WRITE_TIMEOUT passed.
WriteFails(c) == Step(c, "writing", "left")

\* The client has gone, or what it sent cannot be read.
ClientGone(c) == Step(c, "select", "left")

\* Mutant: the stop that close sends is not waited for in the select.
SeeStopDropped(c) == c \notin conns \cup incoming /\ Step(c, "select", "left")

\* wait_for_stop: Task::stop, or the Connection has been dropped.
SeeStop(c) == /\ stop[c] \/ c \notin conns \cup incoming
              /\ Step(c, "select", "left")

\* Mutant: only a disconnect is reported, not a connection that failed.
NotifySometimes(c) ==
    /\ worker[c] = "left"
    /\ worker' = [worker EXCEPT ![c] = "done"]
    /\ \/ stateQ' = IF manager THEN Append(stateQ, c) ELSE stateQ
       \/ UNCHANGED stateQ
    /\ UNCHANGED <<server, incoming, conns, stop, manager>>

\* Disconnected or Closed is sent before the context, and the hold, is dropped.
Notify(c) ==
    /\ worker[c] = "left"
    /\ worker' = [worker EXCEPT ![c] = "done"]
    /\ stateQ' = IF manager THEN Append(stateQ, c) ELSE stateQ
    /\ UNCHANGED <<server, incoming, conns, stop, manager>>

\* ConnectionManager::run
Remove ==
    /\ manager /\ stateQ # <<>>
    /\ conns' = conns \ {Head(stateQ)}
    /\ stateQ' = Tail(stateQ)
    /\ UNCHANGED <<server, incoming, worker, stop, manager>>

-----------------------------------------------------------------------------
ConnStep(c) == \/ Handle(c) \/ Respond(c) \/ TakeMedia(c) \/ Written(c)
               \/ WriteFails(c) \/ ClientGone(c) \/ SeeStop(c) \/ Notify(c)

Next == \/ StopServer \/ LeaveAccept \/ StopManager \/ ServerStopped \/ Remove
        \/ \E c \in Conns : \/ Accept(c) \/ Insert(c) \/ CloseStart(c)
                            \/ CloseFinish(c) \/ ConnStep(c)

Spec == Init /\ [][Next]_vars

-----------------------------------------------------------------------------
(* app/mod.rs:137-139 relies on it to stop the sessions next: when           *)
(* Server::stop returns no connection is in its loop, also one accepted      *)
(* while the stop was under way.                                             *)
StoppedMeansClosed ==
    server = "stopped" => \A c \in Conns : worker[c] \notin Loop
=============================================================================

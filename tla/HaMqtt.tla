------------------------------- MODULE HaMqtt -------------------------------
(* HAMQTTClient (src/hamqtt/ha_mqtt.rs): the announcements of sensors, the     *)
(* callbacks of the MQTT library on its own thread, and a broker that may      *)
(* forget what it was told. The library (paho) and the broker are modelled by  *)
(* what the client relies on.                                                  *)
EXTENDS Naturals, FiniteSets

CONSTANTS Sensors,     \* unique ids; each is published by one task
          MaxConnects, \* bound: connections in a run
          MaxRefusals  \* bound: messages the library refuses while connected

VARIABLES retrying,   \* the task that makes the first connection still tries
          up,         \* is_connected()
          connects,   \* connections so far
          callbacks,  \* connected callbacks that are due and have not run
          announced,  \* the client's announced set
          pub,        \* where publish is, for each sensor
          lost,       \* sensors whose message is lost, so that its token will fail
          refusals,   \* messages the library has refused while connected
          known       \* the sensors whose retained configuration the broker has

client == <<retrying, announced>>
link == <<up, connects, callbacks>>
vars == <<client, link, pub, lost, refusals, known>>

\* The awaits of publish: connected was true, the configuration is on its
\* way, the broker has it.
InFlight(s) == pub[s] \in {"config", "received"}

TypeOK ==
    /\ retrying \in BOOLEAN /\ up \in BOOLEAN
    /\ connects \in 0 .. MaxConnects /\ callbacks \in 0 .. connects
    /\ retrying => connects = 0 /\ ~up
    /\ announced \subseteq Sensors /\ known \subseteq Sensors
    /\ pub \in [Sensors -> {"idle", "connected", "announce", "config", "received"}]
    /\ refusals \in 0 .. MaxRefusals
    /\ lost \subseteq {s \in Sensors : InFlight(s)}

Init == /\ retrying = TRUE /\ up = FALSE /\ connects = 0 /\ callbacks = 0
        /\ announced = {} /\ known = {} /\ lost = {} /\ refusals = 0
        /\ pub = [s \in Sensors |-> "idle"]

Goes(s, from, to) == pub[s] = from /\ pub' = [pub EXCEPT ![s] = to]

-----------------------------------------------------------------------------
(* publish                                                                    *)

\* is_connected; without a connection the sample is dropped.
Sample(s) == /\ up /\ Goes(s, "idle", "connected")
             /\ UNCHANGED <<client, link, lost, known, refusals>>

\* A sensor that is announced only gets its state sent, and not waited for.
Insert(s) == /\ IF s \in announced THEN Goes(s, "connected", "idle")
                                   ELSE Goes(s, "connected", "announce")
             /\ announced' = announced \cup {s}
             /\ UNCHANGED <<retrying, link, lost, known, refusals>>

SendConfig(s) == /\ up /\ Goes(s, "announce", "config")
                 /\ UNCHANGED <<client, link, lost, refusals, known>>

\* The library refuses the message: there is no connection any more, or too
\* many messages are on their way.
RefuseConfig(s) == /\ \/ ~up /\ UNCHANGED refusals
                      \/ refusals < MaxRefusals /\ refusals' = refusals + 1
                   /\ Goes(s, "announce", "config")
                   /\ lost' = lost \cup {s}
                   /\ UNCHANGED <<client, link, known>>

Receive(s) == /\ up /\ s \notin lost
              /\ Goes(s, "config", "received")
              /\ known' = known \cup {s}
              /\ UNCHANGED <<client, link, lost, refusals>>

\* The token completes: publish goes on to send the state.
Acknowledge(s) == /\ up /\ s \notin lost
                  /\ Goes(s, "received", "idle")
                  /\ UNCHANGED <<client, link, lost, known, refusals>>

\* Mutant: the error path leaves the sensor announced.
PublishFailsKept(s) ==
    /\ s \in lost /\ InFlight(s)
    /\ pub' = [pub EXCEPT ![s] = "idle"] /\ lost' = lost \ {s}
    /\ UNCHANGED <<client, link, known, refusals>>

\* The token fails: announce again with the next sample.
PublishFails(s) ==
    /\ s \in lost /\ InFlight(s)
    /\ pub' = [pub EXCEPT ![s] = "idle"] /\ lost' = lost \ {s}
    /\ announced' = announced \ {s}
    /\ UNCHANGED <<retrying, link, known, refusals>>

\* The library refuses the state, which nobody looks at.
RefuseState(s) == /\ up /\ refusals < MaxRefusals /\ refusals' = refusals + 1
                  /\ \/ s \in announced /\ Goes(s, "connected", "idle")
                     \/ s \notin lost /\ Goes(s, "received", "idle")
                  /\ UNCHANGED <<client, link, lost, known>>

-----------------------------------------------------------------------------
(* The connection.                                                           *)

Up == /\ ~up /\ connects < MaxConnects
      /\ up' = TRUE /\ connects' = connects + 1
      /\ callbacks' = callbacks + 1
      /\ UNCHANGED <<announced, pub, lost, known, refusals>>

\* Mutant: the task that makes the first connection does not stop.
FirstConnectAgain == retrying /\ Up /\ UNCHANGED retrying

FirstConnect == retrying /\ Up /\ retrying' = FALSE

\* automatic_reconnect
Reconnect == ~retrying /\ Up /\ UNCHANGED retrying

\* Mutant: the callback does not clear the set.
ConnectedKeeps == /\ callbacks > 0 /\ callbacks' = callbacks - 1
                  /\ UNCHANGED <<client, up, connects, pub, lost, known, refusals>>

\* The connected callback runs on the library's thread, some time after
\* is_connected has become true.
Connected == /\ callbacks > 0 /\ callbacks' = callbacks - 1
             /\ announced' = {}
             /\ UNCHANGED <<retrying, up, connects, pub, lost, known, refusals>>

\* clean_session: messages in flight go down with the connection.
ConnectionLost == /\ up /\ up' = FALSE
                  /\ lost' = {s \in Sensors : InFlight(s)}
                  /\ UNCHANGED <<client, connects, callbacks, pub, known, refusals>>

\* A broker without persistence restarts.
BrokerForgets == /\ ~up /\ known # {}
                 /\ known' = {}
                 /\ UNCHANGED <<client, link, pub, lost, refusals>>

PublishStep(s) == \/ Sample(s) \/ Insert(s) \/ SendConfig(s) \/ RefuseConfig(s)
                  \/ Receive(s) \/ Acknowledge(s) \/ RefuseState(s)
                  \/ PublishFails(s)

Next == \/ \E s \in Sensors : PublishStep(s)
        \/ FirstConnect \/ Reconnect \/ Connected \/ ConnectionLost \/ BrokerForgets

Spec == Init /\ [][Next]_vars

-----------------------------------------------------------------------------
(* ha_mqtt.rs:15: "Sensors whose discovery config has been sent on the       *)
(* current connection." Once its callback has run, the set says so of no     *)
(* sensor that the broker does not know, but for the one being announced.    *)
AnnouncedIsKnown ==
    up /\ callbacks = 0 =>
        \A s \in announced : \/ pub[s] \in {"announce", "config"}
                             \/ s \in lost \/ s \in known

(* ha_mqtt.rs:28-29: "Re-announce discovery configs after every (re)connect, *)
(* in case the broker lost its retained messages": when a connection lasts,  *)
(* the broker gets to know every sensor, whatever it has forgotten.          *)
AllAnnounced == <>[]up => <>[](known = Sensors)
=============================================================================

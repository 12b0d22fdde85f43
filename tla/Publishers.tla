----------------------------- MODULE Publishers -----------------------------
(* From the low resolution camera to Home Assistant: the callback with its   *)
(* detections (src/libcam/libcam.rs), the object publisher (run_mqtt_publish *)
(* of src/app/mod.rs) and the MQTT client (HaMqtt) it publishes with. The    *)
(* other publishers have sensors of their own: HaMqtt is proved for any      *)
(* number of them.                                                           *)
EXTENDS Integers, Sequences, FiniteSets, Detections

CONSTANTS Followed,    \* the classes whose sensors the model follows
          Outputs,     \* the outputs that the network may give
          Ring,        \* detections in the broadcast's ring
          MaxConnects, MaxRefusals

ASSUME PublishersAssumption == /\ Ring \in Nat \ {0}
                               /\ Outputs \subseteq Output
                               /\ MaxConnects \in Nat /\ MaxRefusals \in Nat

VARIABLES retrying, up, connects, callbacks, announced, pub, lost, refusals, known,
          queue,    \* detections that the publisher has not received
          lagged,   \* some of them are gone from the ring
          seen,     \* the last frame has detections in it
          values,   \* what a round reports
          todo,     \* the sensors it has yet to publish
          shown     \* the last state of each sensor that the broker got

Sensors == {"total"} \cup Followed

MQ == INSTANCE HaMqtt

mqtt == <<retrying, up, connects, callbacks, announced, pub, lost, refusals, known>>
camera == <<queue, lagged, seen>>
round == <<values, todo>>
vars == <<mqtt, camera, round, shown>>

NoState == -1

NoDetections == <<>>

TypeOK == /\ MQ!TypeOK
          /\ queue \in Seq({Detect(out) : out \in Outputs}) /\ Len(queue) <= Ring
          /\ \A i \in DOMAIN queue : queue[i] # NoDetections
          /\ lagged \in BOOLEAN /\ seen \in BOOLEAN
          /\ lagged => Len(queue) = Ring
          /\ todo \subseteq Sensors
          /\ values \in [Sensors -> Nat]
          /\ shown \in [Sensors -> Nat \cup {NoState}]
          /\ \A s \in Sensors : pub[s] # "idle" =>
                s \in todo /\ \A x \in Sensors \ {s} : pub[x] = "idle"

Init == /\ MQ!Init
        /\ queue = <<>> /\ lagged = FALSE /\ seen = FALSE
        /\ values = [s \in Sensors |-> 0] /\ todo = {}
        /\ shown = [s \in Sensors |-> NoState]

-----------------------------------------------------------------------------
(* callbackLowres: a frame without detections sends nothing.                 *)
Frame == \E out \in Outputs :
    /\ LET dets == Detect(out)
           full == Len(queue) = Ring
       IN /\ seen' = (dets # NoDetections)
          /\ queue' = IF dets = NoDetections THEN queue
                      ELSE Append(IF full THEN Tail(queue) ELSE queue, dets)
          /\ lagged' = (lagged \/ (dets # NoDetections /\ full))
    /\ UNCHANGED <<mqtt, round, shown>>

-----------------------------------------------------------------------------
(* run_mqtt_publish                                                          *)

Waiting == todo = {}

Report(dets) ==
    LET summary == Summarize(dets)
        reported == {"total"} \cup (DOMAIN summary \cap Followed)
    IN /\ todo' = reported
       /\ values' = [s \in Sensors |-> IF s = "total" THEN Cardinality(DOMAIN dets)
                                          ELSE IF s \in reported THEN summary[s] ELSE 0]

\* Mutant: the arm reports what the timeout's does.
TakeZero == /\ Waiting /\ queue # <<>> /\ ~lagged
            /\ queue' = Tail(queue)
            /\ Report(NoDetections)
            /\ UNCHANGED <<mqtt, lagged, seen, shown>>

Take == /\ Waiting /\ queue # <<>> /\ ~lagged
        /\ queue' = Tail(queue)
        /\ Report(Head(queue))
        /\ UNCHANGED <<mqtt, lagged, seen, shown>>

\* Lagged: the next turn gets the oldest that is left.
Lagged == /\ Waiting /\ lagged /\ lagged' = FALSE
          /\ UNCHANGED <<mqtt, queue, seen, round, shown>>

\* Nothing for OBJDET_TIMEOUT_MILLIS: all counts are 0 again.
Timeout == /\ Waiting /\ queue = <<>>
           /\ Report(NoDetections)
           /\ UNCHANGED <<mqtt, camera, shown>>

\* The total first, then the classes as the HashMap has them.
NextUp == IF "total" \in todo THEN {"total"} ELSE todo

Free == \A s \in Sensors : pub[s] = "idle"

\* What is reported goes with the arm of the match.
Done(s) == /\ todo' = todo \ {s}
           /\ values' = IF todo' = {} THEN [x \in Sensors |-> 0] ELSE values
           /\ UNCHANGED camera

\* publish, from its start to its end.
Skip(s) == /\ s \in NextUp /\ Free /\ ~up
           /\ Done(s) /\ UNCHANGED <<mqtt, shown>>

Begin(s) == /\ s \in NextUp /\ Free /\ MQ!Sample(s)
            /\ UNCHANGED <<camera, round, shown>>

Announce(s) == /\ \/ s \notin announced /\ MQ!Insert(s)
                  \/ MQ!SendConfig(s) \/ MQ!RefuseConfig(s) \/ MQ!Receive(s)
               /\ UNCHANGED <<camera, round, shown>>

Fail(s) == MQ!PublishFails(s) /\ Done(s) /\ UNCHANGED shown

\* The state goes out at QoS 0: without a connection it is lost.
SendState(s) == /\ (s \in announced /\ MQ!Insert(s)) \/ MQ!Acknowledge(s)
                /\ Done(s)
                /\ shown' = [shown EXCEPT ![s] = IF up THEN values[s] ELSE @]

LoseState(s) == MQ!RefuseState(s) /\ Done(s) /\ UNCHANGED shown

PublishStep(s) == \/ Skip(s) \/ Begin(s) \/ Announce(s) \/ Fail(s)
                  \/ SendState(s) \/ LoseState(s)

ObjectTask == Take \/ Lagged \/ Timeout \/ \E s \in Sensors : PublishStep(s)

Link(step) == step /\ UNCHANGED <<camera, round, shown>>

Next == \/ Frame \/ ObjectTask
        \/ Link(MQ!FirstConnect \/ MQ!Reconnect \/ MQ!Connected)
        \/ Link(MQ!ConnectionLost \/ MQ!BrokerForgets)

(* Every await of a publisher goes on, the timeout's included; a callback of *)
(* the library that is due runs. After Lagged the loop is back in recv long  *)
(* before the camera, which has a frame to look at each time, has filled the *)
(* ring again: it does not lag for ever. Nobody has to connect, and no frame *)
(* has to come.                                                              *)
Fairness == /\ WF_vars(ObjectTask) /\ SF_vars(Take)
            /\ WF_vars(Link(MQ!Connected))

Spec == Init /\ [][Next]_vars /\ Fairness

-----------------------------------------------------------------------------
(* ha_mqtt.rs:15: "Sensors whose discovery config has been sent on the       *)
(* current connection".                                                      *)
AnnouncedIsKnown == MQ!AnnouncedIsKnown

(* ha_mqtt.rs:28-29: "Re-announce discovery configs after every (re)connect, *)
(* in case the broker lost its retained messages": when a connection lasts,  *)
(* the broker gets to know every sensor of the publisher.                    *)
AllAnnounced == MQ!AllAnnounced

(* README.md:127: "alarm clears 5 sec after nothing seen": once nothing is   *)
(* detected any more, every count goes back to 0 and stays there, whatever   *)
(* was queued, lost or announced before, when the connection lasts.          *)
Clears == <>[]~seen /\ <>[]up => <>[](\A s \in Sensors : shown[s] = 0)

(* README.md:126: Home Assistant "should now know when an objdet occurs": as *)
(* long as detections come, they show, also when the publisher lags.         *)
DetectionsShow == []<>(queue # <<>>) /\ <>[]up => []<>(shown["total"] > 0)
=============================================================================

-------------------------- MODULE PublishersProofs --------------------------
(* The object publisher uses the MQTT client as HaMqtt describes it, so what *)
(* is proved of the client holds here, for every set of classes followed,    *)
(* every output of the network and every length of the ring.                 *)
EXTENDS Publishers, FiniteSetTheorems, TLAPS

Client == INSTANCE HaMqttProofs

\* What the publisher does to the client is a step of the client.
LEMMA ClientStep ==
    ASSUME Next
    PROVE  [Client!Next]_(Client!vars)
<1> USE DEF mqtt, Client!vars, Client!client, Client!link
<1>1. ASSUME NEW s \in Sensors, PublishStep(s)
      PROVE  UNCHANGED mqtt \/ Client!PublishStep(s)
  <2> USE DEF MQ!client, MQ!link, MQ!Goes, Client!Goes, MQ!InFlight, Client!InFlight
  <2>1. CASE Skip(s)
        BY <2>1 DEF Skip
  <2>2. CASE Begin(s)
        BY <2>2 DEF Begin, MQ!Sample, Client!Sample, Client!PublishStep
  <2>3. ASSUME MQ!Insert(s) PROVE Client!PublishStep(s)
        BY <2>3 DEF MQ!Insert, Client!Insert, Client!PublishStep
  <2>4. ASSUME MQ!SendConfig(s) PROVE Client!PublishStep(s)
        BY <2>4 DEF MQ!SendConfig, Client!SendConfig, Client!PublishStep
  <2>5. ASSUME MQ!RefuseConfig(s) PROVE Client!PublishStep(s)
        BY <2>5 DEF MQ!RefuseConfig, Client!RefuseConfig, Client!PublishStep
  <2>6. ASSUME MQ!Receive(s) PROVE Client!PublishStep(s)
        BY <2>6 DEF MQ!Receive, Client!Receive, Client!PublishStep
  <2>7. CASE Announce(s)
        BY <2>3, <2>4, <2>5, <2>6, <2>7 DEF Announce
  <2>8. CASE Fail(s)
        BY <2>8 DEF Fail, MQ!PublishFails, Client!PublishFails, Client!PublishStep
  <2>9. ASSUME MQ!Acknowledge(s) PROVE Client!PublishStep(s)
        BY <2>9 DEF MQ!Acknowledge, Client!Acknowledge, Client!PublishStep
  <2>10. CASE SendState(s)
         BY <2>3, <2>9, <2>10 DEF SendState
  <2>11. CASE LoseState(s)
         BY <2>11 DEF LoseState, MQ!RefuseState, Client!RefuseState, Client!PublishStep
  <2> QED
      BY <1>1, <2>1, <2>2, <2>7, <2>8, <2>10, <2>11 DEF PublishStep
<1>2. CASE Frame
      BY <1>2 DEF Frame
<1>3. CASE Take \/ Lagged \/ Timeout
      BY <1>3 DEF Take, Lagged, Timeout, camera
<1>4. CASE \E s \in Sensors : PublishStep(s)
      BY <1>1, <1>4 DEF Client!Next
<1>5. CASE Link(MQ!FirstConnect \/ MQ!Reconnect \/ MQ!Connected)
      BY <1>5 DEF Link, MQ!FirstConnect, MQ!Reconnect, MQ!Connected, MQ!Up, MQ!client,
         Client!FirstConnect, Client!Reconnect, Client!Connected, Client!Up, Client!Next
<1>6. CASE Link(MQ!ConnectionLost \/ MQ!BrokerForgets)
      BY <1>6 DEF Link, MQ!ConnectionLost, MQ!BrokerForgets, MQ!client, MQ!link,
         MQ!InFlight, Client!InFlight,
         Client!ConnectionLost, Client!BrokerForgets, Client!Next
<1> QED
    BY <1>2, <1>3, <1>4, <1>5, <1>6 DEF Next, ObjectTask

\* app/mod.rs:171-203: what run_mqtt_publish does to the client, one sensor after
\* the other, the client does for tasks that publish on their own.
THEOREM PublishesAsClient == Spec => Client!Spec
<1>1. Init => Client!Init
      BY DEF Init, MQ!Init, Client!Init
<1>2. [Next]_vars => [Client!Next]_(Client!vars)
      BY ClientStep DEF vars, mqtt, Client!vars, Client!client, Client!link
<1> QED
    BY <1>1, <1>2, PTL DEF Spec, Client!Spec

\* ha_mqtt.rs:15: the set holds what has been sent on the current connection.
THEOREM PublishersAnnounced == Spec => []AnnouncedIsKnown
<1>1. Client!AnnouncedIsKnown => AnnouncedIsKnown
      BY DEF Client!AnnouncedIsKnown, AnnouncedIsKnown, MQ!AnnouncedIsKnown
<1>2. Client!Spec => []Client!AnnouncedIsKnown
      BY Client!Announced
<1> QED
    BY <1>1, <1>2, PublishesAsClient, PTL

-----------------------------------------------------------------------------
(* Types: what is counted is finite, whatever the network puts out.          *)

LEMMA LeastIsThere ==
    ASSUME NEW a \in Nat, NEW b \in Nat, NEW c \in Nat, NEW d \in Nat
    PROVE  Least({a, b, c, d}) \in Nat
<1>1. \E n \in {a, b, c, d} : \A m \in {a, b, c, d} : n <= m
      OBVIOUS
<1> QED
    BY <1>1 DEF Least

\* A frame has finitely many detections.
LEMMA DetectsFinitely ==
    ASSUME NEW out \in Outputs
    PROVE  IsFiniteSet(DOMAIN Detect(out))
<1> DEFINE n == Least({out.count, Len(out.classes), Len(out.scores), out.boxes})
<1>1. n \in Nat
  <2>1. /\ out.count \in Nat /\ out.boxes \in Nat
        /\ out.classes \in Seq(Int) /\ out.scores \in Seq(Int)
        BY PublishersAssumption DEF Output
  <2>2. Len(out.classes) \in Nat /\ Len(out.scores) \in Nat
        BY <2>1
  <2> QED
      BY <2>1, <2>2, LeastIsThere
<1>2. IsFiniteSet(1 .. n)
      BY <1>1, FS_Interval
<1>3. DOMAIN Detect(out) = {k \in 1 .. n : out.scores[k] > Threshold}
      BY DEF Detect
<1> QED
    BY <1>2, <1>3, FS_Subset

\* What a round reports are numbers.
LEMMA Reported ==
    ASSUME NEW dets, IsFiniteSet(DOMAIN dets), Report(dets)
    PROVE  todo' \subseteq Sensors /\ values' \in [Sensors -> Nat]
<1>1. Cardinality(DOMAIN dets) \in Nat
      BY FS_CardinalityType
<1>2. ASSUME NEW S PROVE Cardinality({i \in DOMAIN dets : dets[i] \in S}) \in Nat
      BY FS_CardinalityType, FS_Subset
<1>3. /\ DOMAIN Summarize(dets) = DOMAIN SummaryOf
      /\ \A c \in DOMAIN SummaryOf : Summarize(dets)[c] \in Nat
      BY <1>2 DEF Summarize, Summary
<1> QED
    BY <1>1, <1>3 DEF Report, Sensors

LEMMA NothingIsFinite == IsFiniteSet(DOMAIN NoDetections)
<1>1. DOMAIN NoDetections = {}
      BY DEF NoDetections
<1> QED
    BY <1>1, FS_EmptySet

AnyDetections == {Detect(out) : out \in Outputs}

\* TypeOK, without the client's.
Own == /\ queue \in Seq(AnyDetections) /\ Len(queue) <= Ring
       /\ \A i \in DOMAIN queue : queue[i] # NoDetections
       /\ lagged \in BOOLEAN /\ seen \in BOOLEAN
       /\ lagged => Len(queue) = Ring
       /\ todo \subseteq Sensors
       /\ values \in [Sensors -> Nat]
       /\ shown \in [Sensors -> Nat \cup {NoState}]
       /\ \A s \in Sensors : pub[s] # "idle" =>
             s \in todo /\ \A x \in Sensors \ {s} : pub[x] = "idle"

LEMMA OwnBegins == Init => Own
<1> SUFFICES ASSUME Init PROVE Own
    OBVIOUS
<1>1. /\ queue \in Seq(AnyDetections) /\ Len(queue) <= Ring
      /\ \A i \in DOMAIN queue : queue[i] # NoDetections
      BY PublishersAssumption DEF Init
<1> QED
    BY <1>1 DEF Init, MQ!Init, Own

\* The ring: full, it loses its oldest.
LEMMA FrameKeeps ==
    ASSUME Own, Frame
    PROVE  Own'
<1>1. PICK out \in Outputs :
         LET dets == Detect(out)
             full == Len(queue) = Ring
         IN /\ seen' = (dets # NoDetections)
            /\ queue' = IF dets = NoDetections THEN queue
                        ELSE Append(IF full THEN Tail(queue) ELSE queue, dets)
            /\ lagged' = (lagged \/ (dets # NoDetections /\ full))
      BY DEF Frame
<1> DEFINE dets == Detect(out)
           rest == IF Len(queue) = Ring THEN Tail(queue) ELSE queue
<1>2. UNCHANGED <<pub, values, todo, shown>>
      BY DEF Frame, mqtt, round
<1>3. CASE dets = NoDetections
      BY <1>1, <1>2, <1>3 DEF Own
<1>4. CASE dets # NoDetections
  <2>1. dets \in AnyDetections
        BY DEF AnyDetections
  <2>2. Len(queue) \in Nat /\ Ring \in Nat \ {0} /\ Len(queue) <= Ring
        BY PublishersAssumption DEF Own
  <2>3. /\ rest \in Seq(AnyDetections) /\ Len(rest) < Ring
        /\ \A i \in 1 .. Len(rest) : rest[i] # NoDetections
        /\ Len(rest) = IF Len(queue) = Ring THEN Ring - 1 ELSE Len(queue)
        BY <2>2 DEF Own
  <2>4. queue' = Append(rest, dets)
        BY <1>1, <1>4
  <2> HIDE DEF dets, rest
  <2>5. /\ queue' \in Seq(AnyDetections) /\ Len(queue') = Len(rest) + 1
        /\ \A i \in DOMAIN queue' : queue'[i] # NoDetections
        BY <1>4, <2>1, <2>3, <2>4
  <2>6. lagged' \in BOOLEAN /\ seen' \in BOOLEAN
        BY <1>1
  <2>7. Len(queue') <= Ring /\ (lagged' => Len(queue') = Ring)
        BY <1>1, <2>2, <2>3, <2>5 DEF Own
  <2> QED
      BY <1>2, <2>5, <2>6, <2>7 DEF Own
<1> QED
    BY <1>3, <1>4

\* A round begins when nothing is being published.
LEMMA RoundKeeps ==
    ASSUME Own, Take \/ Lagged \/ Timeout
    PROVE  Own'
<1>1. UNCHANGED <<pub, shown, seen>>
      BY DEF Take, Lagged, Timeout, mqtt, camera
<1>2. \A s \in Sensors : pub[s] = "idle"
      BY DEF Own, Take, Lagged, Timeout, Waiting
<1>3. CASE Take
  <2>1. /\ queue' \in Seq(AnyDetections) /\ Len(queue') <= Ring
        /\ \A i \in DOMAIN queue' : queue'[i] # NoDetections
        BY <1>3, PublishersAssumption DEF Take, Own
  <2>2. Head(queue) \in AnyDetections
        BY <1>3 DEF Take, Own
  <2>3. todo' \subseteq Sensors /\ values' \in [Sensors -> Nat]
        BY <1>3, <2>2, Reported, DetectsFinitely DEF Take, AnyDetections
  <2>4. lagged' = FALSE
        BY <1>3 DEF Take, Own
  <2> QED
      BY <1>1, <1>2, <2>1, <2>3, <2>4 DEF Own
<1>4. CASE Lagged
      BY <1>1, <1>4 DEF Lagged, Own, round
<1>5. CASE Timeout
  <2>1. todo' \subseteq Sensors /\ values' \in [Sensors -> Nat]
        BY <1>5, Reported, NothingIsFinite DEF Timeout
  <2> QED
      BY <1>1, <1>2, <1>5, <2>1 DEF Timeout, Own, camera
<1> QED
    BY <1>3, <1>4, <1>5

\* A sensor that is done with is idle, and the others are.
LEMMA DoneKeeps ==
    ASSUME Own, NEW s \in Sensors, Done(s),
           pub' = [pub EXCEPT ![s] = "idle"] \/ UNCHANGED pub,
           \A x \in Sensors : pub'[x] = "idle",
           shown' \in [Sensors -> Nat \cup {NoState}]
    PROVE  Own'
BY DEF Own, Done, camera

LEMMA PublishKeeps ==
    ASSUME Own, MQ!TypeOK, NEW s \in Sensors, PublishStep(s)
    PROVE  Own'
<1> USE DEF MQ!Goes
<1>1. pub \in [Sensors -> {"idle", "connected", "announce", "config", "received"}]
      BY DEF MQ!TypeOK
<1>2. CASE Skip(s)
      BY <1>2, DoneKeeps DEF Skip, Free, Own, mqtt
<1>3. CASE Begin(s)
  <2>1. s \in todo /\ pub' = [pub EXCEPT ![s] = "connected"]
        BY <1>3 DEF Begin, NextUp, MQ!Sample
  <2>2. \A x \in Sensors \ {s} : pub'[x] = "idle"
        BY <1>1, <1>3, <2>1 DEF Begin, Free
  <2> QED
      BY <1>3, <2>1, <2>2 DEF Begin, Own, camera, round
<1>4. CASE Announce(s)
  <2>1. /\ pub[s] # "idle"
        /\ \E to \in {"announce", "config", "received"} : pub' = [pub EXCEPT ![s] = to]
        BY <1>4 DEF Announce, MQ!Insert, MQ!SendConfig, MQ!RefuseConfig, MQ!Receive
  <2>2. s \in todo /\ \A x \in Sensors \ {s} : pub'[x] = "idle"
        BY <1>1, <2>1 DEF Own
  <2> QED
      BY <1>4, <2>2 DEF Announce, Own, camera, round
<1>5. CASE Fail(s) \/ SendState(s) \/ LoseState(s)
  <2>1. Done(s) /\ pub[s] # "idle" /\ pub' = [pub EXCEPT ![s] = "idle"]
        BY <1>5 DEF Fail, MQ!PublishFails, MQ!InFlight, SendState, MQ!Insert,
           MQ!Acknowledge, LoseState, MQ!RefuseState
  <2>2. \A x \in Sensors : pub'[x] = "idle"
        BY <1>1, <2>1 DEF Own
  <2>3. shown' \in [Sensors -> Nat \cup {NoState}]
        BY <1>5 DEF Fail, SendState, LoseState, Own
  <2> QED
      BY <2>1, <2>2, <2>3, DoneKeeps
<1> QED
    BY <1>2, <1>3, <1>4, <1>5 DEF PublishStep

LEMMA OwnKeeps ==
    ASSUME Own, MQ!TypeOK, [Next]_vars
    PROVE  Own'
<1>1. CASE UNCHANGED vars
      BY <1>1 DEF vars, mqtt, camera, round, Own
<1>2. CASE ObjectTask
      BY <1>2, RoundKeeps, PublishKeeps DEF ObjectTask
<1>3. CASE \/ Link(MQ!FirstConnect \/ MQ!Reconnect \/ MQ!Connected)
           \/ Link(MQ!ConnectionLost \/ MQ!BrokerForgets)
  <2>1. UNCHANGED <<camera, round, shown, pub>>
        BY <1>3 DEF Link, MQ!FirstConnect, MQ!Reconnect, MQ!Up, MQ!Connected,
           MQ!ConnectionLost, MQ!BrokerForgets
  <2> QED
      BY <2>1 DEF Own, camera, round
<1> QED
    BY <1>1, <1>2, <1>3, FrameKeeps DEF Next

(* app/mod.rs:171-203, libcam.rs:263-281: at most one sensor is being         *)
(* published, and it is one of the round; the ring holds what it has room for, *)
(* nothing empty, and a publisher that lags finds it full; counts are numbers. *)
THEOREM PublishersTypes == Spec => []TypeOK
<1>1. Client!Spec => []Client!TypeOK
      BY Client!ClientTypes, PublishersAssumption
<1>2. Client!TypeOK => MQ!TypeOK
      BY DEF Client!TypeOK, MQ!TypeOK, Client!InFlight, MQ!InFlight
<1>3. MQ!TypeOK /\ Own => TypeOK
      BY DEF TypeOK, Own, AnyDetections
<1> QED
    BY <1>1, <1>2, <1>3, PublishesAsClient, OwnBegins, OwnKeeps, PTL DEF Spec
=============================================================================

---------------------------- MODULE HaMqttProofs ----------------------------
(* What counts as announced is, for any set of sensors, each published by a  *)
(* task of its own, and any number of connections.                           *)
EXTENDS HaMqtt, TLAPS

\* Only a message on its way can be lost; due callbacks are counted.
LostInv == lost \subseteq {s \in Sensors : InFlight(s)} /\ callbacks \in Nat

IInv == /\ pub \in [Sensors -> {"idle", "connected", "announce", "config", "received"}]
        /\ announced \subseteq Sensors
        /\ LostInv /\ AnnouncedIsKnown

LEMMA InitInv == Init => IInv
BY DEF Init, IInv, LostInv, InFlight, AnnouncedIsKnown

\* A step of a publish: only its own sensor changes.
LEMMA PublishKeeps ==
    ASSUME IInv, NEW s \in Sensors, PublishStep(s)
    PROVE  IInv'
<1> USE DEF IInv, LostInv, InFlight, AnnouncedIsKnown, Goes, client, link
<1>1. CASE Sample(s)
      BY <1>1 DEF Sample
<1>2. CASE Insert(s)
      BY <1>2 DEF Insert
<1>3. CASE SendConfig(s)
      BY <1>3 DEF SendConfig
<1>4. CASE RefuseConfig(s)
      BY <1>4 DEF RefuseConfig
<1>5. CASE Receive(s)
      BY <1>5 DEF Receive
<1>6. CASE Acknowledge(s)
      BY <1>6 DEF Acknowledge
<1>7. CASE RefuseState(s)
      BY <1>7 DEF RefuseState
<1>8. CASE PublishFails(s)
      BY <1>8 DEF PublishFails
<1> QED
    BY <1>1, <1>2, <1>3, <1>4, <1>5, <1>6, <1>7, <1>8 DEF PublishStep

\* The connection: it comes up with a callback due, which empties the set.
LEMMA LinkKeeps ==
    ASSUME IInv,
           FirstConnect \/ Reconnect \/ Connected \/ ConnectionLost \/ BrokerForgets
    PROVE  IInv'
<1> USE DEF IInv, LostInv, InFlight, AnnouncedIsKnown, client, link
<1>1. CASE FirstConnect \/ Reconnect
      BY <1>1 DEF FirstConnect, Reconnect, Up
<1>2. CASE Connected
      BY <1>2 DEF Connected
<1>3. CASE ConnectionLost
      BY <1>3 DEF ConnectionLost
<1>4. CASE BrokerForgets
      BY <1>4 DEF BrokerForgets
<1> QED
    BY <1>1, <1>2, <1>3, <1>4

\* ha_mqtt.rs:15: the set holds what has been sent on the current connection.
THEOREM Announced == Spec => []AnnouncedIsKnown
<1>1. IInv /\ [Next]_vars => IInv'
  <2> SUFFICES ASSUME IInv, [Next]_vars PROVE IInv'
      OBVIOUS
  <2>1. CASE Next
        BY <2>1, PublishKeeps, LinkKeeps DEF Next
  <2>2. CASE UNCHANGED vars
        BY <2>2 DEF vars, client, link, IInv, LostInv, InFlight, AnnouncedIsKnown
  <2> QED
      BY <2>1, <2>2
<1>2. IInv => AnnouncedIsKnown
      BY DEF IInv
<1> QED
    BY InitInv, <1>1, <1>2, PTL DEF Spec

-----------------------------------------------------------------------------
(* Types. The bounds are those that the model has.                           *)

LEMMA PublishTyped ==
    ASSUME MaxRefusals \in Nat, TypeOK, NEW s \in Sensors, PublishStep(s)
    PROVE  TypeOK'
<1> USE DEF TypeOK, InFlight, Goes, client, link
<1>1. CASE Sample(s) \/ SendConfig(s)
      BY <1>1 DEF Sample, SendConfig
<1>2. CASE Insert(s)
      BY <1>2 DEF Insert
<1>3. CASE RefuseConfig(s)
      BY <1>3 DEF RefuseConfig
<1>4. CASE Receive(s)
      BY <1>4 DEF Receive
<1>5. CASE Acknowledge(s)
      BY <1>5 DEF Acknowledge
<1>6. CASE RefuseState(s)
      BY <1>6 DEF RefuseState
<1>7. CASE PublishFails(s)
      BY <1>7 DEF PublishFails
<1> QED
    BY <1>1, <1>2, <1>3, <1>4, <1>5, <1>6, <1>7 DEF PublishStep

LEMMA LinkTyped ==
    ASSUME MaxConnects \in Nat, TypeOK,
           FirstConnect \/ Reconnect \/ Connected \/ ConnectionLost \/ BrokerForgets
    PROVE  TypeOK'
<1> USE DEF TypeOK, InFlight, client, link
<1>1. CASE FirstConnect \/ Reconnect
  <2>1. /\ connects' \in 0 .. MaxConnects /\ callbacks' \in 0 .. connects'
        /\ ~retrying' /\ up' = TRUE
        BY <1>1 DEF FirstConnect, Reconnect, Up
  <2>2. retrying' \in BOOLEAN
        BY <1>1, Zenon DEF FirstConnect, Reconnect
  <2> QED
      BY <1>1, <2>1, <2>2 DEF FirstConnect, Reconnect, Up
<1>2. CASE Connected
      BY <1>2 DEF Connected
<1>3. CASE ConnectionLost
      BY <1>3 DEF ConnectionLost
<1>4. CASE BrokerForgets
      BY <1>4 DEF BrokerForgets
<1> QED
    BY <1>1, <1>2, <1>3, <1>4

\* ha_mqtt.rs:23-118: nothing tries to connect any more once the client has been
\* connected, a callback is due only for a connection that was made, and what
\* is lost is on its way.
THEOREM ClientTypes ==
    ASSUME MaxConnects \in Nat, MaxRefusals \in Nat
    PROVE  Spec => []TypeOK
<1>1. Init => TypeOK
  <2> SUFFICES ASSUME Init PROVE TypeOK
      OBVIOUS
  <2>1. /\ connects \in 0 .. MaxConnects /\ callbacks \in 0 .. connects
        /\ refusals \in 0 .. MaxRefusals
        BY DEF Init
  <2> QED
      BY <2>1 DEF Init, TypeOK, InFlight
<1>2. TypeOK /\ [Next]_vars => TypeOK'
  <2> SUFFICES ASSUME TypeOK, [Next]_vars PROVE TypeOK'
      OBVIOUS
  <2>1. CASE Next
        BY <2>1, PublishTyped, LinkTyped DEF Next
  <2>2. CASE UNCHANGED vars
        BY <2>2 DEF vars, client, link, TypeOK, InFlight
  <2> QED
      BY <2>1, <2>2
<1> QED
    BY <1>1, <1>2, PTL DEF Spec
=============================================================================

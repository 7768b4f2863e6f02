-------------------------- MODULE SimControlMqttProofs --------------------------
(* Theorems about SimControlMqtt, for every number of reconfigurations and  *)
(* failures.                                                                *)
EXTENDS SimControlMqtt, TLAPS

(***************************************************************************)
(* A connector's locked part is ahead of it, or the last one to pass it    *)
(* took the configuration of now: the handler replaces _config only after  *)
(* disconnect(), and spawns a connector in the same step.                  *)
(***************************************************************************)
Spawning ==
    /\ \A i \in Calls : call[i] = "none" <=> i > config + 1
    /\ handler # "idle" => config < MaxReconfigures

Fresh ==
    handler = "idle" =>
        \/ Current /\ built[client] = config /\ ~stop
        \/ \E i \in Calls : call[i] = "spawned"

MqttInv == TypeOK /\ Spawning /\ Fresh

LEMMA MqttInit == Init => MqttInv
<1> SUFFICES ASSUME Init PROVE MqttInv
  OBVIOUS
<1>1. MaxReconfigures \in Nat /\ MaxFailures \in Nat /\ 1 \in Calls
  BY SimControlMqttAssumption DEF Calls
<1>2. TypeOK
  <2>1. call \in [Calls -> CallPcs]
    BY DEF Init, CallPcs
  <2>2. built \in [Calls -> 0..MaxReconfigures] /\ link \in [Calls -> Links]
    BY <1>1 DEF Init, Links
  <2>3. connected = FALSE /\ stop = FALSE /\ client = NoClient /\ old = NoClient
    BY DEF Init
  <2>4. {connected, stop} \subseteq BOOLEAN /\ {client, old} \subseteq Calls \cup {NoClient}
    BY <2>3
  <2>5. config \in 0..MaxReconfigures /\ failures \in 0..MaxFailures
    BY <1>1 DEF Init
  <2>6. handler \in Handlers /\ publisher \in {"connecting", "loop", "checked", "dead"}
    BY DEF Init, Handlers
  <2> QED BY <2>1, <2>2, <2>4, <2>5, <2>6 DEF TypeOK
<1>3. \A i \in Calls : call[i] = "none" <=> i > config + 1
  <2>1. ASSUME NEW i \in Calls PROVE call[i] = "none" <=> i > config + 1
    <3>1. call[i] = (IF i = 1 THEN "spawned" ELSE "none") /\ config = 0
      BY DEF Init, Publisher
    <3>2. i \in Nat /\ i >= 1
      BY <1>1 DEF Calls
    <3> QED BY <3>1, <3>2
  <2> QED BY <2>1
<1>4. call[1] = "spawned" /\ handler = "idle"
  BY <1>1 DEF Init, Publisher
<1> QED BY <1>1, <1>2, <1>3, <1>4 DEF MqttInv, Spawning, Fresh

(* A connector past its locked part takes another of its steps.            *)
LEMMA ConnectorStep ==
    ASSUME MqttInv, NEW i \in Calls, NEW s \in CallPcs \ {"none", "spawned"},
           call[i] \notin {"none", "spawned"}, Goto(i, s),
           link' \in [Calls -> Links], failures' \in 0..MaxFailures,
           UNCHANGED <<connected, stop, client, config, built, handler, old, publisher>>
    PROVE  MqttInv'
<1>1. call' \in [Calls -> CallPcs] /\ \A j \in Calls : call'[j] = IF j = i THEN s ELSE call[j]
  BY DEF MqttInv, TypeOK, Goto
<1>2. TypeOK'
  BY <1>1 DEF MqttInv, TypeOK
<1>3. Spawning'
  BY <1>1 DEF MqttInv, Spawning
<1>4. Fresh'
  BY <1>1 DEF MqttInv, Fresh, Current
<1> QED BY <1>2, <1>3, <1>4 DEF MqttInv

(* A callback, or a step of the publish loop.                              *)
LEMMA OtherStep ==
    ASSUME MqttInv, link' \in [Calls -> Links], failures' \in 0..MaxFailures,
           connected' \in BOOLEAN,
           publisher' \in {"connecting", "loop", "checked", "dead"},
           UNCHANGED <<stop, client, config, built, call, handler, old>>
    PROVE  MqttInv'
<1>1. {connected', stop'} \subseteq BOOLEAN
  BY DEF MqttInv, TypeOK
<1>2. TypeOK'
  BY <1>1 DEF MqttInv, TypeOK
<1>3. Spawning' /\ Fresh'
  BY DEF MqttInv, Spawning, Fresh, Current
<1> QED BY <1>2, <1>3 DEF MqttInv

LEMMA MqttStep == MqttInv /\ [Next]_vars => MqttInv'
<1> SUFFICES ASSUME MqttInv, [Next]_vars PROVE MqttInv'
  OBVIOUS
<1>0. /\ connected \in BOOLEAN /\ stop \in BOOLEAN
      /\ client \in Calls \cup {NoClient} /\ old \in Calls \cup {NoClient}
      /\ config \in 0..MaxReconfigures /\ built \in [Calls -> 0..MaxReconfigures]
      /\ link \in [Calls -> Links] /\ call \in [Calls -> CallPcs]
      /\ handler \in Handlers /\ failures \in 0..MaxFailures
      /\ publisher \in {"connecting", "loop", "checked", "dead"}
      /\ MaxReconfigures \in Nat /\ MaxFailures \in Nat
      /\ Spawning /\ Fresh
  BY SimControlMqttAssumption DEF MqttInv, TypeOK
<1>1. \A i \in Calls : Fail(i) => failures' \in 0..MaxFailures
  BY <1>0 DEF Fail
<1>2. ASSUME NEW i \in Calls PROVE Connect(i) => MqttInv'
  <2>1. CASE Build(i)
    <3>1. /\ call[i] = "spawned" /\ ~stop' /\ stop' \in BOOLEAN /\ client' = i
          /\ built' = [built EXCEPT ![i] = config]
          /\ call' = [call EXCEPT ![i] = "head"]
          /\ UNCHANGED <<connected, config, link, handler, old, publisher, failures>>
      BY <2>1 DEF Build, Goto
    <3>2. {connected', stop'} \subseteq BOOLEAN /\ {client', old'} \subseteq Calls \cup {NoClient}
      BY <3>1, <1>0
    <3>3. call' \in [Calls -> CallPcs] /\ built' \in [Calls -> 0..MaxReconfigures]
      BY <3>1, <1>0 DEF CallPcs
    <3>4. TypeOK'
      BY <3>1, <3>2, <3>3, <1>0 DEF TypeOK
    <3>5. Spawning'
      BY <3>1, <1>0 DEF Spawning
    <3>6. i # 0 /\ built'[i] = config
      BY <3>1, <1>0 DEF Calls
    <3>7. Fresh'
      BY <3>1, <3>6, <1>0 DEF Fresh, Current, NoClient
    <3> QED BY <3>4, <3>5, <3>7 DEF MqttInv
  <2>2. CASE Head(i)
    <3>1. CASE stop
      BY <2>2, <3>1, <1>0, ConnectorStep DEF Head, Goto, CallPcs, clients
    <3>2. CASE ~stop
      BY <2>2, <3>2, <1>0, ConnectorStep DEF Head, Goto, CallPcs, clients
    <3> QED BY <3>1, <3>2
  <2>3. CASE LoopStart(i)
    <3>1. link' \in [Calls -> Links]
      BY <2>3, <1>0 DEF LoopStart, Links
    <3> QED BY <2>3, <3>1, <1>0, ConnectorStep DEF LoopStart, CallPcs
  <2>4. CASE ConnectRaises(i)
    BY <2>4, <1>0, <1>1, ConnectorStep DEF ConnectRaises, CallPcs, clients
  <2>5. CASE WaitSucceeds(i)
    BY <2>5, <1>0, ConnectorStep DEF WaitSucceeds, CallPcs, clients
  <2>6. CASE WaitFails(i)
    BY <2>6, <1>0, <1>1, ConnectorStep DEF WaitFails, CallPcs, clients
  <2>7. CASE LoopStop(i)
    <3>1. link' \in [Calls -> Links]
      BY <2>7, <1>0 DEF LoopStop, Links
    <3> QED BY <2>7, <3>1, <1>0, ConnectorStep DEF LoopStop, CallPcs
  <2>8. CASE WakeUp(i)
    BY <2>8, <1>0, ConnectorStep DEF WakeUp, CallPcs, clients
  <2> QED BY <2>1, <2>2, <2>3, <2>4, <2>5, <2>6, <2>7, <2>8 DEF Connect
<1>3. ASSUME NEW i \in Calls PROVE OnConnect(i) \/ OnDisconnect(i) => MqttInv'
  <2>1. CASE OnConnect(i)
    <3>1. link' \in [Calls -> Links]
      BY <2>1, <1>0 DEF OnConnect, Links
    <3> QED BY <2>1, <3>1, <1>0, OtherStep DEF OnConnect
  <2>2. CASE OnDisconnect(i)
    <3>1. link' \in [Calls -> Links]
      BY <2>2, <1>0 DEF OnDisconnect, Links
    <3> QED BY <2>2, <3>1, <1>0, <1>1, OtherStep DEF OnDisconnect
  <2> QED BY <2>1, <2>2
<1>4. CASE TakeClient
  <2>1. /\ handler = "idle" /\ \E i \in Calls : call[i] = "none"
        /\ stop' = TRUE /\ old' = client /\ client' = NoClient /\ connected' = FALSE
        /\ handler' = "stopping"
        /\ UNCHANGED <<config, built, link, call, publisher, failures>>
    BY <1>4 DEF TakeClient, clients
  <2>2. PICK i \in Calls : call[i] = "none"
    BY <2>1
  <2>3. i > config + 1
    BY <2>2, <1>0 DEF Spawning
  <2>4. config < MaxReconfigures
    BY <2>3, <1>0 DEF Calls
  <2>5. TypeOK'
    <3>1. {connected', stop'} \subseteq BOOLEAN /\ {client', old'} \subseteq Calls \cup {NoClient}
      BY <2>1, <1>0
    <3> QED BY <2>1, <3>1, <1>0 DEF TypeOK, Handlers
  <2>6. Spawning' /\ Fresh'
    BY <2>1, <2>4, <1>0 DEF Spawning, Fresh
  <2> QED BY <2>5, <2>6 DEF MqttInv
<1>5. CASE StopClient
  <2>1. /\ handler = "stopping" /\ handler' = "starting" /\ old' = NoClient
        /\ UNCHANGED <<stop, client, config, built, call, publisher, failures>>
    BY <1>5 DEF StopClient
  <2>2. link' \in [Calls -> Links] /\ connected' \in BOOLEAN
    <3>1. CASE old = NoClient
      BY <1>5, <3>1, <1>0 DEF StopClient
    <3>2. CASE old # NoClient
      <4>1. /\ link' = [link EXCEPT ![old] = "idle"]
            /\ connected' = IF link[old] = "up" THEN FALSE ELSE connected
        BY <1>5, <3>2 DEF StopClient
      <4>2. link' \in [Calls -> Links]
        BY <4>1, <1>0 DEF Links
      <4>3. connected' \in BOOLEAN
        <5>1. CASE link[old] = "up"
          BY <4>1, <5>1
        <5>2. CASE link[old] # "up"
          BY <4>1, <5>2, <1>0
        <5> QED BY <5>1, <5>2
      <4> QED BY <4>2, <4>3
    <3> QED BY <3>1, <3>2
  <2>3. TypeOK'
    <3>1. {connected', stop'} \subseteq BOOLEAN /\ {client', old'} \subseteq Calls \cup {NoClient}
      BY <2>1, <2>2, <1>0
    <3> QED BY <2>1, <2>2, <3>1, <1>0 DEF TypeOK, Handlers
  <2>4. Spawning' /\ Fresh'
    BY <2>1, <1>0 DEF Spawning, Fresh
  <2> QED BY <2>3, <2>4 DEF MqttInv
<1>6. CASE StartConnector
  <2>1. /\ handler = "starting" /\ config' = config + 1 /\ handler' = "idle"
        /\ call' = [call EXCEPT ![config + 2] = "spawned"]
        /\ UNCHANGED <<connected, stop, client, built, link, old, publisher, failures>>
    <3>1. (config + 1) + 1 = config + 2
      BY <1>0
    <3> QED BY <1>6, <3>1 DEF StartConnector, clients
  <2>2. config < MaxReconfigures /\ config \in Nat
    BY <2>1, <1>0 DEF Spawning
  <2>3. config + 2 \in Calls /\ config' \in 0..MaxReconfigures
    BY <2>1, <2>2, <1>0 DEF Calls
  <2>4. \A j \in Calls : call'[j] = IF j = config + 2 THEN "spawned" ELSE call[j]
    BY <2>1, <1>0
  <2>5. TypeOK'
    <3>1. {connected', stop'} \subseteq BOOLEAN /\ {client', old'} \subseteq Calls \cup {NoClient}
      BY <2>1, <1>0
    <3>2. call' \in [Calls -> CallPcs]
      BY <2>1, <1>0 DEF CallPcs
    <3> QED BY <2>1, <2>3, <3>1, <3>2, <1>0 DEF TypeOK, Handlers
  <2>6. Spawning'
    <3>1. ASSUME NEW j \in Calls PROVE call'[j] = "none" <=> j > config' + 1
      <4>1. j \in Nat
        BY <1>0 DEF Calls
      <4>2. call[j] = "none" <=> j > config + 1
        BY <1>0 DEF Spawning
      <4> QED BY <4>1, <4>2, <2>1, <2>2, <2>4
    <3> QED BY <3>1, <2>1 DEF Spawning
  <2>7. Fresh'
    BY <2>3, <2>4 DEF Fresh
  <2> QED BY <2>5, <2>6, <2>7 DEF MqttInv
<1>7. CASE Publish
  <2>1. /\ publisher' \in {"connecting", "loop", "checked", "dead"}
        /\ UNCHANGED <<connected, stop, client, config, built, link, call, handler,
                       old, failures>>
    BY <1>7 DEF Publish, PublisherConnected, PublishTest, PublishCall, clients
  <2> QED BY <2>1, <1>0, OtherStep
<1>8. CASE UNCHANGED vars
  BY <1>8, <1>0, OtherStep DEF vars, clients
<1> QED BY <1>2, <1>3, <1>4, <1>5, <1>6, <1>7, <1>8 DEF Next, Reconfigure

(* Every variable stays in its type (mqtt_client.py 41-171).               *)
THEOREM TypeCorrect == Spec => []TypeOK
<1>1. MqttInv => TypeOK
  BY DEF MqttInv
<1> QED BY <1>1, MqttInit, MqttStep, PTL DEF Spec

(* In whatever order the connectors of any number of reconfigurations run, *)
(* once all have passed their locked part the client in use has the newest *)
(* configuration and may run (mqtt_client.py 55-61, 91-96).                *)
THEOREM NewestConfigIsUsed == Spec => []NewestConfigWins
<1>1. MqttInv => NewestConfigWins
  BY DEF MqttInv, Fresh, NewestConfigWins, Settled
<1> QED BY <1>1, MqttInit, MqttStep, PTL DEF Spec
=============================================================================

----------------------------- MODULE SimulatorProofs ----------------------------
(* Theorems about the simulator: its tick loop, for any buildings, sensors  *)
(* and durations, and its zones beside the dataset generator.               *)
EXTENDS Simulator, DatasetGenerator, FiniteSetTheorems, WellFoundedInduction, TLAPS

(***************************************************************************)
(* A request numbers its override with a number no tick has begun with, a  *)
(* tick starts with nothing sent, and what it sends goes through           *)
(* _apply_override last.                                                   *)
(***************************************************************************)
Numbered ==
    /\ requests \in Nat
    /\ before \subseteq 1..requests
    /\ \A b \in DOMAIN overrides : overrides[b].id \in 1..requests

Silent == pc \notin {"publish", "dead"} => sent = Nothing

Governs(s) ==
    /\ s[1] \in DOMAIN overrides
    /\ overrides[s[1]].id \in before
    /\ overrides[s[1]].ticks_remaining > 0
    /\ s[2] \in overrides[s[1]].types

Sends(s) == sent[s] \in {None, Anomalous, Overridden(overrides[s[1]].id)}

Honoured == pc = "publish" => \A s \in Sensors : Governs(s) => Sends(s)

HonouredInv == Numbered /\ Silent /\ Honoured /\ DOMAIN sent = Sensors

LEMMA HonouredInit == Init => HonouredInv
<1> SUFFICES ASSUME Init PROVE HonouredInv
  OBVIOUS
<1>1. /\ DOMAIN overrides = {} /\ requests = 0 /\ before = {}
      /\ sent = Nothing /\ pc = "top"
  BY DEF Init
<1>2. DOMAIN sent = Sensors
  BY <1>1 DEF Nothing
<1> QED BY <1>1, <1>2 DEF HonouredInv, Numbered, Silent, Honoured

(* A request leaves an override alone, removes it, or puts a new one in     *)
(* its place; no request and no step of a pass gives ticks back.            *)
LEMMA OverridesStep ==
    ASSUME HonouredInv, UNCHANGED <<pc, sent, before>>,
           requests' \in {requests, requests + 1},
           \A b \in DOMAIN overrides' :
              \/ b \in DOMAIN overrides /\ overrides'[b] = overrides[b]
              \/ overrides'[b].id = requests + 1 /\ requests' = requests + 1
    PROVE  HonouredInv'
<1>0. /\ requests \in Nat /\ before \subseteq 1..requests
      /\ \A b \in DOMAIN overrides : overrides[b].id \in 1..requests
      /\ Silent /\ Honoured /\ DOMAIN sent = Sensors
  BY DEF HonouredInv, Numbered
<1>1. 1..requests \subseteq 1..requests' /\ requests' \in Nat
      /\ requests + 1 \in 1..(requests + 1) /\ requests + 1 \notin 1..requests
  BY <1>0
<1>2. \A b \in DOMAIN overrides' : overrides'[b].id \in 1..requests'
  BY <1>0, <1>1
<1>3. ASSUME NEW s \in Sensors, pc = "publish", Governs(s)' PROVE Sends(s)'
  <2>1. s[1] \in DOMAIN overrides' /\ overrides'[s[1]].id \in before
    BY <1>3 DEF Governs
  <2>2. s[1] \in DOMAIN overrides /\ overrides'[s[1]] = overrides[s[1]]
    BY <2>1, <1>0, <1>1
  <2>3. Governs(s)
    BY <2>2, <1>3 DEF Governs
  <2> QED BY <2>2, <2>3, <1>0, <1>3 DEF Honoured, Sends
<1>4. Honoured'
  BY <1>3 DEF Honoured
<1> QED BY <1>0, <1>1, <1>2, <1>4 DEF HonouredInv, Numbered, Silent

LEMMA RequestStep == HonouredInv /\ HandleRequest => HonouredInv'
<1> SUFFICES ASSUME HonouredInv, HandleRequest PROVE HonouredInv'
  OBVIOUS
<1>1. CASE ToggleSim \/ \E s \in Sensors : EnableSensor(s) \/ DisableSensor(s)
  <2>1. overrides' = overrides /\ requests' = requests + 1 /\ UNCHANGED <<pc, sent, before>>
    BY <1>1 DEF ToggleSim, EnableSensor, DisableSensor, Request, ticking
  <2> QED BY <2>1, OverridesStep
<1>2. ASSUME NEW b \in Buildings, ClearOverride(b) PROVE HonouredInv'
  <2>1. overrides' = Without(b) /\ requests' = requests + 1 /\ UNCHANGED <<pc, sent, before>>
    BY <1>2 DEF ClearOverride, Request, ticking
  <2> QED BY <2>1, OverridesStep DEF Without
<1>3. ASSUME NEW b \in Buildings, NEW types \in OverrideTypes, NEW n \in 1..MaxTicks,
             SetOverride(b, types, n)
      PROVE  HonouredInv'
  <2>1. requests' = requests + 1 /\ UNCHANGED <<pc, sent, before>>
    BY <1>3 DEF SetOverride, Request, ticking
  <2>2. DOMAIN overrides' = DOMAIN overrides \cup {b}
    BY <1>3 DEF SetOverride
  <2>3. /\ \A c \in DOMAIN overrides' : c # b => overrides'[c] = overrides[c]
        /\ overrides'[b].id = requests'
    BY <1>3, <2>2 DEF SetOverride
  <2> QED BY <2>1, <2>2, <2>3, OverridesStep
<1> QED BY <1>1, <1>2, <1>3 DEF HandleRequest

(* A reading is the override's, the injector's, or one no override governs. *)
LEMMA PublishStep ==
    ASSUME HonouredInv, NEW t \in Sensors, NEW v, Publish(t, v), pc = "publish",
           UNCHANGED <<pc, overrides, before, requests>>
    PROVE  HonouredInv'
<1>0. DOMAIN sent = Sensors /\ Honoured /\ Numbered
  BY DEF HonouredInv
<1>1. PICK w \in Injected(ApplyOverride(t, v)) :
         sent' = IF connected THEN [sent EXCEPT ![t] = w] ELSE sent
  BY DEF Publish
<1>2. Governs(t) => w \in {Anomalous, Overridden(overrides[t[1]].id)}
  <2>1. w = ApplyOverride(t, v) \/ w = Anomalous
    BY <1>1 DEF Injected
  <2>2. Governs(t) => ApplyOverride(t, v) = Overridden(overrides[t[1]].id)
    BY DEF Governs, ApplyOverride
  <2> QED BY <2>1, <2>2
<1>3. /\ DOMAIN sent' = Sensors
      /\ \A s \in Sensors : sent'[s] = sent[s] \/ (s = t /\ sent'[s] = w)
  BY <1>0, <1>1
<1>4. ASSUME NEW s \in Sensors, Governs(s)' PROVE Sends(s)'
  <2>1. Governs(s)
    BY <1>4 DEF Governs
  <2>2. Sends(s)
    BY <2>1, <1>0 DEF Honoured
  <2> QED BY <2>1, <2>2, <1>2, <1>3 DEF Sends
<1>5. Honoured'
  BY <1>4 DEF Honoured
<1> QED BY <1>0, <1>3, <1>5 DEF HonouredInv, Numbered, Silent

(* Any other step in which no override gets a new value.                   *)
LEMMA QuietStep ==
    ASSUME HonouredInv, UNCHANGED <<overrides, requests>>,
           before' \subseteq 1..requests,
           \/ UNCHANGED <<pc, sent, before>>
           \/ pc' \notin {"publish", "dead"} /\ sent' = Nothing
           \/ pc' = "publish" /\ sent' = Nothing
           \/ pc' = "dead" /\ sent' = sent
    PROVE  HonouredInv'
<1>0. DOMAIN Nothing = Sensors /\ \A s \in Sensors : Nothing[s] = None
  BY DEF Nothing
<1>1. Numbered' /\ Silent' /\ DOMAIN sent' = Sensors
  BY <1>0 DEF HonouredInv, Numbered, Silent
<1>2. Honoured'
  <2>1. CASE UNCHANGED <<pc, sent, before>>
    BY <2>1 DEF HonouredInv, Honoured, Governs, Sends
  <2>2. CASE sent' = Nothing
    BY <2>2, <1>0 DEF Honoured, Sends
  <2>3. CASE pc' \notin {"publish"}
    BY <2>3 DEF Honoured
  <2> QED BY <2>1, <2>2, <2>3
<1> QED BY <1>1, <1>2 DEF HonouredInv

LEMMA PassStep ==
    ASSUME HonouredInv, NEW s \in Sensors, Pass(s) PROVE HonouredInv'
<1>0. before \subseteq 1..requests
  BY DEF HonouredInv, Numbered
<1>1. CASE SkipOccupancy(s) \/ SkipSensor(s) \/ (\E works \in BOOLEAN : ReadOccupancy(s, works))
  <2>1. UNCHANGED <<overrides, requests, pc, sent, before>>
    BY <1>1 DEF SkipOccupancy, SkipSensor, ReadOccupancy, Turn, control
  <2> QED BY <2>1, <1>0, QuietStep
<1>2. CASE PublishOccupancy(s)
  <2>1. /\ pc = "publish" /\ UNCHANGED <<pc, overrides, before, requests>>
        /\ Publish(s, occ[s])
    BY <1>2 DEF PublishOccupancy, Turn, control
  <2> QED BY <2>1, PublishStep
<1>3. ASSUME NEW works \in BOOLEAN, ReadAndPublish(s, works) PROVE HonouredInv'
  <2>1. /\ pc = "publish" /\ UNCHANGED <<pc, overrides, before, requests>>
        /\ Publish(s, Sampled) \/ sent' = sent
    BY <1>3 DEF ReadAndPublish, Turn, control
  <2>2. CASE Publish(s, Sampled)
    BY <2>1, <2>2, PublishStep
  <2>3. CASE sent' = sent
    BY <2>1, <2>3, <1>0, QuietStep
  <2> QED BY <2>1, <2>2, <2>3
<1> QED BY <1>1, <1>2, <1>3 DEF Pass

(* While the overrides age nothing is sent; an override keeps its number.  *)
LEMMA AgeingStep ==
    ASSUME HonouredInv, pc \in Ageing, UNCHANGED <<requests, sent, before>>,
           pc' \notin {"publish", "dead"},
           \A b \in DOMAIN overrides' :
              b \in DOMAIN overrides /\ overrides'[b].id = overrides[b].id
    PROVE  HonouredInv'
<1>1. sent' = Nothing
  BY DEF HonouredInv, Silent, Ageing
<1>2. Numbered' /\ Silent' /\ Honoured'
  BY <1>1 DEF HonouredInv, Numbered, Silent, Honoured
<1> QED BY <1>2 DEF HonouredInv

LEMMA LoopStep == HonouredInv /\ Loop => HonouredInv'
<1> SUFFICES ASSUME HonouredInv, Loop PROVE HonouredInv'
  OBVIOUS
<1>0. /\ before \subseteq 1..requests /\ Silent
      /\ \A b \in DOMAIN overrides : overrides[b].id \in 1..requests
  BY DEF HonouredInv, Numbered
<1>1. CASE BeginTick
  <2>1. /\ pc = "top" /\ pc' = "occupancy" /\ before' = InForce
        /\ UNCHANGED <<overrides, requests, sent>>
    BY <1>1 DEF BeginTick, control
  <2>2. before' \subseteq 1..requests
    BY <2>1, <1>0 DEF InForce
  <2> QED BY <2>1, <2>2, <1>0, QuietStep DEF Silent
<1>2. CASE EndOccupancy
  <2>1. pc = "occupancy" /\ pc' = "publish" /\ UNCHANGED <<overrides, requests, sent, before>>
    BY <1>2 DEF EndOccupancy, control, history
  <2> QED BY <2>1, <1>0, QuietStep DEF Silent
<1>3. CASE StartScan
  <2>1. pc' = "scan" /\ sent' = Nothing /\ UNCHANGED <<overrides, requests, before>>
    BY <1>3 DEF StartScan, control
  <2> QED BY <2>1, <1>0, QuietStep
<1>4. CASE IteratorRaises \/ \E b \in Buildings : DeleteRaises(b)
  <2>1. pc' = "dead" /\ UNCHANGED <<overrides, requests, sent, before>>
    BY <1>4 DEF IteratorRaises, DeleteRaises, control, history
  <2> QED BY <2>1, <1>0, QuietStep
<1>5. CASE EndScan \/ StartDecrement
  <2>1. /\ pc \in Ageing /\ pc' \in Ageing
        /\ UNCHANGED <<overrides, requests, sent, before>>
    BY <1>5 DEF EndScan, StartDecrement, control, history, Ageing
  <2> QED BY <2>1, AgeingStep DEF Ageing
<1>6. CASE EndDecrement
  <2>1. /\ pc \in Ageing /\ pc' = "top" /\ UNCHANGED <<requests, sent, before>>
        /\ overrides' = [b \in DOMAIN overrides |->
              [overrides[b] EXCEPT !.age = IF @ > MaxTicks THEN @ ELSE @ + 1]]
    BY <1>6 DEF EndDecrement, history, Ageing
  <2>2. \A b \in DOMAIN overrides' :
           b \in DOMAIN overrides /\ overrides'[b].id = overrides[b].id
    <3>1. ASSUME NEW b \in DOMAIN overrides'
          PROVE  b \in DOMAIN overrides /\ overrides'[b].id = overrides[b].id
      <4>1. b \in DOMAIN overrides
        BY <2>1
      <4> DEFINE age == IF overrides[b].age > MaxTicks THEN overrides[b].age
                        ELSE overrides[b].age + 1
      <4>2. overrides'[b] = [overrides[b] EXCEPT !.age = age]
        BY <2>1, <4>1
      <4> HIDE DEF age
      <4> QED BY <4>1, <4>2
    <3> QED BY <3>1
  <2> QED BY <2>1, <2>2, AgeingStep
<1>7. ASSUME NEW b \in Buildings, Scan(b) \/ DeleteExpired(b) \/ Decrement(b)
      PROVE  HonouredInv'
  <2>1. pc \in Ageing /\ pc' = pc /\ UNCHANGED <<requests, sent, before>>
    BY <1>7 DEF Scan, DeleteExpired, Decrement, history, Ageing
  <2>2. \A c \in DOMAIN overrides' :
           c \in DOMAIN overrides /\ overrides'[c].id = overrides[c].id
    <3>1. CASE Scan(b)
      BY <3>1 DEF Scan, control
    <3>2. CASE DeleteExpired(b)
      BY <3>2 DEF DeleteExpired, Without
    <3>3. CASE Decrement(b)
      BY <3>3 DEF Decrement, Unseen
    <3> QED BY <1>7, <3>1, <3>2, <3>3
  <2> QED BY <2>1, <2>2, AgeingStep DEF Ageing
<1>8. CASE \E s \in Sensors : Pass(s)
  BY <1>8, PassStep
<1> QED BY <1>1, <1>2, <1>3, <1>4, <1>5, <1>6, <1>7, <1>8 DEF Loop, Age

LEMMA HonouredStep == HonouredInv /\ [Next]_vars => HonouredInv'
<1> SUFFICES ASSUME HonouredInv, [Next]_vars PROVE HonouredInv'
  OBVIOUS
<1>1. before \subseteq 1..requests
  BY DEF HonouredInv, Numbered
<1>2. CASE OnConnect \/ OnDisconnect \/ UNCHANGED vars
  <2>1. UNCHANGED <<overrides, requests, pc, sent, before>>
    BY <1>2 DEF OnConnect, OnDisconnect, vars, control, ticking, history
  <2> QED BY <2>1, <1>1, QuietStep
<1> QED BY <1>2, RequestStep, LoopStep DEF Next

(* Whatever requests, callbacks and failures fall into a tick, an override  *)
(* in force since before it governs every reading it publishes             *)
(* (main.py 100-107, 153-175).                                              *)
THEOREM OverrideIsHonoured == Spec => []OverrideHonoured
<1>1. HonouredInv => OverrideHonoured
  BY DEF HonouredInv, Honoured, Governs, Sends, OverrideHonoured
<1> QED BY <1>1, HonouredInit, HonouredStep, PTL DEF Spec
-----------------------------------------------------------------------------
(***************************************************************************)
(* The dictionary is finite, whatever the buildings: so its size, which an *)
(* iterator remembers, is a number.                                        *)
(***************************************************************************)
TypeInv == TypeOK /\ IsFiniteSet(DOMAIN overrides)

LEMMA IteratorType ==
    ASSUME IsFiniteSet(DOMAIN overrides)
    PROVE  Iterator \in [size : Nat, seen : SUBSET (1..MaxRequests)]
BY FS_CardinalityType DEF Iterator

(* What overrides[b] is after its value is replaced in a record's field.   *)
LEMMA OverrideFields ==
    ASSUME NEW ov \in Override
    PROVE  /\ \A t \in 0..MaxTicks : [ov EXCEPT !.ticks_remaining = t] \in Override
           /\ \A a \in 0..MaxTicks + 1 : [ov EXCEPT !.age = a] \in Override
BY DEF Override

LEMMA TypeInit == Init => TypeInv
<1> SUFFICES ASSUME Init PROVE TypeInv
  OBVIOUS
<1>1. DOMAIN overrides = {}
  BY DEF Init
<1>2. IsFiniteSet(DOMAIN overrides)
  BY <1>1, FS_EmptySet
<1>3. iter \in [size : Nat, seen : SUBSET (1..MaxRequests)]
  BY <1>2, IteratorType DEF Init
<1>4. Nothing \in [Sensors -> Values \cup {None}]
  BY DEF Nothing
<1>5. requests \in 0..MaxRequests
  BY SimulatorAssumption DEF Init
<1> QED BY <1>1, <1>2, <1>3, <1>4, <1>5 DEF Init, TypeInv, TypeOK, Pcs

(* A request that is let through.                                          *)
LEMMA RequestType ==
    ASSUME TypeInv, Request
    PROVE  /\ requests \in Nat /\ requests' = requests + 1
           /\ requests' \in 1..MaxRequests
           /\ UNCHANGED <<pc, iter, expired, sent, before, offline, connected,
                          todo, occ>>
BY SimulatorAssumption DEF TypeInv, TypeOK, Request, ticking

LEMMA SetOverrideFacts ==
    ASSUME TypeInv, NEW b \in Buildings, NEW types \in OverrideTypes,
           NEW n \in 1..MaxTicks, SetOverride(b, types, n)
    PROVE  /\ DOMAIN overrides' = DOMAIN overrides \cup {b}
           /\ \A c \in DOMAIN overrides : c # b => overrides'[c] = overrides[c]
           /\ overrides'[b] \in Override
           /\ overrides'[b].id = requests'
           /\ overrides'[b].duration = n /\ overrides'[b].ticks_remaining = n
           /\ overrides'[b].age = 0 /\ overrides'[b].late = (pc \in Ageing)
           /\ overrides'[b].entry = IF b \in DOMAIN overrides
                                    THEN overrides[b].entry ELSE requests'
<1> DEFINE new == [id |-> requests', types |-> types, duration |-> n,
                   entry |-> IF b \in DOMAIN overrides THEN overrides[b].entry
                             ELSE requests',
                   ticks_remaining |-> n, age |-> 0, late |-> pc \in Ageing]
<1>1. requests' \in 1..MaxRequests
  BY RequestType DEF SetOverride
<1>2. b \in DOMAIN overrides => overrides[b].entry \in 1..MaxRequests
  BY DEF TypeInv, TypeOK, Override
<1>3. (pc \in Ageing) \in BOOLEAN
  OBVIOUS
<1>4. n \in 0..MaxTicks /\ 0 \in 0..MaxTicks + 1
  BY SimulatorAssumption
<1>5. new \in Override
  BY <1>1, <1>2, <1>3, <1>4 DEF Override
<1>6. overrides' = [c \in DOMAIN overrides \cup {b} |->
                      IF c # b THEN overrides[c] ELSE new]
  BY DEF SetOverride
<1>7. /\ new.id = requests' /\ new.duration = n /\ new.ticks_remaining = n
      /\ new.age = 0 /\ new.late = (pc \in Ageing)
      /\ new.entry = IF b \in DOMAIN overrides THEN overrides[b].entry ELSE requests'
  OBVIOUS
<1>8. DOMAIN overrides' = DOMAIN overrides \cup {b} /\ overrides'[b] = new
  <2> HIDE DEF new
  <2> QED BY <1>6
<1>9. \A c \in DOMAIN overrides : c # b => overrides'[c] = overrides[c]
  <2> HIDE DEF new
  <2> QED BY <1>6
<1> HIDE DEF new
<1> QED BY <1>5, <1>7, <1>8, <1>9

LEMMA RequestKeepsType ==
    ASSUME TypeInv, Request, running' \in BOOLEAN, disabled' \subseteq Sensors,
           DOMAIN overrides' \subseteq Buildings, IsFiniteSet(DOMAIN overrides'),
           \A b \in DOMAIN overrides' : overrides'[b] \in Override,
           moved' \in BOOLEAN
    PROVE  TypeInv'
<1>1. requests' \in 0..MaxRequests
  BY RequestType
<1>2. UNCHANGED <<pc, iter, expired, sent, before, offline, connected, todo, occ>>
  BY RequestType
<1> QED BY <1>1, <1>2 DEF TypeInv, TypeOK

LEMMA RequestsType == TypeInv /\ HandleRequest => TypeInv'
<1> SUFFICES ASSUME TypeInv, HandleRequest PROVE TypeInv'
  OBVIOUS
<1>0. moved' \in BOOLEAN
  BY DEF HandleRequest, ToggleSim, SetOverride, ClearOverride, EnableSensor,
         DisableSensor, Resizes, TypeInv, TypeOK
<1>1. CASE ToggleSim
  <2>1. UNCHANGED <<overrides, disabled>> /\ running' = ~running
    BY <1>1 DEF ToggleSim
  <2> QED BY <1>0, <1>1, <2>1, RequestKeepsType DEF ToggleSim, TypeInv, TypeOK
<1>2. ASSUME NEW s \in Sensors, EnableSensor(s) \/ DisableSensor(s) PROVE TypeInv'
  <2>1. UNCHANGED <<running, overrides>> /\ disabled' \subseteq Sensors
    BY <1>2 DEF EnableSensor, DisableSensor, TypeInv, TypeOK
  <2>2. Request
    BY <1>2 DEF EnableSensor, DisableSensor
  <2> QED BY <1>0, <2>1, <2>2, RequestKeepsType DEF TypeInv, TypeOK
<1>3. ASSUME NEW b \in Buildings, ClearOverride(b) PROVE TypeInv'
  <2>1. UNCHANGED <<running, disabled>> /\ overrides' = Without(b)
    BY <1>3 DEF ClearOverride
  <2>2. /\ DOMAIN overrides' = DOMAIN overrides \ {b}
        /\ \A c \in DOMAIN overrides' : overrides'[c] = overrides[c]
    BY <2>1 DEF Without
  <2>3. IsFiniteSet(DOMAIN overrides')
    BY <2>2, FS_Subset DEF TypeInv
  <2>4. Request
    BY <1>3 DEF ClearOverride
  <2> QED BY <2>1, <2>2, <1>0, <2>3, <2>4, RequestKeepsType DEF TypeInv, TypeOK
<1>4. ASSUME NEW b \in Buildings, NEW types \in OverrideTypes, NEW n \in 1..MaxTicks,
             SetOverride(b, types, n)
      PROVE  TypeInv'
  <2>1. UNCHANGED <<running, disabled>> /\ Request
    BY <1>4 DEF SetOverride
  <2>2. IsFiniteSet(DOMAIN overrides \cup {b})
    BY FS_AddElement DEF TypeInv
  <2>3. /\ DOMAIN overrides' = DOMAIN overrides \cup {b}
        /\ \A c \in DOMAIN overrides' : overrides'[c] \in Override
    BY <1>4, SetOverrideFacts DEF TypeInv, TypeOK
  <2> QED BY <2>1, <1>0, <2>2, <2>3, RequestKeepsType DEF TypeInv, TypeOK
<1> QED BY <1>1, <1>2, <1>3, <1>4 DEF HandleRequest

LEMMA ValuesInj == ASSUME NEW v \in Values PROVE Injected(v) \subseteq Values
BY DEF Injected, Values

LEMMA ApplyType ==
    ASSUME TypeInv, NEW s \in Sensors, NEW v \in Values
    PROVE  ApplyOverride(s, v) \in Values
<1>1. CASE s[1] \in DOMAIN overrides
  <2>1. overrides[s[1]].id \in 1..MaxRequests
    BY <1>1 DEF TypeInv, TypeOK, Override
  <2> QED BY <2>1 DEF ApplyOverride, Values
<1>2. CASE s[1] \notin DOMAIN overrides
  BY <1>2 DEF ApplyOverride
<1> QED BY <1>1, <1>2

LEMMA PassType ==
    ASSUME TypeInv, NEW s \in Sensors, Pass(s) PROVE TypeInv'
<1>1. /\ UNCHANGED <<running, overrides, disabled, connected, pc, iter, expired,
                     before, requests, moved>>
      /\ todo' = todo \ {s}
  BY DEF Pass, SkipOccupancy, SkipSensor, PublishOccupancy, ReadOccupancy,
         ReadAndPublish, Turn, control
<1>2. Sampled \in Values
  BY DEF Values
<1>3. ASSUME NEW v \in Values, Publish(s, v)
      PROVE  sent' \in [Sensors -> Values \cup {None}]
  <2>1. PICK w \in Injected(ApplyOverride(s, v)) :
           sent' = IF connected THEN [sent EXCEPT ![s] = w] ELSE sent
    BY <1>3 DEF Publish
  <2>2. w \in Values
    BY <2>1, ApplyType, ValuesInj
  <2> QED BY <2>1, <2>2 DEF TypeInv, TypeOK
<1>4. /\ offline' \in [Sensors -> BOOLEAN]
      /\ occ' \in [Sensors -> Values \cup {None}]
      /\ sent' \in [Sensors -> Values \cup {None}]
  <2>1. CASE SkipOccupancy(s) \/ SkipSensor(s)
    BY <2>1 DEF SkipOccupancy, SkipSensor, TypeInv, TypeOK
  <2>2. CASE PublishOccupancy(s)
    <3>1. occ[s] \in Values /\ Publish(s, occ[s]) /\ UNCHANGED <<offline, occ>>
      BY <2>2 DEF PublishOccupancy, TypeInv, TypeOK
    <3> QED BY <3>1, <1>3 DEF TypeInv, TypeOK
  <2>3. ASSUME NEW works \in BOOLEAN, ReadOccupancy(s, works)
        PROVE  /\ offline' \in [Sensors -> BOOLEAN]
               /\ occ' \in [Sensors -> Values \cup {None}]
               /\ sent' \in [Sensors -> Values \cup {None}]
    <3>1. ApplyOverride(s, Sampled) \in Values
      BY <1>2, ApplyType
    <3> QED BY <2>3, <3>1 DEF ReadOccupancy, Read, TypeInv, TypeOK
  <2>4. ASSUME NEW works \in BOOLEAN, ReadAndPublish(s, works)
        PROVE  /\ offline' \in [Sensors -> BOOLEAN]
               /\ occ' \in [Sensors -> Values \cup {None}]
               /\ sent' \in [Sensors -> Values \cup {None}]
    <3>1. Publish(s, Sampled) \/ sent' = sent
      BY <2>4 DEF ReadAndPublish
    <3>2. offline' \in [Sensors -> BOOLEAN] /\ occ' = occ
      BY <2>4 DEF ReadAndPublish, Read, TypeInv, TypeOK
    <3> QED BY <3>1, <3>2, <1>2, <1>3 DEF TypeInv, TypeOK
  <2> QED BY <2>1, <2>2, <2>3, <2>4 DEF Pass
<1> QED BY <1>1, <1>4 DEF TypeInv, TypeOK

(* A step of the loop outside the passes that leaves the dictionary alone. *)
LEMMA PlainType ==
    ASSUME TypeInv,
           UNCHANGED <<running, overrides, disabled, offline, connected, requests>>,
           pc' \in Pcs, todo' \subseteq Sensors,
           occ' \in {occ, Nothing}, sent' \in {sent, Nothing},
           iter' \in [size : Nat, seen : SUBSET (1..MaxRequests)],
           expired' \subseteq Buildings, before' \subseteq 1..MaxRequests,
           moved' \in {moved, FALSE}
    PROVE  TypeInv'
<1>1. Nothing \in [Sensors -> Values \cup {None}]
  BY DEF Nothing
<1> QED BY <1>1 DEF TypeInv, TypeOK

LEMMA SeeType ==
    ASSUME TypeInv, NEW b \in DOMAIN overrides, See(b)
    PROVE  /\ iter' \in [size : Nat, seen : SUBSET (1..MaxRequests)]
           /\ iter'.size = iter.size
           /\ iter'.seen = iter.seen \cup {overrides[b].entry}
<1>1. overrides[b].entry \in 1..MaxRequests
  BY DEF TypeInv, TypeOK, Override
<1> QED BY <1>1 DEF See, TypeInv, TypeOK

(* What the loop does with the dictionary.                                  *)
LEMMA DecrementFacts ==
    ASSUME TypeInv, NEW b \in Buildings, Decrement(b)
    PROVE  /\ b \in DOMAIN overrides /\ DOMAIN overrides' = DOMAIN overrides
           /\ \A c \in DOMAIN overrides : c # b => overrides'[c] = overrides[c]
           /\ overrides'[b] \in Override
           /\ overrides'[b] =
                [overrides[b] EXCEPT !.ticks_remaining = overrides'[b].ticks_remaining]
           /\ overrides[b].ticks_remaining > 0 =>
                overrides'[b].ticks_remaining = overrides[b].ticks_remaining - 1
<1> DEFINE t == IF overrides[b].ticks_remaining > 0
                THEN overrides[b].ticks_remaining - 1 ELSE 0
           new == [overrides[b] EXCEPT !.ticks_remaining = t]
<1>1. b \in DOMAIN overrides /\ overrides[b] \in Override
  BY DEF Decrement, Unseen, TypeInv, TypeOK
<1>2. t \in 0..MaxTicks
  BY <1>1, SimulatorAssumption DEF Override
<1>3. new \in Override /\ new.ticks_remaining = t
  BY <1>1, <1>2, OverrideFields DEF Override
<1>4. overrides' = [overrides EXCEPT ![b] = new]
  BY DEF Decrement
<1>5. overrides[b].ticks_remaining > 0 => t = overrides[b].ticks_remaining - 1
  OBVIOUS
<1> HIDE DEF t
<1>6. /\ DOMAIN overrides' = DOMAIN overrides /\ overrides'[b] = new
      /\ \A c \in DOMAIN overrides : c # b => overrides'[c] = overrides[c]
  <2> HIDE DEF new
  <2> QED BY <1>1, <1>4
<1> QED BY <1>1, <1>3, <1>5, <1>6

LEMMA EndDecrementFacts ==
    ASSUME TypeInv, EndDecrement
    PROVE  /\ DOMAIN overrides' = DOMAIN overrides
           /\ \A b \in DOMAIN overrides :
                /\ overrides'[b] \in Override
                /\ overrides'[b] = [overrides[b] EXCEPT !.age = overrides'[b].age]
                /\ overrides[b].age <= MaxTicks =>
                     overrides'[b].age = overrides[b].age + 1
<1>1. DOMAIN overrides' = DOMAIN overrides
  BY DEF EndDecrement
<1>2. ASSUME NEW b \in DOMAIN overrides
      PROVE  /\ overrides'[b] \in Override
             /\ overrides'[b] = [overrides[b] EXCEPT !.age = overrides'[b].age]
             /\ overrides[b].age <= MaxTicks =>
                  overrides'[b].age = overrides[b].age + 1
  <2> DEFINE a == IF overrides[b].age > MaxTicks THEN overrides[b].age
                  ELSE overrides[b].age + 1
  <2>1. overrides[b] \in Override
    BY DEF TypeInv, TypeOK
  <2>2. a \in 0..MaxTicks + 1 /\ (overrides[b].age <= MaxTicks => a = overrides[b].age + 1)
    BY <2>1, SimulatorAssumption DEF Override
  <2>3. overrides'[b] = [overrides[b] EXCEPT !.age = a]
    BY DEF EndDecrement
  <2> HIDE DEF a
  <2>4. [overrides[b] EXCEPT !.age = a] \in Override
    BY <2>1, <2>2, OverrideFields
  <2>5. overrides'[b].age = a
    BY <2>1, <2>3 DEF Override
  <2> QED BY <2>2, <2>3, <2>4, <2>5
<1> QED BY <1>1, <1>2

LEMMA LoopType == TypeInv /\ Loop => TypeInv'
<1> SUFFICES ASSUME TypeInv, Loop PROVE TypeInv'
  OBVIOUS
<1>0. /\ IsFiniteSet(DOMAIN overrides)
      /\ \A b \in DOMAIN overrides : overrides[b] \in Override
      /\ before \subseteq 1..MaxRequests /\ todo \subseteq Sensors
      /\ expired \subseteq Buildings /\ pc \in Pcs
      /\ DOMAIN overrides \subseteq Buildings
      /\ iter \in [size : Nat, seen : SUBSET (1..MaxRequests)]
      /\ Iterator \in [size : Nat, seen : SUBSET (1..MaxRequests)]
  BY IteratorType DEF TypeInv, TypeOK
<1>1. CASE BeginTick
  <2>1. InForce \subseteq 1..MaxRequests
    BY <1>0 DEF InForce, Override
  <2> QED BY <1>0, <1>1, <2>1, PlainType DEF BeginTick, control, Pcs
<1>2. CASE EndOccupancy \/ StartScan \/ IteratorRaises \/ EndScan \/ StartDecrement
           \/ \E b \in Buildings : DeleteRaises(b)
  <2>1. UNCHANGED <<running, overrides, disabled, offline, connected, requests,
                    occ, before>>
    BY <1>2 DEF EndOccupancy, StartScan, IteratorRaises, EndScan, StartDecrement,
                DeleteRaises, control, history
  <2>2. pc' \in Pcs /\ todo' \subseteq Sensors /\ sent' \in {sent, Nothing}
        /\ moved' \in {moved, FALSE}
    BY <1>2, <1>0 DEF EndOccupancy, StartScan, IteratorRaises, EndScan,
                      StartDecrement, DeleteRaises, history, Pcs, Ageing
  <2>3. iter' \in {iter, Iterator} /\ expired' \in {expired, {}}
    BY <1>2 DEF EndOccupancy, StartScan, IteratorRaises, EndScan, StartDecrement,
                DeleteRaises
  <2> QED BY <2>1, <2>2, <2>3, <1>0, PlainType
<1>3. CASE \E s \in Sensors : Pass(s)
  BY <1>3, PassType
<1>4. ASSUME NEW b \in Buildings, Scan(b) PROVE TypeInv'
  <2>1. b \in DOMAIN overrides /\ See(b)
    BY <1>4 DEF Scan, Unseen
  <2>2. iter' \in [size : Nat, seen : SUBSET (1..MaxRequests)]
    BY <2>1, SeeType
  <2> QED BY <1>0, <1>4, <2>2, PlainType DEF Scan, control, history
<1>5. ASSUME NEW b \in Buildings, DeleteExpired(b) PROVE TypeInv'
  <2>1. /\ DOMAIN overrides' = DOMAIN overrides \ {b}
        /\ \A c \in DOMAIN overrides' : overrides'[c] = overrides[c]
    BY <1>5 DEF DeleteExpired, Without
  <2>2. IsFiniteSet(DOMAIN overrides')
    BY <2>1, <1>0, FS_Subset
  <2> QED BY <1>5, <2>1, <2>2 DEF DeleteExpired, TypeInv, TypeOK, history
<1>6. ASSUME NEW b \in Buildings, Decrement(b) PROVE TypeInv'
  <2>1. b \in DOMAIN overrides /\ See(b)
    BY <1>6 DEF Decrement, Unseen
  <2>2. iter' \in [size : Nat, seen : SUBSET (1..MaxRequests)]
    BY <2>1, SeeType
  <2>3. /\ DOMAIN overrides' = DOMAIN overrides
        /\ \A c \in DOMAIN overrides' : overrides'[c] \in Override
    BY <1>0, <1>6, DecrementFacts
  <2>4. UNCHANGED <<running, disabled, offline, connected, pc, todo, occ, expired,
                    sent, before, requests, moved>>
    BY <1>6 DEF Decrement, history
  <2> QED BY <2>2, <2>3, <2>4 DEF TypeInv, TypeOK
<1>7. CASE EndDecrement
  <2>1. pc' = "top" /\ UNCHANGED <<running, disabled, offline, connected, todo, occ,
                    iter, expired, sent, before, requests, moved>>
    BY <1>7 DEF EndDecrement, history
  <2> QED BY <1>0, <1>7, <2>1, EndDecrementFacts DEF TypeInv, TypeOK, Pcs
<1> QED BY <1>1, <1>2, <1>3, <1>4, <1>5, <1>6, <1>7 DEF Loop, Age

LEMMA TypeStep == TypeInv /\ [Next]_vars => TypeInv'
<1> SUFFICES ASSUME TypeInv, [Next]_vars PROVE TypeInv'
  OBVIOUS
<1>1. CASE OnConnect \/ OnDisconnect
  BY <1>1 DEF OnConnect, OnDisconnect, TypeInv, TypeOK, control, ticking, history
<1>2. CASE UNCHANGED vars
  BY <1>2 DEF vars, TypeInv, TypeOK, control, ticking, history
<1> QED BY <1>1, <1>2, RequestsType, LoopType DEF Next

(* The loop, the handlers and the callbacks share simulator_state without a *)
(* lock and keep its types (main.py 60-183, 560-640).                       *)
THEOREM TypeCorrect == Spec => []TypeOK
<1>1. TypeInv => TypeOK
  BY DEF TypeInv
<1> QED BY <1>1, TypeInit, TypeStep, PTL DEF Spec

-----------------------------------------------------------------------------
(***************************************************************************)
(* What the overrides add up to at every step of a tick, and not only      *)
(* between ticks.  The dictionary's entries are told apart by a number     *)
(* that no earlier request used (OwnEntries), so an override is seen by    *)
(* the decrementing loop once.  From then to the end of the tick it is one *)
(* tick short (Balanced).  That the decrement takes a whole tick needs     *)
(* that the scan found, and the deletion removed, all that had none left   *)
(* (TicksLeft); and what the deletion may meet is an expired override or   *)
(* one that replaced it since the scan (ExpiredOrNew).                     *)
(***************************************************************************)
OwnEntries ==
    /\ \A b \in DOMAIN overrides : overrides[b].entry \in 1..requests
    /\ \A b, c \in DOMAIN overrides :
          overrides[b].entry = overrides[c].entry => b = c
    /\ iter.seen \subseteq 1..requests

Decremented(b) == pc = "decrement" /\ overrides[b].entry \in iter.seen

Spare(ov) == ov.ticks_remaining + ov.age - ov.duration

Balanced ==
    pc # "dead" =>
        \A b \in DOMAIN overrides :
            LET due == IF Decremented(b) THEN -1 ELSE 0
            IN  IF overrides[b].late THEN Spare(overrides[b]) \in {due, due + 1}
                ELSE Spare(overrides[b]) = due

TicksLeft ==
    \A b \in DOMAIN overrides :
        \/ pc = "scan" /\ overrides[b].entry \in iter.seen /\ b \notin expired
        \/ pc = "delete" /\ b \notin expired
        \/ pc = "decrement" /\ overrides[b].entry \notin iter.seen
        => overrides[b].ticks_remaining >= 1

ExpiredOrNew ==
    pc \in {"scan", "delete"} =>
        \A b \in DOMAIN overrides \cap expired :
            \/ overrides[b].ticks_remaining <= 1
            \/ overrides[b].late /\ overrides[b].age = 0

TicksInv == TypeInv /\ OwnEntries /\ Balanced /\ TicksLeft /\ ExpiredOrNew

LEMMA TicksInit == Init => TicksInv
<1> SUFFICES ASSUME Init PROVE TicksInv
  OBVIOUS
<1>1. DOMAIN overrides = {} /\ pc = "top" /\ iter.seen = {}
  BY DEF Init, Iterator
<1> QED BY <1>1, TypeInit
        DEF TicksInv, OwnEntries, Balanced, TicksLeft, ExpiredOrNew

(* The numbers of an override.                                             *)
LEMMA OverrideNumbers ==
    ASSUME TypeInv, NEW b \in DOMAIN overrides
    PROVE  /\ overrides[b] \in Override
           /\ overrides[b].ticks_remaining \in Nat
           /\ overrides[b].ticks_remaining <= MaxTicks
           /\ overrides[b].age \in Nat
           /\ overrides[b].duration \in Nat /\ overrides[b].duration <= MaxTicks
           /\ overrides[b].late \in BOOLEAN
           /\ requests \in Nat /\ MaxTicks \in Nat
BY SimulatorAssumption DEF TypeInv, TypeOK, Override

(* A step that touches neither the dictionary nor the ageing of it.        *)
LEMMA TicksFrame ==
    ASSUME TicksInv, TypeInv', UNCHANGED <<overrides, requests, iter, expired>>,
           pc' = pc \/ pc' = "dead" \/ {pc, pc'} \cap (Ageing \cup {"dead"}) = {}
    PROVE  TicksInv'
<1>1. OwnEntries'
  BY DEF TicksInv, OwnEntries
<1>2. Balanced' /\ TicksLeft' /\ ExpiredOrNew'
  <2>1. CASE pc' = pc
    BY <2>1 DEF TicksInv, Balanced, Decremented, TicksLeft, ExpiredOrNew
  <2>2. CASE pc' = "dead"
    BY <2>2 DEF Balanced, TicksLeft, ExpiredOrNew
  <2>3. CASE {pc, pc'} \cap (Ageing \cup {"dead"}) = {}
    <3>1. /\ pc # "dead" /\ pc # "decrement"
          /\ pc' # "decrement" /\ pc' # "scan" /\ pc' # "delete"
      BY <2>3 DEF Ageing
    <3>2. Balanced'
      BY <3>1 DEF TicksInv, Balanced, Decremented
    <3> QED BY <3>1, <3>2 DEF TicksLeft, ExpiredOrNew
  <2> QED BY <2>1, <2>2, <2>3
<1> QED BY <1>1, <1>2 DEF TicksInv

(* A request removes overrides, or sets one.                               *)
LEMMA TicksRemoved ==
    ASSUME TicksInv, TypeInv', UNCHANGED <<pc, iter>>,
           requests' \in {requests, requests + 1},
           DOMAIN overrides' \subseteq DOMAIN overrides,
           \A c \in DOMAIN overrides' : overrides'[c] = overrides[c],
           expired' = expired \/ \E b \in expired : /\ b \notin DOMAIN overrides'
                                                  /\ expired' = expired \ {b}
    PROVE  TicksInv'
<1>1. requests \in Nat /\ 1..requests \subseteq 1..requests'
  BY SimulatorAssumption DEF TicksInv, TypeInv, TypeOK
<1>2. OwnEntries'
  BY <1>1 DEF TicksInv, OwnEntries
<1>3. Balanced'
  BY DEF TicksInv, Balanced, Decremented
<1>4. TicksLeft' /\ ExpiredOrNew'
  BY DEF TicksInv, TicksLeft, ExpiredOrNew
<1> QED BY <1>2, <1>3, <1>4 DEF TicksInv

LEMMA TicksSet ==
    ASSUME TicksInv, TypeInv', NEW b \in Buildings, NEW types \in OverrideTypes,
           NEW n \in 1..MaxTicks, SetOverride(b, types, n)
    PROVE  TicksInv'
<1>1. /\ DOMAIN overrides' = DOMAIN overrides \cup {b}
      /\ \A c \in DOMAIN overrides : c # b => overrides'[c] = overrides[c]
      /\ overrides'[b].duration = n /\ overrides'[b].ticks_remaining = n
      /\ overrides'[b].age = 0 /\ overrides'[b].late = (pc \in Ageing)
      /\ overrides'[b].entry = IF b \in DOMAIN overrides
                               THEN overrides[b].entry ELSE requests'
  BY SetOverrideFacts DEF TicksInv
<1>2. /\ requests \in Nat /\ requests' = requests + 1
      /\ UNCHANGED <<pc, iter, expired>>
  BY RequestType DEF SetOverride, TicksInv
<1>3. /\ 1..requests \subseteq 1..requests' /\ requests' \in 1..requests'
      /\ requests' \notin 1..requests
  BY <1>2
<1>4. OwnEntries'
  BY <1>1, <1>2, <1>3 DEF TicksInv, OwnEntries
<1>5. Balanced'
  <2>1. Spare(overrides'[b]) = 0
    BY <1>1 DEF Spare
  <2>4. pc = "decrement" => overrides'[b].late
    BY <1>1, Zenon DEF Ageing
  <2>2. Balanced
    BY DEF TicksInv
  <2>3. ASSUME NEW c \in DOMAIN overrides', pc # "dead"
        PROVE  LET due == IF Decremented(c)' THEN -1 ELSE 0
               IN  IF overrides'[c].late
                   THEN Spare(overrides'[c]) \in {due, due + 1}
                   ELSE Spare(overrides'[c]) = due
    <3>1. CASE c = b
      BY <3>1, <2>1, <2>4, <1>2 DEF Decremented
    <3>2. CASE c # b
      <4>1. /\ c \in DOMAIN overrides /\ overrides'[c] = overrides[c]
            /\ Decremented(c)' = Decremented(c)
        BY <3>2, <1>1, <1>2 DEF Decremented
      <4> QED BY <4>1, <2>2, <2>3 DEF Balanced
    <3> QED BY <3>1, <3>2
  <2> QED BY <2>3, <1>2 DEF Balanced
<1>6. TicksLeft'
  BY <1>1, <1>2 DEF TicksInv, TicksLeft
<1>7. ExpiredOrNew'
  BY <1>1, <1>2 DEF TicksInv, ExpiredOrNew, Ageing
<1> QED BY <1>4, <1>5, <1>6, <1>7 DEF TicksInv

LEMMA TicksRequest == TicksInv /\ HandleRequest => TicksInv'
<1> SUFFICES ASSUME TicksInv, HandleRequest PROVE TicksInv'
  OBVIOUS
<1>0. TypeInv /\ TypeInv'
  BY RequestsType DEF TicksInv
<1>1. CASE ToggleSim \/ \E s \in Sensors : EnableSensor(s) \/ DisableSensor(s)
  <2>1. Request /\ overrides' = overrides
    BY <1>1 DEF ToggleSim, EnableSensor, DisableSensor
  <2>2. requests' = requests + 1 /\ UNCHANGED <<pc, iter, expired>>
    BY <2>1, <1>0, RequestType
  <2> QED BY <2>1, <2>2, <1>0, TicksRemoved
<1>2. ASSUME NEW b \in Buildings, ClearOverride(b) PROVE TicksInv'
  <2>1. Request /\ overrides' = Without(b)
    BY <1>2 DEF ClearOverride
  <2>2. requests' = requests + 1 /\ UNCHANGED <<pc, iter, expired>>
    BY <2>1, <1>0, RequestType
  <2> QED BY <2>1, <2>2, <1>0, TicksRemoved DEF Without
<1> QED BY <1>0, <1>1, <1>2, TicksSet DEF HandleRequest

LEMMA TicksScan ==
    ASSUME TicksInv, TypeInv', NEW b \in Buildings, Scan(b)
    PROVE  TicksInv'
<1>1. /\ pc = "scan" /\ pc' = pc /\ b \in DOMAIN overrides /\ See(b)
      /\ UNCHANGED <<overrides, requests>>
      /\ expired' = IF overrides[b].ticks_remaining <= 1
                    THEN expired \cup {b} ELSE expired
  BY DEF Scan, Unseen, control, history
<1>2. iter'.seen = iter.seen \cup {overrides[b].entry}
  BY <1>1, SeeType DEF TicksInv
<1>3. OwnEntries'
  BY <1>1, <1>2 DEF TicksInv, OwnEntries
<1>4. Balanced'
  BY <1>1 DEF TicksInv, Balanced, Decremented
<1>5. TicksLeft'
  <2>1. ASSUME NEW c \in DOMAIN overrides, overrides[c].entry \in iter'.seen,
               c \notin expired'
        PROVE  overrides[c].ticks_remaining >= 1
    <3>1. CASE c = b
      BY <3>1, <2>1, <1>1, OverrideNumbers DEF TicksInv
    <3>2. CASE c # b
      <4>1. overrides[c].entry \in iter.seen
        BY <3>2, <2>1, <1>1, <1>2 DEF TicksInv, OwnEntries
      <4> QED BY <4>1, <2>1, <1>1 DEF TicksInv, TicksLeft
    <3> QED BY <3>1, <3>2
  <2> QED BY <2>1, <1>1 DEF TicksLeft
<1>6. ExpiredOrNew'
  BY <1>1 DEF TicksInv, ExpiredOrNew
<1> QED BY <1>3, <1>4, <1>5, <1>6 DEF TicksInv

LEMMA TicksDecrement ==
    ASSUME TicksInv, TypeInv', NEW b \in Buildings, Decrement(b)
    PROVE  TicksInv'
<1>1. /\ pc = "decrement" /\ pc' = pc /\ b \in Unseen /\ See(b)
      /\ UNCHANGED <<requests, expired>>
  BY DEF Decrement, history
<1>2. /\ b \in DOMAIN overrides /\ overrides[b].entry \notin iter.seen
      /\ iter'.seen = iter.seen \cup {overrides[b].entry}
  BY <1>1, SeeType DEF TicksInv, Unseen
<1>3. overrides[b].ticks_remaining >= 1
  BY <1>1, <1>2 DEF TicksInv, TicksLeft
<1>4. /\ DOMAIN overrides' = DOMAIN overrides
      /\ \A c \in DOMAIN overrides : c # b => overrides'[c] = overrides[c]
      /\ overrides'[b].ticks_remaining = overrides[b].ticks_remaining - 1
      /\ overrides'[b] =
           [overrides[b] EXCEPT !.ticks_remaining = overrides'[b].ticks_remaining]
  BY <1>3, DecrementFacts, OverrideNumbers, <1>2 DEF TicksInv
<1>5. /\ overrides'[b].entry = overrides[b].entry
      /\ overrides'[b].age = overrides[b].age /\ overrides'[b].late = overrides[b].late
      /\ overrides'[b].duration = overrides[b].duration
  <2>1. overrides[b] \in Override
    BY <1>2, OverrideNumbers DEF TicksInv
  <2> DEFINE t == overrides'[b].ticks_remaining
  <2>2. overrides'[b] = [overrides[b] EXCEPT !.ticks_remaining = t]
    BY <1>4
  <2> HIDE DEF t
  <2> QED BY <2>1, <2>2 DEF Override
<1>6. \A c \in DOMAIN overrides : overrides'[c].entry = overrides[c].entry
  BY <1>4, <1>5
<1>7. OwnEntries'
  BY <1>1, <1>2, <1>4, <1>6 DEF TicksInv, OwnEntries
<1>8. Balanced'
  <2>1. Spare(overrides'[b]) = Spare(overrides[b]) - 1
    BY <1>2, <1>4, <1>5, OverrideNumbers DEF Spare, TicksInv
  <2>2. ~Decremented(b) /\ Decremented(b)'
    BY <1>1, <1>2, <1>5 DEF Decremented
  <2>3. ASSUME NEW c \in DOMAIN overrides
        PROVE  LET due == IF Decremented(c)' THEN -1 ELSE 0
               IN  IF overrides'[c].late
                   THEN Spare(overrides'[c]) \in {due, due + 1}
                   ELSE Spare(overrides'[c]) = due
    <3>1. CASE c = b
      <4>1. IF overrides[b].late THEN Spare(overrides[b]) \in {0, 1}
            ELSE Spare(overrides[b]) = 0
        BY <1>1, <1>2, <2>2 DEF TicksInv, Balanced
      <4> QED BY <3>1, <4>1, <2>1, <2>2, <1>5
    <3>2. CASE c # b
      <4>1. /\ overrides'[c] = overrides[c]
            /\ overrides[c].entry # overrides[b].entry
        BY <3>2, <1>2, <1>4 DEF TicksInv, OwnEntries
      <4>2. Decremented(c)' = Decremented(c)
        BY <4>1, <1>1, <1>2 DEF Decremented
      <4> QED BY <4>1, <4>2, <1>1 DEF TicksInv, Balanced
    <3> QED BY <3>1, <3>2
  <2> QED BY <2>3, <1>4 DEF Balanced
<1>9. TicksLeft'
  <2>1. ASSUME NEW c \in DOMAIN overrides, overrides'[c].entry \notin iter'.seen
        PROVE  overrides'[c].ticks_remaining >= 1
    <3>1. c # b /\ overrides'[c] = overrides[c] /\ overrides[c].entry \notin iter.seen
      BY <2>1, <1>2, <1>4, <1>5
    <3> QED BY <3>1, <1>1 DEF TicksInv, TicksLeft
  <2> QED BY <2>1, <1>1, <1>4 DEF TicksLeft
<1>10. ExpiredOrNew'
  BY <1>1 DEF ExpiredOrNew
<1> QED BY <1>7, <1>8, <1>9, <1>10 DEF TicksInv

LEMMA TicksEndDecrement ==
    ASSUME TicksInv, TypeInv', EndDecrement
    PROVE  TicksInv'
<1>1. /\ pc = "decrement" /\ pc' = "top" /\ Unseen = {}
      /\ UNCHANGED <<iter, requests>>
  BY DEF EndDecrement, history
<1>2. DOMAIN overrides' = DOMAIN overrides
  BY EndDecrementFacts DEF TicksInv
<1>3. ASSUME NEW b \in DOMAIN overrides
      PROVE  /\ overrides'[b].entry = overrides[b].entry
             /\ overrides'[b].late = overrides[b].late
             /\ Spare(overrides'[b]) = Spare(overrides[b]) + 1
             /\ IF overrides[b].late THEN Spare(overrides[b]) \in {-1, 0}
                ELSE Spare(overrides[b]) = -1
  <2>1. Decremented(b)
    BY <1>1 DEF Unseen, Decremented
  <2>2. IF overrides[b].late THEN Spare(overrides[b]) \in {-1, 0}
        ELSE Spare(overrides[b]) = -1
    BY <1>1, <2>1 DEF TicksInv, Balanced
  <2>3. overrides[b].age <= MaxTicks
    BY <2>2, OverrideNumbers DEF Spare, TicksInv
  <2>4. /\ overrides'[b] = [overrides[b] EXCEPT !.age = overrides'[b].age]
        /\ overrides'[b].age = overrides[b].age + 1
    BY <2>3, EndDecrementFacts DEF TicksInv
  <2>5. /\ overrides'[b].entry = overrides[b].entry
        /\ overrides'[b].late = overrides[b].late
        /\ overrides'[b].ticks_remaining = overrides[b].ticks_remaining
        /\ overrides'[b].duration = overrides[b].duration
    <3>1. overrides[b] \in Override
      BY OverrideNumbers DEF TicksInv
    <3> DEFINE a == overrides'[b].age
    <3>2. overrides'[b] = [overrides[b] EXCEPT !.age = a]
      BY <2>4
    <3> HIDE DEF a
    <3> QED BY <3>1, <3>2 DEF Override
  <2>6. Spare(overrides'[b]) = Spare(overrides[b]) + 1
    BY <2>4, <2>5, OverrideNumbers DEF Spare, TicksInv
  <2> QED BY <2>2, <2>5, <2>6
<1>4. OwnEntries'
  BY <1>1, <1>2, <1>3 DEF TicksInv, OwnEntries
<1>5. Balanced'
  BY <1>1, <1>2, <1>3 DEF Balanced, Decremented
<1>6. TicksLeft' /\ ExpiredOrNew'
  BY <1>1 DEF TicksLeft, ExpiredOrNew
<1> QED BY <1>4, <1>5, <1>6 DEF TicksInv

LEMMA TicksLoop == TicksInv /\ Loop => TicksInv'
<1> SUFFICES ASSUME TicksInv, Loop PROVE TicksInv'
  OBVIOUS
<1>0. TypeInv /\ TypeInv'
  BY LoopType DEF TicksInv
<1>1. CASE BeginTick \/ EndOccupancy \/ \E s \in Sensors : Pass(s)
  <2>1. UNCHANGED <<overrides, requests, iter, expired>>
    BY <1>1 DEF BeginTick, EndOccupancy, Pass, SkipOccupancy, SkipSensor,
                PublishOccupancy, ReadOccupancy, ReadAndPublish, Turn, control, history
  <2>2. pc' = pc \/ {pc, pc'} \cap (Ageing \cup {"dead"}) = {}
    BY <1>1 DEF BeginTick, EndOccupancy, Pass, SkipOccupancy, SkipSensor,
                PublishOccupancy, ReadOccupancy, ReadAndPublish, Turn, Ageing
  <2> QED BY <2>1, <2>2, <1>0, TicksFrame
<1>2. CASE IteratorRaises \/ \E b \in Buildings : DeleteRaises(b)
  <2>1. pc' = "dead" /\ UNCHANGED <<overrides, requests, iter, expired>>
    BY <1>2 DEF IteratorRaises, DeleteRaises, control, history
  <2> QED BY <2>1, <1>0, TicksFrame
<1>3. CASE StartScan
  <2>1. /\ pc = "publish" /\ pc' = "scan" /\ iter'.seen = {} /\ expired' = {}
        /\ UNCHANGED <<overrides, requests>>
    BY <1>3 DEF StartScan, control, Iterator
  <2> QED BY <2>1, <1>0
          DEF TicksInv, OwnEntries, Balanced, Decremented, TicksLeft, ExpiredOrNew
<1>4. CASE EndScan
  <2>1. /\ pc = "scan" /\ pc' = "delete" /\ Unseen = {}
        /\ UNCHANGED <<overrides, requests, iter, expired>>
    BY <1>4 DEF EndScan, control, history
  <2>2. \A b \in DOMAIN overrides : overrides[b].entry \in iter.seen
    BY <2>1 DEF Unseen
  <2> QED BY <2>1, <2>2, <1>0
          DEF TicksInv, OwnEntries, Balanced, Decremented, TicksLeft, ExpiredOrNew
<1>5. CASE StartDecrement
  <2>1. /\ pc = "delete" /\ pc' = "decrement" /\ iter'.seen = {} /\ expired = {}
        /\ UNCHANGED <<overrides, requests>>
    BY <1>5 DEF StartDecrement, control, history, Iterator
  <2> QED BY <2>1, <1>0
          DEF TicksInv, OwnEntries, Balanced, Decremented, TicksLeft, ExpiredOrNew
<1>6. ASSUME NEW b \in Buildings, DeleteExpired(b) PROVE TicksInv'
  <2>1. /\ UNCHANGED <<pc, iter, requests>> /\ b \in expired
        /\ overrides' = Without(b) /\ expired' = expired \ {b}
    BY <1>6 DEF DeleteExpired, history
  <2> QED BY <2>1, <1>0, TicksRemoved DEF Without
<1> QED BY <1>0, <1>1, <1>2, <1>3, <1>4, <1>5, <1>6, TicksScan, TicksDecrement,
           TicksEndDecrement DEF Loop, Age

LEMMA TicksStep == TicksInv /\ [Next]_vars => TicksInv'
<1> SUFFICES ASSUME TicksInv, [Next]_vars PROVE TicksInv'
  OBVIOUS
<1>1. TypeInv'
  BY TypeStep DEF TicksInv
<1>2. CASE OnConnect \/ OnDisconnect \/ UNCHANGED vars
  <2>1. UNCHANGED <<overrides, requests, pc, iter, expired>>
    BY <1>2 DEF OnConnect, OnDisconnect, vars, control, ticking, history
  <2> QED BY <2>1, <1>1, TicksFrame
<1> QED BY <1>2, TicksRequest, TicksLoop DEF Next

(* While no override is ageing, the ticks each has left and the ticks it has *)
(* lived add up to the duration it was set for; one set during the ageing   *)
(* may have been spared one (main.py 177-183).                              *)
THEOREM TicksAreExact == Spec => []TicksAddUp
<1>1. TicksInv => TicksAddUp
  BY DEF TicksInv, Balanced, Decremented, Spare, TicksAddUp, Quiet
<1> QED BY <1>1, TicksInit, TicksStep, PTL DEF Spec

(* Only an override that replaced an expired one between the scan and the   *)
(* deletion is taken from the dictionary by the loop before its last tick   *)
(* (main.py 178-181).                                                       *)
THEOREM OnlyReplacementsEndEarly == Spec => EndsEarlyOnlyIfReplaced
<1> DEFINE Allowed ==
      \A b \in DOMAIN overrides \ DOMAIN overrides' :
          requests' = requests /\ overrides[b].ticks_remaining > 1
              => overrides[b].late /\ overrides[b].age = 0
<1>1. ASSUME TicksInv, [Next]_vars PROVE Allowed
  <2>0. requests \in Nat
    BY <1>1, SimulatorAssumption DEF TicksInv, TypeInv, TypeOK
  <2>1. CASE HandleRequest
    <3>1. requests' = requests + 1
      BY <2>1 DEF HandleRequest, ToggleSim, SetOverride, ClearOverride,
                  EnableSensor, DisableSensor, Request
    <3> QED BY <3>1, <2>0
  <2>2. ASSUME NEW c \in Buildings, DeleteExpired(c) PROVE Allowed
    <3>1. /\ pc = "delete" /\ c \in expired
          /\ DOMAIN overrides' = DOMAIN overrides \ {c}
      BY <2>2 DEF DeleteExpired, Without
    <3>2. ASSUME NEW b \in DOMAIN overrides \ DOMAIN overrides',
                 overrides[b].ticks_remaining > 1
          PROVE  overrides[b].late /\ overrides[b].age = 0
      <4>1. b \in DOMAIN overrides \cap expired
        BY <3>1
      <4>2. ~(overrides[b].ticks_remaining <= 1)
        BY <3>2, <1>1, OverrideNumbers DEF TicksInv
      <4> QED BY <4>1, <4>2, <3>1, <1>1 DEF TicksInv, ExpiredOrNew
    <3> QED BY <3>2
  <2>3. CASE EndDecrement \/ \E c \in Buildings : Decrement(c)
    <3>1. DOMAIN overrides' = DOMAIN overrides
      BY <2>3, <1>1, DecrementFacts, EndDecrementFacts DEF TicksInv
    <3> QED BY <3>1
  <2>4. CASE \/ OnConnect \/ OnDisconnect \/ UNCHANGED vars
             \/ BeginTick \/ EndOccupancy \/ StartScan \/ IteratorRaises \/ EndScan
             \/ StartDecrement \/ \E s \in Sensors : Pass(s)
             \/ \E c \in Buildings : Scan(c) \/ DeleteRaises(c)
    <3>1. overrides' = overrides
      BY <2>4 DEF OnConnect, OnDisconnect, vars, BeginTick, EndOccupancy, StartScan,
                  IteratorRaises, EndScan, StartDecrement, Scan, DeleteRaises, Pass,
                  SkipOccupancy, SkipSensor, PublishOccupancy, ReadOccupancy,
                  ReadAndPublish, Turn, control
    <3> QED BY <3>1
  <2> QED BY <1>1, <2>1, <2>2, <2>3, <2>4 DEF Next, Loop, Age
<1>2. TicksInv /\ [Next]_vars => [Allowed]_vars
  BY <1>1
<1> QED BY <1>2, TicksInit, TicksStep, PTL DEF Spec, EndsEarlyOnlyIfReplaced
-----------------------------------------------------------------------------
(***************************************************************************)
(* Until a request resizes the dictionary, an iterator over it has the     *)
(* size it remembers and sees entries that are still there, and every      *)
(* building found expired has its override: so the loop meets neither of   *)
(* the two exceptions.  A request that replaces an override keeps its      *)
(* entry, and the loop's own deletions come after the first iteration and  *)
(* before the second.                                                      *)
(***************************************************************************)
Entries == {overrides[b].entry : b \in DOMAIN overrides}

Undisturbed ==
    /\ pc # "dead"
    /\ pc \in {"scan", "decrement"} =>
          iter.size = Cardinality(DOMAIN overrides) /\ iter.seen \subseteq Entries
    /\ pc \in {"scan", "delete"} => expired \subseteq DOMAIN overrides

LivesInv == TypeInv /\ (~moved => Undisturbed)

(* An iterator that has seen as many entries as there are has seen them    *)
(* all.                                                                    *)
LEMMA IteratorFits ==
    ASSUME IsFiniteSet(DOMAIN overrides), iter.seen \subseteq Entries,
           iter.size = Cardinality(DOMAIN overrides)
    PROVE  ~Raises
<1> DEFINE f == [b \in DOMAIN overrides |-> overrides[b].entry]
<1>1. f \in Surjection(DOMAIN overrides, Entries)
  BY DEF Surjection, Entries
<1>2. /\ IsFiniteSet(Entries)
      /\ Cardinality(Entries) <= Cardinality(DOMAIN overrides)
  BY <1>1, FS_Surjection
<1>3. /\ Cardinality(iter.seen) <= Cardinality(Entries)
      /\ Cardinality(Entries) = Cardinality(iter.seen) => Entries = iter.seen
  BY <1>2, FS_Subset
<1>4. /\ Cardinality(DOMAIN overrides) \in Nat /\ Cardinality(Entries) \in Nat
      /\ Cardinality(iter.seen) \in Nat
  BY <1>2, FS_Subset, FS_CardinalityType
<1>5. ASSUME Cardinality(iter.seen) = iter.size PROVE Unseen = {}
  <2>1. Cardinality(Entries) = Cardinality(iter.seen)
    BY <1>2, <1>3, <1>4, <1>5
  <2> QED BY <2>1, <1>3 DEF Unseen, Entries
<1> QED BY <1>5 DEF Raises

LEMMA LivesRequest == LivesInv /\ HandleRequest => LivesInv'
<1> SUFFICES ASSUME LivesInv, HandleRequest, ~moved' PROVE Undisturbed'
  BY RequestsType DEF LivesInv
<1>0. TypeInv /\ moved \in BOOLEAN
  BY DEF LivesInv, TypeInv, TypeOK
<1>1. UNCHANGED <<pc, iter, expired>>
  BY DEF HandleRequest, ToggleSim, SetOverride, ClearOverride, EnableSensor,
         DisableSensor, Request, ticking
<1>2. ~moved
  BY <1>0 DEF HandleRequest, ToggleSim, SetOverride, ClearOverride, EnableSensor,
              DisableSensor, Resizes
<1>3. Undisturbed
  BY <1>2 DEF LivesInv
<1>4. CASE pc \notin Ageing
  BY <1>1, <1>3, <1>4 DEF Undisturbed, Ageing
<1>5. ASSUME pc \in Ageing
      PROVE  DOMAIN overrides' = DOMAIN overrides /\ Entries' = Entries
  <2>1. CASE ToggleSim \/ \E s \in Sensors : EnableSensor(s) \/ DisableSensor(s)
    BY <2>1 DEF ToggleSim, EnableSensor, DisableSensor, Entries
  <2>2. ASSUME NEW b \in Buildings, NEW types \in OverrideTypes,
               NEW n \in 1..MaxTicks, SetOverride(b, types, n)
        PROVE  DOMAIN overrides' = DOMAIN overrides /\ Entries' = Entries
    <3>1. b \in DOMAIN overrides
      BY <1>5, <2>2 DEF SetOverride, Resizes
    <3>2. /\ DOMAIN overrides' = DOMAIN overrides
          /\ \A c \in DOMAIN overrides : overrides'[c].entry = overrides[c].entry
      BY <1>0, <2>2, <3>1, SetOverrideFacts
    <3> QED BY <3>2 DEF Entries
  <2>3. ASSUME NEW b \in Buildings, ClearOverride(b) PROVE FALSE
    BY <1>5, <2>3 DEF ClearOverride, Resizes
  <2> QED BY <2>1, <2>2, <2>3 DEF HandleRequest
<1> QED BY <1>1, <1>3, <1>4, <1>5 DEF Undisturbed

LEMMA LivesLoop == LivesInv /\ Loop => LivesInv'
<1> SUFFICES ASSUME LivesInv, Loop, ~moved' PROVE Undisturbed'
  BY LoopType DEF LivesInv
<1>0. TypeInv /\ IsFiniteSet(DOMAIN overrides) /\ (~moved => Undisturbed)
  BY DEF LivesInv, TypeInv
<1>1. CASE StartScan
  BY <1>1 DEF StartScan, Iterator, Undisturbed, control
<1>2. ASSUME ~StartScan PROVE moved' = moved
  BY <1>2 DEF Loop, Pass, Age, BeginTick, EndOccupancy, IteratorRaises, EndScan,
              StartDecrement, EndDecrement, SkipOccupancy, SkipSensor,
              PublishOccupancy, ReadOccupancy, ReadAndPublish, Turn, Scan,
              DeleteExpired, DeleteRaises, Decrement, history
<1> SUFFICES ASSUME ~StartScan, Undisturbed PROVE Undisturbed'
  BY <1>0, <1>1, <1>2
<1>3. CASE BeginTick \/ EndOccupancy \/ EndDecrement
  BY <1>3 DEF BeginTick, EndOccupancy, EndDecrement, Undisturbed
<1>4. CASE \E s \in Sensors : Pass(s)
  <2>1. pc \in {"occupancy", "publish"} /\ pc' = pc
    BY <1>4 DEF Pass, SkipOccupancy, SkipSensor, PublishOccupancy, ReadOccupancy,
                ReadAndPublish, Turn
  <2> QED BY <2>1 DEF Undisturbed
<1>5. CASE IteratorRaises
  BY <1>0, <1>5, IteratorFits DEF IteratorRaises, Undisturbed
<1>6. CASE EndScan
  BY <1>6 DEF EndScan, Undisturbed, control
<1>7. CASE StartDecrement
  BY <1>7 DEF StartDecrement, Iterator, Undisturbed, control
<1>8. ASSUME NEW b \in Buildings, Scan(b) PROVE Undisturbed'
  <2>1. /\ pc = "scan" /\ UNCHANGED <<pc, overrides>>
        /\ b \in DOMAIN overrides /\ See(b) /\ expired' \subseteq expired \cup {b}
    BY <1>8 DEF Scan, Unseen, control
  <2>2. iter'.size = iter.size /\ iter'.seen = iter.seen \cup {overrides[b].entry}
    BY <1>0, <2>1, SeeType
  <2>3. overrides[b].entry \in Entries /\ Entries' = Entries
    BY <2>1 DEF Entries
  <2> QED BY <2>1, <2>2, <2>3 DEF Undisturbed
<1>9. ASSUME NEW b \in Buildings, DeleteExpired(b) PROVE Undisturbed'
  <2>1. /\ pc = "delete" /\ pc' = pc /\ expired' = expired \ {b}
        /\ DOMAIN overrides' = DOMAIN overrides \ {b}
    BY <1>9 DEF DeleteExpired, Without
  <2> QED BY <2>1 DEF Undisturbed
<1>10. ASSUME NEW b \in Buildings, DeleteRaises(b) PROVE Undisturbed'
  BY <1>10 DEF DeleteRaises, Undisturbed
<1>11. ASSUME NEW b \in Buildings, Decrement(b) PROVE Undisturbed'
  <2>1. pc = "decrement" /\ pc' = pc /\ b \in DOMAIN overrides /\ See(b)
    BY <1>11 DEF Decrement, Unseen
  <2>2. iter'.size = iter.size /\ iter'.seen = iter.seen \cup {overrides[b].entry}
    BY <1>0, <2>1, SeeType
  <2>3. /\ DOMAIN overrides' = DOMAIN overrides
        /\ \A c \in DOMAIN overrides : c # b => overrides'[c] = overrides[c]
        /\ overrides'[b].entry = overrides[b].entry
    <3>1. overrides[b] \in Override
      BY <1>0, <2>1 DEF TypeInv, TypeOK
    <3> QED BY <1>0, <1>11, <3>1, DecrementFacts DEF Override
  <2>4. overrides[b].entry \in Entries /\ Entries' = Entries
    BY <2>1, <2>3 DEF Entries
  <2> QED BY <2>1, <2>2, <2>3, <2>4 DEF Undisturbed
<1> QED BY <1>3, <1>4, <1>5, <1>6, <1>7, <1>8, <1>9, <1>10, <1>11 DEF Loop, Age

(* The loop's thread ends only in a tick in which a request added or        *)
(* removed an override while the overrides aged (main.py 178-183).          *)
THEOREM OnlyRequestsEndTheLoop == Spec => []LoopLives
<1>1. Init => LivesInv
  <2>1. Init => Undisturbed
    BY DEF Init, Undisturbed
  <2> QED BY <2>1, TypeInit DEF LivesInv
<1>2. LivesInv /\ [Next]_vars => LivesInv'
  <2>1. ASSUME LivesInv, OnConnect \/ OnDisconnect \/ UNCHANGED vars
        PROVE  LivesInv'
    <3>1. UNCHANGED <<overrides, pc, iter, expired, moved>>
      BY <2>1 DEF OnConnect, OnDisconnect, vars, control, ticking, history
    <3>2. TypeInv'
      BY <2>1, TypeStep DEF LivesInv, Next
    <3> QED BY <2>1, <3>1, <3>2 DEF LivesInv, Undisturbed, Entries
  <2> QED BY <2>1, LivesRequest, LivesLoop DEF Next
<1>3. LivesInv => LoopLives
  BY DEF LivesInv, Undisturbed, LoopLives
<1> QED BY <1>1, <1>2, <1>3, PTL DEF Spec

-----------------------------------------------------------------------------
(***************************************************************************)
(* The zones and the dataset generator, for any dates, rooms, events and   *)
(* sampling step.  What a zone aims at is a nested choice of scaled        *)
(* numbers, so each zone is typed first; the ramps of the timetable are    *)
(* maxima over sets, which exist by induction on a bound.                  *)
(***************************************************************************)
(* A nonempty set of integers with an upper bound has a maximum.            *)
LEMMA MaxOfBounded ==
    ASSUME NEW S, S \subseteq Int, S # {}, NEW hi \in Int, \A y \in S : y <= hi
    PROVE  Max(S) \in S /\ \A y \in S : y <= Max(S)
<1> DEFINE T == {hi - y : y \in S}
<1>1. T \subseteq Nat /\ T # {}
    <2>1. \A y \in S : hi - y \in Nat
        OBVIOUS
    <2> QED
        BY <2>1
<1>2. PICK t \in T : \A u \in T : ~(<<u, t>> \in OpToRel(<, Nat))
    BY <1>1, WFMin, NatLessThanWellFounded
<1>3. PICK x \in S : t = hi - x
    OBVIOUS
<1>4. \A y \in S : x >= y
    <2> SUFFICES ASSUME NEW y \in S PROVE x >= y
        OBVIOUS
    <2>1. hi - y \in T /\ hi - y \in Nat /\ t \in Nat
        BY <1>1
    <2>2. <<hi - y, t>> \notin OpToRel(<, Nat)
        BY <1>2, <2>1
    <2>3. ~(hi - y < t)
        BY <2>1, <2>2 DEF OpToRel
    <2> QED
        BY <1>3, <2>3
<1> HIDE DEF T
<1>5. \E z \in S : \A y \in S : z >= y
    BY <1>4
<1>6. Max(S) \in S /\ \A y \in S : Max(S) >= y
    BY <1>5 DEF Max
<1> QED
    BY <1>6

(* Products of ratios.                                                      *)
LEMMA ScaleFacts ==
    /\ \A a, b \in Int : Scale(a, b) \in Int
    /\ \A b \in Int : Scale(0, b) = 0
    /\ \A a \in Int : Scale(a, Unit) = a
    BY DEF Scale, Unit

(* The events' factors are numbers, and move nobody out of a hostel.         *)
LEMMA DrainTyped ==
    ASSUME NEW types, NEW type
    PROVE  Drain(types, type) \in Int
<1>1. \A e : EVENT_CROWD_DRAIN(e, type) \in Int
    BY DEF EVENT_CROWD_DRAIN, Unit
<1> QED
    BY <1>1 DEF Drain, Scale, Unit

LEMMA DrainOfHostels ==
    ASSUME NEW types
    PROVE  Drain(types, "hostel") = Unit
<1>1. \A e : EVENT_CROWD_DRAIN(e, "hostel") = Unit
    BY DEF EVENT_CROWD_DRAIN, Unit
<1> QED
    BY <1>1 DEF Drain, Scale, Unit

-----------------------------------------------------------------------------
(* The state of a room's sensor: never more heads than seats, and a
   tutorial of one of its two sizes.                                        *)
CampusTypeOK ==
    /\ date \in Dates
    /\ minute \in 0 .. 1439
    /\ events \subseteq EventPool
    /\ room \in Rooms /\ room.type # "server_room"
    /\ count \in 0 .. room.capacity
    /\ eve \in {0, 2000, 5000}

LEMMA GenerateTyped ==
    ASSUME NEW d, NEW evts \in Generate(d)
    PROVE  evts \subseteq EventPool
    BY DEF Generate, kSubset

(* _apply_flow keeps the count between nobody and the capacity.             *)
LEMMA FlowTyped ==
    ASSUME NEW r, r.capacity \in Nat, NEW ratio \in Int, NEW n \in 0 .. r.capacity,
           NEW m \in Flow(r, ratio, n), Draws \subseteq Int
    PROVE  m \in 0 .. r.capacity
<1> DEFINE Target(z) == Most(0, Least(r.capacity,
                          (ratio * r.capacity + 5000) \div Unit
                            + z * Most(1, r.capacity \div 25)))
           Gap(t) == Most(t - n, n - t)
           Pace(t) == IF 10 * Gap(t) > r.capacity
                      THEN Most(1, Least(Gap(t), r.capacity \div 20)) ELSE 1
           Towards(t) == CASE t > n -> Least(r.capacity, n + Pace(t))
                           [] t < n -> Most(0, n - Pace(t))
                           [] OTHER -> n
<1>1. \A a, b \in Int : Most(a, b) \in {a, b} /\ Least(a, b) \in {a, b}
    BY DEF Most, Least
<1>2. \A z \in Draws : Target(z) \in 0 .. r.capacity
    <2> SUFFICES ASSUME NEW z \in Draws PROVE Target(z) \in 0 .. r.capacity
        OBVIOUS
    <2> DEFINE aim == (ratio * r.capacity + 5000) \div Unit + z * Most(1, r.capacity \div 25)
    <2>1. r.capacity \div 25 \in Int /\ Most(1, r.capacity \div 25) \in Int
        BY DEF Most
    <2>2. (ratio * r.capacity + 5000) \div Unit \in Int
        BY DEF Unit
    <2>3. aim \in Int
        BY <2>1, <2>2
    <2> HIDE DEF aim
    <2>4. Most(0, Least(r.capacity, aim)) \in 0 .. r.capacity
        BY <2>3 DEF Most, Least
    <2> QED
        BY <2>4 DEF aim
<1>3. \A t \in 0 .. r.capacity : Pace(t) \in Nat
    BY DEF Most, Least
<1>4. \A t \in 0 .. r.capacity : Towards(t) \in 0 .. r.capacity
    BY <1>3 DEF Most, Least
<1>5. Flow(r, ratio, n) = {n} \cup {Towards(Target(z)) : z \in Draws}
    BY DEF Flow
<1> HIDE DEF Target, Towards
<1> QED
    BY <1>2, <1>4, <1>5

-----------------------------------------------------------------------------
(* The timetable's ratios are numbers.                                      *)
Minutes == 0 .. 1439

LEMMA SlotEdges ==
    /\ \A s \in LECTURE_SLOTS : s[1] \in Int /\ s[2] \in Int
          /\ 495 <= s[1] /\ s[1] < s[2] /\ s[2] <= 1035
    /\ \A s \in EXAM_SLOTS : s[1] \in Int /\ s[2] \in Int
          /\ 480 <= s[1] /\ s[1] < s[2] /\ s[2] <= 960
    /\ \A p \in CANTEEN_PERIODS : p[1] \in Int /\ p[2] \in Int /\ p[3] \in Nat /\ p[1] < p[2]
    BY DEF LECTURE_SLOTS, EXAM_SLOTS, CANTEEN_PERIODS

(* What the ramps of a slot give within it.                                 *)
LEMMA FillingTyped ==
    ASSUME NEW m \in Int, NEW a \in Int, a - 10 <= m, m <= a - 1
    PROVE  Filling(m, a) \in 0 .. Unit
<1> DEFINE q == m - a + 10
<1>1. q \in {0, 1, 2, 3, 4, 5, 6, 7, 8, 9}
    OBVIOUS
<1>2. Filling(m, a) = (8800 * q * q) \div 100
    BY DEF Filling
<1> HIDE DEF q
<1> QED
    BY <1>1, <1>2 DEF Unit

LEMMA DrainingTyped ==
    ASSUME NEW m \in Int, NEW b \in Int, b + 1 <= m, m <= b + 4
    PROVE  Draining(m, b) \in 0 .. Unit
<1> DEFINE q == 5 - m + b
<1>1. q \in {1, 2, 3, 4}
    OBVIOUS
<1>2. Draining(m, b) = (8800 * q * q) \div 25
    BY DEF Draining
<1> HIDE DEF q
<1> QED
    BY <1>1, <1>2 DEF Unit

LEMMA SittingTyped ==
    ASSUME NEW m \in Int, NEW a \in Int, NEW b \in Int, a < b, a - 30 <= m, m <= b + 19
    PROVE  Sitting(m, a, b) \in 0 .. Unit
<1>1. m < a => (9500 * (m - a + 30)) \div 30 \in 0 .. Unit
    <2>1. \A k \in 0 .. 30 : (9500 * k) \div 30 \in 0 .. Unit
        BY SMTT(30) DEF Unit
    <2>2. m < a => m - a + 30 \in 0 .. 30
        OBVIOUS
    <2> QED
        BY <2>1, <2>2
<1>2. m > b => (9500 * (20 - m + b)) \div 20 \in 0 .. Unit
    <2>1. \A k \in 0 .. 20 : (9500 * k) \div 20 \in 0 .. Unit
        BY SMTT(30) DEF Unit
    <2>2. m > b => 20 - m + b \in 0 .. 20
        OBVIOUS
    <2> QED
        BY <2>1, <2>2
<1>3. m < a => Sitting(m, a, b) = (9500 * (m - a + 30)) \div 30
    BY DEF Sitting
<1>4. ~(m < a) /\ m > b => Sitting(m, a, b) = (9500 * (20 - m + b)) \div 20
    BY DEF Sitting
<1>5. ~(m < a) /\ ~(m > b) => Sitting(m, a, b) = 9500
    BY DEF Sitting
<1>6. 9500 \in 0 .. Unit
    BY DEF Unit
<1> HIDE DEF Sitting
<1> QED
    BY <1>1, <1>2, <1>3, <1>4, <1>5, <1>6

LEMMA RushTyped ==
    ASSUME NEW m \in Int, NEW a \in Int, NEW b \in Int, a < b, NEW peak \in Int
    PROVE  Rush(m, a, b, peak) \in Int
<1> DEFINE edge == Least(m - a, b - m)
<1>1. edge \in Int
    BY DEF Least
<1>2. (peak * 3 * edge) \div (b - a) \in Int
    BY <1>1
<1> QED
    BY <1>2 DEF Rush

(* The largest of some ratios is one of them.                               *)
LEMMA LargestRatio ==
    ASSUME NEW S, S \subseteq 0 .. Unit
    PROVE  /\ S # {} => Max(S) \in S
           /\ Max({0} \cup S) \in 0 .. Unit
           /\ S = {} => Max({0} \cup S) = 0
<1>1. \A R : R \subseteq 0 .. Unit /\ R # {} => Max(R) \in R
    <2> SUFFICES ASSUME NEW R, R \subseteq 0 .. Unit, R # {} PROVE Max(R) \in R
        OBVIOUS
    <2>1. R \subseteq Int /\ Unit \in Int /\ \A y \in R : y <= Unit
        BY SMTT(30) DEF Unit
    <2> QED
        BY <2>1, MaxOfBounded
<1>2. {0} \cup S \subseteq 0 .. Unit
    BY DEF Unit
<1>3. Max({0} \cup S) \in {0} \cup S
    BY <1>1, <1>2
<1> QED
    BY <1>1, <1>2, <1>3

(* No teaching slot reaches, with its ramps, outside a classroom's hours.    *)
LEMMA LectureRatioTyped ==
    ASSUME NEW m \in Minutes
    PROVE  /\ LectureRatio(m) \in 0 .. Unit
           /\ m \notin 420 .. 1259 => LectureRatio(m) = 0
<1> DEFINE Before == {t \in LECTURE_SLOTS : m \in t[1] - 10 .. t[1] - 1}
           After == {t \in LECTURE_SLOTS : m \in t[2] + 1 .. t[2] + 4}
           Ramps == {Filling(m, s[1]) : s \in Before} \cup {Draining(m, s[2]) : s \in After}
<1>1. m \in Int /\ 0 <= m /\ m <= 1439
    BY DEF Minutes
<1>2. \A s \in Before : Filling(m, s[1]) \in 0 .. Unit
    <2>1. \A s \in Before : s[1] \in Int /\ s[1] - 10 <= m /\ m <= s[1] - 1
        BY SlotEdges, <1>1
    <2> HIDE DEF Before
    <2> QED
        BY <1>1, <2>1, FillingTyped
<1>3. \A s \in After : Draining(m, s[2]) \in 0 .. Unit
    <2>1. \A s \in After : s[2] \in Int /\ s[2] + 1 <= m /\ m <= s[2] + 4
        BY SlotEdges, <1>1
    <2> HIDE DEF After
    <2> QED
        BY <1>1, <2>1, DrainingTyped
<1>4. m \notin 420 .. 1259 => Before = {} /\ After = {} /\ ~IsDuringLectures(m)
    BY <1>1, SlotEdges DEF IsDuringLectures
<1>5. LectureRatio(m) = IF IsDuringLectures(m) THEN 8800 ELSE Max({0} \cup Ramps)
    <2>1. {0} \cup Ramps = {0} \cup {Filling(m, s[1]) : s \in Before}
                              \cup {Draining(m, s[2]) : s \in After}
        OBVIOUS
    <2> QED
        BY <2>1 DEF LectureRatio
<1>6. Ramps \subseteq 0 .. Unit /\ (Before = {} /\ After = {} => Ramps = {})
    <2> HIDE DEF Before, After
    <2> QED
        BY <1>2, <1>3
<1> HIDE DEF Before, After, Ramps
<1>7. Max({0} \cup Ramps) \in 0 .. Unit /\ (Ramps = {} => Max({0} \cup Ramps) = 0)
    BY <1>6, LargestRatio
<1>8. LectureRatio(m) \in 0 .. Unit
    <2>1. 8800 \in 0 .. Unit
        BY DEF Unit
    <2> QED
        BY <1>5, <1>7, <2>1
<1> QED
    BY <1>4, <1>5, <1>6, <1>7, <1>8

LEMMA ExamRatioTyped ==
    ASSUME NEW m \in Minutes
    PROVE  /\ ExamRatio(m) \in 0 .. Unit
           /\ m \notin 420 .. 1259 => ExamRatio(m) = 0
<1> DEFINE Around == {t \in EXAM_SLOTS : m \in t[1] - 30 .. t[2] + 19}
           All == {Sitting(m, s[1], s[2]) : s \in Around}
<1>1. m \in Int /\ 0 <= m /\ m <= 1439
    BY DEF Minutes
<1>2. \A s \in Around : Sitting(m, s[1], s[2]) \in 0 .. Unit
    <2>1. \A s \in Around : s[1] \in Int /\ s[2] \in Int /\ s[1] < s[2]
                              /\ s[1] - 30 <= m /\ m <= s[2] + 19
        BY SlotEdges, <1>1
    <2> HIDE DEF Around
    <2>2. ASSUME NEW s \in Around PROVE Sitting(m, s[1], s[2]) \in 0 .. Unit
        <3>1. s[1] \in Int /\ s[2] \in Int /\ s[1] < s[2] /\ s[1] - 30 <= m /\ m <= s[2] + 19
            BY <2>1
        <3> QED
            BY ZenonT(40), <1>1, <3>1, SittingTyped
    <2> QED
        BY <2>2
<1>3. m \notin 420 .. 1259 => Around = {}
    BY <1>1, SlotEdges
<1>4. ExamRatio(m) = Max({0} \cup All)
    BY DEF ExamRatio
<1>5. All \subseteq 0 .. Unit /\ (Around = {} => All = {})
    <2> HIDE DEF Around
    <2> QED
        BY <1>2
<1> HIDE DEF Around, All
<1>6. Max({0} \cup All) \in 0 .. Unit /\ (All = {} => Max({0} \cup All) = 0)
    BY <1>5, LargestRatio
<1> QED
    BY <1>3, <1>4, <1>5, <1>6

LEMMA CanteenRatioTyped ==
    ASSUME NEW m \in Minutes
    PROVE  CanteenRatio(m) \in Int
<1> DEFINE now == {p \in CANTEEN_PERIODS : p[1] <= m /\ m < p[2]}
           period == CHOOSE p \in now : TRUE
<1>1. \A p \in now : Rush(m, p[1], p[2], p[3]) \in Int
    <2>1. m \in Int /\ \A p \in now : p[1] \in Int /\ p[2] \in Int /\ p[3] \in Int /\ p[1] < p[2]
        BY SlotEdges DEF Minutes
    <2> HIDE DEF now
    <2> QED
        BY <2>1, RushTyped
<1>2. now # {} => period \in now
    OBVIOUS
<1>3. /\ now # {} => CanteenRatio(m) = Rush(m, period[1], period[2], period[3])
      /\ now = {} => CanteenRatio(m) \in {0, 200, 300}
    BY DEF CanteenRatio
<1> HIDE DEF now, period
<1> QED
    BY <1>1, <1>2, <1>3

LEMMA LibraryRatioTyped ==
    ASSUME NEW m \in Minutes, NEW exam \in BOOLEAN
    PROVE  /\ LibraryRatio(m, exam) \in Int
           /\ m \notin 480 .. 1259 => LibraryRatio(m, exam) = 0
    BY DEF LibraryRatio

LEMMA OfficeRatioTyped ==
    ASSUME NEW m \in Minutes
    PROVE  OfficeRatio(m) \in Int
    BY DEF OfficeRatio

LEMMA HostelRatioTyped ==
    ASSUME NEW m \in Minutes, NEW weekend \in BOOLEAN, NEW vacation \in BOOLEAN
    PROVE  HostelRatio(m, weekend, vacation) \in 0 .. Unit
<1>1. m \in Int /\ 0 <= m /\ m <= 1439
    BY DEF Minutes
<1>2. m >= 1050 /\ m < 1320 => 2000 + (7000 * (m - 1050)) \div 270 \in 0 .. Unit
    BY <1>1 DEF Unit
<1>3. \/ HostelRatio(m, weekend, vacation)
              \in {9000, 8500, 5500, 8000, 4500, 7500, 2000}
      \/ /\ m >= 1050 /\ m < 1320
         /\ HostelRatio(m, weekend, vacation) = 2000 + (7000 * (m - 1050)) \div 270
    BY <1>1 DEF HostelRatio
<1>4. {9000, 8500, 5500, 8000, 4500, 7500, 2000} \subseteq 0 .. Unit
    BY DEF Unit
<1> QED
    BY <1>2, <1>3, <1>4

(* Whatever periods a date is in, its attendance is a number.               *)
LEMMA AcademicDayTyped ==
    ASSUME NEW d \in Dates
    PROVE  /\ AcademicDay(d).fraction \in Nat
           /\ AcademicDay(d).tua \in BOOLEAN
           /\ LectureScale(AcademicDay(d)) \in Nat
<1> DEFINE named == {i \in 1 .. Len(d.periods) : d.periods[i].fraction # NoFraction}
           fraction == IF named = {} THEN d.baseline ELSE d.periods[Max(named)].fraction
<1>1. d.baseline \in Nat /\ Len(d.periods) \in Nat
      /\ {d.weekend, d.holiday} \subseteq BOOLEAN
      /\ \A i \in 1 .. Len(d.periods) : d.periods[i].fraction \in Nat \cup {NoFraction}
    BY CampusAssumption
<1>2. named \subseteq Int /\ \A i \in named : i <= Len(d.periods)
    BY <1>1
<1>3. named # {} => Max(named) \in named
    <2> HIDE DEF named
    <2>1. Len(d.periods) \in Int
        BY <1>1
    <2> QED
        BY <1>2, <2>1, MaxOfBounded
<1>4. fraction \in Nat
    BY <1>1, <1>3
<1> HIDE DEF fraction
<1>5. Least(10500, Most(0, fraction)) \in Nat
    BY <1>4 DEF Least, Most
<1>6. AcademicDay(d) =
        CASE d.weekend -> [activity |-> "IS", fraction |-> 1500, tua |-> FALSE]
          [] d.holiday /\ ~d.weekend -> [activity |-> "VAC", fraction |-> 500, tua |-> FALSE]
          [] OTHER ->
               [activity |-> IF d.periods = <<>> THEN "AW"
                             ELSE d.periods[Len(d.periods)].activity,
                fraction |-> Least(10500, Most(0, fraction)),
                tua |-> \E i \in 1 .. Len(d.periods) : d.periods[i].activity = "TUA"]
    BY DEF AcademicDay, fraction, named
<1>7. AcademicDay(d).fraction \in Nat /\ AcademicDay(d).tua \in BOOLEAN
    BY <1>1, <1>5, <1>6
<1> QED
    BY <1>7 DEF LectureScale, Least, Unit

-----------------------------------------------------------------------------
(* What a zone aims at is a number, and nobody when its building is locked. *)
ContextOf(c) ==
    /\ c.date \in Dates
    /\ {c.date.weekend, c.date.holiday} \subseteq BOOLEAN
    /\ c.day = AcademicDay(c.date)
    /\ c.day.fraction \in Nat
    /\ LectureScale(c.day) \in Nat
    /\ c.minute \in Minutes
    /\ \A e \in c.active : \A b \in DOMAIN e.fill : e.fill[b] \in 0 .. Unit

LEMMA ContextTyped ==
    ASSUME NEW d \in Dates, NEW evts, evts \subseteq EventPool, NEW m \in Minutes
    PROVE  ContextOf(Context(d, evts, m))
    BY AcademicDayTyped, CampusAssumption DEF Context, ContextOf

LEMMA ContextParts ==
    ASSUME NEW c, ContextOf(c)
    PROVE  /\ c.date.weekend \in BOOLEAN /\ c.date.holiday \in BOOLEAN
           /\ IsExamPeriod(c.day) \in BOOLEAN /\ IsEssentiallyEmpty(c.day) \in BOOLEAN
           /\ c.day.fraction \in Int /\ LectureScale(c.day) \in Int
           /\ c.minute \in Minutes
    BY DEF ContextOf, IsExamPeriod, IsEssentiallyEmpty

(* Zone by zone: a number, and nobody outside the building's hours.         *)
LEMMA CanteenZoneTyped ==
    ASSUME NEW c, ContextOf(c)
    PROVE  /\ CanteenZone(c) \in Int
           /\ c.minute \notin OpenHours("canteen") => CanteenZone(c) = 0
<1> DEFINE m == c.minute
           base == IF c.date.weekend THEN Scale(CanteenRatio(m), 4000) ELSE CanteenRatio(m)
           f == c.day.fraction
           cut == IF IsEssentiallyEmpty(c.day) THEN Most(500, Scale(base, 3000))
                  ELSE Scale(base, f)
<1>1. CanteenRatio(m) \in Int
    BY CanteenRatioTyped, ContextParts
<1>2. f \in Int
    BY ContextParts
<1>3. base \in Int
    BY <1>1, ScaleFacts
<1>4. cut \in Int
    <2> HIDE DEF base, f
    <2>1. Scale(base, 3000) \in Int /\ Scale(base, f) \in Int
        BY <1>2, <1>3, ScaleFacts
    <2>2. Most(500, Scale(base, 3000)) \in Int
        BY <2>1 DEF Most
    <2> QED
        BY <2>1, <2>2
<1>5. CanteenZone(c) = CASE m \notin 390 .. 1199 -> 0
                         [] m \in 390 .. 1199 /\ c.date.holiday ->
                              IF m \in 600 .. 899 THEN 1500 ELSE 0
                         [] /\ m \in 390 .. 1199 /\ ~c.date.holiday /\ c.date.weekend
                            /\ m \notin 420 .. 839 \cup 1080 .. 1199 -> 0
                         [] OTHER -> cut
    BY DEF CanteenZone
<1>6. OpenHours("canteen") = 390 .. 1199
    BY DEF OpenHours
<1>7. CanteenZone(c) = 0 \/ CanteenZone(c) = 1500 \/ CanteenZone(c) = cut
    <2> HIDE DEF cut, m
    <2> QED
        BY <1>5
<1>8. m \notin 390 .. 1199 => CanteenZone(c) = 0
    <2> HIDE DEF cut, m
    <2> QED
        BY <1>5
<1> HIDE DEF cut
<1> QED
    BY <1>4, <1>6, <1>7, <1>8

LEMMA LibraryZoneTyped ==
    ASSUME NEW c, ContextOf(c)
    PROVE  /\ LibraryZone(c) \in Int
           /\ c.minute \notin OpenHours("library") => LibraryZone(c) = 0
<1> DEFINE base == LibraryRatio(c.minute, IsExamPeriod(c.day))
           f == c.day.fraction
           busy == IF c.date.weekend THEN Scale(base, 5500) ELSE base
           cut == IF IsLowAttendance(c.day) THEN Scale(busy, 8000) ELSE busy
<1>1. base \in Int /\ (c.minute \notin 480 .. 1259 => base = 0)
    BY LibraryRatioTyped, ContextParts
<1>2. base \in Int
    BY <1>1
<1>3. f \in Int
    BY ContextParts
<1>4. busy \in Int /\ (base = 0 => busy = 0)
    <2> HIDE DEF base
    <2> QED
        BY <1>2, ScaleFacts
<1>5. cut \in Int /\ (base = 0 => cut = 0)
    <2> HIDE DEF busy, base
    <2> QED
        BY <1>4, ScaleFacts
<1>6. Scale(cut, f) \in Int /\ (base = 0 => Scale(cut, f) = 0)
    <2> HIDE DEF cut, f, base
    <2> QED
        BY <1>3, <1>5, ScaleFacts
<1>7. LibraryZone(c) = 0 \/ LibraryZone(c) = Scale(cut, f)
    BY DEF LibraryZone
<1>8. OpenHours("library") = 480 .. 1259
    BY DEF OpenHours
<1> HIDE DEF cut, f, base
<1> QED
    BY <1>1, <1>6, <1>7, <1>8

LEMMA ClassroomZoneTyped ==
    ASSUME NEW c, ContextOf(c), NEW building
    PROVE  /\ ClassroomZone(c, building) \in Int
           /\ c.minute \notin OpenHours("classroom") => ClassroomZone(c, building) = 0
<1> DEFINE m == c.minute
           slots == IF IsExamPeriod(c.day) THEN ExamRatio(m) ELSE LectureRatio(m)
           ls == LectureScale(c.day)
<1>1. LectureRatio(m) \in Int /\ slots \in Int /\ ls \in Int
    BY LectureRatioTyped, ExamRatioTyped, ContextParts
<1>2. Scale(LectureRatio(m), 4000) \in Int /\ Scale(slots, ls) \in Int
    <2>1. \A a, b \in Int : Scale(a, b) \in Int
        BY ScaleFacts
    <2> HIDE DEF slots, m, ls
    <2>2. Scale(LectureRatio(m), 4000) \in Int
        <3> DEFINE lr == LectureRatio(m)
        <3>1. lr \in Int
            BY <1>1
        <3> HIDE DEF lr
        <3>2. Scale(lr, 4000) \in Int
            BY <2>1, <3>1
        <3> QED
            BY <3>2 DEF lr
    <2>3. Scale(slots, ls) \in Int
        <3>1. slots \in Int /\ ls \in Int
            BY <1>1
        <3> QED
            BY <2>1, <3>1
    <2> QED
        BY <2>2, <2>3
<1>3. ClassroomZone(c, building)
        \in {0, 300, Scale(LectureRatio(m), 4000), Scale(slots, ls)}
    BY DEF ClassroomZone
<1>4. c.minute \notin OpenHours("classroom") => ClassroomZone(c, building) = 0
    BY DEF ClassroomZone, OpenHours
<1> QED
    BY <1>2, <1>3, <1>4

LEMMA OfficeZoneTyped ==
    ASSUME NEW c, ContextOf(c)
    PROVE  /\ OfficeZone(c) \in Int
           /\ c.minute \notin OpenHours("office") => OfficeZone(c) = 0
<1> DEFINE m == c.minute
           base == IF IsExamPeriod(c.day) /\ m \in 510 .. 1019 THEN 9000 ELSE OfficeRatio(m)
<1>1. base \in Int /\ Most(4000, c.day.fraction) \in Int
    BY OfficeRatioTyped DEF ContextOf, Most
<1>2. Most(1000, Scale(base, Most(4000, c.day.fraction))) \in Int
    <2> HIDE DEF base
    <2>1. Scale(base, Most(4000, c.day.fraction)) \in Int
        BY <1>1, ScaleFacts
    <2> QED
        BY <2>1 DEF Most
<1>3. OfficeZone(c) \in {0, 500, Most(1000, Scale(base, Most(4000, c.day.fraction)))}
    BY DEF OfficeZone
<1>4. c.minute \notin OpenHours("office") => OfficeZone(c) = 0
    BY DEF OfficeZone, OpenHours
<1> QED
    BY <1>2, <1>3, <1>4

LEMMA HostelZoneTyped ==
    ASSUME NEW c, ContextOf(c)
    PROVE  HostelZone(c) \in Int
<1>1. HostelRatio(c.minute, c.date.weekend, IsEssentiallyEmpty(c.day)) \in Int
    BY HostelRatioTyped, ContextParts
<1> QED
    BY <1>1, ScaleFacts DEF HostelZone

LEMMA AuditoriumZoneTyped ==
    ASSUME NEW c, ContextOf(c)
    PROVE  /\ AuditoriumZone(c) \subseteq Int
           /\ c.minute \notin OpenHours("auditorium") => AuditoriumZone(c) = {0}
<1>1. \A a \in Int : Scale(a, LectureScale(c.day)) \in Int
    BY ScaleFacts DEF ContextOf
<1>2. AuditoriumZone(c) \subseteq {0, Scale(8500, LectureScale(c.day)),
                                  Scale(5500, LectureScale(c.day)),
                                  Scale(9000, LectureScale(c.day))}
    BY DEF AuditoriumZone
<1>3. c.minute \notin OpenHours("auditorium") => AuditoriumZone(c) = {0}
    BY DEF AuditoriumZone, OpenHours
<1> QED
    BY <1>1, <1>2, <1>3

LEMMA OutdoorZoneTyped ==
    ASSUME NEW c, ContextOf(c)
    PROVE  /\ OutdoorZone(c) \subseteq Int
           /\ c.minute \notin OpenHours("outdoor") => OutdoorZone(c) = {0}
<1> DEFINE Of(applies, factor) == IF applies THEN factor ELSE Unit
           season == SeasonFactor(c.date.month, c.minute)
           Passing(b) == Scale(Scale(Scale(Scale(10 * b, Of(c.date.weekend, 15000)),
                                           Of(IsExamPeriod(c.day), 3000)),
                                     Of(IsLowAttendance(c.day), 20000)), season)
           bases == IF c.minute \in 420 .. 1259 THEN {0, 150} ELSE {0}
           Aim(b) == Most(50, Scale(Passing(b), Most(2000, c.day.fraction)) \div 10)
<1>1. season \in Int
    BY DEF SeasonFactor, Unit
<1>2. \A applies : Of(applies, 15000) \in Int /\ Of(applies, 3000) \in Int
                   /\ Of(applies, 20000) \in Int
    BY DEF Unit
<1>3. Most(2000, c.day.fraction) \in Int
    BY DEF ContextOf, Most
<1>4. ASSUME NEW b \in Int PROVE Aim(b) \in Int
    <2> HIDE DEF Of, season
    <2>1. 10 * b \in Int
        OBVIOUS
    <2>2. Passing(b) \in Int
        <3>1. Scale(10 * b, Of(c.date.weekend, 15000)) \in Int
            BY <1>2, <2>1, ScaleFacts
        <3>2. Scale(Scale(10 * b, Of(c.date.weekend, 15000)), Of(IsExamPeriod(c.day), 3000)) \in Int
            BY <1>2, <3>1, ScaleFacts
        <3>3. Scale(Scale(Scale(10 * b, Of(c.date.weekend, 15000)), Of(IsExamPeriod(c.day), 3000)),
                    Of(IsLowAttendance(c.day), 20000)) \in Int
            BY <1>2, <3>2, ScaleFacts
        <3> QED
            BY <1>1, <3>3, ScaleFacts
    <2> HIDE DEF Passing
    <2>3. Scale(Passing(b), Most(2000, c.day.fraction)) \in Int
        BY <1>3, <2>2, ScaleFacts
    <2>4. Scale(Passing(b), Most(2000, c.day.fraction)) \div 10 \in Int
        BY <2>3
    <2> QED
        BY <2>4 DEF Most
<1>5. OutdoorZone(c) = CASE c.minute \notin 360 .. 1319 -> {0}
                         [] c.minute \in 360 .. 1319 /\ c.date.holiday -> {0, 200}
                         [] OTHER -> {Aim(b) : b \in bases}
    BY DEF OutdoorZone
<1>6. \A b \in bases : b \in Int
    OBVIOUS
<1> HIDE DEF Aim, bases
<1>7. {Aim(b) : b \in bases} \subseteq Int
    BY <1>4, <1>6
<1>8. OutdoorZone(c) \in {{0}, {0, 200}, {Aim(b) : b \in bases}}
    BY <1>5
<1>9. OutdoorZone(c) \subseteq Int
    <2>1. {0} \subseteq Int /\ {0, 200} \subseteq Int
        OBVIOUS
    <2> QED
        BY <1>7, <1>8, <2>1
<1>10. c.minute \notin OpenHours("outdoor") => OutdoorZone(c) = {0}
    <2>1. OpenHours("outdoor") = 360 .. 1319
        BY DEF OpenHours
    <2> QED
        BY <1>5, <2>1
<1> QED
    BY <1>9, <1>10

-----------------------------------------------------------------------------
(* The ratios a room may aim at.                                            *)
LEMMA ZoneRatiosTyped ==
    ASSUME NEW c, ContextOf(c), NEW r, r.type \in RoomTypes
    PROVE  /\ ZoneRatios(r, c) \subseteq Int
           /\ r.type # "server_room" /\ c.minute \notin OpenHours(r.type)
                => ZoneRatios(r, c) = {0}
<1>1. CASE r.type \in {"classroom", "lab"}
    <2>1. ZoneRatios(r, c) = {ClassroomZone(c, r.building)}
        BY <1>1 DEF ZoneRatios
    <2>2. OpenHours(r.type) = OpenHours("classroom")
        BY <1>1 DEF OpenHours
    <2> QED
        BY <2>1, <2>2, ClassroomZoneTyped
<1>2. CASE r.type = "canteen"
    <2>1. ZoneRatios(r, c) = {CanteenZone(c)}
        BY <1>2 DEF ZoneRatios
    <2> QED
        BY <1>2, <2>1, CanteenZoneTyped
<1>3. CASE r.type = "library"
    <2>1. ZoneRatios(r, c) = {LibraryZone(c)}
        BY <1>3 DEF ZoneRatios
    <2> QED
        BY <1>3, <2>1, LibraryZoneTyped
<1>4. CASE r.type = "hostel"
    <2>1. ZoneRatios(r, c) = {HostelZone(c)}
        BY <1>4 DEF ZoneRatios
    <2>2. c.minute \in OpenHours(r.type)
        BY <1>4, ContextParts DEF OpenHours, Minutes
    <2> QED
        BY <2>1, <2>2, HostelZoneTyped
<1>5. CASE r.type = "office"
    <2>1. ZoneRatios(r, c) = {OfficeZone(c)}
        BY <1>5 DEF ZoneRatios
    <2> QED
        BY <1>5, <2>1, OfficeZoneTyped
<1>6. CASE r.type = "auditorium"
    <2>1. ZoneRatios(r, c) = AuditoriumZone(c)
        BY <1>6 DEF ZoneRatios
    <2> QED
        BY <1>6, <2>1, AuditoriumZoneTyped
<1>7. CASE r.type = "outdoor"
    <2>1. ZoneRatios(r, c) = OutdoorZone(c)
        BY <1>7 DEF ZoneRatios
    <2> QED
        BY <1>7, <2>1, OutdoorZoneTyped
<1>8. CASE r.type = "server_room"
    BY <1>8 DEF ZoneRatios
<1> QED
    BY <1>1, <1>2, <1>3, <1>4, <1>5, <1>6, <1>7, <1>8 DEF RoomTypes

(* A host aims at what its events fill it to, a number of its range.        *)
LEMMA VenueFillTyped ==
    ASSUME NEW c, ContextOf(c), NEW b \in Venues(c)
    PROVE  VenueFill(c, b) \in 0 .. Unit
<1> DEFINE hosts == {f \in c.active : b \in DOMAIN f.fill}
           fills == {e.fill[b] : e \in hosts}
<1>1. \A e \in hosts : e.fill[b] \in 0 .. Unit
    BY DEF ContextOf
<1>2. hosts # {}
    BY DEF Venues
<1>3. fills \subseteq 0 .. Unit /\ fills # {}
    <2> HIDE DEF hosts
    <2> QED
        BY <1>1, <1>2
<1>4. VenueFill(c, b) = Max(fills)
    BY DEF VenueFill
<1> HIDE DEF fills
<1>5. Max(fills) \in fills
    BY <1>3, LargestRatio
<1> QED
    BY <1>3, <1>4, <1>5

(* Events elsewhere scale what the zone aims at, so nobody stays nobody.    *)
LEMMA TargetRatiosTyped ==
    ASSUME NEW c, ContextOf(c), NEW r, r.type \in RoomTypes
    PROVE  /\ TargetRatios(r, c) \subseteq Int
           /\ /\ r.type # "server_room" /\ c.minute \notin OpenHours(r.type)
              /\ r.building \notin Venues(c)
              => TargetRatios(r, c) = {0}
<1> DEFINE drain == Drain(EventTypes(c), r.type)
           zone == ZoneRatios(r, c)
<1>1. zone \subseteq Int
    BY ZoneRatiosTyped
<1>2. drain \in Int
    BY DrainTyped
<1>3. r.building \notin Venues(c) => TargetRatios(r, c) = {Scale(t, drain) : t \in zone}
    BY DEF TargetRatios
<1>4. r.building \in Venues(c) => TargetRatios(r, c) \subseteq Int
    BY VenueFillTyped DEF TargetRatios
<1>5. r.type # "server_room" /\ c.minute \notin OpenHours(r.type) => zone = {0}
    BY ZoneRatiosTyped
<1>6. {Scale(t, drain) : t \in zone} \subseteq Int
    <2> HIDE DEF zone, drain
    <2> QED
        BY <1>1, <1>2, ScaleFacts
<1>7. zone = {0} => {Scale(t, drain) : t \in zone} = {0}
    <2> HIDE DEF zone, drain
    <2>1. Scale(0, drain) = 0
        BY <1>2, ScaleFacts
    <2> QED
        BY <2>1
<1> HIDE DEF zone, drain
<1> QED
    BY <1>3, <1>4, <1>5, <1>6, <1>7

-----------------------------------------------------------------------------
(* The type invariant is inductive.                                         *)
LEMMA CampusTypeInit == ZoneInit => CampusTypeOK
<1> SUFFICES ASSUME ZoneInit PROVE CampusTypeOK
    OBVIOUS
<1> USE CampusAssumption
<1>1. room.capacity \in Nat
    BY DEF ZoneInit, CampusAssumption
<1>2. count \in 0 .. room.capacity
    BY <1>1 DEF ZoneInit
<1>3. events \subseteq EventPool
    BY GenerateTyped DEF ZoneInit
<1> QED
    BY <1>2, <1>3 DEF ZoneInit, CampusTypeOK

LEMMA NowTyped ==
    ASSUME CampusTypeOK
    PROVE  ContextOf(Now)
<1>1. date \in Dates /\ events \subseteq EventPool /\ minute \in Minutes
    BY DEF CampusTypeOK, Minutes
<1>2. ContextOf(Context(date, events, minute))
    BY <1>1, ContextTyped
<1> QED
    BY <1>2 DEF Now

LEMMA RoomFacts ==
    ASSUME CampusTypeOK
    PROVE  /\ room.type \in RoomTypes /\ room.type # "server_room"
           /\ room.capacity \in Nat /\ room.capacity > 0
    BY CampusAssumption DEF CampusTypeOK, CampusAssumption

LEMMA CampusTypeStep == CampusTypeOK /\ [ZoneNext]_zoneVars => CampusTypeOK'
<1> SUFFICES ASSUME CampusTypeOK, [ZoneNext]_zoneVars PROVE CampusTypeOK'
    OBVIOUS
<1>1. CASE UNCHANGED zoneVars
    BY <1>1 DEF CampusTypeOK, zoneVars
<1>2. ASSUME Clock
      PROVE  /\ date' \in Dates /\ minute' \in 0 .. 1439
             /\ events' \subseteq EventPool /\ room' = room
    <2>1. minute' \in 0 .. 1439
        <3>1. minute \in Int /\ Step \in Int
            BY CampusAssumption DEF CampusTypeOK, CampusAssumption
        <3>2. minute' = (minute + Step) % 1440
            BY <1>2 DEF Clock
        <3> QED
            BY <3>1, <3>2
    <2>2. date' \in Dates /\ events' \subseteq EventPool
        BY <1>2, GenerateTyped DEF Clock, CampusTypeOK
    <2> QED
        BY <1>2, <2>1, <2>2 DEF Clock
<1>3. CASE Offline
    BY <1>2, <1>3 DEF Offline, CampusTypeOK
<1>4. CASE Sample
    <2>1. eve' \in {0, 2000, 5000}
        BY <1>4 DEF Sample, EveningEvent, CampusTypeOK
    <2>2. PICK t \in TargetRatios(room, Now) :
            count' \in Flow(room, IF Evening(room, Now) /\ eve' > 0 THEN eve' ELSE t, count)
        BY <1>4 DEF Sample
    <2>3. t \in Int
        BY NowTyped, RoomFacts, TargetRatiosTyped
    <2> DEFINE ratio == IF Evening(room, Now) /\ eve' > 0 THEN eve' ELSE t
    <2>4. ratio \in Int
        BY <2>1, <2>3
    <2>5. count' \in Flow(room, ratio, count)
        BY <2>2
    <2> HIDE DEF ratio
    <2>6. count' \in 0 .. room.capacity
        <3>1. room.capacity \in Nat /\ count \in 0 .. room.capacity
            BY RoomFacts DEF CampusTypeOK
        <3>2. Draws \subseteq Int
            BY CampusAssumption DEF CampusAssumption
        <3> QED
            BY <2>4, <2>5, <3>1, <3>2, FlowTyped
    <2> QED
        BY <1>2, <1>4, <2>1, <2>6 DEF Sample, CampusTypeOK
<1> QED
    BY <1>1, <1>3, <1>4 DEF ZoneNext

(* _count stays within the room's capacity and the rest of a sensor's state
   in its range, through every sample of every kind of date.                *)
THEOREM ZoneTypes == ZoneSpec => []CampusTypeOK
<1>1. ZoneInit => CampusTypeOK
    BY CampusTypeInit
<1>2. CampusTypeOK /\ [ZoneNext]_zoneVars => CampusTypeOK'
    BY CampusTypeStep
<1> QED
    BY <1>1, <1>2, PTL DEF ZoneSpec

(* Outside its hours a room that hosts nothing aims at nobody, on every
   date.                                                                    *)
THEOREM LockedAreEmpty == ZoneSpec => []LockedDrawsNobody
<1>1. CampusTypeOK => LockedDrawsNobody
    <2> SUFFICES ASSUME CampusTypeOK PROVE LockedDrawsNobody
        OBVIOUS
    <2>1. Now.minute = minute
        BY DEF Now, Context
    <2>2. minute \notin OpenHours(room.type) /\ room.building \notin Venues(Now)
            => TargetRatios(room, Now) = {0}
        BY <2>1, NowTyped, RoomFacts, TargetRatiosTyped
    <2> QED
        BY <2>2 DEF LockedDrawsNobody
<1> QED
    BY <1>1, ZoneTypes, PTL

(* A room that aims at nobody counts up only towards a draw of noise.       *)
LEMMA FlowOfNobody ==
    ASSUME NEW r, r.capacity \in Nat, NEW n \in Nat, NEW m \in Flow(r, 0, n), m > n,
           Draws \subseteq Int
    PROVE  \E z \in Draws : m <= z * Most(1, r.capacity \div 25)
<1> DEFINE noise == Most(1, r.capacity \div 25)
           Target(z) == Most(0, Least(r.capacity,
                          (0 * r.capacity + 5000) \div Unit + z * noise))
           Step2(t) == LET gap == Most(t - n, n - t)
                       IN  IF 10 * gap > r.capacity
                           THEN Most(1, Least(gap, r.capacity \div 20)) ELSE 1
           Towards(t) == CASE t > n -> Least(r.capacity, n + Step2(t))
                           [] t < n -> Most(0, n - Step2(t))
                           [] OTHER -> n
<1>1. m \in {n} \cup {Towards(Target(z)) : z \in Draws}
    BY DEF Flow
<1>2. PICK z \in Draws : m = Towards(Target(z))
    BY <1>1
<1>3. noise \in Int /\ r.capacity \div 20 \in Int
    BY DEF Most
<1>4. (0 * r.capacity + 5000) \div Unit = 0
    <2>1. 0 * r.capacity + 5000 = 5000 /\ 5000 \div 10000 = 0
        OBVIOUS
    <2> QED
        BY <2>1 DEF Unit
<1> DEFINE t == Target(z)
<1>5. t \in Int /\ z * noise \in Int /\ (t <= 0 \/ t <= z * noise)
    <2> HIDE DEF noise
    <2>1. z * noise \in Int
        BY <1>3
    <2> QED
        BY <1>4, <2>1 DEF Most, Least
<1>6. m = Towards(t)
    BY <1>2
<1> HIDE DEF t, Target, noise
<1>7. CASE t > n
    <2>0. t - n \in Nat /\ t - n >= 1 /\ Most(t - n, n - t) = t - n
        BY <1>5, <1>7 DEF Most
    <2>1. Step2(t) \in Int /\ Step2(t) <= t - n
        <3> DEFINE gap == t - n
        <3>1. gap \in Nat /\ gap >= 1
            BY <2>0
        <3>2. Step2(t) = IF 10 * gap > r.capacity
                         THEN Most(1, Least(gap, r.capacity \div 20)) ELSE 1
            BY <2>0
        <3> HIDE DEF gap, Step2
        <3>3. Step2(t) \in Int /\ Step2(t) <= gap
            BY <1>3, <3>1, <3>2 DEF Most, Least
        <3> QED
            BY <3>3 DEF gap
    <2>2. m = Least(r.capacity, n + Step2(t))
        <3> HIDE DEF Step2
        <3> QED
            BY <1>5, <1>6, <1>7
    <2> HIDE DEF Step2
    <2>3. m <= t
        <3>1. n + Step2(t) \in Int /\ n + Step2(t) <= t
            BY <2>1, <1>5
        <3> QED
            BY <3>1, <2>2, <1>5 DEF Least
    <2>4. m <= z * noise
        <3>1. m \in Int
            BY <2>1, <2>2, <1>5 DEF Least
        <3> DEFINE bound == z * noise
        <3> HIDE DEF bound
        <3>2. bound \in Int /\ t <= bound /\ t \in Int
            BY <1>5, <1>7 DEF bound
        <3>3. m <= bound
            BY <2>3, <3>1, <3>2
        <3> QED
            BY <3>3 DEF bound
    <2> QED
        BY <2>4 DEF noise
<1>8. CASE ~(t > n)
    <2>1. Step2(t) \in Int /\ Step2(t) >= 1
        BY <1>3, <1>5 DEF Most, Least
    <2>2. m \in {n, Most(0, n - Step2(t))}
        BY <1>6, <1>8
    <2> HIDE DEF Step2
    <2>3. m <= n
        BY <2>1, <2>2 DEF Most
    <2> QED
        BY <2>3, <2>1, <2>2 DEF Most
<1> QED
    BY <1>7, <1>8

(* Outside its hours a room that hosts nothing counts nobody in but for
   noise, with whatever count and tutorial the evening left in the sensor.  *)
THEOREM LockedRoomsStayEmpty == ZoneSpec => LockedRoomsDoNotFill
<1>1. CampusTypeOK /\ [ZoneNext]_zoneVars
        => [/\ minute \notin OpenHours(room.type) /\ room.building \notin Venues(Now)
            /\ count' > count
            => \E z \in Draws : count' <= z * Most(1, room.capacity \div 25)]_zoneVars
    <2> SUFFICES ASSUME CampusTypeOK, ZoneNext, minute \notin OpenHours(room.type),
                        room.building \notin Venues(Now), count' > count
                 PROVE  \E z \in Draws : count' <= z * Most(1, room.capacity \div 25)
        OBVIOUS
    <2>1. Now.minute = minute
        BY DEF Now, Context
    <2>2. TargetRatios(room, Now) = {0}
        BY <2>1, NowTyped, RoomFacts, TargetRatiosTyped
    <2>3. ~Evening(room, Now)
        BY <2>1 DEF Evening, OpenHours
    <2>4. room.capacity \in Nat /\ count \in Nat /\ Draws \subseteq Int
        BY RoomFacts, CampusAssumption DEF CampusTypeOK, CampusAssumption
    <2>5. ~Offline
        BY <2>4 DEF Offline
    <2>6. count' \in Flow(room, 0, count)
        BY <2>2, <2>3, <2>5 DEF ZoneNext, Sample
    <2> QED
        BY <2>4, <2>6, FlowOfNobody
<1> QED
    BY <1>1, ZoneTypes, PTL DEF ZoneSpec, LockedRoomsDoNotFill

-----------------------------------------------------------------------------
(* Where the generator computes what the zone computes.                     *)
LEMMA NearSame ==
    ASSUME NEW a \in Int
    PROVE  Near(a, a)
    BY DEF Near

LEMMA LeastFacts ==
    /\ \A t \in Int : Least(Unit, t) \in Int
    /\ \A t \in Int : Least(Unit, Least(Unit, t)) = Least(Unit, t)
    /\ Least(Unit, 0) = 0
    /\ \A t \in 0 .. Unit : Least(Unit, t) = t
    BY DEF Least, Unit

LEMMA HostAgrees ==
    ASSUME NEW c, ContextOf(c), NEW r, r.building \in Venues(c), NEW t \in TargetRatios(r, c)
    PROVE  Near(RoomOccDet(r, c), Least(Unit, t))
<1> DEFINE v == VenueFill(c, r.building)
<1>1. v \in 0 .. Unit
    BY VenueFillTyped
<1>2. t = v
    BY DEF TargetRatios
<1>3. RoomOccDet(r, c) = v
    BY DEF RoomOccDet
<1> HIDE DEF v
<1>4. Least(Unit, v) = v
    BY <1>1, LeastFacts
<1>5. v \in Int
    BY <1>1 DEF Unit
<1> QED
    BY <1>2, <1>3, <1>4, <1>5, NearSame

LEMMA HostelAgrees ==
    ASSUME NEW c, ContextOf(c), NEW r, r.building \notin Venues(c), r.type = "hostel",
           ~c.date.holiday, NEW t \in TargetRatios(r, c)
    PROVE  Near(RoomOccDet(r, c), Least(Unit, t))
<1> DEFINE h == HostelRatio(c.minute, c.date.weekend, IsEssentiallyEmpty(c.day))
<1>1. h \in 0 .. Unit
    BY HostelRatioTyped, ContextParts
<1>2. ZoneRatios(r, c) = {h}
    BY DEF ZoneRatios, HostelZone
<1>3. t = Scale(h, Unit)
    BY <1>2, DrainOfHostels DEF TargetRatios
<1>4. RoomOccDet(r, c) = h
    BY DEF RoomOccDet
<1> HIDE DEF h
<1>5. h \in Int
    BY <1>1 DEF Unit
<1>6. t = h
    BY <1>3, <1>5, ScaleFacts
<1>7. Least(Unit, h) = h
    BY <1>1, LeastFacts
<1> QED
    BY <1>4, <1>5, <1>6, <1>7, NearSame

LEMMA TeachingAgrees ==
    ASSUME NEW c, ContextOf(c), NEW r, r.building \notin Venues(c),
           r.type \in {"classroom", "lab"},
           ~c.date.weekend, ~c.date.holiday, ~IsEssentiallyEmpty(c.day),
           NEW t \in TargetRatios(r, c)
    PROVE  Near(RoomOccDet(r, c), Least(Unit, t))
<1> DEFINE m == c.minute
           slots == IF IsExamPeriod(c.day) THEN ExamRatio(m) ELSE LectureRatio(m)
           held == Scale(slots, LectureScale(c.day))
           drain == Drain(EventTypes(c), r.type)
<1>1. slots \in Int /\ LectureScale(c.day) \in Int /\ drain \in Int
    <2>1. ExamRatio(m) \in Int /\ LectureRatio(m) \in Int
        BY ExamRatioTyped, LectureRatioTyped, ContextParts
    <2>2. LectureScale(c.day) \in Int
        BY ContextParts
    <2>3. drain \in Int
        BY DrainTyped
    <2> QED
        BY <2>1, <2>2, <2>3
<1>2. m \notin 420 .. 1259 => slots = 0
    <2>1. m \notin 420 .. 1259 => ExamRatio(m) = 0 /\ LectureRatio(m) = 0
        BY ExamRatioTyped, LectureRatioTyped, ContextParts
    <2> QED
        BY <2>1
<1>3. ZoneRatios(r, c) = {IF m \in 420 .. 1259 THEN held ELSE 0}
    BY DEF ZoneRatios, ClassroomZone
<1>4. t = IF m \in 420 .. 1259 THEN Scale(held, drain) ELSE Scale(0, drain)
    BY ZenonT(40), <1>3 DEF TargetRatios
<1>5. RoomOccDet(r, c) = IF m \in 360 .. 1319 THEN Least(Unit, Scale(held, drain)) ELSE 0
    BY DEF RoomOccDet
<1>6. m \notin 420 .. 1259 => held = 0
    <2> DEFINE ls == LectureScale(c.day)
    <2>1. ls \in Int
        BY <1>1
    <2>2. Scale(0, ls) = 0
        <3> HIDE DEF ls
        <3> QED
            BY <2>1, ScaleFacts
    <2> HIDE DEF slots
    <2> QED
        BY <1>2, <2>2
<1>7. held \in Int
    <2> DEFINE ls == LectureScale(c.day)
    <2>1. slots \in Int /\ ls \in Int
        BY <1>1
    <2> HIDE DEF ls, slots
    <2>2. Scale(slots, ls) \in Int
        BY <2>1, ScaleFacts
    <2> QED
        BY <2>2 DEF ls
<1>8. m \in Int
    <2>1. m \in Minutes
        BY ContextParts
    <2> HIDE DEF m
    <2> QED
        BY <2>1 DEF Minutes
<1>9. drain \in Int
    BY <1>1
<1> HIDE DEF held, drain, m
<1>10. Scale(held, drain) \in Int /\ Scale(0, drain) = 0
    BY <1>7, <1>9, ScaleFacts
<1>11. RoomOccDet(r, c) = Least(Unit, t)
    <2>1. CASE m \in 420 .. 1259
        <3>1. m \in 360 .. 1319
            BY <1>8, <2>1
        <3> QED
            BY <1>4, <1>5, <2>1, <3>1
    <2>2. CASE m \notin 420 .. 1259
        <3>1. t = 0
            BY <1>4, <1>10, <2>2
        <3>2. RoomOccDet(r, c) = 0
            BY <1>5, <1>6, <1>10, <2>2, LeastFacts
        <3> QED
            BY <3>1, <3>2, LeastFacts
    <2> QED
        BY <2>1, <2>2
<1>12. t \in Int
    BY <1>4, <1>10
<1> QED
    BY <1>11, <1>12, LeastFacts, NearSame

LEMMA CanteenAgrees ==
    ASSUME NEW c, ContextOf(c), NEW r, r.building \notin Venues(c), r.type = "canteen",
           ~c.date.weekend, ~c.date.holiday, ~IsEssentiallyEmpty(c.day),
           Drain(EventTypes(c), r.type) = Unit, "sentra-court" \notin Venues(c),
           NEW t \in TargetRatios(r, c)
    PROVE  Near(RoomOccDet(r, c), Least(Unit, t))
<1> DEFINE m == c.minute
           base == CanteenRatio(m)
           cut == Scale(base, c.day.fraction)
           aim == IF m \in 390 .. 1199 THEN cut ELSE 0
           gen == IF m \in 390 .. 1199 THEN Least(Unit, Scale(cut, Unit)) ELSE 0
<1>1. base \in Int /\ c.day.fraction \in Int
    BY CanteenRatioTyped, ContextParts
<1>2. cut \in Int
    <2> DEFINE f == c.day.fraction
    <2>1. base \in Int /\ f \in Int
        BY <1>1
    <2> HIDE DEF base, f
    <2>2. Scale(base, f) \in Int
        BY <2>1, ScaleFacts
    <2> QED
        BY <2>2 DEF f
<1>3. ZoneRatios(r, c) = {aim}
    BY DEF ZoneRatios, CanteenZone
<1>4. t = Scale(aim, Unit)
    BY ZenonT(40), <1>3 DEF TargetRatios
<1>5. CanteenOccDet(c) = gen
    BY DEF CanteenOccDet
<1>6. RoomOccDet(r, c) = Least(Unit, Scale(gen, Unit))
    BY <1>5 DEF RoomOccDet
<1> HIDE DEF cut
<1>7. aim \in Int /\ gen = Least(Unit, aim)
    BY <1>2, ScaleFacts, LeastFacts
<1> HIDE DEF aim, gen
<1>8. t = aim
    BY <1>4, <1>7, ScaleFacts
<1>9. Least(Unit, aim) \in Int
    BY <1>7, LeastFacts
<1>10. Scale(gen, Unit) = gen
    BY <1>7, <1>9, ScaleFacts
<1>11. RoomOccDet(r, c) = Least(Unit, aim)
    BY <1>6, <1>7, <1>10, LeastFacts
<1> QED
    BY <1>8, <1>9, <1>11, NearSame

LEMMA LibraryAgrees ==
    ASSUME NEW c, ContextOf(c), NEW r, r.building \notin Venues(c), r.type = "library",
           ~c.date.weekend, ~c.date.holiday, ~IsEssentiallyEmpty(c.day),
           Drain(EventTypes(c), r.type) = Unit,
           NEW t \in TargetRatios(r, c)
    PROVE  Near(RoomOccDet(r, c), Least(Unit, t))
<1> DEFINE base == LibraryRatio(c.minute, IsExamPeriod(c.day))
           f == c.day.fraction
           busy == IF IsLowAttendance(c.day) THEN Scale(base, 8000) ELSE base
           cut == Scale(busy, f)
           gen == IF c.minute \in 480 .. 1259 THEN Least(Unit, Scale(cut, Unit)) ELSE 0
<1>1. base \in Int /\ (c.minute \notin 480 .. 1259 => base = 0)
    BY LibraryRatioTyped, ContextParts
<1>2. f \in Int
    BY ContextParts
<1>3. ZoneRatios(r, c) = {cut}
    BY DEF ZoneRatios, LibraryZone
<1>4. t = Scale(cut, Unit)
    BY <1>3 DEF TargetRatios
<1>5. LibraryOccDet(c) = gen
    BY DEF LibraryOccDet
<1>6. RoomOccDet(r, c) = Least(Unit, Scale(gen, Unit))
    BY <1>5 DEF RoomOccDet
<1>7. busy \in Int /\ (base = 0 => busy = 0)
    <2>1. base \in Int
        BY <1>1
    <2> HIDE DEF base
    <2> QED
        BY <2>1, ScaleFacts
<1>8. cut \in Int /\ (base = 0 => cut = 0)
    <2> HIDE DEF busy, f, base
    <2> QED
        BY <1>2, <1>7, ScaleFacts
<1> HIDE DEF cut, base
<1>9. gen = Least(Unit, cut)
    <2>1. CASE c.minute \in 480 .. 1259
        <3>1. Scale(cut, Unit) = cut
            BY <1>8, ScaleFacts
        <3> QED
            BY <2>1, <3>1
    <2>2. CASE c.minute \notin 480 .. 1259
        <3>1. cut = 0
            BY <1>1, <1>8, <2>2
        <3> QED
            BY <2>2, <3>1, LeastFacts
    <2> QED
        BY <2>1, <2>2
<1> HIDE DEF gen
<1>10. t = cut
    BY <1>4, <1>8, ScaleFacts
<1>11. Least(Unit, cut) \in Int
    BY <1>8, LeastFacts
<1>12. Scale(gen, Unit) = gen
    BY <1>9, <1>11, ScaleFacts
<1>13. RoomOccDet(r, c) = Least(Unit, cut)
    BY <1>6, <1>8, <1>9, <1>12, LeastFacts
<1> QED
    BY <1>10, <1>11, <1>13, NearSame

(* By day the load of a room is above either table of standby loads.        *)
LEMMA ScaleOfNaturals ==
    ASSUME NEW a \in Nat, NEW b \in Nat
    PROVE  Scale(a, b) \in Nat
<1>1. a * b \in Nat
    OBVIOUS
<1> DEFINE p == a * b
<1>2. p \in Nat
    BY <1>1
<1> HIDE DEF p
<1>3. p \div 10000 \in Nat
    BY <1>2
<1> QED
    BY <1>3 DEF Scale, Unit, p

LEMMA PowerAgrees ==
    ASSUME NEW type \in RoomTypes, type # "server_room", NEW filled \in Nat, NEW m \in Minutes,
           m \in 390 .. 1319 \/ filled >= 200
    PROVE  RoomEnergyW(type, filled, m) = EnergySensor(type, filled, m)
<1>1. CASE type = "outdoor"
    BY <1>1 DEF RoomEnergyW, EnergySensor, Power
<1>2. CASE type # "outdoor"
    <2> DEFINE load == Scale(200, filled) + Scale(Scale(150, filled), EquipFactor(m))
               P(standby) == Most(standby, Least(500, BASE(type) + load))
    <2>1. EquipFactor(m) \in Nat
        BY DEF EquipFactor, Least, Unit, Minutes
    <2>2. load \in Nat
        <3>1. Scale(200, filled) \in Nat /\ Scale(150, filled) \in Nat
            BY ZenonT(40), ScaleOfNaturals
        <3>2. Scale(Scale(150, filled), EquipFactor(m)) \in Nat
            BY <2>1, <3>1, ScaleOfNaturals
        <3> QED
            BY <3>1, <3>2
    <2>3. \A standby : Power(type, filled, m, standby)
                         = Most(standby, Least(500, BASE(type) + Scale(200, filled)
                                           + Scale(Scale(150, filled), EquipFactor(m))))
        BY <1>2 DEF Power
    <2>4. /\ BASE(type) \in 0 .. 500
          /\ STANDBY(type) \in 0 .. 500 /\ STANDBY(type) <= BASE(type)
          /\ STBY_W(type) \in 0 .. 500 /\ STBY_W(type) <= BASE(type)
        BY <1>2 DEF RoomTypes, BASE, STANDBY, STBY_W
    <2>5. BASE(type) + Scale(200, filled) + Scale(Scale(150, filled), EquipFactor(m))
             = BASE(type) + load
        <3>1. Scale(200, filled) \in Nat /\ Scale(150, filled) \in Nat
            BY ZenonT(40), ScaleOfNaturals
        <3>2. Scale(Scale(150, filled), EquipFactor(m)) \in Nat
            BY <2>1, <3>1, ScaleOfNaturals
        <3>3. BASE(type) \in Int
            BY <2>4
        <3> QED
            BY <3>1, <3>2, <3>3
    <2> DEFINE b == BASE(type)
               s == STANDBY(type)
               w == STBY_W(type)
    <2>6. b \in 0 .. 500 /\ s \in 0 .. 500 /\ w \in 0 .. 500 /\ s <= b /\ w <= b
        BY <2>4
    <2>7. RoomEnergyW(type, filled, m) = Most(w, Least(500, b + load))
          /\ EnergySensor(type, filled, m) = Most(s, Least(500, b + load))
        BY <1>2, <2>3, <2>5 DEF RoomEnergyW, EnergySensor, HasMeter
    <2> HIDE DEF b, s, w, load
    <2>8. Most(w, Least(500, b + load)) = Least(500, b + load)
        BY <2>2, <2>6 DEF Most, Least
    <2>9. Most(s, Least(500, b + load)) = Least(500, b + load)
        BY <2>2, <2>6 DEF Most, Least
    <2> QED
        BY <2>7, <2>8, <2>9
<1> QED
    BY <1>1, <1>2

(* The cases of Comparable together.                                        *)
LEMMA RatioAgrees ==
    ASSUME NEW c, ContextOf(c), NEW r, Comparable(r, c), NEW t \in TargetRatios(r, c)
    PROVE  Near(RoomOccDet(r, c), Least(Unit, t))
<1>1. CASE r.building \in Venues(c)
    BY <1>1, HostAgrees
<1>2. CASE r.building \notin Venues(c)
    <2>1. CASE r.type = "hostel" /\ ~c.date.holiday
        BY <1>2, <2>1, HostelAgrees
    <2>2. CASE /\ ~c.date.weekend /\ ~c.date.holiday /\ ~IsEssentiallyEmpty(c.day)
               /\ r.type \in {"classroom", "lab"}
        BY <1>2, <2>2, TeachingAgrees
    <2>3. CASE /\ ~c.date.weekend /\ ~c.date.holiday /\ ~IsEssentiallyEmpty(c.day)
               /\ r.type = "canteen" /\ Drain(EventTypes(c), r.type) = Unit
               /\ "sentra-court" \notin Venues(c)
        BY <1>2, <2>3, CanteenAgrees
    <2>4. CASE /\ ~c.date.weekend /\ ~c.date.holiday /\ ~IsEssentiallyEmpty(c.day)
               /\ r.type = "library" /\ Drain(EventTypes(c), r.type) = Unit
        BY <1>2, <2>4, LibraryAgrees
    <2> QED
        BY <1>2, <2>1, <2>2, <2>3, <2>4 DEF Comparable
<1> QED
    BY <1>1, <1>2

(* generate_datasets.py aims at what the simulator's zone aims at, for the
   rooms and instants Comparable names, and by day draws the same power.    *)
THEOREM GeneratorFollows == ZoneSpec => []GeneratorAgrees
<1>1. CampusTypeOK => GeneratorAgrees
    <2> SUFFICES ASSUME CampusTypeOK, minute \in Slots(30) PROVE
                   /\ Comparable(room, Now) =>
                        \A t \in TargetRatios(room, Now) :
                           Near(RoomOccDet(room, Now), Least(Unit, t))
                   /\ LET filled == (count * Unit) \div room.capacity
                      IN  minute \in 390 .. 1319 \/ filled >= 200 =>
                            RoomEnergyW(room.type, filled, minute)
                              = EnergySensor(room.type, filled, minute)
        BY DEF GeneratorAgrees
    <2>1. ASSUME Comparable(room, Now), NEW t \in TargetRatios(room, Now)
          PROVE  Near(RoomOccDet(room, Now), Least(Unit, t))
        BY <2>1, NowTyped, RatioAgrees
    <2> DEFINE part == (count * Unit) \div room.capacity
    <2>2. part \in Nat
        <3> DEFINE n == count
                   k == room.capacity
        <3>1. n \in Nat /\ k \in Nat /\ k > 0
            BY RoomFacts DEF CampusTypeOK
        <3> HIDE DEF n, k
        <3>2. (n * Unit) \div k \in Nat
            BY <3>1 DEF Unit
        <3> QED
            BY <3>2 DEF n, k
    <2>3. minute \in 390 .. 1319 \/ part >= 200 =>
            RoomEnergyW(room.type, part, minute) = EnergySensor(room.type, part, minute)
        <3> HIDE DEF part
        <3>1. minute \in Minutes
            BY DEF CampusTypeOK, Minutes
        <3> QED
            BY <2>2, <3>1, RoomFacts, PowerAgrees
    <2> QED
        BY <2>1, <2>3
<1> QED
    BY <1>1, ZoneTypes, PTL
=============================================================================

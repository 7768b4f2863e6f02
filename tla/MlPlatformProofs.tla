---------------------------- MODULE MlPlatformProofs ---------------------------
(* Theorems about MlPlatform, for every number of versions.                 *)
EXTENDS MlPlatform, TLAPS

(***************************************************************************)
(* What the scheduler knows: between List and Promote nobody registers a   *)
(* version, so the one it promotes is still the newest.  The rest is       *)
(* ServesPromoted, one key at a time.                                      *)
(***************************************************************************)
NewestPromoted ==
    /\ trainer.pc = "list" => Len(registry[trainer.key]) >= 1
    /\ trainer.pc = "promote" =>
          trainer.version >= 1 /\ trainer.version = Len(registry[trainer.key])

OneProduction(stages) ==
    \A v, w \in 1..Len(stages) :
        stages[v] = "Production" /\ stages[w] = "Production" => v = w

InProduction(stages) ==
    IF \E v \in 1..Len(stages) : stages[v] = "Production"
    THEN CHOOSE v \in 1..Len(stages) : stages[v] = "Production"
    ELSE 0

Serves(k) ==
    /\ OneProduction(registry[k])
    /\ models[k] <= InProduction(registry[k])
    /\ models[k] # 0 => registry[k][models[k]] \in {"Production", "Archived"}

PlatformInv == TypeOK /\ NewestPromoted /\ \A k \in Keys : Serves(k)

LEMMA ProductionIs ==
    ASSUME NEW s \in Seq(Stages)
    PROVE  /\ InProduction(s) \in 0..Len(s)
           /\ InProduction(s) # 0 => s[InProduction(s)] = "Production"
           /\ \A v \in 1..Len(s) : s[v] = "Production" /\ OneProduction(s)
                 => InProduction(s) = v
<1>1. Len(s) \in Nat
  OBVIOUS
<1>2. CASE \E v \in 1..Len(s) : s[v] = "Production"
  <2>1. /\ InProduction(s) \in 1..Len(s)
        /\ s[InProduction(s)] = "Production"
    BY <1>2 DEF InProduction
  <2> QED BY <2>1, <1>1 DEF OneProduction
<1>3. CASE ~\E v \in 1..Len(s) : s[v] = "Production"
  BY <1>1, <1>3 DEF InProduction
<1> QED BY <1>2, <1>3

LEMMA ProductionSame == \A k \in Keys : Production(k) = InProduction(registry[k])
BY DEF Production, InProduction

LEMMA ServesIs ==
    ASSUME PlatformInv
    PROVE  ServesPromoted
<1> SUFFICES ASSUME NEW k \in Keys
             PROVE  /\ models[k] <= Production(k)
                    /\ models[k] # 0 => registry[k][models[k]] \in {"Production", "Archived"}
                    /\ OneProduction(registry[k])
  BY DEF ServesPromoted, OneProduction
<1> QED BY ProductionSame DEF PlatformInv, Serves

LEMMA PlatformInit == Init => PlatformInv
<1> SUFFICES ASSUME Init PROVE PlatformInv
  OBVIOUS
<1>1. /\ <<>> \in Seq(Stages) /\ Len(<<>>) = 0
      /\ <<"Production">> \in Seq(Stages) /\ Len(<<"Production">>) = 1
  BY DEF Stages
<1>2. ASSUME NEW k \in Keys
      PROVE  /\ registry[k] \in Seq(Stages)
             /\ Len(registry[k]) \in 0..1
             /\ models[k] = 0
  <2>1. registry[k] = <<>> \/ registry[k] = <<"Production">>
    <3>1. registry[k] \in {<<>>, <<"Production">>}
      BY DEF Init
    <3> QED BY <3>1
  <2>2. models[k] = 0
    BY DEF Init
  <2>3. CASE registry[k] = <<>>
    BY <2>2, <2>3, <1>1
  <2>4. CASE registry[k] = <<"Production">>
    BY <2>2, <2>4, <1>1
  <2> QED BY <2>1, <2>3, <2>4
<1>3. registry \in [Keys -> Seq(Stages)]
  BY <1>2 DEF Init
<1>4. /\ 1 \in Keys /\ 0 \in 0..MaxVersion
      /\ trainer = [pc |-> "train", key |-> 1, version |-> 0]
      /\ pod = [pc |-> "lookup", key |-> 1]
      /\ models \in [Keys -> 0..MaxVersion]
  BY MlPlatformAssumption DEF Init, Keys
<1>5. TypeOK
  <2>1. \A k \in Keys : Len(registry[k]) <= MaxVersion
    <3>1. ASSUME NEW k \in Keys PROVE Len(registry[k]) <= MaxVersion
      <4>1. Len(registry[k]) \in 0..1
        BY <1>2
      <4>2. \A n \in 0..1 : n <= MaxVersion
        BY MlPlatformAssumption
      <4> QED BY <4>1, <4>2
    <3> QED BY <3>1
  <2>2. trainer.version <= Len(registry[trainer.key])
    BY <1>2, <1>4
  <2> QED BY <1>3, <1>4, <2>1, <2>2 DEF TypeOK, TrainerSteps, PodSteps
<1>6. NewestPromoted
  BY <1>4 DEF NewestPromoted
<1>7. ASSUME NEW k \in Keys PROVE Serves(k)
  <2>1. OneProduction(registry[k])
    BY <1>2 DEF OneProduction
  <2>2. InProduction(registry[k]) \in 0..Len(registry[k])
    BY <1>2, ProductionIs
  <2>3. 0 <= InProduction(registry[k])
    BY <2>2, <1>2
  <2> QED BY <2>1, <2>3, <1>2 DEF Serves
<1> QED BY <1>5, <1>6, <1>7 DEF PlatformInv

(* Registering appends a version that is not in Production.                *)
LEMMA Registered ==
    ASSUME NEW s \in Seq(Stages), OneProduction(s)
    PROVE  /\ Append(s, "None") \in Seq(Stages)
           /\ Len(Append(s, "None")) = Len(s) + 1
           /\ OneProduction(Append(s, "None"))
           /\ InProduction(Append(s, "None")) = InProduction(s)
           /\ \A v \in 1..Len(s) : Append(s, "None")[v] = s[v]
<1> DEFINE t == Append(s, "None")
<1>1. /\ t \in Seq(Stages) /\ Len(t) = Len(s) + 1 /\ Len(s) \in Nat
      /\ \A v \in 1..Len(s) : t[v] = s[v]
      /\ t[Len(s) + 1] = "None"
  BY DEF Stages
<1> HIDE DEF t
<1>2. \A v \in 1..Len(t) : t[v] = "Production" => v \in 1..Len(s) /\ s[v] = "Production"
  BY <1>1
<1>3. OneProduction(t)
  BY <1>2 DEF OneProduction
<1>4. InProduction(t) = InProduction(s)
  <2>1. CASE InProduction(s) = 0
    <3>1. InProduction(t) = 0 \/ t[InProduction(t)] = "Production"
      BY <1>1, ProductionIs
    <3>2. ASSUME InProduction(t) # 0 PROVE FALSE
      <4>1. InProduction(t) \in 1..Len(t) /\ t[InProduction(t)] = "Production"
        BY <3>2, <1>1, ProductionIs
      <4>2. InProduction(t) \in 1..Len(s) /\ s[InProduction(t)] = "Production"
        BY <4>1, <1>2
      <4>3. InProduction(s) = InProduction(t)
        BY <4>2, ProductionIs
      <4> QED BY <4>3, <2>1, <3>2
    <3> QED BY <3>2, <2>1
  <2>2. CASE InProduction(s) # 0
    <3>1. InProduction(s) \in 1..Len(s) /\ s[InProduction(s)] = "Production"
      BY <2>2, <1>1, ProductionIs
    <3>2. InProduction(s) \in 1..Len(t) /\ t[InProduction(s)] = "Production"
      BY <3>1, <1>1
    <3> QED BY <3>2, <1>1, <1>3, ProductionIs
  <2> QED BY <2>1, <2>2
<1> QED BY <1>1, <1>3, <1>4 DEF t

(* Promoting makes the version the one in Production.                      *)
LEMMA PromotedIs ==
    ASSUME NEW s \in Seq(Stages), NEW v \in 1..Len(s)
    PROVE  /\ Promoted(s, v) \in Seq(Stages) /\ Len(Promoted(s, v)) = Len(s)
           /\ OneProduction(Promoted(s, v)) /\ InProduction(Promoted(s, v)) = v
           /\ \A i \in 1..Len(s) :
                 s[i] \in {"Production", "Archived"}
                    => Promoted(s, v)[i] \in {"Production", "Archived"}
<1>1. Len(s) \in Nat /\ DOMAIN s = 1..Len(s) /\ \A i \in 1..Len(s) : s[i] \in Stages
  OBVIOUS
<1>2. /\ DOMAIN Promoted(s, v) = 1..Len(s)
      /\ \A i \in 1..Len(s) : Promoted(s, v)[i] =
            IF i = v THEN "Production"
            ELSE IF s[i] = "Production" THEN "Archived" ELSE s[i]
  BY <1>1 DEF Promoted
<1>3. Promoted(s, v) \in [1..Len(s) -> Stages]
  <2>1. \A i \in 1..Len(s) :
           (IF i = v THEN "Production"
            ELSE IF s[i] = "Production" THEN "Archived" ELSE s[i]) \in Stages
    BY <1>1 DEF Stages
  <2> QED BY <1>1, <2>1 DEF Promoted
<1>4. Promoted(s, v) \in Seq(Stages) /\ Len(Promoted(s, v)) = Len(s)
  BY <1>1, <1>3
<1>5. \A i \in 1..Len(s) : Promoted(s, v)[i] = "Production" => i = v
  BY <1>2
<1>6. OneProduction(Promoted(s, v))
  BY <1>4, <1>5 DEF OneProduction
<1>7. InProduction(Promoted(s, v)) = v
  BY <1>2, <1>4, <1>6, ProductionIs
<1> QED BY <1>2, <1>4, <1>6, <1>7

(* A step of the registry at one key.                                      *)
LEMMA RegistryStep ==
    ASSUME PlatformInv, NEW k \in Keys, NEW t \in Seq(Stages),
           registry' = [registry EXCEPT ![k] = t], Len(t) <= MaxVersion,
           OneProduction(t), InProduction(t) >= InProduction(registry[k]),
           Len(t) >= Len(registry[k]),
           \A i \in 1..Len(registry[k]) :
               registry[k][i] \in {"Production", "Archived"}
                   => t[i] \in {"Production", "Archived"},
           models' = models
    PROVE  /\ registry' \in [Keys -> Seq(Stages)]
           /\ \A j \in Keys : Len(registry'[j]) <= MaxVersion
           /\ \A j \in Keys : Serves(j)'
<1>1. /\ registry \in [Keys -> Seq(Stages)]
      /\ \A j \in Keys : /\ Len(registry[j]) <= MaxVersion
                         /\ models[j] \in 0..MaxVersion
                         /\ Serves(j)
  BY DEF PlatformInv, TypeOK
<1>2. \A j \in Keys : registry'[j] = IF j = k THEN t ELSE registry[j]
  BY <1>1
<1>3. ASSUME NEW j \in Keys PROVE Serves(j)'
  <2>1. CASE j # k
    BY <2>1, <1>1, <1>2 DEF Serves
  <2>2. CASE j = k
    <3>1. /\ InProduction(registry[k]) \in 0..Len(registry[k])
          /\ InProduction(t) \in 0..Len(t) /\ Len(registry[k]) \in Nat /\ Len(t) \in Nat
          /\ MaxVersion \in Nat
      BY <1>1, ProductionIs, MlPlatformAssumption
    <3>2. models[k] <= InProduction(t) /\ models[k] \in 0..Len(registry[k])
      BY <3>1, <1>1 DEF Serves
    <3>3. models[k] # 0 => t[models[k]] \in {"Production", "Archived"}
      BY <3>1, <3>2, <1>1 DEF Serves
    <3> QED BY <2>2, <3>2, <3>3, <1>2 DEF Serves
  <2> QED BY <2>1, <2>2
<1> QED BY <1>1, <1>2, <1>3

LEMMA PlatformStep == PlatformInv /\ [Next]_vars => PlatformInv'
<1> SUFFICES ASSUME PlatformInv, [Next]_vars PROVE PlatformInv'
  OBVIOUS
<1>0. /\ TypeOK /\ NewestPromoted /\ \A k \in Keys : Serves(k)
      /\ registry \in [Keys -> Seq(Stages)]
      /\ \A k \in Keys : Len(registry[k]) \in Nat /\ Len(registry[k]) <= MaxVersion
      /\ trainer \in [pc : TrainerSteps, key : Keys, version : 0..MaxVersion]
      /\ pod \in [pc : PodSteps, key : Keys]
      /\ models \in [Keys -> 0..MaxVersion] /\ MaxVersion \in Nat
      /\ 1 \in Keys /\ 0 \in 0..MaxVersion
  BY MlPlatformAssumption DEF PlatformInv, TypeOK, Keys
(* The scheduler goes to another step and leaves the registry alone.       *)
<1>1. ASSUME UNCHANGED <<registry, pod, models>>,
             trainer' \in [pc : TrainerSteps, key : Keys, version : 0..MaxVersion],
             trainer'.version <= Len(registry[trainer'.key]),
             trainer'.pc # "list",
             trainer'.pc = "promote" =>
                 trainer'.version >= 1 /\ trainer'.version = Len(registry[trainer'.key])
      PROVE  PlatformInv'
  <2>1. TypeOK' /\ NewestPromoted'
    BY <1>0, <1>1 DEF TypeOK, NewestPromoted
  <2>2. \A k \in Keys : Serves(k)'
    BY <1>0, <1>1 DEF Serves
  <2> QED BY <2>1, <2>2 DEF PlatformInv
<1>2. [pc |-> "backoff", key |-> 1, version |-> 0]
         \in [pc : TrainerSteps, key : Keys, version : 0..MaxVersion]
  BY <1>0 DEF TrainerSteps
<1>3. CASE Fail
  BY <1>3, <1>0, <1>1, <1>2 DEF Fail
<1>4. CASE Train
  <2> DEFINE k == trainer.key
             t == Append(registry[k], "None")
  <2>1. /\ k \in Keys /\ Len(registry[k]) < MaxVersion
        /\ registry' = [registry EXCEPT ![k] = t]
        /\ \/ trainer' = [trainer EXCEPT !.pc = "list"]
           \/ trainer' = [pc |-> "backoff", key |-> 1, version |-> 0]
        /\ UNCHANGED <<pod, models>>
    BY <1>4, <1>0 DEF Train
  <2>2. /\ t \in Seq(Stages) /\ Len(t) = Len(registry[k]) + 1
        /\ OneProduction(t) /\ InProduction(t) = InProduction(registry[k])
        /\ \A v \in 1..Len(registry[k]) : t[v] = registry[k][v]
    BY <2>1, <1>0, Registered DEF Serves
  <2>3. InProduction(registry[k]) \in 0..Len(registry[k])
    BY <2>1, <1>0, ProductionIs
  <2> HIDE DEF t
  <2>4. /\ registry' \in [Keys -> Seq(Stages)]
        /\ \A j \in Keys : Len(registry'[j]) <= MaxVersion
        /\ \A j \in Keys : Serves(j)'
    <3>1. /\ Len(registry[k]) \in Nat /\ MaxVersion \in Nat
          /\ registry[k] \in Seq(Stages)
      BY <2>1, <1>0
    <3>2. Len(t) <= MaxVersion /\ Len(t) >= Len(registry[k])
      BY <3>1, <2>1, <2>2
    <3>3. InProduction(t) >= InProduction(registry[k])
      BY <3>1, <2>2, <2>3
    <3>4. \A i \in 1..Len(registry[k]) :
             registry[k][i] \in {"Production", "Archived"}
                => t[i] \in {"Production", "Archived"}
      BY <2>2
    <3>5. models' = models
      BY <2>1
    <3> HIDE DEF k
    <3> QED BY <2>1, <2>2, <3>2, <3>3, <3>4, <3>5, RegistryStep
  <2>5. \A j \in Keys : registry'[j] = IF j = k THEN t ELSE registry[j]
    BY <2>1, <1>0
  <2>6. /\ trainer' \in [pc : TrainerSteps, key : Keys, version : 0..MaxVersion]
        /\ trainer'.version <= Len(registry'[trainer'.key])
        /\ trainer'.pc = "list" => Len(registry'[trainer'.key]) >= 1
        /\ trainer'.pc # "promote"
    <3>1. CASE trainer' = [trainer EXCEPT !.pc = "list"]
      <4>1. /\ trainer'.pc = "list" /\ trainer'.key = k
            /\ trainer'.version = trainer.version
            /\ trainer' \in [pc : TrainerSteps, key : Keys, version : 0..MaxVersion]
        BY <3>1, <1>0 DEF TrainerSteps
      <4>2. trainer.version <= Len(registry[k]) /\ trainer.version \in Nat
        BY <1>0 DEF TypeOK
      <4> QED BY <4>1, <4>2, <2>1, <2>2, <2>5, <1>0
    <3>2. CASE trainer' = [pc |-> "backoff", key |-> 1, version |-> 0]
      <4>1. Len(registry'[1]) \in Nat
        BY <2>4, <1>0
      <4> QED BY <3>2, <4>1, <1>2
    <3> QED BY <2>1, <3>1, <3>2
  <2> QED BY <2>1, <2>4, <2>6, <1>0 DEF PlatformInv, TypeOK, NewestPromoted
<1>5. CASE List
  <2>1. /\ trainer.pc = "list" /\ UNCHANGED <<registry, pod, models>>
        /\ trainer' = [trainer EXCEPT !.pc = "promote",
                                      !.version = Len(registry[trainer.key])]
    BY <1>5 DEF List
  <2>2. /\ trainer.key \in Keys /\ Len(registry[trainer.key]) >= 1
        /\ Len(registry[trainer.key]) \in 0..MaxVersion
    BY <2>1, <1>0 DEF NewestPromoted
  <2>3. /\ trainer'.pc = "promote" /\ trainer'.key = trainer.key
        /\ trainer'.version = Len(registry[trainer.key])
        /\ trainer' \in [pc : TrainerSteps, key : Keys, version : 0..MaxVersion]
    BY <2>1, <2>2, <1>0 DEF TrainerSteps
  <2> QED BY <2>1, <2>2, <2>3, <1>1
<1>6. CASE Promote
  <2> DEFINE k == trainer.key
             s == registry[k]
             t == Promoted(s, trainer.version)
  <2>1. /\ trainer.pc = "promote" /\ k \in Keys
        /\ registry' = [registry EXCEPT ![k] = t]
        /\ trainer' = IF k = 3 THEN [pc |-> "waiting", key |-> 1, version |-> 0]
                      ELSE [pc |-> "train", key |-> k + 1, version |-> 0]
        /\ UNCHANGED <<pod, models>>
    BY <1>6, <1>0 DEF Promote
  <2>2. trainer.version \in 1..Len(s) /\ trainer.version = Len(s) /\ s \in Seq(Stages)
    BY <2>1, <1>0 DEF NewestPromoted
  <2>3. /\ t \in Seq(Stages) /\ Len(t) = Len(s)
        /\ OneProduction(t) /\ InProduction(t) = trainer.version
        /\ \A i \in 1..Len(s) :
              s[i] \in {"Production", "Archived"} => t[i] \in {"Production", "Archived"}
    BY <2>2, PromotedIs
  <2>4. InProduction(s) \in 0..Len(s) /\ Len(s) \in Nat /\ Len(s) <= MaxVersion
    BY <2>1, <2>2, <1>0, ProductionIs
  <2> HIDE DEF t
  <2>5. /\ registry' \in [Keys -> Seq(Stages)]
        /\ \A j \in Keys : Len(registry'[j]) <= MaxVersion
        /\ \A j \in Keys : Serves(j)'
    <3>1. InProduction(t) >= InProduction(s)
      BY <2>2, <2>3, <2>4
    <3>2. Len(t) <= MaxVersion /\ Len(t) >= Len(registry[k])
      BY <2>3, <2>4
    <3>3. \A i \in 1..Len(registry[k]) :
             registry[k][i] \in {"Production", "Archived"}
                => t[i] \in {"Production", "Archived"}
      BY <2>3
    <3>4. models' = models /\ InProduction(t) >= InProduction(registry[k])
      BY <2>1, <3>1
    <3> HIDE DEF k
    <3> QED BY <2>1, <2>3, <3>2, <3>3, <3>4, RegistryStep
  <2>6. /\ trainer' \in [pc : TrainerSteps, key : Keys, version : 0..MaxVersion]
        /\ trainer'.version = 0 /\ trainer'.pc \in {"waiting", "train"}
    BY <2>1, <1>0 DEF TrainerSteps, Keys
  <2>7. Len(registry'[trainer'.key]) \in Nat
    BY <2>5, <2>6
  <2> QED BY <2>1, <2>5, <2>6, <2>7, <1>0 DEF PlatformInv, TypeOK, NewestPromoted
<1>7. CASE Wake \/ StartTrainer
  <2>1. /\ trainer' = [trainer EXCEPT !.pc = "train"]
        /\ UNCHANGED <<registry, pod, models>>
    BY <1>7 DEF Wake, StartTrainer
  <2>2. /\ trainer'.pc = "train" /\ trainer'.key = trainer.key
        /\ trainer'.version = trainer.version
        /\ trainer' \in [pc : TrainerSteps, key : Keys, version : 0..MaxVersion]
    BY <2>1, <1>0 DEF TrainerSteps
  <2>3. trainer.version <= Len(registry[trainer.key])
    BY <1>0 DEF TypeOK
  <2> QED BY <2>1, <2>2, <2>3, <1>1
<1>8. CASE KillTrainer
  <2>1. /\ trainer' = [pc |-> "down", key |-> 1, version |-> 0]
        /\ UNCHANGED <<registry, pod, models>>
    BY <1>8 DEF KillTrainer
  <2>2. trainer' \in [pc : TrainerSteps, key : Keys, version : 0..MaxVersion]
    BY <2>1, <1>0 DEF TrainerSteps
  <2> QED BY <2>1, <2>2, <1>0, <1>1
(* The service: a model is left alone, forgotten or loaded.                *)
<1>9. ASSUME UNCHANGED <<registry, trainer>>, pod' \in [pc : PodSteps, key : Keys],
             models' \in [Keys -> 0..MaxVersion],
             \A k \in Keys :
                \/ models'[k] = models[k]
                \/ models'[k] = 0
                \/ models'[k] = InProduction(registry[k])
      PROVE  PlatformInv'
  <2>1. TypeOK' /\ NewestPromoted'
    BY <1>0, <1>9 DEF TypeOK, NewestPromoted
  <2>2. ASSUME NEW k \in Keys PROVE Serves(k)'
    <3>1. /\ InProduction(registry[k]) \in 0..Len(registry[k])
          /\ InProduction(registry[k]) # 0
                => registry[k][InProduction(registry[k])] = "Production"
      BY <1>0, ProductionIs
    <3>2. InProduction(registry[k]) >= 0 /\ InProduction(registry[k]) \in Nat
      BY <3>1, <1>0
    <3>3. OneProduction(registry[k]) /\ registry' = registry
      BY <1>0, <1>9 DEF Serves
    <3>4. models'[k] <= InProduction(registry[k])
      <4>1. CASE models'[k] = models[k]
        BY <4>1, <1>0 DEF Serves
      <4>2. CASE models'[k] = 0
        BY <4>2, <3>2
      <4>3. CASE models'[k] = InProduction(registry[k])
        BY <4>3, <3>2
      <4> QED BY <4>1, <4>2, <4>3, <1>9
    <3>5. models'[k] # 0 => registry[k][models'[k]] \in {"Production", "Archived"}
      <4>1. CASE models'[k] = models[k]
        BY <4>1, <1>0 DEF Serves
      <4>2. CASE models'[k] = 0
        BY <4>2
      <4>3. CASE models'[k] = InProduction(registry[k])
        BY <4>3, <3>1
      <4> QED BY <4>1, <4>2, <4>3, <1>9
    <3> QED BY <3>3, <3>4, <3>5 DEF Serves
  <2> QED BY <2>1, <2>2 DEF PlatformInv
<1>10. AfterModel \in [pc : PodSteps, key : Keys]
  <2>1. CASE pod.key = 3
    BY <2>1 DEF AfterModel, PodSteps, Keys
  <2>2. CASE pod.key # 3
    <3>1. pod.key + 1 \in Keys
      BY <2>2, <1>0 DEF Keys
    <3> QED BY <2>2, <3>1 DEF AfterModel, PodSteps
  <2> QED BY <2>1, <2>2
<1>11. CASE Skip
  BY <1>11, <1>0, <1>9, <1>10 DEF Skip
<1>12. CASE Lookup \/ StartPod
  <2>1. /\ pod' \in [pc : PodSteps, key : Keys]
        /\ UNCHANGED <<registry, trainer, models>>
    BY <1>12, <1>0 DEF Lookup, StartPod, PodSteps
  <2> QED BY <2>1, <1>0, <1>9
<1>13. CASE Load
  <2>1. /\ models' = [models EXCEPT ![pod.key] = Production(pod.key)]
        /\ pod' = AfterModel /\ UNCHANGED <<registry, trainer>> /\ pod.key \in Keys
    BY <1>13, <1>0 DEF Load
  <2>2. /\ Production(pod.key) = InProduction(registry[pod.key])
        /\ InProduction(registry[pod.key]) \in 0..Len(registry[pod.key])
    BY <2>1, <1>0, ProductionSame, ProductionIs
  <2>3. Production(pod.key) \in 0..MaxVersion
    BY <2>1, <2>2, <1>0
  <2> QED BY <2>1, <2>2, <2>3, <1>0, <1>9, <1>10
<1>14. CASE KillPod
  BY <1>14, <1>0, <1>9 DEF KillPod, PodSteps
<1>15. CASE UNCHANGED vars
  BY <1>15, <1>0 DEF vars, PlatformInv, TypeOK, NewestPromoted, Serves
<1> QED
  BY <1>3, <1>4, <1>5, <1>6, <1>7, <1>8, <1>11, <1>12, <1>13, <1>14, <1>15
  DEF Next, Scheduler, Service

(* Every variable stays in its type, and a version to promote exists       *)
(* (retrain.py 255-280, prediction_service/main.py 130-150).               *)
THEOREM TypeCorrect == Spec => []TypeOK
<1>1. PlatformInv => TypeOK
  BY DEF PlatformInv
<1> QED BY <1>1, PlatformInit, PlatformStep, PTL DEF Spec

(* The service serves promoted versions only, and two versions of a model  *)
(* are never in Production together (retrain.py 265-273).                  *)
THEOREM ServesPromotedOnly == Spec => []ServesPromoted
<1>1. PlatformInv => ServesPromoted
  BY ServesIs
<1> QED BY <1>1, PlatformInit, PlatformStep, PTL DEF Spec

(* The Production version only rises (retrain.py 265-273).                 *)
THEOREM ProductionOnlyRises == Spec => ProductionRises
<1>1. PlatformInv /\ [Next]_vars =>
         [\A k \in Keys : Production(k)' >= Production(k)]_vars
  <2> SUFFICES ASSUME PlatformInv, Next, NEW k \in Keys
               PROVE  Production(k)' >= Production(k)
    OBVIOUS
  <2>0. /\ registry \in [Keys -> Seq(Stages)] /\ Serves(k) /\ NewestPromoted
        /\ trainer.key \in Keys /\ Len(registry[k]) \in Nat
        /\ Production(k) = InProduction(registry[k])
        /\ InProduction(registry[k]) \in 0..Len(registry[k])
    BY ProductionSame, ProductionIs DEF PlatformInv, TypeOK
  <2>1. Production(k)' = InProduction(registry'[k])
    BY DEF Production, InProduction
  <2>2. CASE UNCHANGED registry
    BY <2>0, <2>1, <2>2
  <2>3. CASE Train
    <3>1. registry'[k] \in {registry[k], Append(registry[k], "None")}
      BY <2>3, <2>0 DEF Train
    <3>2. InProduction(registry'[k]) = InProduction(registry[k])
      BY <3>1, <2>0, Registered DEF Serves
    <3> QED BY <3>2, <2>0, <2>1
  <2>4. CASE Promote
    <3>1. CASE k = trainer.key
      <4>1. /\ trainer.version \in 1..Len(registry[k])
            /\ trainer.version = Len(registry[k])
            /\ registry'[k] = Promoted(registry[k], trainer.version)
        BY <2>4, <3>1, <2>0 DEF Promote, NewestPromoted
      <4>2. InProduction(registry'[k]) = Len(registry[k])
        BY <4>1, <2>0, PromotedIs
      <4> QED BY <4>2, <2>0, <2>1
    <3>2. CASE k # trainer.key
      <4>1. registry'[k] = registry[k]
        BY <2>4, <3>2, <2>0 DEF Promote
      <4> QED BY <4>1, <2>0, <2>1
    <3> QED BY <3>1, <3>2
  <2> QED
    BY <2>2, <2>3, <2>4
    DEF Next, Scheduler, Service, Fail, List, Wake, Skip, Lookup, Load,
        KillTrainer, StartTrainer, KillPod, StartPod
<1> QED BY <1>1, PlatformInit, PlatformStep, PTL DEF Spec, ProductionRises

(***************************************************************************)
(* The refinement.  What ModelServing sees of a model is the length of its *)
(* sequence, its Production version and the version the service holds.     *)
(***************************************************************************)
Newest == [k \in Keys |-> Len(registry[k])]
Live == [k \in Keys |-> InProduction(registry[k])]

LEMMA Seen ==
    /\ [k \in Keys |-> Len(registry[k])] = Newest
    /\ [k \in Keys |-> Production(k)] = Live
    /\ [k \in Keys |-> Len(registry[k])]' = Newest'
    /\ [k \in Keys |-> Production(k)]' = Live'
BY DEF Newest, Live, Production, InProduction

LEMMA ServingInit == Init => Serving!Init
<1> SUFFICES ASSUME Init PROVE Serving!Init
  OBVIOUS
<1>1. ASSUME NEW k \in Keys
      PROVE  Len(registry[k]) \in {0, 1} /\ InProduction(registry[k]) = Len(registry[k])
  <2>1. registry[k] \in {<<>>, <<"Production">>}
    BY DEF Init
  <2>2. CASE registry[k] = <<>>
    BY <2>2 DEF InProduction
  <2>3. CASE registry[k] = <<"Production">>
    <3>1. registry[k] \in Seq(Stages) /\ Len(registry[k]) = 1 /\ registry[k][1] = "Production"
      BY <2>3 DEF Stages
    <3>2. OneProduction(registry[k])
      BY <3>1 DEF OneProduction
    <3> QED BY <3>1, <3>2, ProductionIs
  <2> QED BY <2>1, <2>2, <2>3
<1>2. Newest \in [Keys -> {0, 1}] /\ Live = Newest
  BY <1>1 DEF Newest, Live
<1>3. models = [k \in Keys |-> 0]
  BY DEF Init
<1> QED BY <1>2, <1>3, Seen DEF Serving!Init, Serving!Nothing

(* One sequence of the registry changes: its length and its Production     *)
(* version are what changes of the view.                                   *)
LEMMA ViewStep ==
    ASSUME PlatformInv, NEW k \in Keys, NEW t,
           registry' = [registry EXCEPT ![k] = t]
    PROVE  /\ Newest' = [Newest EXCEPT ![k] = Len(t)]
           /\ Live' = [Live EXCEPT ![k] = InProduction(t)]
<1>1. \A j \in Keys : registry'[j] = IF j = k THEN t ELSE registry[j]
  BY DEF PlatformInv, TypeOK
<1>2. \A j \in Keys : Len(registry'[j]) = IF j = k THEN Len(t) ELSE Len(registry[j])
  BY <1>1
<1>3. \A j \in Keys :
         InProduction(registry'[j]) = IF j = k THEN InProduction(t) ELSE InProduction(registry[j])
  BY <1>1
<1> QED BY <1>2, <1>3 DEF Newest, Live

LEMMA ServingStep == PlatformInv /\ [Next]_vars => [Serving!Next]_(Serving!vars)
<1> SUFFICES ASSUME PlatformInv, [Next]_vars
             PROVE  \/ Serving!Next
                    \/ UNCHANGED <<Newest, Live, models>>
  BY Seen DEF Serving!vars
<1>0. /\ registry \in [Keys -> Seq(Stages)] /\ models \in [Keys -> 0..MaxVersion]
      /\ trainer.key \in Keys /\ pod.key \in Keys
      /\ \A k \in Keys : Serves(k)
      /\ NewestPromoted
  BY DEF PlatformInv, TypeOK
<1>1. CASE Train
  <2> DEFINE k == trainer.key
             t == Append(registry[k], "None")
  <2>1. k \in Keys /\ registry' = [registry EXCEPT ![k] = t] /\ models' = models
    BY <1>1, <1>0 DEF Train
  <2>2. Len(t) = Len(registry[k]) + 1 /\ InProduction(t) = InProduction(registry[k])
    BY <2>1, <1>0, Registered DEF Serves
  <2> HIDE DEF t
  <2>3. /\ Newest' = [Newest EXCEPT ![k] = Len(t)]
        /\ Live' = [Live EXCEPT ![k] = InProduction(t)]
    <3> HIDE DEF k
    <3> QED BY <2>1, ViewStep
  <2>4. Newest' = [Newest EXCEPT ![k] = @ + 1] /\ Live' = Live
    <3> HIDE DEF k
    <3>1. Newest[k] + 1 = Len(t)
      BY <2>1, <2>2 DEF Newest
    <3>2. Live[k] = InProduction(t) /\ Live = [j \in Keys |-> Live[j]]
      BY <2>1, <2>2 DEF Live
    <3> QED BY <3>1, <3>2, <2>1, <2>3
  <2>5. \E m \in Keys : Serving!Register(m)
    <3> HIDE DEF k
    <3> QED BY <2>1, <2>4, Seen DEF Serving!Register
  <2> QED BY <2>5 DEF Serving!Next
<1>2. CASE Promote
  <2> DEFINE k == trainer.key
             t == Promoted(registry[k], trainer.version)
  <2>1. /\ trainer.pc = "promote" /\ k \in Keys /\ models' = models
        /\ registry' = [registry EXCEPT ![k] = t]
    BY <1>2, <1>0 DEF Promote
  <2>2. trainer.version \in 1..Len(registry[k]) /\ trainer.version = Len(registry[k])
    BY <2>1, <1>0 DEF NewestPromoted
  <2>3. Len(t) = Len(registry[k]) /\ InProduction(t) = Len(registry[k])
    BY <2>1, <2>2, <1>0, PromotedIs
  <2> HIDE DEF t
  <2>4. /\ Newest' = [Newest EXCEPT ![k] = Len(t)]
        /\ Live' = [Live EXCEPT ![k] = InProduction(t)]
    <3> HIDE DEF k
    <3> QED BY <2>1, ViewStep
  <2>5. Newest[k] = Len(registry[k]) /\ Newest[k] # 0
    BY <2>1, <2>2 DEF Newest
  <2>6. Newest' = Newest /\ Live' = [Live EXCEPT ![k] = Newest[k]]
    BY <2>1, <2>3, <2>4, <2>5 DEF Newest
  <2>7. Serving!Release(k)
    BY <2>1, <2>5, <2>6, Seen DEF Serving!Release
  <2> QED BY <2>1, <2>7 DEF Serving!Next
<1>3. CASE Load
  <2>1. registry' = registry /\ models' = [models EXCEPT ![pod.key] = Production(pod.key)]
    BY <1>3 DEF Load
  <2>2. Newest' = Newest /\ Live' = Live /\ Live[pod.key] = Production(pod.key)
    BY <2>1, <1>0, ProductionSame DEF Newest, Live
  <2>3. Serving!Serve(pod.key)
    BY <2>1, <2>2, Seen DEF Serving!Serve
  <2> QED BY <2>3, <1>0 DEF Serving!Next
<1>4. CASE KillPod
  <2>1. registry' = registry /\ models' = [k \in Keys |-> 0]
    BY <1>4 DEF KillPod
  <2>2. Newest' = Newest /\ Live' = Live
    BY <2>1 DEF Newest, Live
  <2> QED BY <2>1, <2>2, Seen DEF Serving!Next, Serving!Forget, Serving!Nothing
<1>5. CASE UNCHANGED <<registry, models>>
  BY <1>5 DEF Newest, Live
<1> QED
  BY <1>1, <1>2, <1>3, <1>4, <1>5
  DEF Next, Scheduler, Service, Fail, List, Wake, Skip, Lookup, KillTrainer,
      StartTrainer, StartPod, vars

(* Through failed calls, kills and overlapping start-ups, a version goes   *)
(* live only as the newest of its model and the service answers with what  *)
(* was live when it loaded it (retrain.py 232-275, prediction_service/     *)
(* main.py 130-150).                                                       *)
THEOREM ServingImplemented == Spec => ImplementsServing
<1> QED
  BY ServingInit, ServingStep, PlatformInit, PlatformStep, PTL
  DEF Spec, Serving!Spec, ImplementsServing
=============================================================================

----------------------------- MODULE MlPlatform ----------------------------
(***************************************************************************)
(* Retraining and serving: the scheduler of ml-retrain (scheduler.py,      *)
(* retrain.py) trains a model for each name, registers it with MLflow and  *)
(* promotes it to Production; the prediction service loads the Production  *)
(* models of the same names when it starts (prediction_service/main.py).   *)
(*                                                                         *)
(* MLflow is external: log_model appends a version, get_latest_versions    *)
(* and transition_model_version_stage read and set stages, each call may   *)
(* fail.  Both pods may be killed between any two calls and are restarted. *)
(***************************************************************************)
EXTENDS Naturals, Sequences

CONSTANT MaxVersion \* bound: versions registered of a model

ASSUME MlPlatformAssumption == MaxVersion \in Nat \ {0}

\* train_all's order: canteen, library, energy.  The service loads in the same.
Keys == 1..3

VARIABLES
    registry, \* registry[k][v]: the stage of version v of model k in MLflow
    trainer,  \* the scheduler: step, model at hand, version to promote
    pod,      \* the service: step, model at hand
    models    \* models[k]: the version the service holds, 0 if none

vars == <<registry, trainer, pod, models>>

TrainerSteps == {"train", "list", "promote", "backoff", "waiting", "down"}
PodSteps == {"lookup", "load", "up", "down"}
Stages == {"None", "Production", "Archived"}

\* The version in Production, 0 if there is none.
Production(k) ==
    IF \E v \in 1..Len(registry[k]) : registry[k][v] = "Production"
    THEN CHOOSE v \in 1..Len(registry[k]) : registry[k][v] = "Production"
    ELSE 0

\* A volume of an earlier deployment may hold versions already.
Init ==
    /\ registry \in [Keys -> {<<>>, <<"Production">>}]
    /\ trainer = [pc |-> "train", key |-> 1, version |-> 0]
    /\ pod = [pc |-> "lookup", key |-> 1]
    /\ models = [k \in Keys |-> 0]

-----------------------------------------------------------------------------
(* The scheduler *)

\* An exception leaves train_all: the models after this one are not trained.
Fail ==
    /\ trainer.pc \in {"train", "list", "promote"}
    /\ trainer' = [pc |-> "backoff", key |-> 1, version |-> 0]
    /\ UNCHANGED <<registry, pod, models>>

\* Data from InfluxDB or the CSV, enough of it; fit, log, register.  No
\* measure of quality is asked for.  The call may raise after it registered.
Train ==
    LET k == trainer.key IN
    /\ trainer.pc = "train"
    /\ Len(registry[k]) < MaxVersion
    /\ registry' = [registry EXCEPT ![k] = Append(@, "None")]
    /\ \/ trainer' = [trainer EXCEPT !.pc = "list"]
       \/ trainer' = [pc |-> "backoff", key |-> 1, version |-> 0]
    /\ UNCHANGED <<pod, models>>

\* Mutant: any of the versions get_latest_versions gives, not their maximum.
ListAny ==
    /\ trainer.pc = "list"
    /\ \E v \in 1..Len(registry[trainer.key]) :
         /\ \A w \in 1..Len(registry[trainer.key]) : w > v =>
              registry[trainer.key][w] # registry[trainer.key][v]
         /\ trainer' = [trainer EXCEPT !.pc = "promote", !.version = v]
    /\ UNCHANGED <<registry, pod, models>>

\* get_latest_versions gives the latest of every stage: their maximum is the
\* newest version of all.
List ==
    /\ trainer.pc = "list"
    /\ trainer' = [trainer EXCEPT !.pc = "promote",
                                  !.version = Len(registry[trainer.key])]
    /\ UNCHANGED <<registry, pod, models>>

\* The promoted version replaces the one in Production.
Promoted(stages, v) ==
    [i \in DOMAIN stages |->
        IF i = v THEN "Production"
        ELSE IF stages[i] = "Production" THEN "Archived" ELSE stages[i]]

Promote ==
    LET k == trainer.key IN
    /\ trainer.pc = "promote"
    /\ registry' = [registry EXCEPT ![k] = Promoted(@, trainer.version)]
    /\ trainer' = IF k = 3 THEN [pc |-> "waiting", key |-> 1, version |-> 0]
                  ELSE [pc |-> "train", key |-> k + 1, version |-> 0]
    /\ UNCHANGED <<pod, models>>

\* Mutant: the scheduler does not try again after a failure.
WakeAtTwo ==
    /\ trainer.pc = "waiting"
    /\ trainer' = [trainer EXCEPT !.pc = "train"]
    /\ UNCHANGED <<registry, pod, models>>

\* An hour after a failure, or at 02:00: everything again.
Wake ==
    /\ trainer.pc \in {"backoff", "waiting"}
    /\ trainer' = [trainer EXCEPT !.pc = "train"]
    /\ UNCHANGED <<registry, pod, models>>

-----------------------------------------------------------------------------
(* The prediction service: start-up, then it serves what it has loaded *)

AfterModel == IF pod.key = 3 THEN [pc |-> "up", key |-> 3]
              ELSE [pc |-> "lookup", key |-> pod.key + 1]

\* No Production version, or MLflow does not answer: the model is skipped.
Skip ==
    /\ \/ pod.pc = "lookup" \* an error, or an empty list
       \/ pod.pc = "load"
    /\ pod' = AfterModel
    /\ UNCHANGED <<registry, trainer, models>>

Lookup ==
    /\ pod.pc = "lookup"
    /\ Production(pod.key) # 0
    /\ pod' = [pod EXCEPT !.pc = "load"]
    /\ UNCHANGED <<registry, trainer, models>>

\* Mutant: the newest version is loaded, whatever its stage.
LoadNewest ==
    /\ pod.pc = "load"
    /\ models' = [models EXCEPT ![pod.key] = Len(registry[pod.key])]
    /\ pod' = AfterModel
    /\ UNCHANGED <<registry, trainer>>

\* load_model resolves models:/<name>/Production anew.
Load ==
    /\ pod.pc = "load"
    /\ models' = [models EXCEPT ![pod.key] = Production(pod.key)]
    /\ pod' = AfterModel
    /\ UNCHANGED <<registry, trainer>>

-----------------------------------------------------------------------------
(* Pods are killed and started again *)

KillTrainer ==
    /\ trainer.pc # "down"
    /\ trainer' = [pc |-> "down", key |-> 1, version |-> 0]
    /\ UNCHANGED <<registry, pod, models>>

StartTrainer ==
    /\ trainer.pc = "down"
    /\ trainer' = [trainer EXCEPT !.pc = "train"]
    /\ UNCHANGED <<registry, pod, models>>

KillPod ==
    /\ pod.pc # "down"
    /\ pod' = [pc |-> "down", key |-> 1]
    /\ models' = [k \in Keys |-> 0]
    /\ UNCHANGED <<registry, trainer>>

StartPod ==
    /\ pod.pc = "down"
    /\ pod' = [pod EXCEPT !.pc = "lookup"]
    /\ UNCHANGED <<registry, trainer, models>>

-----------------------------------------------------------------------------
Scheduler == Fail \/ Train \/ List \/ Promote \/ Wake
Service == Skip \/ Lookup \/ Load

Next == Scheduler \/ Service \/ KillTrainer \/ StartTrainer \/ KillPod \/ StartPod

\* Processes run, sleeps end, Kubernetes restarts what it killed.  Nothing is
\* assumed of MLflow: its calls may fail for ever.
Fairness ==
    /\ WF_vars(Scheduler) /\ WF_vars(StartTrainer)
    /\ WF_vars(Service) /\ WF_vars(StartPod)

Spec == Init /\ [][Next]_vars
FairSpec == Spec /\ Fairness

-----------------------------------------------------------------------------
TypeOK ==
    /\ registry \in [Keys -> Seq(Stages)]
    /\ \A k \in Keys : Len(registry[k]) <= MaxVersion
    /\ trainer \in [pc : TrainerSteps, key : Keys, version : 0..MaxVersion]
    /\ trainer.version <= Len(registry[trainer.key])
    /\ pod \in [pc : PodSteps, key : Keys]
    /\ models \in [Keys -> 0..MaxVersion]

\* With one scheduler the Production version of a model only ever rises and
\* never disappears, whatever call fails and whenever the pod is killed.
ProductionRises ==
    [][\A k \in Keys : Production(k)' >= Production(k)]_vars

\* What the service answers with has been promoted: it never serves a version
\* that was registered and no more, and two versions of a model are never in
\* Production together, although its start-up overlaps a retraining.
ServesPromoted ==
    \A k \in Keys :
      /\ models[k] <= Production(k)
      /\ models[k] # 0 => registry[k][models[k]] \in {"Production", "Archived"}
      /\ \A v, w \in 1..Len(registry[k]) :
           registry[k][v] = "Production" /\ registry[k][w] = "Production" => v = w

\* scheduler.py:5: on an error it sleeps and tries again.  Whatever fails, a
\* pass over the models is begun again and again.
SchedulerGoesOn == []<>(trainer.pc = "train" /\ trainer.key = 1)

Serving == INSTANCE ModelServing
           WITH Models <- Keys,
                newest <- [k \in Keys |-> Len(registry[k])],
                live   <- [k \in Keys |-> Production(k)],
                served <- models

\* The calls to MLflow, which fail, interleave and are cut off by kills,
\* amount to this: a version goes live only as the newest of its model, and
\* the service answers with what was live when it loaded the model.
ImplementsServing == Serving!Spec
=============================================================================

---------------------------- MODULE ModelServing -----------------------------
(***************************************************************************)
(* What retraining and the prediction service promise together, whatever   *)
(* calls they make for it and whichever of them are killed in between      *)
(* (services/ml-retrain, services/ml-prediction/prediction_service): a     *)
(* version goes live only as the newest one of its model, nothing takes    *)
(* it from live but a newer one, and the service answers with the version  *)
(* that was live when it loaded the model, or does without a model.        *)
(* MlPlatform implements this.                                             *)
(***************************************************************************)
EXTENDS Naturals

CONSTANT Models

VARIABLES
    newest,  \* newest[m]: versions of m that were registered
    live,    \* live[m]: the version of m the service is to load, 0 if none
    served   \* served[m]: the version of m the service answers with, 0 if none

vars == <<newest, live, served>>

Nothing == [m \in Models |-> 0]

(* An earlier deployment may have left one version of a model, live.       *)
Init ==
    /\ newest \in [Models -> {0, 1}]
    /\ live = newest
    /\ served = Nothing

Register(m) ==
    /\ newest' = [newest EXCEPT ![m] = @ + 1]
    /\ UNCHANGED <<live, served>>

Release(m) ==
    /\ newest[m] # 0
    /\ live' = [live EXCEPT ![m] = newest[m]]
    /\ UNCHANGED <<newest, served>>

Serve(m) ==
    /\ served' = [served EXCEPT ![m] = live[m]]
    /\ UNCHANGED <<newest, live>>

(* The service dies, and what it had loaded with it.                       *)
Forget ==
    /\ served' = Nothing
    /\ UNCHANGED <<newest, live>>

Next == (\E m \in Models : Register(m) \/ Release(m) \/ Serve(m)) \/ Forget

Spec == Init /\ [][Next]_vars
=============================================================================

---------------------------- MODULE MCMlFeatures ----------------------------
(* Lags and windows shortened, up to six slots of three levels.             *)
EXTENDS MlFeatures
=============================================================================

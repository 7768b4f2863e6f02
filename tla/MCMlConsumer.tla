---------------------------- MODULE MCMlConsumer ----------------------------
(* One topic with two messages and two process lives.                      *)
EXTENDS MlConsumer
=============================================================================

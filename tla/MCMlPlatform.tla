---------------------------- MODULE MCMlPlatform ----------------------------
(* Up to three versions of each of the three models.                        *)
EXTENDS MlPlatform
=============================================================================

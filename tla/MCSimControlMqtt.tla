-------------------------- MODULE MCSimControlMqtt --------------------------
(* Small instances of SimControlMqtt for TLC.                              *)
EXTENDS SimControlMqtt
=============================================================================

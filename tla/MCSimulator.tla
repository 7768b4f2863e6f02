----------------------------- MODULE MCSimulator ------------------------------
(* Small instances of Simulator for TLC: one building with an occupancy    *)
(* and a temperature sensor, and one with neither, whose overrides only    *)
(* change the dictionary.                                                  *)
EXTENDS Simulator

CONSTANTS lab, hall

MCSensors == {lab} \X {"occupancy", "temperature"}
=============================================================================

-------------------------- MODULE MCSimControlStore ---------------------------
EXTENDS SimControlStore

CONSTANTS s1, s2, r1

MCBodies == {[on |-> s1, target |-> s2, enable |-> "flip"]}
MCNewSensors == {[enabled |-> TRUE, mode |-> "anomaly"]}
MCTopology == {s1}
=============================================================================

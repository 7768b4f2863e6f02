----------------------------- MODULE MCPipeline ----------------------------
(* Two energy meters of a room and a thermometer, windows of three.         *)
EXTENDS Pipeline

CONSTANTS e1, e2, t1, room

MCType == [s \in Sensors |-> IF s = t1 THEN "temperature" ELSE "energy"]
MCRoom == [s \in Sensors |-> room]
MCConfigs == {[min |-> 0, max |-> 10, pattern |-> <<2, 9>>], [min |-> 30, max |-> 40, pattern |-> <<>>]}
MCRuleValues == [s \in Sensors |-> IF s = e2 THEN {20} ELSE {}]
MCFraction == [temperature |-> 3, occupancy |-> 5, energy |-> 8]
=============================================================================

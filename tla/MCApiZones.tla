---------------------------- MODULE MCApiZones -----------------------------
(* A building of four rooms; the pipeline's readings before and after one   *)
(* room fell silent, its people left and alarms were raised.  The query for *)
(* the capacities always fails, as it does on the repository's tables.      *)
EXTENDS ApiZones, TLC
CONSTANTS a, b, c, d

Calm == [temperature |-> (a :> 271) @@ (b :> 268) @@ (c :> 302) @@ (d :> 275),
         occupancy |-> (a :> 12) @@ (b :> 20) @@ (c :> 0) @@ (d :> 101),
         energy |-> (a :> 420) @@ (b :> 395) @@ (c :> 240) @@ (d :> 510),
         anomalies |-> 0]
Broken == [temperature |-> (a :> 271) @@ (b :> 268) @@ (c :> 420),
           occupancy |-> (a :> 500) @@ (b :> 3),
           energy |-> (a :> 120) @@ (b :> 95) @@ (c :> 40) @@ (d :> 9000),
           anomalies |-> 3]
MCContents == {Calm, Broken}
MCTables == {}
MCSpikes == {-400, 290, 9000}
Symmetric == Permutations(Requests)
=============================================================================

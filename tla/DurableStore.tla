---------------------------- MODULE DurableStore -----------------------------
(***************************************************************************)
(* What sim-control promises of its store, whatever its handlers and its   *)
(* publish loop look like inside (services/sim-control/backend/app:        *)
(* router.py, persistence.py, main.py).  The state has two parts, the      *)
(* store and the MQTT configuration; a part is promised from the answer to *)
(* a request on it until the next request on it.  Nothing of a promised    *)
(* part moves, in memory or in its files, but a sensor that a rule         *)
(* switches; a save writes what memory holds; and a startup has what the   *)
(* saves left, or meets a torn file and is refused.  SimControlStore       *)
(* implements this.  What a request does to memory is left open.           *)
(***************************************************************************)
CONSTANTS NoSensors,  \* a map of sensors that is empty
          Seed        \* the sensors of a startup that finds none

VARIABLES
    proc,      \* "up", "down", or "refused"
    sensors, rules, logs, config,  \* memory; of the log, what a save keeps
    saved,     \* what a startup would find in each file
    promised,  \* the parts whose last request was answered
    switched   \* sensors a rule switched since a save of them began

memory == <<sensors, rules, logs, config>>
vars   == <<proc, memory, saved, promised, switched>>

Parts == {"store", "config"}
FilesOf(part) == IF part = "config" THEN {"config"} ELSE {"sensors", "rules", "logs"}
Files == FilesOf("store") \cup FilesOf("config")
Torn  == <<>>

(* A saved value w of the file f is what memory holds.                     *)
Holds(f, w) ==
    /\ f = "sensors" =>
         /\ w # Torn
         /\ DOMAIN w[1] = DOMAIN sensors
         /\ \A s \in DOMAIN sensors :
               \/ w[1][s] = sensors[s]
               \/ s \in switched /\ w[1][s].mode = sensors[s].mode
    /\ f = "rules"  => w = <<rules>>
    /\ f = "logs"   => w = <<logs>>
    /\ f = "config" => w = <<config>>

Init ==
    /\ proc = "down"
    /\ saved = [f \in Files |-> CASE f = "logs"   -> << <<>> >>
                                 [] f = "config" -> <<0>>
                                 [] OTHER        -> <<NoSensors>>]
    /\ sensors = NoSensors /\ rules = NoSensors /\ logs = <<>> /\ config = 0
    /\ promised = Parts /\ switched = {}

(* A request is accepted, or fails: its part is no longer promised.        *)
Change(part) ==
    /\ proc = "up"
    /\ promised' = promised \ {part}
    /\ IF part = "config" THEN UNCHANGED <<sensors, rules, logs>> ELSE UNCHANGED config
    /\ UNCHANGED <<proc, saved, switched>>

(* The file is truncated; the log gets its entry right before.             *)
BeginSave(part, f) ==
    /\ proc = "up"
    /\ part \notin promised /\ f \in FilesOf(part)
    /\ saved' = [saved EXCEPT ![f] = Torn]
    /\ switched' = IF f = "sensors" THEN {} ELSE switched
    /\ f # "logs" => UNCHANGED logs
    /\ UNCHANGED <<proc, sensors, rules, config, promised>>

EndSave(part, f) ==
    /\ proc = "up"
    /\ part \notin promised /\ f \in FilesOf(part)
    /\ saved[f] = Torn
    /\ saved' = [saved EXCEPT ![f] = saved'[f]]
    /\ Holds(f, saved'[f])
    /\ UNCHANGED <<proc, memory, promised, switched>>

Answer(part) ==
    /\ proc = "up"
    /\ part \notin promised
    /\ \A f \in FilesOf(part) : Holds(f, saved[f])
    /\ promised' = promised \cup {part}
    /\ UNCHANGED <<proc, memory, saved, switched>>

(* A rule enables or disables a sensor and saves nothing.                  *)
Switch ==
    /\ proc = "up"
    /\ \E s \in DOMAIN sensors, on \in BOOLEAN :
          /\ sensors' = [sensors EXCEPT ![s].enabled = on]
          /\ switched' = switched \cup {s}
    /\ UNCHANGED <<proc, rules, logs, config, saved, promised>>

(* The process dies, at any moment, and its memory with it.                *)
Die ==
    /\ proc = "up" /\ proc' = "down"
    /\ UNCHANGED <<saved, promised, switched>>

Refuse ==
    /\ proc = "down" /\ proc' = "refused"
    /\ \E f \in Files : saved[f] = Torn
    /\ UNCHANGED <<memory, saved, promised, switched>>

(* Memory is what the files hold.  Where they hold no sensor the seed is   *)
(* added and saved, and the store is promised only if that save succeeds.  *)
Start ==
    /\ proc = "down" /\ proc' = "up"
    /\ \A f \in Files : saved[f] # Torn
    /\ rules' = saved["rules"][1] /\ logs' = saved["logs"][1]
    /\ config' = saved["config"][1] /\ switched' = {}
    /\ \/ /\ saved["sensors"][1] # NoSensors
          /\ sensors' = saved["sensors"][1] /\ promised' = Parts
          /\ UNCHANGED saved
       \/ /\ saved["sensors"][1] = NoSensors
          /\ sensors' = Seed
          /\ \/ saved' = [saved EXCEPT !["sensors"] = <<Seed>>] /\ promised' = Parts
             \/ /\ saved' \in {saved, [saved EXCEPT !["sensors"] = Torn]}
                /\ promised' = {"config"}

Next ==
    \/ \E part \in Parts :
          \/ Change(part) \/ Answer(part)
          \/ \E f \in Files : BeginSave(part, f) \/ EndSave(part, f)
    \/ Switch \/ Die \/ Refuse \/ Start

Spec == Init /\ [][Next]_vars
=============================================================================

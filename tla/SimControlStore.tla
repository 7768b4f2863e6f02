---------------------------- MODULE SimControlStore ----------------------------
(***************************************************************************)
(* services/sim-control/backend: the store of sensors, rules and logs, its *)
(* JSON files and the publish loop that reads the store.                   *)
(*                                                                         *)
(* Requests run one at a time on uvicorn's event loop: a handler changes   *)
(* the dictionaries, rewrites sensors.json and rules.json, appends to the  *)
(* log and rewrites logs.json, and answers.  Rewriting a file truncates it *)
(* first, so a file is torn from open("w") to the end of json.dump.  The   *)
(* publish loop runs in a thread of its own, iterates over the live        *)
(* dictionaries, and its rules change sensors without saving them.  The    *)
(* process may die at any step; the files stay (docker-compose restarts    *)
(* the same container), and a startup that meets a torn file fails, every  *)
(* time.                                                                   *)
(*                                                                         *)
(* A file that is missing loads as an empty one and is not told from it.   *)
(* A dictionary is iterated in its order of insertion; here in any order.  *)
(* A handler's loop over the sensors and its snapshot for a file are one   *)
(* step each.  Requests that change nothing (404, 409, reads) are no       *)
(* action.  A rule that sets the reading's value changes no store, so only *)
(* the rules that switch a sensor have a body here.                        *)
(***************************************************************************)
EXTENDS Integers, Sequences, FiniteSets, SequencesExt

CONSTANTS Sensors,
          Topology,     \* the sensors generate_seed_sensors returns
          Rules,
          Bodies,       \* condition and action of a rule: [on, target, enable]
          NewSensors,   \* bound: what a client makes of a sensor
          LogCap,       \* 10000 in the code
          LogTrim,      \* 2000 in the code
          LogKeep,      \* 5000 in the code
          MaxRequests,  \* bound: requests that change something
          MaxCrashes,   \* bound: deaths of the process
          MaxFailures   \* bound: saves that raise

Modes  == {"normal", "anomaly"}  \* BehaviorMode: NORMAL and any other
Sensor == [enabled : BOOLEAN, mode : Modes]

ASSUME StoreAssumption ==
    /\ Topology \subseteq Sensors /\ Topology # {} /\ IsFiniteSet(Topology)
    /\ NewSensors \subseteq Sensor
    /\ \A b \in Bodies : /\ {b.on, b.target} \subseteq Sensors
                         /\ b.enable \in {"on", "off", "flip"}
                         /\ \A c \in Bodies : [b EXCEPT !.on = c.on] \in Bodies
    /\ LogCap \in Nat /\ LogTrim \in 1..LogCap /\ LogKeep \in 1..LogCap
    /\ {MaxRequests, MaxCrashes, MaxFailures} \subseteq Nat

VARIABLES
    proc,      \* "up", "down", or "refused": the startup failed
    sensors,   \* _sensors: [some of Sensors -> Sensor]
    rules,     \* _rules: [some of Rules -> Rule]
    logs,      \* _logs: the requests that were logged
    config,    \* the MQTT configuration in force, by the request that set it
    disk,      \* [Files -> <<content>>, or Torn]
    req,       \* the request in hand: its kind, the saves left, the snapshot
    pub,       \* where the publish loop is, and what it holds
    sit, rit,  \* its iterators over the sensors and over the rules
    client,    \* whether SimControlMQTT has a client
    n, crashes, failures,    \* bounds
    promised,  \* the parts nothing failed in since an answer (history)
    byRule,    \* sensors a rule switched since they were saved (history)
    deleted,   \* deletions answered and not undone by a request (history)
    reseeded,  \* those of them the seed of a startup has added (history)
    disturbed  \* a request of this process added or removed a key, or
               \* replaced the MQTT client (history)

store   == <<sensors, rules, logs, config>>
loop    == <<pub, sit, rit, client>>
bounds  == <<n, crashes, failures>>
history == <<promised, byRule, deleted, reseeded, disturbed>>
vars    == <<proc, store, disk, req, loop, bounds, history>>

Files  == {"sensors", "rules", "logs", "config"}
Parts  == {"store", "config"}  \* what a request changes
Rule   == [enabled : BOOLEAN, body : Bodies]
Torn   == <<>>
Empty  == [x \in {} |-> x]
Fresh  == [enabled |-> TRUE, mode |-> "normal"]
Seed   == [s \in Topology |-> Fresh]

(* What a save of a file writes, the log being l: logs[-5000:] of it.      *)
Newest(l) == IF Len(l) <= LogKeep THEN l
             ELSE SubSeq(l, Len(l) - LogKeep + 1, Len(l))
Content(f, l) == CASE f = "sensors" -> sensors
                   [] f = "rules"   -> rules
                   [] f = "logs"    -> Newest(l)
                   [] f = "config"  -> n

NoRequest == [kind |-> "none", saves |-> <<>>, snap |-> <<>>, on |-> {}]
Waiting   == [at |-> "wait"]
NoIter    == [todo |-> {}, size |-> 0, left |-> 0]

(* A dictionary iterator remembers the size it began with and counts down  *)
(* the entries it has still to yield.                                      *)
IteratorOver(d) == [todo |-> DOMAIN d, size |-> Cardinality(DOMAIN d),
                    left |-> Cardinality(DOMAIN d)]
Iterators(K) == [todo : SUBSET K, size : Nat, left : Nat]

Switches(at) == [at : {at}, reading : Sensors, target : Sensors,
                 enable : {"on", "off", "flip"}]

Stored(K, V) == UNION {[k -> V] : k \in SUBSET K}

TypeOK ==
    /\ proc \in {"up", "down", "refused"}
    /\ sensors \in Stored(Sensors, Sensor)
    /\ rules \in Stored(Rules, Rule)
    /\ logs \in Seq(1..MaxRequests) /\ Len(logs) <= LogCap
    /\ disk["sensors"] # Torn => disk["sensors"][1] \in Stored(Sensors, Sensor)
    /\ disk["rules"] # Torn => disk["rules"][1] \in Stored(Rules, Rule)
    /\ disk["logs"] # Torn => Len(disk["logs"][1]) <= LogKeep
    /\ {config, n} \subseteq 0..MaxRequests
    /\ req.saves \in Seq(Files) /\ req.on \subseteq Sensors
    /\ pub \in {Waiting, [at |-> "dead"], [at |-> "sensors"],
               [at |-> "send"]}
               \cup [at : {"rules"}, reading : Sensors]
               \cup Switches("checked")
               \cup [at : {"write"}, reading : Sensors, target : Sensors,
                     want : BOOLEAN]
    /\ sit \in Iterators(Sensors) /\ rit \in Iterators(Rules)
    /\ byRule \subseteq Sensors /\ deleted \subseteq Sensors /\ reseeded \subseteq Sensors
    /\ promised \subseteq Parts /\ disturbed \in BOOLEAN /\ client \in BOOLEAN

(* No file exists before the first startup.                                *)
Init ==
    /\ proc = "down"
    /\ sensors = Empty /\ rules = Empty /\ logs = <<>> /\ config = 0
    /\ disk = [f \in Files |-> CASE f = "logs"   -> << <<>> >>
                                [] f = "config" -> <<0>>
                                [] OTHER        -> <<Empty>>]
    /\ req = NoRequest
    /\ pub = Waiting /\ sit = NoIter /\ rit = NoIter /\ client = TRUE
    /\ n = 0 /\ crashes = 0 /\ failures = 0
    /\ promised = Parts
    /\ byRule = {} /\ deleted = {} /\ reseeded = {} /\ disturbed = FALSE

-----------------------------------------------------------------------------
(* Startup and death.                                                      *)

(* _initial_mqtt_config and load_state read every file; json.load raises   *)
(* on a torn one.                                                          *)
StartupFails ==
    /\ proc = "down"
    /\ \E f \in Files : disk[f] = Torn
    /\ proc' = "refused"
    /\ UNCHANGED <<store, disk, req, loop, bounds, history>>

Load ==
    /\ proc = "down"
    /\ \A f \in Files : disk[f] # Torn
    /\ proc' = "up"
    /\ rules' = disk["rules"][1] /\ logs' = disk["logs"][1]
    /\ config' = disk["config"][1]
    /\ disturbed' = FALSE /\ byRule' = {}
    /\ UNCHANGED <<req, loop, n, crashes>>

(* Mutant: every startup adds the sensors of the topology.                 *)
StartsWithSensors_Tops ==
    /\ Load
    /\ disk["sensors"][1] # Empty
    /\ sensors' = disk["sensors"][1] @@ Seed
    /\ promised' = Parts
    /\ UNCHANGED <<disk, failures, deleted, reseeded>>

StartsWithSensors ==
    /\ Load
    /\ disk["sensors"][1] # Empty
    /\ sensors' = disk["sensors"][1]
    /\ promised' = Parts
    /\ UNCHANGED <<disk, failures, deleted, reseeded>>

(* _autoseed_if_empty: a save that raises is logged and startup goes on.   *)
StartsWithSeed ==
    /\ Load
    /\ disk["sensors"][1] = Empty
    /\ sensors' = Seed
    /\ reseeded' = reseeded \cup (deleted \cap Topology)
    /\ UNCHANGED deleted
    /\ \/ /\ disk' = [disk EXCEPT !["sensors"] = <<Seed>>]
          /\ promised' = Parts
          /\ UNCHANGED failures
       \/ /\ failures < MaxFailures
          /\ failures' = failures + 1
          /\ disk' \in {disk, [disk EXCEPT !["sensors"] = Torn]}
          /\ promised' = {"config"}

Dies ==
    /\ proc = "up"
    /\ crashes < MaxCrashes
    /\ crashes' = crashes + 1
    /\ proc' = "down"
    /\ sensors' = Empty /\ rules' = Empty /\ logs' = <<>> /\ config' = 0
    /\ req' = NoRequest
    /\ pub' = Waiting /\ sit' = NoIter /\ rit' = NoIter /\ client' = TRUE
    /\ UNCHANGED <<disk, n, failures, history>>

-----------------------------------------------------------------------------
(* The handlers' changes of the store.                                     *)

PartOf(kind) == IF kind = "config" THEN "config" ELSE "store"

(* Mutant: _persist saves the sensors only.                                *)
Persisted_SensorsOnly == <<"sensors", "logs">>

Persisted == <<"sensors", "rules", "logs">>  \* _persist(), then _add_log()

Accept(kind, saves, S) ==
    /\ proc = "up"
    /\ req.kind = "none"
    /\ n < MaxRequests
    /\ n' = n + 1
    /\ req' = [kind |-> kind, saves |-> saves, snap |-> <<>>, on |-> S]
    /\ promised' = promised \ {PartOf(kind)}
    /\ UNCHANGED <<proc, disk, pub, client, crashes, failures, byRule, reseeded>>

(* The publish loop's iterator meets an entry added behind it, and skips   *)
(* one that was removed before it came to it.                              *)
Iterating == pub.at \notin {"wait", "dead"}
InRules   == pub.at \in {"rules", "checked", "write"}
Grown(it, active, K)  == IF active THEN [it EXCEPT !.todo = @ \cup K] ELSE it
Shrunk(it, active, K) == IF active THEN [it EXCEPT !.todo = @ \ K] ELSE it

AddSensors(kind, S, v) ==
    /\ Accept(kind, Persisted, {})
    /\ sensors' = [s \in DOMAIN sensors \cup S |->
                     IF s \in DOMAIN sensors THEN sensors[s] ELSE v]
    /\ sit' = Grown(sit, Iterating, S \ DOMAIN sensors)
    /\ deleted' = deleted \ S
    /\ disturbed' = (disturbed \/ ~(S \subseteq DOMAIN sensors))
    /\ UNCHANGED <<rules, logs, config, rit>>

CreateSensor(s, v) == s \notin DOMAIN sensors /\ AddSensors("create", {s}, v)
SeedSensors        == AddSensors("seed", Topology, Fresh)

DeleteSensor(s) ==
    /\ s \in DOMAIN sensors
    /\ Accept("delete", Persisted, {s})
    /\ sensors' = [t \in DOMAIN sensors \ {s} |-> sensors[t]]
    /\ sit' = Shrunk(sit, Iterating, {s})
    /\ disturbed' = TRUE
    /\ UNCHANGED <<rules, logs, config, rit, deleted>>

SetSensors(kind, new) ==
    /\ Accept(kind, Persisted, {})
    /\ sensors' = new
    /\ UNCHANGED <<rules, logs, config, sit, rit, deleted, disturbed>>

UpdateSensor(s, v) == /\ s \in DOMAIN sensors
                      /\ SetSensors("update", [sensors EXCEPT ![s] = v])
ToggleSensor(s) ==
    /\ s \in DOMAIN sensors
    /\ SetSensors("toggle", [sensors EXCEPT ![s].enabled = ~@])
BulkEnable  == SetSensors("bulk", [s \in DOMAIN sensors |->
                                     [sensors[s] EXCEPT !.enabled = TRUE]])
BulkDisable == SetSensors("bulk", [s \in DOMAIN sensors |->
                                     [sensors[s] EXCEPT !.enabled = FALSE]])
BulkReset   == SetSensors("bulk", [s \in DOMAIN sensors |-> Fresh])

SetRules(kind, new) ==
    /\ Accept(kind, Persisted, {})
    /\ rules' = new
    /\ UNCHANGED <<sensors, logs, config, sit, deleted>>

CreateRule(r, v) ==
    /\ r \notin DOMAIN rules
    /\ SetRules("rule", [q \in DOMAIN rules \cup {r} |->
                  IF q = r THEN v ELSE rules[q]])
    /\ rit' = Grown(rit, InRules, {r})
    /\ disturbed' = TRUE

UpdateRule(r, v) ==
    /\ r \in DOMAIN rules
    /\ SetRules("rule", [rules EXCEPT ![r] = v])
    /\ UNCHANGED <<rit, disturbed>>

DeleteRule(r) ==
    /\ r \in DOMAIN rules
    /\ SetRules("rule", [q \in DOMAIN rules \ {r} |-> rules[q]])
    /\ rit' = Shrunk(rit, InRules, {r})
    /\ disturbed' = TRUE

(* PUT of a sensor or of a rule changes the live object field by field;    *)
(* a config, condition or action that does not validate raises when the    *)
(* fields before it are changed already, and nothing is saved.  Of a       *)
(* rule's condition and action the one that comes first may be new.        *)
UpdateRaises ==
    /\ Accept("none", <<>>, {})
    /\ \/ \E s \in DOMAIN sensors, v \in NewSensors :
             /\ sensors' = [sensors EXCEPT ![s] = v]
             /\ UNCHANGED rules
       \/ \E r \in DOMAIN rules, e \in BOOLEAN, b \in Bodies :
             /\ \E mixed \in {[rules[r].body EXCEPT !.on = b.on],
                             [b EXCEPT !.on = rules[r].body.on]} :
                   rules' = [rules EXCEPT ![r] = [enabled |-> e, body |-> mixed]]
             /\ UNCHANGED sensors
    /\ UNCHANGED <<logs, config, sit, rit, deleted, disturbed>>

(* PUT /mqtt/config saves before it reconfigures, and logs nothing.        *)
UpdateConfig ==
    /\ Accept("config", <<"config">>, {})
    /\ UNCHANGED <<store, sit, rit, deleted, disturbed>>

-----------------------------------------------------------------------------
(* The rest of a handler: its saves, and its answer.                       *)

File == Head(req.saves)

(* Mutant: the log is never cut.                                           *)
AddLog_NeverCuts == Append(logs, n)

(* The snapshot is taken and the file truncated.  _add_log appends, and    *)
(* cuts the log's oldest entries, before its save.                         *)
AddLog == LET l == Append(logs, n)
          IN IF Len(l) > LogCap THEN SubSeq(l, LogTrim + 1, Len(l)) ELSE l

OpenFile ==
    /\ req.saves # <<>>
    /\ req.snap = <<>>
    /\ logs' = IF File = "logs" THEN AddLog ELSE logs
    /\ req' = [req EXCEPT !.snap = <<Content(File, logs')>>]
    /\ disk' = [disk EXCEPT ![File] = Torn]
    /\ byRule' = IF File = "sensors" THEN {} ELSE byRule
    /\ UNCHANGED <<proc, sensors, rules, config, loop, bounds,
                   promised, deleted, reseeded, disturbed>>

DumpFile ==
    /\ req.saves # <<>>
    /\ req.snap # <<>>
    /\ disk' = [disk EXCEPT ![File] = req.snap]
    /\ req' = [req EXCEPT !.saves = Tail(@), !.snap = <<>>]
    /\ UNCHANGED <<proc, store, loop, bounds, history>>

(* Mutant: a save that raises is logged, and the next one is made.         *)
SaveRaises_Logged ==
    /\ req.saves # <<>>
    /\ failures < MaxFailures
    /\ failures' = failures + 1
    /\ logs' = IF File = "logs" /\ req.snap = <<>> THEN AddLog ELSE logs
    /\ req' = [req EXCEPT !.saves = Tail(@), !.snap = <<>>]
    /\ UNCHANGED <<proc, sensors, rules, config, disk, loop, n, crashes, history>>

(* open raises and the file stays, or json.dump does and it stays torn;    *)
(* the client gets an error 500 and the store keeps the change.            *)
SaveRaises ==
    /\ req.saves # <<>>
    /\ failures < MaxFailures
    /\ failures' = failures + 1
    /\ logs' = IF File = "logs" /\ req.snap = <<>> THEN AddLog ELSE logs
    /\ req' = NoRequest
    /\ UNCHANGED <<proc, sensors, rules, config, disk, loop, n, crashes, history>>

(* The answer; to a new MQTT configuration, after reconfigure() has put it *)
(* in force and dropped the client.                                        *)
Answer ==
    /\ proc = "up"
    /\ req.kind # "none"
    /\ req.saves = <<>>
    /\ req' = NoRequest
    /\ promised' = promised \cup {PartOf(req.kind)}
    /\ config' = IF req.kind = "config" THEN n ELSE config
    /\ deleted' = deleted \cup req.on /\ reseeded' = reseeded \ req.on
    /\ client' = (client /\ req.kind # "config")
    /\ disturbed' = (disturbed \/ req.kind = "config")
    /\ UNCHANGED <<proc, sensors, rules, logs, disk, pub, sit, rit, bounds, byRule>>

(* The thread reconfigure() started builds the new client; SimControlMqtt  *)
(* has the order of these threads.                                         *)
Reconnects ==
    /\ proc = "up"
    /\ ~client
    /\ client' = TRUE
    /\ UNCHANGED <<proc, store, disk, req, pub, sit, rit, bounds, history>>

-----------------------------------------------------------------------------
(* The publish loop.  An exception ends its thread and nothing else.       *)

InLoop(at) == /\ proc = "up"
              /\ pub.at = at
              /\ UNCHANGED <<proc, rules, logs, config, disk, req, client, bounds,
                             promised, deleted, reseeded, disturbed>>

ThreadEnds == /\ pub' = [at |-> "dead"]
              /\ sit' = NoIter /\ rit' = NoIter
              /\ UNCHANGED <<sensors, byRule>>

(* What makes an iterator raise: the dictionary changed size, or yields    *)
(* more entries than it had.                                               *)
Raises(it, d) == \/ it.size # Cardinality(DOMAIN d)
                 \/ it.todo # {} /\ it.left = 0
Rest(it, k) == [it EXCEPT !.todo = @ \ {k}, !.left = @ - 1]

BeginPass ==
    /\ InLoop("wait")
    /\ pub' = [at |-> "sensors"]
    /\ sit' = IteratorOver(sensors)
    /\ UNCHANGED <<sensors, rit, byRule>>

(* generate_reading returns nothing for a disabled sensor.                 *)
NextSensor ==
    /\ InLoop("sensors")
    /\ \/ Raises(sit, sensors) /\ ThreadEnds
       \/ /\ ~Raises(sit, sensors)
          /\ sit.todo = {}
          /\ pub' = Waiting /\ sit' = NoIter
          /\ UNCHANGED <<sensors, rit, byRule>>
       \/ /\ ~Raises(sit, sensors)
          /\ \E s \in sit.todo :
                /\ sit' = Rest(sit, s)
                /\ IF sensors[s].enabled
                   THEN /\ pub' = [at |-> "rules", reading |-> s]
                        /\ rit' = IteratorOver(rules)
                   ELSE UNCHANGED <<pub, rit>>
          /\ UNCHANGED <<sensors, byRule>>

(* Mutant: the target is not looked for.                                   *)
Applies_AnyTarget(r) == rules[r].enabled /\ rules[r].body.on = pub.reading

(* _apply_rules: whether the reading meets the threshold is left open.     *)
Applies(r) == /\ rules[r].enabled
              /\ rules[r].body.on = pub.reading
              /\ rules[r].body.target \in DOMAIN sensors

(* The loop over the rules, then the first half of mqtt.publish: without a *)
(* connection or a client the reading is dropped.                          *)
NextRule ==
    /\ InLoop("rules")
    /\ \/ Raises(rit, rules) /\ ThreadEnds
       \/ /\ ~Raises(rit, rules)
          /\ rit.todo = {}
          /\ \/ pub' = [at |-> "sensors"]
             \/ client /\ pub' = [at |-> "send"]
          /\ rit' = NoIter
          /\ UNCHANGED <<sensors, sit, byRule>>
       \/ /\ ~Raises(rit, rules)
          /\ \E r \in rit.todo :
                /\ rit' = Rest(rit, r)
                /\ \/ UNCHANGED pub
                   \/ /\ Applies(r)
                      /\ pub' = [at |-> "checked", reading |-> pub.reading,
                                 target |-> rules[r].body.target,
                                 enable |-> rules[r].body.enable]
          /\ UNCHANGED <<sensors, sit, byRule>>

(* action.enable, or the negation of what the target has now.              *)
RuleReads ==
    /\ InLoop("checked")
    /\ \/ /\ pub.enable = "flip" /\ pub.target \notin DOMAIN sensors
          /\ ThreadEnds
       \/ /\ pub.enable = "flip" => pub.target \in DOMAIN sensors
          /\ pub' = [at |-> "write", reading |-> pub.reading, target |-> pub.target,
                     want |-> IF pub.enable = "flip"
                              THEN ~sensors[pub.target].enabled
                              ELSE pub.enable = "on"]
          /\ UNCHANGED <<sensors, sit, rit, byRule>>

RuleWrites ==
    /\ InLoop("write")
    /\ \/ pub.target \notin DOMAIN sensors /\ ThreadEnds
       \/ /\ pub.target \in DOMAIN sensors
          /\ sensors' = [sensors EXCEPT ![pub.target].enabled = pub.want]
          /\ byRule' = byRule \cup {pub.target}
          /\ pub' = [at |-> "rules", reading |-> pub.reading]
          /\ UNCHANGED <<sit, rit>>

(* The second half of publish(): _client is read again, and may be None.   *)
Sends ==
    /\ InLoop("send")
    /\ \/ ~client /\ ThreadEnds
       \/ /\ client
          /\ pub' = [at |-> "sensors"]
          /\ UNCHANGED <<sensors, sit, rit, byRule>>

-----------------------------------------------------------------------------

Requests ==
    \/ \E s \in Sensors :
          \/ DeleteSensor(s) \/ ToggleSensor(s)
          \/ \E v \in NewSensors : CreateSensor(s, v) \/ UpdateSensor(s, v)
    \/ SeedSensors \/ BulkEnable \/ BulkDisable \/ BulkReset
    \/ \E r \in Rules :
          \/ DeleteRule(r)
          \/ \E v \in Rule : CreateRule(r, v) \/ UpdateRule(r, v)
    \/ UpdateRaises \/ UpdateConfig

Handler     == OpenFile \/ DumpFile \/ SaveRaises \/ Answer
PublishLoop == \/ BeginPass \/ NextSensor \/ NextRule \/ RuleReads \/ RuleWrites
               \/ Sends

Next == \/ StartupFails \/ StartsWithSensors \/ StartsWithSeed \/ Dies
        \/ Requests \/ Handler \/ Reconnects \/ PublishLoop

Spec == Init /\ [][Next]_vars

-----------------------------------------------------------------------------

(* What was answered is on disk: while no request is in hand and the last  *)
(* one on the store (or on the configuration) succeeded, its files hold    *)
(* what memory does, but for the sensors a rule switched since they were   *)
(* saved.  So a crash at such a moment loses no answered change, and the   *)
(* next startup finds no torn file.                                        *)
AnsweredIsDurable ==
    proc = "up" /\ req = NoRequest =>
      /\ "config" \in promised => disk["config"] = <<config>>
      /\ "store" \in promised =>
           /\ disk["rules"] = <<rules>>
           /\ disk["logs"] = <<Newest(logs)>>
           /\ disk["sensors"] # Torn
           /\ LET saved == disk["sensors"][1]
              IN /\ DOMAIN saved = DOMAIN sensors
                 /\ \A s \in DOMAIN sensors :
                       \/ saved[s] = sensors[s]
                       \/ s \in byRule /\ saved[s].mode = sensors[s].mode

(* A sensor whose deletion was answered is back only by a request that     *)
(* adds it, or by the seed of a startup that found no sensor at all, which *)
(* cannot tell an emptied store from a new one (main.py 117-130); never by *)
(* a death, an older file or a save that failed.                           *)
DeletedStaysDeleted == deleted \cap DOMAIN sensors \subseteq reseeded

(* A process whose requests never added or removed a sensor or a rule nor  *)
(* replaced the MQTT client keeps its publish loop: no rule raises by      *)
(* itself, even one on a sensor deleted before a restart, and a reading    *)
(* that passes publish()'s test is sent (main.py 67-112).                  *)
QuietPublisherLives == pub.at = "dead" => disturbed

(* A client sees the configuration of the request in hand before its       *)
(* answer puts it in force, and of the log what a save keeps.              *)
Told == IF req.kind = "config" THEN n ELSE config

Durable == INSTANCE DurableStore WITH
    NoSensors <- Empty,
    logs <- Newest(logs),
    config <- Told,
    saved <- disk,
    switched <- byRule

(* Handlers, saves, failures, deaths and the publish loop's rules do to a  *)
(* promised part only what DurableStore allows (router.py 33-256,          *)
(* persistence.py 19-80, main.py 67-142).                                  *)
ImplementsDurable == Durable!Spec

=============================================================================

------------------------------ MODULE Simulator -------------------------------
(***************************************************************************)
(* services/simulator: the tick loop, the control requests and MQTT.       *)
(*                                                                         *)
(* main_loop runs in a thread of its own, the request handlers on          *)
(* uvicorn's event loop, and paho's callbacks on a third thread.  They     *)
(* share simulator_state without a lock: a single dictionary or set        *)
(* operation is atomic, a loop over the overrides is not, and Python       *)
(* raises when a dictionary changes size under an iterator, which ends     *)
(* main_loop's thread for good.                                            *)
(*                                                                         *)
(* A tick reads the occupancy sensors first, then reads and publishes all  *)
(* of them, then lets the overrides age.  Within one pass the order of the *)
(* sensors is left open, and a sensor's turn is one step: the requests it  *)
(* could interleave with commute with its parts as far as ticks go.        *)
(*                                                                         *)
(* POST /override/clear-all is no action: the route of                     *)
(* /override/{building_id}, declared before it, matches first and rejects  *)
(* the request.                                                            *)
(***************************************************************************)
EXTENDS Integers, FiniteSets

CONSTANTS Buildings,
          Sensors,      \* the deployed sensors, <<building, type>>
          ANOMALY_INJECTION_ENABLED,
          OverrideTypes,  \* bound: the sets of types an override has values for
          MaxTicks,     \* bound: duration_ticks of an override
          MaxRequests   \* bound: control requests that change something

Types == {"occupancy", "temperature"}

ASSUME SimulatorAssumption ==
    /\ Sensors \subseteq Buildings \X Types
    /\ ANOMALY_INJECTION_ENABLED \in BOOLEAN
    /\ OverrideTypes \subseteq SUBSET Types
    /\ MaxTicks \in Nat \ {0}
    /\ MaxRequests \in Nat

VARIABLES
    running,     \* simulator_state["running"]
    overrides,   \* simulator_state["overrides"]
    disabled,    \* simulator_state["disabled_sensors"]
    offline,     \* [Sensors -> BOOLEAN]: the sensors' failure state
    connected,   \* the publisher's _connected
    pc,          \* where main_loop is
    todo,        \* sensors the present pass has not come to
    occ,         \* occ_published: values read in the first pass
    iter,        \* the iterator over the overrides: its size, entries seen
    expired,     \* buildings the scan found expired
    sent,        \* [Sensors -> the value published in this tick] (history)
    before,      \* ids of the overrides in force when the tick began (history)
    requests,    \* requests so far; numbers the overrides (history)
    moved        \* a request has added or removed an override since the
                 \* overrides last began to age (history)

control == <<running, overrides, disabled>>
ticking == <<pc, todo, occ, iter, expired>>
history == <<sent, before, requests, moved>>
vars == <<control, offline, connected, ticking, history>>

(* An override: the request that set it, the entry of the dictionary it    *)
(* occupies (replacing a value keeps the entry), the sensor types it has a *)
(* value for, its duration, ticks_remaining, and, as history, the ticks    *)
(* that ended since it was set and whether it was set while overrides were *)
(* ageing.                                                                 *)
Override == [id : 1..MaxRequests, entry : 1..MaxRequests, types : OverrideTypes,
             duration : 1..MaxTicks, ticks_remaining : 0..MaxTicks,
             age : 0..MaxTicks + 1, late : BOOLEAN]

(* A reading's value: the sensor's own, an override's, or the anomaly      *)
(* injector's.                                                             *)
Sampled     == <<"sampled">>
Anomalous   == <<"anomalous">>
Overridden(id) == <<"override", id>>
Values == {Sampled, Anomalous} \cup {Overridden(id) : id \in 1..MaxRequests}
None   == <<>>

Ageing == {"scan", "delete", "decrement"}
Pcs    == {"top", "occupancy", "publish", "dead"} \cup Ageing

TypeOK ==
    /\ running \in BOOLEAN
    /\ DOMAIN overrides \subseteq Buildings
    /\ \A b \in DOMAIN overrides : overrides[b] \in Override
    /\ disabled \subseteq Sensors
    /\ offline \in [Sensors -> BOOLEAN]
    /\ connected \in BOOLEAN
    /\ pc \in Pcs
    /\ todo \subseteq Sensors
    /\ occ \in [Sensors -> Values \cup {None}]
    /\ iter \in [size : Nat, seen : SUBSET (1..MaxRequests)]
    /\ expired \subseteq Buildings
    /\ sent \in [Sensors -> Values \cup {None}]
    /\ before \subseteq 1..MaxRequests
    /\ requests \in 0..MaxRequests
    /\ moved \in BOOLEAN

Nothing  == [s \in Sensors |-> None]
InForce  == {overrides[b].id : b \in DOMAIN overrides}
Iterator == [size |-> Cardinality(DOMAIN overrides), seen |-> {}]

(* MQTTPublisher.connect() has returned, so the client is connected.       *)
Init ==
    /\ running = TRUE
    /\ overrides = [b \in {} |-> None]
    /\ disabled = {}
    /\ offline = [s \in Sensors |-> FALSE]
    /\ connected = TRUE
    /\ pc = "top" /\ todo = {} /\ occ = Nothing
    /\ iter = Iterator /\ expired = {}
    /\ sent = Nothing /\ before = {} /\ requests = 0
    /\ moved = FALSE

-----------------------------------------------------------------------------
(* Requests, one at a time on the event loop.                              *)

Request ==
    /\ requests < MaxRequests
    /\ requests' = requests + 1
    /\ UNCHANGED <<offline, connected, ticking, sent, before>>

(* The request changes the size of the dictionary if resizes holds.        *)
Resizes(resizes) == moved' = (moved \/ (pc \in Ageing /\ resizes))

ToggleSim ==
    /\ Request
    /\ running' = ~running
    /\ UNCHANGED <<overrides, disabled, moved>>

(* Mutant: the duration is taken one too short, down to zero.              *)
SetOverride_NoFloor(b, types, n) ==
    /\ Request
    /\ overrides' =
          [c \in DOMAIN overrides \cup {b} |->
              IF c # b THEN overrides[c]
              ELSE [id |-> requests', types |-> types, duration |-> n - 1,
                    entry |-> IF b \in DOMAIN overrides THEN overrides[b].entry
                              ELSE requests',
                    ticks_remaining |-> n - 1, age |-> 0,
                    late |-> pc \in Ageing]]
    /\ Resizes(b \notin DOMAIN overrides)
    /\ UNCHANGED <<running, disabled>>

(* Mutant: a new override of a building keeps the old one's ticks.         *)
SetOverride_KeepsTicks(b, types, n) ==
    /\ Request
    /\ overrides' =
          [c \in DOMAIN overrides \cup {b} |->
              IF c # b THEN overrides[c]
              ELSE [id |-> requests', types |-> types, duration |-> n,
                    entry |-> IF b \in DOMAIN overrides THEN overrides[b].entry
                              ELSE requests',
                    ticks_remaining |-> IF b \in DOMAIN overrides
                                        THEN overrides[b].ticks_remaining ELSE n,
                    age |-> 0, late |-> pc \in Ageing]]
    /\ Resizes(b \notin DOMAIN overrides)
    /\ UNCHANGED <<running, disabled>>

(* A duration below one tick is raised to one.                             *)
SetOverride(b, types, n) ==
    /\ Request
    /\ overrides' =
          [c \in DOMAIN overrides \cup {b} |->
              IF c # b THEN overrides[c]
              ELSE [id |-> requests', types |-> types, duration |-> n,
                    entry |-> IF b \in DOMAIN overrides THEN overrides[b].entry
                              ELSE requests',
                    ticks_remaining |-> n, age |-> 0, late |-> pc \in Ageing]]
    /\ Resizes(b \notin DOMAIN overrides)
    /\ UNCHANGED <<running, disabled>>

Without(b) == [c \in DOMAIN overrides \ {b} |-> overrides[c]]

ClearOverride(b) ==
    /\ Request
    /\ b \in DOMAIN overrides
    /\ overrides' = Without(b)
    /\ Resizes(TRUE)
    /\ UNCHANGED <<running, disabled>>

EnableSensor(s) ==
    /\ Request
    /\ s \in disabled
    /\ disabled' = disabled \ {s}
    /\ UNCHANGED <<running, overrides, moved>>

DisableSensor(s) ==
    /\ Request
    /\ s \notin disabled
    /\ disabled' = disabled \cup {s}
    /\ UNCHANGED <<running, overrides, moved>>

-----------------------------------------------------------------------------
(* paho's callbacks.                                                       *)

OnConnect ==
    /\ ~connected
    /\ connected' = TRUE
    /\ UNCHANGED <<control, offline, ticking, history>>

OnDisconnect ==
    /\ connected
    /\ connected' = FALSE
    /\ UNCHANGED <<control, offline, ticking, history>>

-----------------------------------------------------------------------------
(* main_loop.                                                              *)

(* Mutant: a tick waits for the broker.                                     *)
BeginTick_WhenConnected ==
    /\ pc = "top" /\ connected
    /\ running
    /\ pc' = "occupancy"
    /\ todo' = {s \in Sensors : s[2] = "occupancy"}
    /\ occ' = Nothing
    /\ before' = InForce
    /\ UNCHANGED <<control, offline, connected, iter, expired, sent, requests,
                   moved>>

(* The top of the loop: a paused simulator sleeps and looks again.         *)
BeginTick ==
    /\ pc = "top"
    /\ running
    /\ pc' = "occupancy"
    /\ todo' = {s \in Sensors : s[2] = "occupancy"}
    /\ occ' = Nothing
    /\ before' = InForce
    /\ UNCHANGED <<control, offline, connected, iter, expired, sent, requests,
                   moved>>

(* BaseSensor.read: a sensor may fail, and a failed one may recover; it    *)
(* has a reading only if it is not offline afterwards.                     *)
Read(s, works) == offline' = [offline EXCEPT ![s] = ~works]

(* _apply_override, of a value for sensor s.                               *)
ApplyOverride(s, v) ==
    IF /\ s[1] \in DOMAIN overrides
       /\ overrides[s[1]].ticks_remaining > 0
       /\ s[2] \in overrides[s[1]].types
    THEN Overridden(overrides[s[1]].id) ELSE v

(* inject_if_enabled.                                                      *)
Injected(v) == {v} \cup (IF ANOMALY_INJECTION_ENABLED THEN {Anomalous} ELSE {})

Turn(s) ==
    /\ todo' = todo \ {s}
    /\ UNCHANGED <<control, connected, pc, iter, expired, before, requests,
                   moved>>

(* First pass, sensor s.                                                   *)
SkipOccupancy(s) ==
    /\ pc = "occupancy" /\ s \in todo
    /\ s \in disabled
    /\ Turn(s)
    /\ UNCHANGED <<offline, occ, sent>>

ReadOccupancy(s, works) ==
    /\ pc = "occupancy" /\ s \in todo
    /\ s \notin disabled
    /\ Turn(s)
    /\ Read(s, works)
    /\ occ' = [occ EXCEPT ![s] =
                  IF works THEN ApplyOverride(s, Sampled) ELSE None]
    /\ UNCHANGED sent

EndOccupancy ==
    /\ pc = "occupancy" /\ todo = {}
    /\ pc' = "publish"
    /\ todo' = Sensors
    /\ UNCHANGED <<control, offline, connected, occ, iter, expired, history>>

(* MQTTPublisher.publish drops the reading without a connection.           *)
Publish(s, v) ==
    \E w \in Injected(ApplyOverride(s, v)) :
        sent' = IF connected THEN [sent EXCEPT ![s] = w] ELSE sent

(* Second pass, sensor s: disabled; published as read in the first pass;   *)
(* or read now, which for an occupancy sensor that had no reading in the   *)
(* first pass is the second time in this tick.                             *)
SkipSensor(s) ==
    /\ pc = "publish" /\ s \in todo
    /\ s \in disabled
    /\ Turn(s)
    /\ UNCHANGED <<offline, occ, sent>>

PublishOccupancy(s) ==
    /\ pc = "publish" /\ s \in todo
    /\ s \notin disabled /\ occ[s] # None
    /\ Turn(s)
    /\ Publish(s, occ[s])
    /\ UNCHANGED <<offline, occ>>

(* Mutant: only the first pass applies the overrides.                      *)
ReadAndPublish_NoOverride(s, works) ==
    /\ pc = "publish" /\ s \in todo
    /\ s \notin disabled /\ occ[s] = None
    /\ Turn(s)
    /\ Read(s, works)
    /\ sent' = IF works /\ connected THEN [sent EXCEPT ![s] = Sampled] ELSE sent
    /\ UNCHANGED occ

ReadAndPublish(s, works) ==
    /\ pc = "publish" /\ s \in todo
    /\ s \notin disabled /\ occ[s] = None
    /\ Turn(s)
    /\ Read(s, works)
    /\ IF works THEN Publish(s, Sampled) ELSE UNCHANGED sent
    /\ UNCHANGED occ

-----------------------------------------------------------------------------
(* The overrides age.                                                      *)

StartScan ==
    /\ pc = "publish" /\ todo = {}
    /\ pc' = "scan"
    /\ iter' = Iterator
    /\ expired' = {}
    /\ sent' = Nothing
    /\ moved' = FALSE
    /\ UNCHANGED <<control, offline, connected, todo, occ, before, requests>>

Unseen == {b \in DOMAIN overrides : overrides[b].entry \notin iter.seen}

(* The iterator's next() raises if the dictionary has another size than    *)
(* when the loop began, or an entry more than it should.                   *)
Raises == \/ Cardinality(DOMAIN overrides) # iter.size
          \/ Cardinality(iter.seen) = iter.size /\ Unseen # {}

See(b) == iter' = [iter EXCEPT !.seen = @ \cup {overrides[b].entry}]

IteratorRaises ==
    /\ pc \in {"scan", "decrement"}
    /\ Raises
    /\ pc' = "dead"
    /\ UNCHANGED <<control, offline, connected, todo, occ, iter, expired,
                   history>>

(* Mutant: looks for overrides in their last tick but one.                 *)
Scan_OffByOne(b) ==
    /\ pc = "scan" /\ ~Raises /\ b \in Unseen
    /\ See(b)
    /\ expired' = IF overrides[b].ticks_remaining <= 2
                  THEN expired \cup {b} ELSE expired
    /\ UNCHANGED <<control, offline, connected, pc, todo, occ, history>>

(* Mutant: the loop deletes the expired overrides as it finds them.        *)
Scan_Deletes(b) ==
    /\ pc = "scan" /\ ~Raises /\ b \in Unseen
    /\ See(b)
    /\ overrides' = IF overrides[b].ticks_remaining <= 1
                    THEN Without(b) ELSE overrides
    /\ UNCHANGED <<running, disabled, offline, connected, pc, todo, occ,
                   expired, history>>

Scan(b) ==
    /\ pc = "scan" /\ ~Raises /\ b \in Unseen
    /\ See(b)
    /\ expired' = IF overrides[b].ticks_remaining <= 1
                  THEN expired \cup {b} ELSE expired
    /\ UNCHANGED <<control, offline, connected, pc, todo, occ, history>>

EndScan ==
    /\ pc = "scan" /\ ~Raises /\ Unseen = {}
    /\ pc' = "delete"
    /\ UNCHANGED <<control, offline, connected, todo, occ, iter, expired,
                   history>>

(* del of whatever override the building has by now.                       *)
DeleteExpired(b) ==
    /\ pc = "delete" /\ b \in expired
    /\ b \in DOMAIN overrides
    /\ overrides' = Without(b)
    /\ expired' = expired \ {b}
    /\ UNCHANGED <<running, disabled, offline, connected, pc, todo, occ, iter,
                   history>>

(* del raises KeyError: a request has cleared the override since the scan. *)
DeleteRaises(b) ==
    /\ pc = "delete" /\ b \in expired
    /\ b \notin DOMAIN overrides
    /\ pc' = "dead"
    /\ UNCHANGED <<control, offline, connected, todo, occ, iter, expired,
                   history>>

StartDecrement ==
    /\ pc = "delete" /\ expired = {}
    /\ pc' = "decrement"
    /\ iter' = Iterator
    /\ UNCHANGED <<control, offline, connected, todo, occ, expired, history>>

Decrement(b) ==
    /\ pc = "decrement" /\ ~Raises /\ b \in Unseen
    /\ See(b)
    /\ overrides' = [overrides EXCEPT ![b].ticks_remaining =
                        IF @ > 0 THEN @ - 1 ELSE 0]
    /\ UNCHANGED <<running, disabled, offline, connected, pc, todo, occ,
                   expired, history>>

(* The tick ends; what follows is a heartbeat line and the sleep.  An age  *)
(* beyond any duration is not told from the next one.                      *)
EndDecrement ==
    /\ pc = "decrement" /\ ~Raises /\ Unseen = {}
    /\ pc' = "top"
    /\ overrides' = [b \in DOMAIN overrides |->
                        [overrides[b] EXCEPT !.age = IF @ > MaxTicks THEN @ ELSE @ + 1]]
    /\ UNCHANGED <<running, disabled, offline, connected, todo, occ, iter,
                   expired, history>>

-----------------------------------------------------------------------------

HandleRequest ==
    \/ ToggleSim
    \/ \E b \in Buildings, types \in OverrideTypes, n \in 1..MaxTicks :
          SetOverride(b, types, n)
    \/ \E b \in Buildings : ClearOverride(b)
    \/ \E s \in Sensors : EnableSensor(s) \/ DisableSensor(s)

Pass(s) ==
    \/ SkipOccupancy(s) \/ SkipSensor(s) \/ PublishOccupancy(s)
    \/ \E works \in BOOLEAN : ReadOccupancy(s, works) \/ ReadAndPublish(s, works)

Age(b) == Scan(b) \/ DeleteExpired(b) \/ DeleteRaises(b) \/ Decrement(b)

Loop ==
    \/ BeginTick \/ EndOccupancy \/ (\E s \in Sensors : Pass(s))
    \/ StartScan \/ IteratorRaises \/ EndScan \/ StartDecrement \/ EndDecrement
    \/ (\E b \in Buildings : Age(b))

Next == HandleRequest \/ OnConnect \/ OnDisconnect \/ Loop

Spec == Init /\ [][Next]_vars

(* The thread of main_loop runs.                                           *)
Fairness == WF_vars(Loop)
FairSpec == Spec /\ Fairness

-----------------------------------------------------------------------------
(* Properties.                                                             *)

Quiet == pc \in {"top", "occupancy", "publish"}

(* An override that is in force since before the tick governs every        *)
(* reading the tick publishes for its building and types, however many     *)
(* times the reading was passed through _apply_override (main.py 100-107,  *)
(* 153-175).                                                               *)
OverrideHonoured ==
    pc = "publish" =>
        \A s \in Sensors :
            (/\ s[1] \in DOMAIN overrides
             /\ overrides[s[1]].id \in before
             /\ overrides[s[1]].ticks_remaining > 0
             /\ s[2] \in overrides[s[1]].types)
            => sent[s] \in {None, Anomalous, Overridden(overrides[s[1]].id)}

(* While the loop is not ageing the overrides, the ticks an override has   *)
(* left and the ticks that have ended since add up to its duration; one    *)
(* set while they aged may have one tick more (main.py 177-183).           *)
TicksAddUp ==
    Quiet =>
        \A b \in DOMAIN overrides :
            LET ov == overrides[b]
                spare == ov.ticks_remaining + ov.age - ov.duration
            IN  IF ov.late THEN spare \in {0, 1} ELSE spare = 0

(* The thread of the loop ends only in a tick in which a request added or  *)
(* removed an override while the overrides aged: the loop's own deletions  *)
(* and a request that replaces an override never end it, and nor does what *)
(* a request did before the ageing began (main.py 178-183).                *)
LoopLives == pc = "dead" => moved

(* The loop ends an override early only if a request replaced an expired   *)
(* one between the scan and the deletion (main.py 178-181).                *)
EndsEarlyOnlyIfReplaced ==
    [][\A b \in DOMAIN overrides \ DOMAIN overrides' :
          requests' = requests /\ overrides[b].ticks_remaining > 1
              => overrides[b].late /\ overrides[b].age = 0]_vars

(* While the loop is alive and not paused, every override ends: each tick  *)
(* takes one from every override (main.py 142-144, 177-183).               *)
OverrideEnds ==
    \A b \in Buildings :
        (b \in DOMAIN overrides)
            ~> (b \notin DOMAIN overrides \/ pc = "dead" \/ ~running)
=============================================================================

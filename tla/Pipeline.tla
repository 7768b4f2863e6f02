------------------------------ MODULE Pipeline -----------------------------
(***************************************************************************)
(* A reading's way from sim-control to its alarms: sensor_engine.py makes  *)
(* it, a rule of main.py may replace its value, the bridge of the          *)
(* Kubernetes deployment (deployment/k8s/bridge.yaml) forwards it as it    *)
(* is, and ml-consumer checks it (AnomalyDetector) and records its alarms. *)
(*                                                                         *)
(* Readings are integers.  Kafka keeps them in their order; the consumer   *)
(* takes one after the other and loses its windows when it restarts.  What *)
(* auto-commit loses or repeats is MlConsumer's subject, which sensors are *)
(* enabled SimControlStore's: here a sensor makes a reading at any time or *)
(* none.                                                                   *)
(***************************************************************************)
EXTENDS AnomalyDetector, FiniteSetsExt

CONSTANTS
    Type, Room,      \* type and room of each sensor
    Configs,         \* configurations: a range [min, max] and a pattern
    RuleValues,      \* values that set_value rules on a sensor give its reading
    ANOMALY_WINDOW,  \* _ANOMALY_WINDOW
    MaxReadings,     \* bound: readings
    MaxLag,          \* bound: readings the consumer is behind
    MaxDisturbances  \* bound: configurations changed and restarts

Modes == {"normal", "random", "pattern", "anomaly"}

Width(c) == c.max - c.min
Ends(c) == c.min + c.max

\* A configuration is whatever a client sent: a range may be narrow, empty or
\* upside down, a pattern empty.  The code's window is of 6 readings.
ASSUME PipelineAssumption ==
    /\ Type \in [Sensors -> Types] /\ Room \in [Sensors -> RoomIds]
    /\ ANOMALY_WINDOW \in 1..6
    /\ Configs \subseteq [min : Int, max : Int, pattern : Seq(Int)]
    /\ RuleValues \in [Sensors -> SUBSET Int]

VARIABLES
    sensor,   \* the mode and configuration of each sensor
    history,  \* _history: its last readings
    next,     \* _pattern_indices
    flag,     \* _anomaly_flags
    calm,     \* history: normal readings since its configuration changed
    log,      \* Kafka: the readings
    position, \* the consumer's position
    start,    \* where the consumer's windows began
    detector, \* the consumer's windows
    raised,   \* the rules of the anomalies recorded for its last reading
    disturbances

engine == <<sensor, history, next, flag, calm>>
consumer == <<position, start, detector, raised>>
pipelineVars == <<engine, log, consumer, disturbances>>

PipelineInit ==
    /\ \E c \in Configs : sensor = [s \in Sensors |-> [mode |-> "normal", config |-> c]]
    /\ history = [s \in Sensors |-> <<>>]
    /\ next = [s \in Sensors |-> 0]
    /\ flag = [s \in Sensors |-> FALSE]
    /\ calm = [s \in Sensors |-> 0]
    /\ log = <<>> /\ position = 0 /\ start = 0 /\ detector = NewDetector
    /\ raised = {} /\ disturbances = 0

-----------------------------------------------------------------------------
(* sim-control: the sensor engine *)

Clamped(v, c) == Min({Max({v, c.min}), c.max})

Magnitude(w) == IF w < 0 THEN -w ELSE w

\* The integers v with n * v at most b away from a.
Near(a, b, n) == -((b - a) \div n) .. (a + b) \div n

\* The middle of the range, rounded either way (_normal).
Middles(c) == Near(Ends(c), 1, 2)

\* The walk of mode NORMAL (_normal_for) from half of `twice': 2 % of the range,
\* a pull of 5 % to its middle and noise of 0.5 %, taken to end at three
\* deviations; and the rounding to an integer.
Walk(twice, c) == Near(19 * twice + Ends(c), (7 * Magnitude(Width(c)) + 100) \div 5, 40)

\* _random and _pattern: jitter of 2 % of the range, the middle without a pattern.
Between(c) == Min({c.min, c.max}) .. Max({c.min, c.max})
Patterned(c, i) ==
    IF c.pattern = <<>> THEN Middles(c)
    ELSE Near(100 * c.pattern[(i % Len(c.pattern)) + 1], 2 * Magnitude(Width(c)) + 50, 100)

\* _anomaly: the middle, or 2, -1.5 or 3 ranges from the maximum.
Anomalous(c) ==
    Middles(c) \cup {c.max + v : v \in {2 * Width(c), 3 * Width(c)} \cup Near(-3 * Width(c), 1, 2)}

\* Readings of a mode, clamped to the range unless the mode is ANOMALY.
Values(s) ==
    LET c == sensor[s].config
        h == history[s]
        Own == CASE sensor[s].mode = "normal"  -> Walk(IF h = <<>> THEN Ends(c) ELSE 2 * h[Len(h)], c)
                 [] sensor[s].mode = "random"  -> Between(c)
                 [] sensor[s].mode = "pattern" -> Patterned(c, next[s])
                 [] sensor[s].mode = "anomaly" -> Anomalous(c)
    IN IF sensor[s].mode = "anomaly" THEN Own ELSE {Clamped(v, c) : v \in Own}

\* Occupancies are not negative.
Physical(s, v) == IF Type[s] = "occupancy" THEN Max({0, v}) ELSE v

\* Mutant: the first readings of the history, not the last.
OscillatesFirst(h, c) ==
    /\ Len(h) >= ANOMALY_WINDOW /\ Width(c) > 0
    /\ 10000 * Spread(SubSeq(h, 1, ANOMALY_WINDOW)) >
         324 * ANOMALY_WINDOW * ANOMALY_WINDOW * Width(c) * Width(c)

\* _detect_oscillation: a population's deviation over 18 % of a range that is
\* not empty.
Oscillates(h, c) ==
    /\ Len(h) >= ANOMALY_WINDOW /\ Width(c) > 0
    /\ 10000 * Spread(Recent(h, ANOMALY_WINDOW)) >
         324 * ANOMALY_WINDOW * ANOMALY_WINDOW * Width(c) * Width(c)

\* PUT of a sensor: its history stays.
Update(s) ==
    /\ disturbances < MaxDisturbances
    /\ \E m \in Modes, c \in Configs :
         /\ sensor[s] # [mode |-> m, config |-> c]
         /\ sensor' = [sensor EXCEPT ![s] = [mode |-> m, config |-> c]]
    /\ calm' = [calm EXCEPT ![s] = 0]
    /\ disturbances' = disturbances + 1
    /\ UNCHANGED <<history, next, flag, log, consumer>>

\* _apply_rules: a rule's value replaces the reading's, not the engine's, and
\* leaves its flag alone.
Sent(s, own) == {own} \cup RuleValues[s]

\* generate_reading, the rules and the publication.
Publish(s) ==
    /\ Len(log) < MaxReadings /\ Len(log) - position < MaxLag
    /\ \E v \in Values(s) :
         LET own == Physical(s, v)
             h == Append(history[s], own)
             f == Oscillates(h, sensor[s].config) \/ sensor[s].mode = "anomaly"
         IN /\ history' = [history EXCEPT ![s] = h]
            /\ flag' = [flag EXCEPT ![s] = f]
            /\ \E sent \in Sent(s, own) :
                 log' = Append(log, [sensor |-> s, room |-> Room[s], type |-> Type[s],
                                     value |-> sent, anomaly |-> f])
    /\ next' = IF sensor[s].mode = "pattern" /\ sensor[s].config.pattern # <<>>
               THEN [next EXCEPT ![s] = (@ + 1) % Len(sensor[s].config.pattern)] ELSE next
    /\ calm' = IF sensor[s].mode = "normal" /\ calm[s] < ANOMALY_WINDOW
               THEN [calm EXCEPT ![s] = @ + 1] ELSE calm
    /\ UNCHANGED <<sensor, consumer, disturbances>>

-----------------------------------------------------------------------------
(* ml-consumer: one reading *)

\* The detector's events, or one for the simulator's flag if there is none.
Recorded(p) ==
    LET found == Check(detector, p)
    IN IF p.anomaly /\ found = {} THEN {"simulator_flag"} ELSE found

Consume ==
    /\ position < Len(log)
    /\ LET p == log[position + 1]
       IN /\ raised' = Recorded(p)
          /\ detector' = Learnt(detector, p)
    /\ position' = position + 1
    /\ UNCHANGED <<engine, log, start, disturbances>>

Restart ==
    /\ disturbances < MaxDisturbances
    /\ detector' = NewDetector
    /\ start' = position
    /\ disturbances' = disturbances + 1
    /\ UNCHANGED <<engine, log, position, raised>>

PipelineNext == (\E s \in Sensors : Update(s) \/ Publish(s)) \/ Consume \/ Restart
PipelineSpec == PipelineInit /\ [][PipelineNext]_pipelineVars

-----------------------------------------------------------------------------
\* A sensor in mode NORMAL is not reported as anomalous for ever after its
\* range or mode was changed: the flag may stay while readings from before
\* the change are in the window, and is gone once the window has only its
\* own (sensor_engine.py 132-141).
CalmIsNotFlagged ==
    \A s \in Sensors :
        sensor[s].mode = "normal" /\ calm[s] = ANOMALY_WINDOW => ~flag[s]

\* The reading the consumer took last, and the places in the topic of those
\* its windows may know: of the sensor, and of its room's sensors of the type
\* before it (zeros left out).
Taken == log[position]
LastOf(places, n) == {i \in places : Cardinality({j \in places : j > i}) < n}
OfSensor == {i \in start + 1 .. position : log[i].sensor = Taken.sensor}
Earlier == {i \in start + 1 .. position - 1 :
              log[i].room = Taken.room /\ log[i].type = Taken.type /\ Given(log[i])}
Known == {log[i].value : i \in LastOf(Earlier, ROLLING_WINDOW)}

\* An alarm is about the sensor or the room it names, however the readings of
\* others are mixed with its own: a fluctuation is in the sensor's own last
\* readings, a spike stands out of the room's.
AlarmsHaveCause ==
    position > start =>
      /\ "high_frequency_fluctuation" \in raised =>
           /\ Cardinality(OfSensor) >= OSC_WINDOW
           /\ LET vs == {log[i].value : i \in LastOf(OfSensor, OSC_WINDOW)}
              IN Max(vs) - Min(vs) > OSCILLATION_FRACTION[Taken.type]
      /\ "energy_spike" \in raised => Taken.value > ENERGY_SPIKE_FACTOR * Min(Known)
      /\ "temperature_zscore_spike" \in raised => Cardinality(Known) >= 2

\* A reading of energy above three times everything the room's window knows is
\* found, however many alarms came before it.
SpikesAreFound ==
    /\ position > start /\ Taken.type = "energy"
    /\ Cardinality(LastOf(Earlier, ROLLING_WINDOW)) >= 2
    /\ Min(Known) > 0 /\ Taken.value > ENERGY_SPIKE_FACTOR * Max(Known)
    => "energy_spike" \in raised

=============================================================================

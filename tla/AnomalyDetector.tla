-------------------------- MODULE AnomalyDetector --------------------------
(***************************************************************************)
(* The rules of ml-consumer (anomaly.py) as operators on the detector's    *)
(* windows: a detector is [temp, energy |-> readings of each room,         *)
(* osc |-> readings of each sensor].  Readings are integers, standard      *)
(* deviations are compared squared.                                        *)
(***************************************************************************)
EXTENDS Statistics

CONSTANTS
    Sensors, RoomIds,
    ROLLING_WINDOW, OSC_WINDOW,
    TEMP_MIN, TEMP_MAX,
    TEMP_ZSCORE_THRESHOLD,
    ENERGY_SPIKE_FACTOR,
    OCCUPANCY_MAX,
    OSCILLATION_FRACTION  \* absolute standard deviation for each type

Types == {"temperature", "occupancy", "energy"}

ASSUME DetectorAssumption ==
    /\ ROLLING_WINDOW \in Nat \ {0} /\ OSC_WINDOW \in Nat \ {0, 1}
    /\ {TEMP_MIN, TEMP_MAX, OCCUPANCY_MAX} \subseteq Int
    /\ {TEMP_ZSCORE_THRESHOLD, ENERGY_SPIKE_FACTOR} \subseteq Nat
    /\ OSCILLATION_FRACTION \in [Types -> Nat]

NewDetector == [temp   |-> [r \in RoomIds |-> <<>>],
                energy |-> [r \in RoomIds |-> <<>>],
                osc    |-> [s \in Sensors |-> <<>>]]

\* `payload.get("value") or payload.get(...)`: the readings of sim-control have
\* no other field for the value, and a value of 0 is not taken for one.
Given(p) == p.value # 0

\* RollingStats.zscore over 3 of a window of two readings that differ or more.
ZScoreSpike(w, v) ==
    LET n == Len(w)
        d == n * v - Sum(w)
    IN /\ n >= 2 /\ Spread(w) # 0
       /\ d * d * (n - 1) >
            TEMP_ZSCORE_THRESHOLD * TEMP_ZSCORE_THRESHOLD * Spread(w) * n

CheckTemperature(det, p) ==
    IF ~Given(p) THEN {}
    ELSE IF p.value < TEMP_MIN \/ p.value > TEMP_MAX THEN {"temperature_out_of_range"}
    ELSE IF ZScoreSpike(det.temp[p.room], p.value) THEN {"temperature_zscore_spike"}
    ELSE {}

CheckOccupancy(p) ==
    IF p.value < 0 THEN {"occupancy_negative"}
    ELSE IF p.value > OCCUPANCY_MAX THEN {"occupancy_exceeds_capacity"}
    ELSE {}

\* Mutant: against the sum of the window, not its mean.
EnergySpikeOfSum(w, v) == Len(w) >= 2 /\ Sum(w) > 0 /\ v > ENERGY_SPIKE_FACTOR * Sum(w)

\* Mutant: the factor forgotten.
EnergySpikeUnscaled(w, v) == Len(w) >= 2 /\ Sum(w) > 0 /\ Len(w) * v > Sum(w)

\* More than the factor times a positive mean of two readings or more.
EnergySpike(w, v) ==
    Len(w) >= 2 /\ Sum(w) > 0 /\ Len(w) * v > ENERGY_SPIKE_FACTOR * Sum(w)

CheckEnergy(det, p) ==
    IF ~Given(p) THEN {}
    ELSE IF p.value < 0 THEN {"energy_negative"}
    ELSE IF EnergySpike(det.energy[p.room], p.value) THEN {"energy_spike"}
    ELSE {}

\* The sensor's window with the reading in it: here a 0 counts.
OscillationWindow(det, p) == Push(det.osc[p.sensor], p.value, OSC_WINDOW)

CheckOscillation(det, p) ==
    LET w == OscillationWindow(det, p)
        t == OSCILLATION_FRACTION[p.type]
    IN IF Len(w) = OSC_WINDOW /\ Spread(w) > t * t * OSC_WINDOW * (OSC_WINDOW - 1)
       THEN {"high_frequency_fluctuation"} ELSE {}

Check(det, p) ==
    CheckOscillation(det, p) \cup
    CASE p.type = "temperature" -> CheckTemperature(det, p)
      [] p.type = "occupancy"   -> CheckOccupancy(p)
      [] p.type = "energy"      -> CheckEnergy(det, p)

\* What check leaves in the windows: an anomalous reading too.
Learnt(det, p) ==
    [temp   |-> IF p.type = "temperature" /\ Given(p)
                THEN [det.temp EXCEPT ![p.room] = Push(@, p.value, ROLLING_WINDOW)]
                ELSE det.temp,
     energy |-> IF p.type = "energy" /\ Given(p)
                THEN [det.energy EXCEPT ![p.room] = Push(@, p.value, ROLLING_WINDOW)]
                ELSE det.energy,
     osc    |-> [det.osc EXCEPT ![p.sensor] = OscillationWindow(det, p)]]
=============================================================================

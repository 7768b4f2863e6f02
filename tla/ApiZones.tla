------------------------------ MODULE ApiZones -----------------------------
(***************************************************************************)
(* GET /campus/zones of the dashboard API (routers/campus.py) for one      *)
(* building: the answer is taken from Redis, or made from two queries to   *)
(* InfluxDB and one to PostgreSQL and left in Redis for TTL seconds.       *)
(* Every query is an await: requests that missed the cache together fill   *)
(* it one over the other.  Every query may fail, and a failure is an       *)
(* empty result, which is answered and cached like any other.              *)
(*                                                                         *)
(* The answer is a function of what the queries returned; the model keeps  *)
(* what they returned (a `source') and applies ZoneData to it.             *)
(* Temperatures are in tenths of a degree, energy in watts.                *)
(***************************************************************************)
EXTENDS Integers, FiniteSets, FiniteSetsExt, Functions

CONSTANTS
    Requests,     \* requests in flight
    Rooms,        \* rooms of the building
    Tables,       \* what PostgreSQL may answer: capacities of rooms, <<>> for
                  \* a query that fails or finds no room of the building
    Contents,     \* what InfluxDB may hold of the last five minutes
    TTL,          \* ttl_seconds of the cached answer
    Spikes,       \* readings of a broken sensor, of any kind
    MaxQuery      \* seconds a request spends in its queries at most

Readings == {"temperature", "occupancy", "energy"}

ASSUME ApiZonesAssumption ==
    /\ IsFiniteSet(Rooms)
    /\ TTL \in Nat \ {0} /\ MaxQuery \in Nat
    /\ Spikes \subseteq Int
    /\ \A c \in Contents : c.anomalies \in Nat
         /\ \A s \in Readings : DOMAIN c[s] \subseteq Rooms /\ c[s] \in [DOMAIN c[s] -> Int]

Nothing == [temperature |-> <<>>, occupancy |-> <<>>, energy |-> <<>>]

VARIABLES
    influx,  \* what InfluxDB holds now, an element of Contents
    cache,   \* campus:zones in Redis: source, its age and what is left of the TTL
    req      \* requests: step, source so far, its age, seconds in queries

vars == <<influx, cache, req>>

Steps == {"cache", "latest", "anomalies", "capacities", "store"}

\* What the three queries returned.
Source(latest, anomalies, capacities) ==
    [latest |-> latest, anomalies |-> anomalies, capacities |-> capacities]
NoSource == Source(Nothing, 0, <<>>)

Init ==
    /\ influx \in Contents
    /\ cache = [src |-> NoSource, age |-> 0, left |-> 0]
    /\ req = [r \in Requests |->
                [pc |-> "free", src |-> NoSource, age |-> 0, spent |-> 0]]

-----------------------------------------------------------------------------
(* From the readings of a building to its zone *)

\* round(a / n) of natural numbers; Python's half-even ties are not told
\* apart.
Rounded(a, n) == (2 * a + n) \div (2 * n)

\* The mean, without the highest and the lowest of four readings or more.
Temperature(f) ==
    LET n == Cardinality(DOMAIN f)
        vs == Range(f)
    IN IF n = 0 THEN 280
       ELSE IF n < 4 THEN Rounded(SumFunction(f), n)
       ELSE Rounded(SumFunction(f) - Max(vs) - Min(vs), n - 2)

\* Each room's reading is clamped to its capacity, if the table has one for
\* it that is not 0, and is nobody when it is negative.
Occupants(f, table) ==
    LET Clamped(r) == IF r \in DOMAIN table /\ table[r] > 0
                      THEN Min({f[r], table[r]}) ELSE f[r]
    IN SumFunction([r \in DOMAIN f |-> Max({0, Clamped(r)})])

\* The capacities of the rows; capacity_map knows no building without a row,
\* which counts as one place.
TotalCapacity(table) == IF DOMAIN table = {} THEN 1 ELSE SumFunction(table)

\* theoretical_pct.
Percentage(count, seats) == IF seats > 0 THEN Rounded(100 * count, seats) ELSE 0

\* Mutant: the load is trimmed from the wrong end of the sorted readings.
WattsWithoutLowest(f) ==
    SumFunction(f) - IF Cardinality(DOMAIN f) >= 4 THEN Min(Range(f)) ELSE 0

\* The sum in watts, without the highest of four readings or more.
Watts(f) ==
    SumFunction(f) - IF Cardinality(DOMAIN f) >= 4 THEN Max(Range(f)) ELSE 0

\* energy_kw in tenths: a sum of at most 500 is taken for kilowatts.
Kilowatts(w) == IF w > 500 THEN Rounded(w, 100) ELSE 10 * w

\* _derive_status: its first argument is the capped percentage.
Status(occupancy, temperature, anomalies) ==
    IF anomalies >= 3 \/ occupancy > 300 \/ temperature > 340 THEN "critical"
    ELSE IF anomalies >= 1 \/ occupancy > 150 \/ temperature > 310 THEN "busy"
    ELSE "normal"

ZoneData(s) ==
    LET temp == Temperature(s.latest.temperature)
        count == Occupants(s.latest.occupancy, s.capacities)
        seats == TotalCapacity(s.capacities)
        pct == Percentage(count, seats)
        shown == Min({100, pct})
    IN [temperatureC |-> temp,
        currentOccupancy |-> count,
        totalCapacity |-> seats,
        occupancyTheoretical |-> pct,
        occupancy |-> shown,
        energyKw |-> Kilowatts(Watts(s.latest.energy)),
        anomalyCount |-> s.anomalies,
        status |-> Status(shown, temp, s.anomalies),
        hasData |-> \E k \in Readings : DOMAIN s.latest[k] # {}]

-----------------------------------------------------------------------------
(* A request, await by await *)

Goes(r, from, to) ==
    /\ req[r].pc = from
    /\ req' = [req EXCEPT ![r] = to]

Arrive(r) ==
    /\ req[r].pc \notin Steps
    /\ req' = [req EXCEPT ![r] =
                 [pc |-> "cache", src |-> NoSource, age |-> 0, spent |-> 0]]
    /\ UNCHANGED <<influx, cache>>

\* Mutant: a hit renews the life of the answer.
HitRenews(r) ==
    /\ cache.left > 0
    /\ Goes(r, "cache", [pc |-> "answered", src |-> cache.src,
                         age |-> cache.age, spent |-> 0])
    /\ cache' = [cache EXCEPT !.left = TTL]
    /\ UNCHANGED influx

\* redis.get found an answer that has not expired.
Hit(r) ==
    /\ cache.left > 0
    /\ Goes(r, "cache", [pc |-> "answered", src |-> cache.src,
                         age |-> cache.age, spent |-> 0])
    /\ UNCHANGED <<influx, cache>>

\* redis.get returned None: no answer, or Redis is unavailable.
Miss(r) ==
    /\ Goes(r, "cache", [req[r] EXCEPT !.pc = "latest"])
    /\ UNCHANGED <<influx, cache>>

\* all_buildings_latest; an exception is no reading at all.
Latest(r) ==
    /\ \E got \in {Nothing, [k \in Readings |-> influx[k]]} :
         Goes(r, "latest", [req[r] EXCEPT !.pc = "anomalies",
                                          !.src.latest = got, !.age = 0])
    /\ UNCHANGED <<influx, cache>>

\* all_buildings_anomaly_counts; an exception is no anomaly.
Anomalies(r) ==
    /\ \E got \in {0, influx.anomalies} :
         Goes(r, "anomalies", [req[r] EXCEPT !.pc = "capacities",
                                             !.src.anomalies = got])
    /\ UNCHANGED <<influx, cache>>

\* SELECT room_id, building_id, capacity FROM rooms.  An exception leaves the
\* capacities unknown.  With the tables of this repository there always is
\* one: the rooms of infra/postgres/init.sql and of the migrations have an id
\* and no room_id.
Capacities(r) ==
    /\ \E got \in {<<>>} \cup Tables :
         Goes(r, "capacities", [req[r] EXCEPT !.pc = "store",
                                              !.src.capacities = got])
    /\ UNCHANGED <<influx, cache>>

\* redis.set and the answer; Redis may be unavailable.
Store(r) ==
    /\ Goes(r, "store", [req[r] EXCEPT !.pc = "answered"])
    /\ \/ cache' = [src |-> req[r].src, age |-> req[r].age, left |-> TTL]
       \/ UNCHANGED cache
    /\ UNCHANGED influx

-----------------------------------------------------------------------------
(* The pipeline writes readings; time passes *)

Write ==
    /\ influx' \in Contents
    /\ UNCHANGED <<cache, req>>

\* One second.  An answer that expired is forgotten.
Tick ==
    /\ \A r \in Requests : req[r].pc \in Steps => req[r].spent < MaxQuery
    /\ req' = [r \in Requests |->
                 IF req[r].pc \notin Steps THEN req[r]
                 ELSE [req[r] EXCEPT !.spent = @ + 1,
                         !.age = IF req[r].pc \in {"cache", "latest"} THEN 0 ELSE @ + 1]]
    /\ cache' = IF cache.left <= 1 THEN [src |-> NoSource, age |-> 0, left |-> 0]
                ELSE [cache EXCEPT !.age = @ + 1, !.left = @ - 1]
    /\ UNCHANGED influx

Query(r) == Hit(r) \/ Miss(r) \/ Latest(r) \/ Anomalies(r) \/ Capacities(r) \/ Store(r)

Next ==
    \/ \E r \in Requests : Arrive(r) \/ Query(r)
    \/ Write \/ Tick

Spec == Init /\ [][Next]_vars

-----------------------------------------------------------------------------
Sources == [latest : {Nothing} \cup {[k \in Readings |-> c[k]] : c \in Contents},
            anomalies : {0} \cup {c.anomalies : c \in Contents},
            capacities : {<<>>} \cup Tables]

TypeOK ==
    /\ influx \in Contents
    /\ cache \in [src : Sources, age : Nat, left : 0..TTL]
    /\ req \in [Requests -> [pc : Steps \cup {"free", "answered"}, src : Sources,
                             age : Nat, spent : 0..MaxQuery]]

Answered == {r \in Requests : req[r].pc = "answered"}

\* Whatever fills overlap, an answer shows what InfluxDB held (or failed to
\* give) at most the cache's TTL and one request's queries ago: a slow fill
\* that overwrites a newer answer does not prolong its own life.
StalenessBounded == \A r \in Answered : req[r].age < TTL + MaxQuery

\* One broken sensor does not make a building's figures, among four sensors or
\* more: whatever it reads, the temperature answered stays within the others'
\* readings; a spike above the others leaves the load answered at what the
\* others add up to; and no reading raises the load above that, except that a
\* low one may bring what is left to 500 W or less, which the answer takes for
\* kilowatts.
SpikeIsContained ==
    \A r \in Answered, spike \in Spikes :
      LET s == req[r].src
          t == s.latest.temperature
          e == s.latest.energy
      IN /\ Cardinality(DOMAIN t) >= 4 => \A x \in DOMAIN t :
              LET others == {t[y] : y \in DOMAIN t \ {x}}
                  z == ZoneData([s EXCEPT !.latest.temperature = [t EXCEPT ![x] = spike]])
              IN z.temperatureC \in Min(others)..Max(others)
         /\ Cardinality(DOMAIN e) >= 4 => \A x \in DOMAIN e :
              LET broken == [e EXCEPT ![x] = spike]
                  z == ZoneData([s EXCEPT !.latest.energy = broken])
                  rest == SumFunctionOnSet(e, DOMAIN e \ {x})
              IN /\ (\A y \in DOMAIN e \ {x} : e[y] <= spike) => z.energyKw = Kilowatts(rest)
                 /\ z.energyKw > Kilowatts(rest) => Watts(broken) <= 500 /\ rest > 500
=============================================================================

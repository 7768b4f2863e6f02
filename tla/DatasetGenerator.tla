--------------------------- MODULE DatasetGenerator ---------------------------
(***************************************************************************)
(* services/ml-prediction: generate_datasets.py, which writes the training *)
(* data, and verify_datasets.py, which checks it, beside the zones and the *)
(* energy sensor of the simulator whose readings the models meet live.     *)
(*                                                                         *)
(* The generator takes the calendar, the timetable, the events and the     *)
(* crowd table from the simulator and rewrites the zones.  A row of a      *)
(* dataset is its mean: the noise drawn around it is left out, and with it *)
(* the deviation, count and quality columns.                               *)
(***************************************************************************)
EXTENDS CampusZones

Topology == INSTANCE CampusTopology

-----------------------------------------------------------------------------
\* Mutant: the canteens are shut on holidays.
CanteenOccDetClosedOnHolidays(c) ==
    IF c.date.holiday \/ c.minute \notin 390 .. 1199 THEN 0
    ELSE Scale(CanteenRatio(c.minute), c.day.fraction)

(* Occupancy as the generator computes it.                                 *)
CanteenOccDet(c) ==
    LET m == c.minute
        base == IF c.date.weekend THEN Scale(CanteenRatio(m), 4000) ELSE CanteenRatio(m)
        cut == IF IsEssentiallyEmpty(c.day) THEN Most(500, Scale(base, 3000))
               ELSE Scale(base, c.day.fraction)
        moved == Scale(cut, Drain(EventTypes(c), "canteen"))
        \* the food festival fills one of the four canteens, 100 of 440 seats
        mixed == IF "sentra-court" \in Venues(c)
                 THEN (100 * VenueFill(c, "sentra-court") + 340 * moved) \div 440
                 ELSE moved
    IN  CASE m \notin 390 .. 1199 -> 0
          [] m \in 390 .. 1199 /\ c.date.holiday -> 1500
          [] OTHER -> Least(Unit, mixed)

\* Mutant: a reading break leaves the library as full as ever.
LibraryOccDetUnscaled(c) ==
    IF c.minute \notin 480 .. 1259 THEN 0
    ELSE IF c.date.holiday THEN 2000
    ELSE Scale(Scale(LibraryRatio(c.minute, IsExamPeriod(c.day)), c.day.fraction),
               Drain(EventTypes(c), "library"))

LibraryOccDet(c) ==
    LET base == LibraryRatio(c.minute, IsExamPeriod(c.day))
        busy == IF c.date.weekend THEN Scale(base, 5500) ELSE base
        cut == Scale(IF IsLowAttendance(c.day) THEN Scale(busy, 8000) ELSE busy,
                     c.day.fraction)
    IN  CASE c.minute \notin 480 .. 1259 -> 0
          [] c.minute \in 480 .. 1259 /\ c.date.holiday -> 2000
          [] OTHER -> Least(Unit, Scale(cut, Drain(EventTypes(c), "library")))

RoomOccDet(r, c) ==
    LET m == c.minute
        mult == Drain(EventTypes(c), r.type)
        off == c.date.holiday \/ c.date.weekend
        open == m \in 360 .. 1319
    IN  CASE r.building \in Venues(c) -> VenueFill(c, r.building)
          [] r.building \notin Venues(c) /\ r.type \in {"server_room", "outdoor"} -> 0
          [] r.building \notin Venues(c) /\ r.type \in {"classroom", "lab"} ->
               CASE ~open -> 0
                 [] open /\ off -> IF c.date.holiday THEN 300 ELSE 0
                 [] OTHER -> Least(Unit, Scale(Scale(IF IsExamPeriod(c.day) THEN ExamRatio(m)
                                               ELSE LectureRatio(m),
                                               LectureScale(c.day)), mult))
          [] r.building \notin Venues(c) /\ r.type = "canteen" ->
               Least(Unit, Scale(CanteenOccDet(c), mult))
          [] r.building \notin Venues(c) /\ r.type = "library" ->
               Least(Unit, Scale(LibraryOccDet(c), mult))
          [] r.building \notin Venues(c) /\ r.type = "office" ->
               IF off THEN 0 ELSE OfficeRatio(m)
          [] r.building \notin Venues(c) /\ r.type = "hostel" ->
               HostelRatio(m, c.date.weekend, IsEssentiallyEmpty(c.day))
          [] r.building \notin Venues(c) /\ r.type = "auditorium" ->
               IF open /\ ~off /\ IsExamPeriod(c.day) /\ IsDuringLectures(m)
               THEN Scale(8500, LectureScale(c.day)) ELSE 0
-----------------------------------------------------------------------------
(* Power in watts, without its noise.  The sensor and the generator share  *)
(* the model and the loads, not the loads of an empty room at night.       *)
BASE(type) == CASE type \in {"classroom", "library"} -> 80 [] type = "lab" -> 120
                [] type = "office" -> 60 [] type = "canteen" -> 100
                [] type = "auditorium" -> 200 [] type = "hostel" -> 50

STANDBY(type) == CASE type \in {"classroom", "hostel"} -> 45
                   [] type \in {"lab", "library"} -> 60 [] type = "office" -> 35
                   [] type = "canteen" -> 80 [] type = "auditorium" -> 50

STBY_W(type) == CASE type = "classroom" -> 20 [] type = "lab" -> 35
                  [] type = "office" -> 15 [] type = "canteen" -> 80
                  [] type = "auditorium" -> 30 [] type = "hostel" -> 25
                  [] type = "library" -> 40

\* The projectors warm up from 08:00 to 08:15 and run until 17:15.
EquipFactor(m) == IF m \notin 480 .. 1035 THEN 0
                  ELSE Least(Unit, ((m - 480) * Unit) \div 15)

Power(type, occ, m, standby) ==
    CASE type = "server_room" -> 350
      [] type = "outdoor" -> 0
      [] OTHER ->
           IF m \notin 390 .. 1319 /\ occ < 200 THEN standby
           ELSE Most(standby, Least(500, BASE(type) + Scale(200, occ)
                                           + Scale(Scale(150, occ), EquipFactor(m))))

HasMeter(type) == type \notin {"server_room", "outdoor"}

EnergySensor(type, occ, m) ==
    Power(type, occ, m, IF HasMeter(type) THEN STANDBY(type) ELSE 0)

RoomEnergyW(type, occ, m) ==
    Power(type, occ, m, IF HasMeter(type) THEN STBY_W(type) ELSE 0)
-----------------------------------------------------------------------------
(* The three datasets.  Canteens and libraries have a row every half hour, *)
(* buildings one every hour with the power of their rooms; the days before *)
(* the first one are written to nobody.                                    *)
Slots(minutes) == {m \in 0 .. 1439 : m % minutes = 0}

OccRow(r, d, evts, m) == [context |-> Context(d, evts, m),
                          avg |-> RoomOccDet(r, Context(d, evts, m))]

EnergyRow(rooms, d, evts, m) ==
    LET c == Context(d, evts, m)
    IN  [context |-> c,
         total_w |-> FoldSet(LAMBDA r, acc : acc + RoomEnergyW(r.type, RoomOccDet(r, c), m),
                             0, rooms)]

WARMUP_DAYS == 7        \* from 25 December 2023
DATA_DAYS == 731        \* 2024, a leap year, and 2025
RowsWritten(series, perDay) == series * ((WARMUP_DAYS + DATA_DAYS) * perDay
                                         - WARMUP_DAYS * perDay)

-----------------------------------------------------------------------------
(* verify_datasets.py, its checks of rows with one minute and one          *)
(* circumstance: what it asks of their average is asked of every row, the  *)
(* comparisons of dates when no event moves people.  others are rows of    *)
(* the same minute on other dates and without the career fair.  Whether an *)
(* event is held at all is left out, and the names of building types.      *)
Ordinary(c) == c.day.activity = "AW" /\ ~c.date.weekend /\ ~c.date.holiday
EventFree(c) == ~c.date.holiday /\ c.active = {}

FairAdded(c, o) == /\ c.date = o.date
                   /\ EventTypes(c) = EventTypes(o) \cup {"career_fair"}

VerifyCanteen(row, others) ==
    LET c == row.context
        canteens == {r \in Topology!AllRooms : r.type = "canteen"}
    IN
    /\ Cardinality(canteens) = 4
    /\ RowsWritten(Cardinality(canteens), Cardinality(Slots(30))) = 140352
    /\ c.minute = 0 => row.avg = 0
    /\ c.minute = 750 /\ Ordinary(c) => row.avg > 5500
    /\ c.minute = 750 /\ c.day.tua /\ EventFree(c) =>
         \A other \in others : Ordinary(other.context)
           => row.avg > 0 /\ 10 * row.avg < 9 * other.avg
    /\ c.date.holiday /\ c.minute = 720 => row.avg \in 1001 .. 2199
    /\ c.minute = 750 /\ ~c.date.holiday =>
         \A other \in others : FairAdded(c, other.context)
           => 100 * row.avg >= 98 * other.avg

VerifyLibrary(row, others) ==
    LET c == row.context
        libraries == {r \in Topology!AllRooms : r.type = "library"}
    IN
    /\ Cardinality(libraries) = 3
    /\ RowsWritten(Cardinality(libraries), Cardinality(Slots(30))) = 105264
    /\ c.minute < 480 \/ c.minute >= 1260 => row.avg = 0
    /\ c.minute = 1050 /\ Ordinary(c) => row.avg > 4500
    /\ c.minute = 1080 /\ IsExamPeriod(c.day) /\ EventFree(c) =>
         \A other \in others : Ordinary(other.context) => row.avg > other.avg
    /\ c.minute = 840 /\ c.date.weekend /\ EventFree(c) =>
         \A other \in others : Ordinary(other.context) => row.avg < other.avg
    /\ c.date.holiday /\ c.minute = 840 => row.avg \in 1401 .. 2799
    /\ c.minute = 840 /\ ~c.date.holiday =>
         \A other \in others : FairAdded(c, other.context) => row.avg <= other.avg

\* lectures: rows of the building at 10:00 on ordinary dates.
VerifyEnergy(row, b, lectures) ==
    LET m == row.context.minute
    IN
    /\ RowsWritten(Cardinality(Topology!BuildingIds), Cardinality(Slots(60))) = 26 * 731 * 24
    /\ b = "faculty-it" =>
         /\ row.total_w > 300
         /\ m = 120 => \A l \in lectures : 2 * l.total_w > 3 * row.total_w
         /\ m = 600 /\ row.context.date.holiday =>
              \A l \in lectures : row.total_w < l.total_w
    /\ b = "goda-canteen" /\ m = 120 => row.total_w \in 56 .. 114
    /\ b = "library" /\ m = 180 => row.total_w > 100
-----------------------------------------------------------------------------
Near(a, b) == a - b \in -3 .. 3        \* rounding of products

(* The rooms, and the instants, for which the generator says what the      *)
(* zone does: hosts of events; hostels but for holidays; teaching rooms on *)
(* working days; canteens and libraries then, if no event moves people.    *)
Comparable(r, c) ==
    \/ r.building \in Venues(c)
    \/ r.type = "hostel" /\ ~c.date.holiday
    \/ /\ ~c.date.weekend /\ ~c.date.holiday /\ ~IsEssentiallyEmpty(c.day)
       /\ \/ r.type \in {"classroom", "lab"}
          \/ /\ r.type \in {"canteen", "library"}
             /\ Drain(EventTypes(c), r.type) = Unit
             /\ r.type = "canteen" => "sentra-court" \notin Venues(c)

(* A model trained on the data meets the same distribution live, for the   *)
(* rooms and instants named above: the generator aims at what the zone's   *)
(* sensor aims at, and by day draws the power the energy sensor draws.     *)
GeneratorAgrees ==
    minute \in Slots(30) =>
      /\ Comparable(room, Now) =>
           \A t \in TargetRatios(room, Now) : Near(RoomOccDet(room, Now), Least(Unit, t))
      /\ LET occ == (count * Unit) \div room.capacity
         IN  minute \in 390 .. 1319 \/ occ >= 200 =>
               RoomEnergyW(room.type, occ, minute) = EnergySensor(room.type, occ, minute)

(* Every dataset passes verify_datasets.py: a row against the same minute  *)
(* of any other date and, for the career fair, of the date without it.     *)
DatasetVerifies ==
    LET Here(d, evts) == OccRow(room, d, evts, minute)
        Energy(d, evts, m) == EnergyRow(Topology!RoomsOf(room.building), d, evts, m)
        others == {Here(d, {}) : d \in Dates}
                    \cup {Here(date, {e \in events : e.type # "career_fair"})}
        lectures == {l \in {Energy(d, {}, 600) : d \in Dates} : Ordinary(l.context)}
    IN
    /\ minute \in Slots(30) =>
         /\ room.type = "canteen" => VerifyCanteen(Here(date, events), others)
         /\ room.type = "library" => VerifyLibrary(Here(date, events), others)
    /\ minute \in Slots(60) =>
         VerifyEnergy(Energy(date, events, minute), room.building, lectures)
=============================================================================

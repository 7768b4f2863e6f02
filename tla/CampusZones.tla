----------------------------- MODULE CampusZones ------------------------------
(***************************************************************************)
(* services/simulator, campus and zones: how full a room should be at a    *)
(* minute of a day, and the occupancy sensor that follows it.              *)
(*                                                                         *)
(* A date carries what the data files say of it; the academic day, the     *)
(* events it may have and the ratio every zone aims at are computed from   *)
(* it.  The behaviour is one room's occupancy sensor through the minutes   *)
(* of successive days.                                                     *)
(*                                                                         *)
(* Ratios and factors are integers in ten-thousandths (Unit), a product    *)
(* rounded down; hours are minutes of the day, the resolution of the tick  *)
(* loop's context.  A random draw is a choice among values of its range.   *)
(***************************************************************************)
EXTENDS Integers, Sequences, FiniteSetsExt

CONSTANTS Dates,       \* [weekend, holiday, month, baseline, periods]
          Rooms,       \* [building, type, capacity]
          EventPool,   \* the events a date may have, [type, fill]
          MaxEvents,   \* bound: events on one date
          Step,        \* bound: minutes between two samples
          Draws        \* bound: a Gaussian draw, in standard deviations

Unit == 10000
Scale(a, b) == (a * b) \div Unit
Least(a, b) == IF a < b THEN a ELSE b
Most(a, b) == IF a > b THEN a ELSE b
NoFraction == -1

Activities == {"AW", "AW_OL", "EXAM", "SUPP", "RB", "MSB", "VAC", "IT", "TUA",
               "PRE_AC", "IS", "MARK"}

RoomTypes == {"classroom", "lab", "canteen", "library", "hostel", "office", "auditorium",
              "outdoor", "server_room"}

ASSUME CampusAssumption ==
    /\ \A d \in Dates :
         /\ {d.weekend, d.holiday} \subseteq BOOLEAN
         /\ d.month \in 1 .. 12 /\ d.baseline \in Nat
         /\ Len(d.periods) \in Nat
         /\ \A i \in 1 .. Len(d.periods) :
              /\ d.periods[i].activity \in Activities
              /\ d.periods[i].fraction \in Nat \cup {NoFraction}
    /\ \A r \in Rooms :
         /\ r.type \in RoomTypes
         /\ r.capacity \in Nat /\ (r.type # "server_room" => r.capacity > 0)
    /\ \A e \in EventPool : \A b \in DOMAIN e.fill : e.fill[b] \in 0 .. Unit
    /\ Step \in 1 .. 1440 /\ MaxEvents \in Nat /\ Draws \subseteq Int

VARIABLES
    date,      \* the date, a member of Dates
    minute,    \* the minute of the day
    events,    \* the events of the date
    room,      \* the room the sensor is in
    count,     \* the sensor's _count
    eve        \* _eve_ratio while _eve_active, 0 otherwise

zoneVars == <<date, minute, events, room, count, eve>>
-----------------------------------------------------------------------------
(* The academic calendar.  A period without a fraction keeps the one an    *)
(* earlier matching period left; a trade union action stays noted although *)
(* a later period gives the day another activity.                          *)
AcademicDay(d) ==
    LET named == {i \in 1 .. Len(d.periods) : d.periods[i].fraction # NoFraction}
        fraction == IF named = {} THEN d.baseline ELSE d.periods[Max(named)].fraction
    IN  CASE d.weekend -> [activity |-> "IS", fraction |-> 1500, tua |-> FALSE]
          [] d.holiday /\ ~d.weekend ->
               [activity |-> "VAC", fraction |-> 500, tua |-> FALSE]
          [] OTHER ->
               [activity |-> IF d.periods = <<>> THEN "AW"
                             ELSE d.periods[Len(d.periods)].activity,
                fraction |-> Least(10500, Most(0, fraction)),
                tua |-> \E i \in 1 .. Len(d.periods) : d.periods[i].activity = "TUA"]

IsExamPeriod(day) == day.activity \in {"EXAM", "SUPP"}
IsLowAttendance(day) == day.activity \in {"RB", "AW_OL", "IS", "MSB"}
IsEssentiallyEmpty(day) == day.activity \in {"VAC", "MARK"}
LectureScale(day) == IF day.tua THEN 5000 ELSE Least(Unit, day.fraction)
-----------------------------------------------------------------------------
(* The timetable.  Slots and periods are <<first minute, last minute>>.    *)
LECTURE_SLOTS == {<<495, 610>>, <<615, 735>>, <<795, 910>>, <<915, 1035>>}
EXAM_SLOTS == {<<480, 660>>, <<780, 960>>}
CANTEEN_PERIODS == {<<450, 495, 9500>>, <<610, 630, 6500>>, <<735, 795, 9800>>,
                    <<910, 930, 5500>>, <<1035, 1170, 3000>>}
WEEKEND_ACTIVE_BUILDINGS == {"faculty-it", "dept-design"}

IsDuringLectures(m) == \E s \in LECTURE_SLOTS : m \in s[1] .. s[2]

\* The room fills in the 10 minutes before a slot and drains in the 5 after:
\* its ratio at minute m before the slot's begin, and after its end.
Filling(m, begin) == (8800 * (m - begin + 10) * (m - begin + 10)) \div 100
Draining(m, end) == (8800 * (5 - m + end) * (5 - m + end)) \div 25

LectureRatio(m) ==
    IF IsDuringLectures(m) THEN 8800
    ELSE Max({0} \cup {Filling(m, s[1]) :
                         s \in {t \in LECTURE_SLOTS : m \in t[1] - 10 .. t[1] - 1}}
                 \cup {Draining(m, s[2]) :
                         s \in {t \in LECTURE_SLOTS : m \in t[2] + 1 .. t[2] + 4}})

Sitting(m, begin, end) ==
    CASE m < begin -> (9500 * (m - begin + 30)) \div 30
      [] m > end -> (9500 * (20 - m + end)) \div 20
      [] OTHER -> 9500

ExamRatio(m) ==
    Max({0} \cup {Sitting(m, s[1], s[2]) :
                    s \in {t \in EXAM_SLOTS : m \in t[1] - 30 .. t[2] + 19}})

\* A third of a period ramps up, a third ramps down.
Rush(m, begin, end, peak) ==
    LET edge == Least(m - begin, end - m)
    IN  IF 3 * edge < end - begin THEN (peak * 3 * edge) \div (end - begin) ELSE peak

CanteenRatio(m) ==
    LET now == {p \in CANTEEN_PERIODS : p[1] <= m /\ m < p[2]}
        period == CHOOSE p \in now : TRUE
    IN  CASE now # {} -> Rush(m, period[1], period[2], period[3])
          [] now = {} /\ m \in 495 .. 1035 -> 200
          [] now = {} /\ m \in 390 .. 1199 \ 495 .. 1035 -> 300
          [] OTHER -> 0

LibraryRatio(m, exam) ==
    CASE m \notin 480 .. 1259 -> 0
      [] m \in 480 .. 1259 /\ exam -> 8500
      [] m \in 1035 .. 1259 /\ ~exam -> 7000
      [] m \in 735 .. 794 /\ ~exam -> 5500
      [] m \in 610 .. 629 \cup 910 .. 929 /\ ~exam -> 2500
      [] OTHER -> 1200

OfficeRatio(m) == CASE m \notin 510 .. 1019 -> 0
                    [] m \in 735 .. 794 -> 2500
                    [] OTHER -> 8000

HostelRatio(m, weekend, vacation) ==
    CASE m >= 1320 \/ m < 360 -> 9000
      [] m \in 360 .. 419 -> 8500
      [] m \in 420 .. 1319 /\ vacation -> IF m \in 600 .. 1199 THEN 5500 ELSE 8000
      [] m \in 420 .. 1319 /\ weekend /\ ~vacation ->
           CASE m \in 600 .. 1199 -> 4500 [] m >= 1200 -> 7500 [] OTHER -> 8000
      [] OTHER -> CASE m \in 480 .. 1049 -> 2000
                    [] m >= 1050 -> 2000 + (7000 * (m - 1050)) \div 270
                    [] OTHER -> 8000
-----------------------------------------------------------------------------
(* Events.  Their hours come from events.yaml; none but a padura can fall  *)
(* on a holiday, and those of the faculties only on weekdays.              *)
Hours(type) == CASE type = "padura" -> 1080 .. 1319
                 [] type = "food_festival" -> 600 .. 1199
                 [] type = "symposium" -> 480 .. 1019
                 [] type = "orientation" -> 480 .. 779
                 [] type = "career_fair" -> 540 .. 959
                 [] type = "workshop_am" -> 540 .. 779
                 [] type = "workshop_pm" -> 780 .. 1019
                 [] OTHER -> 1140 .. 1319                    \* movie_night

CanBeHeld(type, d) ==
    CASE type = "padura" -> ~d.weekend /\ ~d.holiday
      [] type \in {"food_festival", "movie_night"} -> ~d.holiday
      [] OTHER -> ~d.holiday /\ ~d.weekend

Generate(d) == UNION {kSubset(k, {e \in EventPool : CanBeHeld(e.type, d)}) :
                        k \in 0 .. Least(MaxEvents, Cardinality(EventPool))}

\* What the context holds of an instant: the date, and the events under way.
Context(d, evts, m) == [date |-> d, day |-> AcademicDay(d), minute |-> m,
                        active |-> {e \in evts : m \in Hours(e.type)}]

Venues(c) == UNION {DOMAIN e.fill : e \in c.active}
VenueFill(c, b) == Max({e.fill[b] : e \in {f \in c.active : b \in DOMAIN f.fill}})
EventTypes(c) == {e.type : e \in c.active}

EVENT_CROWD_DRAIN(event, type) ==
    CASE event = "career_fair" ->
           CASE type = "classroom" -> 8000 [] type = "lab" -> 8500
             [] type = "library" -> 9000 [] type = "canteen" -> 11000 [] OTHER -> Unit
      [] event = "symposium" ->
           CASE type \in {"classroom", "lab"} -> 9000
             [] type = "canteen" -> 10500 [] OTHER -> Unit
      [] event = "food_festival" ->
           CASE type \in {"classroom", "office"} -> 9500
             [] type = "library" -> 8800 [] OTHER -> Unit
      [] event = "orientation" ->
           CASE type = "classroom" -> 9000 [] type = "library" -> 11000 [] OTHER -> Unit
      [] OTHER -> Unit

\* The factors of the events under way compound; the other types move nobody.
Drain(types, type) ==
    LET Of(event) == IF event \in types THEN EVENT_CROWD_DRAIN(event, type) ELSE Unit
    IN  Scale(Scale(Scale(Of("career_fair"), Of("symposium")), Of("food_festival")),
              Of("orientation"))
-----------------------------------------------------------------------------
\* Mutant: the minimum of an empty day is taken before the closing hours.
CanteenZoneMinimumFirst(c) ==
    IF IsEssentiallyEmpty(c.day) THEN Most(500, Scale(CanteenRatio(c.minute), 3000))
    ELSE Scale(CanteenRatio(c.minute), c.day.fraction)

(* The zones: the ratios a room may aim at in a context when its building  *)
(* hosts nothing.                                                          *)
CanteenZone(c) ==
    LET m == c.minute
        base == IF c.date.weekend THEN Scale(CanteenRatio(m), 4000) ELSE CanteenRatio(m)
    IN  CASE m \notin 390 .. 1199 -> 0
          [] m \in 390 .. 1199 /\ c.date.holiday -> IF m \in 600 .. 899 THEN 1500 ELSE 0
          [] /\ m \in 390 .. 1199 /\ ~c.date.holiday /\ c.date.weekend
             /\ m \notin 420 .. 839 \cup 1080 .. 1199 -> 0
          [] OTHER -> IF IsEssentiallyEmpty(c.day) THEN Most(500, Scale(base, 3000))
                      ELSE Scale(base, c.day.fraction)

LibraryZone(c) ==
    LET base == LibraryRatio(c.minute, IsExamPeriod(c.day))
        busy == IF c.date.weekend THEN Scale(base, 5500) ELSE base
    IN  CASE c.date.holiday \/ IsEssentiallyEmpty(c.day) -> 0
          [] OTHER -> Scale(IF IsLowAttendance(c.day) THEN Scale(busy, 8000) ELSE busy,
                            c.day.fraction)

ClassroomZone(c, building) ==
    LET m == c.minute
    IN  CASE m \notin 420 .. 1259 -> 0
          [] m \in 420 .. 1259 /\ c.date.holiday -> IF m \in 540 .. 1019 THEN 300 ELSE 0
          [] m \in 420 .. 1259 /\ ~c.date.holiday /\ c.date.weekend ->
               IF building \in WEEKEND_ACTIVE_BUILDINGS /\ m \in 480 .. 1019
               THEN Scale(LectureRatio(m), 4000) ELSE 0
          [] OTHER -> IF IsEssentiallyEmpty(c.day) THEN 0
                      ELSE Scale(IF IsExamPeriod(c.day) THEN ExamRatio(m)
                                 ELSE LectureRatio(m), LectureScale(c.day))

OfficeZone(c) ==
    LET m == c.minute
        base == IF IsExamPeriod(c.day) /\ m \in 510 .. 1019 THEN 9000 ELSE OfficeRatio(m)
    IN  CASE m \notin 450 .. 1079 -> 0
          [] m \in 450 .. 1079 /\ c.date.holiday -> IF m \in 540 .. 899 THEN 500 ELSE 0
          [] m \in 450 .. 1079 /\ ~c.date.holiday /\ c.date.weekend ->
               IF m \in 540 .. 839 THEN 500 ELSE 0
          [] OTHER -> IF IsEssentiallyEmpty(c.day) THEN 500
                      ELSE Most(1000, Scale(base, Most(4000, c.day.fraction)))

HostelZone(c) ==
    LET r == HostelRatio(c.minute, c.date.weekend, IsEssentiallyEmpty(c.day))
    IN  IF c.date.holiday THEN Scale(r, 7000) ELSE r

\* Large lectures are held in some of the slots only, to 55 .. 90 %.
AuditoriumZone(c) ==
    IF \/ c.minute \notin 420 .. 1259 \/ c.date.holiday \/ c.date.weekend
       \/ IsEssentiallyEmpty(c.day) \/ ~IsDuringLectures(c.minute)
    THEN {0}
    ELSE IF IsExamPeriod(c.day) THEN {Scale(8500, LectureScale(c.day))}
         ELSE {0, Scale(5500, LectureScale(c.day)), Scale(9000, LectureScale(c.day))}

SeasonFactor(month, m) ==
    CASE month \in {3, 4} -> IF m \in 660 .. 899 THEN 4000 ELSE 8500
      [] month \in {5, 10, 11} -> 6000
      [] month \in {12, 1} -> 12000
      [] OTHER -> Unit

OutdoorZone(c) ==
    LET m == c.minute
        Of(applies, factor) == IF applies THEN factor ELSE Unit
        \* the products keep a further factor of ten: the ratios are small
        Passing(b) ==
            Scale(Scale(Scale(Scale(10 * b, Of(c.date.weekend, 15000)),
                              Of(IsExamPeriod(c.day), 3000)),
                        Of(IsLowAttendance(c.day), 20000)),
                  SeasonFactor(c.date.month, m))
    IN  CASE m \notin 360 .. 1319 -> {0}
          [] m \in 360 .. 1319 /\ c.date.holiday -> {0, 200}
          [] OTHER -> {Most(50, Scale(Passing(b), Most(2000, c.day.fraction)) \div 10) :
                         b \in IF m \in 420 .. 1259 THEN {0, 150} ELSE {0}}

\* get_zone_for_room_type: a lab is a classroom; nobody is in a server room.
ZoneRatios(r, c) ==
    CASE r.type \in {"classroom", "lab"} -> {ClassroomZone(c, r.building)}
      [] r.type = "canteen" -> {CanteenZone(c)}
      [] r.type = "library" -> {LibraryZone(c)}
      [] r.type = "hostel" -> {HostelZone(c)}
      [] r.type = "office" -> {OfficeZone(c)}
      [] r.type = "auditorium" -> AuditoriumZone(c)
      [] r.type = "outdoor" -> OutdoorZone(c)
      [] r.type = "server_room" -> {0}

\* A hosting building follows its event; elsewhere the events draw people
\* away from, or to, the rooms.
TargetRatios(r, c) ==
    IF r.building \in Venues(c) THEN {VenueFill(c, r.building)}
    ELSE {Scale(t, Drain(EventTypes(c), r.type)) : t \in ZoneRatios(r, c)}
-----------------------------------------------------------------------------
(* _apply_flow: the head counts the sensor may show next when the room     *)
(* aims at ratio.  The draw that moves anybody may always fail.            *)
Flow(r, ratio, n) ==
    LET Target(z) == Most(0, Least(r.capacity,
                       (ratio * r.capacity + 5000) \div Unit
                         + z * Most(1, r.capacity \div 25)))
        Towards(t) ==
            LET gap == Most(t - n, n - t)
                step == IF 10 * gap > r.capacity
                        THEN Most(1, Least(gap, r.capacity \div 20)) ELSE 1
            IN  CASE t > n -> Least(r.capacity, n + step)
                  [] t < n -> Most(0, n - step)
                  [] OTHER -> n
    IN  {n} \cup {Towards(Target(z)) : z \in Draws}

\* Mutant: the evening goes on after 21:00.
EveningUntilMidnight(r, c) ==
    /\ ~c.date.weekend /\ ~c.date.holiday /\ ~IsEssentiallyEmpty(c.day)
    /\ r.type \in {"classroom", "lab"}
    /\ c.minute >= 1035

(* _apply_evening_event: a tutorial may start, or end, on weekday evenings *)
(* in classrooms and labs.  It is never asked outside those hours, so its  *)
(* branch for hour >= 21.0 is never taken, and a tutorial that is on at    *)
(* 21:00 is on again the next evening.                                     *)
Evening(r, c) ==
    /\ ~c.date.weekend /\ ~c.date.holiday /\ ~IsEssentiallyEmpty(c.day)
    /\ r.type \in {"classroom", "lab"}
    /\ c.minute \in 1035 .. 1259

EveningEvent(e) == IF e = 0 THEN {0, 2000, 5000} ELSE {e, 0}
-----------------------------------------------------------------------------
ZoneInit ==
    /\ date \in Dates
    /\ events \in Generate(date)
    /\ room \in {r \in Rooms : r.type # "server_room"}   \* it has no occupancy sensor
    /\ minute = 0 /\ count = 0 /\ eve = 0

Now == Context(date, events, minute)

\* The clock goes on to the next sample, at midnight to another date.
Clock ==
    /\ minute' = (minute + Step) % 1440
    /\ IF minute + Step < 1440 THEN UNCHANGED <<date, events>>
       ELSE date' \in Dates /\ events' \in Generate(date')
    /\ UNCHANGED room

\* read: the sensor samples ...
Sample ==
    /\ eve' \in IF Evening(room, Now) THEN EveningEvent(eve) ELSE {eve}
    /\ \E t \in TargetRatios(room, Now) :
         count' \in Flow(room, IF Evening(room, Now) /\ eve' > 0 THEN eve' ELSE t, count)
    /\ Clock

\* ... or is offline, which leaves its state as it is.
Offline ==
    /\ UNCHANGED <<count, eve>>
    /\ Clock

ZoneNext == Sample \/ Offline

ZoneSpec == ZoneInit /\ [][ZoneNext]_zoneVars
-----------------------------------------------------------------------------
(* A locked building draws nobody in: outside its hours a room's zone aims *)
(* at nobody on every kind of day, whatever minimum the day keeps inside   *)
(* them and whatever the events elsewhere add to it.                       *)
OpenHours(type) == CASE type \in {"classroom", "lab", "auditorium"} -> 420 .. 1259
                     [] type = "canteen" -> 390 .. 1199
                     [] type = "library" -> 480 .. 1259
                     [] type = "office" -> 450 .. 1079
                     [] type = "outdoor" -> 360 .. 1319
                     [] type = "hostel" -> 0 .. 1439

LockedDrawsNobody ==
    minute \notin OpenHours(room.type) /\ room.building \notin Venues(Now)
      => TargetRatios(room, Now) = {0}

(* A locked room does not fill: outside its hours the head count of a room *)
(* whose building hosts nothing rises no further than one draw of noise    *)
(* takes a room that aims at nobody, whatever the day left behind in the   *)
(* sensor: a full room, or a tutorial that was on at 21:00, which nothing  *)
(* ends then (base_zone.py 209-232, occupancy.py 66-97).                   *)
LockedRoomsDoNotFill ==
    [][/\ minute \notin OpenHours(room.type) /\ room.building \notin Venues(Now)
       /\ count' > count
       => \E z \in Draws : count' <= z * Most(1, room.capacity \div 25)]_zoneVars
=============================================================================

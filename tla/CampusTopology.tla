---------------------------- MODULE CampusTopology ----------------------------
(***************************************************************************)
(* services/simulator/campus/topology.py: the buildings of the campus and  *)
(* their rooms.  A room keeps its building, floor, type and capacity, and  *)
(* a number that tells it from its neighbours of the same kind.            *)
(***************************************************************************)
EXTENDS Integers, FiniteSets

Room(b, floor, n, type, capacity) ==
    [building |-> b, floor |-> floor, number |-> n, type |-> type, capacity |-> capacity]

\* Numbered rooms of one type on one floor, with their capacities.
Row(b, floor, type, capacities) ==
    {Room(b, floor, n, type, capacities[n]) : n \in DOMAIN capacities}

\* _acad_floors: two classrooms, an office and the labs on every floor.
AcadFloors(b, floors, cls, lab, labs, office) ==
    UNION {Row(b, f, "classroom", <<cls, cls>>) \cup Row(b, f, "office", <<office>>)
             \cup Row(b, f, "lab", [n \in 1 .. labs |-> lab]) : f \in 1 .. floors}

\* The second floor of Sumanadasa follows its plan; the server room has no seats.
Sumanadasa ==
    UNION {Row("sumanadasa", f, "classroom", <<100, 100>>)
             \cup Row("sumanadasa", f, "lab", <<50>>)
             \cup Row("sumanadasa", f, "office", <<15>>) : f \in {1, 3, 4}}
    \cup Row("sumanadasa", 2, "classroom", <<100, 30, 20, 60, 100>>)
    \cup Row("sumanadasa", 2, "lab", <<40, 50, 50, 30, 20, 35, 200, 30, 35, 40, 45>>)
    \cup Row("sumanadasa", 2, "office", <<12, 50, 30>>)
    \cup Row("sumanadasa", 2, "server_room", <<0>>)

Buildings ==
    LET Lone(b, type, capacity) == {Room(b, 1, 1, type, capacity)}
        Dept(b, floors, cls, lab) == AcadFloors(b, floors, cls, lab, 1, 12)
    IN  [lagaan |-> Lone("lagaan", "outdoor", 700),
         multipurpose_hall |-> Lone("multipurpose-hall", "auditorium", 1000),
         hostel_a |-> Lone("hostel-a", "hostel", 200),
         hostel_c |-> Lone("hostel-c", "hostel", 500),
         textile |-> Dept("dept-textile", 3, 65, 40),
         transport |-> Dept("dept-transport", 3, 65, 30),
         civil |-> Dept("dept-civil", 3, 80, 40),
         sumanadasa |-> Sumanadasa,
         goda |-> Lone("goda-canteen", "canteen", 100),
         sentra |-> Lone("sentra-court", "canteen", 100),
         l_canteen |-> Lone("l-canteen", "canteen", 40),
         wala |-> Lone("wala-canteen", "canteen", 200),
         faculty_it |-> AcadFloors("faculty-it", 4, 120, 60, 2, 15)
                          \cup {Room("faculty-it", 5, 1, "server_room", 0)},
         business |-> AcadFloors("faculty-business", 4, 100, 0, 0, 15),
         maths |-> Row("dept-maths", 1, "office", <<35, 35, 15>>)
                     \cup Row("dept-maths", 2, "office", <<35, 10>>),
         medicine |-> Dept("faculty-medicine", 4, 75, 35),
         ete |-> Dept("dept-ete", 4, 80, 45),
         na_hall |-> {Room("na-hall", f, 1, "classroom", 300) : f \in 1 .. 3},
         material |-> Dept("dept-material", 3, 70, 45),
         chemical |-> Dept("dept-chemical", 3, 70, 45),
         mechanical |-> Dept("dept-mechanical", 3, 70, 45),
         registrar |-> Row("registrar", 1, "classroom", <<150>>)
                         \cup Row("registrar", 1, "office", <<25, 25>>),
         admin |-> Row("admin", 1, "office", <<30, 30>>)
                     \cup Row("admin", 2, "office", <<30, 30, 30>>),
         design |-> AcadFloors("dept-design", 5, 100, 50, 2, 15),
         grad |-> AcadFloors("faculty-grad", 3, 50, 30, 1, 15),
         library |-> {Room("library", 1, 1, "library", 400),
                      Room("library", 2, 1, "library", 350),
                      Room("library", 3, 1, "library", 250)}]

AllRooms == UNION {Buildings[b] : b \in DOMAIN Buildings}
RoomsOf(b) == {r \in AllRooms : r.building = b}
BuildingIds == {r.building : r \in AllRooms}

\* The sensor bundles: outdoors people are counted, server rooms have none.
Sensors(r) == CASE r.type = "outdoor" -> {"occupancy"}
                [] r.type = "server_room" -> {"temperature", "energy"}
                [] OTHER -> {"temperature", "occupancy", "energy"}
=============================================================================

------------------------------ MODULE MCCampus --------------------------------
(* Small instances of the zones and the dataset generator for TLC: a room  *)
(* of every kind, with few seats, and one date of every kind.              *)
EXTENDS DatasetGenerator

MCDate(weekend, holiday, month, baseline, periods) ==
    [weekend |-> weekend, holiday |-> holiday, month |-> month,
     baseline |-> baseline, periods |-> periods]

Period(activity, fraction) == [activity |-> activity, fraction |-> fraction]

MCDates == {MCDate(FALSE, FALSE, 9, 9860, <<>>),
            MCDate(FALSE, FALSE, 1, 10600, <<Period("AW", NoFraction), Period("IT", 8500)>>),
            MCDate(FALSE, FALSE, 5, 6310, <<Period("TUA", 6300)>>),
            MCDate(FALSE, FALSE, 4, 7890, <<Period("EXAM", 9000)>>),
            MCDate(FALSE, FALSE, 4, 7890, <<Period("EXAM", 9000), Period("VAC", 800)>>),
            MCDate(FALSE, FALSE, 3, 8950, <<Period("RB", 5500)>>),
            MCDate(TRUE, FALSE, 11, 9060, <<>>),
            MCDate(FALSE, TRUE, 10, 9120, <<>>)}

MCRoom(b, type) == [building |-> b, type |-> type,
                    capacity |-> IF type = "outdoor" THEN 12 ELSE 3]

MCRooms == {MCRoom("dept-civil", "classroom"), MCRoom("faculty-it", "lab"),
            MCRoom("sentra-court", "canteen"), MCRoom("goda-canteen", "canteen"),
            MCRoom("library", "library"), MCRoom("admin", "office"),
            MCRoom("hostel-a", "hostel"), MCRoom("multipurpose-hall", "auditorium"),
            MCRoom("lagaan", "outdoor")}

MCDraws == {-1, 0, 1}

Fill(venues, ratio) == [v \in venues |-> ratio]

MCEvents == {[type |-> "padura", fill |-> Fill({"lagaan"}, 9000)],
             [type |-> "food_festival",
              fill |-> [v \in {"lagaan", "sentra-court"} |->
                          IF v = "lagaan" THEN 8000 ELSE 9800]],
             [type |-> "symposium", fill |-> Fill({"multipurpose-hall"}, 9500)],
             [type |-> "orientation", fill |-> Fill({"multipurpose-hall"}, 9700)],
             [type |-> "career_fair",
              fill |-> Fill({"multipurpose-hall", "dept-civil"}, 7000)],
             [type |-> "workshop_am", fill |-> Fill({"dept-civil"}, 8500)]}
=============================================================================

----------------------------- MODULE MCStoredRun -----------------------------
(***************************************************************************)
(* Two classes, three lessons on the first day and one on the second.  t1  *)
(* teaches M in both classes, t2 the double-period subject P in class A    *)
(* and M besides.  A starts one M lesson short: t1 is in B then, so a     *)
(* repair plan has to move B's lesson away.  An unset daily maximum is two *)
(* for the engine and one for the validator: it finds a surplus in the     *)
(* second board, which its fix takes away.                                 *)
(***************************************************************************)
EXTENDS StoredRun, TLC

S(weekly, perDay, double) ==
    [standards |-> {"std5"}, mediums |-> {"en"}, include |-> {}, exclude |-> {},
     weekly |-> weekly, perDay |-> perDay, weeklyIn |-> <<>>, perDayIn |-> <<>>,
     double |-> double, team |-> FALSE]

T(subjects) ==
    [assigned |-> {}, mediums |-> {"en"}, subjects |-> subjects, excluded |-> {},
     perDay |-> 0, perWeek |-> 0, freeMorning |-> 0, freeEvening |-> 0,
     maxSame |-> 2, maxAny |-> 2, primary |-> "none", homeroom |-> "any"]

OneStandard == [d \in {"A", "B"} |-> [standard |-> "std5", medium |-> "en"]]
ThreePeriods == <<"LESSON", "LESSON", "LESSON">>
ShortTuesday == <<{}, {1}, {1}>>
EditSubject == ("M" :> [S(2, 0, FALSE) EXCEPT !.perDayIn = "B" :> 1])
               @@ ("P" :> [S(2, 2, TRUE) EXCEPT !.include = {"A"}])
EditTeacher == ("t1" :> [T({"M"}) EXCEPT !.freeEvening = 1]) @@ ("t2" :> T({"P", "M"}))
EditFree == {<<"t1", 1, 2>>}

Less(d, day, n, s, t) == [div |-> d, day |-> day, slot |-> n, subject |-> s, teacher |-> t]
Pair(day, n) == {Less("A", day, n, "P", "t2"), Less("A", day, n + 1, "P", "t2")}
GeneratedBoards ==
    {Pair(1, 1) \cup {Less("B", 1, 3, "M", "t1"), Less("A", 2, 1, "M", "t1")},
     {Less("A", 1, 1, "M", "t1"), Less("A", 1, 2, "M", "t1"),
      Less("B", 1, 3, "M", "t2"), Less("B", 2, 1, "M", "t2")}}

\* the boards are such as the proofs assume
ASSUME BoardsAssumption == GeneratedApart /\ GeneratedKeepsRules

\* and the engine's maps are those that placing the lessons one by one leaves
ASSUME MapsAssumption ==
    LET place(r, b) == Engine!PlaceLesson(b, r, FALSE, FALSE)
        empty == [Engine!EmptyBoard EXCEPT !.lock = [p \in Pairs |-> {}]]
    IN  \A board \in Generated : EngineBoard(board) = FoldSet(place, empty, board)
=============================================================================

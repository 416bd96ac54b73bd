--------------------------- MODULE MCLegacyEngine ---------------------------
(***************************************************************************)
(* Small schools for TLC.                                                  *)
(***************************************************************************)
EXTENDS LegacyEngine

S(weekly, perDay) ==
    [standards |-> {"std5"}, mediums |-> {"en"}, include |-> {}, exclude |-> {},
     weekly |-> weekly, perDay |-> perDay, weeklyIn |-> <<>>, perDayIn |-> <<>>,
     double |-> FALSE, team |-> FALSE]

T(subjects) ==
    [assigned |-> {}, mediums |-> {"en"}, subjects |-> subjects, excluded |-> {},
     perDay |-> 0, perWeek |-> 0, freeMorning |-> 0, freeEvening |-> 0,
     maxSame |-> 2, maxAny |-> 3, primary |-> "none", homeroom |-> "any"]

Alloc(d, s, phase, days) == [pair |-> <<d, s>>, phase |-> phase, days |-> days]

OneStandard == [d \in {"A", "B"} |-> [standard |-> "std5", medium |-> "en"]]
LessonsOnly == [n \in 1..3 |-> "LESSON"]
EveryDay == [n \in 1..3 |-> {}]
NoSequence == <<>>

-----------------------------------------------------------------------------
(* Strict: two classes share one long day and one language teacher, the    *)
(* class teacher of A, who gives two mathematics lessons there every day.  *)
(* A has room for two of its three mathematics lessons, and what is placed *)
(* first decides whether the single-class continuity rule leaves room for  *)
(* the rest; a second mathematics teacher is off in two periods.           *)
FourLessons == [n \in 1..4 |-> "LESSON"]
FourEveryDay == [n \in 1..4 |-> {}]
StrictSubject ==
    ("M" :> [S(1, 1) EXCEPT !.weeklyIn = "A" :> 3, !.perDayIn = "A" :> 2]) @@ ("L" :> S(1, 1))
StrictTeacher ==
    ("t1" :> [T({"M", "L"}) EXCEPT !.primary = "M", !.homeroom = "A"])
    @@ ("t2" :> T({"M"}))
StrictMain ==
    <<Alloc("A", "M", "CORE", <<1>>), Alloc("A", "L", "LANGUAGE", <<1>>),
      Alloc("B", "M", "CORE", <<1>>), Alloc("B", "L", "LANGUAGE", <<1>>)>>
StrictPairs == <<<<"A", "M">>, <<"A", "L">>, <<"B", "M">>, <<"B", "L">>>>
StrictFree == {<<"t2", 1, 3>>, <<"t2", 1, 4>>}

-----------------------------------------------------------------------------
(* Best fit: two days of three lessons.  The language lessons come in      *)
(* double blocks and may not be first in the morning, one teacher gives    *)
(* them in both divisions, and one mathematics lesson has a fixed slot.    *)
BestFitSubject == ("M" :> S(2, 2)) @@ ("L" :> [S(3, 2) EXCEPT !.double = TRUE])
BestFitTeacher ==
    ("t1" :> [T({"L"}) EXCEPT !.perWeek = 4]) @@ ("t2" :> T({"M"})) @@ ("t3" :> T({"M"}))
BestFitRules ==
    {[kind |-> "EXCLUDE_SLOT", subject |-> "L", slots |-> {}, targets |-> {"FIRST_MORNING"}]}
BestFitFree == {<<"t2", 2, 2>>}
BestFitRows == {<<"t1", "L", "any">>}
BestFitFixed == <<[pair |-> <<"B", "M">>, day |-> 1, slot |-> 1]>>
BestFitMain ==
    <<Alloc("A", "M", "CORE", <<1, 2>>), Alloc("A", "L", "LANGUAGE", <<1, 2>>),
      Alloc("B", "M", "CORE", <<1, 2>>), Alloc("B", "L", "LANGUAGE", <<1, 2>>)>>
BestFitSoft ==
    <<Alloc("A", "L", "SOFT", <<1, 2>>), Alloc("B", "L", "SOFT", <<1, 2>>)>>

-----------------------------------------------------------------------------
(* Continuity cap: one class and one teacher with at most two lessons in a *)
(* row; the last period is a fixed slot.  The school is so small that the  *)
(* rankings of the engine leave it nothing to choose.                      *)
OneClass == "A" :> [standard |-> "std5", medium |-> "en"]
OnePair == <<<<"A", "M">>>>
OneMain == <<Alloc("A", "M", "CORE", <<1>>)>>
CapSubject == "M" :> S(3, 3)
CapTeacher == "t1" :> [T({"M"}) EXCEPT !.maxAny = 2]
CapFixed == <<[pair |-> <<"A", "M">>, day |-> 1, slot |-> 3]>>
=============================================================================

------------------------------ MODULE MCSolver ------------------------------
(***************************************************************************)
(* One day of three lessons, lunch before the last: two classes share the  *)
(* mathematics teachers t1 and t2, t1 also gives the language lessons and  *)
(* takes no two in a row of the same subject.  A request with nothing      *)
(* fixed runs beside one that needs no solver, or one whose fixed slots    *)
(* conflict beside one that is fixed as a whole and has errors.            *)
(***************************************************************************)
EXTENDS SolverRunner

S(weekly, perDay) ==
    [standards |-> {"std5"}, mediums |-> {"en"}, include |-> {}, exclude |-> {},
     weekly |-> weekly, perDay |-> perDay, weeklyIn |-> <<>>, perDayIn |-> <<>>,
     double |-> FALSE, team |-> FALSE]

T(subjects) ==
    [assigned |-> {}, mediums |-> {"en"}, subjects |-> subjects, excluded |-> {},
     perDay |-> 0, perWeek |-> 0, freeMorning |-> 0, freeEvening |-> 0,
     maxSame |-> 1, maxAny |-> 2, primary |-> "none", homeroom |-> "any"]

OneStandard == [d \in {"A", "B"} |-> [standard |-> "std5", medium |-> "en"]]
Periods == <<"LESSON", "LESSON", "LUNCH", "LESSON">>
EveryDay == [n \in 1..4 |-> {}]
SolverSubject == ("M" :> [S(1, 2) EXCEPT !.weeklyIn = "A" :> 2]) @@ ("L" :> [S(1, 1) EXCEPT !.include = {"A"}])
SolverTeacher == ("t1" :> T({"M", "L"})) @@ ("t2" :> [T({"M"}) EXCEPT !.perDay = 2])
SolverRules ==
    {[kind |-> "EXCLUDE_SLOT", subject |-> "L", slots |-> {}, targets |-> {"FIRST_MORNING"}],
     [kind |-> "EXCLUDE_SLOT", subject |-> "M", slots |-> {}, targets |-> {"LAST_LESSON"}],
     [kind |-> "INCLUDE_ONLY", subject |-> "M", divisions |-> {"B"}, mode |-> "CUSTOM", cells |-> {<<1, 2>>}]}
SolverFree == {<<"t2", 1, 2>>, <<"t2", 1, 4>>}
ByIds == <<"t1", "t2">>

Fix(d, s, n) == [pair |-> <<d, s>>, day |-> 1, slot |-> n]
NothingFixed == <<>>
AllFixed ==
    <<Fix("A", "M", 1), Fix("A", "L", 4), Fix("A", "M", 2), Fix("B", "M", 2)>>
TooMany == <<Fix("A", "M", 1), Fix("A", "L", 2), Fix("A", "L", 4)>>
AnyFixed == {NothingFixed, TooMany, AllFixed}
Asked(mode, fixed) == [mode |-> mode, fixed |-> fixed]
AnyAsked ==
    {("r1" :> a) @@ ("r2" :> b) :
       a \in {Asked("hybrid", NothingFixed)},
       b \in {Asked("legacy", NothingFixed), Asked("experimental", NothingFixed)}}
    \cup {("r1" :> Asked("hybrid", TooMany)) @@ ("r2" :> Asked("cp_sat", AllFixed))}

Settings(timeout, quality) ==
    [timeout |-> timeout, url |-> TRUE, secret |-> TRUE, cap |-> 5000,
     fallback |-> TRUE, quality |-> quality, host |-> "http"]
AnySettings ==
    {Settings(10000, "auto"), [Settings(1000, "never") EXCEPT !.fallback = FALSE],
     [Settings(10000, "always") EXCEPT !.host = "lambda", !.fallback = FALSE],
     [Settings(10000, "auto") EXCEPT !.secret = FALSE],
     [Settings(10000, "auto") EXCEPT !.cap = 10], [Settings(10000, "auto") EXCEPT !.url = FALSE]}
=============================================================================

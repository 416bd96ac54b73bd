--------------------------- MODULE TimetableSpec ----------------------------
(***************************************************************************)
(* What an engine promises of the timetable it builds, whatever its        *)
(* heuristics: at every moment the lessons form a timetable no teacher and *)
(* no class appears in twice at the same time and no weekly target is      *)
(* exceeded, and a lesson that has been fixed stays.                       *)
(***************************************************************************)
EXTENDS Naturals, FiniteSets

CONSTANTS
    Lessons,          \* all lessons a school can have
    ClassTime(_),     \* the class and time a lesson takes
    TeacherTime(_),   \* the teacher and time a lesson takes
    Requirement(_),   \* the class and subject a lesson counts for
    Target(_)         \* the weekly target of a requirement

VARIABLES lessons, fixed

Consistent(L) ==
    \A l, m \in L :
        ClassTime(l) = ClassTime(m) \/ TeacherTime(l) = TeacherTime(m) => l = m

WithinTargets(L) ==
    \A l \in L :
        Cardinality({m \in L : Requirement(m) = Requirement(l)}) <= Target(Requirement(l))

Init == lessons = {} /\ fixed = {}

Revise ==
    /\ lessons' \subseteq Lessons
    /\ Consistent(lessons') /\ WithinTargets(lessons')
    /\ fixed \subseteq fixed' /\ fixed' \subseteq lessons'

Spec == Init /\ [][Revise]_<<lessons, fixed>>
=============================================================================

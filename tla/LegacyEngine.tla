---------------------------- MODULE LegacyEngine ----------------------------
(***************************************************************************)
(* One attempt of the legacy engine (runTimetableEngineAttempt): a single  *)
(* thread that runs its placement passes one after the other over one      *)
(* board.  A step is one turn of a pass's innermost loop that changes      *)
(* state; pc names the pass.                                               *)
(*                                                                         *)
(* Orders that come from data (loads, priorities, hash-rotated slots, ids) *)
(* are arbitrary: a step takes any lesson the pass could take.  The order  *)
(* of the main and soft passes over (division, subject) pairs is given by  *)
(* MainOrder and SoftOrder.                                                *)
(***************************************************************************)
EXTENDS Placement

CONSTANTS
    FixedSlots,            \* sequence of [pair, day, slot]
    FirstPeriodDays,       \* days of the class-teacher first-period rule
    DailyPrimaryMin,       \* dailyPrimaryMinPeriods
    NoSubject,             \* a teacher without primary subject
    MainOrder,             \* sequence of [pair, phase, days]
    SoftOrder,             \* the soft passes, concatenated; <<>> in STRICT mode
    PairOrder,             \* order of the optimizers' loops over pairs
    BacktrackDepth, MaxBacktrackRounds, LockRepairRounds, LocalSearchIterations

Phases ==
    {"CONSTRAINED", "LAB_PRACTICAL", "CORE", "LANGUAGE", "NON_CORE", "REMAINING", "SOFT"}

\* an entry of a pass order: the pair and the order of the days in its queue
Allocation == [pair : ApplicablePairs, phase : Phases, days : [Days -> Days]]

ASSUME OrderAssumption ==
    /\ FixedSlots \in Seq([pair : Pairs, day : Days, slot : Slots])
    /\ MainOrder \in Seq(Allocation) /\ SoftOrder \in Seq(Allocation)
    /\ PairOrder \in Seq(ApplicablePairs)

ASSUME OptionAssumption ==
    /\ FirstPeriodDays \subseteq Days
    /\ DailyPrimaryMin \in Nat
    /\ NoSubject \notin Subjects
    /\ \A t \in Teachers : Teacher[t].primary \in Subjects \cup {NoSubject}
    /\ BacktrackDepth \in 1..20 /\ MaxBacktrackRounds \in 0..40
    /\ LockRepairRounds \in 1..8 /\ LocalSearchIterations \in Nat

VARIABLES
    board,     \* the placement state
    pc,        \* the pass that runs
    again,     \* the class-teacher rules run for the second time
    soft,      \* the allocation loop ignores soft rules
    pos,       \* index in FixedSlots, in the pass order or in PairOrder
    job,       \* the pair being allocated or repaired
    visit,     \* index in the pair's day queue or double-block sites
    rounds,    \* backtrack rounds, lock-repair rounds or search iterations
    left,      \* placements the running backtrack may still undo
    todo,      \* class-teacher targets or shortages still to handle
    listed,    \* lessons listed before the pass started to move them
    best       \* bestObjective of the local search

control == <<again, soft, pos, job, visit, rounds, left, todo, listed, best>>
vars == <<board, pc, again, soft, pos, job, visit, rounds, left, todo, listed, best>>

NoPair == <<>>
NoObjective == <<>>

-----------------------------------------------------------------------------
(* Faulty variants of definitions below, one for each property: with a     *)
(* variant in place of the original, the property must fail.               *)

\* the day queue is read from index 0
StartVisitsAtZero ==
    /\ pc = "double" /\ todo = {}
    /\ pc' = "visit" /\ visit' = 0
    /\ UNCHANGED <<board, again, soft, pos, job, rounds, left, todo, listed, best>>

\* a double block needs room for one lesson only
RoomForOne == board.subWeek[job] < WeeklyTarget[job]

\* the placements of the visits are not pushed on the stack
VisitDayUntracked ==
    /\ pc = "visit" /\ visit <= 3 * NumDays /\ Short(board, job)
    /\ visit' = visit + 1
    /\ \E l \in PlaceableAnyDay(board, job, soft) \cup {NoLesson} :
          board' = IF l = NoLesson THEN board ELSE PlaceLesson(board, l, FALSE, FALSE)
    /\ UNCHANGED <<pc, again, soft, pos, job, rounds, left, todo, listed, best>>

\* the rounds of the lock repair are not counted
StartRepairRoundUncounted ==
    /\ pc = "repair" /\ Shortages(board) # {}
    /\ pc' = "shortage" /\ todo' = Shortages(board)
    /\ UNCHANGED <<board, again, soft, pos, job, visit, rounds, left, listed, best>>

\* the lock is cleared before the pair's lessons are stripped
ClearLockFirst ==
    /\ pc = "strip"
    /\ board' = [board EXCEPT !.lock[job] = {}]
    /\ pc' = "gap" /\ visit' = 1
    /\ UNCHANGED <<again, soft, pos, job, rounds, left, todo, listed, best>>

\* a relocation that is refused is not taken back
RelocateUnrestored ==
    /\ pc = "relocate"
    /\ \E l \in Unpinned(board) : board' = RemoveLesson(board, l)
    /\ UNCHANGED <<pc, control>>

-----------------------------------------------------------------------------
(* computeLegacyObjective and compareLexicographicObjective *)

Missing(b, p) == Positive(WeeklyTarget[p] - Cardinality(LessonsOf(b, p)))

\* a lesson counts once for its day and once for its slot
SoftViolations(b) ==
    Cardinality({l \in b.entries : IsDayBlockedByRule(l.subject, l.day)})
    + Cardinality({l \in b.entries : IsSlotBlockedByRule(l.subject, l.slot)})

\* the missing lessons of all pairs, numbered within their pair
MissingLessons(b) == UNION {{p} \X (1..Missing(b, p)) : p \in ApplicablePairs}

Objective(b) ==
    [scheduled |-> Cardinality(b.entries),
     short     |-> Cardinality(MissingLessons(b)),
     soft      |-> SoftViolations(b)]

Better(x, y) ==
    \/ x.scheduled > y.scheduled
    \/ x.scheduled = y.scheduled /\ x.short < y.short
    \/ x.scheduled = y.scheduled /\ x.short = y.short /\ x.soft < y.soft

-----------------------------------------------------------------------------
(* Fixed slots *)

Init ==
    /\ board = EmptyBoard
    /\ pc = "fixed"
    /\ again = FALSE /\ soft = FALSE
    /\ pos = 1 /\ job = NoPair /\ visit = 0 /\ rounds = 0 /\ left = 0
    /\ todo = {} /\ listed = {} /\ best = NoObjective

FixedSlot ==
    /\ pc = "fixed" /\ pos <= Len(FixedSlots)
    /\ pos' = pos + 1
    /\ LET f == FixedSlots[pos]
           E == Eligible(board, f.pair, f.day, f.slot)
       IN  \/ \E t \in E :
                board' = PlaceLesson(board, LessonAt(f.pair, f.day, f.slot, t), TRUE, TRUE)
           \/ E = {} /\ UNCHANGED board
    /\ UNCHANGED <<pc, again, soft, job, visit, rounds, left, todo, listed, best>>

-----------------------------------------------------------------------------
(* Class-teacher rules: the first period of the selected days, then the    *)
(* daily minimum of the primary subject.  Both pin what they place.        *)

ClassTeachers == {t \in Teachers : Teacher[t].homeroom # AnyDivision}

FirstPeriodTargets == ClassTeachers \X FirstPeriodDays
DailyMinTargets ==
    IF DailyPrimaryMin = 0 THEN {}
    ELSE {t \in ClassTeachers : Teacher[t].primary # NoSubject} \X Days

StartClassTeacherRules ==
    /\ \/ pc = "fixed" /\ pos > Len(FixedSlots) /\ again' = FALSE
       \/ /\ pc = "repair" /\ again' = TRUE
          /\ Shortages(board) = {} \/ rounds = LockRepairRounds
    /\ pc' = "firstPeriod"
    /\ todo' = FirstPeriodTargets
    /\ rounds' = 0
    /\ UNCHANGED <<board, soft, pos, job, visit, left, listed, best>>

\* getEligibleSubjectsForTeacherDivision
SubjectsForTeacher(t, d) ==
    LET fits == {s \in Subjects : /\ SubjectAppliesToDivision(s, d)
                                  /\ TeacherSubjectAllowedInDivision(t, s, d)}
        explicit == {s \in fits : \E e \in {d, AnyDivision} : <<t, s, e>> \in TeacherSubjects}
    IN  IF explicit # {} THEN explicit ELSE fits \cap Teacher[t].subjects

(* tryPlaceTeacherDivision: the primary subject first, whether or not it   *)
(* applies to the division, then the teacher's other subjects.             *)
FirstPeriodLessons(t, day) ==
    LET d == Teacher[t].homeroom
        lessons(S) == {l \in {LessonAt(<<d, s>>, day, FirstMorning, t) : s \in S} :
                          CanPlace(board, l, FALSE)}
        primary == lessons({Teacher[t].primary} \ {NoSubject})
    IN  IF primary # {} THEN primary ELSE lessons(SubjectsForTeacher(t, d))

FirstPeriod ==
    /\ pc = "firstPeriod"
    /\ \E k \in todo :
          /\ todo' = todo \ {k}
          /\ LET L == FirstPeriodLessons(k[1], k[2])
             IN  \/ \E l \in L : board' = PlaceLesson(board, l, TRUE, ~ again)
                 \/ L = {} /\ UNCHANGED board
    /\ UNCHANGED <<pc, again, soft, pos, job, visit, rounds, left, listed, best>>

StartDailyMin ==
    /\ pc = "firstPeriod" /\ todo = {}
    /\ pc' = "dailyMin"
    /\ todo' = DailyMinTargets
    /\ UNCHANGED <<board, again, soft, pos, job, visit, rounds, left, listed, best>>

PrimaryLesson(t, day, n) ==
    LessonAt(<<Teacher[t].homeroom, Teacher[t].primary>>, day, n, t)

\* the slots tryPlaceTeacherPrimarySubject accepts
PrimarySlots(t, day) ==
    {n \in LessonSlots :
        /\ SubjectAppliesToDivision(Teacher[t].primary, Teacher[t].homeroom)
        /\ TeacherSubjectAllowedInDivision(t, Teacher[t].primary, Teacher[t].homeroom)
        /\ CanPlace(board, PrimaryLesson(t, day, n), FALSE)}

PrimaryLessonsOn(t, day) ==
    {n \in LessonSlots :
        board.cell[<<Teacher[t].homeroom, day, n>>] = PrimaryLesson(t, day, n)}

DailyMin ==
    /\ pc = "dailyMin"
    /\ \E k \in todo :
          LET N == PrimarySlots(k[1], k[2])
          IN  \/ /\ Cardinality(PrimaryLessonsOn(k[1], k[2])) < DailyPrimaryMin
                 /\ \E n \in N :
                       /\ \A m \in N : n <= m
                       /\ board' = PlaceLesson(board, PrimaryLesson(k[1], k[2], n), TRUE, ~ again)
                 /\ UNCHANGED todo
              \/ /\ Cardinality(PrimaryLessonsOn(k[1], k[2])) >= DailyPrimaryMin \/ N = {}
                 /\ todo' = todo \ {k}
                 /\ UNCHANGED board
    /\ UNCHANGED <<pc, again, soft, pos, job, visit, rounds, left, listed, best>>

FinishClassTeacherRules ==
    /\ pc = "dailyMin" /\ todo = {}
    /\ pc' = IF again THEN "fill" ELSE "allocate"
    /\ pos' = 1
    /\ UNCHANGED <<board, again, soft, job, visit, rounds, left, todo, listed, best>>

-----------------------------------------------------------------------------
(* Main placement and soft passes: allocateDivisionSubject for each pair   *)
(* of the order, with its double blocks and its backtracking.              *)

Order == IF soft THEN SoftOrder ELSE MainOrder

\* the sites of double blocks: a day and two consecutive lesson slots
DoubleSites ==
    {k \in Days \X LessonSlots \X LessonSlots : Consecutive(k[2], k[3])}
Before(j, k) == j[1] < k[1] \/ (j[1] = k[1] /\ j[2] < k[2])

\* tryAllocatePracticalDoubleBlock runs in the practical phase and
\* tryAllocateSubjectDoubleBlock where the subject asks for double periods
DoublePasses(o) ==
    (IF o.phase = "LAB_PRACTICAL" THEN 1 ELSE 0) + (IF Subject[o.pair[2]].double THEN 1 ELSE 0)

AllocatePair ==
    /\ pc = "allocate" /\ pos <= Len(Order)
    /\ \/ /\ soft /\ ~ Short(board, Order[pos].pair)
          /\ pos' = pos + 1
          /\ UNCHANGED <<pc, job, visit, rounds>>
       \/ /\ ~ soft \/ Short(board, Order[pos].pair)
          /\ pc' = "double"
          /\ job' = Order[pos].pair
          /\ visit' = 0 /\ rounds' = 0
          /\ UNCHANGED pos
    /\ UNCHANGED <<board, again, soft, left, todo, listed, best>>

StartDoublePass ==
    /\ pc = "double" /\ todo = {} /\ visit < DoublePasses(Order[pos])
    /\ visit' = visit + 1
    /\ todo' = DoubleSites
    /\ UNCHANGED <<board, pc, again, soft, pos, job, rounds, left, listed, best>>

RoomForTwo == board.subWeek[job] + 2 <= WeeklyTarget[job]

(* Both halves of a double block are tested before either is placed.       *)
DoubleBlock ==
    /\ pc = "double"
    /\ \E k \in todo :
          /\ \A j \in todo : ~ Before(j, k)
          /\ todo' = todo \ {k}
          /\ LET E == Eligible(board, job, k[1], k[2])
                 first(t) == LessonAt(job, k[1], k[2], t)
                 second(t) == LessonAt(job, k[1], k[3], t)
             IN  \/ \E t \in E :
                      /\ RoomForTwo
                      /\ CanPlace(board, second(t), FALSE)
                      /\ board' = PlaceLesson(PlaceLesson(board, first(t), FALSE, TRUE),
                                              second(t), FALSE, TRUE)
                 \/ /\ \/ ~ RoomForTwo
                       \/ E = {}
                       \/ \E t \in E : ~ CanPlace(board, second(t), FALSE)
                    /\ UNCHANGED board
    /\ UNCHANGED <<pc, again, soft, pos, job, visit, rounds, left, listed, best>>

StartVisits ==
    /\ pc = "double" /\ todo = {} /\ visit = DoublePasses(Order[pos])
    /\ pc' = "visit" /\ visit' = 1
    /\ UNCHANGED <<board, again, soft, pos, job, rounds, left, todo, listed, best>>

\* the day queue is the list of working days three times over
VisitDay ==
    /\ pc = "visit" /\ visit <= 3 * NumDays /\ Short(board, job)
    /\ visit' = visit + 1
    /\ LET L == Placeable(board, job, Order[pos].days[((visit - 1) % NumDays) + 1], soft)
       IN  \/ \E l \in L : board' = PlaceLesson(board, l, FALSE, TRUE)
           \/ L = {} /\ UNCHANGED board
    /\ UNCHANGED <<pc, again, soft, pos, job, rounds, left, todo, listed, best>>

NextPair ==
    /\ pc' = "allocate" /\ pos' = pos + 1
    /\ job' = NoPair /\ visit' = 0 /\ rounds' = 0 /\ left' = 0

FinishPair ==
    /\ pc = "visit"
    /\ \/ ~ Short(board, job)
       \/ visit > 3 * NumDays /\ rounds >= MaxBacktrackRounds
    /\ NextPair
    /\ UNCHANGED <<board, again, soft, todo, listed, best>>

Backtrack ==
    /\ pc = "visit" /\ visit > 3 * NumDays /\ Short(board, job)
    /\ rounds < MaxBacktrackRounds
    /\ pc' = "undo" /\ left' = BacktrackDepth
    /\ UNCHANGED <<board, again, soft, pos, job, visit, rounds, todo, listed, best>>

\* one turn of undoLastUnpinnedPlacements; a stack entry whose lesson is no
\* longer there is dropped and not counted
Undo ==
    /\ pc = "undo" /\ left > 0
    /\ \E i \in DOMAIN board.stack :
          LET l == board.stack[i].lesson
              stack == RemoveAt(board.stack, i)
          IN  /\ IsLastUnpinned(board, i)
              /\ IF board.cell[CellOf(l)] = l
                 THEN /\ board' = [RemoveLesson(board, l) EXCEPT !.stack = stack]
                      /\ left' = left - 1
                 ELSE board' = [board EXCEPT !.stack = stack] /\ UNCHANGED left
    /\ UNCHANGED <<pc, again, soft, pos, job, visit, rounds, todo, listed, best>>

FinishUndo ==
    /\ pc = "undo"
    /\ left = 0 \/ \A i \in DOMAIN board.stack : board.stack[i].pinned
    /\ \/ left = BacktrackDepth /\ NextPair
       \/ /\ left < BacktrackDepth
          /\ pc' = "visit" /\ visit' = 1 /\ rounds' = rounds + 1 /\ left' = 0
          /\ UNCHANGED <<pos, job>>
    /\ UNCHANGED <<board, again, soft, todo, listed, best>>

(* The stack is read by Undo only.  When the last allocation loop ends it  *)
(* is dead, and the model stops recording it (dropPlacementStackEntry and  *)
(* the snapshots keep it in step for nobody).                              *)
FinishOrder ==
    /\ pc = "allocate" /\ pos > Len(Order)
    /\ \/ /\ ~ soft /\ SoftOrder # <<>>
          /\ soft' = TRUE /\ pos' = 1
          /\ UNCHANGED <<board, pc>>
       \/ /\ soft \/ SoftOrder = <<>>
          /\ pc' = "repair"
          /\ board' = [board EXCEPT !.stack = <<>>]
          /\ soft' = FALSE /\ pos' = 1
    /\ UNCHANGED <<again, job, visit, rounds, left, todo, listed, best>>

-----------------------------------------------------------------------------
(* Lock repair: for every pair still short, strip its unpinned lessons,    *)
(* clear its lock and schedule the gap again.                              *)

StartRepairRound ==
    /\ pc = "repair" /\ Shortages(board) # {} /\ rounds < LockRepairRounds
    /\ pc' = "shortage" /\ todo' = Shortages(board) /\ rounds' = rounds + 1
    /\ UNCHANGED <<board, again, soft, pos, job, visit, left, listed, best>>

RepairPair ==
    /\ pc = "shortage"
    /\ \E p \in todo :
          /\ todo' = todo \ {p}
          /\ \/ Short(board, p) /\ job' = p /\ pc' = "strip"
             \/ ~ Short(board, p) /\ UNCHANGED <<job, pc>>
    /\ UNCHANGED <<board, again, soft, pos, visit, rounds, left, listed, best>>

FinishRepairRound ==
    /\ pc = "shortage" /\ todo = {}
    /\ pc' = "repair"
    /\ UNCHANGED <<board, control>>

Strip ==
    /\ pc = "strip"
    /\ \E l \in LessonsOf(board, job) \cap Unpinned(board) :
          board' = RemoveLesson(board, l)
    /\ UNCHANGED <<pc, control>>

ClearLock ==
    /\ pc = "strip" /\ LessonsOf(board, job) \cap Unpinned(board) = {}
    /\ board' = [board EXCEPT !.lock[job] = {}]
    /\ pc' = "gap" /\ visit' = 1
    /\ UNCHANGED <<again, soft, pos, job, rounds, left, todo, listed, best>>

\* scheduleGapForDivisionSubject
GapVisit ==
    /\ pc = "gap" /\ visit <= 3 * NumDays /\ Short(board, job)
    /\ visit' = visit + 1
    /\ LET L == Placeable(board, job, ((visit - 1) % NumDays) + 1, FALSE)
       IN  \/ \E l \in L : board' = PlaceLesson(board, l, FALSE, FALSE)
           \/ L = {} /\ UNCHANGED board
    /\ UNCHANGED <<pc, again, soft, pos, job, rounds, left, todo, listed, best>>

FinishGap ==
    /\ pc = "gap" /\ (visit > 3 * NumDays \/ ~ Short(board, job))
    /\ pc' = "shortage" /\ job' = NoPair /\ visit' = 0
    /\ UNCHANGED <<board, again, soft, pos, rounds, left, todo, listed, best>>

-----------------------------------------------------------------------------
(* Division-centric fill and gap utilization: place short subjects in      *)
(* empty cells.  A placement never makes another one possible, so a pass   *)
(* over all cells ends when nothing is left to place.                      *)

Fillable ==
    {l \in UNION {PlaceableAnyDay(board, p, FALSE) : p \in Shortages(board)} :
        CellOf(l) \notin board.pinned}

Fill ==
    /\ pc \in {"fill", "gapUtilization"}
    /\ \E l \in Fillable : board' = PlaceLesson(board, l, FALSE, FALSE)
    /\ UNCHANGED <<pc, control>>

FinishFill ==
    /\ pc \in {"fill", "gapUtilization"} /\ Fillable = {}
    /\ \/ /\ pc = "fill" /\ LocalSearchIterations > 0
          /\ pc' = "gapFill" /\ best' = Objective(board)
       \/ /\ pc = "fill" /\ LocalSearchIterations = 0
          /\ pc' = "gapUtilization" /\ UNCHANGED best
       \/ /\ pc = "gapUtilization"
          /\ pc' = "distribute" /\ UNCHANGED best
    /\ UNCHANGED <<board, again, soft, pos, job, visit, rounds, left, todo, listed>>

-----------------------------------------------------------------------------
(* Local search: gap filling, relocations and swaps, each tried on the     *)
(* board and taken back when the objective does not improve.  A rejected   *)
(* try restores the snapshot, so it is no step.                            *)

Moved(l, c) == [l EXCEPT !.day = c.day, !.slot = c.slot]

\* what a try leaves is kept when its objective is better; if not,
\* restorePlacementState puts every map of the snapshot back
Accepts(next) == Better(Objective(next), best)

\* the lesson at each day and lesson slot of its class
MovesOf(l) == {[l EXCEPT !.day = day, !.slot = n] : day \in Days, n \in LessonSlots}

(* A placed shortage always raises totalScheduled: the comparison never    *)
(* rejects it.  Soft rules are ignored in the second try of BEST_FIT and   *)
(* OPTIMAL, the modes that have soft passes.                               *)
GapFill ==
    /\ pc = "gapFill"
    /\ \E p \in Shortages(board), ignoreSoft \in {FALSE, SoftOrder # <<>>} :
          \E l \in PlaceableAnyDay(board, p, ignoreSoft) :
              LET next == PlaceLesson(board, l, FALSE, FALSE)
              IN  /\ ~ Better(best, Objective(next))
                  /\ board' = next
                  /\ best' = Objective(next)
    /\ UNCHANGED <<pc, again, soft, pos, job, visit, rounds, left, todo, listed>>

StartRelocations ==
    /\ pc = "gapFill" /\ pc' = "relocate"
    /\ UNCHANGED <<board, control>>

Relocate ==
    /\ pc = "relocate"
    /\ \E l \in Unpinned(board) : \E m \in MovesOf(l) :
          LET without == RemoveLesson(board, l)
              next == PlaceLesson(without, m, FALSE, FALSE)
          IN  /\ board.cell[CellOf(m)] = NoLesson
              /\ CanPlace(without, m, FALSE)
              /\ Accepts(next)
              /\ board' = next
              /\ best' = Objective(next)
    /\ UNCHANGED <<pc, again, soft, pos, job, visit, rounds, left, todo, listed>>

StartSwaps ==
    /\ pc = "relocate" /\ pc' = "swap"
    /\ listed' = board.entries
    /\ UNCHANGED <<board, again, soft, pos, job, visit, rounds, left, todo, best>>

(* a and b are read from the list made when the swaps began: the cells may *)
(* hold other lessons by now, and those are the ones removed.              *)
Swap ==
    /\ pc = "swap"
    /\ \E a, b \in listed :
          /\ CellOf(a) # CellOf(b) /\ a.div = b.div
          /\ {CellOf(a), CellOf(b)} \cap board.pinned = {}
          /\ NoLesson \notin {board.cell[CellOf(a)], board.cell[CellOf(b)]}
          /\ LET without == RemoveLesson(RemoveLesson(board, board.cell[CellOf(a)]),
                                         board.cell[CellOf(b)])
                 one == PlaceLesson(without, Moved(b, a), FALSE, FALSE)
                 next == PlaceLesson(one, Moved(a, b), FALSE, FALSE)
             IN  /\ CanPlace(without, Moved(b, a), FALSE)
                 /\ CanPlace(one, Moved(a, b), FALSE)
                 /\ Accepts(next)
                 /\ board' = next
                 /\ best' = Objective(next)
    /\ UNCHANGED <<pc, again, soft, pos, job, visit, rounds, left, todo, listed>>

\* the search ends after LocalSearchIterations rounds, or before when three
\* rounds in a row changed nothing
FinishSearchRound ==
    /\ pc = "swap"
    /\ listed' = {}
    /\ rounds' = rounds + 1
    /\ \/ rounds + 1 < LocalSearchIterations /\ pc' = "gapFill" /\ UNCHANGED best
       \/ pc' = "gapUtilization" /\ best' = NoObjective
    /\ UNCHANGED <<board, again, soft, pos, job, visit, left, todo>>

-----------------------------------------------------------------------------
(* Optimizers                                                              *)

(* The cross-division unblock and the teacher load balance are no steps:   *)
(* what they would do is stated here, and IdleOptimizers says that they    *)
(* never get to do it.                                                     *)

\* tryCrossDivisionUnblockPass: at a taken cell of a short class, a lesson
\* another class has at the time goes elsewhere, and the short subject is to
\* take the cell; when it cannot, the snapshot comes back
CrossDivisionUnblocks(b, p, day, n) ==
    /\ p \in Shortages(b) /\ SlotActive(n, day) /\ b.cell[<<p[1], day, n>>] # NoLesson
    /\ \E l \in Unpinned(b) :
          /\ l.div # p[1] /\ l.day = day /\ l.slot = n
          /\ \E m \in MovesOf(l) :
                LET without == RemoveLesson(b, l)
                IN  /\ b.cell[CellOf(m)] = NoLesson /\ CanPlace(without, m, FALSE)
                    /\ Eligible(PlaceLesson(without, m, FALSE, FALSE), p, day, n) # {}

\* runTeacherLoadBalancePass: a lesson that still stands goes to another
\* teacher when the test lets that one take its cell
LoadBalances(b, l, t) ==
    /\ l \in b.entries /\ t # l.teacher
    /\ CanPlace(b, [l EXCEPT !.teacher = t], FALSE)

(* removeLessonEntry(l), then placeLessonAt a target; when that is refused *)
(* l goes back to its own cell, and when that is refused too it is gone.   *)
(* The result is a set of boards, one for each order of the targets.       *)
Relocations(l, targets) ==
    LET without == RemoveLesson(board, l)
        open == {m \in targets : CanPlace(without, m, FALSE)}
        back == CanPlace(without, l, FALSE)
    IN  {PlaceLesson(without, m, FALSE, FALSE) : m \in open}
        \cup (IF targets # open /\ ~ back THEN {without} ELSE {})
        \cup (IF targets # {} /\ open = {} /\ back
              THEN {PlaceLesson(without, l, FALSE, FALSE)} ELSE {})
        \cup (IF targets = {} THEN {board} ELSE {})

DayLoad(p, day) == board.subDay[<<p[1], p[2], day>>]

\* the first day with the most, and the first with the fewest lessons
Busiest(p, i) ==
    \A j \in Days : \/ DayLoad(p, j) < DayLoad(p, i)
                    \/ DayLoad(p, j) = DayLoad(p, i) /\ i <= j
Lightest(p, i) ==
    \A j \in Days : \/ DayLoad(p, j) > DayLoad(p, i)
                    \/ DayLoad(p, j) = DayLoad(p, i) /\ i <= j

\* ceil(required / days), at least 1
FairPerDay(p) ==
    LET share == (WeeklyTarget[p] + NumDays - 1) \div NumDays
    IN  IF share > 1 THEN share ELSE 1

Overloaded(p, busy, light) ==
    /\ board.subWeek[p] >= 2
    /\ DayLoad(p, busy) > FairPerDay(p)
    /\ DayLoad(p, light) < DayLoad(p, busy) - 1
    /\ ~ IsDayBlockedByRule(p[2], light)
    /\ DayLoad(p, light) < MaxPerDay[p]

Distribute ==
    /\ pc = "distribute" /\ pos <= Len(PairOrder)
    /\ pos' = pos + 1
    /\ LET p == PairOrder[pos]
           movable(day) == {l \in LessonsOf(board, p) \cap Unpinned(board) : l.day = day}
           targets(l, day) ==
               {m \in MovesOf(l) : /\ m.day = day /\ SlotActive(m.slot, day)
                                  /\ CellOf(m) \notin board.pinned}
       IN  \E busy, light \in Days :
              /\ Busiest(p, busy) /\ Lightest(p, light)
              /\ \/ /\ Overloaded(p, busy, light)
                    /\ \E l \in movable(busy) : board' \in Relocations(l, targets(l, light))
                 \/ /\ ~ Overloaded(p, busy, light) \/ movable(busy) = {}
                    /\ UNCHANGED board
    /\ UNCHANGED <<pc, again, soft, job, visit, rounds, left, todo, listed, best>>

StartPeriodSpread ==
    /\ pc = "distribute" /\ pos > Len(PairOrder)
    /\ pc' = "spread" /\ pos' = 1
    /\ UNCHANGED <<board, again, soft, job, visit, rounds, left, todo, listed, best>>

\* the lessons of the pair in one slot column that holds three quarters of them
DominantColumn(p) ==
    LET lessons == LessonsOf(board, p)
        column(n) == {l \in lessons : l.slot = n}
        dominant == {n \in LessonSlots : 4 * Cardinality(column(n)) >= 3 * Cardinality(lessons)}
    IN  IF Cardinality(lessons) < 2 THEN {} ELSE UNION {column(n) : n \in dominant}

SpreadPair ==
    /\ pc = "spread" /\ pos <= Len(PairOrder)
    /\ LET movable == DominantColumn(PairOrder[pos]) \cap Unpinned(board)
       IN  \/ movable = {} /\ pos' = pos + 1 /\ UNCHANGED <<pc, listed>>
           \/ movable # {} /\ listed' = movable /\ pc' = "spreadLesson" /\ UNCHANGED pos
    /\ UNCHANGED <<board, again, soft, job, visit, rounds, left, todo, best>>

SpreadTargets(l) ==
    {m \in MovesOf(l) :
        /\ m.slot # l.slot
        /\ SlotActive(m.slot, m.day)
        /\ SoftAllowed(m)
        /\ IsPlacementAllowedByIncludeOnly(m.subject, m.div, m.day, m.slot)
        /\ m.day = l.day \/ board.subDay[PairDay(m)] < MaxPerDay[PairOf(m)]}

\* one lesson of the dominant column; the pair is done when one has moved
SpreadLesson ==
    /\ pc = "spreadLesson"
    /\ \E l \in listed :
          /\ board' \in Relocations(l, SpreadTargets(l))
          /\ \/ /\ l \notin board'.entries /\ Cardinality(board'.entries) = Cardinality(board.entries)
                /\ listed' = {}
             \/ /\ l \in board'.entries \/ Cardinality(board'.entries) < Cardinality(board.entries)
                /\ listed' = listed \ {l}
    /\ IF listed' = {} THEN pc' = "spread" /\ pos' = pos + 1 ELSE UNCHANGED <<pc, pos>>
    /\ UNCHANGED <<again, soft, job, visit, rounds, left, todo, best>>

(* The free-period fill that follows reads the board and changes nothing   *)
(* a property here is about.                                               *)
Finish ==
    /\ pc = "spread" /\ pos > Len(PairOrder)
    /\ pc' = "done"
    /\ UNCHANGED <<board, control>>

\* the attempt has returned
Returned == pc = "done" /\ UNCHANGED vars

-----------------------------------------------------------------------------
Placing ==
    \/ FixedSlot \/ FirstPeriod \/ DailyMin \/ DoubleBlock \/ VisitDay
    \/ GapVisit \/ Fill \/ GapFill

Removing == Undo \/ Strip

Moving == Relocate \/ Swap \/ Distribute \/ SpreadLesson

Steering ==
    \/ StartClassTeacherRules \/ StartDailyMin \/ FinishClassTeacherRules
    \/ AllocatePair \/ StartDoublePass \/ StartVisits \/ FinishPair \/ Backtrack
    \/ FinishUndo
    \/ FinishOrder \/ StartRepairRound \/ RepairPair \/ FinishRepairRound
    \/ ClearLock \/ FinishGap \/ FinishFill \/ StartRelocations \/ StartSwaps
    \/ FinishSearchRound \/ StartPeriodSpread \/ SpreadPair \/ Finish

Next == Placing \/ Removing \/ Moving \/ Steering \/ Returned

Spec == Init /\ [][Next]_vars

\* The attempt is synchronous code that nothing interrupts or blocks.
FairSpec == Spec /\ WF_vars(Next)

-----------------------------------------------------------------------------
(* Properties *)

Passes ==
    {"fixed", "firstPeriod", "dailyMin", "allocate", "double", "visit", "undo",
     "repair", "shortage", "strip", "gap", "fill", "gapFill", "relocate", "swap",
     "gapUtilization", "distribute", "spread", "spreadLesson", "done"}

\* The state has the types of the engine's variables.
TypeOK ==
    /\ board \in Board
    /\ pc \in Passes
    /\ again \in BOOLEAN /\ soft \in BOOLEAN
    /\ pos \in Nat \ {0} /\ visit \in Nat /\ rounds \in Nat /\ left \in Nat
    /\ job \in Pairs \cup {NoPair}
    /\ pc \in {"double", "visit", "undo"} => pos <= Len(Order)
    /\ pc \in {"double", "visit", "undo", "strip", "gap"} => job \in Pairs
    /\ pc \in {"visit", "gap"} => visit # 0
    /\ pc = "firstPeriod" => todo \subseteq FirstPeriodTargets
    /\ pc = "dailyMin" => todo \subseteq DailyMinTargets
    /\ pc = "double" => todo \subseteq DoubleSites
    /\ pc \in {"shortage", "strip", "gap"} => todo \subseteq ApplicablePairs
    /\ listed \subseteq Lesson

(* The two slot maps index exactly the lessons of the entries array:       *)
(* placeEntry and removeLessonFromMapsAndEntry keep them in step through   *)
(* backtracking, lock repair, snapshots and swaps.                         *)
MapsIndexEntries == IndexesEntries(board)

\* The six counters equal what a recount of the entries gives.
CountersCountEntries == CountsEntries(board)

\* No teacher is in two classes at the same time, and no class has two
\* lessons at the same time.
NoClash ==
    \A l, m \in board.entries : CellOf(l) = CellOf(m) \/ TimeOf(l) = TimeOf(m) => l = m

\* No pair is given more lessons than its weekly target, double blocks included.
TargetsKept == \A p \in Pairs : board.subWeek[p] <= WeeklyTarget[p]

(* A lesson that may still be moved is taught by a teacher that holds the  *)
(* lock of its pair, and no lock has more holders than the pair may have   *)
(* teachers, unless all of them were persisted: backtracking and lock      *)
(* repair never leave an unpinned lesson outside the lock.                 *)
UnpinnedLessonsLocked ==
    /\ \A l \in Unpinned(board) : l.teacher \in board.lock[PairOf(l)]
    /\ \A p \in Pairs : \/ Cardinality(board.lock[p]) <= MaxTeachersForPair[p]
                        \/ board.lock[p] \subseteq SeededLocks[p]

(* Every pinned cell holds a lesson, and no pass moves, replaces or drops  *)
(* it.                                                                     *)
KeepsPinned ==
    \A c \in board.pinned : /\ board.cell[c] # NoLesson
                            /\ board'.cell[c] = board.cell[c]
                            /\ c \in board'.pinned
PinnedLessonsStay == [][KeepsPinned]_vars

(* As long as backtracking may read it, the stack holds every lesson of    *)
(* the board once, with its pin: an undo never meets a stale entry.        *)
StackHoldsBoard ==
    pc \in {"fixed", "allocate", "double", "visit", "undo"} =>
        /\ {p.lesson : p \in Range(board.stack)} = board.entries
        /\ Len(board.stack) = Cardinality(board.entries)
        /\ \A p \in Range(board.stack) : p.pinned = IsPinned(board, p.lesson)

(* The local search never turns the timetable into one that is worse by    *)
(* its lexicographic objective, although the swaps read a list of lessons  *)
(* that may be out of date.                                                *)
Searching == pc \in {"gapFill", "relocate", "swap"}
NotWorse == Searching => ~ Better(Objective(board), Objective(board'))
SearchNeverWorsens == [][NotWorse]_vars

(* Neither the cross-division unblock nor the teacher load balance can     *)
(* change a timetable: each asks canPlaceAssignment for a cell that holds  *)
(* a lesson, on every board the engine reaches.                            *)
IdleOptimizers ==
    /\ \A p \in Pairs, day \in Days, n \in Slots : ~ CrossDivisionUnblocks(board, p, day, n)
    /\ \A l \in board.entries, t \in Teachers : ~ LoadBalances(board, l, t)

(* Without double blocks a pair has no more lessons a day than its         *)
(* maxPerDay, and a teacher stays within the daily, morning, afternoon and *)
(* weekly capacities, whatever is placed, moved and taken away.            *)
LimitsKept ==
    /\ \A p \in Pairs, day \in Days : DayLoad(p, day) <= MaxPerDay[p]
    /\ \A t \in Teachers : board.weekly[t] <= WeeklyCapacity[t]
    /\ \A t \in Teachers, day \in Days :
          /\ board.daily[<<t, day>>] <= DailyCapacity[t]
          /\ \A h \in Halves : board.session[<<t, day, h>>] <= SessionCapacity[<<t, h>>]

\* A double block exceeds a daily limit or capacity by one period at most.
OvershootByOne ==
    /\ \A p \in Pairs, day \in Days : DayLoad(p, day) <= MaxPerDay[p] + 1
    /\ \A t \in Teachers : board.weekly[t] <= WeeklyCapacity[t] + 1
    /\ \A t \in Teachers, day \in Days : board.daily[<<t, day>>] <= DailyCapacity[t] + 1

(* A teacher has consecutive lessons in at most one class a day            *)
(* (violatesSingleClassContinuityPerDay).                                  *)
SingleContinuityClass ==
    \A t \in Teachers, day \in Days, d, e \in Divisions :
        HasContinuity(board, t, d, day) /\ HasContinuity(board, t, e, day) => d = e

\* No run of consecutive lessons of one teacher in one class is longer than
\* maxContinuousAnySubjectPerDivision.
ContinuityCapKept ==
    \A t \in Teachers, d \in Divisions, day \in Days, m, n \in LessonSlots :
        (\A k \in LessonSlots : m <= k /\ k <= n => TaughtBy(board, t, d, day, k))
        => Cardinality({k \in LessonSlots : m <= k /\ k <= n}) <= AtLeastOne(Teacher[t].maxAny)

\* The attempt returns, however often it backtracks, repairs and searches.
Terminates == <>(pc = "done")

(* The engine implements the abstract timetable.                           *)
Abstract == INSTANCE TimetableSpec WITH
    Lessons <- Lesson, ClassTime <- CellOf, TeacherTime <- TimeOf,
    Requirement <- PairOf, Target <- LAMBDA p : WeeklyTarget[p],
    lessons <- board.entries,
    fixed <- {l \in board.entries : IsPinned(board, l)}
BuildsATimetable == Abstract!Spec
=============================================================================

------------------------------ MODULE StoredRun ------------------------------
(***************************************************************************)
(* The stored timetable of an organization while several browser tabs edit *)
(* it and the automatic fixes of its validation are approved               *)
(* (server/routes/timetableRoutes.js, validationRoutes.js, the edit        *)
(* session of src/features/timetable).                                     *)
(*                                                                         *)
(* A tab keeps a copy of the board and sends it whole with every edit; the *)
(* server validates and stores what it was sent.  Requests are answered in *)
(* any order, and an answer may be lost.  MaxWrites bounds the edits sent  *)
(* and the fixes approved.                                                 *)
(***************************************************************************)
EXTENDS ManualEdit, SequencesExt

CONSTANTS Tabs,
          Generated,    \* boards the engine may return
          MaxWrites,
          NoLesson, NoDivision    \* absent entries of the engine's maps

ASSUME StoredRunAssumption ==
    /\ Generated \subseteq SUBSET Row /\ MaxWrites \in Nat
    /\ NoLesson \notin Row /\ NoDivision \notin Divisions

VARIABLES
    run,        \* timetable_runs: entries_json, and whether report_json has
                \* what only a generation writes
    findings,   \* those of the TIMETABLE_VALIDATED row of the audit log
    copy,       \* tenant_state.lastGeneratedTimetable.entries, {} when absent
    tab,        \* what a tab shows, may undo and has lined up
    asked,      \* apply-edit requests on their way
    answered,   \* answers on their way
    approval,   \* a fix that has read the run and not yet written it
    writes      \* edits sent and fixes approved so far

vars == <<run, findings, copy, tab, asked, answered, approval, writes>>

\* before is the board the last accepted edit was made on: nothing reads it
Shows(board) == [board |-> board, undo |-> {}, before |-> board, next |-> <<>>]

Init ==
    \E board \in Generated :
        /\ findings = LowRisk(board)
        /\ run = [board |-> AfterFixes(board), diagnostics |-> TRUE]
        /\ copy = {}
        /\ tab = [t \in Tabs |-> Shows(AfterFixes(board))]
        /\ asked = {} /\ answered = {} /\ approval = {} /\ writes = 0

-----------------------------------------------------------------------------
(* Slips a change to this code could make; the models never use them.      *)

\* the record holds what the stored run has in the cells
EditRecordOfRun(board, edit) ==
    [cells |-> {edit.from, edit.to}, was |-> {r \in run.board : RowCell(r) \in {edit.from, edit.to}}]

\* the timetable is added to the saved state, not put in place of the last
KeptBeside(board) == copy \cup {board}

-----------------------------------------------------------------------------
(* The edit session of a tab *)

\* GET /timetable/latest
Load(t) ==
    /\ tab' = [tab EXCEPT ![t] = Shows(run.board)]
    /\ UNCHANGED <<run, findings, copy, asked, answered, approval, writes>>

Request(t, board, next) ==
    [tab |-> t, board |-> board, edit |-> Head(next), next |-> Tail(next)]

\* applyManualEditRequest, applyAddLessonRequest, applyRepairPlanStep
Send(t, next) ==
    /\ asked' = asked \cup {Request(t, tab[t].board, next)}
    /\ tab' = [tab EXCEPT ![t].next = <<>>]
    /\ writes' = writes + 1
    /\ UNCHANGED <<run, findings, copy, answered, approval>>

\* beginEditSource, and the target picked among those offered
MoveOrSwap(t) ==
    writes < MaxWrites /\ \E from \in Grid :
        /\ ~ IsFree(tab[t].board, from)
        /\ \E edit \in Targets(tab[t].board, from, from[1]) : Send(t, <<edit>>)

\* openAddLesson: an option, or where there is none a repair plan
AddOrRepair(t) ==
    writes < MaxWrites /\ \E c \in Grid :
        /\ IsFree(tab[t].board, c)
        /\ LET options == AddOptions(tab[t].board, c)
           IN  \/ \E r \in options : Send(t, <<Adding(r)>>)
               \/ /\ options = {}
                  /\ \E plan \in RepairPlans(tab[t].board, c) :
                        Send(t, Append(plan.steps, Adding(plan.add)))

\* commitAddLesson, once the plan has made room
AddAfterRepair(t) == writes < MaxWrites /\ tab[t].next # <<>> /\ Send(t, tab[t].next)

\* mergeTimetableAfterEdit: board and history are those of the answer
Taken(t, answer) ==
    [board |-> answer.board, undo |-> {answer.record}, before |-> answer.before,
     next |-> <<>>]

(* A tab takes an answer.  A plan's next exchange is sent at once; the     *)
(* lesson it makes room for waits for the user.                            *)
Answer(t) ==
    \E answer \in answered :
        /\ answer.tab = t
        /\ answered' = answered \ {answer}
        /\ IF Len(answer.next) > 1 /\ writes < MaxWrites
           THEN /\ tab' = [tab EXCEPT ![t] = Taken(t, answer)]
                /\ asked' = asked \cup {Request(t, answer.board, answer.next)}
                /\ writes' = writes + 1
           ELSE /\ tab' = [tab EXCEPT ![t] = [Taken(t, answer) EXCEPT !.next = answer.next]]
                /\ UNCHANGED <<asked, writes>>
        /\ UNCHANGED <<run, findings, copy, approval>>

\* the connection fails: the tab reports an error and shows what it showed
LoseAnswer ==
    /\ \E answer \in answered : answered' = answered \ {answer}
    /\ UNCHANGED <<run, findings, copy, tab, asked, approval, writes>>

Undone(board, record) == Without(board, record.cells) \cup record.was

\* applyUndoLastManualEdit: on the tab alone
Undo(t) ==
    /\ tab[t].undo # {}
    /\ \E record \in tab[t].undo :
          tab' = [tab EXCEPT ![t].board = Undone(@, record), ![t].undo = {}]
    /\ UNCHANGED <<run, findings, copy, asked, answered, approval, writes>>

-----------------------------------------------------------------------------
(* The server *)

\* appendManualEditAudit: what the cells held before the edit
EditRecord(board, edit) ==
    [cells |-> {edit.from, edit.to}, was |-> {r \in board : RowCell(r) \in {edit.from, edit.to}}]

\* the timetable saved with the state of the organization
Kept(board) == {board}

(* POST /timetable/apply-edit.  resolveTimetableEditPayload prefers the    *)
(* entries of the request to those of the run; the row was read without    *)
(* its report, so the new report is built from nothing.                    *)
ApplyEdit ==
    \E r \in asked :
        /\ asked' = asked \ {r}
        /\ IF MayApply(r.board, r.edit)
           THEN LET board == Applied(r.board, r.edit)
                IN  /\ run' = [board |-> board, diagnostics |-> FALSE]
                    /\ copy' = Kept(board)
                    /\ answered' = answered \cup
                          {[tab |-> r.tab, board |-> board, before |-> r.board,
                            record |-> EditRecord(r.board, r.edit), next |-> r.next]}
           ELSE UNCHANGED <<run, copy, answered>>
        /\ UNCHANGED <<findings, tab, approval, writes>>

\* POST /validation/findings/:id/apply, up to its read of the run
ReadForFix ==
    /\ approval = {} /\ writes < MaxWrites
    /\ \E finding \in findings :
          approval' = {[board |-> run.board, diagnostics |-> run.diagnostics, finding |-> finding]}
    /\ writes' = writes + 1
    /\ UNCHANGED <<run, findings, copy, tab, asked, answered>>

\* and its write, the report included: both as they were read
WriteFix ==
    /\ \E a \in approval :
          run' = [board |-> Fixed(a.board, a.finding), diagnostics |-> a.diagnostics]
    /\ approval' = {}
    /\ UNCHANGED <<findings, copy, tab, asked, answered, writes>>

TabStep(t) ==
    Load(t) \/ MoveOrSwap(t) \/ AddOrRepair(t) \/ AddAfterRepair(t) \/ Answer(t) \/ Undo(t)
Server == ApplyEdit \/ ReadForFix \/ WriteFix

Next == (\E t \in Tabs : TabStep(t)) \/ LoseAnswer \/ Server

Spec == Init /\ [][Next]_vars

-----------------------------------------------------------------------------
(* Properties *)

\* every variable has its type
TypeOK ==
    LET edits == {"MOVE", "SWAP", "ADD"}
    IN  /\ run.board \subseteq Row /\ run.diagnostics \in BOOLEAN
        /\ copy \subseteq SUBSET Row /\ Cardinality(copy) <= 1
        /\ Cardinality(approval) <= 1 /\ (\A a \in approval : a.diagnostics \in BOOLEAN)
        /\ writes \in 0..MaxWrites
        /\ \A t \in Tabs : /\ tab[t].board \subseteq Row /\ tab[t].before \subseteq Row
                          /\ \A e \in ToSet(tab[t].next) : e.op \in edits
                          /\ \A record \in tab[t].undo : record.was \subseteq Row
        /\ \A r \in asked : r.tab \in Tabs /\ r.board \subseteq Row /\ r.edit.op \in edits
        /\ \A answer \in answered : answer.tab \in Tabs /\ answer.board \subseteq Row

Boards == {run.board} \cup copy \cup {tab[t].board : t \in Tabs}

\* However the edits, undos and fixes of several tabs interleave, no stored
\* or shown timetable has a teacher in two classes at one time or two
\* lessons in one cell (evaluatePlacement ignores the cells of the edit), and
\* no class goes past its weekly or daily number of lessons of a subject, or
\* gets more than one lesson of a double-period subject on a day without a
\* neighbour (relocations skip the limits and rely on the recount of
\* validateSubjectCountsAfterEntries).
NoTeacherTwice(board) ==
    \A q, r \in board : q # r => RowTime(q) # RowTime(r) /\ RowCell(q) # RowCell(r)

CountsKept(board, p) ==
    /\ Cardinality(Of(board, p)) <= WeeklyTarget[p]
    /\ \A day \in Days :
          LET at == {r.slot : r \in On(Of(board, p), day)}
          IN  /\ Cardinality(at) <= MaxPerDay[p]
              /\ Subject[p[2]].double =>
                    Cardinality({n \in at : \A m \in at : ~ Consecutive(m, n) /\ ~ Consecutive(n, m)}) <= 1

EditsKeepTheRules ==
    \A board \in Boards : NoTeacherTwice(board) /\ \A p \in Pairs : CountsKept(board, p)

(* What the proofs ask of the boards an engine returns: the rules an       *)
(* edited board is checked against, and no lesson of a subject that does   *)
(* not apply to its class.                                                 *)
Standing(board) == \A r \in board : RowCell(r) \in Grid

KeepsRules(board) ==
    Standing(board) /\ NoTeacherTwice(board) /\ CountsHold(board) /\ DoublesHold(board)

GeneratedApart == \A board \in Generated : NoTeacherTwice(board)
GeneratedKeepsRules ==
    \A board \in Generated : KeepsRules(board) /\ ApplicabilityMismatch(board) = {}

\* Whatever was in flight, undoing an edit shows the board the edit was made
\* on (applyUndoLastManualEdit replays the record of the server's answer).
UndoRestores ==
    \A t \in Tabs : \A record \in tab[t].undo :
        Undone(tab[t].board, record) = tab[t].before

Engine == INSTANCE Placement

\* the engine's maps of a board: where the lessons are, how many have a key,
\* and locks from the lessons alone
EngineBoard(board) ==
    LET count(key(_), k) == Cardinality({r \in board : key(r) = k})
        at(time) == {r \in board : RowTime(r) = time}
    IN  [entries |-> board,
         cell    |-> [c \in Engine!Cells |-> IF IsFree(board, c) THEN NoLesson ELSE LessonAt(board, c)],
         busy    |-> [k \in Teachers \X Days \X Slots |->
                         IF at(k) = {} THEN NoDivision ELSE (CHOOSE r \in at(k) : TRUE).div],
         daily   |-> [k \in Teachers \X Days |-> count(Engine!TeacherDay, k)],
         session |-> [k \in Teachers \X Days \X Halves |-> count(Engine!TeacherHalf, k)],
         weekly  |-> [t \in Teachers |-> count(LAMBDA r : r.teacher, t)],
         subWeek |-> [p \in Pairs |-> count(Engine!PairOf, p)],
         subDay  |-> [k \in Divisions \X Subjects \X Days |-> count(Engine!PairDay, k)],
         lock    |-> [p \in Pairs |-> {r.teacher : r \in Of(board, p)}],
         pinned  |-> {},
         stack   |-> <<>>]

\* evaluatePlacement "mirrors legacy engine canPlaceAssignment": on every
\* board the run is changed from it lets a new lesson stand in a free cell
\* exactly when the engine, counting the same lessons, would place it there.
MirrorsEngine ==
    [][run' # run =>
          \A c \in Grid, s \in Subjects, t \in Teachers :
              IsFree(run.board, c) =>
                  LET r == [div |-> c[1], day |-> c[2], slot |-> c[3], subject |-> s, teacher |-> t]
                  IN  MayStand(run.board, {c}, r, FALSE)
                      <=> Engine!CanPlace(EngineBoard(run.board), r, FALSE)]_vars

\* A fix approved long after its finding was made takes no class below what
\* the finding expects and touches lessons of no other subject or class
\* (applyApprovedFix counts the surplus anew).
FixesTrimToExpected ==
    [][\A a \in approval : approval' = {} /\ a.finding.code # "SUBJECT_APPLICABILITY_MISMATCH" =>
          LET p == a.finding.pair
              of(board) == IF a.finding.code = "SUBJECT_WEEKLY_OVERFLOW" THEN Of(board, p)
                           ELSE On(Of(board, p), a.finding.day)
          IN  /\ a.board \ run'.board \subseteq of(a.board)
              /\ a.board # run'.board => Cardinality(of(run'.board)) = a.finding.expected
      ]_vars
=============================================================================

--------------------------- MODULE StoredRunProofs ---------------------------
(***************************************************************************)
(* For any number of tabs, edits and fixes in flight: undoing an edit      *)
(* gives the board it was made on, the rules an edit is checked against    *)
(* hold of every board that descends from a generated one that kept them,  *)
(* and a fix never trims below what its finding expects.                   *)
(*                                                                         *)
(* The server checks the board a tab sends, not the stored one, so the     *)
(* rules have to be kept by every copy of a board there is: those the tabs *)
(* show and could fall back to, those of the requests and answers on their *)
(* way, and the one a fix has read (Copies).                               *)
(*                                                                         *)
(* On such a board the editor and the engine judge a new lesson alike: the *)
(* maps the engine keeps hold what the editor counts anew.                 *)
(***************************************************************************)
EXTENDS StoredRun, FiniteSetTheorems, SequenceTheorems, WellFoundedInduction, TLAPS

\* the edits the tabs send
Edits == {Exchange(op, from, to) : op \in {"MOVE", "SWAP"}, from \in Grid, to \in Grid}
         \cup {Adding(r) : r \in {q \in Row : RowCell(q) \in Grid}}

EditRecords == [cells : SUBSET Grid, was : SUBSET Row]

TabStates == [board : SUBSET Row, undo : SUBSET EditRecords, before : SUBSET Row, next : Seq(Edits)]
Requests == [tab : Tabs, board : SUBSET Row, edit : Edits, next : Seq(Edits)]
Replies == [tab : Tabs, board : SUBSET Row, before : SUBSET Row, record : EditRecords,
            next : Seq(Edits)]

\* one or no element
AtMostOne(S) == \A x, y \in S : x = y

Typed ==
    /\ run \in [board : SUBSET Row, diagnostics : BOOLEAN]
    /\ copy \in SUBSET SUBSET Row /\ AtMostOne(copy)
    /\ tab \in [Tabs -> TabStates]
    /\ asked \in SUBSET Requests
    /\ answered \in SUBSET Replies
    /\ AtMostOne(approval) /\ writes \in 0..MaxWrites

FixCodes == {"SUBJECT_WEEKLY_OVERFLOW", "SUBJECT_DAILY_OVERFLOW", "SUBJECT_APPLICABILITY_MISMATCH"}

\* a finding has a code, and a number of lessons it expects
IsFinding(f) ==
    f.code \in FixCodes /\ (f.code # "SUBJECT_APPLICABILITY_MISMATCH" => f.expected \in Nat)

\* a fix has read a board
Findings ==
    /\ \A f \in findings : IsFinding(f)
    /\ \A a \in approval : a.board \in SUBSET Row /\ a.diagnostics \in BOOLEAN /\ IsFinding(a.finding)

\* what a tab or an answer can undo leads back to the board it was made on
Undoable ==
    /\ \A t \in Tabs : \A record \in tab[t].undo : Undone(tab[t].board, record) = tab[t].before
    /\ \A answer \in answered : Undone(answer.board, answer.record) = answer.before

IInv == Typed /\ Findings /\ Undoable

-----------------------------------------------------------------------------
(* Sets of numbers *)

\* from the well-founded order on the naturals, counted down from the bound
LEMMA HasGreatest ==
    ASSUME NEW S \in SUBSET Nat, S # {}, NEW bound \in Nat, \A x \in S : x <= bound
    PROVE  Max(S) \in S /\ \A x \in S : x <= Max(S)
<1> DEFINE gap(x) == bound - x
           T == {gap(x) : x \in S}
           R == OpToRel(<, Nat)
<1>0. \A x \in S : gap(x) \in Nat
  OBVIOUS
<1>1. PICK x \in S : \A y \in S : <<gap(y), gap(x)>> \notin R
  <2>1. T \subseteq Nat /\ T # {}
    BY <1>0
  <2>2. PICK k \in T : \A m \in T : <<m, k>> \notin R
    <3>1. IsWellFoundedOn(R, Nat)
      BY NatLessThanWellFounded
    <3> HIDE DEF T, R
    <3> QED
      BY <2>1, <3>1, WFMin
  <2> QED
    BY <2>2
<1>2. ASSUME NEW y \in S PROVE x >= y
  <2>1. ~ (gap(y) < gap(x))
    BY <1>0, <1>1 DEF OpToRel
  <2>2. x \in Nat /\ y \in Nat
    OBVIOUS
  <2> QED
    BY <2>1, <2>2
<1>3. Max(S) \in S /\ \A y \in S : Max(S) >= y
  BY <1>2 DEF Max
<1> QED
  BY <1>3

-----------------------------------------------------------------------------
(* Lessons and edits *)

LEMMA GridCells == Grid \in SUBSET (Divisions \X Days \X LessonSlots) /\ LessonSlots \in SUBSET Slots
BY DEF Grid, LessonSlots

\* a lesson put in a cell stands there
LEMMA PutAtCell ==
    ASSUME NEW r \in Row, NEW c \in Divisions \X Days \X Slots
    PROVE  /\ PutAt(r, c) \in Row /\ RowCell(PutAt(r, c)) = c
           /\ PutAt(r, c).teacher = r.teacher /\ PutAt(r, c).subject = r.subject
           /\ c = RowCell(r) => PutAt(r, c) = r
<1>1. c = <<c[1], c[2], c[3]>> /\ c[1] \in Divisions /\ c[2] \in Days /\ c[3] \in Slots
  OBVIOUS
<1>2. PutAt(r, c) = [r EXCEPT !.div = c[1], !.day = c[2], !.slot = c[3]]
  BY DEF PutAt
<1>3. PutAt(r, c) = [div |-> c[1], day |-> c[2], slot |-> c[3],
                     subject |-> r.subject, teacher |-> r.teacher]
  BY <1>2 DEF Row
<1>4. r = [div |-> r.div, day |-> r.day, slot |-> r.slot, subject |-> r.subject, teacher |-> r.teacher]
      /\ r.subject \in Subjects /\ r.teacher \in Teachers
  BY DEF Row
<1>5. PutAt(r, c) \in Row
  BY <1>1, <1>3, <1>4 DEF Row
<1>6. RowCell(PutAt(r, c)) = c
  BY <1>1, <1>3 DEF RowCell
<1>7. ASSUME c = RowCell(r) PROVE PutAt(r, c) = r
  BY <1>1, <1>3, <1>4, <1>7 DEF RowCell
<1> QED
  BY <1>3, <1>5, <1>6, <1>7

LEMMA GridIsCells == \A c \in Grid : c \in Divisions \X Days \X Slots
BY GridCells

LEMMA LessonIsThere ==
    ASSUME NEW board \in SUBSET Row, NEW c, ~ IsFree(board, c)
    PROVE  LessonAt(board, c) \in board /\ RowCell(LessonAt(board, c)) = c
BY DEF IsFree, LessonAt

LEMMA EditKinds ==
    ASSUME NEW e \in Edits
    PROVE  \/ /\ e.op = "ADD" /\ e.lesson \in Row /\ RowCell(e.lesson) \in Grid
              /\ e.from = RowCell(e.lesson) /\ e.to = RowCell(e.lesson)
           \/ e.op \in {"MOVE", "SWAP"} /\ e.from \in Grid /\ e.to \in Grid
BY DEF Edits, Exchange, Adding

\* an exchange only puts lessons of the board in the two cells
LEMMA ExchangedRows ==
    ASSUME NEW board \in SUBSET Row, NEW from \in Grid, NEW to \in Grid
    PROVE  \A r \in Exchanged(board, from, to) :
               \/ r \in Without(board, {from, to})
               \/ r \in Row /\ RowCell(r) \in {from, to}
<1> SUFFICES ASSUME NEW r \in Exchanged(board, from, to), r \notin Without(board, {from, to})
             PROVE  r \in Row /\ RowCell(r) \in {from, to}
  OBVIOUS
<1>1. PICK c \in {from, to}, k \in {from, to} : ~ IsFree(board, c) /\ r = PutAt(LessonAt(board, c), k)
  BY DEF Exchanged
<1>2. LessonAt(board, c) \in Row /\ k \in Divisions \X Days \X Slots
  BY <1>1, LessonIsThere, GridIsCells
<1> QED
  BY <1>1, <1>2, PutAtCell

LEMMA AppliedTyped ==
    ASSUME NEW board \in SUBSET Row, NEW e \in Edits
    PROVE  /\ Applied(board, e) \in SUBSET Row
           /\ Without(Applied(board, e), {e.from, e.to}) = Without(board, {e.from, e.to})
<1>1. CASE e.op = "ADD"
  BY <1>1, EditKinds DEF Applied, Without
<1>2. CASE e.op \in {"MOVE", "SWAP"}
  <2>1. e.from \in Grid /\ e.to \in Grid
    BY <1>2, EditKinds
  <2>2. Applied(board, e) = Exchanged(board, e.from, e.to)
    BY <1>2 DEF Applied
  <2>3. Without(board, {e.from, e.to}) \in SUBSET Row
        /\ Without(board, {e.from, e.to}) \subseteq Exchanged(board, e.from, e.to)
    BY DEF Without, Exchanged
  <2>4. \A r \in Exchanged(board, e.from, e.to) :
            \/ r \in Without(board, {e.from, e.to})
            \/ r \in Row /\ RowCell(r) \in {e.from, e.to}
    BY <2>1, ExchangedRows
  <2>5. Exchanged(board, e.from, e.to) \in SUBSET Row
    BY <2>3, <2>4
  <2>6. Without(Exchanged(board, e.from, e.to), {e.from, e.to}) = Without(board, {e.from, e.to})
    BY <2>3, <2>4 DEF Without
  <2> QED
    BY <2>2, <2>5, <2>6
<1> QED
  BY <1>1, <1>2, EditKinds

\* the record of an edit holds what is needed to take it back
LEMMA UndoneApplied ==
    ASSUME NEW board \in SUBSET Row, NEW e \in Edits
    PROVE  /\ EditRecord(board, e) \in EditRecords
           /\ Undone(Applied(board, e), EditRecord(board, e)) = board
<1>1. e.from \in Grid /\ e.to \in Grid
  BY EditKinds
<1>2. EditRecord(board, e) \in EditRecords
  BY <1>1 DEF EditRecord, EditRecords
<1>3. Without(Applied(board, e), {e.from, e.to}) = Without(board, {e.from, e.to})
  BY AppliedTyped
<1>4. Without(board, {e.from, e.to}) \cup {r \in board : RowCell(r) \in {e.from, e.to}} = board
  BY DEF Without
<1> QED
  BY <1>2, <1>3, <1>4 DEF Undone, EditRecord

-----------------------------------------------------------------------------
(* What the tabs send, and the fixes *)

LEMMA ExchangeFields ==
    ASSUME NEW op, NEW from, NEW to
    PROVE  Exchange(op, from, to).op = op /\ Exchange(op, from, to).from = from
           /\ Exchange(op, from, to).to = to
BY DEF Exchange

LEMMA TargetsTyped ==
    ASSUME NEW board, NEW from, NEW scope
    PROVE  Targets(board, from, scope) \subseteq Edits
<1> SUFFICES ASSUME NEW e \in Targets(board, from, scope) PROVE e \in Edits
  OBVIOUS
<1>1. PICK op \in {"MOVE", "SWAP"}, to \in Grid :
          e = Exchange(op, from, to) /\ MayApply(board, e)
  BY DEF Targets
<1>2. e.op = op /\ e.from = from /\ e.to = to
  BY <1>1, ExchangeFields
<1>3. MayExchange(board, op, from, to)
  BY <1>1, <1>2 DEF MayApply
<1>4. from \in Grid
  BY <1>3 DEF MayExchange
<1> QED
  BY <1>1, <1>4 DEF Edits

\* the lesson a tab adds stands in the cell it was asked for
LEMMA LessonsForCell ==
    ASSUME NEW c \in Grid,
           NEW q \in [div : {c[1]}, day : {c[2]}, slot : {c[3]}, subject : Subjects, teacher : Teachers]
    PROVE  PutAt(q, c) \in Row /\ RowCell(PutAt(q, c)) = c
<1>1. c \in Divisions \X Days \X Slots
  BY GridIsCells
<1>2. q \in Row
  BY <1>1 DEF Row
<1> QED
  BY <1>1, <1>2, PutAtCell

LEMMA AddingTyped ==
    ASSUME NEW r \in Row, RowCell(r) \in Grid
    PROVE  Adding(r) \in Edits
BY DEF Edits

LEMMA AddOptionsTyped ==
    ASSUME NEW board, NEW c \in Grid, NEW r \in AddOptions(board, c)
    PROVE  r \in Row /\ RowCell(r) \in Grid
BY LessonsForCell DEF AddOptions

LEMMA RepairableTyped ==
    ASSUME NEW board, NEW c \in Grid, NEW r \in Repairable(board, c)
    PROVE  r \in Row /\ RowCell(r) \in Grid
BY LessonsForCell DEF Repairable

LEMMA PlanTyped ==
    ASSUME NEW board, NEW c \in Grid, NEW plan \in RepairPlans(board, c)
    PROVE  /\ Append(plan.steps, Adding(plan.add)) \in Seq(Edits)
           /\ Append(plan.steps, Adding(plan.add)) # <<>>
<1> DEFINE sources == Blockers(board, c)
           one == {<<step>> : step \in StepsFrom(board, sources)}
           two == UNION {{<<s[1], step>> : step \in StepsFrom(Applied(board, s[1]), sources)} : s \in one}
<1>1. \A b : StepsFrom(b, sources) \subseteq Edits
  BY TargetsTyped DEF StepsFrom
<1>2. one \subseteq Seq(Edits)
  <2> SUFFICES ASSUME NEW step \in StepsFrom(board, sources) PROVE <<step>> \in Seq(Edits)
    OBVIOUS
  <2>1. step \in Edits
    BY <1>1
  <2> QED
    BY <2>1
<1>3. two \subseteq Seq(Edits)
  <2> SUFFICES ASSUME NEW q \in two PROVE q \in Seq(Edits)
    OBVIOUS
  <2>0. PICK s \in one : q \in {<<s[1], step>> : step \in StepsFrom(Applied(board, s[1]), sources)}
    OBVIOUS
  <2>5. PICK step \in StepsFrom(Applied(board, s[1]), sources) : q = <<s[1], step>>
    BY <2>0
  <2>1. PICK e \in StepsFrom(board, sources) : s = <<e>>
    OBVIOUS
  <2>2. s[1] = e
    BY <2>1
  <2>3. s[1] \in Edits /\ step \in Edits
    BY <1>1, <2>2
  <2> QED
    BY <2>3, <2>5
<1>4. plan.steps \in one \cup two /\ plan.add \in Repairable(board, c)
  BY DEF RepairPlans
<1> HIDE DEF one, two
<1>5. plan.steps \in Seq(Edits)
  BY <1>2, <1>3, <1>4
<1>6. Adding(plan.add) \in Edits
  BY <1>4, RepairableTyped, AddingTyped
<1> QED
  BY <1>5, <1>6

\* a fix only takes lessons away
LEMMA FixedTakes ==
    ASSUME NEW board \in SUBSET Row, NEW f, IsFinding(f)
    PROVE  Fixed(board, f) \subseteq board
BY DEF Fixed, IsFinding, FixCodes, Without

LEMMA ReportedNat ==
    ASSUME NEW p \in Pairs
    PROVE  /\ WeeklyTarget[p] \in Nat /\ ReportedWeekly(p) \in Nat /\ ReportedPerDay(p) \in Nat
           /\ WeeklyTarget[p] <= ReportedWeekly(p)
<1>1. p[1] \in Divisions /\ p[2] \in Subjects
  BY DEF Pairs
<1>2. WeeklyTarget[p] = IF p[1] \in DOMAIN Subject[p[2]].weeklyIn
                        THEN Subject[p[2]].weeklyIn[p[1]]
                        ELSE Subject[p[2]].weekly
  BY DEF WeeklyTarget
<1>3. WeeklyTarget[p] \in Nat
  BY <1>1, <1>2, SchoolAssumption
<1> QED
  BY <1>1, <1>3, SchoolAssumption DEF ReportedWeekly, ReportedPerDay, AtLeastOne

LEMMA LowRiskFindings ==
    ASSUME NEW board, NEW f \in LowRisk(board)
    PROVE  IsFinding(f)
<1>1. CASE \E p \in WeeklyOverflow(board) :
               f = [code |-> "SUBJECT_WEEKLY_OVERFLOW", pair |-> p, expected |-> ReportedWeekly(p),
                    actual |-> Cardinality(Of(board, p))]
  <2>1. PICK p \in Pairs : f.code = "SUBJECT_WEEKLY_OVERFLOW" /\ f.expected = ReportedWeekly(p)
    BY <1>1 DEF WeeklyOverflow
  <2> QED
    BY <2>1, ReportedNat DEF IsFinding, FixCodes
<1>2. CASE \E k \in DailyOverflow(board) :
               f = [code |-> "SUBJECT_DAILY_OVERFLOW", pair |-> k[1], day |-> k[2],
                    expected |-> ReportedPerDay(k[1]), actual |-> Cardinality(On(Of(board, k[1]), k[2]))]
  <2>1. PICK k \in Pairs \X Days : f.code = "SUBJECT_DAILY_OVERFLOW" /\ f.expected = ReportedPerDay(k[1])
    BY <1>2 DEF DailyOverflow
  <2> QED
    BY <2>1, ReportedNat DEF IsFinding, FixCodes
<1>3. CASE \E r \in ApplicabilityMismatch(board) :
               f = [code |-> "SUBJECT_APPLICABILITY_MISMATCH", cell |-> RowCell(r)]
  BY <1>3 DEF IsFinding, FixCodes
<1> QED
  BY <1>1, <1>2, <1>3 DEF LowRisk

LEMMA FixedAllTakes ==
    ASSUME NEW board, NEW found
    PROVE  FixedAll(board, found) \subseteq board
BY DEF FixedAll

LEMMA AfterFixesTakes ==
    ASSUME NEW board
    PROVE  AfterFixes(board) \subseteq board
<1> DEFINE of(code) == {f \in LowRisk(board) : f.code = code}
           first == FixedAll(board, of("SUBJECT_WEEKLY_OVERFLOW"))
           second == FixedAll(first, of("SUBJECT_DAILY_OVERFLOW"))
<1>1. first \subseteq board /\ second \subseteq first
  BY FixedAllTakes
<1>2. FixedAll(second, of("SUBJECT_APPLICABILITY_MISMATCH")) \subseteq second
  BY FixedAllTakes
<1>3. AfterFixes(board) = FixedAll(second, of("SUBJECT_APPLICABILITY_MISMATCH"))
  BY DEF AfterFixes
<1> QED
  BY <1>1, <1>2, <1>3

-----------------------------------------------------------------------------
(* The inductive invariant *)

LEMMA ShowsTyped ==
    ASSUME NEW board \in SUBSET Row
    PROVE  Shows(board) \in TabStates /\ Shows(board).undo = {}
BY DEF Shows, TabStates

LEMMA InitIInv == Init => IInv
<1> SUFFICES ASSUME Init PROVE IInv
  OBVIOUS
<1>1. PICK board \in Generated :
          /\ findings = LowRisk(board)
          /\ run = [board |-> AfterFixes(board), diagnostics |-> TRUE]
          /\ tab = [t \in Tabs |-> Shows(AfterFixes(board))]
  BY DEF Init
<1>2. copy = {} /\ asked = {} /\ answered = {} /\ approval = {} /\ writes = 0
  BY DEF Init
<1>3. AfterFixes(board) \in SUBSET Row
  BY AfterFixesTakes, StoredRunAssumption
<1>4. Shows(AfterFixes(board)) \in TabStates /\ Shows(AfterFixes(board)).undo = {}
  BY <1>3, ShowsTyped
<1>5. Typed
  BY <1>1, <1>2, <1>3, <1>4, StoredRunAssumption DEF Typed, AtMostOne
<1>6. Findings
  BY <1>1, <1>2, LowRiskFindings DEF Findings
<1>7. Undoable
  BY <1>1, <1>2, <1>4 DEF Undoable
<1> QED
  BY <1>5, <1>6, <1>7 DEF IInv

\* a tab comes to show a board it can undo to the board before
LEMMA TabChanges ==
    ASSUME IInv, NEW t \in Tabs, NEW s \in TabStates, tab' = [tab EXCEPT ![t] = s],
           \A record \in s.undo : Undone(s.board, record) = s.before
    PROVE  /\ tab' \in [Tabs -> TabStates]
           /\ \A u \in Tabs : \A record \in tab'[u].undo : Undone(tab'[u].board, record) = tab'[u].before
<1>1. tab \in [Tabs -> TabStates]
  BY DEF IInv, Typed
<1>2. \A u \in Tabs : tab'[u] = IF u = t THEN s ELSE tab[u]
  BY <1>1
<1>3. \A u \in Tabs : \A record \in tab[u].undo : Undone(tab[u].board, record) = tab[u].before
  BY DEF IInv, Undoable
<1>4. tab' \in [Tabs -> TabStates]
  BY <1>1
<1> QED
  BY <1>2, <1>3, <1>4

LEMMA LoadStep ==
    ASSUME IInv, NEW t \in Tabs, Load(t)
    PROVE  IInv'
<1>1. run.board \in SUBSET Row /\ tab' = [tab EXCEPT ![t] = Shows(run.board)]
      /\ UNCHANGED <<run, findings, copy, asked, answered, approval, writes>>
  BY DEF IInv, Typed, Load
<1>2. Shows(run.board) \in TabStates /\ Shows(run.board).undo = {}
  BY <1>1, ShowsTyped
<1>3. /\ tab' \in [Tabs -> TabStates]
      /\ \A u \in Tabs : \A record \in tab'[u].undo : Undone(tab'[u].board, record) = tab'[u].before
  BY <1>1, <1>2, TabChanges
<1>4. Typed'
  BY <1>1, <1>3 DEF IInv, Typed, AtMostOne
<1>5. Findings' /\ Undoable'
  BY <1>1, <1>3 DEF IInv, Findings, Undoable
<1> QED
  BY <1>4, <1>5 DEF IInv

\* an edit is sent, and what follows it kept for later
LEMMA SendStep ==
    ASSUME IInv, NEW t \in Tabs, NEW next \in Seq(Edits), next # <<>>, writes < MaxWrites,
           Send(t, next)
    PROVE  IInv'
<1> DEFINE s == [tab[t] EXCEPT !.next = <<>>]
<1>1. /\ asked' = asked \cup {Request(t, tab[t].board, next)}
      /\ tab' = [tab EXCEPT ![t] = s] /\ writes' = writes + 1
      /\ UNCHANGED <<run, findings, copy, answered, approval>>
  BY DEF Send
<1>2. tab[t] \in TabStates
  BY DEF IInv, Typed
<1>3. s \in TabStates /\ s.undo = tab[t].undo /\ s.board = tab[t].board /\ s.before = tab[t].before
  <2>1. s = [board |-> tab[t].board, undo |-> tab[t].undo, before |-> tab[t].before, next |-> <<>>]
    BY <1>2 DEF TabStates
  <2>2. <<>> \in Seq(Edits)
    OBVIOUS
  <2> HIDE DEF s
  <2> QED
    BY <1>2, <2>1, <2>2 DEF TabStates
<1>4. \A record \in s.undo : Undone(s.board, record) = s.before
  BY <1>3 DEF IInv, Undoable
<1> HIDE DEF s
<1>5. /\ tab' \in [Tabs -> TabStates]
      /\ \A u \in Tabs : \A record \in tab'[u].undo : Undone(tab'[u].board, record) = tab'[u].before
  BY <1>1, <1>3, <1>4, TabChanges
<1>6. Request(t, tab[t].board, next) \in Requests
  BY <1>2, HeadTailProperties DEF Request, Requests, TabStates
<1>7. writes' \in 0..MaxWrites
  BY <1>1, StoredRunAssumption DEF IInv, Typed
<1>8. Typed'
  BY <1>1, <1>5, <1>6, <1>7 DEF IInv, Typed, AtMostOne
<1>9. Findings' /\ Undoable'
  BY <1>1, <1>5 DEF IInv, Findings, Undoable
<1> QED
  BY <1>8, <1>9 DEF IInv

LEMMA SendingActions ==
    ASSUME NEW t \in Tabs, tab[t] \in TabStates,
           MoveOrSwap(t) \/ AddOrRepair(t) \/ AddAfterRepair(t)
    PROVE  writes < MaxWrites /\ \E next \in Seq(Edits) : next # <<>> /\ Send(t, next)
<1>1. CASE MoveOrSwap(t)
  <2>1. PICK from \in Grid : \E edit \in Targets(tab[t].board, from, from[1]) : Send(t, <<edit>>)
    BY <1>1 DEF MoveOrSwap
  <2>2. PICK edit \in Targets(tab[t].board, from, from[1]) : Send(t, <<edit>>)
    BY <2>1
  <2>3. edit \in Edits
    BY TargetsTyped
  <2>4. <<edit>> \in Seq(Edits) /\ <<edit>> # <<>>
    BY <2>3
  <2> QED
    BY <1>1, <2>2, <2>4 DEF MoveOrSwap
<1>2. CASE AddOrRepair(t)
  <2>1. PICK c \in Grid :
            \/ \E r \in AddOptions(tab[t].board, c) : Send(t, <<Adding(r)>>)
            \/ \E plan \in RepairPlans(tab[t].board, c) : Send(t, Append(plan.steps, Adding(plan.add)))
    BY <1>2 DEF AddOrRepair
  <2>2. CASE \E r \in AddOptions(tab[t].board, c) : Send(t, <<Adding(r)>>)
    <3>1. PICK r \in AddOptions(tab[t].board, c) : Send(t, <<Adding(r)>>)
      BY <2>2
    <3>2. Adding(r) \in Edits
      BY AddOptionsTyped, AddingTyped
    <3>3. <<Adding(r)>> \in Seq(Edits) /\ <<Adding(r)>> # <<>>
      BY <3>2
    <3> QED
      BY <1>2, <3>1, <3>3 DEF AddOrRepair
  <2>3. CASE \E plan \in RepairPlans(tab[t].board, c) : Send(t, Append(plan.steps, Adding(plan.add)))
    BY <1>2, <2>3, PlanTyped DEF AddOrRepair
  <2> QED
    BY <2>1, <2>2, <2>3
<1>3. CASE AddAfterRepair(t)
  BY <1>3 DEF AddAfterRepair, TabStates
<1> QED
  BY <1>1, <1>2, <1>3

LEMMA TakenFields ==
    ASSUME NEW t, NEW answer \in Replies, NEW next \in Seq(Edits)
    PROVE  /\ Taken(t, answer) \in TabStates /\ [Taken(t, answer) EXCEPT !.next = next] \in TabStates
           /\ Taken(t, answer).undo = {answer.record} /\ Taken(t, answer).board = answer.board
           /\ Taken(t, answer).before = answer.before
           /\ [Taken(t, answer) EXCEPT !.next = next].undo = {answer.record}
           /\ [Taken(t, answer) EXCEPT !.next = next].board = answer.board
           /\ [Taken(t, answer) EXCEPT !.next = next].before = answer.before
BY DEF Taken, TabStates, Replies

LEMMA AnswerStep ==
    ASSUME IInv, NEW t \in Tabs, Answer(t)
    PROVE  IInv'
<1>1. PICK answer \in answered :
          /\ answered' = answered \ {answer}
          /\ IF Len(answer.next) > 1 /\ writes < MaxWrites
             THEN /\ tab' = [tab EXCEPT ![t] = Taken(t, answer)]
                  /\ asked' = asked \cup {Request(t, answer.board, answer.next)}
                  /\ writes' = writes + 1
             ELSE /\ tab' = [tab EXCEPT ![t] = [Taken(t, answer) EXCEPT !.next = answer.next]]
                  /\ UNCHANGED <<asked, writes>>
          /\ UNCHANGED <<run, findings, copy, approval>>
  BY DEF Answer
<1>2. answer \in Replies /\ answer.next \in Seq(Edits) /\ answer.board \in SUBSET Row
      /\ Undone(answer.board, answer.record) = answer.before
  BY DEF IInv, Typed, Undoable, Replies
<1>3. PICK s \in {Taken(t, answer), [Taken(t, answer) EXCEPT !.next = answer.next]} :
          tab' = [tab EXCEPT ![t] = s]
  BY <1>1
<1>4. s \in TabStates /\ s.undo = {answer.record} /\ s.board = answer.board /\ s.before = answer.before
  <2>1. CASE s = Taken(t, answer)
    BY <1>2, <2>1, TakenFields
  <2>2. CASE s = [Taken(t, answer) EXCEPT !.next = answer.next]
    BY <1>2, <2>2, TakenFields
  <2> QED
    BY <2>1, <2>2
<1>5. /\ tab' \in [Tabs -> TabStates]
      /\ \A u \in Tabs : \A record \in tab'[u].undo : Undone(tab'[u].board, record) = tab'[u].before
  BY <1>2, <1>3, <1>4, TabChanges
<1>6. asked' \in SUBSET Requests /\ writes' \in 0..MaxWrites
  <2>1. CASE Len(answer.next) > 1 /\ writes < MaxWrites
    <3>1. answer.next # <<>>
      BY <1>2, <2>1
    <3>2. Request(t, answer.board, answer.next) \in Requests
      BY <1>2, <3>1, HeadTailProperties DEF Request, Requests
    <3> QED
      BY <1>1, <2>1, <3>2, StoredRunAssumption DEF IInv, Typed
  <2>2. CASE ~ (Len(answer.next) > 1 /\ writes < MaxWrites)
    BY <1>1, <2>2 DEF IInv, Typed
  <2> QED
    BY <2>1, <2>2
<1>7. Typed'
  BY <1>1, <1>5, <1>6 DEF IInv, Typed, AtMostOne
<1>8. Findings' /\ Undoable'
  BY <1>1, <1>5 DEF IInv, Findings, Undoable
<1> QED
  BY <1>7, <1>8 DEF IInv

LEMMA LoseAnswerStep ==
    ASSUME IInv, LoseAnswer
    PROVE  IInv'
BY DEF IInv, Typed, AtMostOne, Findings, Undoable, LoseAnswer

LEMMA UndoStep ==
    ASSUME IInv, NEW t \in Tabs, Undo(t)
    PROVE  IInv' /\ tab' = [tab EXCEPT ![t].board = tab[t].before, ![t].undo = {}]
<1>1. PICK record \in tab[t].undo :
          tab' = [tab EXCEPT ![t].board = Undone(@, record), ![t].undo = {}]
  BY DEF Undo
<1> DEFINE s == [tab[t] EXCEPT !.board = Undone(@, record), !.undo = {}]
<1>2. tab' = [tab EXCEPT ![t] = s] /\ UNCHANGED <<run, findings, copy, asked, answered, approval, writes>>
  BY <1>1 DEF Undo
<1>3. tab[t] \in TabStates /\ Undone(tab[t].board, record) = tab[t].before
  BY <1>1 DEF IInv, Typed, Undoable
<1>4. s \in TabStates /\ s.undo = {}
  BY <1>3 DEF TabStates
<1> HIDE DEF s
<1>5. /\ tab' \in [Tabs -> TabStates]
      /\ \A u \in Tabs : \A r \in tab'[u].undo : Undone(tab'[u].board, r) = tab'[u].before
  BY <1>2, <1>4, TabChanges
<1>6. Typed'
  BY <1>2, <1>5 DEF IInv, Typed, AtMostOne
<1>7. Findings' /\ Undoable'
  BY <1>2, <1>5 DEF IInv, Findings, Undoable
<1>8. tab' = [tab EXCEPT ![t].board = tab[t].before, ![t].undo = {}]
  BY <1>1, <1>3
<1> QED
  BY <1>6, <1>7, <1>8 DEF IInv

LEMMA ApplyEditStep ==
    ASSUME IInv, ApplyEdit
    PROVE  IInv'
<1>1. PICK r \in asked :
          /\ asked' = asked \ {r}
          /\ IF MayApply(r.board, r.edit)
             THEN LET board == Applied(r.board, r.edit)
                  IN  /\ run' = [board |-> board, diagnostics |-> FALSE]
                      /\ copy' = Kept(board)
                      /\ answered' = answered \cup
                            {[tab |-> r.tab, board |-> board, before |-> r.board,
                              record |-> EditRecord(r.board, r.edit), next |-> r.next]}
             ELSE UNCHANGED <<run, copy, answered>>
          /\ UNCHANGED <<findings, tab, approval, writes>>
  BY DEF ApplyEdit
<1> DEFINE board == Applied(r.board, r.edit)
           reply == [tab |-> r.tab, board |-> board, before |-> r.board,
                     record |-> EditRecord(r.board, r.edit), next |-> r.next]
<1>2. r \in Requests
  BY DEF IInv, Typed
<1>3. r.tab \in Tabs /\ r.board \in SUBSET Row /\ r.edit \in Edits /\ r.next \in Seq(Edits)
  BY <1>2 DEF Requests
<1>4. board \in SUBSET Row
  BY <1>3, AppliedTyped
<1>5. EditRecord(r.board, r.edit) \in EditRecords
      /\ Undone(board, EditRecord(r.board, r.edit)) = r.board
  BY <1>3, UndoneApplied
<1>6. reply \in Replies /\ Undone(reply.board, reply.record) = reply.before
  BY <1>3, <1>4, <1>5 DEF Replies
<1>7. CASE MayApply(r.board, r.edit)
  <2>1. run' = [board |-> board, diagnostics |-> FALSE] /\ copy' = {board}
        /\ answered' = answered \cup {reply}
    BY <1>1, <1>7 DEF Kept
  <2> HIDE DEF board, reply
  <2>2. Typed'
    BY <1>1, <1>4, <1>6, <2>1 DEF IInv, Typed, AtMostOne
  <2>3. Findings' /\ Undoable'
    BY <1>1, <1>6, <2>1 DEF IInv, Findings, Undoable
  <2> QED
    BY <2>2, <2>3 DEF IInv
<1>8. CASE ~ MayApply(r.board, r.edit)
  <2>1. UNCHANGED <<run, copy, answered, findings, tab, approval, writes>> /\ asked' = asked \ {r}
    BY <1>1, <1>8
  <2> QED
    BY <2>1 DEF IInv, Typed, AtMostOne, Findings, Undoable
<1> QED
  BY <1>7, <1>8

LEMMA ReadForFixStep ==
    ASSUME IInv, ReadForFix
    PROVE  IInv'
<1>1. PICK finding \in findings : approval' =
          {[board |-> run.board, diagnostics |-> run.diagnostics, finding |-> finding]}
  BY DEF ReadForFix
<1>2. UNCHANGED <<run, findings, copy, tab, asked, answered>> /\ writes < MaxWrites /\ writes' = writes + 1
  BY DEF ReadForFix
<1>3. writes' \in 0..MaxWrites
  BY <1>2, StoredRunAssumption DEF IInv, Typed
<1>4. run.board \in SUBSET Row /\ run.diagnostics \in BOOLEAN /\ IsFinding(finding)
  BY DEF IInv, Typed, Findings
<1>5. Typed'
  BY <1>1, <1>2, <1>3 DEF IInv, Typed, AtMostOne
<1>6. Findings' /\ Undoable'
  BY <1>1, <1>2, <1>4 DEF IInv, Findings, Undoable
<1> QED
  BY <1>5, <1>6 DEF IInv

LEMMA WriteFixStep ==
    ASSUME IInv, WriteFix
    PROVE  IInv'
<1>1. PICK a \in approval : run' = [board |-> Fixed(a.board, a.finding), diagnostics |-> a.diagnostics]
  BY DEF WriteFix
<1>2. UNCHANGED <<findings, copy, tab, asked, answered, writes>> /\ approval' = {}
  BY DEF WriteFix
<1>3. a.board \in SUBSET Row /\ a.diagnostics \in BOOLEAN /\ IsFinding(a.finding)
  BY DEF IInv, Findings
<1>4. Fixed(a.board, a.finding) \in SUBSET Row
  BY <1>3, FixedTakes
<1>5. run' \in [board : SUBSET Row, diagnostics : BOOLEAN]
  BY <1>1, <1>3, <1>4
<1>6. Typed'
  BY <1>2, <1>5 DEF IInv, Typed, AtMostOne
<1>7. Findings' /\ Undoable'
  BY <1>2 DEF IInv, Findings, Undoable
<1> QED
  BY <1>6, <1>7 DEF IInv

LEMMA NextIInv ==
    ASSUME IInv, [Next]_vars
    PROVE  IInv'
<1>1. ASSUME NEW t \in Tabs, TabStep(t) PROVE IInv'
  <2>1. tab[t] \in TabStates
    BY DEF IInv, Typed
  <2>2. CASE MoveOrSwap(t) \/ AddOrRepair(t) \/ AddAfterRepair(t)
    BY <2>1, <2>2, SendingActions, SendStep
  <2> QED
    BY <1>1, <2>2, LoadStep, AnswerStep, UndoStep DEF TabStep
<1>2. CASE UNCHANGED vars
  BY <1>2 DEF vars, IInv, Typed, AtMostOne, Findings, Undoable
<1> QED
  BY <1>1, <1>2, LoseAnswerStep, ApplyEditStep, ReadForFixStep, WriteFixStep DEF Next, Server

\* every variable has its type, the fixes are of known findings, and undoing
\* leads back: this is the inductive invariant
THEOREM RunInvariance == Spec => []IInv
<1> QED
  BY InitIInv, NextIInv, PTL DEF Spec

\* every variable of the stored run has its type
THEOREM RunTypes == Spec => []TypeOK
<1>1. ASSUME IInv PROVE TypeOK
  <2>1. \A S : AtMostOne(S) => Cardinality(S) <= 1
    <3> SUFFICES ASSUME NEW S, AtMostOne(S) PROVE Cardinality(S) <= 1
      OBVIOUS
    <3>1. CASE S = {}
      BY <3>1, FS_EmptySet
    <3>2. CASE S # {}
      <4>1. PICK x : S = {x}
        BY <3>2 DEF AtMostOne
      <4>2. Cardinality({x}) = 1
        BY FS_Singleton
      <4> QED
        BY <4>1, <4>2
    <3> QED
      BY <3>1, <3>2
  <2>2. \A e \in Edits : e.op \in {"MOVE", "SWAP", "ADD"}
    BY EditKinds
  <2>3. /\ run.board \subseteq Row /\ run.diagnostics \in BOOLEAN
        /\ copy \subseteq SUBSET Row /\ Cardinality(copy) <= 1
        /\ Cardinality(approval) <= 1 /\ (\A a \in approval : a.diagnostics \in BOOLEAN)
        /\ writes \in 0..MaxWrites
    BY <1>1, <2>1 DEF IInv, Typed, Findings
  <2>4. ASSUME NEW t \in Tabs
        PROVE  /\ tab[t].board \subseteq Row /\ tab[t].before \subseteq Row
               /\ \A e \in ToSet(tab[t].next) : e.op \in {"MOVE", "SWAP", "ADD"}
               /\ \A record \in tab[t].undo : record.was \subseteq Row
    <3>1. tab[t] \in TabStates
      BY <1>1 DEF IInv, Typed
    <3>2. tab[t].next \in Seq(Edits) /\ tab[t].undo \subseteq EditRecords
      BY <3>1 DEF TabStates
    <3>3. \A e \in ToSet(tab[t].next) : e \in Edits
      BY <3>2 DEF ToSet
    <3> QED
      BY <2>2, <3>1, <3>2, <3>3 DEF TabStates, EditRecords
  <2>5. \A r \in asked : r.tab \in Tabs /\ r.board \subseteq Row /\ r.edit.op \in {"MOVE", "SWAP", "ADD"}
    BY <1>1, <2>2 DEF IInv, Typed, Requests
  <2>6. \A answer \in answered : answer.tab \in Tabs /\ answer.board \subseteq Row
    BY <1>1 DEF IInv, Typed, Replies
  <2> QED
    BY <2>3, <2>4, <2>5, <2>6 DEF TypeOK
<1> QED
  BY <1>1, RunInvariance, PTL

\* However the edits, answers and fixes of the tabs interleave, undoing an
\* edit shows the board the edit was made on: the record the server returns
\* is taken from the board of the request, so it undoes the answer's board,
\* and a tab takes the two together (mergeTimetableAfterEdit).
THEOREM UndoLeadsBack == Spec => []UndoRestores
<1>1. IInv => UndoRestores
  BY DEF IInv, Undoable, UndoRestores
<1> QED
  BY <1>1, RunInvariance, PTL

-----------------------------------------------------------------------------
(* All the boards there are, and where they come from *)

Copies ==
    Boards \cup {tab[t].before : t \in Tabs} \cup {r.board : r \in asked}
    \cup {answer.board : answer \in answered} \cup {answer.before : answer \in answered}
    \cup {a.board : a \in approval}

\* the copies, and what an edit or the fix under way makes of one
Descendants ==
    Copies
    \cup {Applied(c[1], c[2]) : c \in {k \in Copies \X Edits : MayApply(k[1], k[2])}}
    \cup {Fixed(a.board, a.finding) : a \in approval}

LEMMA CopiesAre ==
    /\ run.board \in Copies /\ copy \subseteq Copies
    /\ \A t \in Tabs : tab[t].board \in Copies /\ tab[t].before \in Copies
    /\ \A r \in asked : r.board \in Copies
    /\ \A answer \in answered : answer.board \in Copies /\ answer.before \in Copies
    /\ \A a \in approval : a.board \in Copies
BY DEF Copies, Boards

LEMMA CopiesNext ==
    ASSUME NEW S,
           run'.board \in S, copy' \subseteq S,
           \A t \in Tabs : tab'[t].board \in S /\ tab'[t].before \in S,
           \A r \in asked' : r.board \in S,
           \A answer \in answered' : answer.board \in S /\ answer.before \in S,
           \A a \in approval' : a.board \in S
    PROVE  Copies' \subseteq S
BY DEF Copies, Boards

\* a tab that comes to show copies changes nothing about them
LEMMA TabShowsCopies ==
    ASSUME IInv, NEW t \in Tabs, NEW s, tab' = [tab EXCEPT ![t] = s],
           s.board \in Copies, s.before \in Copies
    PROVE  \A u \in Tabs : tab'[u].board \in Copies /\ tab'[u].before \in Copies
<1>1. \A u \in Tabs : tab'[u] = IF u = t THEN s ELSE tab[u]
  BY DEF IInv, Typed
<1> QED
  BY <1>1, CopiesAre

LEMMA TabsKeepCopies ==
    ASSUME IInv, NEW t \in Tabs, TabStep(t)
    PROVE  Copies' \subseteq Copies
<1>1. tab[t] \in TabStates
  BY DEF IInv, Typed
<1>2. CASE Load(t)
  <2>1. tab' = [tab EXCEPT ![t] = Shows(run.board)]
        /\ UNCHANGED <<run, findings, copy, asked, answered, approval, writes>>
    BY <1>2 DEF Load
  <2>2. Shows(run.board).board \in Copies /\ Shows(run.board).before \in Copies
    BY CopiesAre DEF Shows
  <2> QED
    BY <2>1, <2>2, TabShowsCopies, CopiesAre, CopiesNext
<1>3. CASE MoveOrSwap(t) \/ AddOrRepair(t) \/ AddAfterRepair(t)
  <2>1. PICK next \in Seq(Edits) : Send(t, next)
    BY <1>1, <1>3, SendingActions
  <2>2. asked' = asked \cup {Request(t, tab[t].board, next)}
        /\ tab' = [tab EXCEPT ![t] = [tab[t] EXCEPT !.next = <<>>]]
        /\ UNCHANGED <<run, findings, copy, answered, approval>>
    BY <2>1 DEF Send
  <2>3. [tab[t] EXCEPT !.next = <<>>].board = tab[t].board
        /\ [tab[t] EXCEPT !.next = <<>>].before = tab[t].before
    BY <1>1 DEF TabStates
  <2>4. \A u \in Tabs : tab'[u].board \in Copies /\ tab'[u].before \in Copies
    BY <2>2, <2>3, CopiesAre, TabShowsCopies
  <2>5. Request(t, tab[t].board, next).board = tab[t].board
    BY DEF Request
  <2> QED
    BY <2>2, <2>4, <2>5, CopiesAre, CopiesNext
<1>4. CASE Answer(t)
  <2>0. PICK answer \in answered :
            /\ answered' = answered \ {answer}
            /\ IF Len(answer.next) > 1 /\ writes < MaxWrites
               THEN /\ tab' = [tab EXCEPT ![t] = Taken(t, answer)]
                    /\ asked' = asked \cup {Request(t, answer.board, answer.next)}
                    /\ writes' = writes + 1
               ELSE /\ tab' = [tab EXCEPT ![t] = [Taken(t, answer) EXCEPT !.next = answer.next]]
                    /\ UNCHANGED <<asked, writes>>
            /\ UNCHANGED <<run, findings, copy, approval>>
    BY <1>4 DEF Answer
  <2>1. PICK s \in {Taken(t, answer), [Taken(t, answer) EXCEPT !.next = answer.next]} :
            /\ answered' = answered \ {answer} /\ tab' = [tab EXCEPT ![t] = s]
            /\ asked' \subseteq asked \cup {Request(t, answer.board, answer.next)}
            /\ UNCHANGED <<run, findings, copy, approval>>
    BY <2>0
  <2>2. answer \in Replies /\ answer.next \in Seq(Edits)
    BY DEF IInv, Typed, Replies
  <2>3. s.board = answer.board /\ s.before = answer.before
    <3>1. CASE s = Taken(t, answer)
      BY <2>2, <3>1, TakenFields
    <3>2. CASE s = [Taken(t, answer) EXCEPT !.next = answer.next]
      BY <2>2, <3>2, TakenFields
    <3> QED
      BY <3>1, <3>2
  <2>4. \A u \in Tabs : tab'[u].board \in Copies /\ tab'[u].before \in Copies
    BY <2>1, <2>3, CopiesAre, TabShowsCopies
  <2>5. Request(t, answer.board, answer.next).board = answer.board
    BY DEF Request
  <2> QED
    BY <2>1, <2>4, <2>5, CopiesAre, CopiesNext
<1>5. CASE Undo(t)
  <2>1. tab' = [tab EXCEPT ![t] = [tab[t] EXCEPT !.board = tab[t].before, !.undo = {}]]
    <3>1. tab' = [tab EXCEPT ![t].board = tab[t].before, ![t].undo = {}]
      BY <1>5, UndoStep
    <3> QED
      BY <3>1
  <2>2. [tab[t] EXCEPT !.board = tab[t].before, !.undo = {}].board = tab[t].before
        /\ [tab[t] EXCEPT !.board = tab[t].before, !.undo = {}].before = tab[t].before
    BY <1>1 DEF TabStates
  <2>3. \A u \in Tabs : tab'[u].board \in Copies /\ tab'[u].before \in Copies
    BY <2>1, <2>2, CopiesAre, TabShowsCopies
  <2> QED
    BY <1>5, <2>3, CopiesAre, CopiesNext DEF Undo
<1> QED
  BY <1>2, <1>3, <1>4, <1>5 DEF TabStep

\* a step makes no board but by an edit that is allowed or by the fix
LEMMA StepDescends ==
    ASSUME IInv, [Next]_vars
    PROVE  Copies' \subseteq Descendants
<1>1. ASSUME NEW t \in Tabs, TabStep(t) PROVE Copies' \subseteq Descendants
  BY <1>1, TabsKeepCopies DEF Descendants
<1>2. CASE LoseAnswer
  <2>1. Copies' \subseteq Copies
    BY <1>2, CopiesAre, CopiesNext DEF LoseAnswer
  <2> QED
    BY <2>1 DEF Descendants
<1>3. CASE ApplyEdit
  <2>1. PICK r \in asked :
            /\ asked' = asked \ {r}
            /\ IF MayApply(r.board, r.edit)
               THEN LET board == Applied(r.board, r.edit)
                    IN  /\ run' = [board |-> board, diagnostics |-> FALSE]
                        /\ copy' = Kept(board)
                        /\ answered' = answered \cup
                              {[tab |-> r.tab, board |-> board, before |-> r.board,
                                record |-> EditRecord(r.board, r.edit), next |-> r.next]}
               ELSE UNCHANGED <<run, copy, answered>>
            /\ UNCHANGED <<findings, tab, approval, writes>>
    BY <1>3 DEF ApplyEdit
  <2>2. r.board \in Copies /\ r.edit \in Edits
    BY CopiesAre DEF IInv, Typed, Requests
  <2>3. CASE MayApply(r.board, r.edit)
    <3> DEFINE made == Applied(r.board, r.edit)
               reply == [tab |-> r.tab, board |-> made, before |-> r.board,
                         record |-> EditRecord(r.board, r.edit), next |-> r.next]
    <3>1. run'.board = made /\ copy' = {made} /\ answered' = answered \cup {reply}
          /\ reply.board = made /\ reply.before = r.board
      BY <2>1, <2>3 DEF Kept
    <3>2. made \in Descendants
      <4>1. <<r.board, r.edit>> \in {k \in Copies \X Edits : MayApply(k[1], k[2])}
        BY <2>2, <2>3
      <4>2. Applied(<<r.board, r.edit>>[1], <<r.board, r.edit>>[2]) = made
        OBVIOUS
      <4> QED
        BY <4>1, <4>2 DEF Descendants
    <3>3. Copies \subseteq Descendants
      BY DEF Descendants
    <3> HIDE DEF made, reply
    <3>4. \A answer \in answered' : answer.board \in Descendants /\ answer.before \in Descendants
      BY <2>2, <3>1, <3>2, <3>3, CopiesAre
    <3> QED
      BY <2>1, <3>1, <3>2, <3>3, <3>4, CopiesAre, CopiesNext
  <2>4. CASE ~ MayApply(r.board, r.edit)
    <3>1. UNCHANGED <<run, copy, answered, tab, approval>> /\ asked' \subseteq asked
      BY <2>1, <2>4
    <3>2. Copies' \subseteq Copies
      BY <3>1, CopiesAre, CopiesNext
    <3> QED
      BY <3>2 DEF Descendants
  <2> QED
    BY <2>3, <2>4
<1>4. CASE ReadForFix
  <2>1. PICK finding \in findings : approval' =
          {[board |-> run.board, diagnostics |-> run.diagnostics, finding |-> finding]}
    BY <1>4 DEF ReadForFix
  <2>2. Copies' \subseteq Copies
    BY <1>4, <2>1, CopiesAre, CopiesNext DEF ReadForFix
  <2> QED
    BY <2>2 DEF Descendants
<1>5. CASE WriteFix
  <2>1. PICK a \in approval : run' = [board |-> Fixed(a.board, a.finding), diagnostics |-> a.diagnostics]
    BY <1>5 DEF WriteFix
  <2>2. run'.board \in Descendants /\ Copies \subseteq Descendants
    BY <2>1 DEF Descendants, IInv, Typed
  <2> QED
    BY <1>5, <2>2, CopiesAre, CopiesNext DEF WriteFix
<1>6. CASE UNCHANGED vars
  BY <1>6 DEF vars, Descendants, Copies, Boards
<1> QED
  BY <1>1, <1>2, <1>3, <1>4, <1>5, <1>6 DEF Next, Server

-----------------------------------------------------------------------------
(* No teacher twice at a time, no cell with two lessons *)

\* a lesson for whose teacher and cell there is room
LEMMA OneMore ==
    ASSUME NEW rest, NoTeacherTwice(rest), NEW r,
           \A q \in rest : RowTime(q) # RowTime(r) /\ RowCell(q) # RowCell(r)
    PROVE  NoTeacherTwice(rest \cup {r})
BY DEF NoTeacherTwice

LEMMA FewerApart ==
    ASSUME NEW board, NoTeacherTwice(board), NEW rest \in SUBSET board
    PROVE  NoTeacherTwice(rest)
BY DEF NoTeacherTwice

\* where a lesson goes, its teacher has no other than those of the two cells
LEMMA RelocatedApart ==
    ASSUME NEW board, NEW from, NEW to, Relocates(board, from, to)
    PROVE  TeacherSlotFree(Without(board, {from, to}), PutAt(LessonAt(board, from), to))
BY DEF Relocates, MayStand

LEMMA ExchangedIs ==
    ASSUME NEW board \in SUBSET Row, NEW from \in Grid, NEW to \in Grid, from # to
    PROVE  LET rest == Without(board, {from, to})
           IN  /\ ~ IsFree(board, from) /\ ~ IsFree(board, to) =>
                    Exchanged(board, from, to) =
                      (rest \cup {PutAt(LessonAt(board, from), to)}) \cup {PutAt(LessonAt(board, to), from)}
               /\ ~ IsFree(board, from) /\ IsFree(board, to) =>
                    Exchanged(board, from, to) = rest \cup {PutAt(LessonAt(board, from), to)}
               /\ IsFree(board, from) /\ ~ IsFree(board, to) =>
                    Exchanged(board, from, to) = rest \cup {PutAt(LessonAt(board, to), to)}
BY DEF Exchanged

\* two lessons that change places, and are not at the time of a third, are
\* apart unless they are one teacher's at one time already
LEMMA SwappedApart ==
    ASSUME NEW board \in SUBSET Row, NoTeacherTwice(board), NEW from \in Grid, NEW to \in Grid,
           from # to, ~ IsFree(board, from), ~ IsFree(board, to)
    PROVE  LET a == PutAt(LessonAt(board, from), to)
               b == PutAt(LessonAt(board, to), from)
           IN  RowTime(a) # RowTime(b) /\ RowCell(a) = to /\ RowCell(b) = from
<1> DEFINE q == LessonAt(board, from)
           r == LessonAt(board, to)
           a == PutAt(q, to)
           b == PutAt(r, from)
<1>1. q \in Row /\ r \in Row /\ q \in board /\ r \in board /\ RowCell(q) = from /\ RowCell(r) = to
  BY LessonIsThere
<1>2. from \in Divisions \X Days \X Slots /\ to \in Divisions \X Days \X Slots
  BY GridIsCells
<1>3. /\ a \in Row /\ RowCell(a) = to /\ a.teacher = q.teacher
      /\ b \in Row /\ RowCell(b) = from /\ b.teacher = r.teacher
  BY <1>1, <1>2, PutAtCell
<1>4. RowTime(q) # RowTime(r)
  BY <1>1 DEF NoTeacherTwice
<1> HIDE DEF q, r, a, b
<1>5. a.day = r.day /\ a.slot = r.slot /\ b.day = q.day /\ b.slot = q.slot
  BY <1>1, <1>3 DEF RowCell
<1>6. RowTime(a) # RowTime(b)
  BY <1>3, <1>4, <1>5 DEF RowTime
<1> QED
  BY <1>3, <1>6 DEF q, r, a, b

LEMMA EditKeepsApart ==
    ASSUME NEW board \in SUBSET Row, NoTeacherTwice(board), NEW e \in Edits, MayApply(board, e)
    PROVE  NoTeacherTwice(Applied(board, e))
<1>1. CASE e.op = "ADD"
  <2>1. MayAdd(board, e.lesson) /\ Applied(board, e) = board \cup {e.lesson}
    BY <1>1 DEF MayApply, Applied
  <2>2. IsFree(board, RowCell(e.lesson))
        /\ TeacherSlotFree(Without(board, {RowCell(e.lesson)}), e.lesson)
    BY <2>1 DEF MayAdd, MayStand
  <2>3. \A q \in board : RowTime(q) # RowTime(e.lesson) /\ RowCell(q) # RowCell(e.lesson)
    BY <2>2 DEF IsFree, TeacherSlotFree, Without
  <2> QED
    BY <2>1, <2>3, OneMore
<1>2. CASE e.op \in {"MOVE", "SWAP"}
  <2> DEFINE from == e.from
             to == e.to
             rest == Without(board, {from, to})
             a == PutAt(LessonAt(board, from), to)
             b == PutAt(LessonAt(board, to), from)
  <2>1. from \in Grid /\ to \in Grid
    BY <1>2, EditKinds
  <2>2. MayExchange(board, e.op, from, to) /\ Applied(board, e) = Exchanged(board, from, to)
    BY <1>2 DEF MayApply, Applied
  <2>3. from # to
    BY <2>2 DEF MayExchange
  <2>4. rest \in SUBSET board /\ NoTeacherTwice(rest) /\ \A q \in rest : RowCell(q) \notin {from, to}
    BY FewerApart DEF Without
  <2>5. \/ ~ IsFree(board, from) /\ IsFree(board, to) /\ Relocates(board, from, to)
        \/ IsFree(board, from) /\ ~ IsFree(board, to)
        \/ ~ IsFree(board, from) /\ ~ IsFree(board, to) /\ Relocates(board, from, to) /\ Relocates(board, to, from)
    BY <1>2, <2>2 DEF MayExchange
  <2>6. ASSUME ~ IsFree(board, from) PROVE RowCell(a) = to
    <3>1. LessonAt(board, from) \in Row /\ to \in Divisions \X Days \X Slots
      BY <2>1, <2>6, LessonIsThere, GridIsCells
    <3> QED
      BY <3>1, PutAtCell
  <2> HIDE DEF from, to
  <2>7. CASE ~ IsFree(board, from) /\ IsFree(board, to) /\ Relocates(board, from, to)
    <3>1. Exchanged(board, from, to) = rest \cup {a}
      BY <2>1, <2>3, <2>7, ExchangedIs
    <3>2. TeacherSlotFree(rest, a)
      BY <2>7, RelocatedApart
    <3>3. \A q \in rest : RowTime(q) # RowTime(a) /\ RowCell(q) # RowCell(a)
      BY <2>4, <2>6, <2>7, <3>2 DEF TeacherSlotFree
    <3> HIDE DEF rest, a
    <3>4. NoTeacherTwice(rest \cup {a})
      BY <2>4, <3>3, OneMore
    <3> QED
      BY <2>2, <3>1, <3>4
  <2>8. CASE IsFree(board, from) /\ ~ IsFree(board, to)
    <3>1. LessonAt(board, to) \in board /\ RowCell(LessonAt(board, to)) = to
          /\ LessonAt(board, to) \in Row /\ to \in Divisions \X Days \X Slots
      BY <2>1, <2>8, LessonIsThere, GridIsCells
    <3>2. PutAt(LessonAt(board, to), to) = LessonAt(board, to)
      BY <3>1, PutAtCell
    <3>3. Exchanged(board, from, to) = rest \cup {LessonAt(board, to)}
      BY <2>1, <2>3, <2>8, <3>2, ExchangedIs
    <3>4. Exchanged(board, from, to) \in SUBSET board
      BY <2>4, <3>1, <3>3
    <3> QED
      BY <2>2, <3>4, FewerApart
  <2>9. CASE ~ IsFree(board, from) /\ ~ IsFree(board, to)
             /\ Relocates(board, from, to) /\ Relocates(board, to, from)
    <3>1. Exchanged(board, from, to) = (rest \cup {a}) \cup {b}
      BY <2>1, <2>3, <2>9, ExchangedIs
    <3>2. RowTime(a) # RowTime(b) /\ RowCell(a) = to /\ RowCell(b) = from
      BY <2>1, <2>3, <2>9, SwappedApart
    <3>3. TeacherSlotFree(rest, a)
      BY <2>9, RelocatedApart
    <3>4. TeacherSlotFree(rest, b)
      <4>1. TeacherSlotFree(Without(board, {to, from}), b)
        BY <2>9, RelocatedApart
      <4>2. Without(board, {to, from}) = rest
        BY DEF Without
      <4> QED
        BY <4>1, <4>2
    <3>5. /\ \A q \in rest : RowTime(q) # RowTime(a) /\ RowCell(q) # RowCell(a)
          /\ \A q \in rest \cup {a} : RowTime(q) # RowTime(b) /\ RowCell(q) # RowCell(b)
      BY <2>3, <2>4, <3>2, <3>3, <3>4 DEF TeacherSlotFree
    <3> HIDE DEF rest, a, b
    <3>6. NoTeacherTwice(rest \cup {a})
      BY <2>4, <3>5, OneMore
    <3>7. NoTeacherTwice((rest \cup {a}) \cup {b})
      BY <3>5, <3>6, OneMore
    <3> QED
      BY <2>2, <3>1, <3>7
  <2> QED
    BY <2>5, <2>7, <2>8, <2>9
<1> QED
  BY <1>1, <1>2, EditKinds

-----------------------------------------------------------------------------
(* What a fix takes away *)

LEMMA NumbersNat == Days \in SUBSET Nat /\ Slots \in SUBSET Nat /\ LessonSlots \in SUBSET Nat
<1>1. NumDays \in Nat /\ Slots \in SUBSET Nat
  BY SchoolAssumption
<1>2. 1..NumDays \in SUBSET Nat
  BY <1>1
<1> QED
  BY <1>1, <1>2 DEF Days, LessonSlots

\* the lessons of a board that stand apart are no more than the cells
LEMMA ApartFinite ==
    ASSUME NEW board \in SUBSET Row, NoTeacherTwice(board)
    PROVE  IsFiniteSet(board)
<1> DEFINE places == Divisions \X (Days \X Slots)
           place == [r \in board |-> <<r.div, <<r.day, r.slot>>>>]
<1>1. IsFiniteSet(Days) /\ IsFiniteSet(Slots) /\ IsFiniteSet(Divisions)
  BY SchoolAssumption, FS_Interval DEF Days
<1>2. IsFiniteSet(places)
  BY <1>1, FS_Product
<1>3. place \in [board -> places]
  BY DEF Row
<1>4. \A q, r \in board : place[q] = place[r] => q = r
  BY DEF NoTeacherTwice, RowCell
<1>5. place \in Injection(board, places)
  BY <1>3, <1>4 DEF Injection, IsInjective
<1> HIDE DEF places, place
<1> QED
  BY <1>2, <1>5, FS_Injection

\* lessons no two of which are at one time
Spread(lessons) ==
    \A q, r \in lessons : q # r => q.day # r.day \/ q.slot # r.slot

LEMMA RankInjective ==
    ASSUME NEW lessons \in SUBSET Row, IsFiniteSet(lessons), Spread(lessons),
           NEW q \in lessons, NEW r \in lessons, q # r
    PROVE  Cardinality(LaterOrSame(q, lessons)) # Cardinality(LaterOrSame(r, lessons))
<1>1. ASSUME NEW x \in lessons, NEW y \in lessons,
             x.day > y.day \/ (x.day = y.day /\ x.slot > y.slot)
      PROVE  Cardinality(LaterOrSame(x, lessons)) < Cardinality(LaterOrSame(y, lessons))
  <2>1. \A k \in lessons : k.day \in Nat /\ k.slot \in Nat
    BY NumbersNat DEF Row
  <2>2. y \in LaterOrSame(y, lessons) /\ LaterOrSame(x, lessons) \subseteq LaterOrSame(y, lessons) \ {y}
    BY <1>1, <2>1 DEF LaterOrSame
  <2>3. IsFiniteSet(LaterOrSame(y, lessons))
    BY FS_Subset DEF LaterOrSame
  <2>4. IsFiniteSet(LaterOrSame(y, lessons) \ {y})
        /\ Cardinality(LaterOrSame(y, lessons) \ {y}) = Cardinality(LaterOrSame(y, lessons)) - 1
    BY <2>2, <2>3, FS_RemoveElement
  <2>5. IsFiniteSet(LaterOrSame(x, lessons))
        /\ Cardinality(LaterOrSame(x, lessons)) <= Cardinality(LaterOrSame(y, lessons) \ {y})
    BY <2>2, <2>4, FS_Subset
  <2>6. Cardinality(LaterOrSame(x, lessons)) \in Nat /\ Cardinality(LaterOrSame(y, lessons)) \in Nat
    BY <2>3, <2>5, FS_CardinalityType
  <2> QED
    BY <2>4, <2>5, <2>6
<1>2. q.day \in Nat /\ q.slot \in Nat /\ r.day \in Nat /\ r.slot \in Nat
  BY NumbersNat DEF Row
<1>3. \A x \in lessons : Cardinality(LaterOrSame(x, lessons)) \in Nat
  <2>1. \A x \in lessons : LaterOrSame(x, lessons) \in SUBSET lessons
    BY DEF LaterOrSame
  <2> QED
    BY <2>1, FS_Subset, FS_CardinalityType
<1>4. \/ q.day > r.day \/ (q.day = r.day /\ q.slot > r.slot)
      \/ r.day > q.day \/ (r.day = q.day /\ r.slot > q.slot)
  BY <1>2 DEF Spread
<1> QED
  BY <1>1, <1>3, <1>4

\* the lessons that are left are as many as expected: the ranks number them
LEMMA TrimmedToExpected ==
    ASSUME NEW lessons \in SUBSET Row, IsFiniteSet(lessons), Spread(lessons),
           NEW f, f.expected \in Nat, Surplus(lessons, f) # {}
    PROVE  Cardinality(lessons \ Surplus(lessons, f)) = f.expected
<1> DEFINE n == Cardinality(lessons)
           rank(r) == Cardinality(LaterOrSame(r, lessons))
           k == n - f.expected
           gone == Surplus(lessons, f)
           number == [r \in lessons |-> rank(r)]
           among == [r \in gone |-> rank(r)]
<1>1. n \in Nat
  BY FS_CardinalityType
<1>2. ASSUME NEW r \in lessons PROVE rank(r) \in 1..n
  <2>0. r.slot \in Nat
    BY NumbersNat DEF Row
  <2>1. r \in LaterOrSame(r, lessons) /\ LaterOrSame(r, lessons) \in SUBSET lessons
    BY <2>0 DEF LaterOrSame
  <2>2. IsFiniteSet(LaterOrSame(r, lessons)) /\ rank(r) <= n
    BY <2>1, FS_Subset
  <2>3. rank(r) \in Nat /\ rank(r) # 0
    BY <2>1, <2>2, FS_CardinalityType, FS_EmptySet
  <2> QED
    BY <1>1, <2>2, <2>3
<1>3. \A q, r \in lessons : rank(q) = rank(r) => q = r
  BY RankInjective
<1>4. gone = {r \in lessons : rank(r) <= k} /\ gone \in SUBSET lessons
  BY DEF Surplus
<1>5. IsFiniteSet(1..n) /\ Cardinality(1..n) = n
  BY <1>1, FS_Interval
<1> HIDE DEF n, rank, gone
<1>6. number \in Injection(lessons, 1..n)
  BY <1>2, <1>3 DEF Injection, IsInjective
<1>7. number \in Surjection(lessons, 1..n)
  <2> HIDE DEF number
  <2>1. Cardinality(lessons) = Cardinality(1..n)
    BY <1>5 DEF n
  <2> QED
    BY <1>5, <1>6, <2>1, FS_Injection
<1>8. k \in 1..n
  <2>1. PICK r \in gone : TRUE
    BY DEF gone
  <2>2. rank(r) \in 1..n /\ rank(r) <= k
    BY <1>2, <1>4, <2>1
  <2> QED
    BY <1>1, <2>2
<1>9. among \in Injection(gone, 1..k)
  <2>1. \A r \in gone : rank(r) \in 1..k
    BY <1>1, <1>2, <1>4, <1>8
  <2> QED
    BY <1>3, <1>4, <2>1 DEF Injection, IsInjective
<1>10. among \in Surjection(gone, 1..k)
  <2>1. ASSUME NEW m \in 1..k PROVE \E r \in gone : among[r] = m
    <3>1. m \in 1..n /\ m <= k
      BY <1>1, <1>8
    <3>2. PICK r \in lessons : number[r] = m
      BY <1>7, <3>1 DEF Surjection
    <3>3. r \in gone
      BY <1>4, <3>1, <3>2
    <3> QED
      BY <3>2, <3>3
  <2> QED
    BY <1>9, <2>1 DEF Injection, IsInjective, Surjection
<1> HIDE DEF among
<1>11. IsFiniteSet(1..k) /\ Cardinality(1..k) = k
  <2>1. k \in Nat \ {0}
    BY <1>1, <1>8
  <2> HIDE DEF k
  <2> QED
    BY <2>1, FS_Interval
<1>12. Cardinality(gone) = k
  BY <1>9, <1>10, <1>11, FS_Injection
<1>13. lessons \cap gone = gone
  BY <1>4
<1>14. Cardinality(lessons \ gone) = n - Cardinality(gone)
  BY <1>13, FS_Difference DEF n
<1>15. n - k = f.expected
  BY <1>1
<1> QED
  BY <1>12, <1>14, <1>15 DEF gone

LEMMA OfOneClassSpread ==
    ASSUME NEW board \in SUBSET Row, NoTeacherTwice(board), NEW p, NEW lessons \in SUBSET Of(board, p)
    PROVE  lessons \in SUBSET Row /\ IsFiniteSet(lessons) /\ Spread(lessons)
<1>1. lessons \in SUBSET board
  BY DEF Of
<1>2. IsFiniteSet(lessons)
  BY <1>1, ApartFinite, FS_Subset
<1>3. ASSUME NEW q \in lessons, NEW r \in lessons, q # r PROVE q.day # r.day \/ q.slot # r.slot
  <2>1. RowCell(q) # RowCell(r) /\ q.div = r.div
    BY <1>1, <1>3 DEF NoTeacherTwice, Of, RowPair
  <2> QED
    BY <2>1 DEF RowCell
<1> QED
  BY <1>1, <1>2, <1>3 DEF Spread

\* the lessons a finding of too many is about
Counted(board, f) ==
    IF f.code = "SUBJECT_WEEKLY_OVERFLOW" THEN Of(board, f.pair) ELSE On(Of(board, f.pair), f.day)

LEMMA FixedIs ==
    ASSUME NEW board, NEW f, IsFinding(f), f.code # "SUBJECT_APPLICABILITY_MISMATCH"
    PROVE  Fixed(board, f) = board \ Surplus(Counted(board, f), f)
BY DEF IsFinding, FixCodes, Fixed, Counted

LEMMA FixTrims ==
    ASSUME NEW board \in SUBSET Row, NoTeacherTwice(board),
           NEW f, IsFinding(f), f.code # "SUBJECT_APPLICABILITY_MISMATCH"
    PROVE  /\ board \ Fixed(board, f) \subseteq Counted(board, f)
           /\ board # Fixed(board, f) => Cardinality(Counted(Fixed(board, f), f)) = f.expected
<1> DEFINE lessons == Counted(board, f)
           gone == Surplus(lessons, f)
<1>1. Fixed(board, f) = board \ gone
  BY FixedIs
<1>2. gone \subseteq lessons /\ lessons \subseteq board /\ lessons \in SUBSET Of(board, f.pair)
  BY DEF Surplus, Counted, Of, On
<1>3. Counted(board \ gone, f) = lessons \ gone
  BY DEF Counted, Of, On
<1>4. ASSUME gone # {} PROVE Cardinality(lessons \ gone) = f.expected
  <2>1. lessons \in SUBSET Row /\ IsFiniteSet(lessons) /\ Spread(lessons)
    BY <1>2, OfOneClassSpread
  <2> HIDE DEF lessons
  <2> QED
    BY <1>4, <2>1, TrimmedToExpected DEF IsFinding
<1> HIDE DEF lessons, gone
<1> QED
  BY <1>1, <1>2, <1>3, <1>4 DEF lessons

Apart == \A board \in Copies : NoTeacherTwice(board)

LEMMA InitCopies ==
    ASSUME Init
    PROVE  \E board \in Generated : findings = LowRisk(board) /\ Copies \subseteq {AfterFixes(board)}
BY DEF Init, Copies, Boards, Shows

LEMMA CopiesTyped == IInv => Copies \subseteq SUBSET Row
BY DEF IInv, Typed, Findings, Copies, Boards, TabStates, Requests, Replies

LEMMA NextApart ==
    ASSUME IInv, Apart, [Next]_vars
    PROVE  Apart'
<1>1. ASSUME NEW board \in Descendants PROVE NoTeacherTwice(board)
  <2>1. CASE board \in Copies
    BY <2>1 DEF Apart
  <2>2. CASE \E c \in {k \in Copies \X Edits : MayApply(k[1], k[2])} : board = Applied(c[1], c[2])
    <3>1. PICK c \in Copies \X Edits : MayApply(c[1], c[2]) /\ board = Applied(c[1], c[2])
      BY <2>2
    <3>2. c[1] \in SUBSET Row /\ NoTeacherTwice(c[1]) /\ c[2] \in Edits
      BY CopiesTyped DEF Apart
    <3> QED
      BY <3>1, <3>2, EditKeepsApart
  <2>3. CASE \E a \in approval : board = Fixed(a.board, a.finding)
    <3>1. PICK a \in approval : board = Fixed(a.board, a.finding)
      BY <2>3
    <3>2. a.board \in SUBSET Row /\ IsFinding(a.finding) /\ NoTeacherTwice(a.board)
      BY CopiesAre DEF IInv, Findings, Apart
    <3>3. board \in SUBSET a.board
      BY <3>1, <3>2, FixedTakes
    <3> QED
      BY <3>2, <3>3, FewerApart
  <2> QED
    BY <2>1, <2>2, <2>3 DEF Descendants
<1>2. Copies' \subseteq Descendants
  BY StepDescends
<1> QED
  BY <1>1, <1>2 DEF Apart

\* No copy of a board, stored or in flight, has a teacher in two classes at
\* one time or two lessons in one cell, if no generated board has:
\* evaluatePlacement ignores the cells of the edit, which is enough because
\* the lessons of those cells were apart on the board of the request.
THEOREM StaysApart ==
    ASSUME GeneratedApart
    PROVE  Spec => []Apart
<1>1. Init => Apart
  <2> SUFFICES ASSUME Init PROVE Apart
    OBVIOUS
  <2>1. PICK board \in Generated : Copies \subseteq {AfterFixes(board)}
    BY InitCopies
  <2>2. NoTeacherTwice(board) /\ AfterFixes(board) \in SUBSET board
    BY AfterFixesTakes DEF GeneratedApart
  <2>3. NoTeacherTwice(AfterFixes(board))
    BY <2>2, FewerApart
  <2> QED
    BY <2>1, <2>3 DEF Apart
<1>2. IInv /\ Apart /\ [Next]_vars => Apart'
  BY NextApart
<1> QED
  BY <1>1, <1>2, RunInvariance, PTL DEF Spec

\* A fix approved long after its finding was made takes no class below what
\* the finding expects, and touches no other lessons: applyApprovedFix counts
\* the surplus anew, and the ranks by which it picks the last lessons number
\* the lessons of a class without gap.
THEOREM FixesTrim ==
    ASSUME GeneratedApart
    PROVE  Spec => FixesTrimToExpected
<1>1. ASSUME IInv, Apart, [Next]_vars, NEW a \in approval, approval' = {},
             a.finding.code # "SUBJECT_APPLICABILITY_MISMATCH"
      PROVE  run'.board = Fixed(a.board, a.finding)
  <2>1. approval' # approval
    BY <1>1
  <2>2. WriteFix
    <3>1. ASSUME NEW t \in Tabs, TabStep(t) PROVE FALSE
      BY <2>1, <3>1 DEF TabStep, Load, MoveOrSwap, AddOrRepair, AddAfterRepair, Send, Answer, Undo
    <3>2. ~ LoseAnswer /\ ~ ApplyEdit /\ ~ UNCHANGED vars
      BY <2>1 DEF LoseAnswer, ApplyEdit, vars
    <3>3. ~ ReadForFix
      BY <1>1 DEF ReadForFix
    <3> QED
      BY <1>1, <3>1, <3>2, <3>3 DEF Next, Server
  <2>3. PICK b \in approval : run' = [board |-> Fixed(b.board, b.finding), diagnostics |-> b.diagnostics]
    BY <2>2 DEF WriteFix
  <2>4. b = a
    BY <1>1 DEF IInv, Typed, AtMostOne
  <2> QED
    BY <1>1, <2>3, <2>4 DEF IInv, Typed
<1>2. ASSUME IInv, Apart, [Next]_vars
      PROVE  \A a \in approval :
               approval' = {} /\ a.finding.code # "SUBJECT_APPLICABILITY_MISMATCH" =>
                 /\ a.board \ run'.board \subseteq Counted(a.board, a.finding)
                 /\ a.board # run'.board => Cardinality(Counted(run'.board, a.finding)) = a.finding.expected
  <2> SUFFICES ASSUME NEW a \in approval, approval' = {},
                      a.finding.code # "SUBJECT_APPLICABILITY_MISMATCH"
               PROVE  /\ a.board \ run'.board \subseteq Counted(a.board, a.finding)
                      /\ a.board # run'.board =>
                           Cardinality(Counted(run'.board, a.finding)) = a.finding.expected
    OBVIOUS
  <2>1. run'.board = Fixed(a.board, a.finding)
    BY <1>1, <1>2
  <2>2. a.board \in SUBSET Row /\ IsFinding(a.finding) /\ NoTeacherTwice(a.board)
    BY <1>2, CopiesAre DEF IInv, Findings, Apart
  <2> QED
    BY <2>1, <2>2, FixTrims
<1>3. IInv /\ Apart /\ [Next]_vars =>
        [\A a \in approval : approval' = {} /\ a.finding.code # "SUBJECT_APPLICABILITY_MISMATCH" =>
          LET p == a.finding.pair
              of(board) == IF a.finding.code = "SUBJECT_WEEKLY_OVERFLOW" THEN Of(board, p)
                           ELSE On(Of(board, p), a.finding.day)
          IN  /\ a.board \ run'.board \subseteq of(a.board)
              /\ a.board # run'.board => Cardinality(of(run'.board)) = a.finding.expected]_vars
  BY <1>2 DEF Counted
<1>4. Spec => []Apart
  BY StaysApart
<1> QED
  BY <1>3, <1>4, RunInvariance, PTL DEF Spec, FixesTrimToExpected

-----------------------------------------------------------------------------
(* The limits, and the double periods *)

Rank(at, n) == Cardinality({m \in at : m <= n})

SlotsOf(board, p, day) == {r.slot : r \in On(Of(board, p), day)}

LEMMA SlotsOfFinite ==
    ASSUME NEW board \in SUBSET Row, Standing(board), NEW p, NEW day
    PROVE  SlotsOf(board, p, day) \in SUBSET LessonSlots /\ IsFiniteSet(SlotsOf(board, p, day))
<1>1. SlotsOf(board, p, day) \in SUBSET LessonSlots
  <2> SUFFICES ASSUME NEW r \in board PROVE r.slot \in LessonSlots
    BY DEF SlotsOf, Of, On
  <2>1. RowCell(r) \in Divisions \X Days \X LessonSlots
    BY GridCells DEF Standing
  <2> QED
    BY <2>1 DEF RowCell
<1>2. LessonSlots \in SUBSET Slots /\ IsFiniteSet(Slots)
  BY SchoolAssumption DEF LessonSlots
<1> QED
  BY <1>1, <1>2, FS_Subset

\* where lessons come in pairs of neighbours, only the last has none: a
\* lesson of even rank follows one of odd rank
LEMMA LoneIsLast ==
    ASSUME NEW at \in SUBSET LessonSlots, IsFiniteSet(at),
           \A n \in at : Rank(at, n) % 2 = 1 /\ (\E m \in at : m > n) => \E m \in at : Consecutive(n, m),
           NEW n \in at, \A m \in at : ~ Consecutive(m, n) /\ ~ Consecutive(n, m),
           NEW k \in at
    PROVE  k <= n
<1> SUFFICES ASSUME k > n PROVE FALSE
  BY NumbersNat
<1> DEFINE upto(m) == {j \in at : j <= m}
           before == {j \in at : j < n}
<1>1. at \in SUBSET Nat /\ n \in Nat /\ k \in Nat
  BY NumbersNat
<1>2. ASSUME NEW m \in at PROVE IsFiniteSet(upto(m)) /\ Rank(at, m) \in Nat /\ Rank(at, m) # 0
  <2>1. m \in Nat /\ m <= m
    BY <1>1
  <2>2. upto(m) \in SUBSET at /\ upto(m) # {} /\ Rank(at, m) = Cardinality(upto(m))
    BY <2>1 DEF Rank
  <2> HIDE DEF upto
  <2>3. IsFiniteSet(upto(m))
    BY <2>2, FS_Subset
  <2>4. Cardinality(upto(m)) # 0
    BY <2>2, <2>3, FS_EmptySet
  <2> QED
    BY <2>2, <2>3, <2>4, FS_CardinalityType
<1>3. Rank(at, n) % 2 # 1
  <2>1. k > n
    OBVIOUS
  <2> QED
    BY <2>1
<1>4. before # {}
  <2> SUFFICES ASSUME before = {} PROVE FALSE
    OBVIOUS
  <2>1. \A j \in at : j <= n <=> j = n
    <3> SUFFICES ASSUME NEW j \in at PROVE j <= n <=> j = n
      OBVIOUS
    <3>1. j \in Nat /\ ~ (j < n)
      BY <1>1
    <3> QED
      BY <1>1, <3>1
  <2>2. upto(n) = {n}
    BY <2>1
  <2>3. Rank(at, n) = 1
    BY <2>2, FS_Singleton DEF Rank
  <2> QED
    BY <1>3, <2>3
<1>5. PICK m \in before : \A j \in before : j <= m
  <2>1. before \in SUBSET Nat /\ \A j \in before : j <= n
    <3> SUFFICES ASSUME NEW j \in before PROVE j \in Nat /\ j <= n
      OBVIOUS
    <3>1. j \in Nat /\ j < n
      BY <1>1
    <3> QED
      BY <1>1, <3>1
  <2> HIDE DEF before
  <2> QED
    BY <1>1, <1>4, <2>1, HasGreatest
<1>6. m \in at /\ m \in Nat /\ m < n
  BY <1>1
<1>7. Rank(at, n) = Rank(at, m) + 1
  <2>1. ASSUME NEW j \in at PROVE j <= n <=> j <= m \/ j = n
    <3>1. j \in Nat /\ (j < n => j <= m)
      BY <1>1, <1>5
    <3> QED
      BY <1>1, <1>6, <3>1
  <2>2. n \notin upto(m)
    BY <1>1, <1>6
  <2>3. upto(n) = upto(m) \cup {n}
    BY <2>1
  <2>4. IsFiniteSet(upto(m))
    BY <1>2, <1>6
  <2> HIDE DEF upto
  <2>5. Cardinality(upto(n)) = Cardinality(upto(m)) + 1
    BY <2>2, <2>3, <2>4, FS_AddElement
  <2> QED
    BY <2>5 DEF upto, Rank
<1>8. Rank(at, m) % 2 = 1
  <2>1. Rank(at, m) \in Nat
    BY <1>2, <1>6
  <2> QED
    BY <1>3, <1>7, <2>1
<1>9. PICK j \in at : Consecutive(m, j)
  <2>1. n > m
    BY <1>1, <1>6
  <2> QED
    BY <1>6, <1>8, <2>1
<1>10. j \in Nat /\ j > m /\ ~ \E i \in LessonSlots : m < i /\ i < j
  BY <1>1, <1>6, <1>9 DEF Consecutive
<1>11. ~ (n < j)
  BY <1>6, <1>10
<1>12. j = n
  <2>1. ~ (j < n)
    BY <1>5, <1>10, <1>1, <1>6
  <2> QED
    BY <1>1, <1>10, <1>11, <2>1
<1> QED
  BY <1>6, <1>9, <1>12

LEMMA DailyNat ==
    ASSUME NEW p \in Pairs
    PROVE  MaxPerDay[p] \in Nat
<1>1. p[1] \in Divisions /\ p[2] \in Subjects
  BY DEF Pairs
<1>2. MaxPerDay[p] = LET limit == IF p[1] \in DOMAIN Subject[p[2]].perDayIn
                                  THEN Subject[p[2]].perDayIn[p[1]]
                                  ELSE Subject[p[2]].perDay
                     IN  IF limit = 0 THEN 2 ELSE limit
  BY DEF MaxPerDay
<1> QED
  BY <1>1, <1>2, SchoolAssumption

LEMMA RulesGiveCounts ==
    ASSUME NEW board \in SUBSET Row, KeepsRules(board), NEW p \in Pairs
    PROVE  CountsKept(board, p)
<1>1. IsFiniteSet(board)
  BY ApartFinite DEF KeepsRules
<1>2. Cardinality(Of(board, p)) <= WeeklyTarget[p]
  BY DEF KeepsRules, CountsHold
<1>3. ASSUME NEW day \in Days
      PROVE  LET at == {r.slot : r \in On(Of(board, p), day)}
             IN  /\ Cardinality(at) <= MaxPerDay[p]
                 /\ Subject[p[2]].double =>
                       Cardinality({n \in at : \A m \in at : ~ Consecutive(m, n) /\ ~ Consecutive(n, m)}) <= 1
  <2> DEFINE lessons == On(Of(board, p), day)
             at == {r.slot : r \in lessons}
             lone == {n \in at : \A m \in at : ~ Consecutive(m, n) /\ ~ Consecutive(n, m)}
             slotOf == [r \in lessons |-> r.slot]
  <2>1. at = SlotsOf(board, p, day) /\ at \in SUBSET LessonSlots /\ IsFiniteSet(at)
    BY SlotsOfFinite DEF KeepsRules, SlotsOf
  <2>2. lessons \in SUBSET board
    BY DEF Of, On
  <2>3. IsFiniteSet(lessons)
    BY <1>1, <2>2, FS_Subset
  <2>4. Cardinality(lessons) <= MaxPerDay[p]
    BY DEF KeepsRules, CountsHold
  <2>5. slotOf \in Surjection(lessons, at)
    BY DEF Surjection
  <2>6. Cardinality(at) <= Cardinality(lessons)
    <3> HIDE DEF slotOf, at, lessons
    <3> QED
      BY <2>3, <2>5, FS_Surjection
  <2>7. Cardinality(at) \in Nat /\ Cardinality(lessons) \in Nat /\ MaxPerDay[p] \in Nat
    <3>1. MaxPerDay[p] \in Nat
      BY DailyNat
    <3> HIDE DEF at, lessons
    <3> QED
      BY <2>1, <2>3, <3>1, FS_CardinalityType
  <2>8. Cardinality(at) <= MaxPerDay[p]
    BY <2>4, <2>6, <2>7
  <2>9. ASSUME Subject[p[2]].double PROVE Cardinality(lone) <= 1
    <3>1. \A n \in at : Rank(at, n) % 2 = 1 /\ (\E m \in at : m > n) => \E m \in at : Consecutive(n, m)
      BY <2>9 DEF KeepsRules, DoublesHold, Rank
    <3>2. \A n, k \in lone : n = k
      <4>1. \A n, k \in lone : k <= n
        <5> HIDE DEF at
        <5> QED
          BY <2>1, <3>1, LoneIsLast
      <4>2. lone \in SUBSET Nat
        BY <2>1, NumbersNat
      <4> HIDE DEF lone
      <4> SUFFICES ASSUME NEW n \in lone, NEW k \in lone PROVE n = k
        OBVIOUS
      <4>3. n \in Nat /\ k \in Nat /\ k <= n /\ n <= k
        BY <4>1, <4>2
      <4> QED
        BY <4>3
    <3> HIDE DEF lone
    <3>3. CASE lone = {}
      BY <3>3, FS_EmptySet
    <3>4. CASE lone # {}
      <4>1. PICK x : lone = {x}
        BY <3>2, <3>4
      <4>2. Cardinality({x}) = 1
        BY FS_Singleton
      <4> QED
        BY <4>1, <4>2
    <3> QED
      BY <3>3, <3>4
  <2> QED
    BY <2>8, <2>9
<1> QED
  BY <1>2, <1>3 DEF CountsKept

LEMMA EditKeepsRules ==
    ASSUME NEW board \in SUBSET Row, KeepsRules(board), NEW e \in Edits, MayApply(board, e)
    PROVE  KeepsRules(Applied(board, e))
<1>1. NoTeacherTwice(Applied(board, e))
  BY EditKeepsApart DEF KeepsRules
<1>2. CASE e.op = "ADD"
  <2>1. MayAdd(board, e.lesson) /\ Applied(board, e) = board \cup {e.lesson}
    BY <1>2 DEF MayApply, Applied
  <2>2. CountsHold(Applied(board, e)) /\ DoublesHold(Applied(board, e)) /\ RowCell(e.lesson) \in Grid
    BY <2>1 DEF MayAdd
  <2>3. Standing(Applied(board, e))
    BY <2>1, <2>2 DEF Standing, KeepsRules
  <2> QED
    BY <1>1, <2>2, <2>3 DEF KeepsRules
<1>3. CASE e.op \in {"MOVE", "SWAP"}
  <2>1. MayExchange(board, e.op, e.from, e.to) /\ Applied(board, e) = Exchanged(board, e.from, e.to)
    BY <1>3 DEF MayApply, Applied
  <2>2. CountsHold(Applied(board, e)) /\ DoublesHold(Applied(board, e)) /\ e.from \in Grid /\ e.to \in Grid
    BY <2>1 DEF MayExchange
  <2>3. \A r \in Applied(board, e) : r \in Without(board, {e.from, e.to}) \/ RowCell(r) \in {e.from, e.to}
    BY <2>1, <2>2, ExchangedRows
  <2>4. Standing(Applied(board, e))
    BY <2>2, <2>3 DEF Standing, KeepsRules, Without
  <2> QED
    BY <1>1, <2>2, <2>4 DEF KeepsRules
<1> QED
  BY <1>2, <1>3, EditKinds

\* with a lesson, the lessons of its class and subject before it on its day
EarlyPart(board, kept) ==
    /\ kept \subseteq board
    /\ \A r \in kept, q \in board :
          RowPair(q) = RowPair(r) /\ q.day = r.day /\ q.slot <= r.slot => q \in kept

LEMMA EarlyKeepsDoubles ==
    ASSUME NEW board \in SUBSET Row, Standing(board), DoublesHold(board),
           NEW kept, EarlyPart(board, kept)
    PROVE  DoublesHold(kept)
<1> SUFFICES ASSUME NEW p \in Pairs, NEW day \in Days, Subject[p[2]].double,
                    NEW n \in SlotsOf(kept, p, day), NEW k \in SlotsOf(kept, p, day),
                    Rank(SlotsOf(kept, p, day), n) % 2 = 1, k > n
             PROVE  \E m \in SlotsOf(kept, p, day) : Consecutive(n, m)
  BY DEF DoublesHold, SlotsOf, Rank
<1> DEFINE all == SlotsOf(board, p, day)
           at == SlotsOf(kept, p, day)
<1>1. all \in SUBSET LessonSlots /\ all \in SUBSET Nat
  BY SlotsOfFinite, NumbersNat
<1>2. at \in SUBSET all
  BY DEF EarlyPart, SlotsOf, Of, On
<1>3. ASSUME NEW i \in at, NEW j \in all, j <= i PROVE j \in at
  <2>1. PICK r \in kept : RowPair(r) = p /\ r.day = day /\ r.slot = i
    BY <1>3 DEF SlotsOf, Of, On
  <2>2. PICK q \in board : RowPair(q) = p /\ q.day = day /\ q.slot = j
    BY <1>3 DEF SlotsOf, Of, On
  <2>3. q \in kept
    BY <1>3, <2>1, <2>2 DEF EarlyPart
  <2> QED
    BY <2>2, <2>3 DEF SlotsOf, Of, On
<1>4. {m \in at : m <= n} = {m \in all : m <= n}
  BY <1>2, <1>3
<1>5. Rank(all, n) % 2 = 1 /\ n \in all /\ k \in all
  BY <1>2, <1>4 DEF Rank
<1>6. PICK m \in all : Consecutive(n, m)
  BY <1>5 DEF DoublesHold, SlotsOf, Rank
<1>7. m <= k
  <2>1. k \in LessonSlots /\ k \in Nat /\ m \in Nat /\ ~ (k < m)
    BY <1>1, <1>5, <1>6 DEF Consecutive
  <2> QED
    BY <2>1
<1>8. m \in at
  BY <1>3, <1>7
<1> QED
  BY <1>6, <1>8

LEMMA EarlyKeepsRules ==
    ASSUME NEW board \in SUBSET Row, KeepsRules(board), NEW kept, EarlyPart(board, kept)
    PROVE  KeepsRules(kept)
<1>1. kept \in SUBSET board /\ IsFiniteSet(board)
  BY ApartFinite DEF KeepsRules, EarlyPart
<1>2. Standing(kept) /\ NoTeacherTwice(kept)
  BY <1>1, FewerApart DEF KeepsRules, Standing
<1>3. DoublesHold(kept)
  BY EarlyKeepsDoubles DEF KeepsRules
<1>4. ASSUME NEW S, NEW T \in SUBSET S, S \in SUBSET board, NEW limit \in Nat, Cardinality(S) <= limit
      PROVE  Cardinality(T) <= limit
  <2>1. IsFiniteSet(S)
    BY <1>1, <1>4, FS_Subset
  <2>2. IsFiniteSet(T) /\ Cardinality(T) <= Cardinality(S)
    BY <2>1, FS_Subset
  <2>3. Cardinality(S) \in Nat /\ Cardinality(T) \in Nat
    BY <2>1, <2>2, FS_CardinalityType
  <2> QED
    BY <1>4, <2>2, <2>3
<1>5. ASSUME NEW p \in Pairs
      PROVE  /\ Cardinality(Of(kept, p)) <= WeeklyTarget[p]
             /\ \A day \in Days : Cardinality(On(Of(kept, p), day)) <= MaxPerDay[p]
  <2>1. WeeklyTarget[p] \in Nat /\ MaxPerDay[p] \in Nat
    BY ReportedNat, DailyNat
  <2>2. Of(kept, p) \in SUBSET Of(board, p) /\ Of(board, p) \in SUBSET board
        /\ Cardinality(Of(board, p)) <= WeeklyTarget[p]
    BY <1>1 DEF Of, KeepsRules, CountsHold
  <2>3. Cardinality(Of(kept, p)) <= WeeklyTarget[p]
    BY <1>4, <2>1, <2>2
  <2>4. ASSUME NEW day \in Days PROVE Cardinality(On(Of(kept, p), day)) <= MaxPerDay[p]
    <3>1. On(Of(kept, p), day) \in SUBSET On(Of(board, p), day) /\ On(Of(board, p), day) \in SUBSET board
          /\ Cardinality(On(Of(board, p), day)) <= MaxPerDay[p]
      BY <1>1 DEF Of, On, KeepsRules, CountsHold
    <3> QED
      BY <1>4, <2>1, <3>1
  <2> QED
    BY <2>3, <2>4
<1> QED
  BY <1>2, <1>3, <1>5 DEF KeepsRules, CountsHold

\* with a lesson, all that come later on its day are surplus
LEMMA SurplusIsLate ==
    ASSUME NEW lessons \in SUBSET Row, IsFiniteSet(lessons), NEW f, f.expected \in Nat,
           NEW q \in Surplus(lessons, f), NEW r \in lessons, r.day = q.day, q.slot <= r.slot
    PROVE  r \in Surplus(lessons, f)
<1>1. q \in lessons /\ Cardinality(LaterOrSame(q, lessons)) <= Cardinality(lessons) - f.expected
  BY DEF Surplus
<1>2. \A k \in lessons : k.day \in Nat /\ k.slot \in Nat
  BY NumbersNat DEF Row
<1>3. LaterOrSame(r, lessons) \in SUBSET LaterOrSame(q, lessons)
  BY <1>1, <1>2 DEF LaterOrSame
<1>4. IsFiniteSet(LaterOrSame(q, lessons))
  BY FS_Subset DEF LaterOrSame
<1>5. IsFiniteSet(LaterOrSame(r, lessons))
      /\ Cardinality(LaterOrSame(r, lessons)) <= Cardinality(LaterOrSame(q, lessons))
  BY <1>3, <1>4, FS_Subset
<1>6. Cardinality(LaterOrSame(r, lessons)) \in Nat /\ Cardinality(LaterOrSame(q, lessons)) \in Nat
      /\ Cardinality(lessons) \in Nat
  BY <1>4, <1>5, FS_CardinalityType
<1>7. Cardinality(LaterOrSame(r, lessons)) <= Cardinality(lessons) - f.expected
  BY <1>1, <1>5, <1>6
<1> QED
  BY <1>7 DEF Surplus

Trims(f) == IsFinding(f) /\ f.code # "SUBJECT_APPLICABILITY_MISMATCH"

\* fixes that trim leave the early lessons of every day
LEMMA TrimmedIsEarly ==
    ASSUME NEW board \in SUBSET Row, NoTeacherTwice(board), NEW found, \A f \in found : Trims(f)
    PROVE  EarlyPart(board, FixedAll(board, found))
<1>1. FixedAll(board, found) \subseteq board
  BY FixedAllTakes
<1> SUFFICES ASSUME NEW r \in FixedAll(board, found), NEW q \in board,
                    RowPair(q) = RowPair(r), q.day = r.day, q.slot <= r.slot,
                    q \notin FixedAll(board, found)
             PROVE  FALSE
  BY <1>1 DEF EarlyPart
<1>2. r \in board /\ r.day = q.day
  BY <1>1
<1>3. PICK f \in found : q \notin Fixed(board, f)
  BY DEF FixedAll
<1>4. IsFinding(f) /\ f.code # "SUBJECT_APPLICABILITY_MISMATCH" /\ f.expected \in Nat
  BY DEF Trims, IsFinding
<1>5. Fixed(board, f) = board \ Surplus(Counted(board, f), f)
  BY <1>4, FixedIs
<1>6. q \in Surplus(Counted(board, f), f)
  BY <1>3, <1>5
<1>7. q \in Counted(board, f)
  BY <1>6 DEF Surplus
<1>8. r \in Counted(board, f)
  BY <1>2, <1>7 DEF Counted, Of, On
<1>9. Counted(board, f) \in SUBSET Row /\ IsFiniteSet(Counted(board, f))
  <2>1. Counted(board, f) \in SUBSET board
    BY DEF Counted, Of, On
  <2> QED
    BY <2>1, ApartFinite, FS_Subset
<1>10. r \in Surplus(Counted(board, f), f)
  BY <1>2, <1>4, <1>6, <1>8, <1>9, SurplusIsLate
<1>11. r \notin Fixed(board, f)
  BY <1>5, <1>10
<1> QED
  BY <1>2, <1>11 DEF FixedAll

LEMMA FixKeepsRules ==
    ASSUME NEW board \in SUBSET Row, KeepsRules(board), NEW f, Trims(f)
    PROVE  KeepsRules(Fixed(board, f))
<1>1. Fixed(board, f) \subseteq board
  BY FixedTakes DEF Trims
<1>2. FixedAll(board, {f}) = Fixed(board, f)
  BY <1>1 DEF FixedAll
<1>3. EarlyPart(board, FixedAll(board, {f}))
  BY TrimmedIsEarly DEF KeepsRules
<1> QED
  BY <1>2, <1>3, EarlyKeepsRules

LEMMA TrimmedKeepRules ==
    ASSUME NEW board \in SUBSET Row, KeepsRules(board), NEW found, \A f \in found : Trims(f)
    PROVE  FixedAll(board, found) \in SUBSET Row /\ KeepsRules(FixedAll(board, found))
BY TrimmedIsEarly, EarlyKeepsRules, FixedAllTakes DEF KeepsRules

\* a board that only teaches what applies has no findings but of too many
LEMMA ApplicableTrims ==
    ASSUME NEW board, ApplicabilityMismatch(board) = {}, NEW f \in LowRisk(board)
    PROVE  Trims(f)
<1>1. IsFinding(f)
  BY LowRiskFindings
<1>2. f.code # "SUBJECT_APPLICABILITY_MISMATCH"
  BY DEF LowRisk
<1> QED
  BY <1>1, <1>2 DEF Trims

LEMMA AfterFixesKeepRules ==
    ASSUME NEW board \in SUBSET Row, KeepsRules(board), ApplicabilityMismatch(board) = {}
    PROVE  KeepsRules(AfterFixes(board))
<1> DEFINE of(code) == {f \in LowRisk(board) : f.code = code}
           first == FixedAll(board, of("SUBJECT_WEEKLY_OVERFLOW"))
           second == FixedAll(first, of("SUBJECT_DAILY_OVERFLOW"))
           third == FixedAll(second, of("SUBJECT_APPLICABILITY_MISMATCH"))
<1>1. \A code : \A f \in of(code) : Trims(f)
  BY ApplicableTrims
<1>2. AfterFixes(board) = third
  BY DEF AfterFixes
<1> HIDE DEF of
<1>3. first \in SUBSET Row /\ KeepsRules(first)
  BY <1>1, TrimmedKeepRules
<1> HIDE DEF first
<1>4. second \in SUBSET Row /\ KeepsRules(second)
  BY <1>1, <1>3, TrimmedKeepRules
<1> HIDE DEF second
<1>5. KeepsRules(third)
  BY <1>1, <1>4, TrimmedKeepRules
<1> QED
  BY <1>2, <1>5

RuledInv ==
    /\ \A board \in Copies : KeepsRules(board)
    /\ \A f \in findings : Trims(f)
    /\ \A a \in approval : Trims(a.finding)

LEMMA InitRuled ==
    ASSUME GeneratedKeepsRules, Init
    PROVE  RuledInv
<1>1. PICK board \in Generated : findings = LowRisk(board) /\ Copies \subseteq {AfterFixes(board)}
  BY InitCopies
<1>2. board \in SUBSET Row /\ KeepsRules(board) /\ ApplicabilityMismatch(board) = {}
  BY StoredRunAssumption DEF GeneratedKeepsRules
<1>3. KeepsRules(AfterFixes(board))
  BY <1>2, AfterFixesKeepRules
<1>4. \A f \in findings : Trims(f)
  BY <1>1, <1>2, ApplicableTrims
<1> QED
  BY <1>1, <1>3, <1>4 DEF RuledInv, Init

LEMMA FindingsStay ==
    ASSUME [Next]_vars
    PROVE  findings' = findings /\ \A a \in approval' : a \in approval \/ a.finding \in findings
<1>1. ASSUME NEW t \in Tabs, TabStep(t) PROVE UNCHANGED <<findings, approval>>
  BY <1>1 DEF TabStep, Load, MoveOrSwap, AddOrRepair, AddAfterRepair, Send, Answer, Undo
<1>2. CASE LoseAnswer \/ ApplyEdit \/ UNCHANGED vars
  BY <1>2 DEF LoseAnswer, ApplyEdit, vars
<1>3. CASE ReadForFix
  <2>1. PICK finding \in findings : approval' =
          {[board |-> run.board, diagnostics |-> run.diagnostics, finding |-> finding]}
    BY <1>3 DEF ReadForFix
  <2> QED
    BY <1>3, <2>1 DEF ReadForFix
<1>4. CASE WriteFix
  BY <1>4 DEF WriteFix
<1> QED
  BY <1>1, <1>2, <1>3, <1>4 DEF Next, Server

LEMMA NextRuled ==
    ASSUME IInv, RuledInv, [Next]_vars
    PROVE  RuledInv'
<1>1. ASSUME NEW board \in Descendants PROVE KeepsRules(board)
  <2>1. CASE board \in Copies
    BY <2>1 DEF RuledInv
  <2>2. CASE \E c \in {k \in Copies \X Edits : MayApply(k[1], k[2])} : board = Applied(c[1], c[2])
    <3>1. PICK c \in Copies \X Edits : MayApply(c[1], c[2]) /\ board = Applied(c[1], c[2])
      BY <2>2
    <3>2. c[1] \in SUBSET Row /\ KeepsRules(c[1]) /\ c[2] \in Edits
      BY CopiesTyped DEF RuledInv
    <3> QED
      BY <3>1, <3>2, EditKeepsRules
  <2>3. CASE \E a \in approval : board = Fixed(a.board, a.finding)
    <3>1. PICK a \in approval : board = Fixed(a.board, a.finding)
      BY <2>3
    <3>2. a.board \in SUBSET Row /\ KeepsRules(a.board) /\ Trims(a.finding)
      BY CopiesAre DEF IInv, Findings, RuledInv
    <3> QED
      BY <3>1, <3>2, FixKeepsRules
  <2> QED
    BY <2>1, <2>2, <2>3 DEF Descendants
<1>2. Copies' \subseteq Descendants
  BY StepDescends
<1>3. findings' = findings
  BY FindingsStay
<1>4. \A a \in approval' : a \in approval \/ a.finding \in findings
  BY FindingsStay
<1> QED
  BY <1>1, <1>2, <1>3, <1>4 DEF RuledInv

\* However the edits, undos and fixes of several tabs interleave, no stored
\* or shown timetable breaks the rules if no generated one did: a relocation
\* skips the limits but the whole board is recounted
\* (validateSubjectCountsAfterEntries, violatesDoublePeriodAfterEntries), and
\* a fix takes lessons from the end of a day, which leaves no pair torn.
THEOREM EditsKeepRules ==
    ASSUME GeneratedKeepsRules
    PROVE  Spec => []EditsKeepTheRules
<1>1. Init => RuledInv
  BY InitRuled
<1>2. IInv /\ RuledInv /\ [Next]_vars => RuledInv'
  BY NextRuled
<1>3. ASSUME IInv, RuledInv PROVE EditsKeepTheRules
  <2> SUFFICES ASSUME NEW board \in Boards
               PROVE  NoTeacherTwice(board) /\ \A p \in Pairs : CountsKept(board, p)
    BY DEF EditsKeepTheRules
  <2>1. board \in Copies
    BY DEF Copies
  <2>2. board \in SUBSET Row /\ KeepsRules(board)
    BY <1>3, <2>1, CopiesTyped DEF RuledInv
  <2> QED
    BY <2>2, RulesGiveCounts DEF KeepsRules
<1> QED
  BY <1>1, <1>2, <1>3, RunInvariance, PTL DEF Spec

-----------------------------------------------------------------------------
(* The engine reads the same school *)

LEMMA EngineCardinality == \A S : Engine!Cardinality(S) = Cardinality(S)
BY DEF Engine!Cardinality, Cardinality

LEMMA EngineSlots ==
    /\ Engine!LessonSlots = LessonSlots /\ Engine!Days = Days
    /\ Engine!Halves = Halves /\ Engine!Pairs = Pairs
    /\ \A n, day : Engine!SlotActive(n, day) <=> SlotActive(n, day)
    /\ \A n : Engine!Half(n) = Half(n)
    /\ \A m, n : Engine!Consecutive(m, n) <=> Consecutive(m, n)
<1>1. Engine!LessonSlots = LessonSlots /\ Engine!Days = Days
  BY DEF Engine!LessonSlots, LessonSlots, Engine!Days, Days
<1>2. Engine!Halves = Halves /\ Engine!Pairs = Pairs
  BY DEF Engine!Halves, Halves, Engine!Pairs, Pairs
<1>3. \A n, day : Engine!SlotActive(n, day) <=> SlotActive(n, day)
  BY DEF Engine!SlotActive, SlotActive
<1>4. Engine!FirstAfterLunch = FirstAfterLunch
  BY <1>1 DEF Engine!FirstAfterLunch, FirstAfterLunch, Engine!Min, Min
<1>5. Engine!MorningSlots = MorningSlots
  BY <1>1, <1>4, EngineCardinality DEF Engine!MorningSlots, MorningSlots
<1>6. \A n : Engine!Half(n) = Half(n)
  BY <1>5 DEF Engine!Half, Half
<1>7. \A m, n : Engine!Consecutive(m, n) <=> Consecutive(m, n)
  BY <1>1 DEF Engine!Consecutive, Consecutive
<1> QED
  BY <1>1, <1>2, <1>3, <1>6, <1>7

LEMMA EngineRules ==
    /\ \A s, day : Engine!IsDayBlockedByRule(s, day) <=> IsDayBlockedByRule(s, day)
    /\ \A s, n : Engine!IsSlotBlockedByRule(s, n) <=> IsSlotBlockedByRule(s, n)
    /\ \A s, d, day, n : Engine!IsPlacementAllowedByIncludeOnly(s, d, day, n)
                             <=> IsPlacementAllowedByIncludeOnly(s, d, day, n)
<1>1. \A kind, s : Engine!RulesOf(kind, s) = RulesOf(kind, s)
  BY DEF Engine!RulesOf, RulesOf
<1>2. Engine!FirstMorning = FirstMorning /\ Engine!LastLesson = LastLesson
  BY EngineSlots DEF Engine!FirstMorning, FirstMorning, Engine!LastLesson, LastLesson,
                     Engine!Min, Min, Engine!Max, Max
<1>3. Engine!FirstAfterLunch = FirstAfterLunch
  BY EngineSlots DEF Engine!FirstAfterLunch, FirstAfterLunch, Engine!Min, Min
<1>4. \A name : Engine!TargetSlot(name) = TargetSlot(name)
  BY <1>2, <1>3 DEF Engine!TargetSlot, TargetSlot
<1>5. \A s, day : Engine!IsDayBlockedByRule(s, day) <=> IsDayBlockedByRule(s, day)
  BY <1>1 DEF Engine!IsDayBlockedByRule, IsDayBlockedByRule
<1>6. \A s, n : Engine!IsSlotBlockedByRule(s, n) <=> IsSlotBlockedByRule(s, n)
  BY <1>1, <1>4 DEF Engine!IsSlotBlockedByRule, IsSlotBlockedByRule
<1>7. \A r, day, n : Engine!CellMatchesIncludeOnlyRule(r, day, n) <=> CellMatchesIncludeOnlyRule(r, day, n)
  BY <1>2, EngineSlots DEF Engine!CellMatchesIncludeOnlyRule, CellMatchesIncludeOnlyRule
<1>8. ASSUME NEW s, NEW d, NEW day, NEW n
      PROVE  Engine!IsPlacementAllowedByIncludeOnly(s, d, day, n)
                 <=> IsPlacementAllowedByIncludeOnly(s, d, day, n)
  BY <1>1, <1>7 DEF Engine!IsPlacementAllowedByIncludeOnly, IsPlacementAllowedByIncludeOnly
<1> QED
  BY <1>5, <1>6, <1>8

LEMMA EngineLimits ==
    /\ \A t, d : Engine!TeacherAllowedInDivision(t, d) <=> TeacherAllowedInDivision(t, d)
    /\ Engine!WeeklyTarget = WeeklyTarget /\ Engine!MaxPerDay = MaxPerDay
    /\ Engine!MaxTeachersForPair = MaxTeachersForPair
    /\ Engine!SessionCapacity = SessionCapacity /\ Engine!DailyCapacity = DailyCapacity
    /\ Engine!WeeklyCapacity = WeeklyCapacity
    /\ \A n : Engine!AtLeastOne(n) = AtLeastOne(n)
<1>1. \A t, d : Engine!TeacherAllowedInDivision(t, d) <=> TeacherAllowedInDivision(t, d)
  BY DEF Engine!TeacherAllowedInDivision, TeacherAllowedInDivision
<1>2. Engine!WeeklyTarget = WeeklyTarget /\ Engine!MaxPerDay = MaxPerDay
  BY EngineSlots DEF Engine!WeeklyTarget, WeeklyTarget, Engine!MaxPerDay, MaxPerDay
<1>3. \A p : Engine!IsTeamTeachingAllowed(p) <=> IsTeamTeachingAllowed(p)
  BY EngineCardinality DEF Engine!IsTeamTeachingAllowed, IsTeamTeachingAllowed,
                           Engine!ExplicitTeachers, ExplicitTeachers
<1>4. Engine!MaxTeachersForPair = MaxTeachersForPair
  BY <1>3, EngineSlots DEF Engine!MaxTeachersForPair, MaxTeachersForPair
<1>5. Engine!FirstAfterLunch = FirstAfterLunch
  BY EngineSlots DEF Engine!FirstAfterLunch, FirstAfterLunch, Engine!Min, Min
<1>6. Engine!MorningSlots = MorningSlots
  BY <1>5, EngineSlots, EngineCardinality DEF Engine!MorningSlots, MorningSlots
<1>7. \A n : Engine!Positive(n) = Positive(n)
  BY DEF Engine!Positive, Positive
<1>8. \A m, n : Engine!AtMost(m, n) = AtMost(m, n)
  BY DEF Engine!AtMost, AtMost
<1>9. Engine!SessionCapacity = SessionCapacity
  BY <1>6, <1>7, EngineSlots, EngineCardinality DEF Engine!SessionCapacity, SessionCapacity
<1>10. \A t : Engine!DerivedDaily(t) = DerivedDaily(t)
  BY <1>9 DEF Engine!DerivedDaily, DerivedDaily
<1>11. Engine!DailyCapacity = DailyCapacity
  BY <1>8, <1>10 DEF Engine!DailyCapacity, DailyCapacity
<1>12. Engine!WeeklyCapacity = WeeklyCapacity
  BY <1>8, <1>10 DEF Engine!WeeklyCapacity, WeeklyCapacity
<1>13. \A n : Engine!AtLeastOne(n) = AtLeastOne(n)
  BY DEF Engine!AtLeastOne, AtLeastOne
<1> QED
  BY <1>1, <1>2, <1>4, <1>9, <1>11, <1>12, <1>13

LEMMA EngineKeys ==
    /\ Engine!Lesson = Row /\ Engine!Cells = Divisions \X Days \X Slots
    /\ \A r : /\ Engine!CellOf(r) = RowCell(r) /\ Engine!TimeOf(r) = RowTime(r)
              /\ Engine!PairOf(r) = RowPair(r)
              /\ Engine!TeacherDay(r) = <<r.teacher, r.day>>
              /\ Engine!TeacherHalf(r) = <<r.teacher, r.day, Half(r.slot)>>
              /\ Engine!PairDay(r) = <<r.div, r.subject, r.day>>
BY EngineSlots DEF Engine!Lesson, Row, Engine!Cells, Engine!CellOf, RowCell, Engine!TimeOf, RowTime,
   Engine!PairOf, RowPair, Engine!TeacherDay, Engine!TeacherHalf, Engine!PairDay

-----------------------------------------------------------------------------
(* evaluatePlacement and canPlaceAssignment *)

\* an engine board with these lessons, its maps in step with them and its
\* locks those of the lessons alone
Reflects(b, board) ==
    /\ b \in Engine!Board /\ b.entries = board
    /\ Engine!IndexesEntries(b) /\ Engine!CountsEntries(b)
    /\ \A p \in Pairs : b.lock[p] = {r.teacher : r \in Of(board, p)}

\* the cells of a class: a teacher or a subject is read off the map exactly
\* when a lesson of the board says so
LEMMA CellsReflect ==
    ASSUME NEW board \in SUBSET Row, NEW b, Reflects(b, board),
           NEW d \in Divisions, NEW day \in Days, NEW n \in Slots
    PROVE  LET c == <<d, day, n>>
           IN  /\ b.cell[c] = NoLesson <=> IsFree(board, c)
               /\ \A t : /\ Engine!TaughtBy(b, t, d, day, n) <=> t \in TaughtIn(board, c)
                         /\ Engine!TaughtBy(b, t, d, day, n) <=> Taught(board, t, d, day, n)
               /\ b.cell[c] # NoLesson =>
                      \A s : b.cell[c].subject = s <=> \E q \in board : RowCell(q) = c /\ q.subject = s
<1> DEFINE c == <<d, day, n>>
<1>1. c \in Engine!Cells
  BY EngineKeys
<1>2. \A q \in board : b.cell[RowCell(q)] = q /\ q # NoLesson
  BY EngineKeys, StoredRunAssumption DEF Reflects, Engine!IndexesEntries
<1>3. b.cell[c] # NoLesson => b.cell[c] \in board /\ RowCell(b.cell[c]) = c
  BY <1>1, EngineKeys DEF Reflects, Engine!IndexesEntries
<1> HIDE DEF c
<1>4. b.cell[c] = NoLesson <=> IsFree(board, c)
  BY <1>2, <1>3 DEF IsFree
<1>5. \A q \in board : RowCell(q) = c => b.cell[c] = q
  BY <1>2
<1>6. \A t : Engine!TaughtBy(b, t, d, day, n) <=> b.cell[c] # NoLesson /\ b.cell[c].teacher = t
  BY DEF Engine!TaughtBy, c
<1>7. \A t : t \in TaughtIn(board, c) <=> \E q \in board : RowCell(q) = c /\ q.teacher = t
  BY DEF TaughtIn
<1>8. \A t : Taught(board, t, d, day, n) <=> \E q \in board : RowCell(q) = c /\ q.teacher = t
  BY DEF Taught, c
<1>9. \A t : (b.cell[c] # NoLesson /\ b.cell[c].teacher = t) <=> \E q \in board : RowCell(q) = c /\ q.teacher = t
  BY <1>3, <1>2
<1>10. b.cell[c] # NoLesson =>
           \A s : b.cell[c].subject = s <=> \E q \in board : RowCell(q) = c /\ q.subject = s
  BY <1>3, <1>5
<1>11. \A t : /\ Engine!TaughtBy(b, t, d, day, n) <=> t \in TaughtIn(board, c)
              /\ Engine!TaughtBy(b, t, d, day, n) <=> Taught(board, t, d, day, n)
  BY <1>6, <1>7, <1>8, <1>9
<1> QED
  BY <1>4, <1>10, <1>11 DEF c

LEMMA LimitsMirror ==
    ASSUME NEW board \in SUBSET Row, NEW b, Reflects(b, board), NEW r \in Row
    PROVE  /\ UnderLimits(board, r) <=> Engine!LimitsAllow(b, r)
           /\ LockHolds(board, r) <=> Engine!LockAllows(b, r)
<1>1. RowPair(r) \in Pairs /\ r.day \in Days /\ <<r.div, r.subject, r.day>> \in Divisions \X Subjects \X Days
  BY DEF Row, RowPair, Pairs
<1>2. b.subWeek[RowPair(r)] = Cardinality(Of(board, RowPair(r)))
  <2>1. RowPair(r) \in Engine!Pairs
    BY <1>1, EngineSlots
  <2>2. b.subWeek[RowPair(r)] = Cardinality({q \in board : Engine!PairOf(q) = RowPair(r)})
    BY <2>1, EngineCardinality DEF Reflects, Engine!CountsEntries
  <2>3. {q \in board : Engine!PairOf(q) = RowPair(r)} = Of(board, RowPair(r))
    BY EngineKeys DEF Of
  <2> QED
    BY <2>2, <2>3
<1>3. b.subDay[Engine!PairDay(r)] = Cardinality(On(Of(board, RowPair(r)), r.day))
  <2>1. Engine!PairDay(r) \in DOMAIN b.subDay
    BY <1>1, EngineKeys, EngineSlots DEF Reflects, Engine!Board
  <2>2. b.subDay[Engine!PairDay(r)] = Cardinality({q \in board : Engine!PairDay(q) = Engine!PairDay(r)})
    BY <2>1, EngineCardinality DEF Reflects, Engine!CountsEntries
  <2>3. {q \in board : Engine!PairDay(q) = Engine!PairDay(r)} = On(Of(board, RowPair(r)), r.day)
    BY EngineKeys DEF On, Of, RowPair
  <2> QED
    BY <2>2, <2>3
<1>4. UnderLimits(board, r) <=> Engine!LimitsAllow(b, r)
  BY <1>2, <1>3, EngineKeys, EngineLimits DEF UnderLimits, Engine!LimitsAllow
<1>5. b.lock[RowPair(r)] = {q.teacher : q \in Of(board, RowPair(r))}
  BY <1>1 DEF Reflects
<1>6. LockHolds(board, r) <=> Engine!LockAllows(b, r)
  BY <1>5, EngineKeys, EngineLimits, EngineCardinality DEF LockHolds, Engine!LockAllows
<1> QED
  BY <1>4, <1>6

LEMMA CapacityMirrors ==
    ASSUME NEW board \in SUBSET Row, NEW b, Reflects(b, board), NEW r \in Row
    PROVE  (TeacherSlotFree(board, r) /\ RowTime(r) \notin FreePeriodRules /\ HasCapacity(board, r))
               <=> Engine!CanAssignTeacher(b, r)
<1> DEFINE t == r.teacher
           his == By(board, t)
<1>1. /\ r.teacher \in Teachers /\ r.day \in Days /\ r.slot \in Slots
      /\ RowTime(r) \in Teachers \X Days \X Slots
  BY DEF Row, RowTime
<1>2. TeacherSlotFree(board, r) <=> b.busy[RowTime(r)] = NoDivision
  <2>1. \A q \in board : b.busy[RowTime(q)] = q.div /\ q.div # NoDivision
    <3>1. \A q \in board : b.busy[RowTime(q)] = q.div
      BY EngineKeys DEF Reflects, Engine!IndexesEntries
    <3> QED
      BY <3>1, StoredRunAssumption DEF Row
  <2>2. b.busy[RowTime(r)] # NoDivision => \E q \in board : RowTime(q) = RowTime(r)
    BY <1>1, EngineKeys, EngineSlots DEF Reflects, Engine!IndexesEntries
  <2> QED
    BY <2>1, <2>2 DEF TeacherSlotFree
<1>3. b.daily[Engine!TeacherDay(r)] = Cardinality(On(his, r.day))
  <2>1. Engine!TeacherDay(r) \in DOMAIN b.daily
    BY <1>1, EngineSlots, EngineKeys DEF Reflects, Engine!Board
  <2>2. b.daily[Engine!TeacherDay(r)] = Cardinality({q \in board : Engine!TeacherDay(q) = Engine!TeacherDay(r)})
    BY <2>1, EngineCardinality DEF Reflects, Engine!CountsEntries
  <2>3. {q \in board : Engine!TeacherDay(q) = Engine!TeacherDay(r)} = On(his, r.day)
    BY EngineKeys DEF On, By
  <2> QED
    BY <2>2, <2>3
<1>4. b.session[Engine!TeacherHalf(r)] = Cardinality(InHalf(On(his, r.day), Half(r.slot)))
  <2>1. Half(r.slot) \in Halves
    BY DEF Half, Halves
  <2>2. Engine!TeacherHalf(r) \in DOMAIN b.session
    BY <1>1, <2>1, EngineSlots, EngineKeys DEF Reflects, Engine!Board
  <2>3. b.session[Engine!TeacherHalf(r)] = Cardinality({q \in board : Engine!TeacherHalf(q) = Engine!TeacherHalf(r)})
    BY <2>2, EngineCardinality DEF Reflects, Engine!CountsEntries
  <2>4. {q \in board : Engine!TeacherHalf(q) = Engine!TeacherHalf(r)} = InHalf(On(his, r.day), Half(r.slot))
    BY EngineKeys DEF On, By, InHalf
  <2> QED
    BY <2>3, <2>4
<1>5. b.weekly[r.teacher] = Cardinality(his)
  <2>1. b.weekly[r.teacher] = Cardinality({q \in board : q.teacher = r.teacher})
    BY <1>1, EngineCardinality DEF Reflects, Engine!CountsEntries
  <2> QED
    BY <2>1 DEF By
<1> HIDE DEF t, his
<1>6. HasCapacity(board, r) <=>
          /\ Cardinality(On(his, r.day)) < DailyCapacity[r.teacher]
          /\ Cardinality(InHalf(On(his, r.day), Half(r.slot))) < SessionCapacity[<<r.teacher, Half(r.slot)>>]
          /\ Cardinality(his) < WeeklyCapacity[r.teacher]
  BY DEF HasCapacity, his, t
<1> QED
  BY <1>2, <1>3, <1>4, <1>5, <1>6, EngineKeys, EngineLimits, EngineSlots DEF Engine!CanAssignTeacher

LEMMA ContinuityMirrors ==
    ASSUME NEW board \in SUBSET Row, NEW b, Reflects(b, board), NEW r \in Row
    PROVE  WithinContinuity(board, r) <=> ~ Engine!ViolatesContinuityLimits(b, r)
<1> DEFINE cell(n) == <<r.div, r.day, n>>
           taught(n) == r.teacher \in TaughtIn(board, cell(n))
           isOf(n, s) == \E q \in board : RowCell(q) = cell(n) /\ q.subject = s
<1>1. r.div \in Divisions /\ r.day \in Days /\ LessonSlots \subseteq Slots
  BY DEF Row, LessonSlots
<1>2. \A n \in LessonSlots : Engine!TaughtBy(b, r.teacher, r.div, r.day, n) <=> taught(n)
  BY <1>1, CellsReflect
<1>3. ASSUME NEW n \in LessonSlots, taught(n), NEW s
      PROVE  b.cell[cell(n)].subject = s <=> isOf(n, s)
  <2>1. b.cell[cell(n)] # NoLesson
    BY <1>2, <1>3 DEF Engine!TaughtBy
  <2> QED
    BY <1>1, <2>1, CellsReflect
<1> DEFINE back(n) == /\ n < r.slot
                      /\ \A m \in LessonSlots : n <= m /\ m < r.slot => taught(m)
           kept(n) == \A m, k \in LessonSlots :
                          n < k /\ k < m /\ m < r.slot /\ isOf(m, r.subject) => isOf(k, r.subject)
<1>4. Run(board, r) = {n \in LessonSlots : back(n) /\ kept(n)}
  BY DEF Run
<1>5. Engine!Behind(b, r) =
          {n \in LessonSlots :
              /\ n < r.slot
              /\ \A m \in LessonSlots :
                    n <= m /\ m < r.slot => Engine!TaughtBy(b, r.teacher, r.div, r.day, m)
              /\ \A m, k \in LessonSlots :
                    n < k /\ k < m /\ m < r.slot /\ b.cell[cell(m)].subject = r.subject
                    => b.cell[cell(k)].subject = r.subject}
  BY EngineSlots DEF Engine!Behind
<1>6. ASSUME NEW n \in LessonSlots, back(n)
      PROVE  kept(n) <=> \A m, k \in LessonSlots :
                    n < k /\ k < m /\ m < r.slot /\ b.cell[cell(m)].subject = r.subject
                    => b.cell[cell(k)].subject = r.subject
  <2>1. \A m \in LessonSlots : n < m /\ m < r.slot => taught(m)
    BY <1>6, NumbersNat
  <2>2. \A m, k \in LessonSlots : n < k /\ k < m /\ m < r.slot => n < m /\ k < r.slot
    <3>1. r.slot \in Nat
      BY NumbersNat DEF Row
    <3> QED
      BY <3>1, NumbersNat
  <2>3. \A m \in LessonSlots : n < m /\ m < r.slot =>
            (b.cell[cell(m)].subject = r.subject <=> isOf(m, r.subject))
    BY <1>3, <2>1
  <2> HIDE DEF cell, taught, isOf, back
  <2> QED
    BY <2>2, <2>3
<1>7. Engine!Behind(b, r) = Run(board, r)
  <2> HIDE DEF cell, taught, isOf, kept
  <2> QED
    BY <1>2, <1>4, <1>5, <1>6
<1>8. {n \in Run(board, r) : b.cell[cell(n)].subject = r.subject} = {n \in Run(board, r) : isOf(n, r.subject)}
  <2>1. ASSUME NEW n \in Run(board, r) PROVE n \in LessonSlots /\ taught(n)
    <3>1. n \in LessonSlots /\ back(n)
      BY <1>4
    <3>2. n <= n
      BY <3>1, NumbersNat
    <3> QED
      BY <3>1, <3>2
  <2> HIDE DEF cell, taught, isOf
  <2> QED
    BY <1>3, <2>1
<1>9. WithinContinuity(board, r) <=>
          /\ Cardinality(Run(board, r)) < AtLeastOne(Teacher[r.teacher].maxAny)
          /\ Cardinality({n \in Run(board, r) : isOf(n, r.subject)}) < AtLeastOne(Teacher[r.teacher].maxSame)
  BY DEF WithinContinuity
<1>10. Engine!ViolatesContinuityLimits(b, r) <=>
          \/ Cardinality(Run(board, r)) + 1 > AtLeastOne(Teacher[r.teacher].maxAny)
          \/ Cardinality({n \in Run(board, r) : isOf(n, r.subject)}) + 1 > AtLeastOne(Teacher[r.teacher].maxSame)
  <2>1. Engine!ViolatesContinuityLimits(b, r) <=>
          \/ Cardinality(Engine!Behind(b, r)) + 1 > AtLeastOne(Teacher[r.teacher].maxAny)
          \/ Cardinality({n \in Engine!Behind(b, r) : b.cell[cell(n)].subject = r.subject}) + 1
                 > AtLeastOne(Teacher[r.teacher].maxSame)
    BY EngineLimits, EngineCardinality DEF Engine!ViolatesContinuityLimits
  <2> HIDE DEF cell, isOf
  <2> QED
    BY <1>7, <1>8, <2>1
<1>11. /\ AtLeastOne(Teacher[r.teacher].maxAny) \in Nat /\ AtLeastOne(Teacher[r.teacher].maxSame) \in Nat
  BY SchoolAssumption DEF Row, AtLeastOne
<1>12. IsFiniteSet(Run(board, r))
  <2>1. IsFiniteSet(Slots) /\ Run(board, r) \in SUBSET Slots
    BY <1>1, SchoolAssumption DEF Run
  <2> QED
    BY <2>1, FS_Subset
<1>13. /\ Cardinality(Run(board, r)) \in Nat
       /\ Cardinality({n \in Run(board, r) : isOf(n, r.subject)}) \in Nat
  <2>1. {n \in Run(board, r) : isOf(n, r.subject)} \in SUBSET Run(board, r)
    OBVIOUS
  <2> HIDE DEF isOf
  <2> QED
    BY <1>12, <2>1, FS_Subset, FS_CardinalityType
<1> HIDE DEF isOf
<1> QED
  BY <1>9, <1>10, <1>11, <1>13

LEMMA OneClassMirrors ==
    ASSUME NEW board \in SUBSET Row, NEW b, Reflects(b, board), NEW r \in Row
    PROVE  OneContinuousClass(board, r) <=> ~ Engine!ViolatesSingleClassContinuity(b, r)
<1>1. r.div \in Divisions /\ r.day \in Days /\ LessonSlots \subseteq Slots
  BY DEF Row, LessonSlots
<1>2. \A n \in LessonSlots : Engine!TaughtBy(b, r.teacher, r.div, r.day, n)
                                 <=> r.teacher \in TaughtIn(board, <<r.div, r.day, n>>)
  BY <1>1, CellsReflect
<1>3. \A d \in Divisions, n \in LessonSlots :
          Engine!TaughtBy(b, r.teacher, d, r.day, n) <=> Taught(board, r.teacher, d, r.day, n)
  BY <1>1, CellsReflect
<1>4. Engine!CreatesContinuity(b, r) <=>
          \E m \in LessonSlots :
              /\ Consecutive(m, r.slot) \/ Consecutive(r.slot, m)
              /\ r.teacher \in TaughtIn(board, <<r.div, r.day, m>>)
  BY <1>2, EngineSlots DEF Engine!CreatesContinuity
<1>5. \A d \in Divisions :
          Engine!HasContinuity(b, r.teacher, d, r.day) <=> HasNeighbours(board, r.teacher, d, r.day)
  BY <1>3, EngineSlots DEF Engine!HasContinuity, HasNeighbours
<1> QED
  BY <1>4, <1>5 DEF OneContinuousClass, Engine!ViolatesSingleClassContinuity

\* evaluatePlacement lets a new lesson stand in a free cell exactly when
\* canPlaceAssignment would place it there, on any engine board whose maps
\* are in step with the same lessons, however the engine came to it.
THEOREM EditorMirrorsEngine ==
    ASSUME NEW board \in SUBSET Row, NEW b, Reflects(b, board),
           NEW r \in Row, IsFree(board, RowCell(r))
    PROVE  MayStand(board, {RowCell(r)}, r, FALSE) <=> Engine!CanPlace(b, r, FALSE)
<1>1. Without(board, {RowCell(r)}) = board
  BY DEF Without, IsFree
<1>2. b.cell[Engine!CellOf(r)] = NoLesson
  <2>1. r.div \in Divisions /\ r.day \in Days /\ r.slot \in Slots
    BY DEF Row
  <2>2. b.cell[<<r.div, r.day, r.slot>>] = NoLesson <=> IsFree(board, <<r.div, r.day, r.slot>>)
    BY <2>1, CellsReflect
  <2> QED
    BY <2>2, EngineKeys DEF RowCell
<1>3. RowCell(r) \in Grid <=> r.slot \in LessonSlots /\ SlotActive(r.slot, r.day)
  BY DEF Grid, RowCell, Row
<1>4. RulesHold(r) <=>
          /\ Engine!SoftAllowed(r)
          /\ Engine!IsPlacementAllowedByIncludeOnly(r.subject, r.div, r.day, r.slot)
  BY EngineRules DEF RulesHold, Engine!SoftAllowed
<1>5. BeforeTeacher(board, board, r, FALSE) <=>
          /\ TeacherAllowedInDivision(r.teacher, r.div)
          /\ RowCell(r) \in Grid /\ RulesHold(r)
          /\ UnderLimits(board, r) /\ LockHolds(board, r)
  BY DEF BeforeTeacher
<1>6. MayStand(board, {RowCell(r)}, r, FALSE) <=>
          /\ BeforeTeacher(board, board, r, FALSE)
          /\ TeacherSlotFree(board, r) /\ RowTime(r) \notin FreePeriodRules /\ HasCapacity(board, r)
          /\ WithinContinuity(board, r) /\ OneContinuousClass(board, r)
  BY <1>1 DEF MayStand
<1>7. Engine!CanPlace(b, r, FALSE) <=>
          /\ TeacherAllowedInDivision(r.teacher, r.div)
          /\ r.slot \in LessonSlots /\ SlotActive(r.slot, r.day)
          /\ Engine!SoftAllowed(r)
          /\ Engine!IsPlacementAllowedByIncludeOnly(r.subject, r.div, r.day, r.slot)
          /\ Engine!LimitsAllow(b, r) /\ Engine!LockAllows(b, r) /\ Engine!CanAssignTeacher(b, r)
          /\ ~ Engine!ViolatesContinuityLimits(b, r) /\ ~ Engine!ViolatesSingleClassContinuity(b, r)
  BY <1>2, EngineLimits, EngineSlots DEF Engine!CanPlace
<1> QED
  BY <1>3, <1>4, <1>5, <1>6, <1>7, LimitsMirror, CapacityMirrors, ContinuityMirrors, OneClassMirrors

\* the maps built from the lessons of a board that stand apart are in step
LEMMA EngineBoardReflects ==
    ASSUME NEW board \in SUBSET Row, NoTeacherTwice(board)
    PROVE  Reflects(EngineBoard(board), board)
<1> DEFINE b == EngineBoard(board)
           cells == [c \in Engine!Cells |-> IF IsFree(board, c) THEN NoLesson ELSE LessonAt(board, c)]
           at(time) == {r \in board : RowTime(r) = time}
           who(k) == CHOOSE r \in at(k) : TRUE
           times == Teachers \X Days \X Slots
           busy == [k \in times |-> IF at(k) = {} THEN NoDivision ELSE who(k).div]
<1>1. /\ b.entries = board /\ b.cell = cells /\ b.busy = busy
      /\ b.daily = [k \in Teachers \X Days |-> Cardinality({r \in board : Engine!TeacherDay(r) = k})]
      /\ b.session = [k \in Teachers \X Days \X Halves |-> Cardinality({r \in board : Engine!TeacherHalf(r) = k})]
      /\ b.weekly = [t \in Teachers |-> Cardinality({r \in board : r.teacher = t})]
      /\ b.subWeek = [p \in Pairs |-> Cardinality({r \in board : Engine!PairOf(r) = p})]
      /\ b.subDay = [k \in Divisions \X Subjects \X Days |-> Cardinality({r \in board : Engine!PairDay(r) = k})]
      /\ b.lock = [p \in Pairs |-> {r.teacher : r \in Of(board, p)}]
      /\ b.pinned = {} /\ b.stack = <<>>
  BY DEF EngineBoard
<1>2. b = [entries |-> b.entries, cell |-> b.cell, busy |-> b.busy, daily |-> b.daily,
           session |-> b.session, weekly |-> b.weekly, subWeek |-> b.subWeek, subDay |-> b.subDay,
           lock |-> b.lock, pinned |-> b.pinned, stack |-> b.stack]
  BY DEF EngineBoard
<1>3. ASSUME NEW c \in Engine!Cells, ~ IsFree(board, c)
      PROVE  cells[c] \in board /\ RowCell(cells[c]) = c
  BY <1>3, LessonIsThere
<1>4. ASSUME NEW q \in board PROVE cells[RowCell(q)] = q /\ busy[RowTime(q)] = q.div
  <2>1. RowCell(q) \in Engine!Cells /\ RowTime(q) \in times
    BY EngineKeys DEF Row, RowCell, RowTime
  <2>2. ~ IsFree(board, RowCell(q))
    BY DEF IsFree
  <2>3. cells[RowCell(q)] \in board /\ RowCell(cells[RowCell(q)]) = RowCell(q)
    BY <1>3, <2>1, <2>2
  <2>4. who(RowTime(q)) \in board /\ RowTime(who(RowTime(q))) = RowTime(q) /\ at(RowTime(q)) # {}
    OBVIOUS
  <2>5. cells[RowCell(q)] = q /\ who(RowTime(q)) = q
    BY <2>3, <2>4 DEF NoTeacherTwice
  <2> QED
    BY <2>1, <2>4, <2>5
<1>5. \A k \in times : busy[k] # NoDivision => at(k) # {}
  OBVIOUS
<1>6. Engine!IndexesEntries(b)
  <2>1. \A c \in Engine!Cells : cells[c] # NoLesson => cells[c] \in board /\ RowCell(cells[c]) = c
    BY <1>3
  <2>2. \A k \in times : busy[k] # NoDivision => \E l \in board : RowTime(l) = k
    BY <1>5
  <2> HIDE DEF b, cells, busy, at, who
  <2> QED
    BY <1>1, <1>4, <2>1, <2>2, EngineKeys, EngineSlots DEF Engine!IndexesEntries
<1>7. Engine!CountsEntries(b)
  <2> HIDE DEF b
  <2> QED
    BY <1>1, EngineSlots, EngineCardinality DEF Engine!CountsEntries
<1>8. \A S \in SUBSET board : Cardinality(S) \in Nat
  BY ApartFinite, FS_Subset, FS_CardinalityType
<1>9. cells \in [Engine!Cells -> Row \cup {NoLesson}]
  BY <1>3
<1>10. busy \in [times -> Divisions \cup {NoDivision}]
  <2>1. \A k \in times : at(k) # {} => who(k).div \in Divisions
    BY DEF Row
  <2> HIDE DEF at, who, times
  <2> QED
    BY <2>1
<1>11. \A p \in Pairs : {r.teacher : r \in Of(board, p)} \subseteq Teachers
  BY DEF Of, Row
<1>12. b \in Engine!Board
  <2>1. /\ b.daily \in [Teachers \X Days -> Nat] /\ b.session \in [Teachers \X Days \X Halves -> Nat]
        /\ b.weekly \in [Teachers -> Nat] /\ b.subWeek \in [Pairs -> Nat]
        /\ b.subDay \in [Divisions \X Subjects \X Days -> Nat]
    <3> HIDE DEF b
    <3> QED
      BY <1>1, <1>8
  <2>2. b.lock \in [Pairs -> SUBSET Teachers]
    <3> HIDE DEF b
    <3> QED
      BY <1>1, <1>11
  <2>3. b.entries \in SUBSET Row /\ b.pinned \in SUBSET Engine!Cells
        /\ b.stack \in Seq([lesson : Row, pinned : BOOLEAN])
    BY <1>1
  <2>4. b.cell \in [Engine!Cells -> Row \cup {NoLesson}] /\ b.busy \in [times -> Divisions \cup {NoDivision}]
    BY <1>1, <1>9, <1>10
  <2> HIDE DEF b, cells, busy
  <2> QED
    BY <1>2, <2>1, <2>2, <2>3, <2>4, EngineKeys, EngineSlots DEF Engine!Board
<1>13. \A p \in Pairs : b.lock[p] = {r.teacher : r \in Of(board, p)}
  BY <1>1
<1> HIDE DEF b
<1>14. Reflects(b, board)
  BY <1>1, <1>6, <1>7, <1>12, <1>13 DEF Reflects
<1> QED
  BY <1>14 DEF b

\* On every board the run is changed from, the editor admits a new lesson in
\* a free cell exactly when the engine would place it there, after any edits,
\* undos and fixes of several tabs, for every school and its rules.
THEOREM EditorAndEngineAgree ==
    ASSUME GeneratedApart
    PROVE  Spec => MirrorsEngine
<1>1. ASSUME IInv, Apart, NEW c \in Grid, NEW s \in Subjects, NEW t \in Teachers, IsFree(run.board, c)
      PROVE  LET r == [div |-> c[1], day |-> c[2], slot |-> c[3], subject |-> s, teacher |-> t]
             IN  MayStand(run.board, {c}, r, FALSE)
                 <=> Engine!CanPlace(EngineBoard(run.board), r, FALSE)
  <2> DEFINE r == [div |-> c[1], day |-> c[2], slot |-> c[3], subject |-> s, teacher |-> t]
  <2>1. run.board \in SUBSET Row /\ NoTeacherTwice(run.board)
    BY <1>1 DEF IInv, Typed, Apart, Copies, Boards
  <2>2. r \in Row /\ RowCell(r) = c
    BY GridIsCells DEF Row, RowCell
  <2> HIDE DEF r
  <2>3. MayStand(run.board, {RowCell(r)}, r, FALSE) <=> Engine!CanPlace(EngineBoard(run.board), r, FALSE)
    BY <1>1, <2>1, <2>2, EngineBoardReflects, EditorMirrorsEngine
  <2> QED
    BY <2>2, <2>3 DEF r
<1>2. IInv /\ Apart =>
          [run' # run =>
              \A c \in Grid, s \in Subjects, t \in Teachers :
                  IsFree(run.board, c) =>
                      LET r == [div |-> c[1], day |-> c[2], slot |-> c[3], subject |-> s, teacher |-> t]
                      IN  MayStand(run.board, {c}, r, FALSE)
                          <=> Engine!CanPlace(EngineBoard(run.board), r, FALSE)]_vars
  BY <1>1
<1> QED
  BY <1>2, RunInvariance, StaysApart, PTL DEF MirrorsEngine
=============================================================================

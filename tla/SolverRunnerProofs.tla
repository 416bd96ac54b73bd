------------------------- MODULE SolverRunnerProofs -------------------------
(***************************************************************************)
(* For any number of generations under any settings: the runner keeps its  *)
(* contract with the routes, which is to give each generation one result   *)
(* that its settings allow, and never to leave a worker behind; and what   *)
(* it delivers from the sidecar is a timetable.                            *)
(*                                                                         *)
(* The contract needs to know where each outcome on its way comes from     *)
(* (Sound): a response is an answer of the sidecar to this request, a     *)
(* message judges such an answer or tells of a failure, and a worker was   *)
(* only started for a request that wants one.  The timetable needs that    *)
(* the constraints of the model imply the findings of the validation.      *)
(***************************************************************************)
EXTENDS SolverRunner, FiniteSetTheorems, SequenceTheorems, WellFoundedInduction, TLAPS

\* a worker is started for this request
NeedsWorker(r) ==
    \/ request[r].mode = "experimental"
    \/ WantsSolver(request[r].mode) /\ env.url /\ ~ SizeCapped(env)

\* an answer of the sidecar that passes the validation, or need not
Accepted(r, m) ==
    \E a \in Answers(request[r].fixed) :
        /\ a.status # "INFEASIBLE" /\ m.rows = a.rows /\ m.flagged = HasErrors(a.rows)
        /\ HasErrors(a.rows) => ~ env.fallback

\* what the outcome m of request r tells of
Backed(r, m) ==
    IF m.ok
    THEN IF WantsSolver(request[r].mode) THEN Accepted(r, m) ELSE m.rows = {} /\ m.flagged = FALSE
    ELSE request[r].mode = "experimental" => m.reason \in {"timeout", "error"}

Answered(r) == http[r].status \in {"FEASIBLE", "PARTIAL", "INFEASIBLE"}

\* the part of the inductive invariant about one request; what has been
\* delivered is one of the possible results
Sound(r) ==
    /\ worker[r] # "none" => NeedsWorker(r)
    /\ worker[r] = "asking" => WantsSolver(request[r].mode)
    /\ Answered(r) => http[r] \in Answers(request[r].fixed)
    /\ message[r] # NoMessage => worker[r] # "none" /\ Backed(r, message[r])
    /\ settled[r] # NoResult => worker[r] # "none" /\ Backed(r, settled[r])
    /\ result[r] # NoResult => /\ worker[r] \in {"none", "terminated"}
                              /\ result[r] \in PossibleResults(env, request[r])

IInv == TypeOK /\ \A r \in Requests : Sound(r)

-----------------------------------------------------------------------------
(* Sets of numbers *)

LEMMA HasLeast ==
    ASSUME NEW S \in SUBSET Nat, S # {}
    PROVE  \E x \in S : \A y \in S : x <= y
<1> DEFINE R == OpToRel(<, Nat)
<1>1. PICK x \in S : \A y \in S : <<y, x>> \notin R
  <2>1. IsWellFoundedOn(R, Nat)
    BY NatLessThanWellFounded
  <2> HIDE DEF R
  <2> QED
    BY <2>1, WFMin
<1>2. ASSUME NEW y \in S PROVE x <= y
  <2>1. x \in Nat /\ y \in Nat /\ ~ (y < x)
    BY <1>1 DEF OpToRel
  <2> QED
    BY <2>1
<1> QED
  BY <1>2

\* from the well-founded order on the naturals, counted down from the bound
LEMMA HasGreatest ==
    ASSUME NEW S \in SUBSET Nat, S # {}, NEW bound \in Nat, \A x \in S : x <= bound
    PROVE  Max(S) \in S /\ \A x \in S : x <= Max(S)
<1> DEFINE gap(x) == bound - x
           T == {gap(x) : x \in S}
           R == OpToRel(<, Nat)
<1>0. \A x \in S : gap(x) \in Nat
  OBVIOUS
<1>1. PICK x \in S : \A y \in S : <<gap(y), gap(x)>> \notin R
  <2>1. T \subseteq Nat /\ T # {}
    BY <1>0
  <2>2. PICK k \in T : \A m \in T : <<m, k>> \notin R
    <3>1. IsWellFoundedOn(R, Nat)
      BY NatLessThanWellFounded
    <3> HIDE DEF T, R
    <3> QED
      BY <2>1, <3>1, WFMin
  <2> QED
    BY <2>2
<1>2. ASSUME NEW y \in S PROVE x >= y
  <2>1. ~ (gap(y) < gap(x))
    BY <1>0, <1>1 DEF OpToRel
  <2>2. x \in Nat /\ y \in Nat
    OBVIOUS
  <2> QED
    BY <2>1, <2>2
<1>3. Max(S) \in S /\ \A y \in S : Max(S) >= y
  BY <1>2 DEF Max
<1> QED
  BY <1>3

-----------------------------------------------------------------------------
(* The answers of the sidecar *)

LEMMA OrderTyped ==
    ASSUME NEW f \in [pair : Pairs, day : Days, slot : LessonSlots], CanFix(f)
    PROVE  FixedTeacher(f) \in Teachers /\ MayFix(f, FixedTeacher(f))
<1> DEFINE S == {i \in DOMAIN TeacherOrder : MayFix(f, TeacherOrder[i])}
<1>1. TeacherOrder \in Seq(Teachers)
  BY CpsatAssumption
<1>2. S \in SUBSET Nat /\ S # {}
  BY <1>1 DEF CanFix
<1>3. Min(S) \in S
  <2> HIDE DEF S
  <2> QED
    BY <1>2, HasLeast DEF Min
<1> QED
  BY <1>1, <1>3 DEF FixedTeacher

LEMMA KeysTyped ==
    ASSUME NEW p \in Pairs, NEW k \in Keys
    PROVE  /\ k[1] \in Teachers /\ k[2] \in Days /\ k[3] \in LessonSlots
           /\ MakeRow(p, k) \in Row
BY DEF Pairs, Keys, MakeRow, Row, LessonSlots

LEMMA FixedRowTyped ==
    ASSUME NEW f \in [pair : Pairs, day : Days, slot : LessonSlots], CanFix(f)
    PROVE  FixedRow(f) \in Row /\ RowCell(FixedRow(f)) = FixedCell(f)
<1>1. FixedTeacher(f) \in Teachers
  BY OrderTyped
<1> QED
  BY <1>1 DEF FixedRow, MakeRow, Row, Pairs, LessonSlots, RowCell, FixedCell

LEMMA FixedListTyped ==
    ASSUME NEW fs \in FixedLists, NEW i \in DOMAIN fs
    PROVE  fs[i] \in [pair : Pairs, day : Days, slot : LessonSlots] /\ i \in Nat
<1> DEFINE Slot == [pair : Pairs, day : Days, slot : LessonSlots]
<1>1. fs \in Seq(Slot)
  BY CpsatAssumption
<1> HIDE DEF Slot
<1>2. Len(fs) \in Nat /\ DOMAIN fs = 1..Len(fs)
  BY <1>1, LenProperties
<1>3. fs[i] \in Slot /\ i \in Nat
  BY <1>1, <1>2, ElementOfSeq
<1> QED
  BY <1>3 DEF Slot

\* fixed rows are rows, no two of them at one cell
LEMMA FixedRowsTyped ==
    ASSUME NEW fs \in FixedLists
    PROVE  /\ FixedRows(fs) \subseteq Row
           /\ \A x, y \in FixedRows(fs) : RowCell(x) = RowCell(y) => x = y
<1> DEFINE First == {j \in DOMAIN fs :
                       /\ CanFix(fs[j])
                       /\ \A k \in DOMAIN fs : k < j /\ CanFix(fs[k]) => FixedCell(fs[k]) # FixedCell(fs[j])}
<1>1. \A i \in First : FixedRow(fs[i]) \in Row /\ RowCell(FixedRow(fs[i])) = FixedCell(fs[i])
  BY FixedListTyped, FixedRowTyped
<1>2. FixedRows(fs) = {FixedRow(fs[i]) : i \in First}
  BY DEF FixedRows
<1>3. ASSUME NEW i \in First, NEW j \in First, FixedCell(fs[i]) = FixedCell(fs[j]) PROVE i = j
  BY <1>3, FixedListTyped
<1> HIDE DEF First
<1> QED
  BY <1>1, <1>2, <1>3

LEMMA SolutionsTyped ==
    ASSUME NEW fixed \in SUBSET Row, NEW rows \in Solutions(fixed, Placeable(fixed))
    PROVE  rows \subseteq Row
<1>1. PICK a \in Assignments(fixed, Placeable(fixed)) :
        rows = fixed \cup {MakeRow(u[1], a[u]) : u \in {v \in Placeable(fixed) : a[v] # Unplaced}}
  BY DEF Solutions
<1>2. ASSUME NEW u \in Placeable(fixed), a[u] # Unplaced
      PROVE  u[1] \in Pairs /\ a[u] \in Keys
  <2>1. u \in Units(fixed)
    BY DEF Placeable
  <2>2. u[1] \in Pairs
    BY <2>1 DEF Units, ApplicablePairs
  <2> QED
    BY <1>2, <2>2 DEF Assignments, Domain, AllowedKeys
<1>3. \A u \in {v \in Placeable(fixed) : a[v] # Unplaced} : MakeRow(u[1], a[u]) \in Row
  BY <1>2, KeysTyped
<1> QED
  BY <1>1, <1>3

LEMMA AnswersAre ==
    ASSUME NEW fs \in FixedLists
    PROVE  Answers(fs) = Solve(FixedRows(fs)) /\ <<fs, Answers(fs)>> \in AnswersOf
<1>1. <<fs, Solve(FixedRows(fs))>> \in AnswersOf
  BY DEF AnswersOf
<1>2. \A x \in AnswersOf : x[1] = fs => x = <<fs, Solve(FixedRows(fs))>>
  BY DEF AnswersOf
<1>3. (CHOOSE x \in AnswersOf : x[1] = fs) = <<fs, Solve(FixedRows(fs))>>
  <2>1. <<fs, Solve(FixedRows(fs))>>[1] = fs
    OBVIOUS
  <2> QED
    BY <1>1, <1>2, <2>1
<1>4. Answers(fs) = Solve(FixedRows(fs))
  <2>1. Answers(fs) = (CHOOSE x \in AnswersOf : x[1] = fs)[2]
    BY DEF Answers
  <2>2. <<fs, Solve(FixedRows(fs))>>[2] = Solve(FixedRows(fs))
    OBVIOUS
  <2> QED
    BY <1>3, <2>1, <2>2
<1> QED
  BY <1>1, <1>4

LEMMA AnswersTyped ==
    ASSUME NEW fs \in FixedLists, NEW a \in Answers(fs)
    PROVE  /\ a \in [status : {"FEASIBLE", "PARTIAL", "INFEASIBLE"}, rows : SUBSET Row]
           /\ a \in UNION {y[2] : y \in AnswersOf}
<1> DEFINE fixed == FixedRows(fs)
<1> DEFINE units == Placeable(fixed)
<1> DEFINE complete(rows) == \A p \in ApplicablePairs : Cardinality(Of(rows, p)) >= WeeklyTarget[p]
<1>1. a \in Solve(fixed) /\ fixed \subseteq Row
  BY AnswersAre, FixedRowsTyped
<1>2. \/ a = Answer("FEASIBLE", fixed) \/ a = Answer("INFEASIBLE", {}) \/ a = Answer("PARTIAL", fixed)
      \/ \E rows \in Solutions(fixed, units) : a = Answer(IF complete(rows) THEN "FEASIBLE" ELSE "PARTIAL", rows)
  BY <1>1 DEF Solve
<1>3. \A rows \in Solutions(fixed, units) : rows \subseteq Row
  BY <1>1, SolutionsTyped
<1>4. a \in [status : {"FEASIBLE", "PARTIAL", "INFEASIBLE"}, rows : SUBSET Row]
  <2> HIDE DEF fixed, units, complete
  <2> QED
    BY <1>1, <1>2, <1>3 DEF Answer
<1>5. a \in UNION {y[2] : y \in AnswersOf}
  <2>1. <<fs, Answers(fs)>> \in AnswersOf
    BY AnswersAre
  <2>2. <<fs, Answers(fs)>>[2] = Answers(fs)
    OBVIOUS
  <2> HIDE DEF fixed, units, complete
  <2> QED
    BY <2>1, <2>2
<1> QED
  BY <1>4, <1>5

LEMMA FlaggedAre ==
    ASSUME NEW fs \in FixedLists, NEW a \in Answers(fs)
    PROVE  a.rows \in FlaggedRows <=> HasErrors(a.rows)
BY AnswersTyped DEF FlaggedRows

-----------------------------------------------------------------------------
(* Results and outcomes *)

LEMMA LegacyTyped ==
    ASSUME NEW e, NEW mode, NEW reason \in Reasons \cup {"none", "cp_sat_url_missing", "cp_sat_size_cap"}
    PROVE  Legacy(e, mode, reason) \in Result
<1>1. Boosted(e, mode) \in BOOLEAN
  BY DEF Boosted
<1>2. \A b \in BOOLEAN :
        [applied |-> "legacy", reason |-> reason, boosted |-> b, rows |-> {}, flagged |-> FALSE] \in Result
  BY DEF Result
<1> QED
  BY <1>1, <1>2 DEF Legacy

LEMMA FromWorkerTyped ==
    ASSUME NEW applied \in {"experimental", "cp_sat"}, NEW rows \in SUBSET Row, NEW flagged \in BOOLEAN
    PROVE  FromWorker(applied, rows, flagged) \in Result
BY DEF FromWorker, Result

LEMMA FailureTyped ==
    ASSUME NEW reason \in Reasons
    PROVE  /\ [ok |-> FALSE, reason |-> reason] \in Outcome
           /\ [ok |-> FALSE, reason |-> reason].ok = FALSE
           /\ [ok |-> FALSE, reason |-> reason].reason = reason
BY DEF Outcome

LEMMA SuccessTyped ==
    ASSUME NEW rows \in SUBSET Row, NEW flagged \in BOOLEAN
    PROVE  /\ [ok |-> TRUE, rows |-> rows, flagged |-> flagged] \in Outcome
           /\ [ok |-> TRUE, rows |-> rows, flagged |-> flagged].ok = TRUE
           /\ [ok |-> TRUE, rows |-> rows, flagged |-> flagged].rows = rows
           /\ [ok |-> TRUE, rows |-> rows, flagged |-> flagged].flagged = flagged
BY DEF Outcome

LEMMA OutcomeFields ==
    ASSUME NEW m \in Outcome
    PROVE  \/ m.ok = TRUE /\ m.rows \in SUBSET Row /\ m.flagged \in BOOLEAN
           \/ m.ok = FALSE /\ m.reason \in Reasons
BY DEF Outcome

\* the outcome of a response is one the request may have
LEMMA JudgeBacked ==
    ASSUME NEW r \in Requests, request[r].fixed \in FixedLists, WantsSolver(request[r].mode),
           NEW a \in [status : Statuses, rows : SUBSET Row],
           a.status \in {"FEASIBLE", "PARTIAL", "INFEASIBLE"} => a \in Answers(request[r].fixed)
    PROVE  Judge(r, a) \in Outcome /\ Backed(r, Judge(r, a))
<1>1. request[r].mode # "experimental" /\ HasErrors(a.rows) \in BOOLEAN
  BY DEF WantsSolver, HasErrors
<1>2. CASE a.status \notin {"FEASIBLE", "PARTIAL"}
  <2>1. Judge(r, a) = [ok |-> FALSE, reason |-> "error"]
    BY <1>2 DEF Judge
  <2> QED
    BY <1>1, <2>1, FailureTyped DEF Backed, Reasons
<1>3. CASE a.status \in {"FEASIBLE", "PARTIAL"} /\ HasErrors(a.rows) /\ env.fallback
  <2>1. Judge(r, a) = [ok |-> FALSE, reason |-> "cp_sat_validation"]
    BY <1>3 DEF Judge
  <2> QED
    BY <1>1, <2>1, FailureTyped DEF Backed, Reasons
<1>4. CASE a.status \in {"FEASIBLE", "PARTIAL"} /\ ~ (HasErrors(a.rows) /\ env.fallback)
  <2> DEFINE m == [ok |-> TRUE, rows |-> a.rows, flagged |-> HasErrors(a.rows)]
  <2>1. Judge(r, a) = m
    BY <1>4 DEF Judge
  <2>2. m \in Outcome /\ m.ok = TRUE /\ m.rows = a.rows /\ m.flagged = HasErrors(a.rows)
    BY <1>1, SuccessTyped
  <2> HIDE DEF m
  <2>3. Accepted(r, m)
    BY <1>4, <2>2 DEF Accepted
  <2> QED
    BY <2>1, <2>2, <2>3 DEF Backed
<1> QED
  BY <1>2, <1>3, <1>4

\* what is delivered is possible
LEMMA DeliveredPossible ==
    ASSUME NEW r \in Requests, request[r] \in [mode : Modes, fixed : FixedLists], NeedsWorker(r),
           NEW m \in Outcome, Backed(r, m)
    PROVE  LET x == IF m.ok
                    THEN FromWorker(IF WantsSolver(request[r].mode) THEN "cp_sat" ELSE "experimental",
                                    m.rows, m.flagged)
                    ELSE Legacy(env, request[r].mode, m.reason)
           IN  x \in Result /\ x \in PossibleResults(env, request[r])
<1> DEFINE q == request[r]
<1>1. CASE q.mode = "experimental"
  <2>1. PossibleResults(env, q) =
          {FromWorker("experimental", {}, FALSE)} \cup {Legacy(env, q.mode, x) : x \in {"timeout", "error"}}
    BY <1>1 DEF PossibleResults, WantsSolver
  <2>2. CASE m.ok = TRUE
    <3>1. m.rows = {} /\ m.flagged = FALSE /\ ~ WantsSolver(q.mode)
      BY <1>1, <2>2 DEF Backed, WantsSolver
    <3> QED
      BY <2>1, <2>2, <3>1, FromWorkerTyped
  <2>3. CASE m.ok = FALSE
    <3>1. m.reason \in {"timeout", "error"}
      BY <1>1, <2>3 DEF Backed
    <3> QED
      BY <2>1, <2>3, <3>1, LegacyTyped DEF Reasons
  <2> QED
    BY <2>2, <2>3, OutcomeFields
<1>2. CASE WantsSolver(q.mode) /\ env.url /\ ~ SizeCapped(env)
  <2>1. PossibleResults(env, q) =
          {Legacy(env, q.mode, x) : x \in Reasons} \cup
          {FromWorker("cp_sat", a.rows, a.rows \in FlaggedRows) :
             a \in {x \in Answers(q.fixed) : /\ x.status # "INFEASIBLE"
                                             /\ x.rows \in FlaggedRows => ~ env.fallback}}
    BY <1>2 DEF PossibleResults, WantsSolver
  <2>2. CASE m.ok = TRUE
    <3>1. PICK a \in Answers(q.fixed) :
            /\ a.status # "INFEASIBLE" /\ m.rows = a.rows /\ m.flagged = HasErrors(a.rows)
            /\ HasErrors(a.rows) => ~ env.fallback
      BY <1>2, <2>2 DEF Backed, Accepted
    <3>2. a.rows \in FlaggedRows <=> HasErrors(a.rows)
      BY FlaggedAre
    <3>3. (a.rows \in FlaggedRows) = m.flagged
      <4>1. HasErrors(a.rows) \in BOOLEAN /\ (a.rows \in FlaggedRows) \in BOOLEAN
        BY DEF HasErrors
      <4>2. (a.rows \in FlaggedRows) = HasErrors(a.rows)
        BY <3>2, <4>1
      <4> QED
        BY <3>1, <4>2
    <3>4. FromWorker("cp_sat", m.rows, m.flagged) \in PossibleResults(env, q)
      BY <2>1, <3>1, <3>2, <3>3
    <3> QED
      BY <1>2, <2>2, <3>4, OutcomeFields, FromWorkerTyped
  <2>3. CASE m.ok = FALSE
    BY <2>1, <2>3, OutcomeFields, LegacyTyped
  <2> QED
    BY <2>2, <2>3, OutcomeFields
<1> QED
  BY <1>1, <1>2 DEF NeedsWorker

-----------------------------------------------------------------------------
(* One step *)

\* a step of one request leaves the others as they are
Elsewhere(r) ==
    /\ UNCHANGED <<env, request>>
    /\ \A s \in Requests \ {r} :
         /\ worker'[s] = worker[s] /\ message'[s] = message[s] /\ http'[s] = http[s]
         /\ settled'[s] = settled[s] /\ result'[s] = result[s]

LEMMA SoundElsewhere ==
    ASSUME NEW r \in Requests, Elsewhere(r), \A s \in Requests : Sound(s), Sound(r)'
    PROVE  \A s \in Requests : Sound(s)'
<1>1. ASSUME NEW s \in Requests, s # r PROVE Sound(s)'
  <2>1. Sound(s)
    OBVIOUS
  <2>2. /\ env' = env /\ request' = request /\ worker'[s] = worker[s] /\ message'[s] = message[s]
        /\ http'[s] = http[s] /\ settled'[s] = settled[s] /\ result'[s] = result[s]
    BY <1>1 DEF Elsewhere
  <2> QED
    BY <2>1, <2>2 DEF Sound, NeedsWorker, Answered, Backed, Accepted
<1> QED
  BY <1>1

\* nothing about r has changed but perhaps its clock
SameRequest(r) ==
    /\ UNCHANGED <<env, request>>
    /\ worker'[r] = worker[r] /\ message'[r] = message[r] /\ http'[r] = http[r]
    /\ settled'[r] = settled[r] /\ result'[r] = result[r]

LEMMA SoundAsBefore ==
    ASSUME NEW r \in Requests, Sound(r), SameRequest(r)
    PROVE  Sound(r)'
BY DEF Sound, SameRequest, NeedsWorker, Answered, Backed, Accepted

Fields ==
    /\ worker \in [Requests -> {"none", "running", "asking", "finished", "terminated"}]
    /\ message \in [Requests -> Outcome \cup {NoMessage}]
    /\ http \in [Requests -> [status : Statuses, rows : SUBSET Row]]
    /\ settled \in [Requests -> Outcome \cup {NoResult}]
    /\ result \in [Requests -> Result \cup {NoResult}]

Queued ==
    /\ queue \in Seq(Requests) /\ solving \subseteq Requests /\ prompt \subseteq Requests
    /\ env.host = "http" => \A r, s \in solving : r = s

Timed ==
    /\ env \in Envs /\ request \in [Requests -> [mode : Modes, fixed : FixedLists]]
    /\ elapsed \in [Requests -> {0} \cup Deadlines(env.timeout)]

LEMMA TypeOKIsItsParts ==
    /\ TypeOK <=> Timed /\ Fields /\ Queued
    /\ TypeOK' <=> Timed' /\ Fields' /\ Queued'
BY DEF TypeOK, Timed, Fields, Queued

LEMMA RequestTyped ==
    ASSUME Timed, NEW r \in Requests
    PROVE  /\ request[r] \in [mode : Modes, fixed : FixedLists]
           /\ request[r].mode \in Modes /\ request[r].fixed \in FixedLists
BY DEF Timed

LEMMA SameQueue ==
    ASSUME Queued, UNCHANGED <<env, sidecar>>
    PROVE  Queued'
BY DEF Queued, sidecar

LEMMA SameTime ==
    ASSUME Timed, UNCHANGED <<env, request, elapsed>>
    PROVE  Timed'
BY DEF Timed

LEMMA RunLegacyStep ==
    ASSUME TypeOK, NEW r \in Requests, Sound(r), RunLegacy(r)
    PROVE  TypeOK' /\ Sound(r)' /\ Elsewhere(r) /\ Contract!Deliver(r)
<1> USE TypeOKIsItsParts
<1>1. PICK reason \in {"none", "cp_sat_url_missing", "cp_sat_size_cap"} :
        /\ result' = [result EXCEPT ![r] = Legacy(env, request[r].mode, reason)]
        /\ Legacy(env, request[r].mode, reason) \in PossibleResults(env, request[r])
  <2> DEFINE q == request[r]
  <2>1. CASE q.mode = "legacy"
    <3>1. PossibleResults(env, q) = {Legacy(env, q.mode, "none")}
      BY <2>1 DEF PossibleResults, WantsSolver
    <3> QED
      BY <2>1, <3>1 DEF RunLegacy
  <2>2. CASE WantsSolver(q.mode) /\ ~ env.url
    <3>1. PossibleResults(env, q) = {Legacy(env, q.mode, "cp_sat_url_missing")}
      BY <2>2 DEF PossibleResults, WantsSolver
    <3> QED
      BY <2>2, <3>1 DEF RunLegacy, WantsSolver
  <2>3. CASE WantsSolver(q.mode) /\ env.url /\ SizeCapped(env)
    <3>1. PossibleResults(env, q) = {Legacy(env, q.mode, "cp_sat_size_cap")}
      BY <2>3 DEF PossibleResults, WantsSolver
    <3> QED
      BY <2>3, <3>1 DEF RunLegacy, WantsSolver
  <2> QED
    BY <2>1, <2>2, <2>3 DEF RunLegacy
<1>2. Fields'
  BY <1>1, LegacyTyped DEF RunLegacy, Fields
<1>3. Timed' /\ Queued' /\ Elsewhere(r)
  BY SameTime, SameQueue DEF RunLegacy, Elsewhere, Fields
<1>4. result'[r] \in PossibleResults(env', request'[r]) /\ worker'[r] = "none"
  BY <1>1 DEF RunLegacy, Fields
<1>5. Sound(r)'
  BY <1>4 DEF RunLegacy, Sound, NeedsWorker, Answered, Backed, Accepted
<1>6. Contract!Deliver(r)
  BY <1>1 DEF RunLegacy, Contract!Deliver
<1> QED
  BY <1>2, <1>3, <1>5, <1>6

LEMMA StartWorkerStep ==
    ASSUME TypeOK, NEW r \in Requests, Sound(r), StartWorker(r)
    PROVE  TypeOK' /\ Sound(r)' /\ Elsewhere(r)
<1> USE TypeOKIsItsParts
<1>1. Fields' /\ worker'[r] = "running"
  BY DEF StartWorker, Fields
<1>2. Timed' /\ Queued' /\ Elsewhere(r)
  BY SameTime, SameQueue DEF StartWorker, Elsewhere, Fields
<1>3. NeedsWorker(r)
  BY DEF StartWorker, NeedsWorker
<1>4. Sound(r)'
  BY <1>1, <1>3 DEF StartWorker, Sound, NeedsWorker, Answered, Backed, Accepted
<1> QED
  BY <1>1, <1>2, <1>4

LEMMA PassStep ==
    ASSUME TypeOK, NEW r \in Requests, Sound(r), Pass(r)
    PROVE  TypeOK' /\ Sound(r)' /\ Elsewhere(r)
<1> USE TypeOKIsItsParts
<1>1. Timed'
  BY DEF Pass, Timed
<1>2. Fields' /\ Queued' /\ Elsewhere(r) /\ SameRequest(r)
  BY SameQueue DEF Pass, Fields, Elsewhere, SameRequest
<1> QED
  BY <1>1, <1>2, SoundAsBefore

\* the promise is settled by an outcome the request may have
LEMMA SettleStep ==
    ASSUME TypeOK, NEW r \in Requests, Sound(r), NEW m \in Outcome, Backed(r, m), worker[r] # "none",
           Settle(r, m), UNCHANGED <<env, request, elapsed, worker, message, http, sidecar, result>>
    PROVE  TypeOK' /\ Sound(r)' /\ Elsewhere(r)
<1> USE TypeOKIsItsParts
<1>1. Fields' /\ settled'[r] = m
  BY DEF Settle, Fields
<1>2. Timed' /\ Queued' /\ Elsewhere(r)
  BY SameTime, SameQueue DEF Settle, Elsewhere, Fields
<1>3. Sound(r)'
  BY <1>1 DEF Sound, NeedsWorker, Answered, Backed, Accepted
<1> QED
  BY <1>1, <1>2, <1>3

LEMMA TimerFiresStep ==
    ASSUME TypeOK, NEW r \in Requests, Sound(r), TimerFires(r)
    PROVE  TypeOK' /\ Sound(r)' /\ Elsewhere(r)
<1> DEFINE m == [ok |-> FALSE, reason |-> "timeout"]
<1>1. m \in Outcome /\ m.ok = FALSE /\ m.reason = "timeout"
  BY FailureTyped DEF Reasons
<1>2. Settle(r, m)
  BY DEF TimerFires
<1> HIDE DEF m
<1>3. Backed(r, m)
  BY <1>1 DEF Backed
<1> QED
  BY <1>1, <1>2, <1>3, SettleStep DEF TimerFires

LEMMA HearStep ==
    ASSUME TypeOK, NEW r \in Requests, Sound(r), Hear(r)
    PROVE  TypeOK' /\ Sound(r)' /\ Elsewhere(r)
<1>1. message[r] \in Outcome /\ Backed(r, message[r]) /\ worker[r] # "none"
  BY TypeOKIsItsParts DEF Hear, Fields, Sound
<1> QED
  BY <1>1, SettleStep DEF Hear

LEMMA DeliverStep ==
    ASSUME TypeOK, NEW r \in Requests, Sound(r), Deliver(r)
    PROVE  TypeOK' /\ Sound(r)' /\ Elsewhere(r) /\ Contract!Deliver(r)
<1> USE TypeOKIsItsParts
<1> DEFINE x == IF settled[r].ok
                THEN FromWorker(IF WantsSolver(request[r].mode) THEN "cp_sat" ELSE "experimental",
                                settled[r].rows, settled[r].flagged)
                ELSE Legacy(env, request[r].mode, settled[r].reason)
<1>1. settled[r] \in Outcome /\ Backed(r, settled[r]) /\ NeedsWorker(r)
  BY DEF Deliver, Fields, Sound
<1>2. x \in Result /\ x \in PossibleResults(env, request[r])
  BY <1>1, RequestTyped, DeliveredPossible
<1>3. result' = [result EXCEPT ![r] = x]
  BY DEF Deliver
<1> HIDE DEF x
<1>4. Answer("none", {}) \in [status : Statuses, rows : SUBSET Row] /\ Answer("none", {}).status = "none"
  BY DEF Answer, Statuses
<1>5. Fields'
  BY <1>2, <1>3, <1>4 DEF Deliver, StopWorker, Fields
<1>6. Timed'
  BY DEF Deliver, Timed
<1>7. Queued' /\ Elsewhere(r)
  BY SameQueue, <1>3 DEF Deliver, StopWorker, Elsewhere, Fields
<1>8. /\ worker'[r] = "terminated" /\ message'[r] = NoMessage /\ http'[r].status = "none"
      /\ settled'[r] = settled[r] /\ result'[r] = x /\ env' = env /\ request' = request
  BY <1>3, <1>4 DEF Deliver, StopWorker, Fields
<1>9. Sound(r)'
  BY <1>1, <1>2, <1>8 DEF Sound, NeedsWorker, Answered, Backed, Accepted
<1>10. Contract!Deliver(r)
  BY <1>2, <1>3 DEF Deliver, Contract!Deliver
<1> QED
  BY <1>5, <1>6, <1>7, <1>9, <1>10

\* the worker posts an outcome the request may have
LEMMA FinishStep ==
    ASSUME TypeOK, NEW r \in Requests, Sound(r), NEW m \in Outcome, Backed(r, m),
           worker[r] \in {"running", "asking"}, Finish(r, m),
           http' = http \/ http' = [http EXCEPT ![r] = Answer("aborted", {})],
           UNCHANGED <<env, request, elapsed, sidecar, settled, result>>
    PROVE  TypeOK' /\ Sound(r)' /\ Elsewhere(r)
<1> USE TypeOKIsItsParts
<1>1. Answer("aborted", {}) \in [status : Statuses, rows : SUBSET Row]
      /\ Answer("aborted", {}).status = "aborted"
  BY DEF Answer, Statuses
<1>2. Fields'
  BY <1>1 DEF Finish, Fields
<1>3. Timed' /\ Queued' /\ Elsewhere(r)
  BY SameTime, SameQueue DEF Finish, Elsewhere, Fields
<1>4. /\ worker'[r] = "finished" /\ message'[r] = m
      /\ http'[r] = http[r] \/ http'[r].status = "aborted"
  BY <1>1 DEF Finish, Fields
<1>5. result[r] = NoResult
  BY DEF Sound
<1>6. NeedsWorker(r)
  BY DEF Sound
<1>7. Sound(r)'
  BY <1>4, <1>5, <1>6 DEF Sound, NeedsWorker, Answered, Backed, Accepted
<1> QED
  BY <1>2, <1>3, <1>7

LEMMA WorkerStep ==
    ASSUME TypeOK, NEW r \in Requests, Sound(r),
           RunExperimental(r) \/ WorkerFails(r) \/ AbortHttp(r) \/ ReadResponse(r)
    PROVE  TypeOK' /\ Sound(r)' /\ Elsewhere(r)
<1>1. CASE RunExperimental(r)
  <2> DEFINE m == [ok |-> TRUE, rows |-> {}, flagged |-> FALSE]
  <2>1. m \in Outcome /\ m.ok = TRUE /\ m.rows = {} /\ m.flagged = FALSE
    BY SuccessTyped
  <2>2. Finish(r, m) /\ ~ WantsSolver(request[r].mode)
    BY <1>1 DEF RunExperimental, WantsSolver
  <2> HIDE DEF m
  <2>3. Backed(r, m)
    BY <2>1, <2>2 DEF Backed
  <2> QED
    BY <1>1, <2>1, <2>2, <2>3, FinishStep DEF RunExperimental
<1>2. CASE WorkerFails(r) \/ AbortHttp(r)
  <2> DEFINE m == [ok |-> FALSE, reason |-> "error"]
  <2>1. m \in Outcome /\ m.ok = FALSE /\ m.reason = "error"
    BY FailureTyped DEF Reasons
  <2>2. Finish(r, m)
    BY <1>2 DEF WorkerFails, AbortHttp
  <2> HIDE DEF m
  <2>3. Backed(r, m)
    BY <2>1 DEF Backed
  <2> QED
    BY <1>2, <2>1, <2>2, <2>3, FinishStep DEF WorkerFails, AbortHttp
<1>3. CASE ReadResponse(r)
  <2>1. WantsSolver(request[r].mode) /\ http[r] \in [status : Statuses, rows : SUBSET Row]
        /\ (Answered(r) => http[r] \in Answers(request[r].fixed))
    BY <1>3, TypeOKIsItsParts DEF ReadResponse, Sound, Fields
  <2>2. Judge(r, http[r]) \in Outcome /\ Backed(r, Judge(r, http[r]))
    BY <2>1, TypeOKIsItsParts, RequestTyped, JudgeBacked DEF Answered
  <2> QED
    BY <1>3, <2>2, FinishStep DEF ReadResponse
<1> QED
  BY <1>1, <1>2, <1>3

LEMMA AskSidecarStep ==
    ASSUME TypeOK, NEW r \in Requests, Sound(r), AskSidecar(r)
    PROVE  TypeOK' /\ Sound(r)' /\ Elsewhere(r)
<1> USE TypeOKIsItsParts
<1>1. Answer("sent", {}) \in [status : Statuses, rows : SUBSET Row] /\ Answer("sent", {}).status = "sent"
  BY DEF Answer, Statuses
<1>2. Fields' /\ worker'[r] = "asking" /\ http'[r].status = "sent"
  BY <1>1 DEF AskSidecar, Fields
<1>3. Timed' /\ Elsewhere(r)
  BY SameTime DEF AskSidecar, Elsewhere, Fields
<1>4. Queued'
  BY AppendProperties DEF AskSidecar, Queued
<1>5. Sound(r)'
  BY <1>2 DEF AskSidecar, Sound, NeedsWorker, Answered, Backed, Accepted
<1> QED
  BY <1>2, <1>3, <1>4, <1>5

LEMMA RemoveAtTyped ==
    ASSUME NEW S, NEW seq \in Seq(S), NEW i \in DOMAIN seq
    PROVE  RemoveAt(seq, i) \in Seq(S)
<1>1. Len(seq) \in Nat /\ DOMAIN seq = 1..Len(seq) /\ \A j \in 1..Len(seq) : seq[j] \in S
  BY LenProperties, ElementOfSeq
<1>2. SubSeq(seq, 1, i - 1) \in Seq(S) /\ SubSeq(seq, i + 1, Len(seq)) \in Seq(S)
  <2>1. \A j \in 1..(i - 1) : seq[j] \in S
    BY <1>1
  <2>2. \A j \in (i + 1)..Len(seq) : seq[j] \in S
    BY <1>1
  <2> QED
    BY <1>1, <2>1, <2>2, SubSeqProperties
<1> QED
  BY <1>2, ConcatProperties DEF RemoveAt

LEMMA TakeUpStep ==
    ASSUME TypeOK, NEW r \in Requests, Sound(r), TakeUp(r)
    PROVE  TypeOK' /\ Sound(r)' /\ Elsewhere(r)
<1> USE TypeOKIsItsParts
<1>1. Queued'
  <2>1. queue' \in Seq(Requests)
    BY RemoveAtTyped DEF TakeUp, Queued
  <2>2. env.host = "http" => solving = {}
    BY DEF TakeUp
  <2> QED
    BY <2>1, <2>2 DEF TakeUp, Queued
<1>2. Timed' /\ Fields' /\ Elsewhere(r) /\ SameRequest(r)
  BY SameTime DEF TakeUp, Fields, Elsewhere, SameRequest
<1> QED
  BY <1>1, <1>2, SoundAsBefore

\* a response that reaches its worker is a failure or an answer to the request
LEMMA RespondStep ==
    ASSUME TypeOK, NEW r \in Requests, Sound(r),
           NEW a \in [status : Statuses, rows : SUBSET Row],
           a.status = "failed" \/ a \in Answers(request[r].fixed), Respond(r, a)
    PROVE  TypeOK' /\ Sound(r)' /\ Elsewhere(r)
<1> USE TypeOKIsItsParts
<1>1. Queued' /\ Timed' /\ Fields' /\ Elsewhere(r)
  BY SameTime DEF Respond, Queued, Fields, Elsewhere
<1>2. http'[r] = http[r] \/ http'[r] = a
  BY DEF Respond, Fields
<1>3. Sound(r)'
  BY <1>2 DEF Respond, Sound, NeedsWorker, Answered, Backed, Accepted
<1> QED
  BY <1>1, <1>3

LEMMA SidecarStep ==
    ASSUME TypeOK, NEW r \in Requests, Sound(r), Sidecar(r)
    PROVE  TypeOK' /\ Sound(r)' /\ Elsewhere(r)
<1>1. CASE TakeUp(r)
  BY <1>1, TakeUpStep
<1>2. CASE SidecarFails(r)
  <2>1. Answer("failed", {}) \in [status : Statuses, rows : SUBSET Row]
        /\ Answer("failed", {}).status = "failed"
    BY DEF Answer, Statuses
  <2> QED
    BY <1>2, <2>1, RespondStep DEF SidecarFails
<1>3. CASE SidecarSolves(r)
  <2>1. PICK a \in Answers(request[r].fixed) : Respond(r, a)
    BY <1>3 DEF SidecarSolves
  <2>2. a \in [status : Statuses, rows : SUBSET Row]
    BY TypeOKIsItsParts, RequestTyped, AnswersTyped DEF Statuses
  <2> QED
    BY <2>1, <2>2, RespondStep
<1> QED
  BY <1>1, <1>2, <1>3 DEF Sidecar

-----------------------------------------------------------------------------
(* The theorems about the runner *)

LEMMA InitIInv ==
    ASSUME Init
    PROVE  IInv
<1>1. Answer("none", {}) \in [status : Statuses, rows : SUBSET Row] /\ Answer("none", {}).status = "none"
  BY DEF Answer, Statuses
<1>2. Timed
  BY RunnerAssumption DEF Init, Timed
<1>3. Fields /\ Queued
  BY <1>1, EmptySeq DEF Init, Fields, Queued
<1>4. ASSUME NEW r \in Requests PROVE Sound(r)
  BY <1>1 DEF Init, Sound, Answered
<1> QED
  BY <1>2, <1>3, <1>4, TypeOKIsItsParts DEF IInv

LEMMA NextIInv ==
    ASSUME IInv, [Next]_vars
    PROVE  IInv'
<1>1. CASE Next
  <2>1. PICK r \in Requests : Runner(r) \/ Worker(r) \/ Sidecar(r)
    BY <1>1 DEF Next
  <2>2. TypeOK' /\ Sound(r)' /\ Elsewhere(r)
    BY <2>1, RunLegacyStep, StartWorkerStep, PassStep, TimerFiresStep, HearStep, DeliverStep,
       WorkerStep, AskSidecarStep, SidecarStep DEF IInv, Runner, Worker
  <2> QED
    BY <2>2, SoundElsewhere DEF IInv
<1>2. CASE UNCHANGED vars
  <2>1. TypeOK'
    BY <1>2 DEF IInv, TypeOK, vars
  <2>2. ASSUME NEW r \in Requests PROVE Sound(r)'
    BY <1>2, SoundAsBefore DEF IInv, SameRequest, vars
  <2> QED
    BY <2>1, <2>2 DEF IInv
<1> QED
  BY <1>1, <1>2

\* The inductive invariant of the module.
THEOREM RunnerInvariance == Spec => []IInv
BY InitIInv, NextIInv, PTL DEF Spec

\* The variables keep their types, and HTTPServer works on one request at a time.
THEOREM RunnerTypes == Spec => []TypeOK
<1>1. IInv => TypeOK
  BY DEF IInv
<1> QED
  BY <1>1, RunnerInvariance, PTL

\* No worker outlives the generation it was started for.
THEOREM WorkersEnd == Spec => []NothingRunsOn
<1>1. IInv => NothingRunsOn
  BY DEF IInv, Sound, NothingRunsOn
<1> QED
  BY <1>1, RunnerInvariance, PTL


-----------------------------------------------------------------------------
(* The contract with the routes *)

\* the steps that give no result leave the variables of the contract alone
LEMMA OtherStepsStutter ==
    ASSUME NEW r \in Requests,
           StartWorker(r) \/ Pass(r) \/ TimerFires(r) \/ Hear(r) \/ Worker(r) \/ Sidecar(r)
    PROVE  UNCHANGED <<env, request, result>>
<1>1. CASE StartWorker(r) \/ Pass(r) \/ TimerFires(r) \/ Hear(r)
  BY <1>1 DEF StartWorker, Pass, TimerFires, Hear
<1>2. CASE Worker(r)
  BY <1>2 DEF Worker, RunExperimental, WorkerFails, AskSidecar, AbortHttp, ReadResponse
<1>3. CASE Sidecar(r)
  BY <1>3 DEF Sidecar, TakeUp, SidecarFails, SidecarSolves, Respond
<1> QED
  BY <1>1, <1>2, <1>3

LEMMA StepKeepsContract ==
    ASSUME IInv, [Next]_vars
    PROVE  [Contract!Next]_<<env, request, result>>
<1>1. CASE Next
  <2>1. PICK r \in Requests : Runner(r) \/ Worker(r) \/ Sidecar(r)
    BY <1>1 DEF Next
  <2>2. CASE RunLegacy(r) \/ Deliver(r)
    <3>1. Contract!Deliver(r)
      BY <2>2, RunLegacyStep, DeliverStep DEF IInv
    <3> QED
      BY <3>1 DEF Contract!Next
  <2>3. CASE ~ (RunLegacy(r) \/ Deliver(r))
    BY <2>1, <2>3, OtherStepsStutter DEF Runner
  <2> QED
    BY <2>2, <2>3
<1>2. CASE UNCHANGED vars
  BY <1>2 DEF vars
<1> QED
  BY <1>1, <1>2

\* What the routes rely on, whatever the worker, the timer and the sidecar do
\* and in whatever order: a generation gets one result at most, one that its
\* settings allow, and keeps it.
THEOREM RunnerKeepsContract == Spec => Contract!Safe
<1>1. Init => Contract!Init
  BY DEF Init, Contract!Init
<1> QED
  BY <1>1, StepKeepsContract, RunnerInvariance, PTL DEF Spec, Contract!Safe

-----------------------------------------------------------------------------
(* The constraints of the solver against the findings of the validation    *)

LEMMA LimitsTyped ==
    ASSUME NEW p \in Pairs
    PROVE  /\ WeeklyTarget[p] \in Nat /\ MaxPerDay[p] \in Nat
           /\ ReportedWeekly(p) \in Nat /\ WeeklyTarget[p] <= ReportedWeekly(p)
           /\ ReportedPerDay(p) \in Nat /\ 1 <= ReportedPerDay(p)
<1>1. p[1] \in Divisions /\ p[2] \in Subjects
  BY DEF Pairs
<1>2. WeeklyTarget[p] \in Nat /\ MaxPerDay[p] \in Nat
  BY <1>1, SchoolAssumption DEF WeeklyTarget, MaxPerDay
<1>3. ReportedPerDay(p) \in Nat /\ 1 <= ReportedPerDay(p)
  BY <1>1, SchoolAssumption DEF ReportedPerDay, AtLeastOne
<1> QED
  BY <1>2, <1>3 DEF ReportedWeekly, AtLeastOne

LEMMA SlotsTyped == LessonSlots \in SUBSET Nat /\ IsFiniteSet(LessonSlots)
BY SchoolAssumption, FS_Subset DEF LessonSlots

LEMMA BetweenFinite ==
    ASSUME NEW lo, NEW hi
    PROVE  IsFiniteSet(Between(lo, hi)) /\ Cardinality(Between(lo, hi)) \in Nat
BY SlotsTyped, FS_Subset, FS_CardinalityType DEF Between

\* a run of more than m lesson slots begins with one of m + 1
LEMMA RunHasWindow ==
    ASSUME NEW lo \in LessonSlots, NEW top \in LessonSlots, NEW m \in Nat \ {0},
           Cardinality(Between(lo, top)) > m
    PROVE  \E hi \in LessonSlots : hi <= top /\ Cardinality(Between(lo, hi)) = m + 1
<1> DEFINE Long == {h \in LessonSlots : h <= top /\ Cardinality(Between(lo, h)) > m}
<1>1. PICK hi \in Long : \A h \in Long : hi <= h
  <2>1. Long \in SUBSET Nat /\ top \in Long
    <3>1. LessonSlots \in SUBSET Nat /\ top \in Nat /\ top <= top
      BY SlotsTyped
    <3> QED
      BY <3>1
  <2> HIDE DEF Long
  <2> QED
    BY <2>1, HasLeast
<1> DEFINE Before == Between(lo, hi) \ {hi}
<1>2. IsFiniteSet(Before) /\ Cardinality(Before) \in Nat
      /\ Cardinality(Between(lo, hi)) <= Cardinality(Before) + 1
  <2>1. IsFiniteSet(Between(lo, hi)) /\ Cardinality(Between(lo, hi)) \in Nat
    BY BetweenFinite
  <2>2. IsFiniteSet(Before)
        /\ Cardinality(Before) = IF hi \in Between(lo, hi) THEN Cardinality(Between(lo, hi)) - 1
                                 ELSE Cardinality(Between(lo, hi))
    BY <2>1, FS_RemoveElement
  <2>3. Cardinality(Before) \in Nat
    BY <2>2, FS_CardinalityType
  <2> QED
    BY <2>1, <2>2, <2>3
<1>3. Cardinality(Before) <= m
  <2>1. SUFFICES ASSUME Cardinality(Before) > m PROVE FALSE
    BY <1>2
  <2>2. Before # {} /\ Before \in SUBSET Nat /\ hi \in Nat /\ top \in Nat /\ lo \in Nat
        /\ \A x \in Before : x <= hi /\ x # hi /\ lo <= x /\ x \in LessonSlots
    <3>1. Before # {}
      BY <2>1, FS_EmptySet
    <3>2. LessonSlots \in SUBSET Nat /\ hi \in LessonSlots
      BY SlotsTyped
    <3> QED
      BY <3>1, <3>2 DEF Between
  <2>3. PICK last \in Before : \A x \in Before : x <= last
    <3> HIDE DEF Before
    <3> QED
      BY <2>2, HasGreatest
  <2>4. Between(lo, last) = Before
    <3>1. last \in Nat /\ last < hi
      BY <2>2, <2>3
    <3>2. \A n \in LessonSlots : lo <= n /\ n <= last => n \in Before
      BY <2>2, <3>1, SlotsTyped DEF Between
    <3> QED
      BY <2>2, <2>3, <3>2 DEF Between
  <2>5. last \in Long /\ last < hi
    <3>1. last \in LessonSlots /\ last < hi /\ hi <= top /\ last \in Nat
      BY <2>2
    <3>2. last <= top
      BY <2>2, <3>1
    <3> QED
      BY <2>1, <2>4, <3>1, <3>2
  <2> QED
    BY <1>1, <2>2, <2>5
<1>4. Cardinality(Between(lo, hi)) \in Nat /\ Cardinality(Between(lo, hi)) > m
  BY BetweenFinite
<1>5. Cardinality(Between(lo, hi)) = m + 1
  BY <1>2, <1>3, <1>4
<1> QED
  BY <1>5

LEMMA NoRows ==
    ASSUME NEW S, S = {}
    PROVE  Cardinality(S) = 0
BY FS_EmptySet

LEMMA CapacitiesTyped ==
    ASSUME NEW t \in Teachers
    PROVE  /\ WeeklyCapacity[t] \in Nat /\ DailyCapacity[t] \in Nat
           /\ \A h \in Halves : SessionCapacity[<<t, h>>] \in Nat
<1>1. Cardinality(MorningSlots) \in Nat /\ Cardinality(LessonSlots \ MorningSlots) \in Nat
  BY SlotsTyped, FS_Subset, FS_CardinalityType DEF MorningSlots
<1>2. ASSUME NEW h \in Halves PROVE SessionCapacity[<<t, h>>] \in Nat
  BY <1>1, SchoolAssumption DEF SessionCapacity, Positive
<1>3. DerivedDaily(t) \in Nat
  BY <1>2 DEF DerivedDaily, Halves
<1>4. DailyCapacity[t] \in Nat
  BY <1>3, SchoolAssumption DEF DailyCapacity, AtMost
<1>5. DerivedDaily(t) * NumDays \in Nat
  <2>1. \A m, n \in Nat : m * n \in Nat
    OBVIOUS
  <2> QED
    BY <1>3, <2>1, SchoolAssumption
<1>6. WeeklyCapacity[t] \in Nat
  BY <1>5, SchoolAssumption DEF WeeklyCapacity, AtMost
<1> QED
  BY <1>2, <1>4, <1>6

LEMMA EmptyTimetable == Timetable({})
<1>1. \A p \in Pairs : Cardinality(Of({}, p)) = 0
  BY NoRows DEF Of
<1>2. \A p \in Pairs, day \in Days : Cardinality(On(Of({}, p), day)) = 0
  BY NoRows DEF Of, On
<1>3. WeeklyOverflow({}) = {}
  BY <1>1, LimitsTyped DEF WeeklyOverflow
<1>4. DailyOverflow({}) = {}
  BY <1>2, LimitsTyped DEF DailyOverflow
<1>5. CrossDivision({}) = {}
  <2>1. \A t, day : {d \in Divisions : HasNeighbours({}, t, d, day)} = {}
    BY DEF HasNeighbours, Taught
  <2>2. \A t, day : Cardinality({d \in Divisions : HasNeighbours({}, t, d, day)}) = 0
    BY <2>1, NoRows
  <2> QED
    BY <2>2 DEF CrossDivision
<1>6. WeeklyOverload({}) = {}
  <2>1. \A t \in Teachers : Cardinality(By({}, t)) = 0
    BY NoRows DEF By
  <2> QED
    BY <2>1, CapacitiesTyped DEF WeeklyOverload
<1>7. DailyOverload({}) = {}
  <2>1. \A t \in Teachers, day \in Days : Cardinality(On(By({}, t), day)) = 0
    BY NoRows DEF By, On
  <2>2. \A t \in Teachers, day \in Days, h \in Halves : Cardinality(InHalf(On(By({}, t), day), h)) = 0
    BY NoRows DEF By, On, InHalf
  <2>3. ASSUME NEW c \in Teachers \X Days
        PROVE  /\ ~ (Cardinality(On(By({}, c[1]), c[2])) > DailyCapacity[c[1]])
               /\ \A h \in Halves :
                    ~ (Cardinality(InHalf(On(By({}, c[1]), c[2]), h)) > SessionCapacity[<<c[1], h>>])
    <3>1. c[1] \in Teachers /\ c[2] \in Days
      OBVIOUS
    <3>2. DailyCapacity[c[1]] \in Nat /\ \A h \in Halves : SessionCapacity[<<c[1], h>>] \in Nat
      BY <3>1, CapacitiesTyped
    <3> QED
      BY <2>1, <2>2, <3>1, <3>2
  <2> QED
    BY <2>3 DEF DailyOverload
<1>8. ~ HasErrors({})
  BY <1>3, <1>4, <1>6, <1>7 DEF HasErrors, ApplicabilityMismatch, InactiveSlot, IncludeOnlyViolation
<1> QED
  BY <1>3, <1>4, <1>5, <1>8 DEF Timetable, LongRun

\* the rows of a solution with nothing fixed, and the units they come from
LEMMA RowsComeFromUnits ==
    ASSUME NEW rows \in Solutions({}, Placeable({}))
    PROVE  \E a \in Assignments({}, Placeable({})) :
             LET placed == {u \in Placeable({}) : a[u] # Unplaced} IN
             /\ Satisfies(a, {}, Placeable({})) /\ rows = {MakeRow(u[1], a[u]) : u \in placed}
             /\ \A u \in placed : /\ u[1] \in ApplicablePairs /\ u[1] \in Pairs /\ a[u] \in AllowedKeys(u[1])
                                  /\ u[2] \in 1..WeeklyTarget[u[1]] /\ u = <<u[1], u[2]>>
<1>1. PICK a \in Assignments({}, Placeable({})) :
        /\ Satisfies(a, {}, Placeable({}))
        /\ rows = {} \cup {MakeRow(u[1], a[u]) : u \in {v \in Placeable({}) : a[v] # Unplaced}}
  BY DEF Solutions
<1>2. ASSUME NEW u \in Placeable({}), a[u] # Unplaced
      PROVE  /\ u[1] \in ApplicablePairs /\ u[1] \in Pairs /\ a[u] \in AllowedKeys(u[1])
             /\ u[2] \in 1..WeeklyTarget[u[1]] /\ u = <<u[1], u[2]>>
  <2>1. PICK p \in ApplicablePairs : \E k \in 1..(WeeklyTarget[p] - Cardinality(Of({}, p))) : u = <<p, k>>
    BY DEF Placeable, Units
  <2>2. Cardinality(Of({}, p)) = 0
    BY NoRows DEF Of
  <2>3. WeeklyTarget[p] \in Nat
    BY LimitsTyped DEF ApplicablePairs
  <2>4. a[u] \in AllowedKeys(u[1])
    BY <1>2 DEF Assignments, Domain
  <2> QED
    BY <2>1, <2>2, <2>3, <2>4 DEF ApplicablePairs
<1> QED
  BY <1>1, <1>2

\* the constraints of the solver imply what the validation looks for
LEMMA SolutionIsTimetable ==
    ASSUME NEW rows \in Solutions({}, Placeable({}))
    PROVE  Timetable(rows)
<1> DEFINE units == Placeable({})
<1>1. PICK a \in Assignments({}, units) :
        LET placed == {u \in units : a[u] # Unplaced} IN
        /\ Satisfies(a, {}, units) /\ rows = {MakeRow(u[1], a[u]) : u \in placed}
        /\ \A u \in placed : /\ u[1] \in ApplicablePairs /\ u[1] \in Pairs /\ a[u] \in AllowedKeys(u[1])
                             /\ u[2] \in 1..WeeklyTarget[u[1]] /\ u = <<u[1], u[2]>>
  BY RowsComeFromUnits
<1> DEFINE placed == {u \in units : a[u] # Unplaced}
<1> DEFINE row(u) == MakeRow(u[1], a[u])
<1>2. ASSUME NEW u \in placed
      PROVE  /\ u[1] \in ApplicablePairs /\ u[1] \in Pairs /\ a[u] \in AllowedKeys(u[1]) /\ a[u] \in Keys
             /\ u[2] \in 1..WeeklyTarget[u[1]] /\ u = <<u[1], u[2]>>
             /\ row(u) \in Row /\ RowPair(row(u)) = u[1] /\ RowTime(row(u)) = a[u]
             /\ RowCell(row(u)) = UnitCell(u[1], a[u])
             /\ row(u).div = u[1][1] /\ row(u).subject = u[1][2] /\ row(u).teacher = a[u][1]
             /\ row(u).day = a[u][2] /\ row(u).slot = a[u][3]
  <2>1. /\ u[1] \in ApplicablePairs /\ u[1] \in Pairs /\ a[u] \in AllowedKeys(u[1])
        /\ u[2] \in 1..WeeklyTarget[u[1]] /\ u = <<u[1], u[2]>>
    BY <1>1
  <2>2. a[u] \in Keys
    BY <2>1 DEF AllowedKeys
  <2>3. u[1] = <<u[1][1], u[1][2]>> /\ a[u] = <<a[u][1], a[u][2], a[u][3]>>
    BY <2>1, <2>2 DEF Pairs, Keys
  <2> QED
    BY <2>1, <2>2, <2>3, KeysTyped DEF MakeRow, RowPair, RowTime, RowCell, UnitCell
<1>3. rows = {row(u) : u \in placed}
  BY <1>1
<1>4. /\ TeachersDistinct(a, placed) /\ SubjectDaysHold(rows) /\ CapacitiesHold(rows)
      /\ ContinuityHolds(rows, units) /\ CrossDivisionHolds(rows, units)
  <2>1. {} \cup {MakeRow(u[1], a[u]) : u \in placed} = rows
    BY <1>1
  <2> QED
    BY <1>1, <2>1 DEF Satisfies
<1> HIDE DEF units, placed, row
<1>5. ASSUME NEW x \in rows, NEW y \in rows, RowTime(x) = RowTime(y) PROVE x = y
  <2>1. PICK u \in placed, v \in placed : x = row(u) /\ y = row(v)
    BY <1>3
  <2> QED
    BY <1>2, <1>4, <1>5, <2>1 DEF TeachersDistinct
<1>6. ASSUME NEW x \in rows
      PROVE  /\ MayTeach(RowPair(x), x.teacher, x.day, x.slot) /\ RowPair(x) \in ApplicablePairs
             /\ SlotActive(x.slot, x.day) /\ IsPlacementAllowedByIncludeOnly(x.subject, x.div, x.day, x.slot)
             /\ x \in Row
  <2>1. PICK u \in placed : x = row(u)
    BY <1>3
  <2> QED
    BY <1>2, <2>1 DEF AllowedKeys, PlacementAllowed
<1>7. ASSUME NEW p \in Pairs
      PROVE  IsFiniteSet(Of(rows, p)) /\ Cardinality(Of(rows, p)) <= WeeklyTarget[p]
  <2> DEFINE K == {k \in 1..WeeklyTarget[p] : <<p, k>> \in placed}
  <2> DEFINE f == [k \in K |-> row(<<p, k>>)]
  <2>1. WeeklyTarget[p] \in Nat
    BY LimitsTyped
  <2>2. IsFiniteSet(1..WeeklyTarget[p]) /\ Cardinality(1..WeeklyTarget[p]) = WeeklyTarget[p]
    BY <2>1, FS_Interval
  <2>3. IsFiniteSet(K) /\ Cardinality(K) <= WeeklyTarget[p]
    BY <2>2, FS_Subset
  <2>4. f \in Surjection(K, Of(rows, p))
    <3>1. ASSUME NEW k \in K PROVE row(<<p, k>>) \in Of(rows, p)
      BY <1>2, <1>3 DEF Of
    <3>2. ASSUME NEW x \in Of(rows, p) PROVE \E k \in K : row(<<p, k>>) = x
      <4>1. PICK u \in placed : x = row(u)
        BY <1>3 DEF Of
      <4>2. u[1] = p
        BY <1>2, <4>1 DEF Of
      <4> QED
        BY <1>2, <4>1, <4>2
    <3> QED
      BY <3>1, <3>2 DEF Surjection
  <2>5. IsFiniteSet(Of(rows, p)) /\ Cardinality(Of(rows, p)) <= Cardinality(K)
    BY <2>3, <2>4, FS_Surjection
  <2> QED
    BY <2>1, <2>3, <2>5, FS_CardinalityType
<1>8. WeeklyOverflow(rows) = {}
  <2>1. ASSUME NEW p \in Pairs PROVE ~ (Cardinality(Of(rows, p)) > ReportedWeekly(p))
    <3>1. Cardinality(Of(rows, p)) \in Nat
      BY <1>7, FS_CardinalityType
    <3> QED
      BY <1>7, <3>1, LimitsTyped
  <2> QED
    BY <2>1 DEF WeeklyOverflow
<1>9. ASSUME NEW c \in DailyOverflow(rows) PROVE MaxPerDay[c[1]] > ReportedPerDay(c[1])
  <2> DEFINE n == Cardinality(On(Of(rows, c[1]), c[2]))
  <2>1. c[1] \in Pairs /\ c[2] \in Days /\ n > ReportedPerDay(c[1])
    BY DEF DailyOverflow
  <2>2. n \in Nat
    BY <1>7, <2>1, FS_Subset, FS_CardinalityType DEF On
  <2>3. c[1] \in ApplicablePairs
    <3>1. SUFFICES ASSUME c[1] \notin ApplicablePairs PROVE FALSE
      OBVIOUS
    <3>2. On(Of(rows, c[1]), c[2]) = {}
      BY <1>6, <3>1 DEF On, Of
    <3> QED
      BY <2>1, <3>2, NoRows, LimitsTyped
  <2>4. n <= MaxPerDay[c[1]]
    BY <1>4, <2>1, <2>3 DEF SubjectDaysHold
  <2> HIDE DEF n
  <2> QED
    BY <2>1, <2>2, <2>4, LimitsTyped
<1>10. LongRun(rows) = {}
  <2>1. SUFFICES ASSUME NEW x \in rows, x.slot \in LessonSlots, NEW lo \in LessonSlots, lo <= x.slot,
                        IsRun(rows, x.teacher, x.div, x.day, lo, x.slot),
                        Cardinality(Between(lo, x.slot)) > AtLeastOne(Teacher[x.teacher].maxAny)
                 PROVE  FALSE
    BY DEF LongRun
  <2>2. PICK u \in placed : x = row(u)
    BY <1>3
  <2>3. u \in units /\ x.teacher \in Teachers /\ x.day \in Days /\ x.div = u[1][1]
    BY <1>2, <2>2 DEF placed, Keys
  <2> DEFINE m == AtLeastOne(Teacher[x.teacher].maxAny)
  <2>4. m \in Nat \ {0}
    BY <2>3, SchoolAssumption DEF AtLeastOne
  <2>5. PICK hi \in LessonSlots : hi <= x.slot /\ Cardinality(Between(lo, hi)) = m + 1
    BY <2>1, <2>4, RunHasWindow
  <2>6. Between(lo, hi) \in Window(lo, m + 1)
    BY <2>5 DEF Window
  <2>7. PICK n \in Between(lo, hi) : ~ Taught(rows, x.teacher, x.div, x.day, n)
    BY <1>4, <2>3, <2>6 DEF ContinuityHolds
  <2>8. n \in Between(lo, x.slot)
    BY <2>1, <2>5, SlotsTyped DEF Between
  <2> QED
    BY <2>1, <2>7, <2>8 DEF IsRun
<1>11. CrossDivision(rows) = {}
  <2>1. SUFFICES ASSUME NEW t \in Teachers, NEW day \in Days
                 PROVE  ~ (Cardinality({d \in Divisions : HasNeighbours(rows, t, d, day)}) > 1)
    BY DEF CrossDivision
  <2> DEFINE classes == {u[1][1] : u \in units}
  <2> DEFINE found == {d \in Divisions : HasNeighbours(rows, t, d, day)}
  <2>2. ASSUME NEW d, HasNeighbours(rows, t, d, day) PROVE d \in classes /\ d \in Divisions
    <3>1. PICK x \in rows : x.div = d
      BY <2>2 DEF HasNeighbours, Taught, RowCell
    <3>2. PICK u \in placed : x = row(u)
      BY <1>3
    <3> QED
      BY <1>2, <3>1, <3>2 DEF placed, Pairs
  <2>3. found = {d \in classes : HasNeighbours(rows, t, d, day)}
    BY <2>2
  <2>4. Cardinality(found) <= 1
    BY <1>4, <2>3 DEF CrossDivisionHolds
  <2>5. Cardinality(found) \in Nat
    BY SchoolAssumption, FS_Subset, FS_CardinalityType
  <2> HIDE DEF found
  <2>6. ~ (Cardinality(found) > 1)
    BY <2>4, <2>5
  <2> QED
    BY <2>6 DEF found
<1>12. HasErrors(rows) => DailyOverflow(rows) # {}
  <2>1. ApplicabilityMismatch(rows) = {} /\ InactiveSlot(rows) = {} /\ IncludeOnlyViolation(rows) = {}
    BY <1>6 DEF ApplicabilityMismatch, InactiveSlot, IncludeOnlyViolation
  <2>2. WeeklyOverload(rows) = {} /\ DailyOverload(rows) = {}
    BY <1>4 DEF CapacitiesHold
  <2> QED
    BY <1>8, <2>1, <2>2 DEF HasErrors
<1> QED
  BY <1>5, <1>6, <1>8, <1>9, <1>10, <1>11, <1>12 DEF Timetable

\* what the sidecar answers to a request with nothing fixed
LEMMA AnswerIsTimetable ==
    ASSUME <<>> \in FixedLists, NEW a \in Answers(<<>>)
    PROVE  Timetable(a.rows)
<1>1. FixedRows(<<>>) = {}
  BY DEF FixedRows
<1>2. a \in Solve({})
  BY <1>1, AnswersAre
<1> DEFINE complete(rows) == \A p \in ApplicablePairs : Cardinality(Of(rows, p)) >= WeeklyTarget[p]
<1>3. \/ a = Answer("FEASIBLE", {}) \/ a = Answer("INFEASIBLE", {}) \/ a = Answer("PARTIAL", {})
      \/ \E rows \in Solutions({}, Placeable({})) :
           a = Answer(IF complete(rows) THEN "FEASIBLE" ELSE "PARTIAL", rows)
  BY <1>2 DEF Solve
<1> HIDE DEF complete
<1>4. a.rows = {} \/ a.rows \in Solutions({}, Placeable({}))
  BY <1>3 DEF Answer
<1> QED
  BY <1>4, EmptyTimetable, SolutionIsTimetable

\* the classes are apart in the answer to any list of fixed slots
LEMMA AnswerKeepsClassesApart ==
    ASSUME NEW fs \in FixedLists, NEW a \in Answers(fs)
    PROVE  \A x, y \in a.rows : RowCell(x) = RowCell(y) => x = y
<1> DEFINE fixed == FixedRows(fs)
<1> DEFINE units == Placeable(fixed)
<1> DEFINE complete(rows) == \A p \in ApplicablePairs : Cardinality(Of(rows, p)) >= WeeklyTarget[p]
<1>1. \A x, y \in fixed : RowCell(x) = RowCell(y) => x = y
  BY FixedRowsTyped
<1>2. a \in Solve(fixed)
  BY AnswersAre
<1>3. \/ a = Answer("FEASIBLE", fixed) \/ a = Answer("INFEASIBLE", {}) \/ a = Answer("PARTIAL", fixed)
      \/ \E rows \in Solutions(fixed, units) : a = Answer(IF complete(rows) THEN "FEASIBLE" ELSE "PARTIAL", rows)
  BY <1>2 DEF Solve
<1>4. a.rows = {} \/ a.rows = fixed \/ a.rows \in Solutions(fixed, units)
  <2> HIDE DEF fixed, units, complete
  <2> QED
    BY <1>3 DEF Answer
<1>5. ASSUME NEW rows \in Solutions(fixed, units)
      PROVE  \A x, y \in rows : RowCell(x) = RowCell(y) => x = y
  <2>1. PICK b \in Assignments(fixed, units) :
          /\ Satisfies(b, fixed, units)
          /\ rows = fixed \cup {MakeRow(u[1], b[u]) : u \in {v \in units : b[v] # Unplaced}}
    BY DEF Solutions
  <2> DEFINE placed == {u \in units : b[u] # Unplaced}
  <2>2. ClassesDistinct(b, placed)
    BY <2>1 DEF Satisfies
  <2>3. ASSUME NEW u \in placed
        PROVE  /\ RowCell(MakeRow(u[1], b[u])) = UnitCell(u[1], b[u])
               /\ \A r \in fixed : RowCell(r) # UnitCell(u[1], b[u])
    BY DEF Assignments, Domain, RowCell, MakeRow, UnitCell
  <2>4. \A x \in rows : x \in fixed \/ \E u \in placed : x = MakeRow(u[1], b[u])
    BY <2>1
  <2> HIDE DEF placed, fixed, units
  <2> QED
    BY <1>1, <2>2, <2>3, <2>4 DEF ClassesDistinct
<1> HIDE DEF fixed, units
<1> QED
  BY <1>1, <1>4, <1>5

\* a result from the sidecar has the lessons of an answer to the request
LEMMA ResultIsAnAnswer ==
    ASSUME NEW r \in Requests, request[r] \in [mode : Modes, fixed : FixedLists],
           NEW x \in PossibleResults(env, request[r]), x.applied = "cp_sat"
    PROVE  \E a \in Answers(request[r].fixed) : x.rows = a.rows
<1> DEFINE q == request[r]
<1>1. \A reason : Legacy(env, q.mode, reason).applied = "legacy"
  BY DEF Legacy
<1>2. \A applied, rows, flagged : /\ FromWorker(applied, rows, flagged).applied = applied
                                  /\ FromWorker(applied, rows, flagged).rows = rows
  BY DEF FromWorker
<1>3. CASE q.mode = "legacy"
  BY <1>1, <1>3 DEF PossibleResults, WantsSolver
<1>4. CASE q.mode = "experimental"
  <2>1. PossibleResults(env, q) =
          {FromWorker("experimental", {}, FALSE)} \cup {Legacy(env, q.mode, y) : y \in {"timeout", "error"}}
    BY <1>4 DEF PossibleResults, WantsSolver
  <2>2. FromWorker("experimental", {}, FALSE).applied = "experimental"
    BY <1>2
  <2> QED
    BY <1>1, <2>1, <2>2
<1>5. CASE WantsSolver(q.mode) /\ (~ env.url \/ SizeCapped(env))
  BY <1>1, <1>5 DEF PossibleResults, WantsSolver
<1>6. CASE WantsSolver(q.mode) /\ env.url /\ ~ SizeCapped(env)
  <2>1. PossibleResults(env, q) =
          {Legacy(env, q.mode, reason) : reason \in Reasons} \cup
          {FromWorker("cp_sat", a.rows, a.rows \in FlaggedRows) :
             a \in {b \in Answers(q.fixed) : /\ b.status # "INFEASIBLE"
                                             /\ b.rows \in FlaggedRows => ~ env.fallback}}
    BY <1>6 DEF PossibleResults, WantsSolver
  <2> QED
    BY <1>1, <1>2, <2>1
<1> QED
  BY <1>3, <1>4, <1>5, <1>6 DEF Modes, WantsSolver

\* What a generation returns from the sidecar keeps the classes apart, and is
\* a timetable when nothing was fixed, for every school and every setting.
THEOREM SolvedTimetables == Spec => []SolvedIsATimetable
<1>1. ASSUME IInv PROVE SolvedIsATimetable
  <2>1. SUFFICES ASSUME NEW r \in Requests, result[r] # NoResult, result[r].applied = "cp_sat"
                 PROVE  /\ \A x, y \in result[r].rows : RowCell(x) = RowCell(y) => x = y
                        /\ request[r].fixed = <<>> => Timetable(result[r].rows)
    BY DEF SolvedIsATimetable
  <2>2. /\ request[r] \in [mode : Modes, fixed : FixedLists] /\ request[r].fixed \in FixedLists
        /\ result[r] \in PossibleResults(env, request[r])
    BY <1>1, <2>1, TypeOKIsItsParts, RequestTyped DEF IInv, Sound
  <2>3. PICK a \in Answers(request[r].fixed) : result[r].rows = a.rows
    BY <2>1, <2>2, ResultIsAnAnswer
  <2>4. \A x, y \in a.rows : RowCell(x) = RowCell(y) => x = y
    BY <2>2, <2>3, AnswerKeepsClassesApart
  <2>5. request[r].fixed = <<>> => Timetable(a.rows)
    BY <2>2, <2>3, AnswerIsTimetable
  <2> QED
    BY <2>3, <2>4, <2>5
<1> QED
  BY <1>1, RunnerInvariance, PTL
=============================================================================

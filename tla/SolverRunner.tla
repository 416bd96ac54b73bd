---------------------------- MODULE SolverRunner ----------------------------
(***************************************************************************)
(* One timetable generation after another, or several at once, through     *)
(* runTimetableGenerationEngine (server/timetableSolverRunner.js): the     *)
(* choice of the solver, the worker thread and its timer, the bridge to    *)
(* the CP-SAT sidecar (server/engineCpsat.js), the sidecar itself, and the *)
(* fallback to the legacy engine.                                          *)
(*                                                                         *)
(* Each request has its own clock, elapsed, that jumps from one deadline   *)
(* to the next.  A JavaScript timer never fires early and may fire late,   *)
(* so a timer whose deadline has passed races everything else.             *)
(***************************************************************************)
EXTENDS CpsatModel

CONSTANTS
    Requests,          \* generations in flight
    Asks,              \* what the requests may ask: functions to [mode, fixed]
    Envs,              \* the settings a process may run with
    NoResult, NoMessage

Modes == {"legacy", "experimental", "cp_sat", "hybrid"}

\* timeout is TIMETABLE_SOLVER_TIMEOUT_MS, cap CP_SAT_MAX_DECISION_VARS,
\* fallback CP_SAT_FALLBACK_ON_VALIDATION, quality LEGACY_QUALITY_MAX; url
\* says that CP_SAT_SOLVER_URL is set, secret that both sides have the same
Env == [timeout : 1..300000, url : BOOLEAN, secret : BOOLEAN, cap : Nat,
        fallback : BOOLEAN, quality : {"auto", "always", "never"}, host : {"http", "lambda"}]

ASSUME RunnerAssumption ==
    /\ Envs \subseteq Env
    /\ Asks \subseteq [Requests -> [mode : Modes, fixed : FixedLists]]

VARIABLES
    env,        \* settings read from the environment
    request,    \* [Requests -> [mode, fixed]]
    elapsed,    \* milliseconds since a request set its timer, 0 once it is done
    worker,     \* "none", "running", "asking", "finished" or "terminated"
    message,    \* what a worker has posted or failed with
    http,       \* the worker's request, or the response to it: an Answer
    queue,      \* requests the sidecar has accepted and not taken up
    solving,    \* requests the sidecar works on
    prompt,     \* requests it took up at once
    settled,    \* the outcome that settled the promise
    result      \* what the generation returned

sidecar == <<queue, solving, prompt>>
vars == <<env, request, elapsed, worker, message, http, queue, solving, prompt, settled, result>>

-----------------------------------------------------------------------------
(* Settings and budgets *)

WantsSolver(mode) == mode \in {"cp_sat", "hybrid"}

\* shouldApplyLegacyQualityMax
Boosted(e, mode) ==
    \/ e.quality = "always"
    \/ e.quality = "auto" /\ ~ e.url /\ (WantsSolver(mode) \/ mode = "legacy")

\* estimateCpSatLessonDecisionVars
Estimate ==
    LET eligible(p) == Cardinality({t \in Teachers : /\ p[2] \in Teacher[t].subjects
                                                     /\ Division[p[1]].medium \in Teacher[t].mediums
                                                     /\ TeacherAllowedInDivision(t, p[1])})
        units == MapThenSumSet(LAMBDA p : WeeklyTarget[p], ApplicablePairs)
    IN  units * Max({1} \cup {eligible(p) : p \in ApplicablePairs}) * NumDays * Cardinality(LessonSlots)

Least(m, n) == IF m < n THEN m ELSE n
Most(m, n) == IF m < n THEN n ELSE m

\* the abort of the HTTP request, a buffer before the worker's own timer
HttpLimit(timeout) ==
    Most(1500, timeout - Least(2000, Most(200, timeout \div 20)))

\* options.timeLimitSec of the solve request
SolveLimit(timeout) == 1000 * Most(1, timeout \div 1000 - 1)

Deadlines(timeout) == {HttpLimit(timeout), SolveLimit(timeout), timeout}

-----------------------------------------------------------------------------
(* Results.  What the legacy engine builds is not this module's concern.   *)

Legacy(e, mode, reason) ==
    [applied |-> "legacy", reason |-> reason, boosted |-> Boosted(e, mode),
     rows |-> {}, flagged |-> FALSE]

FromWorker(applied, rows, flagged) ==
    [applied |-> applied, reason |-> "none", boosted |-> FALSE, rows |-> rows, flagged |-> flagged]

Reasons == {"timeout", "cp_sat_validation", "error"}

\* what a request may end with, given the settings
FlaggedRows == {a.rows : a \in {x \in UNION {y[2] : y \in AnswersOf} : HasErrors(x.rows)}}
SizeCapped(e) == Estimate > e.cap

PossibleResults(e, q) ==
    CASE q.mode = "legacy" -> {Legacy(e, q.mode, "none")}
      [] q.mode = "experimental" ->
           {FromWorker("experimental", {}, FALSE)} \cup {Legacy(e, q.mode, x) : x \in {"timeout", "error"}}
      [] WantsSolver(q.mode) /\ ~ e.url -> {Legacy(e, q.mode, "cp_sat_url_missing")}
      [] WantsSolver(q.mode) /\ e.url /\ SizeCapped(e) -> {Legacy(e, q.mode, "cp_sat_size_cap")}
      [] OTHER ->
           {Legacy(e, q.mode, x) : x \in Reasons} \cup
           {FromWorker("cp_sat", a.rows, a.rows \in FlaggedRows) :
              a \in {x \in Answers(q.fixed) : /\ x.status # "INFEASIBLE"
                                              /\ x.rows \in FlaggedRows => ~ e.fallback}}

-----------------------------------------------------------------------------
(* Faulty variants of the definitions below, one for each property. *)

\* the sidecar takes up a request beside the one it works on
TakeUpAtOnce(r) ==
    /\ \E i \in DOMAIN queue : queue[i] = r /\ queue' = RemoveAt(queue, i)
    /\ solving' = solving \cup {r}
    /\ prompt' = prompt
    /\ UNCHANGED <<env, request, elapsed, worker, message, http, settled, result>>

\* the worker is left running
StopWorkerNot(r) == worker' = worker

\* the answer of a request is delivered whatever the validation says
JudgeLeniently(r, a) ==
    IF a.status \notin {"FEASIBLE", "PARTIAL"} THEN [ok |-> FALSE, reason |-> "error"]
    ELSE [ok |-> TRUE, rows |-> a.rows, flagged |-> FALSE]

-----------------------------------------------------------------------------
(* The runner *)

\* settings are fixed for the process; requests bring their own mode and data
Init ==
    /\ env \in Envs
    /\ request \in Asks
    /\ elapsed = [r \in Requests |-> 0]
    /\ worker = [r \in Requests |-> "none"]
    /\ message = [r \in Requests |-> NoMessage]
    /\ http = [r \in Requests |-> Answer("none", {})]
    /\ queue = <<>> /\ solving = {} /\ prompt = {}
    /\ settled = [r \in Requests |-> NoResult]
    /\ result = [r \in Requests |-> NoResult]

\* requests that never reach a worker
RunLegacy(r) ==
    LET mode == request[r].mode
        reason == IF mode = "legacy" THEN "none"
                  ELSE IF ~ env.url THEN "cp_sat_url_missing" ELSE "cp_sat_size_cap"
    IN  /\ result[r] = NoResult /\ worker[r] = "none"
        /\ mode = "legacy" \/ (WantsSolver(mode) /\ (~ env.url \/ SizeCapped(env)))
        /\ result' = [result EXCEPT ![r] = Legacy(env, mode, reason)]
        /\ UNCHANGED <<env, request, elapsed, worker, message, http, sidecar, settled>>

StartWorker(r) ==
    /\ result[r] = NoResult /\ worker[r] = "none"
    /\ \/ request[r].mode = "experimental"
       \/ WantsSolver(request[r].mode) /\ env.url /\ ~ SizeCapped(env)
    /\ worker' = [worker EXCEPT ![r] = "running"]
    /\ UNCHANGED <<env, request, elapsed, message, http, sidecar, settled, result>>

Pass(r) ==
    /\ worker[r] \in {"running", "asking", "finished"} /\ settled[r] = NoResult
    /\ \E d \in Deadlines(env.timeout) :
        /\ d > elapsed[r] /\ \A x \in Deadlines(env.timeout) : x > elapsed[r] => d <= x
        /\ elapsed' = [elapsed EXCEPT ![r] = d]
    /\ UNCHANGED <<env, request, worker, message, http, sidecar, settled, result>>

\* finish: the first outcome clears the timer and stops the worker; later
\* ones are dropped
Settle(r, outcome) ==
    /\ settled[r] = NoResult /\ settled' = [settled EXCEPT ![r] = outcome]

TimerFires(r) ==
    /\ worker[r] \in {"running", "asking", "finished"} /\ elapsed[r] >= env.timeout
    /\ Settle(r, [ok |-> FALSE, reason |-> "timeout"])
    /\ UNCHANGED <<env, request, elapsed, worker, message, http, sidecar, result>>

\* the message or the error of the worker reaches the main thread
Hear(r) ==
    /\ message[r] # NoMessage
    /\ Settle(r, message[r])
    /\ UNCHANGED <<env, request, elapsed, worker, message, http, sidecar, result>>

StopWorker(r) == worker' = [worker EXCEPT ![r] = "terminated"]

\* after terminate, which ends the worker's request and leaves its messages
\* unheard: the result is assembled, with a run of the legacy engine when the
\* worker failed
Deliver(r) ==
    /\ settled[r] # NoResult /\ result[r] = NoResult
    /\ StopWorker(r)
    /\ result' = [result EXCEPT ![r] =
         IF settled[r].ok
         THEN FromWorker(IF WantsSolver(request[r].mode) THEN "cp_sat" ELSE "experimental",
                         settled[r].rows, settled[r].flagged)
         ELSE Legacy(env, request[r].mode, settled[r].reason)]
    /\ elapsed' = [elapsed EXCEPT ![r] = 0]
    /\ message' = [message EXCEPT ![r] = NoMessage]
    /\ http' = [http EXCEPT ![r] = Answer("none", {})]
    /\ UNCHANGED <<env, request, sidecar, settled>>

-----------------------------------------------------------------------------
(* The worker thread *)

Finish(r, m) ==
    /\ message' = [message EXCEPT ![r] = m]
    /\ worker' = [worker EXCEPT ![r] = "finished"]

\* the experimental mode runs the legacy engine
RunExperimental(r) ==
    /\ worker[r] = "running" /\ request[r].mode = "experimental"
    /\ Finish(r, [ok |-> TRUE, rows |-> {}, flagged |-> FALSE])
    /\ UNCHANGED <<env, request, elapsed, http, sidecar, settled, result>>

\* a throw in the worker, or its error event
WorkerFails(r) ==
    /\ worker[r] \in {"running", "asking"}
    /\ Finish(r, [ok |-> FALSE, reason |-> "error"])
    /\ UNCHANGED <<env, request, elapsed, http, sidecar, settled, result>>

AskSidecar(r) ==
    /\ worker[r] = "running" /\ WantsSolver(request[r].mode)
    /\ worker' = [worker EXCEPT ![r] = "asking"]
    /\ http' = [http EXCEPT ![r] = Answer("sent", {})]
    /\ queue' = Append(queue, r)
    /\ UNCHANGED <<env, request, elapsed, message, solving, prompt, settled, result>>

AbortHttp(r) ==
    /\ worker[r] = "asking" /\ http[r].status = "sent" /\ elapsed[r] >= HttpLimit(env.timeout)
    /\ http' = [http EXCEPT ![r] = Answer("aborted", {})]
    /\ Finish(r, [ok |-> FALSE, reason |-> "error"])
    /\ UNCHANGED <<env, request, elapsed, sidecar, settled, result>>

\* adaptCpsatSolveResponse and the validation of the adapted entries
Judge(r, a) ==
    IF a.status \notin {"FEASIBLE", "PARTIAL"} THEN [ok |-> FALSE, reason |-> "error"]
    ELSE IF HasErrors(a.rows) /\ env.fallback THEN [ok |-> FALSE, reason |-> "cp_sat_validation"]
    ELSE [ok |-> TRUE, rows |-> a.rows, flagged |-> HasErrors(a.rows)]

ReadResponse(r) ==
    /\ worker[r] = "asking" /\ http[r].status \notin {"none", "sent", "aborted"}
    /\ Finish(r, Judge(r, http[r]))
    /\ UNCHANGED <<env, request, elapsed, http, sidecar, settled, result>>

-----------------------------------------------------------------------------
(* The sidecar.  HTTPServer serves one request after another, whether or   *)
(* not its client is still there; a Lambda function serves them side by    *)
(* side.                                                                   *)

TakeUp(r) ==
    /\ \E i \in DOMAIN queue :
         /\ queue[i] = r
         /\ env.host = "http" => i = 1 /\ solving = {}
         /\ queue' = RemoveAt(queue, i)
    /\ solving' = solving \cup {r}
    /\ prompt' = IF elapsed[r] = 0 /\ result[r] = NoResult THEN prompt \cup {r} ELSE prompt
    /\ UNCHANGED <<env, request, elapsed, worker, message, http, settled, result>>

\* a response goes nowhere when its client has aborted or was terminated
Respond(r, response) ==
    /\ solving' = solving \ {r}
    /\ http' = IF http[r].status = "sent" /\ worker[r] = "asking"
               THEN [http EXCEPT ![r] = response] ELSE http
    /\ UNCHANGED <<env, request, elapsed, worker, message, queue, prompt, settled, result>>

\* a wrong secret, or an exception in solve_request
SidecarFails(r) ==
    /\ r \in solving
    /\ Respond(r, Answer("failed", {}))

SidecarSolves(r) ==
    /\ r \in solving /\ env.secret
    /\ \E a \in Answers(request[r].fixed) : Respond(r, a)

-----------------------------------------------------------------------------
Runner(r) ==
    RunLegacy(r) \/ StartWorker(r) \/ Pass(r) \/ TimerFires(r) \/ Hear(r) \/ Deliver(r)
Worker(r) ==
    RunExperimental(r) \/ WorkerFails(r) \/ AskSidecar(r) \/ AbortHttp(r) \/ ReadResponse(r)
Sidecar(r) == TakeUp(r) \/ SidecarFails(r) \/ SidecarSolves(r)

Next == \E r \in Requests : Runner(r) \/ Worker(r) \/ Sidecar(r)

\* nothing is assumed of the worker and the sidecar: either may hang
Fairness ==
    \A r \in Requests : WF_vars(RunLegacy(r) \/ StartWorker(r) \/ Pass(r) \/ TimerFires(r) \/ Deliver(r))

Spec == Init /\ [][Next]_vars /\ Fairness

-----------------------------------------------------------------------------
Result ==
    [applied : {"legacy", "experimental", "cp_sat"}, boosted : BOOLEAN, rows : SUBSET Row, flagged : BOOLEAN,
     reason : Reasons \cup {"none", "cp_sat_url_missing", "cp_sat_size_cap"}]
Outcome ==
    [ok : {TRUE}, rows : SUBSET Row, flagged : BOOLEAN] \cup [ok : {FALSE}, reason : Reasons]

Statuses == {"none", "sent", "aborted", "failed", "FEASIBLE", "PARTIAL", "INFEASIBLE"}

\* the variables have their types; HTTPServer works on one request at a time
TypeOK ==
    /\ env \in Envs /\ request \in [Requests -> [mode : Modes, fixed : FixedLists]]
    /\ elapsed \in [Requests -> {0} \cup Deadlines(env.timeout)]
    /\ worker \in [Requests -> {"none", "running", "asking", "finished", "terminated"}]
    /\ message \in [Requests -> Outcome \cup {NoMessage}]
    /\ http \in [Requests -> [status : Statuses, rows : SUBSET Row]]
    /\ queue \in Seq(Requests) /\ solving \subseteq Requests /\ prompt \subseteq Requests
    /\ settled \in [Requests -> Outcome \cup {NoResult}]
    /\ result \in [Requests -> Result \cup {NoResult}]
    /\ env.host = "http" => \A r, s \in solving : r = s

\* No worker outlives the generation it was started for, whichever of the
\* timer, the message and the error came first: runExperimentalInWorker
\* calls back after terminate (timetableSolverRunner.js:44).
NothingRunsOn ==
    \A r \in Requests : result[r] # NoResult => worker[r] \in {"none", "terminated"}

\* lessons as a timetable has them.  The validation may still find too many
\* lessons of a subject on a day, where it reads a lower limit than the
\* solver: an unset one is one to getDivisionLimits and two to the solver.
Timetable(rows) ==
    /\ \A x, y \in rows : RowTime(x) = RowTime(y) => x = y
    /\ \A x \in rows : MayTeach(RowPair(x), x.teacher, x.day, x.slot)
    /\ WeeklyOverflow(rows) = {} /\ LongRun(rows) = {} /\ CrossDivision(rows) = {}
    /\ \A c \in DailyOverflow(rows) : MaxPerDay[c[1]] > ReportedPerDay(c[1])
    /\ HasErrors(rows) => DailyOverflow(rows) # {}

\* What a generation returns from the sidecar is a timetable: no class and
\* no teacher twice at a time, every lesson with a teacher who may give it,
\* no weekly target exceeded, no run of lessons over the continuity caps,
\* and no error for validateTimetableRun but one about a daily limit that
\* the two read differently.  With fixed slots only the classes are sure to
\* be apart: a fixed slot goes to a teacher who may be busy.
SolvedIsATimetable ==
    \A r \in Requests :
        result[r] # NoResult /\ result[r].applied = "cp_sat" =>
            /\ \A x, y \in result[r].rows : RowCell(x) = RowCell(y) => x = y
            /\ request[r].fixed = <<>> => Timetable(result[r].rows)

\* Every generation gets one result its settings allow, although the worker
\* and the sidecar may hang: the timer settles the promise.
Contract == INSTANCE GenerationContract WITH Possible <- PossibleResults
Delivers == Contract!Spec
============================================================================

# SchoolTime: a TLA+ development

SchoolTime builds weekly timetables for schools. A React client edits the
school's data ("tenant state"); an Express server stores it, charges a credit
for each generation, runs a solver (the legacy placement engine in a worker
thread, or a CP-SAT service over HTTP), validates and repairs the result, and
stores it as a run that users edit, validate and export. A creator console
registers, exports, imports and purges organizations.

The modules here model the parts in which several actors, many passes over one
mutable state, or a long sequence of legal calls decide whether the result is
right. `PROJECT.json` maps every definition to the source lines it translates
and lists the hazards of the code, each at the line where it bites, with the
properties that would catch it.

## 1. Inventory

| Component | State | Operations | Hard behaviour | What makes it correct | Modelled in |
|---|---|---|---|---|---|
| Legacy placement engine (`engine.js`, `legacyEngineLocalSearch.js`, `legacyEngineOptimizers.js`) | entries, two slot maps, six counters, locks, pins, undo stack | fixed slots, class-teacher rules, double blocks, day queues, backtracking, lock repair, fills, local search, optimizers | every pass changes ten structures that must agree; undo, strip and restore | the maps index the entries, no clash, limits kept, pins kept, it ends | `LegacyEngine` and below |
| Placement order and restarts (`legacyEngineImprovements.js`, `enginePlacementPhases.js`, `engineSlotOrder.js`) | none (pure), best attempt | order of pairs and slots, multi-restart | ranking | any order is right | orders: any (`LegacyEngine`); restarts: not |
| Solver runner and worker (`timetableSolverRunner.js`, `engineCpsat.js`) | worker, timer, promise | run, message, error, timeout, fallback | timer against late answer; a worker that exits silently or hangs | one outcome, worker terminated | `SolverRunner` |
| CP-SAT bridge (`services/cpsat*.js`) | none | build request, call, adapt response | size limit, time limits, partial answers | only a timetable is called solved | `SolverRunner` |
| CP-SAT service (`src/solver/cpsat`) | the requests it has accepted | solve | one request at a time; fixed rows, conflicts | the answers are timetables | `CpsatModel` |
| Generation and credits (`routes/timetableRoutes.js`, `b2bRoutes.js`, `creatorRoutes.js`, `services/common.js`) | licenses, credit ledger, purchase requests, runs | generate, approve, reject, adjust | read-modify-write under READ COMMITTED; row locks held while a solver runs | the balance agrees with the ledger, is never negative, everyone is answered | `CreditTransactions` |
| Database layer (`db.js`) | Postgres pool, or one SQLite connection | get, run, transaction | on SQLite all requests share one connection | a run is stored if and only if its request says so | `CreditTransactions` (Postgres), `TenantState` (SQLite), `OrgRows` (keys) |
| Sessions (`auth.js`, `authRoutes.js`, `sessionRoutes.js`, client `api.js`) | refresh tokens, reset tokens, the pair in the browser's storage | login, refresh, logout, reset | two tabs and several calls refresh at once; answers are lost | a tab does not end its own session; an ended session stays ended | `Sessions` |
| User administration (`userRoutes.js`, `platformUserLifecycle.js`) | users and rows that refer to them | create, deactivate, delete | references in many tables, reads before writes | no organization without a user, no dangling reference | `OrgRows` |
| Manual edit (`timetableManualEditService.js`, `timetablePlacementValidator.js`, the edit session of the client) | entries of a stored run, a copy in each tab | preview, apply, repair, undo | a second implementation of the engine's rules; stale copies | edits keep the rules; undo restores | `ManualEdit`, `StoredRun` |
| Validation and automatic fixes (`timetableValidationService.js`, `timetableAutoFixService.js`, `validationRoutes.js`) | findings, entries | validate, apply finding | a finding approved long after it was made | a fix trims to what was expected | `RunValidation`, `StoredRun` |
| Tenant state (`stateRoutes.js`, `tenantStateMigration*.js`, `App.jsx`) | `tenant_state` row, client copy, debounce timer | load (and migrate), save | save against generation, import and migrating read; several tabs, several sessions | no save lost, no sample data stored | `TenantState` |
| Preflight and feasibility (`tenantPreflightCheck.js`, `schedulingRulePlacement.js`, `teacherCapacity.js`, `divisionScheduling.js`) | none (pure) | scope, preflight, capacity report | restates what the engine reads, after edits that renumber and remove | agrees with the engine, but for the type of a fixed row (section 5) | `SchoolSetup` |
| Setup editors of the client (`SetupPages`, `AcademicPages`, `TeacherEditorModal`, `SchedulingPages`) | the six lists of the tenant state | add, change, pause, remove, undo | lists refer to each other by id and by position | pausing never permits | `SchoolSetup` |
| Organization bundle, purge, registration | all tables of an organization | register, export, import, purge | order of statements against foreign keys; export is not a transaction | all or nothing, given back as it was | `OrgRows` |
| Exports, settings, audit, error log, e-mail, start-up | – | rendering, appends, wiring | no protocol | – | rows only (`OrgRows`) |

How they interact: the client sends the whole tenant state with a generation;
the route opens a transaction, reads and decrements the credits, writes the
ledger, awaits the solver runner *inside the transaction*, validates and fixes
the entries, inserts the run, overwrites `tenant_state` with the state of the
request, and commits. Manual edits and applied findings later rewrite the
`entries_json` of the run. The engine is one synchronous function in a worker:
its "actors" are its passes, which share one board. All calls of the client go
through `api.js`, which refreshes the session when the access token has expired.

## 2. Modules

| Module | Content |
|---|---|
| `SchoolData` | The school as constants, and the pure helpers over it: slot activity, rule matching, weekly targets, eligible teachers, teacher capacities |
| `Placement` | The board (entries and the maps beside them), `canPlaceAssignment`, `placeEntry`, `removeLessonFromMapsAndEntry` |
| `TimetableSpec` | The abstract timetable: a set of clash-free lessons within the weekly targets, of which the pinned ones stay |
| `LegacyEngine` | One attempt: an action for each turn of each pass's loop |
| `RunValidation` | Every finding of `validateTimetableRun`, as the set of lessons or pairs it is made for |
| `CpsatModel` | `solve_request` as the set of answers it may give: fixed rows, units, constraints |
| `SolverRunner` | The runner, the worker, the bridge and the sidecar, for several requests at once |
| `GenerationContract` | Abstract: every request gets one result, one of those its settings allow, and keeps it |
| `ManualEdit` | The placement validator, repair plans, automatic fixes, as operators on a board |
| `StoredRun` | The run, its copies in the tabs, the requests and answers between them |
| `CreditTransactions` | The requests on an organization's credits over Postgres |
| `TenantState` | The configuration in the tabs and in the row, over both databases |
| `Sessions` | The token pair of one user, in a browser with several tabs |
| `OrgRows` | The tables of the organizations and the references between them |
| `SchoolSetup` | The setup editors and the checks before a generation |
| `MC...` | Small instances for TLC, one module for each of `LegacyEngine`, `SolverRunner` (`MCSolver`), `StoredRun`, `CreditTransactions`, `TenantState`, `Sessions`, `OrgRows`, `SchoolSetup` |
| `LegacyEngineProofs`, `SolverRunnerProofs`, `StoredRunProofs`, `CreditTransactionsProofs`, `TenantStateProofs`, `SessionsProofs`, `OrgRowsProofs`, `SchoolSetupProofs` | Theorems and lemmas about the module each is named for |

How they compose. `SchoolData` is the engine's reading of a school and is used
by four models: `Placement` and `LegacyEngine` extend it; `RunValidation`
extends it and is extended by `CpsatModel` (then `SolverRunner`) and by
`ManualEdit` (then `StoredRun`), so solver, validator and edits are judged by
one reading; `SchoolSetup` instantiates it with its own variables to compare the
checks with it, and `StoredRun` instantiates `Placement` to compare the manual
edit with `canPlaceAssignment`. `LegacyEngine` implements `TimetableSpec`, and
`SolverRunner` implements `GenerationContract`.

A few modules hold faulty variants of their definitions, marked as such: the
mutants of `PROJECT.json`. No specification uses them.

### The engine: state and actions

`board` is the record of the engine's closures: `entries` (the array, as a set:
no property depends on its order), `cell` = `divisionSlotMap`, `busy` =
`teacherSlotMap`, `daily`, `session` (morning and evening counts), `weekly`,
`subWeek`, `subDay`, `lock` = `divisionSubjectTeacherLock`, `pinned` =
`pinnedCells`, `stack` = `placementStack`. `pc` names the pass; `pos`, `job`,
`visit`, `rounds`, `left`, `todo`, `listed` are the loop variables of that pass
and `best` the objective the local search compares with.

| Pass in the code | Actions |
|---|---|
| fixed slots | `FixedSlot` |
| class-teacher rules (run twice) | `StartClassTeacherRules`, `FirstPeriod`, `StartDailyMin`, `DailyMin`, `FinishClassTeacherRules` |
| `allocateDivisionSubject` in the main and soft orders | `AllocatePair`, `StartDoublePass`, `DoubleBlock`, `StartVisits`, `VisitDay`, `FinishPair`, `Backtrack`, `Undo`, `FinishUndo`, `FinishOrder` |
| lock repair | `StartRepairRound`, `RepairPair`, `Strip`, `ClearLock`, `GapVisit`, `FinishGap`, `FinishRepairRound` |
| gap utilization and division fill | `Fill`, `FinishFill` |
| local search | `GapFill`, `StartRelocations`, `Relocate`, `StartSwaps`, `Swap`, `FinishSearchRound` |
| distribution, period spread | `Distribute`, `StartPeriodSpread`, `SpreadPair`, `SpreadLesson`, `Finish` |

Abstractions. Choices that the code makes by ranking (teacher loads, priorities,
hash-rotated slot orders) are any choice among the candidates that pass the
code's tests; so every behaviour of the code is one of the model, and an
invariant of the model holds of the code whatever the weights. The pass orders
over (class, subject) pairs and the day queues are constants. Two optimizers,
the cross-division unblock and the teacher load balance, are not actions: what
they would have to find is `CrossDivisionUnblocks` and `LoadBalances`, and
`OptimizersIdle` proves that no reachable board offers it (both ask
`canPlaceAssignment` about a lesson whose time or cell is still taken).
`Objective` is a sum of weighted counts, of which `MissingLessons` is the part
the search is after. Restoring a snapshot is modelled by the
step not being taken. Ids, reports and messages are left out.

### The credit transactions: state and actions

Committed rows (`credits`, `status`, `ledger`, `grants`, `runs`), the row locks
(`licenseLock`, `purchaseLock`), and for each request its progress `pc`, the
balance it read `seen` and its `answer`. A step is one statement. On Postgres
with READ COMMITTED a SELECT takes no lock and sees what is committed; an UPDATE
waits for its row's lock and keeps it until COMMIT or ROLLBACK. `CheckPending`,
`ReadCredits`, `UpdateLicense`, `MarkApproved`, `Commit`, `MarkRejected` are the
statements of the four handlers; `Abort` is the `catch` of `db.transaction`
(a statement fails, the solver throws, the connection is lost), possible after
any of them. The ledger is kept as its two totals, of the positive and the
negative rows: the properties tell nothing else apart. The B2B route runs the
same statements as the application's and is not a separate job.

### The solver: state and actions

`env` is what the process read from its environment, `request` what each
generation asks; `worker`, `message` are the worker thread and what it posted,
`http` its call, `queue`, `solving`, `prompt` the sidecar, `settled` the promise
of `runExperimentalInWorker`, `result` what the route gets. `elapsed` is a clock
for each request that jumps from one deadline to the next: a JavaScript timer
never fires early and may fire late, so a timer whose deadline has passed races
everything else. `RunLegacy`, `StartWorker`, `Pass`, `TimerFires` and `Deliver`
are the runner; `RunExperimental`, `WorkerFails`, `AskSidecar`, `AbortHttp` and
`ReadResponse` the worker with the bridge in it; `TakeUp`, `SidecarSolves` and
`SidecarFails` the service, which as an HTTP server takes one request at a time
and as a Lambda function any number. `FixedRows` says of the rows the request
fixes which the service puts first: entry by entry in their order, each with the
first teacher by id who may take it (`MayFix`, `FixedTeacher`). `TakeUp` takes a
waiting request out of the queue, from any place where the host is a Lambda
function. `SolvedIsATimetable` asks of a result of the sidecar that no class has
two lessons at a time, and, where nothing was fixed, that the validation finds no
error in it (`Timetable`).

Abstractions. What the legacy and experimental engines return is left out here
(`LegacyEngine` is about that). OR-Tools' search is a choice among the
assignments that satisfy the constraints, computed once for each request
(`Answers`). A stage's time is a deadline: late or not.

### The stored run: state and actions

`run` is the row of `timetable_runs`, `findings` its last validation, `copy` the
`lastGeneratedTimetable` of the tenant state, `tab` what each page shows, may
undo and has lined up of a repair plan, `asked` and `answered` the requests and
answers on their way, in no order, `approval` a fix between its read and its
write. `Load`, `MoveOrSwap`, `AddOrRepair`, `AddAfterRepair`, `Undo`, `Answer`,
`LoseAnswer` are the page; `ApplyEdit`, `ReadForFix`, `WriteFix` the server. A
tab sends its whole board with an edit and the server validates and stores what
it was sent, as the code does. `ManualEdit` gives the validator
(`MayStand`, `MayExchange`, `MayAdd`, `CountsHold`, `DoublesHold`), the repair
plans (`PassesPreTeacherChecks`, `Repairable`, `Blockers`, `StepsFrom`,
`RepairPlans`) and the fixes (`Fixed`; `FixedAll` for those of one code, which
touch different lessons, and `AfterFixes` for the three codes in their order). Of a finding the properties need its code, pair, day and expected
count; the recomputed report and the audit row are left out.

### The tenant state: state and actions

`row` is `tenant_state` with a flag for a stored state in an older format,
`stored` the runs with the generation and the configuration each was made from,
`deleted` those an import has since deleted (a history variable: `Import` empties
the organization's `timetable_runs` first), `begun` the open
transaction of the SQLite connection and what its rollback returns to, `token`
the organization of the tokens all tabs share, `tab` the pages, `puts`, `loads`,
`gens` the requests under way. A configuration is whose data it was made from,
the number of its last edit, and one field the schema of a request may drop (a
paused subject). `SignIn`, `TakeState`, `LoadFails`, `TakeLatest`, `Edit`,
`Autosave`, `AutosaveFails`, `SaveSetup`, `LogoutSaves`, `LogoutSignsOut`, `Expire`, `Reload`,
`Generate`, `GenerationAnswered`, `GenerationLost` are the page; `ReadState`,
`WriteBack`, `ProcessPut`, `LosePut`, `Begin`, `Commit`, `Rollback`, `Import`,
`Restart` the server. On SQLite a second `BEGIN` fails (`Refused`), and what any
request writes while a transaction is open goes with it when it is rolled back.

### The sessions: state and actions

Pairs of tokens are numbered as they are issued. On the server `live` (rows of
`refresh_tokens` without `revoked_at`), `active`, `link` (the reset token),
`stale` (expired access tokens); in the browser `store` (the pair in
`localStorage`, one for all tabs), `shows`, `timer`, `refresh` (the one refresh
of a tab that its calls share), `call`, `leave`, `confirm`. `Login`,
`RefreshRead`, `RefreshRevoke`, `RefreshIssue`, `LogoutServed`, `SetPassword`,
`SwitchActive`, `RequestReset`, `ConfirmRead`, `ConfirmCommit` are the
statements of the server, so two exchanges of one token interleave; `Open`,
`RefreshTimer`, `TakeRefresh`, `LoseRefresh`, `Send`, `Serve`, `AskRefresh`,
`Expelled`, `Logout`, `LogoutDone`, `LogoutLost` are the tabs. `spender`, `lost`
and `ended` are history variables that only properties read. Hashing, the
creator's sign-in (no refresh) and rate limits are left out.

### The rows of the organizations: state and actions

`rows` is a set of rows for each table; a row has an identity, its organization,
the user it refers to and a datum. `RegisterOrg`, `AddUser`, `SwitchActive`,
`SignIn`, `Generate`, `RequestCredits`, `CreateKey`, `LogError` write as the
routes do; `ExportStart` and `ExportRead` read one table at a time; `Purge` and
`Import` apply their statements one by one in the code's order (`DeletionOrder`,
`Exported`; `Emptied` and `Filled` are the tables after the first `n` of them),
each against primary and foreign keys (`Given`, `Dangling`), and take them all
back when one fails; `DeleteRead` and `DeleteWrite` are the two halves of a user's
deletion under READ COMMITTED. Other transactions are one step. A user acts for
the organization the row names: tokens of users moved to another organization by
an import are not modelled. `last`, `doubtful` and parts of `export`, `deleting`
are history variables.

Two things in the code break the promises between organizations, and `doubtful`
names the organizations they have reached: a bundle that is `torn`, and a deletion
that is `stale`, whose reads no longer hold when it writes. A torn bundle is read
while its organization is written to, or from an organization that is already
doubtful. It may lack users its rows refer to; imported into another organization
while the original is there, it leaves rows of one that refer to users of the
other, and a clean bundle of such an organization spreads them. A stale deletion
removes a user who has come to another organization with an import. Purging an
organization, or importing a clean bundle into it, makes it sound again.

### The setup of a school: state and actions

`divisions`, `subjects`, `teachers`, `periods`, `days`, `rules` are the lists of
the tenant state, `undo` the removed teacher the page can bring back (an edit on
another page gives it up, since the page that holds it is left), `given`
the ids handed out. There is an action for each confirmed edit:
`AddDivision`, `QuickAdd`, `SetDivisionPaused`, `SetStandardPaused`,
`RemoveStandard`, `RemoveDivision`, `ChangeMedium`, `ToggleDay`,
`ToggleSlotWeekday`, `SaveSlot`, `AddSlot`, `RemoveSlot` (`EditStructure`);
`SaveSubject`, `RemoveSubject`, `SaveTeacher`, `SetTeacherPaused`,
`RemoveTeacher`, `UndoRemoveTeacher` (`EditStaff`); `SavePreference`,
`ToggleRule`, `DeleteRule`, `Reload` (`EditRules`). Removing something runs the
effect that cleans the references to it, as far as the code does. The checks are
operators over the lists: `ScopeTeachers`, `ScopedRules`, `PreflightPasses`,
`Placeable`, `Required`, `Eligible`, `Supply`, `ReportPasses`. The properties compare
them with the operators of `SchoolData` and `Placement` on the same lists:
`FixedRules` are the fixed rules of a request, `UsableCells` the cells of lesson rows
the engine can place their lessons in. A row may change its type at any time, the
last lesson's too: only the Remove button counts the lessons that are left
(`SchedulingPages.jsx:166`). Left out: names,
times and notes, the lists of mediums and standards, the bulk patch of subjects, the rules that
prefer a class teacher's lesson, a subject's pause (see section 5), fields that no check reads, edits that keep an excluded day no
longer worked. Teacher-subject rows, free periods and subject allocations are
empty in every state the client saves, and here.

The module states what the dialogs guarantee of a form as an assumption on the
constants (`DialogsAssumption`): a teacher's form offers one class to be class
teacher of, of which saving keeps the first, and a subject's form asks for at least
one lesson a week, also in the classes with a number of their own (`IsSubject`).
`StartAssumption` says that editing
starts from a school the editors could have made: records well formed, a rule of a
kind per subject, class teachers within their own restriction. It is not true of
every state that can be imported, and `PausingNeverAdds` needs it. `With` is a
list with one record put in or replaced.

## 3. Runs

| Run | Instance | What it shows |
|---|---|---|
| `engine_strict` | 2 classes, 2 subjects, 2 teachers, a day of 4 lessons, a class-teacher rule, a target no day can hold; no soft passes | types, counters, the undo stack, every limit and the single class with consecutive lessons, while backtracking and lock repair run; the attempt ends |
| `engine_bestfit` | 2 classes, 3 teachers, 2 days of 3 lessons, double blocks, an exclusion rule only soft passes ignore, a fixed slot, a capped teacher | indexes, locks, targets and pins through lock repair, soft passes, fills, gap filling, relocations, swaps over a stale list and optimizers; a capacity is exceeded by one at most, by a double block; the search never worsens the objective; the engine implements `TimetableSpec` |
| `solver` | two generations at once, 2 classes, a day of 3 lessons around lunch; fixed slots none, conflicting or the whole timetable; time limits, sidecar address, secret, size cap, fallback, quality and host vary | one result for each request, of those its settings allow, though worker and sidecar may hang (`Delivers`); no worker outlives its generation; what is returned as solved is a timetable |
| `stored_run` | two tabs, 2 classes, 3 + 1 lessons, a double-period subject, a lesson to place only by repair; 2 edits or fixes | edits, repair plans, undos and fixes keep the rules; undo restores the board an edit was made on; the validator accepts what the engine would place, and nothing else; a late fix trims to what its finding expects |
| `credits` | a generation, two approvals and a rejection of one purchase, an adjustment, any of which may fail | balance in bounds; everyone is answered |
| `tenant_state` | two tabs of one browser, two organizations, SQLite and Postgres; one session with a generation and a fault, or two sessions, or two generations at a time | a page does not save before its load is in; a generation is answered with a timetable exactly when its run was stored, to stay or until an import deleted it; what a resting tab shows is stored unless somebody else wrote |
| `sessions` | two tabs, two calls of the first at a time, one with `suppressAutoLogout`; resets and administrators, or two calls finding the token expired, or losses | a tab is not refused a refresh for what it has itself exchanged; a session that was ended stays ended |
| `org_rows` | 2 organizations, 3 users and addresses; up to 3 requests of the platform | keys hold; rows of an organization that is not doubtful refer to its own users; unless another organization is doubtful, a purge never fails and a clean import never fails on a reference; a clean import gives back what was exported |
| `school_setup` | 2 classes and a third to add, 2 subjects and a third to add, 2 teachers and one to hire, 4 period rows of which two are lessons, 2 or 3 edits | pausing never lets a teacher teach where the same teacher may not; after every edit the capacity report agrees with the engine, the preflight does but for rules fixed to rows that are no lessons, and the report finds those |
| `continuity_cap`, `double_approval`, `fixed_in_break` | smallest instances, and that of `school_setup` | the findings of section 5 |

Bounds. Two classes are the least that compete for a teacher; two subjects the
least for which a lock, a swap or a continuity run can mix; three lessons a day
the least with a half-day boundary and a run of consecutive lessons, four the
least in which a teacher could have consecutive lessons in two classes. Two days
give the day queue, the distribution pass and the class-teacher rule something
to choose. `BacktrackDepth` 2, one backtrack round and one repair round are
below the code's values (20, 40, 8): the first repetition already meets a board
the pass has changed, and the proofs cover all values. Which passes an instance
reaches follows from its targets: `engine_strict` asks for more than a
day holds, so `Backtrack` and `Undo` fire, down to a stack of pinned entries;
`engine_bestfit` strips and repairs locks (`Strip`, `GapVisit`) and leaves
lessons that only a soft pass can place and others only the search moves.

In `solver` two requests are the least that meet at the single-threaded sidecar;
time limits of 1 s and 10 s put the deadlines of the HTTP call, the search and
the worker in either order. In `stored_run` two edits are the least of which the
second is made on a board the first has made stale, and a repair plan is one of
two steps. In `tenant_state`, `sessions`, `org_rows` and `school_setup` the
events of each kind are bounded by *budgets*: a run starts from several, each
rich in one kind of event, because all at once would be out of reach. A budget
of two sessions is what a second load or a shared token needs; two generations
what a failed `BEGIN` needs; three requests of the platform what export, purge
and import need; two edits of the structure and one of the rules what a rule
needs whose periods were renumbered and then removed, and what a day without
lessons needs, for which both lesson rows become breaks. `AuditLimit` 2 and
`ErrorLimit` 1 stand for 5000 and the log limit: one row more than fits is
reached.

No run needs a state constraint. `CHECK_DEADLOCK` is on for the engine and the
credits: an attempt that has returned and a set of answered requests stutter by
an action of their own (`Returned`, `AllAnswered`), so any other state without a
successor is an error. It is off for the other runs, because there the system
really stops: every generation has its result, or the budget of events is used
up and no request is under way.

Symmetry. Only `tenant_state` uses it, over tabs and organizations, which the module
treats alike; it checks no liveness.

Fairness. The engine is synchronous code in a worker that nothing interrupts or
blocks: `WF_vars(Next)`. A request's next statement is taken when it can be
(`WF_vars(Step(r))`): Postgres grants a lock that has been released, the solver
answers or is cut off by its timeout (`timetableSolverRunner.js`). `Abort` has no
fairness: no property relies on failures. In `SolverRunner` only the steps of
the main thread are fair, its timer included; the worker, its message and the
sidecar are not: a worker that exits in silence, hangs in a search or waits for
a sidecar that never answers is a behaviour of the model, and `Delivers` holds
because of the timer. The other modules check safety only.

Every property of a passing run has a mutant in `PROJECT.json`: a faulty
variant, defined beside the original, under which the run fails.

## 4. Proofs

Eight modules hold theorems, one for each component that has a run of its own.
Each theorem holds for every value of the constants that satisfies the `ASSUME`s
of the modules it extends: any school (finite sets of classes, teachers,
subjects and slots, numbers that are naturals), any order, bound, number of tabs
or requests. A theorem that assumes more says so in its statement. Of the
properties of passing runs, 37 are stated by a theorem: all but those listed at
the end of this section.

In each module the argument is the same: an inductive invariant `IInv`, a lemma
for every action that keeps it, and the theorems as its consequences. TLC checked
each `IInv` on the run of its component before it was proved. What is interesting
is what had to be added to a property to make it inductive.

### The engine (`LegacyEngineProofs`)

    IInv == TypeOK /\ BoardOK(board) /\ StackInStep /\ ListedPresent /\ NoSiteLeft

`BoardOK` joins everything that speaks of a board alone: the slot maps index the
entries, the counters count them, the limits hold, the lock lists the teachers of
unpinned lessons, pinned cells are occupied, and a teacher has consecutive
lessons in one class a day at most. None of these is inductive alone:
`canPlaceAssignment` asks the maps and the counters, never the entries. The two
primitive updates are treated once: placing an `Admissible` lesson and removing a
listed one keep `BoardOK`, and each action cites these. `StackInStep` relates the
undo stack to the board while the main passes run. `ListedPresent` is needed by
the period spread, which removes lessons of a list made earlier; `NoSiteLeft` says
that the double-block sites are used up outside that pass.

From it: `TypeCorrect`, `IndexCorrect`, `CountersCorrect`, `ClashFree`,
`TargetsCorrect`, `LocksCorrect`, `StackCorrect`, `PinnedKept`. A double block
tests the limits once for two lessons, so the invariant allows them to be exceeded
by `Slack`, which is 1, and 0 where no allocation asks for double blocks
(`NoDoubles`): `OvershootBounded` holds always, `LimitsRespected` and
`OneContinuousClass` where `NoDoubles` does. The assumption is needed; a limit
exceeded by a double block is a behaviour of the code (section 5).

`Implements` proves the refinement `BuildsATimetable`: the board's lessons, with
those in pinned cells as the fixed ones, make a step of `TimetableSpec` or a
stutter whatever the engine does. `BestTracksBoard` and `SearchImproves` are about
the local search: `best` is the objective of the board the search works on, and no
step of it ends in a worse one. `OptimizersIdle` proves that the two optimizers
left out of the model change nothing (`IdleOptimizers`).

### The solver (`SolverRunnerProofs`)

`IInv == TypeOK /\ \A r \in Requests : Sound(r)`. `Sound` says where each outcome
on its way comes from: a response is an answer of the sidecar to this request, a
message judges such an answer or tells of a failure, a worker was only started
for a request that wants one, and what was delivered is one of the results the
settings allow. From it `RunnerTypes`, `WorkersEnd` (`NothingRunsOn`) and
`RunnerKeepsContract`: the runner implements the safety part of
`GenerationContract`. That a result comes at all is the liveness part, which only
the run checks, with `Delivers`.

`SolvedTimetables` (`SolvedIsATimetable`) is about the constraint model: whatever
assignment satisfies the constraints of `CpsatModel`, no class has two lessons at
a time, and without fixed rows the validation finds no error in it. Most of it
relates two ways to count. The hardest part is the continuity cap: the service
forbids every window of one lesson too many, the validator measures the run up to
a lesson, and a run that is too long must contain such a window (`RunHasWindow`,
by the least slot at which the run grows too long).

### The stored run (`StoredRunProofs`)

`IInv == Typed /\ Findings /\ Undoable`. `Undoable` says that the record a tab or
an answer carries leads its board back to the board of the edit; it holds because
the server takes the record from the board of the request (`UndoneApplied`) and a
tab takes board and record from one answer. Hence `RunTypes` and `UndoLeadsBack`
(`UndoRestores`).

The server checks the board a tab sends, so a rule holds of the stored run only if
it holds of every copy there is: shown, to fall back to, in a request, in an
answer, read by a fix (`Copies`). `StepDescends` shows once that a step makes no
new board except by an edit that is allowed or by the fix under way. On top of it:

- `StaysApart`: if no generated board has a teacher or a cell at two lessons at a
  time (`GeneratedApart`), no copy ever has. `evaluatePlacement` ignores both cells
  of a swap, so it does not compare the two lessons that change places; they are
  apart because they were apart before (`SwappedApart`).
- `FixesTrim` (`FixesTrimToExpected`), under `GeneratedApart`: the ranks by which a
  fix picks the last lessons number the lessons of a class and subject from 1
  without gap, so exactly the surplus goes.
- `EditsKeepRules` (`EditsKeepTheRules`), if every generated board keeps the rules
  an edit is checked against and has no lesson of a subject that does not apply to
  its class (`GeneratedKeepsRules`). Limits survive taking lessons away; double
  periods do not, in general. A fix takes from the end of a day, and what is left
  of a row of pairs is pairs and at most one lesson (`EarlyKeepsDoubles`). Where
  pairs stand, only the last lesson can be without a neighbour (`LoneIsLast`), which
  is what the property says. A mismatch fix goes by its cell, whatever stands there
  by then, and could tear a pair; hence the second half of the assumption.
- `EditorAndEngineAgree` (`MirrorsEngine`), under `GeneratedApart`. The editor
  (`evaluatePlacement`) restates the engine's `canPlaceAssignment` over the lessons,
  where the engine reads its maps. `EditorMirrorsEngine` compares them on any engine
  board whose maps are in step with the lessons, however it came about: a slot map
  shows a teacher exactly where a lesson does (`CellsReflect`), the counters are the
  recounts (`LimitsMirror`, `CapacityMirrors`), and the backward scan stops at the
  same slot (`ContinuityMirrors`). That the engine's maps are in step is what
  `MapsIndexEntries` and `CountersCountEntries` say, both proved of the engine. The
  locks are taken from the lessons alone: the editor does not know the persisted
  locks, and the two may differ by them. `EngineBoardReflects` needs that the lessons
  stand apart, or one of two at a time would be missing from the maps.

That boards come apart is what `ClashFree` and `SolvedTimetables` say of the two
engines. The rest of `GeneratedKeepsRules` is not a consequence of what is proved
about them: a double block may overshoot a daily limit by one, and lessons of a
double-period subject that are placed one by one need not stand in pairs. Such a
board is refused every edit until it is repaired. `MCStoredRun` states the
assumption of its boards, so the run does check it.

### Credits, tenant state, sessions

`CreditTransactionsProofs`: `TypeOK /\ NeverNegative /\ WithinLedger /\
PendingWithin` is inductive (`CreditInvariance`), hence `CreditTypes`,
`CreditsNeverNegative`, `CreditsWithinLedger`. `PendingWithin` extends the bounds
to the balances that requests have read and are about to write: a commit installs
a balance computed from an old read, which must lie within the ledger *as it is
then*. It does, since the ledger's totals only grow.

`TenantStateProofs`: `AutosavesWait` needs that a load whose configuration is in,
or that failed, never belongs to a page that waits for it (`LoadIsIn`).
`AnswersTellOfRuns` (`AnswersMatchRuns`) needs that identities of generations are
never reused (`Fresher`), that on SQLite a generation that runs owns the open
transaction, and that nothing is stored or deleted while one is open
(`OneTransaction`): a rollback takes back no run that was answered, and brings back
none that was deleted. `EditsAreKept` (`EditsKept`) is
proved from a second invariant, `InStep`: of a tab with nothing lined up, the save
under way, or else the row, is what it shows. A step of another tab or of the
server either leaves tab and row alone (`Undisturbed`) or takes from the tab the
claim that its edits are kept.

`SessionsProofs`: `EndedForGood` needs that nothing under way can bring an ended
session back (`Quenched`). `NotRefusedByItself` (`NotByItself`) needs that the
token the tabs are about to send is not one they have spent (`NotSpentHere`), which
needs that the answer to a refresh is held by one tab alone until it is stored
(`AnswersAreNew`).

### The rows of the organizations (`OrgRowsProofs`)

    IInv == issued \in Nat /\ Sound(rows, ...) /\ Coherent(rows, doubtful) /\ ExportOK
            /\ FileOK /\ DeletionsOK /\ NothingDangles /\ Restored

`Sound` is about the keys, and holds of every organization: identities and
addresses are taken once, references hold, each organization has a license and a
state (`Equipped`). `Coherent` is `OrgsStayWhole` with its exemption. Neither is
inductive without what is known of the bundles and of the deletions under way: an
export that is not torn has read a part of the one state its organization is still
in (`ExportOK`), a clean bundle is such a state (`OfOneState`), and a deletion that
is not stale has its user and its substitute where it saw them. These are stated
for any number of organizations, users, deletions under way and limits.

- A purge is followed statement by statement (`EmptiedHolds`): a table goes when
  the rows that refer to it are gone, the users after all but their organization.
  An import is the same in the other direction (`FilledHolds`): a bundle of one
  state refers to its own users only and brings them before all that refers to
  them. Hence `NothingLeftDangling`, and `RowsTyped`, `OrgsWhole` with the cases of
  a deletion (`UserDeletedIs`).
- `ImportsRestore` (`RestoresWhole`): the table of a bundle is what was read of the
  state at the start. That the audit and error rows of a bundle are *as many as the
  limit allows* needs that the number of older rows numbers the rows of a finite
  set without gap (`OldestTaken`).

### The setup of a school (`SchoolSetupProofs`)

    IInv == records of the six lists well formed
            /\ SubjectsOK(subjects) /\ StaffOK(teachers) /\ StaffOK(undo)
            /\ OnePerKind(rules) /\ ...

`SubjectsOK` says that every subject has at least one lesson a week, in the classes
with a number of their own too: the form and the schema see to it, and where it holds
the report and the engine, which read a limit of zero differently, have the same
demands.

`StaffOK` says that a teacher who is restricted to some classes is class teacher in
one of them, if at all, and of one class only. It must hold of the teacher an undo
would bring back as well, since the snapshot returns as it was. A class that is
removed leaves both lists of a teacher at once (`CleanedStaff`); a save drops the
class a teacher is in charge of when the restriction does not name it
(`SaveTeacherStep`). `SavePreferenceStep` is the step that looks at several subjects
at once: each is left with one rule of a kind (`PreferenceApplied`). Hence
`SetupInvariance` and `SetupTyped` (`TypeOK`).

- `PausingAddsNobody` (`PausingNeverAdds`). An empty list of classes means all of
  them, so pausing would add a teacher if it emptied a list. Whoever is in scope has
  an active class on the list or is class teacher of one (`ListNotEmptied`); the
  invariant puts the latter on the list too.
- `ChecksAgree` (`ChecksMirrorEngine`) holds of any state that satisfies the
  invariant, for any weekdays, rows (lessons among them or not), classes and rules.
  For the preflight, the cells it counts as valid are usable ones where their row is a
  lesson (`UsableIs`, `PreflightAgrees`), and a rule without usable cells leaves no
  cell to count, so a report that passes has no subject under such a rule, every
  subject having a demand (`ReportFinds`). The lemmas named `Engine...`
  compare the two readings one by one: a missing boundary is slot 0 for the engine
  and no slot for the preflight, and no row has the number 0 (`EngineTargets`);
  cells of fixed rules that are still there after the migration lie in rows that run
  (`ScopedRecords`); the rows before the first lesson after lunch are those that are
  not after it, and where there is none, half of the rows rounded up is the same on
  both sides (`EngineMorning`); scoping a scoped school changes nothing
  (`ScopeTwice`). Then the cells are the same set (`CellsAgree`), and so on for
  demands, teachers (`CandidatesAgree`) and weekly capacities (`EngineSupply`).

### What is only model-checked

- Liveness under fairness: `Terminates`, `EveryoneAnswered`, the liveness part of
  `Delivers`. The prover reaches neither fairness nor ENABLED.
- What a fold computes: it needs an induction over a set, which none of the
  backends does. Where a definition could be stated without recursion it was
  (`FixedRows`, `FixedAll`, `EngineBoard`), and inductions over numbers are replaced
  by the least counterexample (`HasLeast`, `HasGreatest`). That `EngineBoard` is what
  placing the lessons one by one leaves is an `ASSUME` of `MCStoredRun`, which TLC
  evaluates on the boards of the run.
- The three findings of section 5, which are counterexamples.

## 5. Findings

Each of the first three is a run that TLC ends with a counterexample;
`PROJECT.json` quotes the text the code departs from.

- `continuity_cap`: the continuity test looks back from the slot only
  (`engine.js:425`), so a lesson placed in front of existing ones makes a run
  longer than the cap, which the documents call hard.
- `double_approval`: two approvals at once of one purchase request are both
  answered 200 with a ledger row each; the balance grows once or twice.
- `fixed_in_break`: the preflight asks of a cell a rule is fixed to that its row
  exists and runs on the day, not that it is a lesson
  (`tenantPreflightCheck.js:127-135`). When the row becomes a break the preflight,
  which is to find impossible fixed rules (`tenantPreflightCheck.js:2`), passes and
  the engine refuses every cell (`engine.js:509`). The feasibility report finds it
  where the rule concerns a class that has the subject (`ReportFindsUnusable`), but
  only warns (`docs/ARCHITECTURE.md:60`).

Met while modelling, and part of what the models allow:

*Engine and credits.* Lock repair clears the lock of a pair whose pinned lessons
stay, which may end with two teachers (`engine.js:739-744`). Both halves of a
double block are tested before either is placed, so a daily limit or a capacity
is exceeded by one (`legacyEngineOptimizers.js:299`, property `OvershootByOne`;
`docs/ARCHITECTURE.md:86`). The distribution pass puts a lesson back under rules
that a soft pass had ignored when placing it, and drops it when refused
(`legacyEngineOptimizers.js:400`). Two `teacherSubjects` rows for one subject
make a pair team-taught without the subject's flag (`engine.js:351`). Two
generations at once write two ledger rows of -1 and take one credit
(`timetableRoutes.js:97-99`); the balance stays within the ledger's totals.

*Solver.* The teacher of a fixed row is the first eligible one by id, busy or not
(`service.py:502-519`, `CONSTRAINT_MAP.md:55`); the one-teacher rule of a pair is
asked of its first unit only (`service.py:785-792`); a request that is fixed as a
whole returns before the conflict check (`service.py:594-616`). With the default
time limit of 30 s the HTTP call gives up at 28.5 s, before the search's 29 s
(`engineCpsat.js:29`, `cpsatSolveRequestBuilder.js:73`). The sidecar serves one
request at a time, those of aborted clients included.

*Validation and edits.* An unset daily maximum is two for the engine and one for
the validator, so a legal lesson is trimmed; an applied finding can be approved
again; the mismatch fix goes by the cell of its finding, whoever stands there by
then. A move from a free cell is accepted and changes nothing; a swap across
classes asks neither applicability nor eligibility
(`timetablePlacementValidator.js:438-513`). `apply-edit` stores the entries it
was sent, so a stale tab overwrites the edits of another, and drops the
diagnostics of the stored report.

*Tenant state.* `subjectSchema` (`common.js:6-32`) drops a subject's
`schedulingPaused` from every save and every generation (`Parsed`), so a subject
that was paused on its page is scheduled, although `divisionScheduling.js:2` says
paused subjects are left out. After a failed load, an expired session with a slow sign-in, or a
second sign-in on the same page, sample data or another organization's data can
be saved (`stateHydrated` is never reset; `AutosaveWaitsForLoad` speaks of the
autosaves of a page's first session). The save button of the school page sends
at once (`SaveSetup`, `App.jsx:307-313`), sample data included when it is
pressed before the load is in. Tabs share the stored tokens, so a tab's autosave goes to
the organization that signed in last. A generation's answer is applied after a
sign-out. Teacher locks, teacher-subject rows, free-period rules and allocations
that were loaded are dropped by the next save (`App.jsx:128-130`). On SQLite
what other requests write during a generation is rolled back with it.

*Sessions.* A refresh under way at a sign-out stores a new pair afterwards
(`api.js:169`); of two tabs that exchange one token at once both get a pair, and
of two that do so in turn the second is signed out. A deactivation by the
organization, and a password changed by its own user (`PATCH /me`), revoke no
refresh token; the platform's deactivation and other password changes do.

*Rows.* A bundle is exported table by table outside a transaction: exported while
the organization is written to, it may be refused on import or lack users, and
its import into another organization may leave rows that refer to users of the
first (`doubtful`). A user
with `credit_purchase_requests` cannot be deleted, though
`platformUserLifecycle.js:3-6` says references are cleared. Two overlapping
deletions can leave an organization without users.

*Setup.* A preference saved without its focus rule may contradict an existing one
although `SchedulingPages.jsx:257-260` says contradictions are blocked. Undoing
the removal of a teacher can give a class two class teachers and bring back
references to removed classes. Removing a period renumbers the rows, so fixed
rules denote other lessons; turning rows into breaks may leave a school without
a lesson row, which shows in the counts of the report. Removing the only class a
teacher is restricted to lets the teacher teach everywhere. Migration of a request drops fixed cells of
rows and days that are gone and switches the rule off when none is left, so the
preflight's error for that case is never reached through a generation and the
fixed placement is ignored in silence (`tenantStateMigration.js:127-142`).
`pruneTeacherDivisionRefs` would make a teacher of paused classes teach
everywhere if that teacher were class teacher of an active one; the editors do
not let this happen (`PausingNeverAdds`), imported states may.

## 6. Not modelled, and why

- The search of OR-Tools and its objective, the ranking formulas and quality
  profiles of the engine: the models take any choice they could make. The
  restart loop that keeps the best attempt is not modelled; each attempt is.
- PDF and spreadsheet exports (`exportService.js`), layout and filters of the
  React views, the pages of the creator console, e-mail, logging, configuration,
  scripts and deployment: output or wiring without protocol.
- The translation of a configuration into a solve request and of a response into
  entries field by field; the report of a timetable and its recomputation; the
  free-period fill of the engine. They read the board and change none of it.
- Older formats of a stored state are one flag (`migrated`), except for periods
  and rules, whose migration `SchoolSetup` follows.
- Role checks, rate limits, hashing and the contents of tokens.
- Single-row writes without a reader that depends on their order: platform
  settings, usage counters, role changes.

## 7. Plan

The modules of the plan are written and their safety properties proved; what is
left is a proof and two models.

1. The part of `GeneratedKeepsRules` that concerns double periods, as a property
   of the engine: which of its boards stand in pairs.
2. The restart loop of `engine.js` around `LegacyEngine`; a user moved between
   organizations in `OrgRows`, with access tokens that outlive the move.

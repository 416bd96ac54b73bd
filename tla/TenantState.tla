----------------------------- MODULE TenantState -----------------------------
(***************************************************************************)
(* The configuration of an organization, kept twice: in the memory of each *)
(* tab and in the row tenant_state.  A tab loads the row when its user     *)
(* signs in, saves its memory half a second after every change, sends its  *)
(* memory along with a generation, and saves once more before it signs     *)
(* out.  The server rewrites a row that needs migrating when it is loaded, *)
(* and a generation stores the configuration it was sent.                  *)
(*                                                                         *)
(* The tabs belong to one browser: they share the stored tokens, so a      *)
(* request carries the organization that signed in last.  A step is one    *)
(* event of a tab, or the part of a request between two awaits.  On SQLite *)
(* all requests share one connection: what any request writes while a      *)
(* transaction is open is part of that transaction.                        *)
(***************************************************************************)
EXTENDS Integers, FiniteSets, FiniteSetsExt

CONSTANTS
    Tabs, Orgs,
    Seed,           \* origin of the sample data a page starts with
    NoOrg,          \* nobody is signed in
    NoTab,          \* the sender has gone, or has given up waiting
    Clients,        \* values of DB_CLIENT that are considered
    Budgets         \* bounds: how many sign-ins, edits, generations and faults may
                    \* happen, and how many saves may be on their way at a time

ASSUME TenantAssumption ==
    /\ Seed \notin Orgs /\ NoOrg \notin Orgs /\ NoTab \notin Tabs
    /\ Clients \subseteq {"sqlite", "postgres"}
    /\ Budgets \subseteq [signIns : Nat, edits : Nat, gens : Nat, faults : Nat, saves : Nat]

\* a configuration: whose data it was made from, its last edit, and whether
\* that edit left a subject paused
Copies == [from : Orgs \cup {Seed}, edit : Nat, paused : BOOLEAN]

VARIABLES
    client,     \* DB_CLIENT
    row,        \* tenant_state: the configuration, and whether it needs no migration
    stored,     \* timetable_runs: the organization of each run and the configuration
                \* it was made from
    deleted,    \* history variable: the runs that imports have deleted
    begun,      \* SQLite: the open transaction and what a rollback returns to
    token,      \* the organization of the tokens in the browser's storage
    tab,        \* the state of each page
    puts,       \* saves on their way
    loads,      \* loads under way
    gens,       \* generations under way
    left        \* how many events of each kind may still happen

server == <<client, row, stored, deleted, begun>>
requests == <<puts, loads, gens>>
vars == <<server, token, tab, requests, left>>

NoTransaction == [by |-> 0, row |-> <<>>, stored |-> {}]

\* faulty variant of Parsed: a field the schema does not name is gone for good
ParsedWithout(copy) == [from |-> copy.from, edit |-> copy.edit]

\* tenantStateSchema keeps the fields it names: subjectSchema does not name
\* schedulingPaused
Parsed(copy) == [copy EXCEPT !.paused = FALSE]

\* migrateTenantState, whose result needs no migration
Migrated(data) == [data |-> data, migrated |-> TRUE]

Sample == [from |-> Seed, edit |-> 0, paused |-> FALSE]

\* a page that has just been opened; history: "unloaded" and "loaded" tell of
\* its first session, "later" follows a failed load or the end of a session
Fresh == [org |-> NoOrg, mem |-> Sample, hydrated |-> FALSE, timer |-> FALSE,
          history |-> "unloaded", leaving |-> FALSE, kept |-> TRUE]

Init ==
    /\ client \in Clients
    /\ row = [o \in Orgs |-> Migrated([from |-> o, edit |-> 0, paused |-> FALSE])]
    /\ stored = {} /\ deleted = {}
    /\ begun = NoTransaction
    /\ token = NoOrg
    /\ tab = [t \in Tabs |-> Fresh]
    /\ puts = {} /\ loads = {} /\ gens = {}
    /\ left \in Budgets

May(event) == left[event] > 0 /\ left' = [left EXCEPT ![event] = @ - 1]

\* a number no configuration has had so far
NewEdit == left.edits + 10 * left.faults

SignedIn(t) == tab[t].org # NoOrg

\* the autosave effect runs again: a pending timer is replaced
Rearmed(page) == [page EXCEPT !.timer = page.org # NoOrg /\ page.hydrated]

\* somebody else wrote the row of o: what a tab saved there may be gone
Overwritten(pages, o, author) ==
    [t \in Tabs |-> IF pages[t].org = o /\ t # author
                    THEN [pages[t] EXCEPT !.kept = FALSE] ELSE pages[t]]

-----------------------------------------------------------------------------
(* Faulty variants of the definitions below, one for each property.        *)

\* the page counts as hydrated as soon as the user is signed in
SignInHydrated(t, o) ==
    /\ May("signIns") /\ ~ SignedIn(t)
    /\ token' = o
    /\ tab' = [tab EXCEPT ![t] = Rearmed([@ EXCEPT !.org = o, !.hydrated = TRUE])]
    /\ loads' = loads \cup {[id |-> left.signIns, tab |-> t, stage |-> "asked",
                             org |-> NoOrg, data |-> Sample]}
    /\ UNCHANGED <<server, puts, gens>>

\* a BEGIN that fails is rolled back like any other failure
RefusedWithRollback ==
    /\ begun' = NoTransaction
    /\ row' = begun.row /\ stored' = begun.stored
    /\ UNCHANGED <<client, deleted>>

\* the answer of a generation does not run the autosave effect
AnsweredQuietly(page) == page

-----------------------------------------------------------------------------
(* The page *)

\* handleAuth and bootstrapSession: the user is known before the state is
SignIn(t, o) ==
    /\ May("signIns") /\ ~ SignedIn(t)
    /\ token' = o
    /\ tab' = [tab EXCEPT ![t] = Rearmed([@ EXCEPT !.org = o])]
    /\ loads' = loads \cup {[id |-> left.signIns, tab |-> t, stage |-> "asked",
                             org |-> NoOrg, data |-> Sample]}
    /\ UNCHANGED <<server, puts, gens>>

\* applyTenantState; the answer is used whoever is signed in by then
TakeState(l) ==
    /\ l.stage = "answered"
    /\ LET page == [tab[l.tab] EXCEPT !.mem = l.data,
                                      !.history = IF @ = "unloaded" THEN "loaded" ELSE @]
       IN  tab' = [tab EXCEPT ![l.tab] = Rearmed(page)]
    /\ loads' = (loads \ {l}) \cup {[l EXCEPT !.stage = "latest"]}
    /\ UNCHANGED <<server, token, puts, gens, left>>

\* a failed load is ignored, and so is a failed answer for the latest run
LoadFails(l) ==
    /\ l.stage # "latest"
    /\ \/ token # NoOrg /\ May("faults")
       \/ token = NoOrg /\ UNCHANGED left
    /\ loads' = (loads \ {l}) \cup {[l EXCEPT !.stage = "latest"]}
    /\ tab' = [tab EXCEPT ![l.tab].history = "later"]
    /\ UNCHANGED <<server, token, puts, gens>>

\* the latest run is in, or not to be had: the page is hydrated
TakeLatest(l) ==
    /\ l.stage = "latest"
    /\ tab' = [tab EXCEPT ![l.tab] = Rearmed([@ EXCEPT !.hydrated = TRUE])]
    /\ loads' = loads \ {l}
    /\ UNCHANGED <<server, token, puts, gens, left>>

\* any change in an editor; here one that pauses or resumes a subject
Edit(t) ==
    /\ May("edits") /\ SignedIn(t)
    /\ LET page == [tab[t] EXCEPT !.mem.edit = NewEdit, !.mem.paused = ~ @]
       IN  tab' = [tab EXCEPT ![t] = Rearmed(page)]
    /\ UNCHANGED <<server, token, requests>>

\* saves are numbered in the order they are sent
NextId == 1 + Max({0} \cup {p.id : p \in puts})

SendsState(t, data, isLast) ==
    /\ Cardinality(puts) < left.saves
    /\ puts' = puts \cup {[id |-> NextId, tab |-> t, org |-> token, data |-> data,
                            last |-> isLast]}

\* saveTenantStateNow: the school page sends its edit at once, without waiting
\* for the load; the autosave follows as after any edit
SaveSetup(t) ==
    /\ May("edits") /\ SignedIn(t)
    /\ LET page == [tab[t] EXCEPT !.mem.edit = NewEdit]
       IN  /\ IF token # NoOrg THEN SendsState(t, page.mem, FALSE) ELSE UNCHANGED puts
           /\ tab' = [tab EXCEPT ![t] = Rearmed([page EXCEPT !.kept = token = page.org])]
    /\ UNCHANGED <<server, token, loads, gens>>

\* the timer of the autosave fires
Autosave(t) ==
    /\ tab[t].timer /\ token # NoOrg
    /\ SendsState(t, tab[t].mem, FALSE)
    /\ tab' = [tab EXCEPT ![t].timer = FALSE, ![t].kept = token = tab[t].org]
    /\ UNCHANGED <<server, token, loads, gens, left>>

\* without tokens the save fails, which is swallowed and not retried
AutosaveFails(t) ==
    /\ tab[t].timer /\ token = NoOrg
    /\ tab' = [tab EXCEPT ![t].timer = FALSE, ![t].kept = FALSE]
    /\ UNCHANGED <<server, token, requests, left>>

\* logout saves, waits for the answer or the failure of that, and signs out
LogoutSaves(t) ==
    /\ SignedIn(t) /\ ~ tab[t].leaving
    /\ IF token # NoOrg THEN SendsState(t, tab[t].mem, TRUE) ELSE UNCHANGED puts
    /\ tab' = [tab EXCEPT ![t].leaving = TRUE]
    /\ UNCHANGED <<server, token, loads, gens, left>>

LogoutSignsOut(t) ==
    /\ tab[t].leaving /\ \A p \in puts : ~ (p.tab = t /\ p.last)
    /\ token' = NoOrg
    /\ tab' = [tab EXCEPT ![t].org = NoOrg, ![t].timer = FALSE, ![t].history = "later",
                          ![t].leaving = FALSE]
    /\ UNCHANGED <<server, requests, left>>

\* schooltime:auth-expired: the memory stays, and the page counts as hydrated
Expire(t) ==
    /\ SignedIn(t)
    /\ \/ token # NoOrg /\ May("faults")
       \/ token = NoOrg /\ UNCHANGED left
    /\ token' = NoOrg
    /\ tab' = [tab EXCEPT ![t].org = NoOrg, ![t].timer = FALSE, ![t].history = "later",
                          ![t].leaving = FALSE, ![t].hydrated = TRUE]
    /\ UNCHANGED <<server, requests>>

\* the page is loaded anew; what it asked for goes on without it
Reload(t) ==
    /\ May("faults")
    /\ tab' = [tab EXCEPT ![t] = Fresh]
    /\ loads' = {l \in loads : l.tab # t}
    /\ puts' = {IF p.tab = t THEN [p EXCEPT !.tab = NoTab] ELSE p : p \in puts}
    /\ gens' = {IF g.tab = t THEN [g EXCEPT !.tab = NoTab] ELSE g : g \in gens}
    /\ UNCHANGED <<server, token>>

\* generateTimetable
Generate(t) ==
    /\ May("gens") /\ SignedIn(t) /\ token # NoOrg
    /\ \A g \in gens : g.tab # t
    /\ gens' = gens \cup {[id |-> left.gens, tab |-> t, org |-> token, asked |-> tab[t].mem,
                           stage |-> "asked"]}
    /\ tab' = [tab EXCEPT ![t] = Rearmed(@)]
    /\ UNCHANGED <<server, token, puts, loads>>

\* the status of the page, and so the state it would save, changes
Answered(page) == Rearmed(page)

GenerationAnswered(g) ==
    /\ g.stage \in {"done", "failed"}
    /\ gens' = gens \ {g}
    /\ tab' = IF g.tab = NoTab THEN tab ELSE [tab EXCEPT ![g.tab] = Answered(@)]
    /\ UNCHANGED <<server, token, puts, loads, left>>

\* the connection breaks: to the page the generation has failed
GenerationLost(g) ==
    /\ g.tab # NoTab /\ May("faults")
    /\ gens' = (gens \ {g}) \cup {[g EXCEPT !.tab = NoTab]}
    /\ tab' = [tab EXCEPT ![g.tab] = Answered(@)]
    /\ UNCHANGED <<server, token, puts, loads>>

-----------------------------------------------------------------------------
(* The server *)

\* migrateTenantState finds something to change
NeedsMigration(r) == ~ r.migrated

\* GET /state: the row is read
ReadState(l) ==
    /\ l.stage = "asked" /\ token # NoOrg
    /\ loads' = (loads \ {l}) \cup
                {[l EXCEPT !.org = token, !.data = row[token].data,
                           !.stage = IF NeedsMigration(row[token]) THEN "migrating" ELSE "answered"]}
    /\ UNCHANGED <<server, token, tab, puts, gens, left>>

\* ... and written back, whatever it holds by now
WriteBack(l) ==
    /\ l.stage = "migrating"
    /\ row' = [row EXCEPT ![l.org] = Migrated(l.data)]
    /\ tab' = Overwritten(tab, l.org, l.tab)
    /\ loads' = (loads \ {l}) \cup {[l EXCEPT !.stage = "answered"]}
    /\ UNCHANGED <<client, stored, deleted, begun, token, puts, gens, left>>

\* PUT /state
ProcessPut(p) ==
    /\ row' = [row EXCEPT ![p.org] = [data |-> Parsed(p.data), migrated |-> FALSE]]
    /\ LET pages == Overwritten(tab, p.org, p.tab)
           overtakes == \E q \in puts : q.tab = p.tab /\ q.id < p.id
       IN  tab' = IF overtakes /\ p.tab # NoTab
                  THEN [pages EXCEPT ![p.tab].kept = FALSE] ELSE pages
    /\ puts' = puts \ {p}
    /\ UNCHANGED <<client, stored, deleted, begun, token, loads, gens, left>>

LosePut(p) ==
    /\ May("faults")
    /\ puts' = puts \ {p}
    /\ tab' = IF p.tab = NoTab THEN tab ELSE [tab EXCEPT ![p.tab].kept = FALSE]
    /\ UNCHANGED <<server, token, loads, gens>>

Stage(g, stage) == gens' = (gens \ {g}) \cup {[g EXCEPT !.stage = stage]}

\* BEGIN inside a transaction throws, and nothing catches it in the database layer
Refused == UNCHANGED server

\* db.transaction begins: Postgres takes a connection of its own
Begin(g) ==
    /\ g.stage = "asked"
    /\ \/ /\ client = "postgres"
          /\ Stage(g, "running") /\ UNCHANGED server
       \/ /\ client = "sqlite" /\ begun.by = 0
          /\ begun' = [by |-> g.id, row |-> row, stored |-> stored]
          /\ Stage(g, "running") /\ UNCHANGED <<client, row, stored, deleted>>
       \/ /\ client = "sqlite" /\ begun.by # 0
          /\ Stage(g, "failed") /\ Refused
    /\ UNCHANGED <<token, tab, puts, loads, left>>

\* the run and the configuration are written and the transaction is committed;
\* with no transaction open each write stands by itself and COMMIT throws
Commit(g) ==
    /\ g.stage = "running"
    /\ row' = [row EXCEPT ![g.org] = [data |-> Parsed(g.asked), migrated |-> FALSE]]
    /\ stored' = stored \cup {[id |-> g.id, org |-> g.org, data |-> Parsed(g.asked)]}
    /\ begun' = NoTransaction
    /\ Stage(g, IF client = "sqlite" /\ begun.by = 0 THEN "failed" ELSE "done")
    /\ tab' = Overwritten(tab, g.org, g.tab)
    /\ UNCHANGED <<client, deleted, token, puts, loads, left>>

\* the engine or a statement throws
Rollback(g) ==
    /\ g.stage = "running" /\ May("faults")
    /\ \/ /\ client = "postgres" \/ begun.by = 0
          /\ UNCHANGED <<server, tab>>
       \/ /\ client = "sqlite" /\ begun.by # 0
          /\ row' = begun.row /\ stored' = begun.stored /\ begun' = NoTransaction
          /\ tab' = [t \in Tabs |->
                       IF t # g.tab /\ tab[t].org \in {o \in Orgs : row'[o].data # row[o].data}
                       THEN [tab[t] EXCEPT !.kept = FALSE] ELSE tab[t]]
          /\ UNCHANGED <<client, deleted>>
    /\ Stage(g, "failed")
    /\ UNCHANGED <<token, puts, loads>>

\* a timetable_setup bundle replaces the configuration with what it carries;
\* the runs of the organization, which were made from another, are deleted
Import(o) ==
    /\ May("faults") /\ begun.by = 0
    /\ row' = [row EXCEPT ![o] = [data |-> [from |-> o, edit |-> NewEdit,
                                            paused |-> FALSE],
                                  migrated |-> FALSE]]
    /\ LET itsRuns == {r \in stored : r.org = o}
       IN  stored' = stored \ itsRuns /\ deleted' = deleted \cup itsRuns
    /\ tab' = Overwritten(tab, o, NoTab)
    /\ UNCHANGED <<client, begun, token, requests>>

\* the server stops and starts: requests are cut, and every row is migrated
Restart ==
    /\ May("faults")
    /\ LET back == IF begun.by # 0 THEN begun ELSE [row |-> row, stored |-> stored]
       IN  /\ row' = [o \in Orgs |-> Migrated(back.row[o].data)]
           /\ stored' = back.stored
    /\ begun' = NoTransaction
    /\ gens' = {[g EXCEPT !.stage = "failed"] : g \in {h \in gens : h.stage # "done"}}
                \cup {g \in gens : g.stage = "done"}
    /\ puts' = {}
    /\ loads' = {IF l.stage = "migrating" THEN [l EXCEPT !.stage = "latest"] ELSE l : l \in loads}
    /\ tab' = [t \in Tabs |->
                 [tab[t] EXCEPT
                    !.kept = @ /\ (\A p \in puts : p.tab # t)
                               /\ (SignedIn(t) => row'[tab[t].org].data = row[tab[t].org].data),
                    !.history = IF \E l \in loads : l.tab = t /\ l.stage = "migrating"
                                THEN "later" ELSE @]]
    /\ UNCHANGED <<client, deleted, token>>

Page(t) ==
    \/ Edit(t) \/ SaveSetup(t) \/ Autosave(t) \/ AutosaveFails(t) \/ LogoutSaves(t) \/ LogoutSignsOut(t)
    \/ Expire(t) \/ Reload(t) \/ Generate(t)
    \/ \E o \in Orgs : SignIn(t, o)

Loading(l) ==
    ReadState(l) \/ WriteBack(l) \/ TakeState(l) \/ TakeLatest(l) \/ LoadFails(l)

Generating(g) ==
    Begin(g) \/ Commit(g) \/ Rollback(g) \/ GenerationAnswered(g) \/ GenerationLost(g)

Next ==
    \/ \E t \in Tabs : Page(t)
    \/ \E l \in loads : Loading(l)
    \/ \E p \in puts : ProcessPut(p) \/ LosePut(p)
    \/ \E g \in gens : Generating(g)
    \/ \E o \in Orgs : Import(o)
    \/ Restart

Spec == Init /\ [][Next]_vars
-----------------------------------------------------------------------------
(* Properties *)

\* the variables have their types: in particular no two requests of a kind
\* share an identity, and a transaction is open only on SQLite
TypeOK ==
    LET Rows == [Orgs -> [data : Copies, migrated : BOOLEAN]]
        Runs == [id : Nat, org : Orgs, data : Copies]
        Owner == Tabs \cup {NoTab}
    IN  /\ client \in Clients
        /\ row \in Rows /\ stored \subseteq Runs /\ deleted \subseteq Runs
        /\ \/ begun = NoTransaction
           \/ client = "sqlite" /\ begun \in [by : Nat \ {0}, row : Rows, stored : SUBSET Runs]
        /\ token \in Orgs \cup {NoOrg}
        /\ tab \in [Tabs -> [org : Orgs \cup {NoOrg}, mem : Copies, hydrated : BOOLEAN,
                             timer : BOOLEAN, history : {"unloaded", "loaded", "later"},
                             leaving : BOOLEAN, kept : BOOLEAN]]
        /\ puts \subseteq [id : Nat, tab : Owner, org : Orgs, data : Copies, last : BOOLEAN]
        /\ loads \subseteq [id : Nat, tab : Tabs, stage : {"asked", "migrating", "answered", "latest"},
                            org : Orgs \cup {NoOrg}, data : Copies]
        /\ gens \subseteq [id : Nat, tab : Owner, org : Orgs, asked : Copies,
                           stage : {"asked", "running", "done", "failed"}]
        /\ left \in [signIns : Nat, edits : Nat, gens : Nat, faults : Nat, saves : Nat]
        /\ \A set \in {puts, loads, gens} : \A x \in set : \A y \in set : x.id = y.id => x = y

\* A page that has only ever had one session, whose load did not fail, does
\* not save before that load is in: the sample data it starts with does not
\* replace what is stored.
AutosaveWaitsForLoad ==
    \A t \in Tabs : tab[t].timer => tab[t].history # "unloaded"

\* A generation is answered with a timetable exactly when its run was stored
\* for good, whatever other generations, on the same connection or not, do
\* meanwhile: its run is there until an import deletes it, and a run that an
\* import deleted does not come back.
AnswersMatchRuns ==
    /\ \A g \in gens :
         g.stage = "done" <=> \E r \in stored \cup deleted : r.id = g.id
    /\ stored \cap deleted = {}

Resting(t) ==
    /\ SignedIn(t) /\ tab[t].hydrated /\ ~ tab[t].timer /\ ~ tab[t].leaving
    /\ \A x \in puts \cup loads \cup gens : x.tab # t

\* When a tab has nothing under way, what it shows is what is stored, unless
\* after its last save somebody else wrote the row or that save was lost or
\* overtaken: a generation that stores an older state, a load that writes
\* back what it read, or a transaction that takes a save back with it, is
\* followed by another save.
EditsKept ==
    \A t \in Tabs :
        Resting(t) /\ tab[t].kept => row[tab[t].org].data = Parsed(tab[t].mem)
=============================================================================

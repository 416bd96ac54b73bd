------------------------------- MODULE OrgRows -------------------------------
(***************************************************************************)
(* The rows of the organizations and the references between them: what the *)
(* platform exports as a bundle, imports, purges and deletes, while the    *)
(* organizations go on working.                                            *)
(*                                                                         *)
(* A row has an identity, the organization it is of, the user it refers    *)
(* to, and a datum.  A step is a request, but an export is a series of     *)
(* reads, one for each table, and a user is deleted in two steps: what the *)
(* transaction reads (READ COMMITTED), and what it writes.  The statements *)
(* of a purge or an import are applied one by one, each against the        *)
(* primary and foreign keys.                                               *)
(***************************************************************************)
EXTENDS Integers, FiniteSets, Sequences, Functions

CONSTANTS
    Orgs, Users, Emails,
    NoUser,         \* user_id IS NULL
    NoOrg,          \* no export under way, no bundle at hand
    AuditLimit,     \* 5000, the audit rows of a bundle
    ErrorLimit,     \* MAX_ERROR_LOG_ROWS
    Credits,        \* initialCredits of a registration
    Budgets         \* bounds: how many organizations and users are added, rows
                    \* written by users, and requests of the platform made

ASSUME RowsAssumption ==
    /\ NoUser \notin Users \cup Orgs /\ NoOrg \notin Orgs
    /\ Orgs \cap Users = {} /\ \A x \in Orgs \cup Users : x \notin Nat
    /\ {AuditLimit, ErrorLimit} \subseteq Nat \ {0} /\ Credits \in Nat
    /\ Budgets \subseteq [orgs : Nat, users : Nat, writes : Nat, platform : Nat]

\* the tables in the order they are exported and filled again
Exported == <<"orgs", "users", "licenses", "ledger", "state", "runs", "audit", "keys",
              "requests", "errors">>

\* the order they are emptied in; tokens are refresh_tokens and password_reset_tokens
DeletionOrder == <<"tokens", "keys", "runs", "requests", "ledger", "state", "errors",
                   "licenses", "audit", "users", "orgs">>

Tables == Range(DeletionOrder)

VARIABLES
    rows,       \* the database
    issued,     \* identities given out so far, in the order of created_at
    used,       \* organizations, users and addresses that have had a row
    export,     \* the export under way; history: its start, and whether it is torn:
                \* of an organization written to since, or doubtful from the start
    file,       \* the bundle at hand
    deleting,   \* deletions of users that have read and not yet written;
                \* history: whether what they read has changed since
    last,       \* history: the last request of the platform, and how it ended
    doubtful,   \* history: organizations where such a changed deletion went on, or
                \* into which a torn bundle was imported
    left        \* how many events of each kind may still happen

vars == <<rows, issued, used, export, file, deleting, last, doubtful, left>>

Row(id, o, by, data) == [id |-> id, org |-> o, by |-> by, data |-> data]

Ids(table) == {r.id : r \in table}

Of(db, o) == [t \in Tables |-> {r \in db[t] : r.org = o}]

UsersOf(o) == {r \in rows["users"] : r.org = o}

With(db, t, r) == [db EXCEPT ![t] = @ \cup {r}]

\* writeCreditLedger with the update of the license
Charged(db, o, delta, id) ==
    With([db EXCEPT !["licenses"] = {IF r.org = o THEN [r EXCEPT !.data = @ + delta] ELSE r : r \in @}],
         "ledger", Row(id, o, NoUser, delta))

\* the update of tenant_state; its datum is the save it is from, 0 for the sample
\* data of a registration, -1 for an empty state
Saved(db, o, id) ==
    [db EXCEPT !["state"] = {IF r.org = o THEN [r EXCEPT !.data = id] ELSE r : r \in @}]

-----------------------------------------------------------------------------
(* Statements, and a transaction of them *)

\* a foreign key that holds in no row: error rows have none
Dangling(db) ==
    \E t \in Tables \ {"orgs", "errors"} : \E r \in db[t] :
        r.org \notin Ids(db["orgs"]) \/ r.by \notin Ids(db["users"]) \cup {NoUser}

\* the tables dealt with by the first n statements of a transaction
First(n, order) == {order[k] : k \in 1..n}

\* randomUUID; which of the identities not used so far it is does not matter
Fresh(x, all) == all \ used # {} /\ x = CHOOSE y \in all \ used : TRUE

May(event) == left[event] > 0 /\ left' = [left EXCEPT ![event] = @ - 1]

-----------------------------------------------------------------------------
(* Faulty variants of the definitions below, one for each property.        *)

\* an address is not looked for among the users there are
EmailUnchecked(email) == email \in used \/ Fresh(email, Emails)

\* the users go before the rows that refer to them
EmptiedUsersFirst(db, o, n) ==
    LET gone == First(n, <<"tokens", "keys", "runs", "requests", "ledger", "state", "errors",
                           "licenses", "users", "audit", "orgs">>)
    IN  [t \in Tables |-> IF t \in gone THEN {r \in db[t] : r.org # o} ELSE db[t]]

\* any active user will do
ActiveAnywhere(u) == {r \in rows["users"] : r.id # u.id /\ r.data.active}

\* the newest rows are taken
TakenNewest(t, table) ==
    LET limit == CASE t = "audit" -> AuditLimit [] t = "errors" -> ErrorLimit [] OTHER -> Cardinality(table)
    IN  {r \in table : Cardinality({s \in table : s.id > r.id}) < limit}

-----------------------------------------------------------------------------
(* What the organizations do *)

\* the rows become db, which changes those of the organizations at
Write(at, db) ==
    /\ rows' = db
    /\ export' = IF export.org \in at THEN [export EXCEPT !.torn = TRUE] ELSE export

\* a request of a user of o
UserWrites(o, db) ==
    /\ Write({o}, db)
    /\ issued' = issued + 1
    /\ last' = [op |-> "other", org |-> o, why |-> "ok"]
    /\ UNCHANGED <<used, file, deleting, doubtful>>

Audited(db, o, by) == With(db, "audit", Row(issued + 1, o, by, "event"))

\* createOrgWithOwnerUser
Registered(db, o, u, email) ==
    LET made == With(With(With(With(db, "orgs", Row(o, o, NoUser, "name")),
                     "users", Row(u, o, NoUser, [email |-> email, active |-> TRUE])),
                     "licenses", Row(o, o, NoUser, Credits)),
                     "state", Row(o, o, NoUser, 0))
        paid == IF Credits = 0 THEN made ELSE With(made, "ledger", Row(issued + 1, o, NoUser, Credits))
    IN  Audited(paid, o, u)

\* an address that has been used before, or, again whichever, one that has not
EmailIsFree(email) ==
    /\ \A r \in rows["users"] : r.data.email # email
    /\ email \in used \/ Fresh(email, Emails)

RegisterOrg(o, u, email) ==
    /\ May("orgs") /\ Fresh(o, Orgs) /\ Fresh(u, Users) /\ EmailIsFree(email)
    /\ Write({o}, Registered(rows, o, u, email))
    /\ issued' = issued + 1
    /\ used' = used \cup {o, u, email}
    /\ last' = [op |-> "other", org |-> o, why |-> "ok"]
    /\ UNCHANGED <<file, deleting, doubtful>>

\* POST /users
AddUser(by, u, email) ==
    /\ May("users") /\ by.data.active /\ Fresh(u, Users) /\ EmailIsFree(email)
    /\ Write({by.org}, Audited(With(rows, "users", Row(u, by.org, NoUser, [email |-> email, active |-> TRUE])),
                               by.org, by.id))
    /\ issued' = issued + 1
    /\ used' = used \cup {u, email}
    /\ last' = [op |-> "other", org |-> by.org, why |-> "ok"]
    /\ UNCHANGED <<file, deleting, doubtful>>

\* POST /timetable/generate
Generate(u) ==
    /\ May("writes")
    /\ \E r \in rows["licenses"] : r.org = u.org /\ r.data > 0
    /\ UserWrites(u.org, Audited(Saved(Charged(With(rows, "runs", Row(issued + 1, u.org, u.id, "run")),
                                       u.org, -1, issued + 1), u.org, issued + 1), u.org, u.id))

\* POST /license/purchase-requests
RequestCredits(u) ==
    /\ May("writes")
    /\ UserWrites(u.org, Audited(With(rows, "requests", Row(issued + 1, u.org, u.id, "pending")), u.org, u.id))

\* POST /api-keys
CreateKey(u) ==
    /\ May("writes")
    /\ UserWrites(u.org, Audited(With(rows, "keys", Row(issued + 1, u.org, u.id, "key")), u.org, u.id))

\* POST /auth/login
SignIn(u) ==
    /\ May("writes") /\ u.data.active
    /\ UserWrites(u.org, Audited(With(rows, "tokens", Row(issued + 1, u.org, u.id, "token")), u.org, u.id))

\* a request that fails is logged, whether its organization is still there or not
LogError(o) ==
    /\ May("writes") /\ o \in used
    /\ UserWrites(o, With(rows, "errors", Row(issued + 1, o, NoUser, "error")))

\* PATCH /users/:id
SwitchActive(u) ==
    /\ May("writes")
    /\ UserWrites(u.org, Audited([rows EXCEPT !["users"] = (@ \ {u}) \cup {[u EXCEPT !.data.active = ~ @]}],
                                 u.org, u.id))

-----------------------------------------------------------------------------
(* The platform *)

Idle == [org |-> NoOrg, step |-> 0, rows |-> <<>>, start |-> <<>>, torn |-> FALSE]

Ended(op, o, why) == last' = [op |-> op, org |-> o, why |-> why]

\* ORDER BY created_at, LIMIT
Taken(t, table) ==
    LET limit == CASE t = "audit" -> AuditLimit [] t = "errors" -> ErrorLimit [] OTHER -> Cardinality(table)
    IN  {r \in table : Cardinality({s \in table : s.id < r.id}) < limit}

Limited(t) == t \in {"audit", "errors"}

Read(t, o) == IF Limited(t) THEN Taken(t, Of(rows, o)[t]) ELSE Of(rows, o)[t]

\* exportOrganizationBundle: the organization is read ...
ExportStart(o) ==
    /\ May("platform") /\ export.org = NoOrg
    /\ o \in Ids(rows["orgs"])
    /\ export' = [org |-> o, step |-> 2, start |-> Of(rows, o), torn |-> o \in doubtful,
                  rows |-> [t \in Tables |-> IF t = "orgs" THEN Read(t, o) ELSE {}]]
    /\ UNCHANGED <<rows, issued, used, file, deleting, last, doubtful>>

\* ... then one table after the other
ExportRead ==
    /\ export.org # NoOrg
    /\ LET t == Exported[export.step]
           next == [export EXCEPT !.rows[t] = Read(t, export.org), !.step = @ + 1]
       IN  IF export.step = Len(Exported)
           THEN file' = next /\ export' = Idle /\ Ended("export", export.org, "ok")
           ELSE export' = next /\ UNCHANGED <<file, last>>
    /\ UNCHANGED <<rows, issued, used, deleting, doubtful, left>>

\* deleteOrganizationDataInTransaction after its first n statements
Emptied(db, o, n) ==
    [t \in Tables |-> IF t \in First(n, DeletionOrder) THEN {r \in db[t] : r.org # o} ELSE db[t]]

OrgDeleted(o) ==
    [db  |-> Emptied(rows, o, Len(DeletionOrder)),
     why |-> IF \E n \in 1..Len(DeletionOrder) : Dangling(Emptied(rows, o, n))
             THEN "reference" ELSE "ok"]

\* deletions that have read the users of these organizations know less than there is
MarkedStale(ds, at) == {IF d.user.org \in at THEN [d EXCEPT !.stale = TRUE] ELSE d : d \in ds}

Purge(o) ==
    /\ May("platform") /\ o \in Ids(rows["orgs"])
    /\ LET tx == OrgDeleted(o)
       IN  /\ IF tx.why = "ok"
              THEN /\ Write({o}, tx.db)
                   /\ deleting' = MarkedStale(deleting, {o})
                   /\ doubtful' = doubtful \ {o}
              ELSE UNCHANGED <<rows, export, deleting, doubtful>>
           /\ Ended("purge", o, tx.why)
    /\ UNCHANGED <<issued, used, file>>

\* remapBundleOrganizationId
Remapped(r, o) == Row(IF r.id = file.org THEN o ELSE r.id, o, r.by, r.data)

\* what is written into a table; without a license or a state in the bundle, none of either is worth
Given(t, o) ==
    IF t \in {"licenses", "state"} /\ file.rows[t] = {}
    THEN {Row(o, o, NoUser, IF t = "licenses" THEN 0 ELSE -1)}
    ELSE {Remapped(r, o) : r \in file.rows[t]}

\* importOrganizationBundleInTransaction after it has filled the first n tables
Filled(db, o, n) ==
    [t \in Tables |-> IF t \in First(n, Exported) THEN db[t] \cup Given(t, o) ELSE db[t]]

\* asked before the organization is emptied
EmailsRegisteredElsewhere(o) ==
    \E r \in file.rows["users"], s \in rows["users"] : s.org # o /\ s.data.email = r.data.email

\* the first statement that is refused decides
BundleImported(o) ==
    LET emptied == OrgDeleted(o)
        twice == {n \in 1..Len(Exported) :
                     Ids(Given(Exported[n], o)) \cap Ids(emptied.db[Exported[n]]) # {}}
        loose == {n \in 1..Len(Exported) : Dangling(Filled(emptied.db, o, n))}
    IN  [db  |-> Filled(emptied.db, o, Len(Exported)),
         why |-> IF EmailsRegisteredElsewhere(o) THEN "email"
                 ELSE IF emptied.why # "ok" THEN emptied.why
                 ELSE IF \E n \in twice : \A m \in loose : n <= m THEN "id"
                 ELSE IF loose # {} THEN "reference"
                 ELSE "ok"]

\* a bundle of another organization is remapped, which that of a purged one cannot be
Import(o) ==
    /\ May("platform") /\ file.org # NoOrg
    /\ file.org = o \/ o \in Ids(rows["orgs"])
    /\ LET tx == BundleImported(o)
       IN  /\ IF tx.why = "ok"
              THEN /\ Write({o}, Audited(tx.db, o, NoUser))
                   /\ deleting' = MarkedStale(deleting, {o})
                   /\ doubtful' = IF file.torn THEN doubtful \cup {o} ELSE doubtful \ {o}
              ELSE UNCHANGED <<rows, export, deleting, doubtful>>
           /\ Ended("import", o, tx.why)
    /\ issued' = issued + 1
    /\ UNCHANGED <<used, file>>

\* deleteUserInTransaction counts the others of the organization ...
HasOthers(u) == \E r \in UsersOf(u.org) : r # u

\* ... and picks one of them who is active
Fallbacks(u) == {r \in UsersOf(u.org) : r # u /\ r.data.active}

DeleteRead(u) ==
    /\ May("platform") /\ HasOthers(u)
    /\ \E f \in Fallbacks(u) : deleting' = deleting \cup {[user |-> u, to |-> f.id, stale |-> FALSE]}
    /\ UNCHANGED <<rows, issued, used, export, file, last, doubtful>>

\* ... whose runs become those of the other one
UserDeleted(d) ==
    LET u == d.user.id
        own(t) == {r \in rows[t] : r.by = u}
        cleared == [rows EXCEPT !["tokens"] = @ \ own("tokens"), !["keys"] = @ \ own("keys"),
                                !["audit"] = {IF r.by = u THEN [r EXCEPT !.by = NoUser] ELSE r : r \in @}]
        moved == [cleared EXCEPT !["runs"] = {IF r.by = u /\ r.org = d.user.org
                                               THEN [r EXCEPT !.by = d.to] ELSE r : r \in @}]
        gone == [moved EXCEPT !["users"] = {r \in @ : r.id # u}]
        done == Audited(gone, d.user.org, NoUser)
    IN  [db |-> done, why |-> IF Dangling(moved) \/ Dangling(gone) \/ Dangling(done)
                              THEN "reference" ELSE "ok"]

\* the user may have come to another organization since, with an import
DeleteWrite(d) ==
    LET tx == UserDeleted(d)
        at == {d.user.org} \cup {r.org : r \in {s \in rows["users"] : s.id = d.user.id}}
    IN  /\ IF tx.why = "ok"
           THEN /\ Write(at, tx.db)
                /\ deleting' = MarkedStale(deleting \ {d}, at)
                /\ doubtful' = IF d.stale THEN doubtful \cup at ELSE doubtful
           ELSE deleting' = deleting \ {d} /\ UNCHANGED <<rows, export, doubtful>>
        /\ Ended("delete", d.user.org, tx.why)
        /\ issued' = issued + 1
        /\ UNCHANGED <<used, file, left>>

Platform(o) == ExportStart(o) \/ Purge(o) \/ Import(o)

ByUser(u) == Generate(u) \/ RequestCredits(u) \/ CreateKey(u) \/ SignIn(u) \/ SwitchActive(u)
             \/ DeleteRead(u)

Init ==
    /\ left \in Budgets
    /\ issued = 0
    /\ export = Idle /\ file = Idle
    /\ deleting = {} /\ doubtful = {} /\ used = {}
    /\ rows = [t \in Tables |-> {}]
    /\ last = [op |-> "other", org |-> NoOrg, why |-> "ok"]

Next ==
    \/ \E o \in Orgs : Platform(o) \/ LogError(o)
    \/ \E u \in rows["users"] : ByUser(u)
    \/ \E u \in Users, email \in Emails :
          \/ \E o \in Orgs : RegisterOrg(o, u, email)
          \/ \E by \in rows["users"] : AddUser(by, u, email)
    \/ ExportRead
    \/ \E d \in deleting : DeleteWrite(d)

Spec == Init /\ [][Next]_vars
-----------------------------------------------------------------------------
(* Properties *)

\* the variables have their types: in each table an identity is taken once, an
\* e-mail address among the users too, and the foreign keys hold
TypeOK ==
    /\ \A t \in Tables : Cardinality(Ids(rows[t])) = Cardinality(rows[t])
    /\ Cardinality({r.data.email : r \in rows["users"]}) = Cardinality(rows["users"])
    /\ ~ Dangling(rows)
    /\ export.org \in Orgs \cup {NoOrg} /\ file.org \in Orgs \cup {NoOrg}
    /\ \A d \in deleting : d.to \in Users /\ d.to # d.user.id

\* A row of one organization never refers to a user of another, which no
\* foreign key asks for, and an organization keeps a user, whatever is deleted,
\* reassigned, purged, exported and imported in between.  This holds unless
\* a user was deleted by a transaction that had counted others who are gone by
\* then, or the organization came with a bundle exported while it was written
\* to, or from such a one.
OrgsStayWhole ==
    /\ \A t \in Tables : \A r \in rows[t] :
          r.by # NoUser /\ r.org \notin doubtful =>
              \E u \in rows["users"] : u.id = r.by /\ u.org = r.org
    /\ \A o \in Ids(rows["orgs"]) \ doubtful : UsersOf(o) # {}

\* A purge is never refused, and neither is the import of a bundle for a
\* foreign key, unless the bundle is torn or rows of another, doubtful
\* organization refer to the users who go.
NothingDangles ==
    doubtful \subseteq {last.org} =>
        /\ last.op = "purge" => last.why = "ok"
        /\ last.op = "import" /\ ~ file.torn => last.why # "reference"

\* An import gives the organization back as it was when its bundle was
\* exported, in every table but for what the limits of the export leave out,
\* unless the organization was written to during the export.
RestoresWhole ==
    last.op = "import" /\ last.why = "ok" /\ ~ file.torn =>
        \A t \in Range(Exported) :
            LET was == {Remapped(r, last.org) : r \in file.start[t]}
                is == Of(rows, last.org)[t] \ {r \in rows["audit"] : r.id = issued}
                limit == CASE t = "audit" -> AuditLimit [] t = "errors" -> ErrorLimit
                           [] OTHER -> Cardinality(was)
            IN  /\ is \subseteq was
                /\ Cardinality(is) = IF Cardinality(was) < limit THEN Cardinality(was) ELSE limit
                /\ \A r \in is, s \in was \ is : r.id < s.id
=============================================================================

---------------------------- MODULE OrgRowsProofs ----------------------------
(***************************************************************************)
(* Proofs about the rows of the organizations.  A transaction is followed  *)
(* statement by statement: each keeps the tables sound (keys, references,  *)
(* what every organization has), and leaves the rows of organizations that *)
(* are not doubtful referring to their own users.  What is exported of an  *)
(* organization that nobody writes to meanwhile is one state of it, which  *)
(* is why its import neither fails for a reference nor loses a row.        *)
(***************************************************************************)
EXTENDS OrgRows, FiniteSetTheorems, TLAPS

Owned == {"orgs", "licenses", "state"}
Plain == Owned \cup {"users", "errors"}
Numbered == Tables \ (Owned \cup {"users"})

\* r may be a row of table t when n identities have been given out and the
\* organizations, users and addresses in seen have had a row
RowOK(t, r, n, seen) ==
    /\ r = Row(r.id, r.org, r.by, r.data)
    /\ r.org \in Orgs \cap seen
    /\ r.by \in Users \cup {NoUser}
    /\ t \in Owned => r.id = r.org
    /\ t = "users" => r.id \in Users \cap seen /\ r.data \in [email : Emails, active : BOOLEAN]
    /\ t \in Numbered => r.id \in 1..n
    /\ t \in Plain => r.by = NoUser

TableOK(t, table, n, seen) ==
    /\ IsFiniteSet(table)
    /\ \A r \in table : RowOK(t, r, n, seen)
    /\ \A r, s \in table : r.id = s.id => r = s
    /\ t = "users" => \A r, s \in table : r.data.email = s.data.email => r = s

TablesOK(db, n, seen) ==
    /\ db = [t \in Tables |-> db[t]]
    /\ \A t \in Tables : TableOK(t, db[t], n, seen)

Equipped(db) ==
    \A o \in Ids(db["orgs"]) : \A t \in {"licenses", "state"} : \E r \in db[t] : r.org = o

Sound(db, n, seen) == TablesOK(db, n, seen) /\ ~ Dangling(db) /\ Equipped(db)

Coherent(db, doubt) ==
    /\ \A t \in Tables : \A r \in db[t] :
          r.by # NoUser /\ r.org \notin doubt => \E u \in db["users"] : u.id = r.by /\ u.org = r.org
    /\ \A o \in Ids(db["orgs"]) \ doubt : \E u \in db["users"] : u.org = o

\* what is exported of a table
Part(t, table) == IF Limited(t) THEN Taken(t, table) ELSE table

\* the first k tables of f are what its start has of them
OfOneState(f, k) ==
    /\ Coherent(f.start, {})
    /\ \A t \in {"orgs", "users", "licenses", "state"} : f.start[t] # {}
    /\ \A j \in 1..k : f.rows[Exported[j]] = Part(Exported[j], f.start[Exported[j]])

BundleOK(f, k) ==
    /\ f.org \in Orgs \cap used
    /\ \A db \in {f.rows, f.start} :
          TablesOK(db, issued, used) /\ \A t \in Tables : \A r \in db[t] : r.org = f.org
    /\ f.rows["orgs"] # {}
    /\ f.torn \in BOOLEAN
    /\ ~ f.torn => OfOneState(f, k)

ExportOK ==
    export.org # NoOrg =>
        /\ DOMAIN export = {"org", "step", "rows", "start", "torn"}
        /\ export.step \in 2..Len(Exported)
        /\ BundleOK(export, export.step - 1)
        /\ ~ export.torn => export.org \notin doubtful /\ Of(rows, export.org) = export.start

FileOK == file.org # NoOrg => BundleOK(file, Len(Exported))

HasUser(db, id, o) == \E r \in db["users"] : r.id = id /\ r.org = o

DeletionOK(d) ==
    /\ DOMAIN d = {"user", "to", "stale"}
    /\ RowOK("users", d.user, issued, used)
    /\ d.to \in Users /\ d.to # d.user.id
    /\ d.stale \in BOOLEAN
    /\ ~ d.stale => HasUser(rows, d.user.id, d.user.org) /\ HasUser(rows, d.to, d.user.org)

DeletionsOK == \A d \in deleting : DeletionOK(d)

\* but for the entry of the import itself, the organization has the rows of the bundle
Restored ==
    last.op = "import" /\ last.why = "ok" /\ ~ file.torn =>
        /\ file.org # NoOrg /\ last.org \in Orgs
        /\ \A t \in Range(Exported) :
              Of(rows, last.org)[t] \ {r \in rows["audit"] : r.id = issued}
                  = {Remapped(r, last.org) : r \in file.rows[t]}

IInv ==
    /\ issued \in Nat
    /\ Sound(rows, issued, used)
    /\ Coherent(rows, doubtful)
    /\ ExportOK /\ FileOK /\ DeletionsOK
    /\ NothingDangles /\ Restored
-----------------------------------------------------------------------------
(* The tables, and rows added to one of them                               *)

LEMMA TablesAre ==
    /\ Tables = {"tokens", "keys", "runs", "requests", "ledger", "state", "errors", "licenses",
                 "audit", "users", "orgs"}
    /\ Len(DeletionOrder) = 11 /\ Len(Exported) = 10
    /\ \A k \in 1..11 : DeletionOrder[k] \in Tables
    /\ \A k \in 1..10 : Exported[k] \in Tables
    /\ First(11, DeletionOrder) = Tables
    /\ First(10, Exported) = Tables \ {"tokens"}
    /\ Range(Exported) = Tables \ {"tokens"}
<1>2. Len(DeletionOrder) = 11 /\ Len(Exported) = 10
  BY DEF DeletionOrder, Exported
<1>1. DOMAIN DeletionOrder = 1..11 /\ DOMAIN Exported = 1..10
  BY DEF DeletionOrder, Exported
<1>3. \A k \in 1..11 : k = 1 \/ k = 2 \/ k = 3 \/ k = 4 \/ k = 5 \/ k = 6 \/ k = 7 \/ k = 8
                       \/ k = 9 \/ k = 10 \/ k = 11
  OBVIOUS
<1>4. Tables = {DeletionOrder[k] : k \in 1..11} /\ Range(Exported) = {Exported[k] : k \in 1..10}
  BY <1>1 DEF Tables, Range
<1>5. {DeletionOrder[k] : k \in 1..11}
        = {"tokens", "keys", "runs", "requests", "ledger", "state", "errors", "licenses", "audit",
           "users", "orgs"}
  BY <1>3 DEF DeletionOrder
<1>6. {Exported[k] : k \in 1..10}
        = {"keys", "runs", "requests", "ledger", "state", "errors", "licenses", "audit",
           "users", "orgs"}
  BY <1>3 DEF Exported
<1> QED
  BY <1>2, <1>4, <1>5, <1>6 DEF First

LEMMA WithIs ==
    ASSUME NEW db, db = [t \in Tables |-> db[t]], NEW t \in Tables, NEW r
    PROVE  /\ With(db, t, r) = [x \in Tables |-> With(db, t, r)[x]]
           /\ With(db, t, r)[t] = db[t] \cup {r}
           /\ \A x \in Tables \ {t} : With(db, t, r)[x] = db[x]
BY DEF With

LEMMA Grown ==
    ASSUME NEW db, NEW n \in Nat, NEW seen, TablesOK(db, n, seen),
           NEW m \in Nat, n <= m, NEW more, seen \subseteq more
    PROVE  TablesOK(db, m, more)
<1>1. ASSUME NEW t, NEW r, RowOK(t, r, n, seen) PROVE RowOK(t, r, m, more)
  BY <1>1 DEF RowOK
<1> QED
  BY <1>1 DEF TablesOK, TableOK

LEMMA PartOK ==
    ASSUME NEW t, NEW table, NEW n, NEW seen, TableOK(t, table, n, seen), NEW part \in SUBSET table
    PROVE  TableOK(t, part, n, seen)
BY FS_Subset DEF TableOK

\* A row with a new identity and, among users, a new address is added.
LEMMA TableGrows ==
    ASSUME NEW t, NEW table, NEW n, NEW seen, TableOK(t, table, n, seen),
           NEW r, RowOK(t, r, n, seen), \A s \in table : s.id # r.id,
           t = "users" => \A s \in table : s.data.email # r.data.email
    PROVE  TableOK(t, table \cup {r}, n, seen)
<1>1. IsFiniteSet(table \cup {r})
  BY FS_AddElement DEF TableOK
<1> QED
  BY <1>1 DEF TableOK

\* The organization and the user a row refers to.
LEMMA References ==
    ASSUME NEW db, ~ Dangling(db), NEW t \in Tables \ {"orgs", "errors"}, NEW r \in db[t]
    PROVE  r.org \in Ids(db["orgs"]) /\ r.by \in Ids(db["users"]) \cup {NoUser}
BY DEF Dangling

LEMMA RowAdded ==
    ASSUME NEW db, NEW n, NEW seen, Sound(db, n, seen),
           NEW t \in Tables \ {"orgs"}, NEW r, RowOK(t, r, n, seen), \A s \in db[t] : s.id # r.id,
           t = "users" => \A s \in db[t] : s.data.email # r.data.email,
           t # "errors" => r.org \in Ids(db["orgs"]),
           r.by \in Ids(db["users"]) \cup {NoUser}
    PROVE  Sound(With(db, t, r), n, seen)
<1> DEFINE new == With(db, t, r)
<1>1. /\ new = [x \in Tables |-> new[x]] /\ new[t] = db[t] \cup {r}
      /\ \A x \in Tables \ {t} : new[x] = db[x]
  BY WithIs DEF Sound, TablesOK
<1> HIDE DEF new
<1>2. TablesOK(new, n, seen)
  <2>1. TableOK(t, db[t], n, seen)
    BY DEF Sound, TablesOK
  <2>2. TableOK(t, db[t] \cup {r}, n, seen)
    BY <2>1, TableGrows
  <2> QED
    BY <1>1, <2>2 DEF Sound, TablesOK
<1>3. /\ \A x \in Tables : db[x] \subseteq new[x]
      /\ new["orgs"] = db["orgs"]
      /\ {"orgs", "users", "licenses", "state"} \subseteq Tables
  BY <1>1, TablesAre
<1>4. ~ Dangling(new)
  <2> SUFFICES ASSUME NEW x \in Tables \ {"orgs", "errors"}, NEW s \in new[x]
               PROVE  s.org \in Ids(new["orgs"]) /\ s.by \in Ids(new["users"]) \cup {NoUser}
    BY DEF Dangling
  <2>1. Ids(db["users"]) \subseteq Ids(new["users"]) /\ Ids(db["orgs"]) = Ids(new["orgs"])
    BY <1>3 DEF Ids
  <2>2. CASE s \in db[x]
    BY <2>1, <2>2, References DEF Sound
  <2>3. CASE x = t /\ s = r
    BY <2>1, <2>3
  <2> QED
    BY <1>1, <2>2, <2>3
<1>5. Equipped(new)
  BY <1>3 DEF Equipped, Sound
<1> QED
  BY <1>2, <1>4, <1>5 DEF Sound, new

LEMMA CoherentAdded ==
    ASSUME NEW db, db = [x \in Tables |-> db[x]], NEW doubt, Coherent(db, doubt),
           NEW t \in Tables \ {"orgs"}, NEW r, r.by # NoUser => HasUser(db, r.by, r.org)
    PROVE  Coherent(With(db, t, r), doubt)
<1> DEFINE new == With(db, t, r)
<1>1. /\ new[t] = db[t] \cup {r} /\ \A x \in Tables \ {t} : new[x] = db[x]
      /\ {"orgs", "users"} \subseteq Tables
  BY WithIs, TablesAre
<1>2. new["orgs"] = db["orgs"] /\ db["users"] \subseteq new["users"]
  BY <1>1
<1> HIDE DEF new
<1>3. ASSUME NEW x \in Tables, NEW s \in new[x], s.by # NoUser, s.org \notin doubt
      PROVE  \E u \in new["users"] : u.id = s.by /\ u.org = s.org
  <2>1. CASE s \in db[x]
    BY <1>2, <1>3, <2>1 DEF Coherent
  <2>2. CASE x = t /\ s = r
    BY <1>2, <1>3, <2>2 DEF HasUser
  <2> QED
    BY <1>1, <2>1, <2>2
<1>4. ASSUME NEW o \in Ids(new["orgs"]) \ doubt PROVE \E u \in new["users"] : u.org = o
  BY <1>2 DEF Coherent
<1>5. Coherent(new, doubt)
  BY <1>3, <1>4 DEF Coherent
<1> QED
  BY <1>5 DEF new

-----------------------------------------------------------------------------
(* Rows of one table changed                                               *)

LEMMA RowExcept ==
    ASSUME NEW r, r = Row(r.id, r.org, r.by, r.data), NEW x
    PROVE  /\ [r EXCEPT !.data = x] = Row(r.id, r.org, r.by, x)
           /\ [r EXCEPT !.by = x] = Row(r.id, r.org, x, r.data)
BY DEF Row

LEMMA TableMapped ==
    ASSUME NEW t, NEW table, NEW n, NEW seen, TableOK(t, table, n, seen),
           NEW image, NEW h \in Surjection(table, image),
           \A r \in table : /\ RowOK(t, h[r], n, seen) /\ h[r].id = r.id
                            /\ t = "users" => h[r].data.email = r.data.email
    PROVE  TableOK(t, image, n, seen)
<1>1. IsFiniteSet(image)
  BY FS_Surjection DEF TableOK
<1>0. \A a \in image : \E r \in table : a = h[r]
  BY DEF Surjection
<1>2. ASSUME NEW a \in image PROVE RowOK(t, a, n, seen)
  BY <1>0
<1>3. ASSUME NEW a \in image, NEW b \in image,
             a.id = b.id \/ (t = "users" /\ a.data.email = b.data.email)
      PROVE  a = b
  <2>1. PICK r \in table : a = h[r]
    BY <1>0
  <2>2. PICK s \in table : b = h[s]
    BY <1>0
  <2>3. r.id = s.id \/ (t = "users" /\ r.data.email = s.data.email)
    <3>1. h[r].id = r.id /\ h[s].id = s.id
      OBVIOUS
    <3>2. t = "users" => h[r].data.email = r.data.email /\ h[s].data.email = s.data.email
      OBVIOUS
    <3>3. h[r].id = h[s].id \/ (t = "users" /\ h[r].data.email = h[s].data.email)
      BY <1>3, <2>1, <2>2
    <3>4. CASE h[r].id = h[s].id
      BY <3>1, <3>4
    <3>5. CASE t = "users" /\ h[r].data.email = h[s].data.email
      <4>1. h[r].data.email = r.data.email /\ h[s].data.email = s.data.email
        BY <3>2, <3>5
      <4> QED
        BY <3>5, <4>1
    <3> QED
      BY <3>3, <3>4, <3>5
  <2>4. r = s
    BY <2>3 DEF TableOK
  <2> QED
    BY <2>1, <2>2, <2>4
<1> QED
  BY <1>1, <1>2, <1>3 DEF TableOK

Replaced(new, db, t, table) == new = [db EXCEPT ![t] = table]

Image(h, table) == {h[r] : r \in table}

\* new is db with every row r of table t changed to h[r], which keeps its
\* identity, its organization and its address
Changes(new, db, t, h, n, seen) ==
    /\ h = [r \in db[t] |-> h[r]]
    /\ Replaced(new, db, t, Image(h, db[t]))
    /\ \A r \in db[t] : /\ RowOK(t, h[r], n, seen) /\ h[r].id = r.id /\ h[r].org = r.org
                        /\ t = "users" => h[r].data.email = r.data.email

LEMMA RowsMapped ==
    ASSUME NEW db, NEW n, NEW seen, TablesOK(db, n, seen), Equipped(db), NEW t \in Tables,
           NEW new, NEW h, Changes(new, db, t, h, n, seen)
    PROVE  /\ TablesOK(new, n, seen) /\ Equipped(new)
           /\ new[t] = Image(h, db[t]) /\ \A x \in Tables \ {t} : new[x] = db[x]
           /\ \A x \in Tables : Ids(new[x]) = Ids(db[x])
<1> DEFINE image == Image(h, db[t])
<1>0. /\ h \in Surjection(db[t], image)
      /\ \A r \in db[t] : /\ RowOK(t, h[r], n, seen) /\ h[r].id = r.id /\ h[r].org = r.org
                          /\ t = "users" => h[r].data.email = r.data.email
  BY DEF Changes, Surjection, Image
<1>1. /\ new = [x \in Tables |-> new[x]]
      /\ new[t] = image /\ \A x \in Tables \ {t} : new[x] = db[x]
  BY DEF TablesOK, Changes, Replaced
<1> HIDE DEF image
<1>2. TablesOK(new, n, seen)
  <2>1. TableOK(t, db[t], n, seen)
    BY DEF TablesOK
  <2>2. TableOK(t, image, n, seen)
    BY <1>0, <2>1, TableMapped
  <2> QED
    BY <1>1, <2>2 DEF TablesOK
<1>3. ASSUME NEW x \in Tables PROVE Ids(new[x]) = Ids(db[x])
  <2>1. Ids(image) = Ids(db[t])
    <3>1. \A i : i \in Ids(image) <=> \E a \in image : a.id = i
      BY DEF Ids
    <3>2. \A i : i \in Ids(db[t]) <=> \E r \in db[t] : r.id = i
      BY DEF Ids
    <3>3. \A r \in db[t] : h[r] \in image /\ h[r].id = r.id
      BY <1>0 DEF Surjection
    <3>4. \A a \in image : \E r \in db[t] : a = h[r]
      BY <1>0 DEF Surjection
    <3>5. ASSUME NEW i \in Ids(image) PROVE i \in Ids(db[t])
      <4>1. PICK r \in db[t] : h[r].id = i
        BY <3>1, <3>4
      <4> QED
        BY <3>2, <3>3, <4>1
    <3>6. ASSUME NEW i \in Ids(db[t]) PROVE i \in Ids(image)
      BY <3>1, <3>2, <3>3
    <3> QED
      BY <3>5, <3>6
  <2> QED
    BY <1>1, <2>1
<1>4. Equipped(new)
  <2> SUFFICES ASSUME NEW o \in Ids(new["orgs"]), NEW x \in {"licenses", "state"}
               PROVE  \E r \in new[x] : r.org = o
    BY DEF Equipped
  <2>1. PICK r \in db[x] : r.org = o
    BY <1>3, TablesAre DEF Equipped
  <2>2. CASE x = t
    <3>1. h[r] \in image /\ h[r].org = o
      BY <1>0, <2>1, <2>2 DEF Surjection
    <3> QED
      BY <1>1, <2>2, <3>1
  <2>3. CASE x # t
    BY <1>1, <2>1, <2>3, TablesAre
  <2> QED
    BY <2>2, <2>3
<1> QED
  BY <1>1, <1>2, <1>3, <1>4 DEF image

\* Rows that keep their organization and their user, or no longer refer to one.
LEMMA ChangedStays ==
    ASSUME NEW db, NEW n, NEW seen, Sound(db, n, seen), NEW doubt, Coherent(db, doubt),
           NEW t \in Tables, NEW new, NEW h, Changes(new, db, t, h, n, seen),
           \A r \in db[t] : h[r].by = r.by
    PROVE  /\ Sound(new, n, seen) /\ Coherent(new, doubt)
           /\ \A u \in db["users"] : HasUser(new, u.id, u.org)
           /\ new[t] = Image(h, db[t]) /\ \A x \in Tables \ {t} : new[x] = db[x]
           /\ \A x \in Tables : Ids(new[x]) = Ids(db[x])
<1>1. /\ TablesOK(new, n, seen) /\ Equipped(new)
      /\ new[t] = Image(h, db[t]) /\ \A x \in Tables \ {t} : new[x] = db[x]
      /\ \A x \in Tables : Ids(new[x]) = Ids(db[x])
  BY RowsMapped DEF Sound
<1>0. \A r \in db[t] : h[r].id = r.id /\ h[r].org = r.org
  BY DEF Changes
<1>2. ASSUME NEW x \in Tables, NEW a \in new[x]
      PROVE  \E r \in db[x] : a.id = r.id /\ a.org = r.org /\ a.by = r.by
  <2>1. CASE x = t
    <3>1. PICK r \in db[t] : a = h[r]
      BY <1>0, <1>1, <2>1 DEF Image
    <3> QED
      BY <1>0, <2>1, <3>1
  <2>2. CASE x # t
    BY <1>1, <2>2
  <2> QED
    BY <2>1, <2>2
<1>3. ASSUME NEW x \in Tables, NEW r \in db[x]
      PROVE  \E a \in new[x] : a.id = r.id /\ a.org = r.org
  <2>1. CASE x = t
    <3>1. h[r] \in new[t] /\ h[r].id = r.id /\ h[r].org = r.org
      BY <1>0, <1>1, <2>1 DEF Image
    <3> QED
      BY <2>1, <3>1
  <2>2. CASE x # t
    BY <1>1, <2>2
  <2> QED
    BY <2>1, <2>2
<1>4. {"orgs", "users"} \subseteq Tables
  BY TablesAre
<1>5. ~ Dangling(new)
  <2> SUFFICES ASSUME NEW x \in Tables \ {"orgs", "errors"}, NEW a \in new[x]
               PROVE  a.org \in Ids(new["orgs"]) /\ a.by \in Ids(new["users"]) \cup {NoUser}
    BY DEF Dangling
  <2>1. PICK r \in db[x] : a.org = r.org /\ a.by = r.by
    BY <1>2
  <2>2. r.org \in Ids(db["orgs"]) /\ r.by \in Ids(db["users"]) \cup {NoUser}
    BY References DEF Sound
  <2> QED
    BY <1>1, <1>4, <2>1, <2>2
<1>6. Coherent(new, doubt)
  <2>1. ASSUME NEW x \in Tables, NEW a \in new[x], a.by # NoUser, a.org \notin doubt
        PROVE  \E u \in new["users"] : u.id = a.by /\ u.org = a.org
    <3>1. PICK r \in db[x] : a.org = r.org /\ a.by = r.by
      BY <1>2
    <3>2. PICK u \in db["users"] : u.id = a.by /\ u.org = a.org
      BY <2>1, <3>1 DEF Coherent
    <3> QED
      BY <1>3, <1>4, <3>2
  <2>2. ASSUME NEW o \in Ids(new["orgs"]) \ doubt PROVE \E u \in new["users"] : u.org = o
    <3>1. PICK u \in db["users"] : u.org = o
      BY <1>1, <1>4 DEF Coherent
    <3> QED
      BY <1>3, <1>4, <3>1
  <2> QED
    BY <2>1, <2>2 DEF Coherent
<1>7. \A u \in db["users"] : HasUser(new, u.id, u.org)
  BY <1>3, <1>4 DEF HasUser
<1> QED
  BY <1>1, <1>5, <1>6, <1>7 DEF Sound

-----------------------------------------------------------------------------
(* What the users of an organization do                                    *)

\* new comes from db by statements about the organizations at
Advances(new, db, n, seen, doubt, at) ==
    /\ Sound(new, n, seen) /\ Coherent(new, doubt)
    /\ \A x \in Orgs \ at : Of(new, x) = Of(db, x)
    /\ \A u \in db["users"] : HasUser(new, u.id, u.org)

LEMMA OfIs ==
    ASSUME NEW db, NEW new, NEW o,
           \A t \in Tables : \A r : r.org = o => (r \in db[t] <=> r \in new[t])
    PROVE  Of(new, o) = Of(db, o)
<1>1. ASSUME NEW t \in Tables PROVE {r \in new[t] : r.org = o} = {r \in db[t] : r.org = o}
  OBVIOUS
<1> QED
  BY <1>1 DEF Of

LEMMA AdvancesTransitive ==
    ASSUME NEW a, NEW b, NEW c, NEW n, NEW seen, NEW doubt, NEW at,
           Advances(b, a, n, seen, doubt, at), Advances(c, b, n, seen, doubt, at)
    PROVE  Advances(c, a, n, seen, doubt, at)
<1>1. ASSUME NEW u \in a["users"] PROVE HasUser(c, u.id, u.org)
  <2>1. PICK v \in b["users"] : v.id = u.id /\ v.org = u.org
    BY DEF Advances, HasUser
  <2>2. HasUser(c, v.id, v.org)
    BY DEF Advances
  <2> QED
    BY <2>1, <2>2
<1> QED
  BY <1>1 DEF Advances

LEMMA AddedAdvances ==
    ASSUME NEW db, NEW n, NEW seen, Sound(db, n, seen), NEW doubt, Coherent(db, doubt),
           NEW t \in Tables \ {"orgs"}, NEW r, RowOK(t, r, n, seen), r.id \notin Ids(db[t]),
           t = "users" => \A s \in db[t] : s.data.email # r.data.email,
           t # "errors" => r.org \in Ids(db["orgs"]),
           r.by # NoUser => HasUser(db, r.by, r.org)
    PROVE  /\ Advances(With(db, t, r), db, n, seen, doubt, {r.org})
           /\ \A x \in Tables \ {t} : With(db, t, r)[x] = db[x]
<1> DEFINE new == With(db, t, r)
<1>1. /\ new[t] = db[t] \cup {r} /\ \A x \in Tables \ {t} : new[x] = db[x]
      /\ db = [x \in Tables |-> db[x]]
  BY WithIs DEF Sound, TablesOK
<1>2. Sound(new, n, seen)
  <2>1. \A s \in db[t] : s.id # r.id
    BY DEF Ids
  <2>2. r.by \in Ids(db["users"]) \cup {NoUser}
    BY DEF HasUser, Ids
  <2> QED
    BY <2>1, <2>2, RowAdded
<1>3. Coherent(new, doubt)
  BY <1>1, CoherentAdded
<1> HIDE DEF new
<1>4. ASSUME NEW x \in Orgs \ {r.org} PROVE Of(new, x) = Of(db, x)
  <2>1. \A y \in Tables : \A s : s.org = x => (s \in db[y] <=> s \in new[y])
    BY <1>1
  <2> QED
    BY <2>1, OfIs
<1>5. ASSUME NEW u \in db["users"] PROVE HasUser(new, u.id, u.org)
  BY <1>1, TablesAre DEF HasUser
<1>6. Advances(new, db, n, seen, doubt, {r.org})
  BY <1>2, <1>3, <1>4, <1>5 DEF Advances
<1> QED
  BY <1>1, <1>6 DEF new

LEMMA AuditedAdvances ==
    ASSUME NEW db, issued \in Nat, NEW seen, Sound(db, issued + 1, seen),
           NEW doubt, Coherent(db, doubt), issued + 1 \notin Ids(db["audit"]),
           NEW o, o \in Ids(db["orgs"]), o \in Orgs \cap seen,
           NEW by \in Users \cup {NoUser}, by # NoUser => HasUser(db, by, o)
    PROVE  Advances(Audited(db, o, by), db, issued + 1, seen, doubt, {o})
<1> DEFINE r == Row(issued + 1, o, by, "event")
<1>1. r.id = issued + 1 /\ r.org = o /\ r.by = by /\ r = Row(r.id, r.org, r.by, r.data)
  BY DEF Row
<1>2. "audit" \in Tables \ {"orgs"} /\ "audit" \notin Plain
  BY TablesAre DEF Plain, Owned
<1>3. RowOK("audit", r, issued + 1, seen)
  BY <1>1, <1>2 DEF RowOK, Owned
<1> HIDE DEF r
<1>4. Advances(With(db, "audit", r), db, issued + 1, seen, doubt, {r.org})
  BY <1>1, <1>2, <1>3, AddedAdvances
<1> QED
  BY <1>1, <1>4 DEF Audited, r

LEMMA NewIdentity ==
    ASSUME issued \in Nat, NEW seen, NEW db, TablesOK(db, issued, seen), NEW t \in Numbered
    PROVE  issued + 1 \notin Ids(db[t])
BY DEF TablesOK, TableOK, RowOK, Ids, Numbered

\* only tables of this set have changed
OnlyIn(tables, new, db) == \A x \in Tables \ tables : new[x] = db[x]

LEMMA UserIs ==
    ASSUME IInv, NEW u \in rows["users"]
    PROVE  /\ RowOK("users", u, issued, used)
           /\ u.org \in Orgs \cap used /\ u.id \in Users /\ u.by = NoUser
           /\ u.org \in Ids(rows["orgs"]) /\ HasUser(rows, u.id, u.org)
<1>1. "users" \in Tables \ {"orgs", "errors"} /\ "users" \in Tables /\ "users" \in Plain
  BY TablesAre DEF Plain
<1> QED
  BY <1>1, References DEF IInv, Sound, TablesOK, TableOK, RowOK, HasUser

LEMMA RowsGrown ==
    ASSUME IInv, NEW seen, used \subseteq seen
    PROVE  /\ issued \in Nat /\ issued + 1 \in Nat
           /\ Sound(rows, issued + 1, seen) /\ Coherent(rows, doubtful)
           /\ \A t \in Numbered : issued + 1 \notin Ids(rows[t])
<1>1. issued \in Nat /\ TablesOK(rows, issued, used)
  BY DEF IInv, Sound
<1>2. TablesOK(rows, issued + 1, seen)
  BY <1>1, Grown
<1>3. \A t \in Numbered : issued + 1 \notin Ids(rows[t])
  BY <1>1, NewIdentity
<1> QED
  BY <1>1, <1>2, <1>3 DEF IInv, Sound

\* a user adds a row
LEMMA UserAdds ==
    ASSUME IInv, NEW t \in Numbered \ {"errors"}, NEW data, NEW u \in rows["users"]
    PROVE  LET new == With(rows, t, Row(issued + 1, u.org, u.id, data))
           IN  /\ Advances(new, rows, issued + 1, used, doubtful, {u.org})
               /\ OnlyIn({t}, new, rows)
<1> DEFINE r == Row(issued + 1, u.org, u.id, data)
<1>1. r.id = issued + 1 /\ r.org = u.org /\ r.by = u.id /\ r = Row(r.id, r.org, r.by, r.data)
  BY DEF Row
<1>2. t \in Tables \ {"orgs"} /\ t \notin Plain \cup Owned /\ t # "users"
  BY DEF Numbered, Plain, Owned
<1>3. /\ Sound(rows, issued + 1, used) /\ Coherent(rows, doubtful)
      /\ issued + 1 \notin Ids(rows[t]) /\ issued + 1 \in 1..(issued + 1)
  <2>1. /\ Sound(rows, issued + 1, used) /\ Coherent(rows, doubtful) /\ issued \in Nat
        /\ \A x \in Numbered : issued + 1 \notin Ids(rows[x])
    <3>1. used \subseteq used
      OBVIOUS
    <3> QED
      BY <3>1, RowsGrown
  <2>2. issued + 1 \in 1..(issued + 1)
    BY <2>1
  <2> QED
    BY <2>1, <2>2
<1>4. RowOK(t, r, issued + 1, used)
  BY <1>1, <1>2, <1>3, UserIs DEF RowOK
<1>5. HasUser(rows, r.by, r.org) /\ r.org \in Ids(rows["orgs"]) /\ r.id \notin Ids(rows[t])
  BY <1>1, <1>3, UserIs
<1> HIDE DEF r
<1>6. /\ Advances(With(rows, t, r), rows, issued + 1, used, doubtful, {r.org})
      /\ \A x \in Tables \ {t} : With(rows, t, r)[x] = rows[x]
  BY <1>2, <1>3, <1>4, <1>5, AddedAdvances
<1>7. /\ Advances(With(rows, t, r), rows, issued + 1, used, doubtful, {u.org})
      /\ OnlyIn({t}, With(rows, t, r), rows)
  BY <1>1, <1>6 DEF OnlyIn
<1> QED
  BY <1>7 DEF r

\* the last statement of a request is its entry in the log
LEMMA UserLogs ==
    ASSUME IInv, NEW u \in rows["users"], NEW db,
           Advances(db, rows, issued + 1, used, doubtful, {u.org}),
           db["orgs"] = rows["orgs"], db["audit"] = rows["audit"]
    PROVE  Advances(Audited(db, u.org, u.id), rows, issued + 1, used, doubtful, {u.org})
<1>1. issued + 1 \notin Ids(db["audit"]) /\ issued \in Nat
  BY RowsGrown, TablesAre DEF Numbered, Owned
<1>2. Sound(db, issued + 1, used) /\ Coherent(db, doubtful) /\ HasUser(db, u.id, u.org)
  BY DEF Advances
<1>3. u.org \in Ids(db["orgs"]) /\ u.org \in Orgs \cap used /\ u.id \in Users \cup {NoUser}
  BY UserIs
<1>4. Advances(Audited(db, u.org, u.id), db, issued + 1, used, doubtful, {u.org})
  BY <1>1, <1>2, <1>3, AuditedAdvances
<1> QED
  BY <1>4, AdvancesTransitive

\* a request that adds one row and its entry in the log
LEMMA LoggedAddition ==
    ASSUME IInv, NEW t \in Numbered \ {"errors", "audit"}, NEW data, NEW u \in rows["users"]
    PROVE  Advances(Audited(With(rows, t, Row(issued + 1, u.org, u.id, data)), u.org, u.id),
                    rows, issued + 1, used, doubtful, {u.org})
<1> DEFINE db == With(rows, t, Row(issued + 1, u.org, u.id, data))
<1>1. Advances(db, rows, issued + 1, used, doubtful, {u.org}) /\ OnlyIn({t}, db, rows)
  BY UserAdds
<1> HIDE DEF db
<1>2. db["orgs"] = rows["orgs"] /\ db["audit"] = rows["audit"]
  BY <1>1, TablesAre DEF OnlyIn, Numbered, Owned
<1>3. Advances(Audited(db, u.org, u.id), rows, issued + 1, used, doubtful, {u.org})
  BY <1>1, <1>2, UserLogs
<1> QED
  BY <1>3 DEF db

Relabelled(table, o, data) == {IF r.org = o THEN [r EXCEPT !.data = data[r]] ELSE r : r \in table}

\* the datum of the rows that o has in a table of its own is another
LEMMA RelabelledAdvances ==
    ASSUME NEW db, NEW n, NEW seen, Sound(db, n, seen), NEW doubt, Coherent(db, doubt),
           NEW t \in Tables, t \in Owned, NEW o, NEW data,
           NEW new, Replaced(new, db, t, Relabelled(db[t], o, data))
    PROVE  /\ Advances(new, db, n, seen, doubt, {o})
           /\ OnlyIn({t}, new, db)
<1> DEFINE change(r) == IF r.org = o THEN [r EXCEPT !.data = data[r]] ELSE r
           h == [r \in db[t] |-> change(r)]
<1>1. t \in Tables /\ t \in Owned /\ t # "users"
  BY DEF Owned
<1>2. \A r \in db[t] : RowOK(t, r, n, seen)
  BY <1>1 DEF Sound, TablesOK, TableOK
<1>3. ASSUME NEW r \in db[t]
      PROVE  /\ RowOK(t, change(r), n, seen) /\ change(r).id = r.id
             /\ change(r).org = r.org /\ change(r).by = r.by
  <2>1. RowOK(t, r, n, seen) /\ r = Row(r.id, r.org, r.by, r.data)
    BY <1>2 DEF RowOK
  <2>2. CASE r.org = o
    <3>1. change(r) = Row(r.id, r.org, r.by, data[r])
      BY <2>1, <2>2, RowExcept
    <3> HIDE DEF change
    <3>2. /\ change(r).id = r.id /\ change(r).org = r.org /\ change(r).by = r.by
          /\ change(r) = Row(change(r).id, change(r).org, change(r).by, change(r).data)
      BY <3>1 DEF Row
    <3> QED
      BY <1>1, <2>1, <3>2 DEF RowOK
  <2>3. CASE r.org # o
    BY <2>1, <2>3
  <2> QED
    BY <2>2, <2>3
<1> HIDE DEF change
<1>4. h = [r \in db[t] |-> h[r]] /\ \A r \in db[t] : h[r] = change(r)
  OBVIOUS
<1>5. Replaced(new, db, t, Image(h, db[t]))
  <2>1. Image(h, db[t]) = Relabelled(db[t], o, data)
    BY <1>4 DEF change, Relabelled, Image
  <2> QED
    BY <2>1
<1> HIDE DEF h
<1>6. /\ Sound(new, n, seen) /\ Coherent(new, doubt)
      /\ \A u \in db["users"] : HasUser(new, u.id, u.org)
      /\ new[t] = Image(h, db[t]) /\ \A x \in Tables \ {t} : new[x] = db[x]
  <2>1. Changes(new, db, t, h, n, seen) /\ \A r \in db[t] : h[r].by = r.by
    BY <1>1, <1>3, <1>4, <1>5 DEF Changes
  <2> QED
    BY <1>1, <2>1, ChangedStays
<1>7. ASSUME NEW x \in Orgs \ {o} PROVE Of(new, x) = Of(db, x)
  <2>1. ASSUME NEW y \in Tables, NEW r, r.org = x PROVE r \in db[y] <=> r \in new[y]
    <3>1. CASE y = t
      <4>1. r \in db[t] => r \in new[t]
        BY <1>4, <1>6, <2>1 DEF change, Image
      <4>2. r \in new[t] => r \in db[t]
        <5> SUFFICES ASSUME r \in new[t] PROVE r \in db[t]
          OBVIOUS
        <5>1. PICK s \in db[t] : r = change(s)
          BY <1>4, <1>6 DEF Image
        <5>2. s.org = x
          BY <1>3, <2>1, <5>1
        <5> QED
          BY <5>1, <5>2 DEF change
      <4> QED
        BY <3>1, <4>1, <4>2
    <3>2. CASE y # t
      BY <1>6, <3>2
    <3> QED
      BY <3>1, <3>2
  <2> QED
    BY <2>1, OfIs
<1> QED
  BY <1>6, <1>7 DEF Advances, OnlyIn

LEMMA ChargedAdvances ==
    ASSUME NEW db, issued \in Nat, NEW seen, Sound(db, issued + 1, seen), NEW doubt, Coherent(db, doubt),
           issued + 1 \notin Ids(db["ledger"]), NEW o \in Orgs \cap seen, o \in Ids(db["orgs"]), NEW delta
    PROVE  /\ Advances(Charged(db, o, delta, issued + 1), db, issued + 1, seen, doubt, {o})
           /\ OnlyIn({"licenses", "ledger"}, Charged(db, o, delta, issued + 1), db)
<1> DEFINE data == [r \in db["licenses"] |-> r.data + delta]
           image == Relabelled(db["licenses"], o, data)
           mid == [db EXCEPT !["licenses"] = image]
           r == Row(issued + 1, o, NoUser, delta)
<1>1. image = {IF x.org = o THEN [x EXCEPT !.data = @ + delta] ELSE x : x \in db["licenses"]}
  BY DEF Relabelled
<1>2. /\ Advances(mid, db, issued + 1, seen, doubt, {o})
      /\ OnlyIn({"licenses"}, mid, db)
  <2> HIDE DEF data
  <2>1. Replaced(mid, db, "licenses", Relabelled(db["licenses"], o, data))
    BY DEF Replaced
  <2>2. "licenses" \in Tables /\ "licenses" \in Owned
    BY TablesAre DEF Owned
  <2> HIDE DEF mid
  <2> QED
    BY <2>1, <2>2, RelabelledAdvances
<1>3. Charged(db, o, delta, issued + 1) = With(mid, "ledger", r)
  BY <1>1, TablesAre DEF Charged, Sound, TablesOK
<1>4. /\ r.id = issued + 1 /\ r.org = o /\ r.by = NoUser /\ r = Row(r.id, r.org, r.by, r.data)
      /\ "ledger" \in Tables \ {"orgs"} /\ "ledger" \notin Plain \cup Owned
      /\ {"orgs", "ledger"} \subseteq Tables
  BY TablesAre DEF Row, Plain, Owned
<1>5. RowOK("ledger", r, issued + 1, seen)
  BY <1>4 DEF RowOK
<1> HIDE DEF mid, r
<1>6. mid["ledger"] = db["ledger"] /\ mid["orgs"] = db["orgs"] /\ Sound(mid, issued + 1, seen) /\ Coherent(mid, doubt)
  BY <1>2, <1>4 DEF Advances, OnlyIn
<1>7. r.id \notin Ids(mid["ledger"]) /\ r.org \in Ids(mid["orgs"])
  BY <1>4, <1>6
<1>8. /\ Advances(With(mid, "ledger", r), mid, issued + 1, seen, doubt, {r.org})
      /\ \A x \in Tables \ {"ledger"} : With(mid, "ledger", r)[x] = mid[x]
  BY <1>4, <1>5, <1>6, <1>7, AddedAdvances
<1>9. Advances(With(mid, "ledger", r), db, issued + 1, seen, doubt, {o})
  BY <1>2, <1>4, <1>8, AdvancesTransitive
<1> QED
  BY <1>2, <1>3, <1>8, <1>9 DEF OnlyIn

LEMMA SavedAdvances ==
    ASSUME NEW db, NEW n, NEW seen, Sound(db, n, seen), NEW doubt, Coherent(db, doubt), NEW o, NEW id
    PROVE  /\ Advances(Saved(db, o, id), db, n, seen, doubt, {o})
           /\ OnlyIn({"state"}, Saved(db, o, id), db)
<1> DEFINE data == [r \in db["state"] |-> id]
           image == Relabelled(db["state"], o, data)
<1>1. image = {IF r.org = o THEN [r EXCEPT !.data = id] ELSE r : r \in db["state"]}
  BY DEF Relabelled
<1>2. Saved(db, o, id) = [db EXCEPT !["state"] = image]
  BY <1>1 DEF Saved
<1> DEFINE new == Saved(db, o, id)
<1>3. Replaced(new, db, "state", Relabelled(db["state"], o, data))
  BY <1>2 DEF Replaced
<1> HIDE DEF data, new
<1>4. "state" \in Tables /\ "state" \in Owned
  BY TablesAre DEF Owned
<1>5. Advances(new, db, n, seen, doubt, {o}) /\ OnlyIn({"state"}, new, db)
  BY <1>3, <1>4, RelabelledAdvances
<1> QED
  BY <1>5 DEF new

LEMMA GenerationAdvances ==
    ASSUME IInv, NEW u \in rows["users"]
    PROVE  Advances(Audited(Saved(Charged(With(rows, "runs", Row(issued + 1, u.org, u.id, "run")),
                                          u.org, -1, issued + 1), u.org, issued + 1), u.org, u.id),
                    rows, issued + 1, used, doubtful, {u.org})
<1> DEFINE a == With(rows, "runs", Row(issued + 1, u.org, u.id, "run"))
           b == Charged(a, u.org, -1, issued + 1)
           c == Saved(b, u.org, issued + 1)
<1>1. Advances(a, rows, issued + 1, used, doubtful, {u.org}) /\ OnlyIn({"runs"}, a, rows)
  BY UserAdds, TablesAre DEF Numbered, Owned
<1> HIDE DEF a
<1>2. Advances(b, a, issued + 1, used, doubtful, {u.org}) /\ OnlyIn({"licenses", "ledger"}, b, a)
  <2>1. a["ledger"] = rows["ledger"] /\ a["orgs"] = rows["orgs"]
    BY <1>1, TablesAre DEF OnlyIn
  <2>2. issued \in Nat /\ issued + 1 \notin Ids(a["ledger"])
    BY <2>1, RowsGrown, TablesAre DEF Numbered, Owned
  <2>3. u.org \in Orgs \cap used /\ u.org \in Ids(a["orgs"])
    BY <2>1, UserIs
  <2>4. Sound(a, issued + 1, used) /\ Coherent(a, doubtful)
    BY <1>1 DEF Advances
  <2> QED
    BY <2>2, <2>3, <2>4, ChargedAdvances
<1> HIDE DEF b
<1>3. Advances(c, b, issued + 1, used, doubtful, {u.org}) /\ OnlyIn({"state"}, c, b)
  BY <1>2, SavedAdvances DEF Advances
<1> HIDE DEF c
<1>4. Advances(c, rows, issued + 1, used, doubtful, {u.org})
  <2>1. Advances(b, rows, issued + 1, used, doubtful, {u.org})
    BY <1>1, <1>2, AdvancesTransitive
  <2> QED
    BY <1>3, <2>1, AdvancesTransitive
<1>5. c["orgs"] = rows["orgs"] /\ c["audit"] = rows["audit"]
  BY <1>1, <1>2, <1>3, TablesAre DEF OnlyIn
<1>6. Advances(Audited(c, u.org, u.id), rows, issued + 1, used, doubtful, {u.org})
  BY <1>4, <1>5, UserLogs
<1> QED
  BY <1>6 DEF a, b, c

LEMMA SwitchAdvances ==
    ASSUME IInv, NEW u \in rows["users"]
    PROVE  Advances(Audited([rows EXCEPT !["users"] = (@ \ {u}) \cup {[u EXCEPT !.data.active = ~ @]}],
                            u.org, u.id),
                    rows, issued + 1, used, doubtful, {u.org})
<1> DEFINE v == [u EXCEPT !.data.active = ~ @]
           h == [r \in rows["users"] |-> IF r = u THEN v ELSE r]
           a == [rows EXCEPT !["users"] = (@ \ {u}) \cup {v}]
<1>1. /\ Sound(rows, issued + 1, used) /\ Coherent(rows, doubtful)
      /\ "users" \in Tables /\ \A r \in rows["users"] : RowOK("users", r, issued + 1, used)
  BY RowsGrown, TablesAre DEF Sound, TablesOK, TableOK
<1>2. v.id = u.id /\ v.org = u.org /\ v.by = u.by /\ v.data.email = u.data.email
      /\ RowOK("users", v, issued + 1, used)
  <2>1. u = Row(u.id, u.org, u.by, u.data) /\ u.data \in [email : Emails, active : BOOLEAN]
    BY <1>1 DEF RowOK
  <2> DEFINE x == [u.data EXCEPT !.active = ~ @]
  <2>2. x \in [email : Emails, active : BOOLEAN] /\ x.email = u.data.email
    BY <2>1
  <2>3. v = Row(u.id, u.org, u.by, x)
    BY <2>1 DEF Row
  <2> HIDE DEF v, x
  <2>4. v.id = u.id /\ v.org = u.org /\ v.by = u.by /\ v.data = x
        /\ v = Row(v.id, v.org, v.by, v.data)
    BY <2>3 DEF Row
  <2> QED
    BY <1>1, <2>2, <2>4 DEF RowOK
<1> HIDE DEF v
<1>3. Changes(a, rows, "users", h, issued + 1, used) /\ \A r \in rows["users"] : h[r].by = r.by
  <2>1. \A r \in rows["users"] : h[r] = IF r = u THEN v ELSE r
    OBVIOUS
  <2>2. Image(h, rows["users"]) = (rows["users"] \ {u}) \cup {v}
    BY DEF Image
  <2>3. h = [r \in rows["users"] |-> h[r]]
    OBVIOUS
  <2>4. Replaced(a, rows, "users", Image(h, rows["users"]))
    BY <2>2 DEF Replaced
  <2> HIDE DEF h, a
  <2> QED
    BY <1>1, <1>2, <2>1, <2>3, <2>4 DEF Changes
<1> HIDE DEF h, a
<1>4. /\ Sound(a, issued + 1, used) /\ Coherent(a, doubtful)
      /\ \A r \in rows["users"] : HasUser(a, r.id, r.org)
      /\ a["users"] = Image(h, rows["users"]) /\ \A x \in Tables \ {"users"} : a[x] = rows[x]
  BY <1>1, <1>3, ChangedStays
<1>5. ASSUME NEW x \in Orgs \ {u.org} PROVE Of(a, x) = Of(rows, x)
  <2>1. ASSUME NEW y \in Tables, NEW r, r.org = x PROVE r \in rows[y] <=> r \in a[y]
    <3>1. a["users"] = (rows["users"] \ {u}) \cup {v}
      BY <1>1 DEF a, Sound, TablesOK
    <3>2. r # u /\ r # v
      BY <1>2, <2>1
    <3> QED
      BY <1>4, <3>1, <3>2
  <2> QED
    BY <2>1, OfIs
<1>6. Advances(a, rows, issued + 1, used, doubtful, {u.org})
  BY <1>4, <1>5 DEF Advances
<1>7. a["orgs"] = rows["orgs"] /\ a["audit"] = rows["audit"]
  BY <1>4, TablesAre
<1>8. Advances(Audited(a, u.org, u.id), rows, issued + 1, used, doubtful, {u.org})
  BY <1>6, <1>7, UserLogs
<1> QED
  BY <1>8 DEF a, v

LEMMA ErrorAdvances ==
    ASSUME IInv, NEW o \in Orgs \cap used
    PROVE  Advances(With(rows, "errors", Row(issued + 1, o, NoUser, "error")),
                    rows, issued + 1, used, doubtful, {o})
<1> DEFINE r == Row(issued + 1, o, NoUser, "error")
<1>1. r.id = issued + 1 /\ r.org = o /\ r.by = NoUser /\ r = Row(r.id, r.org, r.by, r.data)
  BY DEF Row
<1>2. /\ Sound(rows, issued + 1, used) /\ Coherent(rows, doubtful)
      /\ "errors" \in Tables \ {"orgs"} /\ issued + 1 \notin Ids(rows["errors"])
      /\ issued + 1 \in 1..(issued + 1)
  BY RowsGrown, TablesAre DEF Numbered, Owned
<1>3. RowOK("errors", r, issued + 1, used)
  BY <1>1, <1>2 DEF RowOK, Owned
<1>4. r.id \notin Ids(rows["errors"])
  BY <1>1, <1>2
<1> HIDE DEF r
<1>5. Advances(With(rows, "errors", r), rows, issued + 1, used, doubtful, {r.org})
  BY <1>1, <1>2, <1>3, <1>4, AddedAdvances
<1> QED
  BY <1>1, <1>5 DEF r

LEMMA NewUserAdvances ==
    ASSUME IInv, NEW by \in rows["users"], NEW u \in Users \ used, NEW email \in Emails,
           \A r \in rows["users"] : r.data.email # email
    PROVE  Advances(Audited(With(rows, "users", Row(u, by.org, NoUser, [email |-> email, active |-> TRUE])),
                            by.org, by.id),
                    rows, issued + 1, used \cup {u, email}, doubtful, {by.org})
<1> DEFINE data == [email |-> email, active |-> TRUE]
           r == Row(u, by.org, NoUser, data)
           seen == used \cup {u, email}
           db == With(rows, "users", r)
<1>1. /\ Sound(rows, issued + 1, seen) /\ Coherent(rows, doubtful) /\ issued \in Nat
      /\ \A x \in Numbered : issued + 1 \notin Ids(rows[x])
  <2>1. used \subseteq seen
    OBVIOUS
  <2> HIDE DEF seen
  <2> QED
    BY <2>1, RowsGrown
<1>2. /\ r.id = u /\ r.org = by.org /\ r.by = NoUser /\ r.data = data
      /\ r = Row(r.id, r.org, r.by, r.data)
  BY DEF Row
<1>3. data \in [email : Emails, active : BOOLEAN] /\ data.email = email
  OBVIOUS
<1>4. /\ by.org \in Orgs \cap used /\ by.org \in Ids(rows["orgs"]) /\ HasUser(rows, by.id, by.org)
      /\ by.id \in Users
  BY UserIs
<1>5. "users" \in Tables \ {"orgs"} /\ "users" \notin Numbered \cup Owned /\ "audit" \in Numbered
      /\ {"orgs", "audit"} \subseteq Tables \ {"users"}
  BY TablesAre DEF Numbered, Owned
<1>6. u \notin Ids(rows["users"])
  BY <1>5 DEF IInv, Sound, TablesOK, TableOK, RowOK, Ids
<1>7. RowOK("users", r, issued + 1, seen)
  BY <1>2, <1>3, <1>4, <1>5 DEF RowOK
<1>8. by.org \in Orgs \cap seen
  BY <1>4
<1>9. /\ r.id \notin Ids(rows["users"]) /\ r.org \in Ids(rows["orgs"])
      /\ \A s \in rows["users"] : s.data.email # r.data.email
  BY <1>2, <1>3, <1>4, <1>6
<1> HIDE DEF data, seen, r
<1>10. /\ Advances(db, rows, issued + 1, seen, doubtful, {r.org})
       /\ \A x \in Tables \ {"users"} : db[x] = rows[x]
  BY <1>1, <1>2, <1>5, <1>7, <1>9, AddedAdvances
<1> HIDE DEF db
<1>11. /\ Sound(db, issued + 1, seen) /\ Coherent(db, doubtful) /\ HasUser(db, by.id, by.org)
       /\ issued + 1 \notin Ids(db["audit"]) /\ by.org \in Ids(db["orgs"])
  BY <1>1, <1>4, <1>5, <1>10 DEF Advances
<1>12. Advances(Audited(db, by.org, by.id), db, issued + 1, seen, doubtful, {by.org})
  BY <1>1, <1>4, <1>8, <1>11, AuditedAdvances
<1>13. Advances(Audited(db, by.org, by.id), rows, issued + 1, seen, doubtful, {by.org})
  BY <1>2, <1>10, <1>12, AdvancesTransitive
<1> QED
  BY <1>13 DEF db, r, data, seen

\* an organization without a row, and a user who is not there, are added
LEMMA FoundedAdvances ==
    ASSUME NEW db, NEW n \in Nat, NEW seen, Sound(db, n, seen), NEW doubt, Coherent(db, doubt),
           NEW o \in Orgs \cap seen, \A t \in Tables : \A r \in db[t] : r.org # o,
           NEW u \in Users \cap seen, u \notin Ids(db["users"]),
           NEW data \in [email : Emails, active : BOOLEAN],
           \A r \in db["users"] : r.data.email # data.email,
           NEW name, NEW license, NEW state
    PROVE  LET new == With(With(With(With(db, "orgs", Row(o, o, NoUser, name)),
                                "users", Row(u, o, NoUser, data)),
                                "licenses", Row(o, o, NoUser, license)),
                                "state", Row(o, o, NoUser, state))
           IN  /\ Advances(new, db, n, seen, doubt, {o})
               /\ OnlyIn({"orgs", "users", "licenses", "state"}, new, db)
               /\ o \in Ids(new["orgs"]) /\ HasUser(new, u, o)
<1> DEFINE ra == Row(o, o, NoUser, name)
           rb == Row(u, o, NoUser, data)
           rc == Row(o, o, NoUser, license)
           rd == Row(o, o, NoUser, state)
           a == With(db, "orgs", ra)
           b == With(a, "users", rb)
           c == With(b, "licenses", rc)
           new == With(c, "state", rd)
<1>1. /\ ra = Row(ra.id, ra.org, ra.by, ra.data) /\ ra.id = o /\ ra.org = o /\ ra.by = NoUser
      /\ rb = Row(rb.id, rb.org, rb.by, rb.data) /\ rb.id = u /\ rb.org = o /\ rb.by = NoUser
      /\ rc = Row(rc.id, rc.org, rc.by, rc.data) /\ rc.id = o /\ rc.org = o /\ rc.by = NoUser
      /\ rd = Row(rd.id, rd.org, rd.by, rd.data) /\ rd.id = o /\ rd.org = o /\ rd.by = NoUser
      /\ rb.data = data
  BY DEF Row
<1>2. /\ {"orgs", "users", "licenses", "state"} \subseteq Tables
      /\ {"orgs", "licenses", "state"} = Owned /\ "users" \notin Owned
  BY TablesAre DEF Owned
<1> HIDE DEF ra, rb, rc, rd
<1>3. db = [x \in Tables |-> db[x]]
  BY DEF Sound, TablesOK
<1>4. /\ a = [x \in Tables |-> a[x]] /\ a["orgs"] = db["orgs"] \cup {ra}
      /\ \A x \in Tables \ {"orgs"} : a[x] = db[x]
  BY <1>2, <1>3, WithIs
<1> HIDE DEF a
<1>5. /\ b = [x \in Tables |-> b[x]] /\ b["users"] = a["users"] \cup {rb}
      /\ \A x \in Tables \ {"users"} : b[x] = a[x]
  BY <1>2, <1>4, WithIs
<1> HIDE DEF b
<1>6. /\ c = [x \in Tables |-> c[x]] /\ c["licenses"] = b["licenses"] \cup {rc}
      /\ \A x \in Tables \ {"licenses"} : c[x] = b[x]
  BY <1>2, <1>5, WithIs
<1> HIDE DEF c
<1>7. /\ new = [x \in Tables |-> new[x]] /\ new["state"] = c["state"] \cup {rd}
      /\ \A x \in Tables \ {"state"} : new[x] = c[x]
  BY <1>2, <1>6, WithIs
<1> HIDE DEF new
<1>8. /\ new["orgs"] = db["orgs"] \cup {ra} /\ new["users"] = db["users"] \cup {rb}
      /\ new["licenses"] = db["licenses"] \cup {rc} /\ new["state"] = db["state"] \cup {rd}
      /\ \A x \in Tables \ {"orgs", "users", "licenses", "state"} : new[x] = db[x]
  BY <1>2, <1>4, <1>5, <1>6, <1>7
<1>9. ASSUME NEW t \in Tables, NEW r \in new[t]
      PROVE  r \in db[t] \/ (r.org = o /\ r.by = NoUser)
  BY <1>1, <1>8
<1>10. TablesOK(new, n, seen)
  <2>1. /\ RowOK("orgs", ra, n, seen) /\ RowOK("users", rb, n, seen)
        /\ RowOK("licenses", rc, n, seen) /\ RowOK("state", rd, n, seen)
    BY <1>1, <1>2 DEF RowOK, Numbered
  <2>2. ASSUME NEW t \in Owned PROVE TableOK(t, db[t], n, seen) /\ \A s \in db[t] : s.id # o /\ t # "users"
    BY <1>2 DEF Sound, TablesOK, TableOK, RowOK
  <2>3. TableOK("orgs", new["orgs"], n, seen)
    <3>1. TableOK("orgs", db["orgs"], n, seen) /\ \A s \in db["orgs"] : s.id # ra.id
      BY <1>1, <1>2, <2>2
    <3>2. TableOK("orgs", db["orgs"] \cup {ra}, n, seen)
      BY <2>1, <3>1, TableGrows
    <3> QED
      BY <1>8, <3>2
  <2>4. TableOK("licenses", new["licenses"], n, seen)
    <3>1. TableOK("licenses", db["licenses"], n, seen) /\ \A s \in db["licenses"] : s.id # rc.id
      BY <1>1, <1>2, <2>2
    <3>2. TableOK("licenses", db["licenses"] \cup {rc}, n, seen)
      BY <2>1, <3>1, TableGrows
    <3> QED
      BY <1>8, <3>2
  <2>5. TableOK("state", new["state"], n, seen)
    <3>1. TableOK("state", db["state"], n, seen) /\ \A s \in db["state"] : s.id # rd.id
      BY <1>1, <1>2, <2>2
    <3>2. TableOK("state", db["state"] \cup {rd}, n, seen)
      BY <2>1, <3>1, TableGrows
    <3> QED
      BY <1>8, <3>2
  <2>6. TableOK("users", new["users"], n, seen)
    <3>1. /\ TableOK("users", db["users"], n, seen) /\ \A s \in db["users"] : s.id # rb.id
          /\ \A s \in db["users"] : s.data.email # rb.data.email
      BY <1>1, <1>2 DEF Ids, Sound, TablesOK
    <3>2. TableOK("users", db["users"] \cup {rb}, n, seen)
      BY <2>1, <3>1, TableGrows
    <3> QED
      BY <1>8, <3>2
  <2>7. ASSUME NEW t \in Tables PROVE TableOK(t, new[t], n, seen)
    <3>1. CASE t \notin {"orgs", "users", "licenses", "state"}
      BY <1>8, <3>1 DEF Sound, TablesOK
    <3> QED
      BY <2>3, <2>4, <2>5, <2>6, <3>1
  <2> QED
    BY <1>7, <2>7 DEF TablesOK
<1>11. o \in Ids(new["orgs"]) /\ HasUser(new, u, o)
  BY <1>1, <1>8 DEF Ids, HasUser
<1>12. /\ Ids(new["orgs"]) = Ids(db["orgs"]) \cup {o} /\ Ids(db["users"]) \subseteq Ids(new["users"])
       /\ db["users"] \subseteq new["users"]
  BY <1>1, <1>8 DEF Ids
<1>13. ~ Dangling(new)
  <2> SUFFICES ASSUME NEW t \in Tables \ {"orgs", "errors"}, NEW r \in new[t]
               PROVE  r.org \in Ids(new["orgs"]) /\ r.by \in Ids(new["users"]) \cup {NoUser}
    BY DEF Dangling
  <2>1. CASE r \in db[t]
    BY <1>12, <2>1, References DEF Sound
  <2>2. CASE r.org = o /\ r.by = NoUser
    BY <1>12, <2>2
  <2> QED
    BY <1>9, <2>1, <2>2
<1>14. Equipped(new)
  <2> SUFFICES ASSUME NEW x \in Ids(new["orgs"]), NEW t \in {"licenses", "state"}
               PROVE  \E r \in new[t] : r.org = x
    BY DEF Equipped
  <2>1. CASE x = o
    BY <1>1, <1>8, <2>1
  <2>2. CASE x \in Ids(db["orgs"])
    BY <1>8, <2>2 DEF Sound, Equipped
  <2> QED
    BY <1>12, <2>1, <2>2
<1>15. Coherent(new, doubt)
  <2>1. ASSUME NEW t \in Tables, NEW r \in new[t], r.by # NoUser, r.org \notin doubt
        PROVE  \E v \in new["users"] : v.id = r.by /\ v.org = r.org
    BY <1>9, <1>12, <2>1 DEF Coherent
  <2>2. ASSUME NEW x \in Ids(new["orgs"]) \ doubt PROVE \E v \in new["users"] : v.org = x
    BY <1>11, <1>12 DEF Coherent, HasUser
  <2> QED
    BY <2>1, <2>2 DEF Coherent
<1>16. ASSUME NEW x \in Orgs \ {o} PROVE Of(new, x) = Of(db, x)
  <2>1. \A t \in Tables : \A r : r.org = x => (r \in db[t] <=> r \in new[t])
    BY <1>1, <1>8
  <2> QED
    BY <2>1, OfIs
<1>17. \A v \in db["users"] : HasUser(new, v.id, v.org)
  BY <1>12 DEF HasUser
<1>18. Advances(new, db, n, seen, doubt, {o})
  BY <1>10, <1>13, <1>14, <1>15, <1>16, <1>17 DEF Advances, Sound
<1>19. OnlyIn({"orgs", "users", "licenses", "state"}, new, db)
  BY <1>8 DEF OnlyIn
<1> QED
  BY <1>11, <1>18, <1>19 DEF new, c, b, a, ra, rb, rc, rd

LEMMA RegisteredAdvances ==
    ASSUME IInv, NEW o \in Orgs \ used, NEW u \in Users \ used, NEW email \in Emails,
           \A r \in rows["users"] : r.data.email # email
    PROVE  Advances(Registered(rows, o, u, email), rows, issued + 1, used \cup {o, u, email},
                    doubtful, {o})
<1> DEFINE data == [email |-> email, active |-> TRUE]
           seen == used \cup {o, u, email}
           a == With(With(With(With(rows, "orgs", Row(o, o, NoUser, "name")),
                     "users", Row(u, o, NoUser, data)),
                     "licenses", Row(o, o, NoUser, Credits)),
                     "state", Row(o, o, NoUser, 0))
           r == Row(issued + 1, o, NoUser, Credits)
           b == IF Credits = 0 THEN a ELSE With(a, "ledger", r)
<1>1. /\ Sound(rows, issued + 1, seen) /\ Coherent(rows, doubtful) /\ issued \in Nat /\ issued + 1 \in Nat
      /\ \A x \in Numbered : issued + 1 \notin Ids(rows[x])
  <2>1. used \subseteq seen
    OBVIOUS
  <2> HIDE DEF seen
  <2> QED
    BY <2>1, RowsGrown
<1>2. data \in [email : Emails, active : BOOLEAN] /\ data.email = email
  OBVIOUS
<1>3. \A t \in Tables : \A s \in rows[t] : s.org # o
  BY DEF IInv, Sound, TablesOK, TableOK, RowOK
<1>4. u \notin Ids(rows["users"])
  BY TablesAre DEF IInv, Sound, TablesOK, TableOK, RowOK, Ids
<1>5. o \in Orgs \cap seen /\ u \in Users \cap seen
  OBVIOUS
<1>6. \A s \in rows["users"] : s.data.email # data.email
  BY <1>2
<1>0. Registered(rows, o, u, email) = Audited(b, o, u)
  BY DEF Registered
<1> HIDE DEF data, seen
<1>7. /\ Advances(a, rows, issued + 1, seen, doubtful, {o})
      /\ OnlyIn({"orgs", "users", "licenses", "state"}, a, rows)
      /\ o \in Ids(a["orgs"]) /\ HasUser(a, u, o)
  BY <1>1, <1>2, <1>3, <1>4, <1>5, <1>6, FoundedAdvances
<1> HIDE DEF a
<1>8. /\ Sound(a, issued + 1, seen) /\ Coherent(a, doubtful)
      /\ issued + 1 \notin Ids(a["ledger"]) /\ issued + 1 \notin Ids(a["audit"])
      /\ {"ledger", "audit"} \subseteq Numbered
  BY <1>1, <1>7, TablesAre DEF Advances, OnlyIn, Numbered, Owned
<1>9. /\ Advances(b, rows, issued + 1, seen, doubtful, {o})
      /\ o \in Ids(b["orgs"]) /\ HasUser(b, u, o) /\ issued + 1 \notin Ids(b["audit"])
  <2>1. CASE Credits = 0
    BY <1>7, <1>8, <2>1
  <2>2. CASE Credits # 0
    <3>1. r.id = issued + 1 /\ r.org = o /\ r.by = NoUser /\ r = Row(r.id, r.org, r.by, r.data)
      BY DEF Row
    <3> HIDE DEF r
    <3>2. issued + 1 \in 1..(issued + 1) /\ "ledger" \in Tables \ {"orgs"} /\ "ledger" \notin Plain \cup Owned
      BY <1>1, TablesAre DEF Plain, Owned
    <3>3. RowOK("ledger", r, issued + 1, seen)
      BY <1>5, <3>1, <3>2 DEF RowOK
    <3>4. r.id \notin Ids(a["ledger"]) /\ r.org \in Ids(a["orgs"])
      BY <1>7, <1>8, <3>1
    <3>5. /\ Advances(With(a, "ledger", r), a, issued + 1, seen, doubtful, {r.org})
          /\ \A x \in Tables \ {"ledger"} : With(a, "ledger", r)[x] = a[x]
      <4>1. Sound(a, issued + 1, seen) /\ Coherent(a, doubtful)
        BY <1>8
      <4>2. r.by # NoUser => HasUser(a, r.by, r.org)
        BY <3>1
      <4>3. "ledger" = "users" => \A s \in a["ledger"] : s.data.email # r.data.email
        OBVIOUS
      <4> QED
        BY <3>2, <3>3, <3>4, <4>1, <4>2, <4>3, AddedAdvances
    <3>6. b = With(a, "ledger", r)
      BY <2>2
    <3>7. Advances(b, a, issued + 1, seen, doubtful, {o}) /\ \A x \in Tables \ {"ledger"} : b[x] = a[x]
      BY <3>1, <3>5, <3>6
    <3> HIDE DEF b
    <3>8. Advances(b, rows, issued + 1, seen, doubtful, {o})
      BY <1>7, <3>7, AdvancesTransitive
    <3> QED
      BY <1>7, <1>8, <3>7, <3>8, TablesAre DEF HasUser
  <2> QED
    BY <2>1, <2>2
<1> HIDE DEF b
<1>10. Sound(b, issued + 1, seen) /\ Coherent(b, doubtful) /\ u \in Users \cup {NoUser}
  BY <1>9 DEF Advances
<1>11. Advances(Audited(b, o, u), b, issued + 1, seen, doubtful, {o})
  BY <1>1, <1>5, <1>9, <1>10, AuditedAdvances
<1>12. Advances(Audited(b, o, u), rows, issued + 1, seen, doubtful, {o})
  BY <1>9, <1>11, AdvancesTransitive
<1> QED
  BY <1>0, <1>12 DEF seen

-----------------------------------------------------------------------------
(* An organization emptied, and filled with a bundle                       *)

\* the users go when all but the organization is gone, and the organization last
LEMMA LastEmptied ==
    ASSUME NEW k \in 1..11
    PROVE  /\ First(k, DeletionOrder) \subseteq Tables
           /\ "orgs" \in First(k, DeletionOrder) => Tables \subseteq First(k, DeletionOrder)
           /\ "users" \in First(k, DeletionOrder) => Tables \ {"orgs"} \subseteq First(k, DeletionOrder)
<1> DEFINE gone == First(k, DeletionOrder)
<1>1. \A x : x \in gone <=> \E j \in 1..k : x = DeletionOrder[j]
  BY DEF First
<1>2. \A x : x \in Tables <=> \E j \in 1..11 : x = DeletionOrder[j]
  BY TablesAre DEF First
<1>3. /\ DeletionOrder[11] = "orgs" /\ DeletionOrder[10] = "users"
      /\ \A j \in 1..10 : DeletionOrder[j] # "orgs"
      /\ \A j \in 1..9 : DeletionOrder[j] # "users"
  <2>1. \A j \in 1..10 : j = 1 \/ j = 2 \/ j = 3 \/ j = 4 \/ j = 5 \/ j = 6 \/ j = 7 \/ j = 8
                         \/ j = 9 \/ j = 10
    OBVIOUS
  <2> QED
    BY <2>1 DEF DeletionOrder
<1>4. \A j \in 1..k : j \in 1..11
  OBVIOUS
<1> HIDE DEF gone
<1>5. gone \subseteq Tables
  BY <1>1, <1>2, <1>4
<1>6. ASSUME "orgs" \in gone PROVE Tables \subseteq gone
  <2>1. PICK j \in 1..k : "orgs" = DeletionOrder[j]
    BY <1>1, <1>6
  <2>2. j = 11 /\ k = 11
    BY <1>3, <2>1
  <2> QED
    BY <1>1, <1>2, <2>2
<1>7. ASSUME "users" \in gone PROVE Tables \ {"orgs"} \subseteq gone
  <2>1. PICK j \in 1..k : "users" = DeletionOrder[j]
    BY <1>1, <1>7
  <2>2. k >= 10
    BY <1>3, <2>1
  <2>3. ASSUME NEW x \in Tables \ {"orgs"} PROVE x \in gone
    <3>1. PICK i \in 1..11 : x = DeletionOrder[i]
      BY <1>2
    <3>2. i # 11
      BY <1>3, <3>1
    <3>3. i \in 1..k
      BY <2>2, <3>2
    <3> QED
      BY <1>1, <3>1, <3>3
  <2> QED
    BY <2>3
<1> QED
  BY <1>5, <1>6, <1>7 DEF gone

LEMMA EmptiedHolds ==
    ASSUME NEW db, NEW n, NEW seen, Sound(db, n, seen), NEW doubt, Coherent(db, doubt),
           NEW o, doubt \subseteq {o}, NEW k \in 1..11
    PROVE  ~ Dangling(Emptied(db, o, k))
<1> DEFINE new == Emptied(db, o, k)
           gone == First(k, DeletionOrder)
<1>1. \A t \in Tables : new[t] = IF t \in gone THEN {r \in db[t] : r.org # o} ELSE db[t]
  BY DEF Emptied
<1>2. /\ "orgs" \in gone => Tables \subseteq gone
      /\ "users" \in gone => Tables \ {"orgs"} \subseteq gone
      /\ {"orgs", "users"} \subseteq Tables
  BY LastEmptied, TablesAre
<1>3. \A r \in db["orgs"] : r.id = r.org
  BY <1>2 DEF Sound, TablesOK, TableOK, RowOK, Owned
<1> HIDE DEF new, gone
<1>4. \A t \in Tables : \A r \in db[t] : r.org # o => r \in new[t]
  BY <1>1
<1>5. ASSUME NEW t \in Tables \ {"orgs", "errors"}, NEW r \in new[t]
      PROVE  r.org \in Ids(new["orgs"]) /\ r.by \in Ids(new["users"]) \cup {NoUser}
  <2>1. r \in db[t] /\ (r.org = o => t \notin gone)
    BY <1>1
  <2>2. r.org \in Ids(db["orgs"]) /\ r.by \in Ids(db["users"]) \cup {NoUser}
    BY <2>1, References DEF Sound
  <2>3. CASE r.org = o
    <3>1. new["orgs"] = db["orgs"] /\ new["users"] = db["users"]
      BY <1>1, <1>2, <2>1, <2>3
    <3> QED
      BY <2>2, <3>1
  <2>4. CASE r.org # o
    <3>1. r.org \in Ids(new["orgs"])
      BY <1>2, <1>3, <1>4, <2>2, <2>4 DEF Ids
    <3>2. CASE r.by # NoUser
      <4>1. PICK u \in db["users"] : u.id = r.by /\ u.org = r.org
        BY <2>1, <2>4, <3>2 DEF Coherent
      <4>2. u \in new["users"]
        BY <1>2, <1>4, <2>4, <4>1
      <4> QED
        BY <3>1, <4>1, <4>2 DEF Ids
    <3> QED
      BY <3>1, <3>2
  <2> QED
    BY <2>3, <2>4
<1> QED
  BY <1>5 DEF Dangling, new

Gone(db, o) == Emptied(db, o, Len(DeletionOrder))

LEMMA GoneIs ==
    ASSUME NEW db, NEW n, NEW seen, Sound(db, n, seen), NEW doubt, Coherent(db, doubt), NEW o
    PROVE  /\ Gone(db, o) = [t \in Tables |-> Gone(db, o)[t]]
           /\ \A t \in Tables : Gone(db, o)[t] = {r \in db[t] : r.org # o}
           /\ TablesOK(Gone(db, o), n, seen) /\ Equipped(Gone(db, o))
           /\ Coherent(Gone(db, o), doubt \ {o})
           /\ \A x \in Orgs \ {o} : Of(Gone(db, o), x) = Of(db, x)
           /\ \A u \in db["users"] : u.org # o => HasUser(Gone(db, o), u.id, u.org)
<1> DEFINE new == Gone(db, o)
<1>1. /\ new = [t \in Tables |-> new[t]]
      /\ \A t \in Tables : new[t] = {r \in db[t] : r.org # o}
  BY TablesAre DEF Gone, Emptied
<1> HIDE DEF new
<1>2. {"orgs", "users", "licenses", "state"} \subseteq Tables
  BY TablesAre
<1>3. TablesOK(new, n, seen)
  <2>1. ASSUME NEW t \in Tables PROVE TableOK(t, new[t], n, seen)
    <3>1. new[t] \in SUBSET db[t] /\ TableOK(t, db[t], n, seen)
      BY <1>1 DEF Sound, TablesOK
    <3> QED
      BY <3>1, PartOK
  <2> QED
    BY <1>1, <2>1 DEF TablesOK
<1>4. \A r \in db["orgs"] : r.id = r.org
  BY <1>2 DEF Sound, TablesOK, TableOK, RowOK, Owned
<1>5. Ids(new["orgs"]) = Ids(db["orgs"]) \ {o}
  BY <1>1, <1>2, <1>4 DEF Ids
<1>6. Equipped(new)
  <2> SUFFICES ASSUME NEW x \in Ids(new["orgs"]), NEW t \in {"licenses", "state"}
               PROVE  \E r \in new[t] : r.org = x
    BY DEF Equipped
  <2>1. PICK r \in db[t] : r.org = x
    BY <1>5 DEF Sound, Equipped
  <2> QED
    BY <1>1, <1>2, <1>5, <2>1
<1>7. Coherent(new, doubt \ {o})
  <2>1. ASSUME NEW t \in Tables, NEW r \in new[t], r.by # NoUser, r.org \notin doubt \ {o}
        PROVE  \E u \in new["users"] : u.id = r.by /\ u.org = r.org
    <3>1. r \in db[t] /\ r.org # o
      BY <1>1
    <3>2. PICK u \in db["users"] : u.id = r.by /\ u.org = r.org
      BY <2>1, <3>1 DEF Coherent
    <3> QED
      BY <1>1, <1>2, <3>1, <3>2
  <2>2. ASSUME NEW x \in Ids(new["orgs"]) \ (doubt \ {o}) PROVE \E u \in new["users"] : u.org = x
    <3>1. x \in Ids(db["orgs"]) \ doubt /\ x # o
      BY <1>5
    <3>2. PICK u \in db["users"] : u.org = x
      BY <3>1 DEF Coherent
    <3> QED
      BY <1>1, <1>2, <3>1, <3>2
  <2> QED
    BY <2>1, <2>2 DEF Coherent
<1>8. ASSUME NEW x \in Orgs \ {o} PROVE Of(new, x) = Of(db, x)
  <2>1. \A t \in Tables : \A r : r.org = x => (r \in db[t] <=> r \in new[t])
    BY <1>1
  <2> QED
    BY <2>1, OfIs
<1>9. ASSUME NEW u \in db["users"], u.org # o PROVE HasUser(new, u.id, u.org)
  BY <1>1, <1>2, <1>9 DEF HasUser
<1> QED
  BY <1>1, <1>3, <1>6, <1>7, <1>8, <1>9 DEF new

\* Once it is known of no statement that it leaves a reference behind.
LEMMA OrgDeletedIs ==
    ASSUME IInv, NEW o
    PROVE  /\ OrgDeleted(o).db = Gone(rows, o) /\ OrgDeleted(o).why \in {"ok", "reference"}
           /\ OrgDeleted(o).why = "ok" => ~ Dangling(Gone(rows, o))
           /\ doubtful \subseteq {o} => OrgDeleted(o).why = "ok"
<1>1. OrgDeleted(o).db = Gone(rows, o) /\ OrgDeleted(o).why \in {"ok", "reference"}
  BY DEF OrgDeleted, Gone
<1>2. OrgDeleted(o).why = "ok" <=> ~ \E k \in 1..Len(DeletionOrder) : Dangling(Emptied(rows, o, k))
  BY DEF OrgDeleted
<1>3. Len(DeletionOrder) = 11 /\ 11 \in 1..11
  BY TablesAre
<1>4. OrgDeleted(o).why = "ok" => ~ Dangling(Gone(rows, o))
  BY <1>2, <1>3 DEF Gone
<1>5. ASSUME doubtful \subseteq {o} PROVE OrgDeleted(o).why = "ok"
  <2>1. \A k \in 1..11 : ~ Dangling(Emptied(rows, o, k))
    BY <1>5, EmptiedHolds DEF IInv
  <2> QED
    BY <1>2, <1>3, <2>1
<1> QED
  BY <1>1, <1>4, <1>5

LEMMA RemappedIs ==
    ASSUME NEW t \in Tables, issued \in Nat, NEW r, RowOK(t, r, issued, used), r.org = file.org, NEW o
    PROVE  /\ Remapped(r, o).id = IF t \in Owned THEN o ELSE r.id
           /\ Remapped(r, o).org = o /\ Remapped(r, o).by = r.by /\ Remapped(r, o).data = r.data
           /\ LET g == Remapped(r, o) IN g = Row(g.id, g.org, g.by, g.data)
<1>1. t \in Owned \/ t = "users" \/ t \in Numbered
  BY DEF Numbered
<1>2. (r.id = file.org) <=> t \in Owned
  <2>1. CASE t \in Owned
    BY <2>1 DEF RowOK
  <2>2. CASE t = "users"
    <3>1. r.id \in Users /\ r.org \in Orgs /\ t \notin Owned
      BY <2>2 DEF RowOK, Owned
    <3> QED
      BY <3>1, RowsAssumption
  <2>3. CASE t \in Numbered
    <3>1. r.id \in Nat /\ r.org \in Orgs /\ t \notin Owned
      BY <2>3 DEF RowOK, Numbered
    <3> QED
      BY <3>1, RowsAssumption
  <2> QED
    BY <1>1, <2>1, <2>2, <2>3
<1>3. Remapped(r, o) = Row(IF t \in Owned THEN o ELSE r.id, o, r.by, r.data)
  BY <1>2, RowsAssumption DEF Remapped, RowOK
<1> QED
  BY <1>3 DEF Row

LEMMA GivenOK ==
    ASSUME issued \in Nat, FileOK, file.org # NoOrg, NEW o \in Orgs \cap used,
           NEW t \in Tables
    PROVE  /\ TableOK(t, Given(t, o), issued, used)
           /\ \A g \in Given(t, o) : /\ g.org = o
                                     /\ g.by # NoUser => \E s \in file.rows[t] : g = Remapped(s, o)
                                     /\ t = "users" => \E s \in file.rows[t] : g = Remapped(s, o)
           /\ t \in {"licenses", "state"} => Given(t, o) # {}
           /\ file.rows[t] # {} => Given(t, o) = {Remapped(s, o) : s \in file.rows[t]}
           /\ t \notin {"licenses", "state"} => Given(t, o) = {Remapped(s, o) : s \in file.rows[t]}
<1> DEFINE table == file.rows[t]
           image == {Remapped(s, o) : s \in table}
           datum == IF t = "licenses" THEN 0 ELSE -1
           g == Row(o, o, NoUser, datum)
<1>1. TableOK(t, table, issued, used) /\ \A s \in table : s.org = file.org /\ RowOK(t, s, issued, used)
  BY DEF FileOK, BundleOK, TablesOK, TableOK
<1>2. ASSUME NEW s \in table
      PROVE  /\ Remapped(s, o).id = IF t \in Owned THEN o ELSE s.id
             /\ Remapped(s, o).org = o /\ Remapped(s, o).by = s.by /\ Remapped(s, o).data = s.data
             /\ Remapped(s, o) = Row(Remapped(s, o).id, Remapped(s, o).org,
                                     Remapped(s, o).by, Remapped(s, o).data)
  BY <1>1, RemappedIs
<1>3. TableOK(t, image, issued, used)
  <2>1. IsFiniteSet(image)
    <3> DEFINE h == [s \in table |-> Remapped(s, o)]
    <3>1. h \in Surjection(table, image)
      BY DEF Surjection
    <3>2. IsFiniteSet(table)
      BY <1>1 DEF TableOK
    <3> HIDE DEF h, image, table
    <3> QED
      BY <3>1, <3>2, FS_Surjection
  <2>2. ASSUME NEW a \in image PROVE RowOK(t, a, issued, used)
    <3>1. PICK s \in table : a = Remapped(s, o)
      OBVIOUS
    <3>2. RowOK(t, s, issued, used)
      BY <1>1
    <3>3. /\ a.id = IF t \in Owned THEN o ELSE s.id
          /\ a.org = o /\ a.by = s.by /\ a.data = s.data /\ a = Row(a.id, a.org, a.by, a.data)
      BY <1>2, <3>1
    <3>4. t = "users" \/ t \in Numbered => t \notin Owned
      BY DEF Owned, Numbered
    <3> HIDE DEF image, table
    <3> QED
      BY <3>2, <3>3, <3>4 DEF RowOK
  <2>3. ASSUME NEW a \in image, NEW b \in image,
               a.id = b.id \/ (t = "users" /\ a.data.email = b.data.email)
        PROVE  a = b
    <3>1. PICK r \in table : a = Remapped(r, o)
      OBVIOUS
    <3>2. PICK s \in table : b = Remapped(s, o)
      OBVIOUS
    <3>3. r.id = s.id \/ (t = "users" /\ r.data.email = s.data.email)
      <4>1. CASE t \in Owned
        <5>1. r.id = r.org /\ s.id = s.org /\ r.org = file.org /\ s.org = file.org
          BY <1>1, <4>1 DEF RowOK
        <5> QED
          BY <5>1
      <4>2. CASE t \notin Owned
        BY <1>2, <2>3, <3>1, <3>2, <4>2
      <4> QED
        BY <4>1, <4>2
    <3>4. r = s
      BY <1>1, <3>3 DEF TableOK
    <3> QED
      BY <3>1, <3>2, <3>4
  <2> QED
    BY <2>1, <2>2, <2>3 DEF TableOK
<1>4. g.id = o /\ g.org = o /\ g.by = NoUser /\ g = Row(g.id, g.org, g.by, g.data)
  BY DEF Row
<1>5. ASSUME t \in {"licenses", "state"} PROVE TableOK(t, {g}, issued, used)
  <2>1. t \in Owned /\ t # "users" /\ t \notin Numbered
    BY <1>5 DEF Owned, Numbered
  <2> HIDE DEF g
  <2>2. RowOK(t, g, issued, used)
    BY <1>4, <2>1 DEF RowOK
  <2>3. IsFiniteSet({g})
    BY FS_Singleton
  <2> QED
    BY <2>1, <2>2, <2>3 DEF TableOK
<1>6. Given(t, o) = IF t \in {"licenses", "state"} /\ table = {} THEN {g} ELSE image
  BY DEF Given
<1>7. \A a \in image : a.org = o /\ \E s \in table : a = Remapped(s, o)
  BY <1>2
<1>8. table # {} => image # {}
  OBVIOUS
<1> HIDE DEF g
<1>9. CASE t \in {"licenses", "state"} /\ table = {}
  BY <1>4, <1>5, <1>6, <1>9
<1>10. CASE ~ (t \in {"licenses", "state"} /\ table = {})
  BY <1>3, <1>6, <1>7, <1>8, <1>10
<1> QED
  BY <1>9, <1>10

\* A bundle of one state refers to its own users, whom it brings first.
LEMMA FilledHolds ==
    ASSUME issued \in Nat, FileOK, file.org # NoOrg, ~ file.torn, NEW o \in Orgs \cap used,
           NEW db, ~ Dangling(db), NEW k \in 1..10
    PROVE  ~ Dangling(Filled(db, o, k))
<1> DEFINE new == Filled(db, o, k)
           filled == First(k, Exported)
<1>1. \A t \in Tables : new[t] = IF t \in filled THEN db[t] \cup Given(t, o) ELSE db[t]
  BY DEF Filled
<1>2. {"orgs", "users"} \subseteq Tables
  BY TablesAre
<1>3. "orgs" \in filled /\ \A t \in filled : t = "orgs" \/ "users" \in filled
  <2>1. \A t : t \in filled <=> \E j \in 1..k : t = Exported[j]
    BY DEF First
  <2>2. Exported[1] = "orgs" /\ Exported[2] = "users" /\ 1 \in 1..k
    BY DEF Exported
  <2> HIDE DEF filled
  <2>3. ASSUME NEW t \in filled PROVE t = "orgs" \/ "users" \in filled
    <3>1. PICK j \in 1..k : t = Exported[j]
      BY <2>1
    <3>2. CASE j = 1
      BY <2>2, <3>1, <3>2
    <3>3. CASE j # 1
      <4>1. 2 \in 1..k
        BY <3>3
      <4> QED
        BY <2>1, <2>2, <4>1
    <3> QED
      BY <3>2, <3>3
  <2> QED
    BY <2>1, <2>2, <2>3
<1>4. /\ "orgs" \notin {"licenses", "state"} /\ "users" \notin {"licenses", "state"}
      /\ file.rows["orgs"] # {} /\ OfOneState(file, 10)
  BY TablesAre DEF FileOK, BundleOK
<1>5. o \in Ids(Given("orgs", o))
  <2>1. PICK s \in file.rows["orgs"] : TRUE
    BY <1>4
  <2>2. Remapped(s, o) \in Given("orgs", o) /\ TableOK("orgs", Given("orgs", o), issued, used)
        /\ Remapped(s, o).org = o
    BY <1>2, <1>4, GivenOK
  <2>3. Remapped(s, o).id = o
    BY <2>2 DEF TableOK, RowOK, Owned
  <2> QED
    BY <2>2, <2>3 DEF Ids
<1>6. ASSUME NEW t \in Tables \ {"tokens"}, NEW g \in Given(t, o), g.by # NoUser
      PROVE  g.by \in Ids(Given("users", o))
  <2>1. PICK s \in file.rows[t] : g = Remapped(s, o)
    BY <1>6, GivenOK
  <2>2. s.by = g.by
    BY <2>1 DEF Remapped, Row
  <2>3. s \in file.start[t]
    <3>1. PICK j \in 1..10 : t = Exported[j]
      BY TablesAre DEF First
    <3>2. file.rows[t] = Part(t, file.start[t])
      BY <1>4, <3>1 DEF OfOneState
    <3> QED
      BY <3>2 DEF Part, Taken
  <2>4. PICK u \in file.start["users"] : u.id = s.by
    BY <1>4, <1>6, <2>2, <2>3 DEF OfOneState, Coherent
  <2>5. u \in file.rows["users"]
    <3>1. Exported[2] = "users" /\ 2 \in 1..10 /\ ~ Limited("users")
      BY DEF Exported, Limited
    <3> QED
      BY <1>4, <2>4, <3>1 DEF OfOneState, Part
  <2>6. Remapped(u, o) \in Given("users", o)
    BY <1>2, <1>4, <2>5, GivenOK
  <2>7. Remapped(u, o).id = u.id
    <3>1. RowOK("users", u, issued, used) /\ u.org = file.org /\ "users" \notin Owned
      BY <1>2, <2>5 DEF FileOK, BundleOK, TablesOK, TableOK, Owned
    <3> QED
      BY <1>2, <3>1, RemappedIs
  <2> QED
    BY <2>2, <2>4, <2>6, <2>7 DEF Ids
<1> HIDE DEF new
<1>7. ASSUME NEW t \in Tables \ {"orgs", "errors"}, NEW r \in new[t]
      PROVE  r.org \in Ids(new["orgs"]) /\ r.by \in Ids(new["users"]) \cup {NoUser}
  <2>1. Ids(db["orgs"]) \subseteq Ids(new["orgs"]) /\ Ids(db["users"]) \subseteq Ids(new["users"])
    BY <1>1, <1>2 DEF Ids
  <2>2. CASE r \in db[t]
    BY <2>1, <2>2, References
  <2>3. CASE t \in filled /\ r \in Given(t, o)
    <3>1. r.org = o /\ t # "tokens"
      <4>1. t # "tokens"
        <5>1. PICK j \in 1..k : t = Exported[j]
          BY <2>3 DEF First
        <5>2. j \in 1..10
          OBVIOUS
        <5>3. t \in First(10, Exported)
          BY <5>1, <5>2 DEF First
        <5> QED
          BY <5>3, TablesAre
      <4> QED
        BY <2>3, <4>1, GivenOK
    <3>2. "users" \in filled
      BY <1>3, <2>3
    <3>3. /\ new["orgs"] = db["orgs"] \cup Given("orgs", o)
          /\ new["users"] = db["users"] \cup Given("users", o)
      BY <1>1, <1>2, <1>3, <3>2
    <3>4. o \in Ids(new["orgs"]) /\ Ids(Given("users", o)) \subseteq Ids(new["users"])
      BY <1>5, <3>3 DEF Ids
    <3> QED
      BY <1>6, <2>3, <3>1, <3>4
  <2> QED
    BY <1>1, <2>2, <2>3
<1> QED
  BY <1>7 DEF Dangling, new

Imported(o) == Filled(Gone(rows, o), o, Len(Exported))

LEMMA BundleImportedIs ==
    ASSUME IInv, file.org # NoOrg, NEW o \in Orgs \cap used
    PROVE  /\ BundleImported(o).db = Imported(o)
           /\ BundleImported(o).why = "ok" =>
                 /\ ~ EmailsRegisteredElsewhere(o)
                 /\ ~ Dangling(Imported(o))
                 /\ \A t \in Tables \ {"tokens"} : Ids(Given(t, o)) \cap Ids(Gone(rows, o)[t]) = {}
           /\ ~ file.torn /\ doubtful \subseteq {o} => BundleImported(o).why # "reference"
<1> DEFINE emptied == OrgDeleted(o)
           twice == {n \in 1..Len(Exported) :
                        Ids(Given(Exported[n], o)) \cap Ids(emptied.db[Exported[n]]) # {}}
           loose == {n \in 1..Len(Exported) : Dangling(Filled(emptied.db, o, n))}
           why == IF EmailsRegisteredElsewhere(o) THEN "email"
                  ELSE IF emptied.why # "ok" THEN emptied.why
                  ELSE IF \E n \in twice : \A m \in loose : n <= m THEN "id"
                  ELSE IF loose # {} THEN "reference"
                  ELSE "ok"
<1>1. BundleImported(o) = [db |-> Filled(emptied.db, o, Len(Exported)), why |-> why]
  BY DEF BundleImported
<1>2. /\ emptied.db = Gone(rows, o) /\ emptied.why \in {"ok", "reference"}
      /\ emptied.why = "ok" => ~ Dangling(Gone(rows, o))
      /\ doubtful \subseteq {o} => emptied.why = "ok"
  BY OrgDeletedIs
<1>3. Len(Exported) = 10 /\ 10 \in 1..10
  BY TablesAre
<1>4. BundleImported(o).db = Imported(o) /\ BundleImported(o).why = why
  <2> HIDE DEF emptied, why
  <2> QED
    BY <1>1, <1>2 DEF Imported
<1>5. ASSUME why = "ok"
      PROVE  /\ ~ EmailsRegisteredElsewhere(o) /\ loose = {} /\ twice = {}
  <2> HIDE DEF emptied, twice, loose
  <2> QED
    BY <1>2, <1>5
<1>6. ASSUME why = "ok"
      PROVE  /\ ~ Dangling(Imported(o))
             /\ \A t \in Tables \ {"tokens"} : Ids(Given(t, o)) \cap Ids(Gone(rows, o)[t]) = {}
  <2>1. ~ Dangling(Imported(o))
    <3>1. 10 \notin loose
      BY <1>5, <1>6
    <3> QED
      BY <1>2, <1>3, <3>1 DEF Imported
  <2>2. ASSUME NEW t \in Tables \ {"tokens"}
        PROVE  Ids(Given(t, o)) \cap Ids(Gone(rows, o)[t]) = {}
    <3>1. PICK n \in 1..10 : t = Exported[n]
      BY TablesAre DEF First
    <3>2. n \notin twice
      BY <1>5, <1>6
    <3> QED
      BY <1>2, <1>3, <3>1, <3>2
  <2> QED
    BY <2>1, <2>2
<1>7. ASSUME ~ file.torn, doubtful \subseteq {o} PROVE why # "reference"
  <2>1. emptied.why = "ok" /\ ~ Dangling(emptied.db)
    BY <1>2, <1>7
  <2>2. issued \in Nat /\ FileOK
    BY DEF IInv
  <2> HIDE DEF emptied
  <2>3. \A n \in 1..10 : ~ Dangling(Filled(emptied.db, o, n))
    BY <1>7, <2>1, <2>2, FilledHolds
  <2>4. loose = {}
    BY <1>3, <2>3
  <2> HIDE DEF loose, twice
  <2> QED
    BY <2>1, <2>4
<1> HIDE DEF why
<1> QED
  BY <1>4, <1>5, <1>6, <1>7

LEMMA ImportedIs ==
    ASSUME IInv, file.org # NoOrg, NEW o \in Orgs \cap used, BundleImported(o).why = "ok",
           NEW doubt, doubtful \ {o} \subseteq doubt, file.torn => o \in doubt
    PROVE  /\ Sound(Imported(o), issued, used) /\ Coherent(Imported(o), doubt)
           /\ o \in Ids(Imported(o)["orgs"])
           /\ \A x \in Orgs \ {o} : Of(Imported(o), x) = Of(rows, x)
           /\ \A u \in rows["users"] : u.org # o => HasUser(Imported(o), u.id, u.org)
           /\ \A t \in Tables \ {"tokens"} : \A r \in Imported(o)[t] : r.org = o <=> r \in Given(t, o)
<1> DEFINE db == Gone(rows, o)
           new == Imported(o)
<1>1. /\ TablesOK(db, issued, used) /\ Equipped(db) /\ Coherent(db, doubtful \ {o})
      /\ \A x \in Orgs \ {o} : Of(db, x) = Of(rows, x)
      /\ \A u \in rows["users"] : u.org # o => HasUser(db, u.id, u.org)
      /\ \A t \in Tables : db[t] = {r \in rows[t] : r.org # o}
      /\ issued \in Nat /\ FileOK
  BY GoneIs DEF IInv
<1>2. /\ ~ EmailsRegisteredElsewhere(o) /\ ~ Dangling(new)
      /\ \A t \in Tables \ {"tokens"} : Ids(Given(t, o)) \cap Ids(db[t]) = {}
  BY BundleImportedIs
<1>3. /\ new = [t \in Tables |-> new[t]] /\ new["tokens"] = db["tokens"]
      /\ \A t \in Tables \ {"tokens"} : new[t] = db[t] \cup Given(t, o)
  BY TablesAre DEF Imported, Filled
<1>4. /\ {"orgs", "users", "licenses", "state"} \subseteq Tables \ {"tokens"}
      /\ "tokens" \notin {"licenses", "state"} /\ "tokens" \in Tables
  BY TablesAre
<1> HIDE DEF db, new
<1>5. \A t \in Tables : db[t] \subseteq new[t]
  BY <1>3
<1>6. ASSUME NEW t \in Tables \ {"tokens"}
      PROVE  /\ TableOK(t, Given(t, o), issued, used)
             /\ \A g \in Given(t, o) : g.org = o
             /\ t = "users" => \A g \in Given(t, o) : \E s \in file.rows[t] : g = Remapped(s, o)
             /\ t \in {"licenses", "state"} => Given(t, o) # {}
             /\ t \notin {"licenses", "state"} => Given(t, o) = {Remapped(s, o) : s \in file.rows[t]}
  BY <1>1, GivenOK
<1>7. ASSUME NEW t \in Tables PROVE TableOK(t, new[t], issued, used)
  <2>1. CASE t = "tokens"
    BY <1>1, <1>3, <2>1 DEF TablesOK
  <2>2. CASE t # "tokens"
    <3> DEFINE given == Given(t, o)
    <3>1. /\ TableOK(t, db[t], issued, used) /\ TableOK(t, given, issued, used)
          /\ Ids(given) \cap Ids(db[t]) = {} /\ new[t] = db[t] \cup given
      BY <1>1, <1>2, <1>3, <1>6, <2>2 DEF TablesOK
    <3>2. ASSUME t = "users", NEW a \in given, NEW b \in db[t] PROVE a.data.email # b.data.email
      <4>1. PICK s \in file.rows["users"] : a = Remapped(s, o)
        BY <1>6, <2>2, <3>2
      <4>2. a.data = s.data
        BY <4>1 DEF Remapped, Row
      <4>3. b \in rows["users"] /\ b.org # o
        BY <1>1, <3>2
      <4> QED
        BY <1>2, <4>2, <4>3 DEF EmailsRegisteredElsewhere
    <3> HIDE DEF given
    <3>3. IsFiniteSet(new[t])
      <4>1. IsFiniteSet(db[t]) /\ IsFiniteSet(given)
        BY <3>1 DEF TableOK
      <4>2. IsFiniteSet(db[t] \cup given)
        BY <4>1, FS_Union
      <4> QED
        BY <3>1, <4>2
    <3>4. ASSUME NEW a \in given, NEW b \in db[t] PROVE a.id # b.id
      BY <3>1 DEF Ids
    <3>5. \A r \in new[t] : RowOK(t, r, issued, used)
      BY <3>1 DEF TableOK
    <3>6. \A r, s \in new[t] : r.id = s.id => r = s
      BY <3>1, <3>4 DEF TableOK
    <3>7. t = "users" => \A r, s \in new[t] : r.data.email = s.data.email => r = s
      BY <3>1, <3>2 DEF TableOK
    <3> QED
      BY <3>3, <3>5, <3>6, <3>7 DEF TableOK
  <2> QED
    BY <2>1, <2>2
<1>8. TablesOK(new, issued, used)
  BY <1>3, <1>7 DEF TablesOK
<1>9. ASSUME NEW x \in Ids(new["orgs"]) PROVE x \in Ids(db["orgs"]) \/ x = o
  <2>1. PICK r \in new["orgs"] : r.id = x
    BY DEF Ids
  <2>2. r.id = r.org
    BY <1>4, <1>7, <2>1 DEF TableOK, RowOK, Owned
  <2> QED
    BY <1>3, <1>4, <1>6, <2>1, <2>2 DEF Ids
<1>10. o \in Ids(new["orgs"])
  <2>1. PICK s \in file.rows["orgs"] : TRUE
    BY <1>1 DEF FileOK, BundleOK
  <2>2. Remapped(s, o) \in new["orgs"] /\ Remapped(s, o).org = o
    BY <1>3, <1>4, <1>6
  <2>3. Remapped(s, o).id = o
    BY <1>4, <1>7, <2>2 DEF TableOK, RowOK, Owned
  <2> QED
    BY <2>2, <2>3 DEF Ids
<1>11. Equipped(new)
  <2> SUFFICES ASSUME NEW x \in Ids(new["orgs"]), NEW t \in {"licenses", "state"}
               PROVE  \E r \in new[t] : r.org = x
    BY DEF Equipped
  <2>1. CASE x \in Ids(db["orgs"])
    BY <1>1, <1>4, <1>5, <2>1 DEF Equipped
  <2>2. CASE x = o
    BY <1>3, <1>4, <1>6, <2>2
  <2> QED
    BY <1>9, <2>1, <2>2
<1>12. \A t \in Tables \ {"tokens"} : \A r \in new[t] : r.org = o <=> r \in Given(t, o)
  <2> SUFFICES ASSUME NEW t \in Tables \ {"tokens"}, NEW r \in new[t]
               PROVE  r.org = o <=> r \in Given(t, o)
    OBVIOUS
  <2>1. r \in db[t] => r.org # o
    BY <1>1
  <2> QED
    BY <1>3, <1>6, <2>1
<1>13. ASSUME ~ file.torn, NEW t \in Tables, NEW r \in new[t], r.org = o, r.by # NoUser
       PROVE  \E u \in new["users"] : u.id = r.by /\ u.org = o
  <2>0. t # "tokens"
    <3>1. ASSUME NEW s \in new["tokens"] PROVE s.org # o
      BY <1>1, <1>3, <1>4
    <3> QED
      BY <1>13, <3>1
  <2>1. r \in Given(t, o)
    BY <1>12, <1>13, <2>0
  <2>2. PICK s \in file.rows[t] : r = Remapped(s, o)
    BY <1>1, <1>13, <2>1, GivenOK
  <2>3. s.by = r.by /\ s.org = file.org
    BY <1>1, <2>2 DEF Remapped, Row, FileOK, BundleOK
  <2>4. OfOneState(file, 10)
    BY <1>1, <1>13, TablesAre DEF FileOK, BundleOK
  <2>5. s \in file.start[t]
    <3>1. PICK j \in 1..10 : t = Exported[j]
      BY <2>0, TablesAre DEF First
    <3>2. file.rows[t] = Part(t, file.start[t])
      BY <2>4, <3>1 DEF OfOneState
    <3> QED
      BY <3>2 DEF Part, Taken
  <2>6. PICK u \in file.start["users"] : u.id = s.by
    BY <1>13, <2>3, <2>4, <2>5 DEF OfOneState, Coherent
  <2>7. u \in file.rows["users"]
    <3>1. Exported[2] = "users" /\ 2 \in 1..10 /\ ~ Limited("users")
      BY DEF Exported, Limited
    <3> QED
      BY <2>4, <2>6, <3>1 DEF OfOneState, Part
  <2>8. Remapped(u, o) \in new["users"]
    BY <1>3, <1>4, <1>6, <2>7
  <2>9. Remapped(u, o).id = u.id /\ Remapped(u, o).org = o
    <3>1. RowOK("users", u, issued, used) /\ u.org = file.org /\ "users" \notin Owned
      BY <1>1, <1>4, <2>7 DEF FileOK, BundleOK, TablesOK, TableOK, Owned
    <3> QED
      BY <1>1, <1>4, <3>1, RemappedIs
  <2> QED
    BY <2>3, <2>6, <2>8, <2>9
<1>14. ASSUME ~ file.torn PROVE \E u \in new["users"] : u.org = o
  <2>1. OfOneState(file, 10)
    BY <1>1, <1>14, TablesAre DEF FileOK, BundleOK
  <2>2. PICK u \in file.start["users"] : TRUE
    BY <2>1 DEF OfOneState
  <2>3. u \in file.rows["users"]
    <3>1. Exported[2] = "users" /\ 2 \in 1..10 /\ ~ Limited("users")
      BY DEF Exported, Limited
    <3> QED
      BY <2>1, <2>2, <3>1 DEF OfOneState, Part
  <2> QED
    BY <1>3, <1>4, <1>6, <2>3
<1>15. Coherent(new, doubt)
  <2>1. ASSUME NEW t \in Tables, NEW r \in new[t], r.by # NoUser, r.org \notin doubt
        PROVE  \E u \in new["users"] : u.id = r.by /\ u.org = r.org
    <3>1. CASE r.org = o
      BY <1>13, <2>1, <3>1
    <3>2. CASE r.org # o
      <4>1. r \in db[t]
        BY <1>3, <1>6, <3>2
      <4>2. r.org \notin doubtful \ {o}
        BY <2>1
      <4> QED
        BY <1>1, <1>4, <1>5, <2>1, <4>1, <4>2 DEF Coherent
    <3> QED
      BY <3>1, <3>2
  <2>2. ASSUME NEW x \in Ids(new["orgs"]) \ doubt PROVE \E u \in new["users"] : u.org = x
    <3>1. CASE x = o
      BY <1>14, <2>2, <3>1
    <3>2. CASE x # o
      <4>1. x \in Ids(db["orgs"]) \ (doubtful \ {o})
        BY <1>9, <3>2
      <4>2. PICK u \in db["users"] : u.org = x
        BY <1>1, <4>1 DEF Coherent
      <4> QED
        BY <1>4, <1>5, <4>2
    <3> QED
      BY <3>1, <3>2
  <2> QED
    BY <2>1, <2>2 DEF Coherent
<1>16. ASSUME NEW x \in Orgs \ {o} PROVE Of(new, x) = Of(rows, x)
  <2>1. ASSUME NEW t \in Tables, NEW r, r.org = x PROVE r \in rows[t] <=> r \in new[t]
    <3>1. r \in rows[t] <=> r \in db[t]
      BY <1>1, <2>1
    <3>2. t # "tokens" => r \notin Given(t, o)
      BY <1>6, <2>1
    <3> QED
      BY <1>3, <3>1, <3>2
  <2> QED
    BY <2>1, OfIs
<1>17. \A u \in rows["users"] : u.org # o => HasUser(new, u.id, u.org)
  BY <1>1, <1>4, <1>5 DEF HasUser
<1> QED
  BY <1>2, <1>8, <1>10, <1>11, <1>12, <1>15, <1>16, <1>17 DEF Sound, new

-----------------------------------------------------------------------------
(* A user deleted                                                          *)

Seats(u) == {r.org : r \in {s \in rows["users"] : s.id = u}}

LEMMA UserDeletedTables ==
    ASSUME IInv, NEW d \in deleting
    PROVE  LET u == d.user.id
               new == UserDeleted(d).db
               entry == Row(issued + 1, d.user.org, NoUser, "event")
           IN  /\ new = [t \in Tables |-> new[t]]
               /\ \A t \in {"tokens", "keys"} : new[t] = {r \in rows[t] : r.by # u}
               /\ new["audit"] = {IF r.by = u THEN [r EXCEPT !.by = NoUser] ELSE r : r \in rows["audit"]}
                                 \cup {entry}
               /\ new["runs"] = {IF r.by = u /\ r.org = d.user.org
                                 THEN [r EXCEPT !.by = d.to] ELSE r : r \in rows["runs"]}
               /\ new["users"] = {r \in rows["users"] : r.id # u}
               /\ \A t \in Tables \ {"tokens", "keys", "audit", "runs", "users"} : new[t] = rows[t]
               /\ UserDeleted(d).why = "ok" => ~ Dangling(new)
<1> DEFINE u == d.user.id
           own(t) == {r \in rows[t] : r.by = u}
           cleared == [rows EXCEPT !["tokens"] = @ \ own("tokens"), !["keys"] = @ \ own("keys"),
                                   !["audit"] = {IF r.by = u THEN [r EXCEPT !.by = NoUser] ELSE r : r \in @}]
           moved == [cleared EXCEPT !["runs"] = {IF r.by = u /\ r.org = d.user.org
                                                  THEN [r EXCEPT !.by = d.to] ELSE r : r \in @}]
           gone == [moved EXCEPT !["users"] = {r \in @ : r.id # u}]
           done == Audited(gone, d.user.org, NoUser)
           entry == Row(issued + 1, d.user.org, NoUser, "event")
           why == IF Dangling(moved) \/ Dangling(gone) \/ Dangling(done) THEN "reference" ELSE "ok"
<1>1. UserDeleted(d) = [db |-> done, why |-> why]
  BY DEF UserDeleted
<1>2. /\ {"tokens", "keys", "audit", "runs", "users"} \subseteq Tables
      /\ rows = [t \in Tables |-> rows[t]]
  BY TablesAre DEF IInv, Sound, TablesOK
<1>3. /\ cleared = [t \in Tables |-> cleared[t]]
      /\ \A t \in {"tokens", "keys"} : cleared[t] = {r \in rows[t] : r.by # u}
      /\ cleared["audit"] = {IF r.by = u THEN [r EXCEPT !.by = NoUser] ELSE r : r \in rows["audit"]}
      /\ \A t \in Tables \ {"tokens", "keys", "audit"} : cleared[t] = rows[t]
  BY <1>2
<1> HIDE DEF cleared
<1>4. /\ moved = [t \in Tables |-> moved[t]]
      /\ moved["runs"] = {IF r.by = u /\ r.org = d.user.org
                           THEN [r EXCEPT !.by = d.to] ELSE r : r \in cleared["runs"]}
      /\ \A t \in Tables \ {"runs"} : moved[t] = cleared[t]
  BY <1>2, <1>3
<1> HIDE DEF moved
<1>5. /\ gone = [t \in Tables |-> gone[t]]
      /\ gone["users"] = {r \in moved["users"] : r.id # u}
      /\ \A t \in Tables \ {"users"} : gone[t] = moved[t]
  BY <1>2, <1>4
<1> HIDE DEF gone, u
<1>6. /\ done = [t \in Tables |-> done[t]]
      /\ done["audit"] = gone["audit"] \cup {entry}
      /\ \A t \in Tables \ {"audit"} : done[t] = gone[t]
  BY <1>2, <1>5, WithIs DEF Audited
<1> HIDE DEF done, entry
<1>7. UserDeleted(d).db = done /\ (UserDeleted(d).why = "ok" => ~ Dangling(done))
  BY <1>1
<1>8. /\ done = [t \in Tables |-> done[t]]
      /\ \A t \in {"tokens", "keys"} : done[t] = {r \in rows[t] : r.by # u}
      /\ done["audit"] = {IF r.by = u THEN [r EXCEPT !.by = NoUser] ELSE r : r \in rows["audit"]}
                         \cup {entry}
      /\ done["runs"] = {IF r.by = u /\ r.org = d.user.org
                          THEN [r EXCEPT !.by = d.to] ELSE r : r \in rows["runs"]}
      /\ done["users"] = {r \in rows["users"] : r.id # u}
      /\ \A t \in Tables \ {"tokens", "keys", "audit", "runs", "users"} : done[t] = rows[t]
  <2>1. /\ \A t \in {"tokens", "keys"} : done[t] = cleared[t]
        /\ gone["audit"] = cleared["audit"] /\ done["runs"] = moved["runs"]
        /\ cleared["runs"] = rows["runs"] /\ done["users"] = gone["users"]
        /\ moved["users"] = rows["users"]
        /\ \A t \in Tables \ {"tokens", "keys", "audit", "runs", "users"} : done[t] = rows[t]
    BY <1>2, <1>3, <1>4, <1>5, <1>6
  <2> QED
    BY <1>3, <1>4, <1>5, <1>6, <2>1
<1> QED
  BY <1>7, <1>8 DEF u, entry

\* the rows in hit refer to another user
Reassigned(table, hit, by) == {IF r \in hit THEN [r EXCEPT !.by = by] ELSE r : r \in table}

LEMMA TableRewritten ==
    ASSUME NEW t, NEW table, NEW n, NEW seen, TableOK(t, table, n, seen), t # "users", t \notin Plain,
           NEW hit, NEW by \in Users \cup {NoUser}
    PROVE  TableOK(t, Reassigned(table, hit, by), n, seen)
<1> DEFINE change(r) == IF r \in hit THEN [r EXCEPT !.by = by] ELSE r
           h == [r \in table |-> change(r)]
           image == {change(r) : r \in table}
<1>1. ASSUME NEW r \in table PROVE RowOK(t, change(r), n, seen) /\ change(r).id = r.id
  <2>1. RowOK(t, r, n, seen) /\ r = Row(r.id, r.org, r.by, r.data)
    BY DEF TableOK, RowOK
  <2>2. CASE r \in hit
    <3>1. change(r) = Row(r.id, r.org, by, r.data)
      BY <2>1, <2>2, RowExcept
    <3> HIDE DEF change
    <3>2. /\ change(r).id = r.id /\ change(r).org = r.org /\ change(r).by = by /\ change(r).data = r.data
          /\ change(r) = Row(change(r).id, change(r).org, change(r).by, change(r).data)
      BY <3>1 DEF Row
    <3> QED
      BY <2>1, <3>2 DEF RowOK
  <2>3. CASE r \notin hit
    BY <2>1, <2>3
  <2> QED
    BY <2>2, <2>3
<1> HIDE DEF change
<1>2. h \in Surjection(table, image) /\ \A r \in table : h[r] = change(r)
  BY DEF Surjection
<1> HIDE DEF h, image
<1>3. TableOK(t, image, n, seen)
  BY <1>1, <1>2, TableMapped
<1> QED
  BY <1>3 DEF image, change, Reassigned

LEMMA UserDeletedIs ==
    ASSUME IInv, NEW d \in deleting, UserDeleted(d).why = "ok",
           NEW at, at = {d.user.org} \cup Seats(d.user.id),
           NEW doubt, doubt = IF d.stale THEN doubtful \cup at ELSE doubtful
    PROVE  /\ Sound(UserDeleted(d).db, issued + 1, used) /\ Coherent(UserDeleted(d).db, doubt)
           /\ \A x \in Orgs \ (at \cup doubtful) : Of(UserDeleted(d).db, x) = Of(rows, x)
           /\ \A v \in rows["users"] : v.id # d.user.id => HasUser(UserDeleted(d).db, v.id, v.org)
<1> DEFINE u == d.user.id
           new == UserDeleted(d).db
           o == d.user.org
           entry == Row(issued + 1, o, NoUser, "event")
           taken == {r \in rows["runs"] : r.by = u /\ r.org = o}
           logged == {r \in rows["audit"] : r.by = u}
<1>1. /\ new = [t \in Tables |-> new[t]]
      /\ \A t \in {"tokens", "keys"} : new[t] = {r \in rows[t] : r.by # u}
      /\ new["audit"] = {IF r.by = u THEN [r EXCEPT !.by = NoUser] ELSE r : r \in rows["audit"]}
                        \cup {entry}
      /\ new["runs"] = {IF r.by = u /\ r.org = o THEN [r EXCEPT !.by = d.to] ELSE r : r \in rows["runs"]}
      /\ new["users"] = {r \in rows["users"] : r.id # u}
      /\ \A t \in Tables \ {"tokens", "keys", "audit", "runs", "users"} : new[t] = rows[t]
      /\ ~ Dangling(new)
  BY UserDeletedTables
<1>2. /\ d.to \in Users /\ d.to # u /\ u \in Users /\ o \in Orgs \cap used
      /\ ~ d.stale => HasUser(rows, u, o) /\ HasUser(rows, d.to, o)
  BY DEF IInv, DeletionsOK, DeletionOK, RowOK
<1>3. /\ Sound(rows, issued + 1, used) /\ Coherent(rows, doubtful) /\ issued \in Nat
      /\ \A t \in Numbered : issued + 1 \notin Ids(rows[t])
  <2>1. used \subseteq used
    OBVIOUS
  <2> QED
    BY <2>1, RowsGrown
<1>4. entry.id = issued + 1 /\ entry.org = o /\ entry.by = NoUser
      /\ entry = Row(entry.id, entry.org, entry.by, entry.data)
  BY DEF Row
<1>5. /\ Tables = {"tokens", "keys", "runs", "requests", "ledger", "state", "errors", "licenses",
                   "audit", "users", "orgs"}
      /\ Plain = {"orgs", "licenses", "state", "users", "errors"}
      /\ "audit" \in Numbered /\ "audit" \notin Plain /\ "audit" \notin Owned
  BY TablesAre DEF Plain, Owned, Numbered
<1> HIDE DEF u, new, o, entry
<1>6. /\ new["audit"] = Reassigned(rows["audit"], logged, NoUser) \cup {entry}
      /\ new["runs"] = Reassigned(rows["runs"], taken, d.to)
  BY <1>1 DEF Reassigned
<1>7. \A t \in Tables : TableOK(t, rows[t], issued + 1, used)
  BY <1>3 DEF Sound, TablesOK
<1>8. TableOK("audit", new["audit"], issued + 1, used)
  <2> DEFINE table == Reassigned(rows["audit"], logged, NoUser)
  <2>1. TableOK("audit", rows["audit"], issued + 1, used)
    BY <1>5, <1>7
  <2>2. TableOK("audit", table, issued + 1, used)
    BY <1>5, <2>1, TableRewritten
  <2>3. \A s \in table : s.id # entry.id
    <3>1. \A r \in rows["audit"] : r.id # issued + 1 /\ r = Row(r.id, r.org, r.by, r.data)
      BY <1>3, <1>5, <2>1 DEF Ids, TableOK, RowOK
    <3>2. \A r \in rows["audit"] : [r EXCEPT !.by = NoUser].id = r.id
      BY <3>1 DEF Row
    <3>3. ASSUME NEW s \in table PROVE s.id # entry.id
      <4>1. PICK r \in rows["audit"] : s = IF r \in logged THEN [r EXCEPT !.by = NoUser] ELSE r
        BY DEF Reassigned
      <4>2. s.id = r.id
        BY <3>2, <4>1
      <4> QED
        BY <1>4, <3>1, <4>2
    <3> QED
      BY <3>3
  <2>4. RowOK("audit", entry, issued + 1, used)
    BY <1>2, <1>3, <1>4, <1>5 DEF RowOK
  <2> HIDE DEF table
  <2>5. TableOK("audit", table \cup {entry}, issued + 1, used)
    BY <2>2, <2>3, <2>4, TableGrows
  <2> QED
    BY <1>6, <2>5 DEF table
<1>9. TableOK("runs", new["runs"], issued + 1, used)
  <2>1. TableOK("runs", rows["runs"], issued + 1, used) /\ "runs" \notin Plain /\ "runs" # "users"
    BY <1>5, <1>7
  <2> QED
    BY <1>2, <1>6, <2>1, TableRewritten
<1>10. \A t \in {"tokens", "keys", "users"} : TableOK(t, new[t], issued + 1, used)
  <2> SUFFICES ASSUME NEW t \in {"tokens", "keys", "users"} PROVE TableOK(t, new[t], issued + 1, used)
    OBVIOUS
  <2>1. new[t] \in SUBSET rows[t] /\ TableOK(t, rows[t], issued + 1, used)
    BY <1>1, <1>5, <1>7
  <2> QED
    BY <2>1, PartOK
<1>11. TablesOK(new, issued + 1, used)
  <2>1. ASSUME NEW t \in Tables PROVE TableOK(t, new[t], issued + 1, used)
    <3>1. CASE t \in Tables \ {"tokens", "keys", "audit", "runs", "users"}
      BY <1>1, <1>7, <3>1
    <3>2. CASE t \in {"tokens", "keys", "audit", "runs", "users"}
      BY <1>8, <1>9, <1>10, <3>2
    <3> QED
      BY <3>1, <3>2
  <2> QED
    BY <1>1, <2>1 DEF TablesOK
<1>12. new["orgs"] = rows["orgs"] /\ new["licenses"] = rows["licenses"] /\ new["state"] = rows["state"]
  BY <1>1, <1>5
<1>13. Equipped(new)
  BY <1>3, <1>12 DEF Sound, Equipped
<1>14. ASSUME NEW v \in rows["users"], v.id # u PROVE HasUser(new, v.id, v.org)
  BY <1>1, <1>14 DEF HasUser
\* no row refers to the user any more, or the transaction would have failed
<1>15. ASSUME NEW t \in Tables, NEW r \in new[t] PROVE r.by # u
  <2>1. CASE t \in Plain
    <3>1. r.by = NoUser
      BY <1>11, <2>1 DEF TablesOK, TableOK, RowOK
    <3> QED
      BY <1>2, <3>1, RowsAssumption
  <2>2. CASE t \notin Plain
    <3>1. r.by \in Ids(new["users"]) \cup {NoUser}
      BY <1>1, <1>5, <2>2, References
    <3>2. u \notin Ids(new["users"])
      BY <1>1 DEF Ids
    <3> QED
      BY <1>2, <3>1, <3>2, RowsAssumption
  <2> QED
    BY <2>1, <2>2
\* what a row was before
<1>16. ASSUME NEW t \in Tables, NEW r \in new[t], r.by # NoUser
       PROVE  r \in rows[t] \/ (r.by = d.to /\ r.org = o)
  <2>1. CASE t = "audit"
    <3>1. PICK s \in rows["audit"] : r = IF s.by = u THEN [s EXCEPT !.by = NoUser] ELSE s
      BY <1>1, <1>4, <1>16, <2>1
    <3>2. s = Row(s.id, s.org, s.by, s.data)
      BY <1>5, <1>7 DEF TableOK, RowOK
    <3>3. [s EXCEPT !.by = NoUser].by = NoUser
      BY <3>2 DEF Row
    <3> QED
      BY <1>16, <2>1, <3>1, <3>3
  <2>2. CASE t = "runs"
    <3>1. PICK s \in rows["runs"] : r = IF s.by = u /\ s.org = o THEN [s EXCEPT !.by = d.to] ELSE s
      BY <1>1, <2>2
    <3>2. s = Row(s.id, s.org, s.by, s.data)
      BY <1>5, <1>7 DEF TableOK, RowOK
    <3>3. [s EXCEPT !.by = d.to].by = d.to /\ [s EXCEPT !.by = d.to].org = s.org
      BY <3>2 DEF Row
    <3> QED
      BY <2>2, <3>1, <3>3
  <2>3. CASE t \notin {"audit", "runs"}
    BY <1>1, <2>3
  <2> QED
    BY <2>1, <2>2, <2>3
<1>17. Coherent(new, doubt)
  <2>1. ASSUME NEW t \in Tables, NEW r \in new[t], r.by # NoUser, r.org \notin doubt
        PROVE  \E v \in new["users"] : v.id = r.by /\ v.org = r.org
    <3>1. r.by # u
      BY <1>15
    <3>2. CASE r \in rows[t]
      <4>1. PICK v \in rows["users"] : v.id = r.by /\ v.org = r.org
        BY <1>3, <2>1, <3>2 DEF Coherent
      <4> QED
        BY <1>14, <3>1, <4>1 DEF HasUser
    <3>3. CASE r.by = d.to /\ r.org = o
      <4>1. ~ d.stale
        BY <2>1, <3>3 DEF o
      <4>2. PICK v \in rows["users"] : v.id = d.to /\ v.org = o
        BY <1>2, <4>1 DEF HasUser
      <4> QED
        BY <1>2, <1>14, <3>3, <4>2 DEF HasUser
    <3> QED
      BY <1>16, <2>1, <3>2, <3>3
  <2>2. ASSUME NEW x \in Ids(new["orgs"]) \ doubt PROVE \E v \in new["users"] : v.org = x
    <3>1. PICK v \in rows["users"] : v.org = x
      BY <1>3, <1>12 DEF Coherent
    <3>2. CASE v.id # u
      BY <1>14, <3>1, <3>2 DEF HasUser
    <3>3. CASE v.id = u
      <4>1. x \in at
        BY <3>1, <3>3 DEF Seats, u
      <4>2. ~ d.stale
        BY <4>1
      <4>3. PICK w \in rows["users"] : w.id = u /\ w.org = o
        BY <1>2, <4>2 DEF HasUser
      <4>4. x = o
        BY <1>5, <1>7, <3>1, <3>3, <4>3 DEF TableOK
      <4>5. PICK z \in rows["users"] : z.id = d.to /\ z.org = o
        BY <1>2, <4>2 DEF HasUser
      <4> QED
        BY <1>2, <1>14, <4>4, <4>5 DEF HasUser
    <3> QED
      BY <3>2, <3>3
  <2> QED
    BY <2>1, <2>2 DEF Coherent
<1>18. ASSUME NEW x \in Orgs \ (at \cup doubtful) PROVE Of(new, x) = Of(rows, x)
  <2>1. x # o
    BY DEF o
  <2>2. ASSUME NEW t \in Tables, NEW r \in rows[t], r.org = x
        PROVE  r.by # u /\ (t = "users" => r.id # u)
    <3>1. ASSUME NEW v \in rows["users"], v.org = x PROVE v.id # u
      BY <3>1 DEF Seats, u
    <3>2. ASSUME r.by = u PROVE FALSE
      <4>1. u # NoUser
        BY <1>2, RowsAssumption
      <4>2. PICK v \in rows["users"] : v.id = r.by /\ v.org = r.org
        BY <1>3, <2>2, <3>2, <4>1 DEF Coherent
      <4> QED
        BY <2>2, <3>1, <3>2, <4>2
    <3> QED
      BY <2>2, <3>1, <3>2
  <2>3. ASSUME NEW t \in Tables, NEW r, r.org = x PROVE r \in rows[t] <=> r \in new[t]
    <3>1. r \in rows[t] => r \in new[t]
      BY <1>1, <2>2, <2>3
    <3>2. r \in new[t] => r \in rows[t]
      <4> SUFFICES ASSUME r \in new[t] PROVE r \in rows[t]
        OBVIOUS
      <4>1. CASE r.by # NoUser
        BY <1>16, <2>1, <2>3, <4>1
      <4>2. CASE r.by = NoUser
        <5>1. CASE t = "audit"
          <6>1. PICK s \in rows["audit"] : r = IF s.by = u THEN [s EXCEPT !.by = NoUser] ELSE s
            BY <1>1, <1>4, <2>1, <2>3, <5>1
          <6>2. s = Row(s.id, s.org, s.by, s.data)
            BY <1>5, <1>7 DEF TableOK, RowOK
          <6>3. [s EXCEPT !.by = NoUser].org = s.org
            BY <6>2 DEF Row
          <6>4. s.org = x
            BY <2>3, <6>1, <6>3
          <6>5. s.by # u
            BY <1>5, <2>2, <6>4
          <6> QED
            BY <5>1, <6>1, <6>5
        <5>2. CASE t = "runs"
          <6>1. PICK s \in rows["runs"] : r = IF s.by = u /\ s.org = o THEN [s EXCEPT !.by = d.to] ELSE s
            BY <1>1, <5>2
          <6>2. s = Row(s.id, s.org, s.by, s.data)
            BY <1>5, <1>7 DEF TableOK, RowOK
          <6>3. [s EXCEPT !.by = d.to].org = s.org
            BY <6>2 DEF Row
          <6> QED
            BY <2>1, <2>3, <5>2, <6>1, <6>3
        <5>3. CASE t \notin {"audit", "runs"}
          BY <1>1, <5>3
        <5> QED
          BY <5>1, <5>2, <5>3
      <4> QED
        BY <4>1, <4>2
    <3> QED
      BY <3>1, <3>2
  <2> QED
    BY <2>3, OfIs
<1> QED
  BY <1>1, <1>11, <1>13, <1>14, <1>17, <1>18 DEF Sound, new, u

-----------------------------------------------------------------------------
(* What a step keeps of the export, the bundle and the deletions           *)

LEMMA BundlesKept ==
    ASSUME IInv, issued' \in Nat, issued <= issued', used \subseteq used', NEW at,
           export' = IF export.org \in at THEN [export EXCEPT !.torn = TRUE] ELSE export,
           file' = file, doubtful' \subseteq doubtful \cup at,
           \A x \in Orgs \ (at \cup doubtful) : Of(rows', x) = Of(rows, x)
    PROVE  ExportOK' /\ FileOK'
<1>1. issued \in Nat /\ ExportOK /\ FileOK
  BY DEF IInv
<1>2. ASSUME NEW db, TablesOK(db, issued, used) PROVE TablesOK(db, issued', used')
  BY <1>1, <1>2, Grown
<1>3. FileOK'
  <2> SUFFICES ASSUME file.org # NoOrg PROVE BundleOK(file, Len(Exported))'
    BY DEF FileOK
  <2>1. BundleOK(file, Len(Exported))
    BY <1>1 DEF FileOK
  <2> QED
    BY <1>2, <2>1 DEF BundleOK
<1>4. ExportOK'
  <2> SUFFICES ASSUME export'.org # NoOrg
               PROVE  /\ DOMAIN export' = {"org", "step", "rows", "start", "torn"}
                      /\ export'.step \in 2..Len(Exported)
                      /\ BundleOK(export, export.step - 1)'
                      /\ ~ export'.torn =>
                            export'.org \notin doubtful' /\ Of(rows', export'.org) = export'.start
    BY DEF ExportOK
  <2> DEFINE e == [export EXCEPT !.torn = TRUE]
  <2>1. export.org # NoOrg
    <3>1. CASE export.org \in at
      <4>1. export' = e
        BY <3>1
      <4>2. e.org = export.org
        OBVIOUS
      <4> QED
        BY <4>1, <4>2
    <3> QED
      BY <3>1
  <2>2. /\ DOMAIN export = {"org", "step", "rows", "start", "torn"}
        /\ export.step \in 2..Len(Exported) /\ BundleOK(export, export.step - 1)
        /\ ~ export.torn => export.org \notin doubtful /\ Of(rows, export.org) = export.start
    BY <1>1, <2>1 DEF ExportOK
  <2>3. /\ export'.org = export.org /\ export'.step = export.step /\ export'.rows = export.rows
        /\ export'.start = export.start
        /\ DOMAIN export' = DOMAIN export
        /\ export'.torn = (export.torn \/ export.org \in at)
    <3>0. export.torn \in BOOLEAN
      BY <2>2 DEF BundleOK
    <3>1. CASE export.org \in at
      <4>1. export' = e
        BY <3>1
      <4>2. /\ e.org = export.org /\ e.step = export.step /\ e.rows = export.rows
            /\ e.start = export.start /\ e.torn = TRUE /\ DOMAIN e = DOMAIN export
        BY <2>2
      <4> HIDE DEF e
      <4> QED
        BY <3>1, <4>1, <4>2
    <3>2. CASE export.org \notin at
      BY <2>2, <3>0, <3>2
    <3> QED
      BY <3>1, <3>2
  <2> HIDE DEF e
  <2>4. BundleOK(export, export.step - 1)'
    <3>1. /\ export'.org \in Orgs \cap used'
          /\ export'.rows["orgs"] # {} /\ export'.torn \in BOOLEAN
      BY <2>2, <2>3 DEF BundleOK
    <3>2. ASSUME NEW db \in {export'.rows, export'.start}
          PROVE  TablesOK(db, issued', used') /\ \A t \in Tables : \A r \in db[t] : r.org = export'.org
      BY <1>2, <2>2, <2>3 DEF BundleOK
    <3>3. ASSUME ~ export'.torn PROVE OfOneState(export', export'.step - 1)
      <4>1. OfOneState(export, export.step - 1)
        BY <2>2, <2>3, <3>3 DEF BundleOK
      <4> QED
        BY <2>3, <4>1 DEF OfOneState
    <3> QED
      BY <3>1, <3>2, <3>3 DEF BundleOK
  <2>5. ASSUME ~ export'.torn
        PROVE  export'.org \notin doubtful' /\ Of(rows', export'.org) = export'.start
    <3>1. ~ export.torn /\ export.org \notin at /\ export.org \in Orgs
      BY <2>2, <2>3, <2>5 DEF BundleOK
    <3> QED
      BY <2>2, <2>3, <3>1
  <2> QED
    BY <2>2, <2>3, <2>4, <2>5
<1> QED
  BY <1>3, <1>4

LEMMA DeletionsKept ==
    ASSUME IInv, issued' \in Nat, issued <= issued', used \subseteq used',
           \A e \in deleting' :
              \E d \in deleting :
                 /\ e = d \/ e = [d EXCEPT !.stale = TRUE]
                 /\ ~ e.stale => HasUser(rows', d.user.id, d.user.org) /\ HasUser(rows', d.to, d.user.org)
    PROVE  DeletionsOK'
<1>1. issued \in Nat /\ DeletionsOK
  BY DEF IInv
<1> SUFFICES ASSUME NEW e \in deleting'
             PROVE  /\ DOMAIN e = {"user", "to", "stale"}
                    /\ RowOK("users", e.user, issued', used')
                    /\ e.to \in Users /\ e.to # e.user.id
                    /\ e.stale \in BOOLEAN
                    /\ ~ e.stale => HasUser(rows', e.user.id, e.user.org)
                                    /\ HasUser(rows', e.to, e.user.org)
  BY DEF DeletionsOK, DeletionOK
<1>2. PICK d \in deleting :
         /\ e = d \/ e = [d EXCEPT !.stale = TRUE]
         /\ ~ e.stale => HasUser(rows', d.user.id, d.user.org) /\ HasUser(rows', d.to, d.user.org)
  OBVIOUS
<1>3. /\ DOMAIN d = {"user", "to", "stale"}
      /\ RowOK("users", d.user, issued, used)
      /\ d.to \in Users /\ d.to # d.user.id /\ d.stale \in BOOLEAN
  BY <1>1 DEF DeletionsOK, DeletionOK
<1>4. RowOK("users", d.user, issued', used')
  BY <1>1, <1>3 DEF RowOK
<1>5. /\ [d EXCEPT !.stale = TRUE].user = d.user /\ [d EXCEPT !.stale = TRUE].to = d.to
      /\ [d EXCEPT !.stale = TRUE].stale = TRUE /\ DOMAIN [d EXCEPT !.stale = TRUE] = DOMAIN d
  BY <1>3
<1>6. e.user = d.user /\ e.to = d.to /\ e.stale \in BOOLEAN /\ DOMAIN e = DOMAIN d
  BY <1>2, <1>3, <1>5
<1> QED
  BY <1>2, <1>3, <1>4, <1>6

\* a request of an organization
LEMMA OrgStep ==
    ASSUME IInv, NEW o, NEW db, Write({o}, db),
           issued' = issued + 1, used \subseteq used',
           Advances(db, rows, issued + 1, used', doubtful, {o}),
           last' = [op |-> "other", org |-> o, why |-> "ok"],
           UNCHANGED <<file, deleting, doubtful>>
    PROVE  IInv'
<1>1. /\ rows' = db /\ issued \in Nat /\ issued' \in Nat /\ issued <= issued'
      /\ file' = file /\ deleting' = deleting /\ doubtful' = doubtful
      /\ export' = IF export.org \in {o} THEN [export EXCEPT !.torn = TRUE] ELSE export
  BY DEF IInv, Write
<1>2. /\ Sound(rows', issued', used') /\ Coherent(rows', doubtful')
      /\ \A x \in Orgs \ {o} : Of(rows', x) = Of(rows, x)
      /\ \A u \in rows["users"] : HasUser(rows', u.id, u.org)
  BY <1>1 DEF Advances
<1>3. ExportOK' /\ FileOK'
  <2>1. doubtful' \subseteq doubtful \cup {o} /\ \A x \in Orgs \ ({o} \cup doubtful) : Of(rows', x) = Of(rows, x)
    BY <1>1, <1>2
  <2> QED
    BY <1>1, <2>1, BundlesKept
<1>4. DeletionsOK'
  <2>1. ASSUME NEW e \in deleting, ~ e.stale
        PROVE  HasUser(rows', e.user.id, e.user.org) /\ HasUser(rows', e.to, e.user.org)
    <3>1. HasUser(rows, e.user.id, e.user.org) /\ HasUser(rows, e.to, e.user.org)
      BY <2>1 DEF IInv, DeletionsOK, DeletionOK
    <3>2. ASSUME NEW id, HasUser(rows, id, e.user.org) PROVE HasUser(rows', id, e.user.org)
      <4>1. PICK u \in rows["users"] : u.id = id /\ u.org = e.user.org
        BY <3>2 DEF HasUser
      <4>2. HasUser(rows', u.id, u.org)
        BY <1>2
      <4> QED
        BY <4>1, <4>2
    <3> QED
      BY <3>1, <3>2
  <2> QED
    BY <1>1, <2>1, DeletionsKept
<1>5. NothingDangles' /\ Restored'
  <2>1. last'.op = "other"
    OBVIOUS
  <2> QED
    BY <2>1 DEF NothingDangles, Restored
<1> QED
  BY <1>1, <1>2, <1>3, <1>4, <1>5 DEF IInv

-----------------------------------------------------------------------------
(* Every step keeps the invariant                                          *)

LEMMA ByUserStep ==
    ASSUME IInv, NEW u \in rows["users"],
           Generate(u) \/ RequestCredits(u) \/ CreateKey(u) \/ SignIn(u) \/ SwitchActive(u)
    PROVE  IInv'
<1>1. ASSUME NEW db, UserWrites(u.org, db), Advances(db, rows, issued + 1, used, doubtful, {u.org})
      PROVE  IInv'
  <2>1. Write({u.org}, db) /\ issued' = issued + 1 /\ used' = used
        /\ last' = [op |-> "other", org |-> u.org, why |-> "ok"]
        /\ UNCHANGED <<file, deleting, doubtful>>
    BY <1>1 DEF UserWrites
  <2>2. used \subseteq used' /\ Advances(db, rows, issued + 1, used', doubtful, {u.org})
    BY <1>1, <2>1
  <2> QED
    BY <2>1, <2>2, OrgStep
<1>2. {"requests", "keys", "tokens"} \subseteq Numbered \ {"errors", "audit"}
  BY TablesAre DEF Numbered, Owned
<1>3. ASSUME NEW t \in {"requests", "keys", "tokens"}, NEW data,
             UserWrites(u.org, Audited(With(rows, t, Row(issued + 1, u.org, u.id, data)), u.org, u.id))
      PROVE  IInv'
  <2>1. t \in Numbered \ {"errors", "audit"}
    BY <1>2
  <2>2. Advances(Audited(With(rows, t, Row(issued + 1, u.org, u.id, data)), u.org, u.id),
                 rows, issued + 1, used, doubtful, {u.org})
    BY <2>1, LoggedAddition
  <2> QED
    BY <1>1, <1>3, <2>2
<1>4. CASE Generate(u)
  BY <1>1, <1>4, GenerationAdvances DEF Generate
<1>5. CASE RequestCredits(u)
  BY <1>3, <1>5 DEF RequestCredits
<1>6. CASE CreateKey(u)
  BY <1>3, <1>6 DEF CreateKey
<1>7. CASE SignIn(u)
  BY <1>3, <1>7 DEF SignIn
<1>8. CASE SwitchActive(u)
  BY <1>1, <1>8, SwitchAdvances DEF SwitchActive
<1> QED
  BY <1>4, <1>5, <1>6, <1>7, <1>8

LEMMA LogErrorStep ==
    ASSUME IInv, NEW o \in Orgs, LogError(o)
    PROVE  IInv'
<1> DEFINE db == With(rows, "errors", Row(issued + 1, o, NoUser, "error"))
<1>1. o \in Orgs \cap used /\ UserWrites(o, db)
  BY DEF LogError
<1>2. Advances(db, rows, issued + 1, used, doubtful, {o})
  BY <1>1, ErrorAdvances
<1> HIDE DEF db
<1>3. Write({o}, db) /\ issued' = issued + 1 /\ used' = used
      /\ last' = [op |-> "other", org |-> o, why |-> "ok"]
      /\ UNCHANGED <<file, deleting, doubtful>>
  BY <1>1 DEF UserWrites
<1>4. used \subseteq used' /\ Advances(db, rows, issued + 1, used', doubtful, {o})
  BY <1>2, <1>3
<1> QED
  BY <1>3, <1>4, OrgStep

LEMMA RegisterStep ==
    ASSUME IInv, NEW o \in Orgs, NEW u \in Users, NEW email \in Emails, RegisterOrg(o, u, email)
    PROVE  IInv'
<1>1. o \in Orgs \ used /\ u \in Users \ used /\ \A r \in rows["users"] : r.data.email # email
  BY DEF RegisterOrg, Fresh, EmailIsFree
<1>2. Advances(Registered(rows, o, u, email), rows, issued + 1, used \cup {o, u, email}, doubtful, {o})
  BY <1>1, RegisteredAdvances
<1>3. /\ Write({o}, Registered(rows, o, u, email)) /\ issued' = issued + 1
      /\ used' = used \cup {o, u, email}
      /\ last' = [op |-> "other", org |-> o, why |-> "ok"]
      /\ UNCHANGED <<file, deleting, doubtful>>
  BY DEF RegisterOrg
<1>4. used \subseteq used' /\ Advances(Registered(rows, o, u, email), rows, issued + 1, used', doubtful, {o})
  BY <1>2, <1>3
<1> QED
  BY <1>3, <1>4, OrgStep

LEMMA AddUserStep ==
    ASSUME IInv, NEW by \in rows["users"], NEW u \in Users, NEW email \in Emails, AddUser(by, u, email)
    PROVE  IInv'
<1> DEFINE db == Audited(With(rows, "users", Row(u, by.org, NoUser, [email |-> email, active |-> TRUE])),
                         by.org, by.id)
<1>1. u \in Users \ used /\ \A r \in rows["users"] : r.data.email # email
  BY DEF AddUser, Fresh, EmailIsFree
<1>2. Advances(db, rows, issued + 1, used \cup {u, email}, doubtful, {by.org})
  BY <1>1, NewUserAdvances
<1>3. /\ Write({by.org}, db) /\ issued' = issued + 1 /\ used' = used \cup {u, email}
      /\ last' = [op |-> "other", org |-> by.org, why |-> "ok"]
      /\ UNCHANGED <<file, deleting, doubtful>>
  BY DEF AddUser
<1> HIDE DEF db
<1>4. used \subseteq used' /\ Advances(db, rows, issued + 1, used', doubtful, {by.org})
  BY <1>2, <1>3
<1> QED
  BY <1>3, <1>4, OrgStep

\* a step that leaves the rows alone, and the export and the bundle as they are
LEMMA Apart ==
    ASSUME IInv, UNCHANGED <<rows, issued, used, export, file, doubtful>>
    PROVE  /\ issued' \in Nat /\ Sound(rows', issued', used') /\ Coherent(rows', doubtful')
           /\ ExportOK' /\ FileOK'
           /\ UNCHANGED deleting => DeletionsOK'
<1>1. /\ rows' = rows /\ issued' = issued /\ used' = used /\ export' = export /\ file' = file
      /\ doubtful' = doubtful
  OBVIOUS
<1>2. issued' \in Nat /\ Sound(rows', issued', used') /\ Coherent(rows', doubtful')
  BY <1>1 DEF IInv
<1>3. ExportOK' /\ FileOK'
  BY <1>1 DEF IInv, ExportOK, FileOK, BundleOK
<1>4. ASSUME UNCHANGED deleting PROVE DeletionsOK'
  BY <1>1, <1>4 DEF IInv, DeletionsOK, DeletionOK
<1> QED
  BY <1>2, <1>3, <1>4

LEMMA DeleteReadStep ==
    ASSUME IInv, NEW u \in rows["users"], DeleteRead(u)
    PROVE  IInv'
<1>1. UNCHANGED <<rows, issued, used, export, file, last, doubtful>>
  BY DEF DeleteRead
<1>2. PICK f \in Fallbacks(u) :
         deleting' = deleting \cup {[user |-> u, to |-> f.id, stale |-> FALSE]}
  BY DEF DeleteRead
<1> DEFINE d == [user |-> u, to |-> f.id, stale |-> FALSE]
<1>3. f \in rows["users"] /\ f.org = u.org /\ f # u
  BY <1>2 DEF Fallbacks, UsersOf
<1>4. /\ RowOK("users", u, issued, used) /\ f.id \in Users
      /\ HasUser(rows, u.id, u.org) /\ HasUser(rows, f.id, u.org)
  BY <1>3, UserIs
<1>5. f.id # u.id
  BY <1>3, TablesAre DEF IInv, Sound, TablesOK, TableOK
<1>6. DeletionOK(d)
  <2>1. /\ DOMAIN d = {"user", "to", "stale"} /\ d.user = u /\ d.to = f.id /\ d.stale = FALSE
    OBVIOUS
  <2> HIDE DEF d
  <2> QED
    BY <1>4, <1>5, <2>1 DEF DeletionOK
<1> HIDE DEF d
<1>7. \A e \in deleting' : DeletionOK(e)
  BY <1>2, <1>6 DEF IInv, DeletionsOK, d
<1>8. DeletionsOK'
  BY <1>1, <1>7 DEF DeletionsOK, DeletionOK
<1>9. /\ issued' \in Nat /\ Sound(rows', issued', used') /\ Coherent(rows', doubtful')
      /\ ExportOK' /\ FileOK'
  BY <1>1, Apart
<1>10. NothingDangles' /\ Restored'
  BY <1>1 DEF IInv, NothingDangles, Restored, Of, Remapped
<1> QED
  BY <1>8, <1>9, <1>10 DEF IInv

LEMMA ExportedOnce ==
    \A j \in 1..10 : (Exported[j] = "orgs" => j = 1) /\ \A k \in 1..10 : Exported[j] = Exported[k] => j = k
<1>1. \A j \in 1..10 : j = 1 \/ j = 2 \/ j = 3 \/ j = 4 \/ j = 5 \/ j = 6 \/ j = 7 \/ j = 8
                       \/ j = 9 \/ j = 10
  OBVIOUS
<1>2. /\ Exported[1] = "orgs" /\ Exported[2] = "users" /\ Exported[3] = "licenses"
      /\ Exported[4] = "ledger" /\ Exported[5] = "state" /\ Exported[6] = "runs"
      /\ Exported[7] = "audit" /\ Exported[8] = "keys" /\ Exported[9] = "requests"
      /\ Exported[10] = "errors"
  BY DEF Exported
<1>3. ASSUME NEW j \in 1..10, NEW k \in 1..10, Exported[j] = Exported[k] PROVE j = k
  <2>1. CASE j \in 1..5
    BY <1>1, <1>2, <1>3, <2>1
  <2>2. CASE j \in 6..10
    BY <1>1, <1>2, <1>3, <2>2
  <2> QED
    BY <2>1, <2>2
<1>4. ASSUME NEW j \in 1..10, Exported[j] = "orgs" PROVE j = 1
  BY <1>2, <1>3, <1>4
<1> QED
  BY <1>3, <1>4

\* the rows of an organization, and what an export reads of them
LEMMA OfOK ==
    ASSUME IInv, NEW o
    PROVE  /\ TablesOK(Of(rows, o), issued, used)
           /\ \A t \in Tables : \A r \in Of(rows, o)[t] : r.org = o
           /\ \A t \in Tables : Of(rows, o)[t] = {r \in rows[t] : r.org = o}
           /\ \A t \in Tables : Read(t, o) = Part(t, Of(rows, o)[t])
           /\ \A t \in Tables : Read(t, o) \subseteq Of(rows, o)[t] /\ TableOK(t, Read(t, o), issued, used)
<1> DEFINE db == Of(rows, o)
<1>1. db = [t \in Tables |-> db[t]] /\ \A t \in Tables : db[t] = {r \in rows[t] : r.org = o}
  BY DEF Of
<1> HIDE DEF db
<1>2. ASSUME NEW t \in Tables PROVE TableOK(t, db[t], issued, used)
  <2>1. TableOK(t, rows[t], issued, used) /\ db[t] \in SUBSET rows[t]
    BY <1>1 DEF IInv, Sound, TablesOK
  <2> QED
    BY <2>1, PartOK
<1>3. ASSUME NEW t \in Tables PROVE Read(t, o) = Part(t, db[t])
  BY DEF Read, Part, db
<1>4. ASSUME NEW t \in Tables PROVE Read(t, o) \in SUBSET db[t]
  BY <1>3 DEF Part, Taken
<1>5. ASSUME NEW t \in Tables PROVE TableOK(t, Read(t, o), issued, used)
  BY <1>2, <1>4, PartOK
<1> QED
  BY <1>1, <1>2, <1>3, <1>4, <1>5 DEF db, TablesOK

LEMMA ExportStartStep ==
    ASSUME IInv, NEW o \in Orgs, ExportStart(o)
    PROVE  IInv'
<1> DEFINE db == Of(rows, o)
           read == [t \in Tables |-> IF t = "orgs" THEN Read(t, o) ELSE {}]
           f == [org |-> o, step |-> 2, start |-> db, torn |-> o \in doubtful, rows |-> read]
<1>1. /\ UNCHANGED <<rows, issued, used, file, deleting, last, doubtful>>
      /\ o \in Ids(rows["orgs"]) /\ export' = f
  BY DEF ExportStart
<1>2. /\ f.org = o /\ f.step = 2 /\ f.start = db /\ f.torn = (o \in doubtful) /\ f.rows = read
      /\ DOMAIN f = {"org", "step", "rows", "start", "torn"}
  OBVIOUS
<1> HIDE DEF f
<1>3. /\ TablesOK(db, issued, used) /\ \A t \in Tables : \A r \in db[t] : r.org = o
      /\ \A t \in Tables : db[t] = {r \in rows[t] : r.org = o}
      /\ \A t \in Tables : Read(t, o) = Part(t, db[t])
      /\ \A t \in Tables : Read(t, o) \subseteq db[t] /\ TableOK(t, Read(t, o), issued, used)
  BY OfOK
<1> HIDE DEF db
<1>4. {"orgs", "users", "licenses", "state"} \subseteq Tables
  BY TablesAre
<1>5. /\ read = [t \in Tables |-> read[t]]
      /\ read["orgs"] = Read("orgs", o) /\ \A t \in Tables \ {"orgs"} : read[t] = {}
  BY <1>4
<1> HIDE DEF read
<1>6. TablesOK(read, issued, used) /\ \A t \in Tables : \A r \in read[t] : r.org = o
  <2>1. ASSUME NEW t \in Tables PROVE TableOK(t, read[t], issued, used) /\ \A r \in read[t] : r.org = o
    <3>1. CASE t = "orgs"
      BY <1>3, <1>4, <1>5, <3>1
    <3>2. CASE t # "orgs"
      <4>1. read[t] = {} /\ IsFiniteSet({})
        BY <1>5, <3>2, FS_EmptySet
      <4> QED
        BY <4>1 DEF TableOK
    <3> QED
      BY <3>1, <3>2
  <2> QED
    BY <1>5, <2>1 DEF TablesOK
<1>7. \A r \in rows["orgs"] : r.id = r.org /\ r.org \in Orgs \cap used
  BY <1>4 DEF IInv, Sound, TablesOK, TableOK, RowOK, Owned
<1>8. o \in Orgs \cap used /\ db["orgs"] # {}
  <2>1. PICK r \in rows["orgs"] : r.id = o
    BY <1>1 DEF Ids
  <2> QED
    BY <1>3, <1>4, <1>7, <2>1
<1>9. read["orgs"] = Part("orgs", db["orgs"]) /\ read["orgs"] = db["orgs"]
  BY <1>3, <1>4, <1>5 DEF Part, Limited
<1>10. ASSUME o \notin doubtful PROVE OfOneState(f, 1)
  <2>1. ASSUME NEW t \in Tables, NEW r \in db[t], r.by # NoUser
        PROVE  \E u \in db["users"] : u.id = r.by /\ u.org = r.org
    BY <1>3, <1>4, <1>10, <2>1 DEF IInv, Coherent
  <2>2. PICK u \in rows["users"] : u.org = o
    BY <1>1, <1>10 DEF IInv, Coherent
  <2>3. u \in db["users"]
    BY <1>3, <1>4, <2>2
  <2>4. ASSUME NEW x \in Ids(db["orgs"]) PROVE \E v \in db["users"] : v.org = x
    <3>1. x = o
      BY <1>3, <1>4, <1>7 DEF Ids
    <3> QED
      BY <2>2, <2>3, <3>1
  <2>5. Coherent(db, {})
    BY <2>1, <2>4 DEF Coherent
  <2>6. db["licenses"] # {} /\ db["state"] # {}
    <3>1. \A t \in {"licenses", "state"} : \E r \in rows[t] : r.org = o
      BY <1>1 DEF IInv, Sound, Equipped
    <3> QED
      BY <1>3, <1>4, <3>1
  <2>7. \A j \in 1..1 : f.rows[Exported[j]] = Part(Exported[j], f.start[Exported[j]])
    <3>1. Exported[1] = "orgs" /\ \A j \in 1..1 : j = 1
      BY DEF Exported
    <3> QED
      BY <1>2, <1>9, <3>1
  <2> QED
    BY <1>2, <1>8, <2>3, <2>5, <2>6, <2>7 DEF OfOneState
<1>11. BundleOK(f, 1)
  <2>1. f.torn \in BOOLEAN /\ f.org \in Orgs \cap used /\ f.rows["orgs"] # {}
    BY <1>2, <1>8, <1>9
  <2>2. ~ f.torn => OfOneState(f, 1)
    BY <1>2, <1>10
  <2>3. \A x \in {f.rows, f.start} : TablesOK(x, issued, used) /\ \A t \in Tables : \A r \in x[t] : r.org = f.org
    BY <1>2, <1>3, <1>6
  <2> QED
    BY <2>1, <2>2, <2>3 DEF BundleOK
<1>12. /\ rows' = rows /\ issued' = issued /\ used' = used /\ file' = file /\ deleting' = deleting
       /\ last' = last /\ doubtful' = doubtful
  BY <1>1
<1>13. ExportOK'
  <2>2. 2 \in 2..Len(Exported) /\ 2 - 1 = 1
    BY TablesAre
  <2>3. BundleOK(export, export.step - 1)'
    BY <1>1, <1>2, <1>11, <1>12, <2>2 DEF BundleOK
  <2> QED
    BY <1>1, <1>2, <1>12, <2>2, <2>3 DEF ExportOK, db
<1>14. FileOK' /\ DeletionsOK'
  BY <1>12 DEF IInv, FileOK, BundleOK, DeletionsOK, DeletionOK
<1>15. NothingDangles' /\ Restored'
  BY <1>12 DEF IInv, NothingDangles, Restored, Of, Remapped
<1> QED
  BY <1>12, <1>13, <1>14, <1>15 DEF IInv

LEMMA ExportReadStep ==
    ASSUME IInv, ExportRead
    PROVE  IInv'
<1> DEFINE t == Exported[export.step]
           o == export.org
           next == [export EXCEPT !.rows[t] = Read(t, export.org), !.step = @ + 1]
           k == export.step
<1>1. /\ export.org # NoOrg
      /\ rows' = rows /\ issued' = issued /\ used' = used /\ deleting' = deleting /\ doubtful' = doubtful
      /\ IF export.step = Len(Exported)
         THEN file' = next /\ export' = Idle /\ Ended("export", export.org, "ok")
         ELSE export' = next /\ UNCHANGED <<file, last>>
  BY DEF ExportRead
<1>2. /\ DOMAIN export = {"org", "step", "rows", "start", "torn"}
      /\ k \in 2..10 /\ Len(Exported) = 10 /\ BundleOK(export, k - 1)
      /\ ~ export.torn => export.org \notin doubtful /\ Of(rows, export.org) = export.start
  BY <1>1, TablesAre DEF IInv, ExportOK
<1>3. TablesOK(export.rows, issued, used) /\ export.rows = [x \in Tables |-> export.rows[x]]
  BY <1>2 DEF BundleOK, TablesOK
<1>4. /\ t \in Tables /\ t # "orgs" /\ k \in 1..10
      /\ \A j \in 1..(k - 1) : Exported[j] \in Tables /\ Exported[j] # t
  BY <1>2, TablesAre, ExportedOnce
<1>5. /\ next.org = o /\ next.start = export.start /\ next.torn = export.torn /\ next.step = k + 1
      /\ next.rows = [export.rows EXCEPT ![t] = Read(t, o)]
      /\ DOMAIN next = {"org", "step", "rows", "start", "torn"}
  BY <1>2
<1> HIDE DEF next
<1>6. /\ next.rows = [x \in Tables |-> next.rows[x]] /\ next.rows[t] = Read(t, o)
      /\ \A x \in Tables \ {t} : next.rows[x] = export.rows[x]
  BY <1>3, <1>4, <1>5
<1>7. /\ \A r \in Of(rows, o)[t] : r.org = o
      /\ Read(t, o) = Part(t, Of(rows, o)[t])
      /\ Read(t, o) \subseteq Of(rows, o)[t] /\ TableOK(t, Read(t, o), issued, used)
  BY <1>4, OfOK
<1> HIDE DEF t
<1>8. TablesOK(next.rows, issued, used) /\ \A x \in Tables : \A r \in next.rows[x] : r.org = o
  <2>1. ASSUME NEW x \in Tables PROVE TableOK(x, next.rows[x], issued, used) /\ \A r \in next.rows[x] : r.org = o
    <3>1. CASE x = t
      BY <1>6, <1>7, <3>1
    <3>2. CASE x # t
      BY <1>2, <1>3, <1>6, <3>2 DEF BundleOK, TablesOK
    <3> QED
      BY <3>1, <3>2
  <2> QED
    BY <1>6, <2>1 DEF TablesOK
<1>9. ASSUME ~ next.torn PROVE OfOneState(next, k)
  <2>1. OfOneState(export, k - 1) /\ Of(rows, o) = export.start
    BY <1>2, <1>5, <1>9 DEF BundleOK
  <2>2. ASSUME NEW j \in 1..k PROVE next.rows[Exported[j]] = Part(Exported[j], next.start[Exported[j]])
    <3>1. CASE j = k
      BY <1>5, <1>6, <1>7, <2>1, <3>1 DEF t
    <3>2. CASE j # k
      <4>1. j \in 1..(k - 1)
        BY <1>2, <3>2
      <4>2. export.rows[Exported[j]] = Part(Exported[j], export.start[Exported[j]])
        BY <2>1, <4>1 DEF OfOneState
      <4> QED
        BY <1>4, <1>5, <1>6, <4>1, <4>2
    <3> QED
      BY <3>1, <3>2
  <2> QED
    BY <1>5, <2>1, <2>2 DEF OfOneState
<1>10. BundleOK(next, k)
  <2>1. next.torn \in BOOLEAN /\ next.org \in Orgs \cap used /\ next.rows["orgs"] # {}
    BY <1>2, <1>4, <1>5, <1>6, TablesAre DEF BundleOK
  <2>2. TablesOK(next.start, issued, used) /\ \A x \in Tables : \A r \in next.start[x] : r.org = next.org
    BY <1>2, <1>5 DEF BundleOK
  <2> QED
    BY <1>5, <1>8, <1>9, <2>1, <2>2 DEF BundleOK
<1>11. issued' \in Nat /\ Sound(rows', issued', used') /\ Coherent(rows', doubtful') /\ DeletionsOK'
  BY <1>1 DEF IInv, DeletionsOK, DeletionOK
<1>12. CASE export.step = Len(Exported)
  <2>1. file' = next /\ export' = Idle /\ last'.op = "export"
    BY <1>1, <1>12 DEF Ended
  <2>2. ExportOK'
    <3>1. Idle.org = NoOrg
      BY DEF Idle
    <3> QED
      BY <2>1, <3>1 DEF ExportOK
  <2>3. FileOK'
    <3>1. k = Len(Exported)
      BY <1>12
    <3> QED
      BY <1>1, <1>10, <2>1, <3>1 DEF FileOK, BundleOK
  <2>4. NothingDangles' /\ Restored'
    BY <2>1 DEF NothingDangles, Restored
  <2> QED
    BY <1>11, <2>2, <2>3, <2>4 DEF IInv
<1>13. CASE export.step # Len(Exported)
  <2>1. export' = next /\ file' = file /\ last' = last
    BY <1>1, <1>13
  <2>2. ExportOK'
    <3>1. k + 1 \in 2..Len(Exported) /\ (k + 1) - 1 = k
      BY <1>2, <1>13
    <3>2. BundleOK(export, export.step - 1)'
      BY <1>1, <1>5, <1>10, <2>1, <3>1 DEF BundleOK
    <3>3. ~ next.torn => next.org \notin doubtful /\ Of(rows, next.org) = next.start
      BY <1>2, <1>5
    <3> QED
      BY <1>1, <1>5, <2>1, <3>1, <3>2, <3>3 DEF ExportOK, Of
  <2>3. FileOK'
    BY <1>1, <2>1 DEF IInv, FileOK, BundleOK
  <2>4. NothingDangles' /\ Restored'
    <3>1. rows' = rows /\ issued' = issued /\ doubtful' = doubtful /\ file' = file /\ last' = last
      BY <1>1, <2>1
    <3> QED
      BY <3>1 DEF IInv, NothingDangles, Restored, Of, Remapped
  <2> QED
    BY <1>11, <2>2, <2>3, <2>4 DEF IInv
<1> QED
  BY <1>12, <1>13

LEMMA MarkedKept ==
    ASSUME IInv, issued' \in Nat, issued <= issued', used \subseteq used',
           NEW at, NEW ds \in SUBSET deleting, deleting' = MarkedStale(ds, at),
           \A e \in ds : \A v \in rows["users"] :
              ~ e.stale /\ v.org = e.user.org /\ v.org \notin at => HasUser(rows', v.id, v.org)
    PROVE  DeletionsOK'
<1>1. ASSUME NEW e \in deleting'
      PROVE  \E d \in deleting :
                /\ e = d \/ e = [d EXCEPT !.stale = TRUE]
                /\ ~ e.stale => HasUser(rows', d.user.id, d.user.org) /\ HasUser(rows', d.to, d.user.org)
  <2>1. PICK d \in ds : e = IF d.user.org \in at THEN [d EXCEPT !.stale = TRUE] ELSE d
    BY DEF MarkedStale
  <2>2. DeletionOK(d) /\ d \in deleting
    BY DEF IInv, DeletionsOK
  <2>3. CASE d.user.org \in at
    <3>1. e = [d EXCEPT !.stale = TRUE]
      BY <2>1, <2>3
    <3>2. [d EXCEPT !.stale = TRUE].stale = TRUE
      BY <2>2 DEF DeletionOK
    <3> QED
      BY <2>2, <3>1, <3>2
  <2>4. CASE d.user.org \notin at
    <3>1. e = d
      BY <2>1, <2>4
    <3>2. ASSUME ~ d.stale, NEW id, HasUser(rows, id, d.user.org) PROVE HasUser(rows', id, d.user.org)
      <4>1. PICK v \in rows["users"] : v.id = id /\ v.org = d.user.org
        BY <3>2 DEF HasUser
      <4>2. HasUser(rows', v.id, v.org)
        BY <2>4, <3>2, <4>1
      <4> QED
        BY <4>1, <4>2
    <3>3. ~ d.stale => HasUser(rows, d.user.id, d.user.org) /\ HasUser(rows, d.to, d.user.org)
      BY <2>2 DEF DeletionOK
    <3> QED
      BY <2>2, <3>1, <3>2, <3>3
  <2> QED
    BY <2>3, <2>4
<1> QED
  BY <1>1, DeletionsKept

LEMMA PurgeStep ==
    ASSUME IInv, NEW o \in Orgs, Purge(o)
    PROVE  IInv'
<1> DEFINE tx == OrgDeleted(o)
<1>1. /\ IF tx.why = "ok"
         THEN Write({o}, tx.db) /\ deleting' = MarkedStale(deleting, {o}) /\ doubtful' = doubtful \ {o}
         ELSE UNCHANGED <<rows, export, deleting, doubtful>>
      /\ last' = [op |-> "purge", org |-> o, why |-> tx.why]
      /\ issued' = issued /\ used' = used /\ file' = file
  BY DEF Purge, Ended
<1>3. tx.db = Gone(rows, o) /\ (tx.why = "ok" => ~ Dangling(Gone(rows, o)))
  BY OrgDeletedIs
<1> HIDE DEF tx
<1>4. last'.op = "purge" /\ last'.org = o /\ last'.why = tx.why
  BY <1>1
<1>5. Restored'
  BY <1>4 DEF Restored
<1>6. CASE tx.why = "ok"
  <2>1. /\ rows' = Gone(rows, o) /\ deleting' = MarkedStale(deleting, {o}) /\ doubtful' = doubtful \ {o}
        /\ export' = IF export.org \in {o} THEN [export EXCEPT !.torn = TRUE] ELSE export
    BY <1>1, <1>3, <1>6 DEF Write
  <2>2. /\ TablesOK(Gone(rows, o), issued, used) /\ Equipped(Gone(rows, o))
        /\ Coherent(Gone(rows, o), doubtful \ {o})
        /\ \A x \in Orgs \ {o} : Of(Gone(rows, o), x) = Of(rows, x)
        /\ \A u \in rows["users"] : u.org # o => HasUser(Gone(rows, o), u.id, u.org)
    BY GoneIs DEF IInv
  <2>3. issued' \in Nat /\ issued <= issued' /\ used \subseteq used'
    BY <1>1 DEF IInv
  <2>4. Sound(rows', issued', used') /\ Coherent(rows', doubtful')
    BY <1>1, <1>3, <1>6, <2>1, <2>2 DEF Sound
  <2>5. ExportOK' /\ FileOK'
    <3>1. doubtful' \subseteq doubtful \cup {o} /\ \A x \in Orgs \ ({o} \cup doubtful) : Of(rows', x) = Of(rows, x)
      BY <2>1, <2>2
    <3> QED
      BY <1>1, <2>1, <2>3, <3>1, BundlesKept
  <2>6. DeletionsOK'
    <3>1. \A v \in rows["users"] : v.org \notin {o} => HasUser(rows', v.id, v.org)
      BY <2>1, <2>2
    <3>2. deleting \in SUBSET deleting
      OBVIOUS
    <3> QED
      BY <2>1, <2>3, <3>1, <3>2, MarkedKept
  <2>7. NothingDangles'
    BY <1>4, <1>6 DEF NothingDangles
  <2> QED
    BY <1>5, <2>3, <2>4, <2>5, <2>6, <2>7 DEF IInv
<1>7. CASE tx.why # "ok"
  <2>1. UNCHANGED <<rows, issued, used, export, file, doubtful>> /\ UNCHANGED deleting
    BY <1>1, <1>7
  <2>2. /\ issued' \in Nat /\ Sound(rows', issued', used') /\ Coherent(rows', doubtful')
        /\ ExportOK' /\ FileOK' /\ DeletionsOK'
    BY <2>1, Apart
  <2>3. ~ (doubtful \subseteq {o})
    BY <1>7, OrgDeletedIs DEF tx
  <2>4. NothingDangles'
    BY <1>4, <2>1, <2>3 DEF NothingDangles
  <2> QED
    BY <1>5, <2>2, <2>4 DEF IInv
<1> QED
  BY <1>6, <1>7

LEMMA GivenWhole ==
    ASSUME IInv, file.org # NoOrg, ~ file.torn, NEW o \in Orgs \cap used, NEW t \in Tables
    PROVE  Given(t, o) = {Remapped(s, o) : s \in file.rows[t]}
<1>1. issued \in Nat /\ FileOK
  BY DEF IInv
<1>2. CASE t \notin {"licenses", "state"}
  BY <1>1, <1>2, GivenOK
<1>3. CASE t \in {"licenses", "state"}
  <2>1. OfOneState(file, 10)
    BY <1>1, TablesAre DEF FileOK, BundleOK
  <2>2. PICK j \in 1..10 : t = Exported[j]
    <3>1. Exported[3] = "licenses" /\ Exported[5] = "state"
      BY DEF Exported
    <3> QED
      BY <1>3, <3>1
  <2>3. ~ Limited(t)
    BY <1>3 DEF Limited
  <2>4. file.rows[t] = file.start[t] /\ file.start[t] # {}
    BY <1>3, <2>1, <2>2, <2>3 DEF OfOneState, Part
  <2> QED
    BY <1>1, <2>4, GivenOK
<1> QED
  BY <1>2, <1>3

LEMMA ImportStep ==
    ASSUME IInv, NEW o \in Orgs, Import(o)
    PROVE  IInv'
<1> DEFINE tx == BundleImported(o)
           db == Imported(o)
           entry == Row(issued + 1, o, NoUser, "event")
<1>1. /\ file.org # NoOrg /\ (file.org = o \/ o \in Ids(rows["orgs"]))
      /\ IF tx.why = "ok"
         THEN /\ Write({o}, Audited(tx.db, o, NoUser)) /\ deleting' = MarkedStale(deleting, {o})
              /\ doubtful' = IF file.torn THEN doubtful \cup {o} ELSE doubtful \ {o}
         ELSE UNCHANGED <<rows, export, deleting, doubtful>>
      /\ last' = [op |-> "import", org |-> o, why |-> tx.why]
      /\ issued' = issued + 1 /\ used' = used /\ file' = file
  BY DEF Import, Ended
<1>2. o \in Orgs \cap used
  <2>1. CASE file.org = o
    BY <1>1, <2>1 DEF IInv, FileOK, BundleOK
  <2>2. CASE o \in Ids(rows["orgs"])
    <3>1. \A r \in rows["orgs"] : r.id = r.org /\ r.org \in Orgs \cap used
      BY TablesAre DEF IInv, Sound, TablesOK, TableOK, RowOK, Owned
    <3> QED
      BY <2>2, <3>1 DEF Ids
  <2> QED
    BY <1>1, <2>1, <2>2
<1>3. /\ tx.db = db
      /\ ~ file.torn /\ doubtful \subseteq {o} => tx.why # "reference"
  BY <1>1, <1>2, BundleImportedIs
<1>4. /\ issued \in Nat /\ issued' \in Nat /\ issued <= issued' /\ used \subseteq used'
      /\ Sound(rows, issued', used') /\ Coherent(rows, doubtful)
  <2>1. used \subseteq used
    OBVIOUS
  <2>2. Sound(rows, issued + 1, used) /\ Coherent(rows, doubtful) /\ issued \in Nat /\ issued + 1 \in Nat
    BY <2>1, RowsGrown
  <2> QED
    BY <1>1, <2>2
<1>5. last'.op = "import" /\ last'.org = o /\ last'.why = tx.why
  BY <1>1
<1>6. ASSUME tx.why = "ok" PROVE IInv'
  <2>1. /\ rows' = Audited(db, o, NoUser) /\ deleting' = MarkedStale(deleting, {o})
        /\ doubtful' = IF file.torn THEN doubtful \cup {o} ELSE doubtful \ {o}
        /\ export' = IF export.org \in {o} THEN [export EXCEPT !.torn = TRUE] ELSE export
    BY <1>1, <1>3, <1>6 DEF Write
  <2>2. doubtful \ {o} \subseteq doubtful' /\ (file.torn => o \in doubtful') /\ doubtful' \subseteq doubtful \cup {o}
    BY <2>1
  <2>3. /\ Sound(db, issued, used) /\ Coherent(db, doubtful') /\ o \in Ids(db["orgs"])
        /\ \A x \in Orgs \ {o} : Of(db, x) = Of(rows, x)
        /\ \A u \in rows["users"] : u.org # o => HasUser(db, u.id, u.org)
        /\ \A t \in Tables \ {"tokens"} : \A r \in db[t] : r.org = o <=> r \in Given(t, o)
    BY <1>1, <1>2, <1>6, <2>2, ImportedIs
  <2>4. \A t \in Tables \ {"tokens"} : Given(t, o) \subseteq db[t]
    BY TablesAre DEF Imported, Filled
  <2> HIDE DEF tx, db, entry
  <2>5. Sound(db, issued + 1, used) /\ issued + 1 \notin Ids(db["audit"])
    <3>1. TablesOK(db, issued, used) /\ used \subseteq used /\ issued + 1 \in Nat /\ issued <= issued + 1
      BY <1>4, <2>3 DEF Sound
    <3>2. TablesOK(db, issued + 1, used)
      BY <1>4, <3>1, Grown
    <3>3. "audit" \in Numbered
      BY TablesAre DEF Numbered, Owned
    <3>4. issued + 1 \notin Ids(db["audit"])
      BY <1>4, <3>1, <3>3, NewIdentity
    <3> QED
      BY <2>3, <3>2, <3>4 DEF Sound
  <2>6. Advances(rows', db, issued + 1, used, doubtful', {o})
    <3>1. Advances(Audited(db, o, NoUser), db, issued + 1, used, doubtful', {o})
      BY <1>2, <1>4, <2>3, <2>5, AuditedAdvances
    <3> QED
      BY <2>1, <3>1
  <2>7. /\ Sound(rows', issued', used') /\ Coherent(rows', doubtful')
        /\ \A x \in Orgs \ {o} : Of(rows', x) = Of(rows, x)
    BY <1>1, <2>3, <2>6 DEF Advances
  <2>8. ExportOK' /\ FileOK'
    <3>1. \A x \in Orgs \ ({o} \cup doubtful) : Of(rows', x) = Of(rows, x)
      BY <2>7
    <3> QED
      BY <1>1, <1>4, <2>1, <2>2, <3>1, BundlesKept
  <2>9. DeletionsOK'
    <3>1. ASSUME NEW v \in rows["users"], v.org \notin {o} PROVE HasUser(rows', v.id, v.org)
      <4>1. PICK w \in db["users"] : w.id = v.id /\ w.org = v.org
        BY <2>3, <3>1 DEF HasUser
      <4>2. HasUser(rows', w.id, w.org)
        BY <2>6 DEF Advances
      <4> QED
        BY <4>1, <4>2
    <3>2. deleting \in SUBSET deleting
      OBVIOUS
    <3> QED
      BY <1>4, <2>1, <3>1, <3>2, MarkedKept
  <2>10. NothingDangles'
    BY <1>5, <1>6 DEF NothingDangles
  <2>11. ASSUME ~ file.torn, NEW t \in Range(Exported)
         PROVE  Of(rows', o)[t] \ {r \in rows'["audit"] : r.id = issued'} = {Remapped(r, o) : r \in file.rows[t]}
    <3>1. t \in Tables \ {"tokens"} /\ "audit" \in Tables
      BY TablesAre
    <3>2. Given(t, o) = {Remapped(r, o) : r \in file.rows[t]}
      BY <1>1, <1>2, <2>11, <3>1, GivenWhole
    <3>3. rows' = With(db, "audit", entry) /\ entry.id = issued + 1
      BY <2>1 DEF Audited, entry, Row
    <3>4. rows'["audit"] = db["audit"] \cup {entry} /\ \A x \in Tables \ {"audit"} : rows'[x] = db[x]
      BY <2>3, <3>1, <3>3, WithIs DEF Sound, TablesOK
    <3>5. ASSUME NEW r \in Given(t, o) PROVE r.id # issued + 1
      <4>1. RowOK(t, r, issued, used)
        BY <2>3, <2>4, <3>1 DEF Sound, TablesOK, TableOK
      <4>2. t \in Owned \/ t = "users" \/ t \in Numbered
        BY <3>1 DEF Numbered
      <4>3. r.id \in Orgs \cup Users \/ r.id \in 1..issued
        BY <4>1, <4>2 DEF RowOK
      <4>4. issued + 1 \in Nat /\ issued + 1 \notin 1..issued
        BY <1>4
      <4> QED
        BY <4>3, <4>4, RowsAssumption
    <3>6. \A r \in Given(t, o) : r.org = o
      BY <2>3, <2>4, <3>1
    <3>7. Of(rows', o)[t] = {r \in rows'[t] : r.org = o}
      BY <3>1 DEF Of
    <3>8. ASSUME NEW r \in Of(rows', o)[t] \ {s \in rows'["audit"] : s.id = issued'} PROVE r \in Given(t, o)
      <4>1. r \in rows'[t] /\ r.org = o
        BY <3>7
      <4>2. r \in db[t]
        <5>1. CASE t = "audit"
          BY <1>1, <3>3, <3>4, <4>1, <5>1
        <5>2. CASE t # "audit"
          BY <3>1, <3>4, <4>1, <5>2
        <5> QED
          BY <5>1, <5>2
      <4> QED
        BY <2>3, <3>1, <4>1, <4>2
    <3>9. ASSUME NEW r \in Given(t, o) PROVE r \in Of(rows', o)[t] \ {s \in rows'["audit"] : s.id = issued'}
      <4>1. r \in db[t] /\ r.org = o /\ r.id # issued'
        BY <1>1, <2>4, <3>1, <3>5, <3>6
      <4>2. r \in rows'[t]
        BY <3>1, <3>4, <4>1
      <4> QED
        BY <3>7, <4>1, <4>2
    <3> QED
      BY <3>2, <3>8, <3>9
  <2>12. Restored'
    BY <1>1, <1>5, <2>11 DEF Restored, Remapped
  <2> QED
    BY <1>4, <2>7, <2>8, <2>9, <2>10, <2>12 DEF IInv
<1>7. ASSUME tx.why # "ok" PROVE IInv'
  <2> HIDE DEF tx, db, entry
  <2>1. rows' = rows /\ export' = export /\ deleting' = deleting /\ doubtful' = doubtful
    BY <1>1, <1>7
  <2>2. Sound(rows', issued', used') /\ Coherent(rows', doubtful')
    BY <1>4, <2>1
  <2>3. ExportOK' /\ FileOK'
    <3>0. PICK at : at = {}
      OBVIOUS
    <3>1. /\ export' = IF export.org \in at THEN [export EXCEPT !.torn = TRUE] ELSE export
          /\ doubtful' \subseteq doubtful \cup at
          /\ \A x \in Orgs \ (at \cup doubtful) : Of(rows', x) = Of(rows, x)
      BY <2>1, <3>0
    <3>2. file' = file
      BY <1>1
    <3> QED
      BY <1>4, <3>1, <3>2, BundlesKept
  <2>4. DeletionsOK'
    <3>1. \A d \in deleting : ~ d.stale => HasUser(rows', d.user.id, d.user.org) /\ HasUser(rows', d.to, d.user.org)
      BY <2>1 DEF IInv, DeletionsOK, DeletionOK
    <3> QED
      BY <1>4, <2>1, <3>1, DeletionsKept
  <2>5. NothingDangles'
    BY <1>1, <1>3, <1>5, <2>1 DEF NothingDangles
  <2>6. Restored'
    BY <1>5, <1>7 DEF Restored
  <2> QED
    BY <1>4, <2>2, <2>3, <2>4, <2>5, <2>6 DEF IInv
<1> QED
  BY <1>6, <1>7

LEMMA DeleteWriteStep ==
    ASSUME IInv, NEW d \in deleting, DeleteWrite(d)
    PROVE  IInv'
<1> DEFINE tx == UserDeleted(d)
           at == {d.user.org} \cup Seats(d.user.id)
           ds == deleting \ {d}
<1>1. /\ IF tx.why = "ok"
         THEN /\ Write(at, tx.db) /\ deleting' = MarkedStale(ds, at)
              /\ doubtful' = IF d.stale THEN doubtful \cup at ELSE doubtful
         ELSE deleting' = ds /\ UNCHANGED <<rows, export, doubtful>>
      /\ last'.op = "delete"
      /\ issued' = issued + 1 /\ used' = used /\ file' = file
  BY DEF DeleteWrite, Ended, Seats
<1>2. /\ issued \in Nat /\ issued' \in Nat /\ issued <= issued' /\ used \subseteq used'
      /\ Sound(rows, issued', used') /\ Coherent(rows, doubtful)
  <2>1. used \subseteq used
    OBVIOUS
  <2>2. Sound(rows, issued + 1, used) /\ Coherent(rows, doubtful) /\ issued \in Nat /\ issued + 1 \in Nat
    BY <2>1, RowsGrown
  <2> QED
    BY <1>1, <2>2
<1>3. NothingDangles' /\ Restored'
  BY <1>1 DEF NothingDangles, Restored
<1>4. ds \in SUBSET deleting
  OBVIOUS
<1>5. \A v \in rows["users"] : v.id = d.user.id => v.org \in at
  BY DEF Seats
<1>6. ASSUME tx.why = "ok" PROVE IInv'
  <2>1. /\ Sound(tx.db, issued + 1, used)
        /\ Coherent(tx.db, IF d.stale THEN doubtful \cup at ELSE doubtful)
        /\ \A x \in Orgs \ (at \cup doubtful) : Of(tx.db, x) = Of(rows, x)
        /\ \A v \in rows["users"] : v.id # d.user.id => HasUser(tx.db, v.id, v.org)
    BY <1>6, UserDeletedIs
  <2> HIDE DEF tx, at, ds
  <2>2. /\ rows' = tx.db /\ deleting' = MarkedStale(ds, at)
        /\ doubtful' = IF d.stale THEN doubtful \cup at ELSE doubtful
        /\ export' = IF export.org \in at THEN [export EXCEPT !.torn = TRUE] ELSE export
    BY <1>1, <1>6 DEF Write
  <2>3. Sound(rows', issued', used') /\ Coherent(rows', doubtful')
    BY <1>1, <2>1, <2>2
  <2>4. ExportOK' /\ FileOK'
    <3>1. doubtful' \subseteq doubtful \cup at /\ \A x \in Orgs \ (at \cup doubtful) : Of(rows', x) = Of(rows, x)
      BY <2>1, <2>2
    <3> QED
      BY <1>1, <1>2, <2>2, <3>1, BundlesKept
  <2>5. DeletionsOK'
    <3>1. ASSUME NEW v \in rows["users"], v.org \notin at PROVE HasUser(rows', v.id, v.org)
      <4>1. v.id # d.user.id
        BY <1>5, <3>1
      <4> QED
        BY <2>1, <2>2, <4>1
    <3> QED
      BY <1>2, <1>4, <2>2, <3>1, MarkedKept
  <2> QED
    BY <1>2, <1>3, <2>3, <2>4, <2>5 DEF IInv
<1>7. ASSUME tx.why # "ok" PROVE IInv'
  <2> HIDE DEF tx, at
  <2>1. rows' = rows /\ export' = export /\ deleting' = ds /\ doubtful' = doubtful
    BY <1>1, <1>7
  <2>2. ExportOK' /\ FileOK'
    <3>0. PICK none : none = {}
      OBVIOUS
    <3>1. /\ export' = IF export.org \in none THEN [export EXCEPT !.torn = TRUE] ELSE export
          /\ doubtful' \subseteq doubtful \cup none
          /\ \A x \in Orgs \ (none \cup doubtful) : Of(rows', x) = Of(rows, x)
      BY <2>1, <3>0
    <3>2. file' = file
      BY <1>1
    <3> QED
      BY <1>2, <3>1, <3>2, BundlesKept
  <2>3. DeletionsOK'
    <3>1. \A e \in deleting : ~ e.stale => HasUser(rows', e.user.id, e.user.org) /\ HasUser(rows', e.to, e.user.org)
      BY <2>1 DEF IInv, DeletionsOK, DeletionOK
    <3>2. \A e \in deleting' : e \in deleting
      BY <2>1
    <3> QED
      BY <1>2, <3>1, <3>2, DeletionsKept
  <2> QED
    BY <1>2, <1>3, <2>1, <2>2, <2>3 DEF IInv
<1> QED
  BY <1>6, <1>7

LEMMA InitRows ==
    ASSUME Init
    PROVE  IInv
<1>1. /\ rows = [t \in Tables |-> {}] /\ issued = 0 /\ export = Idle /\ file = Idle
      /\ deleting = {} /\ doubtful = {} /\ last.op = "other"
  BY DEF Init
<1>2. TablesOK(rows, issued, used)
  <2>1. IsFiniteSet({})
    BY FS_EmptySet
  <2> QED
    BY <1>1, <2>1 DEF TablesOK, TableOK
<1>3. {"orgs", "users", "licenses", "state"} \subseteq Tables
  BY TablesAre
<1>4. Ids(rows["orgs"]) = {}
  BY <1>1, <1>3 DEF Ids
<1>5. ~ Dangling(rows) /\ Equipped(rows) /\ Coherent(rows, doubtful)
  BY <1>1, <1>4 DEF Dangling, Equipped, Coherent
<1>6. ExportOK /\ FileOK
  <2>1. Idle.org = NoOrg
    BY DEF Idle
  <2> QED
    BY <1>1, <2>1 DEF ExportOK, FileOK
<1>7. DeletionsOK /\ NothingDangles /\ Restored
  BY <1>1 DEF DeletionsOK, NothingDangles, Restored
<1> QED
  BY <1>1, <1>2, <1>5, <1>6, <1>7 DEF IInv, Sound

LEMMA NextRows ==
    ASSUME IInv, [Next]_vars
    PROVE  IInv'
<1>1. CASE UNCHANGED vars
  <2>1. UNCHANGED <<rows, issued, used, export, file, doubtful>> /\ deleting' = deleting /\ last' = last
    BY <1>1 DEF vars
  <2>2. /\ issued' \in Nat /\ Sound(rows', issued', used') /\ Coherent(rows', doubtful')
        /\ ExportOK' /\ FileOK' /\ DeletionsOK'
    BY <2>1, Apart
  <2>3. NothingDangles' /\ Restored'
    <3>1. rows' = rows /\ issued' = issued /\ doubtful' = doubtful /\ file' = file /\ last' = last
      BY <2>1
    <3> QED
      BY <3>1 DEF IInv, NothingDangles, Restored, Of, Remapped
  <2> QED
    BY <2>2, <2>3 DEF IInv
<1>2. CASE \E o \in Orgs : Platform(o) \/ LogError(o)
  BY <1>2, ExportStartStep, PurgeStep, ImportStep, LogErrorStep DEF Platform
<1>3. CASE \E u \in rows["users"] : ByUser(u)
  BY <1>3, ByUserStep, DeleteReadStep DEF ByUser
<1>4. CASE \E u \in Users, email \in Emails :
              \/ \E o \in Orgs : RegisterOrg(o, u, email)
              \/ \E by \in rows["users"] : AddUser(by, u, email)
  BY <1>4, RegisterStep, AddUserStep
<1>5. CASE ExportRead
  BY <1>5, ExportReadStep
<1>6. CASE \E d \in deleting : DeleteWrite(d)
  BY <1>6, DeleteWriteStep
<1> QED
  BY <1>1, <1>2, <1>3, <1>4, <1>5, <1>6 DEF Next

\* The inductive invariant: the tables are sound, the rows of organizations
\* that are not doubtful refer to their own users, and what the platform has at
\* hand fits them.
THEOREM RowsInvariance == Spec => []IInv
<1>1. Init => IInv
  BY InitRows
<1>2. IInv /\ [Next]_vars => IInv'
  BY NextRows
<1> QED
  BY <1>1, <1>2, PTL DEF Spec

-----------------------------------------------------------------------------
(* What the invariant says                                                 *)

\* A reading of the rows of a finite set that tells them apart has as many values.
LEMMA SameCount ==
    ASSUME NEW S, IsFiniteSet(S), NEW T, NEW h \in Surjection(S, T), \A x, y \in S : h[x] = h[y] => x = y
    PROVE  IsFiniteSet(T) /\ Cardinality(T) = Cardinality(S)
<1>1. h \in Injection(S, T)
  BY DEF Surjection, Injection, IsInjective
<1> QED
  BY <1>1, FS_Surjection

\* The variables have their types: in each table an identity is taken once, among
\* the users an address, and the foreign keys hold.
THEOREM RowsTyped == Spec => []TypeOK
<1>1. IInv => TypeOK
  <2> SUFFICES ASSUME IInv PROVE TypeOK
    OBVIOUS
  <2>0. /\ \A t \in Tables : TableOK(t, rows[t], issued, used)
        /\ "users" \in Tables
    BY TablesAre DEF IInv, Sound, TablesOK
  <2>1. ASSUME NEW t \in Tables PROVE Cardinality(Ids(rows[t])) = Cardinality(rows[t])
    <3> DEFINE h == [r \in rows[t] |-> r.id]
    <3>1. h \in Surjection(rows[t], Ids(rows[t]))
      BY DEF Surjection, Ids
    <3>2. IsFiniteSet(rows[t]) /\ \A x, y \in rows[t] : h[x] = h[y] => x = y
      BY <2>0 DEF TableOK
    <3> HIDE DEF h
    <3> QED
      BY <3>1, <3>2, SameCount
  <2>2. Cardinality({r.data.email : r \in rows["users"]}) = Cardinality(rows["users"])
    <3> DEFINE emails == {r.data.email : r \in rows["users"]}
               h == [r \in rows["users"] |-> r.data.email]
    <3>1. h \in Surjection(rows["users"], emails)
      BY DEF Surjection
    <3>2. IsFiniteSet(rows["users"]) /\ \A x, y \in rows["users"] : h[x] = h[y] => x = y
      BY <2>0 DEF TableOK
    <3> HIDE DEF h, emails
    <3>3. Cardinality(emails) = Cardinality(rows["users"])
      BY <3>1, <3>2, SameCount
    <3> QED
      BY <3>3 DEF emails
  <2>3. ~ Dangling(rows)
    BY DEF IInv, Sound
  <2>4. export.org \in Orgs \cup {NoOrg} /\ file.org \in Orgs \cup {NoOrg}
    BY DEF IInv, ExportOK, FileOK, BundleOK
  <2>5. \A d \in deleting : d.to \in Users /\ d.to # d.user.id
    BY DEF IInv, DeletionsOK, DeletionOK
  <2> QED
    BY <2>1, <2>2, <2>3, <2>4, <2>5 DEF TypeOK
<1> QED
  BY <1>1, RowsInvariance, PTL

\* The rows of an organization refer to its own users, and it keeps one, unless
\* a deletion went on that knew less than there was, or a torn bundle came in.
THEOREM OrgsWhole == Spec => []OrgsStayWhole
<1>1. IInv => OrgsStayWhole
  BY DEF IInv, Coherent, OrgsStayWhole, UsersOf
<1> QED
  BY <1>1, RowsInvariance, PTL

\* A purge is never refused, nor an import for a foreign key, as long as nobody
\* else's rows refer to the users who go.
THEOREM NothingLeftDangling == Spec => []NothingDangles
<1>1. IInv => NothingDangles
  BY DEF IInv
<1> QED
  BY <1>1, RowsInvariance, PTL

Below(r, S) == {s \in S : s.id < r.id}

\* Of rows with identities of their own, the oldest are as many as the limit
\* allows: the number of older rows tells a row, and takes every value there is.
LEMMA OldestTaken ==
    ASSUME NEW S, IsFiniteSet(S), \A r \in S : r.id \in Nat, \A r, s \in S : r.id = s.id => r = s,
           NEW limit \in Nat
    PROVE  Cardinality({r \in S : Cardinality(Below(r, S)) < limit})
               = IF Cardinality(S) < limit THEN Cardinality(S) ELSE limit
<1> DEFINE N == Cardinality(S)
           rank == [r \in S |-> Cardinality(Below(r, S))]
           T == {r \in S : Cardinality(Below(r, S)) < limit}
<1>1. N \in Nat
  BY FS_CardinalityType
<1>2. ASSUME NEW r \in S
      PROVE  /\ IsFiniteSet(Below(r, S)) /\ Cardinality(Below(r, S)) \in 0..(N - 1)
             /\ \A s \in S : r.id < s.id => Cardinality(Below(r, S)) < Cardinality(Below(s, S))
  <2>1. ASSUME NEW X \in SUBSET S, NEW x \in S, \A y \in X : y.id < x.id
        PROVE  /\ IsFiniteSet(X) /\ Cardinality(X) \in Nat
               /\ IsFiniteSet(X \cup {x}) /\ Cardinality(X \cup {x}) = Cardinality(X) + 1
    <3>1. x \notin X
      BY <2>1
    <3>2. IsFiniteSet(X)
      BY FS_Subset
    <3> QED
      BY <3>1, <3>2, FS_AddElement, FS_CardinalityType
  <2>2. /\ IsFiniteSet(Below(r, S)) /\ Cardinality(Below(r, S)) \in Nat
        /\ Cardinality(Below(r, S) \cup {r}) = Cardinality(Below(r, S)) + 1
    <3>1. Below(r, S) \in SUBSET S /\ \A y \in Below(r, S) : y.id < r.id
      BY DEF Below
    <3> QED
      BY <2>1, <3>1
  <2>3. Cardinality(Below(r, S)) + 1 <= N
    <3>1. Below(r, S) \cup {r} \in SUBSET S
      BY DEF Below
    <3> QED
      BY <2>2, <3>1, FS_Subset
  <2>4. ASSUME NEW s \in S, r.id < s.id PROVE Cardinality(Below(r, S)) < Cardinality(Below(s, S))
    <3>1. Below(r, S) \cup {r} \in SUBSET Below(s, S)
      BY <2>4 DEF Below
    <3>2. Below(s, S) \in SUBSET S
      BY DEF Below
    <3>3. IsFiniteSet(Below(s, S)) /\ Cardinality(Below(s, S)) \in Nat
      BY <3>2, FS_Subset, FS_CardinalityType
    <3>4. Cardinality(Below(r, S) \cup {r}) <= Cardinality(Below(s, S))
      BY <3>1, <3>3, FS_Subset
    <3> QED
      BY <2>2, <3>3, <3>4
  <2>5. Cardinality(Below(r, S)) \in 0..(N - 1)
    BY <1>1, <2>2, <2>3
  <2> QED
    BY <2>2, <2>4, <2>5
<1>3. rank \in Injection(S, 0..(N - 1)) /\ \A r \in S : rank[r] = Cardinality(Below(r, S))
  <2>1. rank \in [S -> 0..(N - 1)] /\ \A r \in S : rank[r] = Cardinality(Below(r, S))
    BY <1>2
  <2>2. ASSUME NEW r \in S, NEW s \in S, rank[r] = rank[s] PROVE r = s
    <3>1. r.id \in Nat /\ s.id \in Nat
      OBVIOUS
    <3>2. CASE r.id < s.id
      <4>1. Cardinality(Below(r, S)) < Cardinality(Below(s, S)) /\ Cardinality(Below(r, S)) \in Nat
        BY <1>2, <3>2
      <4> QED
        BY <2>1, <2>2, <4>1
    <3>3. CASE s.id < r.id
      <4>1. Cardinality(Below(s, S)) < Cardinality(Below(r, S)) /\ Cardinality(Below(r, S)) \in Nat
        BY <1>2, <3>3
      <4> QED
        BY <2>1, <2>2, <4>1
    <3>4. CASE r.id = s.id
      BY <3>4
    <3> QED
      BY <3>1, <3>2, <3>3, <3>4
  <2> HIDE DEF rank
  <2> QED
    BY <2>1, <2>2 DEF Injection, IsInjective
<1> HIDE DEF rank, N
<1>4. rank \in Surjection(S, 0..(N - 1))
  <2>1. IsFiniteSet(0..(N - 1)) /\ Cardinality(0..(N - 1)) = N
    BY <1>1, FS_Interval
  <2> QED
    BY <1>3, <2>1, FS_Injection DEF N
<1>5. CASE N < limit
  <2>1. T = S
    BY <1>1, <1>2, <1>5
  <2> QED
    BY <1>5, <2>1 DEF N
<1>6. CASE ~ (N < limit)
  <2> DEFINE h == [r \in T |-> rank[r]]
  <2>1. /\ T \in SUBSET S /\ \A r \in T : rank[r] \in 0..(limit - 1)
        /\ \A r \in S : rank[r] \in 0..(limit - 1) => r \in T
    BY <1>2, <1>3
  <2>2. \A k \in 0..(limit - 1) : k \in 0..(N - 1)
    BY <1>1, <1>6
  <2>3. h \in Surjection(T, 0..(limit - 1))
    <3>1. ASSUME NEW k \in 0..(limit - 1) PROVE \E r \in T : h[r] = k
      <4>1. PICK r \in S : rank[r] = k
        BY <1>4, <2>2 DEF Surjection
      <4> QED
        BY <2>1, <4>1
    <3>2. h \in [T -> 0..(limit - 1)]
      BY <2>1
    <3> HIDE DEF h, T
    <3> QED
      BY <3>1, <3>2 DEF Surjection
  <2>4. \A x, y \in T : h[x] = h[y] => x = y
    BY <1>3, <2>1 DEF Injection, IsInjective
  <2>5. IsFiniteSet(T)
    BY <2>1, FS_Subset
  <2> HIDE DEF h, T
  <2>6. Cardinality(0..(limit - 1)) = Cardinality(T)
    BY <2>3, <2>4, <2>5, SameCount
  <2>7. Cardinality(0..(limit - 1)) = limit
    <3>1. limit - 1 \in Int /\ (limit - 1) - 0 + 1 = limit /\ (0 > limit - 1 => limit = 0)
      OBVIOUS
    <3> QED
      BY <3>1, FS_Interval
  <2> QED
    BY <1>6, <2>6, <2>7 DEF N, T
<1> QED
  BY <1>5, <1>6

\* An import gives the organization back as it was when its bundle was exported,
\* but for what the limits of the export leave out, unless the organization was
\* written to during the export.
THEOREM ImportsRestore == Spec => []RestoresWhole
<1>1. IInv => RestoresWhole
  <2> SUFFICES ASSUME IInv, last.op = "import", last.why = "ok", ~ file.torn, NEW t \in Range(Exported)
               PROVE  LET was == {Remapped(r, last.org) : r \in file.start[t]}
                          is == Of(rows, last.org)[t] \ {r \in rows["audit"] : r.id = issued}
                          limit == CASE t = "audit" -> AuditLimit [] t = "errors" -> ErrorLimit
                                     [] OTHER -> Cardinality(was)
                      IN  /\ is \subseteq was
                          /\ Cardinality(is) = IF Cardinality(was) < limit THEN Cardinality(was) ELSE limit
                          /\ \A r \in is, s \in was \ is : r.id < s.id
    BY DEF RestoresWhole
  <2> DEFINE start == file.start[t]
             part == file.rows[t]
             o == last.org
             was == {Remapped(r, o) : r \in start}
             is == Of(rows, o)[t] \ {r \in rows["audit"] : r.id = issued}
             limit == CASE t = "audit" -> AuditLimit [] t = "errors" -> ErrorLimit
                        [] OTHER -> Cardinality(was)
  <2>1. /\ file.org # NoOrg /\ o \in Orgs
        /\ is = {Remapped(r, o) : r \in part}
    BY DEF IInv, Restored
  <2>2. BundleOK(file, 10) /\ OfOneState(file, 10) /\ issued \in Nat
    BY <2>1, TablesAre DEF IInv, FileOK, BundleOK
  <2>3. t \in Tables \ {"tokens"}
    BY TablesAre
  <2>4. part = Part(t, start)
    <3>1. PICK j \in 1..10 : t = Exported[j]
      BY <2>3, TablesAre DEF First
    <3> QED
      BY <2>2, <3>1 DEF OfOneState
  <2>5. TableOK(t, start, issued, used) /\ \A r \in start : r.org = file.org /\ RowOK(t, r, issued, used)
    BY <2>2, <2>3 DEF BundleOK, TablesOK, TableOK
  <2> HIDE DEF start, part, is
  <2>6. CASE ~ Limited(t)
    <3>1. is = was
      BY <2>1, <2>4, <2>6 DEF Part
    <3>2. limit = Cardinality(was)
      BY <2>6 DEF Limited
    <3> HIDE DEF was, limit
    <3> QED
      BY <3>1, <3>2 DEF is, was, limit, start
  <2>7. CASE Limited(t)
    <3> DEFINE h == [r \in start |-> Remapped(r, o)]
    <3>1. /\ t \in Numbered /\ t \notin Owned
          /\ limit = IF t = "audit" THEN AuditLimit ELSE ErrorLimit
          /\ limit \in Nat
      BY <2>3, <2>7, RowsAssumption DEF Limited, Numbered, Owned
    <3>2. ASSUME NEW r \in start PROVE r.id \in Nat /\ Remapped(r, o).id = r.id
      BY <2>2, <2>3, <2>5, <3>1, RemappedIs DEF RowOK
    <3>3. IsFiniteSet(start) /\ \A r, s \in start : r.id = s.id => r = s
      BY <2>5 DEF TableOK
    <3>4. part = {r \in start : Cardinality(Below(r, start)) < limit}
      BY <2>4, <2>7, <3>1 DEF Part, Taken, Below, Limited
    <3>5. Cardinality(part) = IF Cardinality(start) < limit THEN Cardinality(start) ELSE limit
      <4> HIDE DEF limit
      <4> QED
        BY <3>1, <3>2, <3>3, <3>4, OldestTaken
    <3>6. \A r \in start : h[r] = Remapped(r, o) /\ h[r].id = r.id
      BY <3>2
    <3>7. part \in SUBSET start
      BY <3>4
    <3>8. Cardinality(was) = Cardinality(start)
      <4>1. h \in Surjection(start, was)
        BY DEF Surjection
      <4>2. \A x, y \in start : h[x] = h[y] => x = y
        <5> HIDE DEF h
        <5> QED
          BY <3>3, <3>6
      <4> HIDE DEF h, was
      <4> QED
        BY <3>3, <4>1, <4>2, SameCount
    <3>9. Cardinality(is) = Cardinality(part)
      <4> DEFINE g == [r \in part |-> Remapped(r, o)]
      <4>1. g \in Surjection(part, is)
        BY <2>1 DEF Surjection
      <4>2. \A x, y \in part : g[x] = g[y] => x = y
        <5>1. \A r \in part : g[r] = h[r]
          BY <3>6, <3>7
        <5> HIDE DEF g, h
        <5> QED
          BY <3>3, <3>6, <3>7, <5>1
      <4>3. IsFiniteSet(part)
        BY <3>3, <3>7, FS_Subset
      <4> HIDE DEF g
      <4> QED
        BY <4>1, <4>2, <4>3, SameCount
    <3>10. is \subseteq was
      BY <2>1, <3>7
    <3>11. ASSUME NEW r \in is, NEW s \in was \ is PROVE r.id < s.id
      <4>1. PICK a \in part : r = Remapped(a, o)
        BY <2>1
      <4>2. PICK b \in start : s = Remapped(b, o)
        BY <3>11
      <4>3. b \notin part
        BY <2>1, <3>11, <4>2
      <4>4. a \in start /\ a.id \in Nat /\ b.id \in Nat /\ r.id = a.id /\ s.id = b.id
        BY <3>2, <3>7, <4>1, <4>2
      <4>5. ASSUME ~ (a.id < b.id) PROVE FALSE
        <5>1. Below(b, start) \in SUBSET Below(a, start)
          <6>1. \A x \in start : x.id \in Nat
            BY <3>2
          <6>2. b.id <= a.id
            BY <4>4, <4>5
          <6> QED
            BY <4>4, <6>1, <6>2 DEF Below
        <5>2. /\ IsFiniteSet(Below(a, start)) /\ Cardinality(Below(a, start)) \in Nat
          <6>1. Below(a, start) \in SUBSET start
            BY DEF Below
          <6> QED
            BY <3>3, <6>1, FS_Subset, FS_CardinalityType
        <5>3. IsFiniteSet(Below(b, start)) /\ Cardinality(Below(b, start)) \in Nat
          BY <5>1, <5>2, FS_Subset, FS_CardinalityType
        <5>4. Cardinality(Below(b, start)) <= Cardinality(Below(a, start))
          BY <5>1, <5>2, FS_Subset
        <5>5. Cardinality(Below(a, start)) < limit /\ ~ (Cardinality(Below(b, start)) < limit)
          BY <3>4, <4>3
        <5> HIDE DEF limit
        <5> QED
          BY <3>1, <5>2, <5>3, <5>4, <5>5
      <4> QED
        BY <4>4, <4>5
    <3>12. Cardinality(is) = IF Cardinality(was) < limit THEN Cardinality(was) ELSE limit
      BY <3>5, <3>8, <3>9
    <3> HIDE DEF was, limit
    <3> QED
      BY <3>10, <3>11, <3>12 DEF is, was, limit, start
  <2> QED
    BY <2>6, <2>7
<1> QED
  BY <1>1, RowsInvariance, PTL
=============================================================================

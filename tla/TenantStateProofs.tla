-------------------------- MODULE TenantStateProofs --------------------------
(***************************************************************************)
(* For any number of tabs and organizations, on either database: a page    *)
(* does not save before its load is in, a generation is answered with a    *)
(* timetable exactly when its run was stored for good, and what a resting  *)
(* tab shows is stored unless somebody else wrote.                         *)
(*                                                                         *)
(* The first needs that a load whose configuration is in, or failed, never *)
(* belongs to a page that waits for it (LoadIsIn).  The second needs that  *)
(* the identities of generations are never reused (Fresher), that on       *)
(* SQLite a generation that runs owns the open transaction, and that       *)
(* nothing is stored or deleted while one is open (OneTransaction): a      *)
(* rollback then takes back no run that was answered, and brings back none *)
(* that was deleted.                                                       *)
(*                                                                         *)
(* The third is kept by an invariant of its own (InStep), step by step.    *)
(***************************************************************************)
EXTENDS TenantState, WellFoundedInduction, TLAPS

\* a page counts as hydrated, or is about to, once its load is in or failed
LoadIsIn ==
    /\ \A t \in Tabs : tab[t].hydrated \/ tab[t].timer => tab[t].history # "unloaded"
    /\ \A l \in loads : l.stage = "latest" => tab[l.tab].history # "unloaded"

\* identities that are still to be given out are not in use
Fresher ==
    /\ \A l \in loads : l.id > left.signIns
    /\ \A g \in gens : g.id > left.gens
    /\ \A r \in stored \cup deleted : r.id > left.gens

\* on SQLite, only the generation that opened the transaction runs, and the
\* runs stored when it began are those stored now
OneTransaction ==
    /\ client = "sqlite" => \A g \in gens : g.stage = "running" => begun.by = g.id
    /\ begun.by # 0 => begun.stored = stored

\* the numbers of the saves on their way are bounded
Bounded == \E k \in Nat : \A p \in puts : p.id <= k

IInv ==
    /\ TypeOK /\ Bounded
    /\ LoadIsIn /\ Fresher /\ OneTransaction /\ AnswersMatchRuns

-----------------------------------------------------------------------------
(* Sets of numbers *)

\* from the well-founded order on the naturals, counted down from the bound
LEMMA HasGreatest ==
    ASSUME NEW S \in SUBSET Nat, S # {}, NEW bound \in Nat, \A x \in S : x <= bound
    PROVE  Max(S) \in S /\ \A x \in S : x <= Max(S)
<1> DEFINE gap(x) == bound - x
           T == {gap(x) : x \in S}
           R == OpToRel(<, Nat)
<1>0. \A x \in S : gap(x) \in Nat
  OBVIOUS
<1>1. PICK x \in S : \A y \in S : <<gap(y), gap(x)>> \notin R
  <2>1. T \subseteq Nat /\ T # {}
    BY <1>0
  <2>2. PICK k \in T : \A m \in T : <<m, k>> \notin R
    <3>1. IsWellFoundedOn(R, Nat)
      BY NatLessThanWellFounded
    <3> HIDE DEF T, R
    <3> QED
      BY <2>1, <3>1, WFMin
  <2> QED
    BY <2>2
<1>2. ASSUME NEW y \in S PROVE x >= y
  <2>1. ~ (gap(y) < gap(x))
    BY <1>0, <1>1 DEF OpToRel
  <2>2. x \in Nat /\ y \in Nat
    OBVIOUS
  <2> QED
    BY <2>1, <2>2
<1>3. Max(S) \in S /\ \A y \in S : Max(S) >= y
  BY <1>2 DEF Max
<1> QED
  BY <1>3

-----------------------------------------------------------------------------
(* The types of the variables, by name *)

Rows == [Orgs -> [data : Copies, migrated : BOOLEAN]]
Runs == [id : Nat, org : Orgs, data : Copies]
Owner == Tabs \cup {NoTab}
Pages == [org : Orgs \cup {NoOrg}, mem : Copies, hydrated : BOOLEAN, timer : BOOLEAN,
          history : {"unloaded", "loaded", "later"}, leaving : BOOLEAN, kept : BOOLEAN]
Puts == [id : Nat, tab : Owner, org : Orgs, data : Copies, last : BOOLEAN]
Loads == [id : Nat, tab : Tabs, stage : {"asked", "migrating", "answered", "latest"},
          org : Orgs \cup {NoOrg}, data : Copies]
Gens == [id : Nat, tab : Owner, org : Orgs, asked : Copies,
         stage : {"asked", "running", "done", "failed"}]
Left == [signIns : Nat, edits : Nat, gens : Nat, faults : Nat, saves : Nat]
Events == {"signIns", "edits", "gens", "faults", "saves"}

Distinct(set) == \A x, y \in set : x.id = y.id => x = y

BegunOK ==
    \/ begun = NoTransaction
    \/ client = "sqlite" /\ begun \in [by : Nat \ {0}, row : Rows, stored : SUBSET Runs]

ServerOK == /\ client \in Clients /\ row \in Rows
            /\ stored \subseteq Runs /\ deleted \subseteq Runs /\ BegunOK
PageOK == token \in Orgs \cup {NoOrg} /\ tab \in [Tabs -> Pages] /\ left \in Left
PutsOK == puts \subseteq Puts /\ Distinct(puts)
LoadsOK == loads \subseteq Loads /\ Distinct(loads)
GensOK == gens \subseteq Gens /\ Distinct(gens)

LEMMA TypeOKIsItsParts ==
    /\ TypeOK <=> ServerOK /\ PageOK /\ PutsOK /\ LoadsOK /\ GensOK
    /\ TypeOK' <=> ServerOK' /\ PageOK' /\ PutsOK' /\ LoadsOK' /\ GensOK'
BY DEF TypeOK, ServerOK, PageOK, PutsOK, LoadsOK, GensOK, BegunOK, Distinct,
       Rows, Runs, Owner, Pages, Puts, Loads, Gens, Left

-----------------------------------------------------------------------------
(* Lemmas about the operators of the module *)

LEMMA MayTyped ==
    ASSUME PageOK, NEW event \in Events, May(event)
    PROVE  /\ left' \in Left
           /\ \A e \in Events : left'[e] <= left[e]
           /\ left[event] > 0 /\ left'[event] = left[event] - 1
<1>1. left \in Left
  BY DEF PageOK
<1> QED
  BY <1>1 DEF May, Left, Events

LEMMA ParsedTyped == \A c \in Copies : Parsed(c) \in Copies
BY DEF Parsed, Copies

LEMMA MigratedTyped == \A c \in Copies : Migrated(c) \in [data : Copies, migrated : BOOLEAN]
BY DEF Migrated, Copies

LEMMA SampleTyped == Sample \in Copies
BY DEF Sample, Copies

LEMMA NewEditTyped ==
    ASSUME PageOK
    PROVE  NewEdit \in Nat
BY DEF PageOK, NewEdit, Left

\* arming the timer of a page changes nothing else of it
LEMMA RearmedTyped ==
    ASSUME NEW page \in Pages
    PROVE  /\ Rearmed(page) \in Pages
           /\ Rearmed(page).history = page.history
           /\ Rearmed(page).hydrated = page.hydrated
           /\ Rearmed(page).timer => page.hydrated
<1>1. (page.org # NoOrg /\ page.hydrated) \in BOOLEAN
  BY DEF Pages
<1>2. \A b \in BOOLEAN : [page EXCEPT !.timer = b] \in Pages
  BY DEF Pages
<1>3. Rearmed(page) \in Pages
  BY <1>1, <1>2 DEF Rearmed
<1>4. /\ Rearmed(page).history = page.history
      /\ Rearmed(page).hydrated = page.hydrated
      /\ Rearmed(page).timer = (page.org # NoOrg /\ page.hydrated)
  BY DEF Rearmed, Pages
<1>5. Rearmed(page).timer => page.hydrated
  BY <1>4
<1> QED
  BY <1>3, <1>4, <1>5

LEMMA OverwrittenTyped ==
    ASSUME NEW pages \in [Tabs -> Pages], NEW o, NEW author
    PROVE  /\ Overwritten(pages, o, author) \in [Tabs -> Pages]
           /\ \A t \in Tabs :
                /\ Overwritten(pages, o, author)[t].history = pages[t].history
                /\ Overwritten(pages, o, author)[t].hydrated = pages[t].hydrated
                /\ Overwritten(pages, o, author)[t].timer = pages[t].timer
BY DEF Overwritten, Pages

\* replacing a request by one of the same identity
LEMMA ReplaceTyped ==
    ASSUME NEW S, NEW set \in SUBSET S, Distinct(set), NEW x \in set, NEW y \in S, y.id = x.id
    PROVE  (set \ {x}) \cup {y} \subseteq S /\ Distinct((set \ {x}) \cup {y})
BY DEF Distinct

LEMMA AddTyped ==
    ASSUME NEW S, NEW set \in SUBSET S, Distinct(set), NEW y \in S, \A x \in set : x.id # y.id
    PROVE  set \cup {y} \subseteq S /\ Distinct(set \cup {y})
BY DEF Distinct

\* saves are numbered beyond those on their way
LEMMA NextIdTyped ==
    ASSUME PutsOK, Bounded
    PROVE  NextId \in Nat /\ \A p \in puts : p.id < NextId
<1> DEFINE S == {0} \cup {p.id : p \in puts}
<1>1. S \in SUBSET Nat /\ S # {}
  BY DEF PutsOK, Puts
<1>2. PICK k \in Nat : \A x \in S : x <= k
  BY DEF Bounded
<1>3. Max(S) \in S /\ \A x \in S : x <= Max(S)
  <2> HIDE DEF S
  <2> QED
    BY <1>1, <1>2, HasGreatest
<1>4. NextId = 1 + Max(S)
  BY DEF NextId
<1>5. Max(S) \in Nat /\ \A p \in puts : p.id \in Nat /\ p.id <= Max(S)
  <2>1. \A p \in puts : p.id \in S
    OBVIOUS
  <2> HIDE DEF S
  <2> QED
    BY <1>1, <1>3, <2>1
<1> HIDE DEF S
<1> QED
  BY <1>4, <1>5

\* a save that is sent is numbered, and nothing else changes of the saves
LEMMA SendsTyped ==
    ASSUME PutsOK, Bounded, NEW t \in Tabs, NEW data \in Copies, NEW isLast \in BOOLEAN,
           token \in Orgs, SendsState(t, data, isLast)
    PROVE  PutsOK' /\ Bounded'
<1> DEFINE p == [id |-> NextId, tab |-> t, org |-> token, data |-> data, last |-> isLast]
<1>1. NextId \in Nat /\ \A q \in puts : q.id < NextId
  BY NextIdTyped
<1>2. p \in Puts /\ p.id = NextId
  BY <1>1 DEF Puts, Owner
<1>3. puts' = puts \cup {p}
  BY DEF SendsState
<1> HIDE DEF p
<1>4. puts \subseteq Puts /\ Distinct(puts) /\ \A q \in puts : q.id \in Nat
  BY DEF PutsOK, Puts
<1>5. \A q \in puts : q.id # p.id
  BY <1>1, <1>2, <1>4
<1>6. PutsOK'
  BY <1>2, <1>3, <1>4, <1>5, AddTyped DEF PutsOK
<1>7. \A q \in puts' : q.id <= NextId
  BY <1>1, <1>2, <1>3, <1>4
<1> QED
  BY <1>1, <1>6, <1>7 DEF Bounded

LEMMA FewerPuts ==
    ASSUME PutsOK, Bounded, puts' \subseteq puts
    PROVE  PutsOK' /\ Bounded'
BY DEF PutsOK, Bounded, Distinct

-----------------------------------------------------------------------------
(* The pages: their types, and that they wait for their load.  WaitsOnce(t) *)
(* says of a page after a step what LoadIsIn says of it before.             *)

WaitsOnce(t) == tab[t].hydrated \/ tab[t].timer => tab[t].history # "unloaded"

\* the page of one tab changes; once its load is in it stays so
Turns(t) ==
    /\ tab' \in [Tabs -> Pages]
    /\ \A u \in Tabs : u # t => tab'[u] = tab[u]
    /\ WaitsOnce(t)'
    /\ tab[t].history # "unloaded" => tab'[t].history # "unloaded"

LEMMA TurnsTo ==
    ASSUME PageOK, NEW t \in Tabs, NEW page \in Pages, tab' = [tab EXCEPT ![t] = page],
           page.hydrated \/ page.timer => page.history # "unloaded",
           tab[t].history # "unloaded" => page.history # "unloaded"
    PROVE  Turns(t)
BY DEF PageOK, Turns, WaitsOnce

LEMMA Rearms ==
    ASSUME PageOK, NEW t \in Tabs, NEW page \in Pages, tab' = [tab EXCEPT ![t] = Rearmed(page)],
           page.hydrated => page.history # "unloaded",
           tab[t].history # "unloaded" => page.history # "unloaded"
    PROVE  Turns(t)
BY RearmedTyped, TurnsTo

LEMMA PageOfTab ==
    ASSUME PageOK, NEW t \in Tabs
    PROVE  tab[t] \in Pages
BY DEF PageOK

LEMMA SignInStep ==
    ASSUME PageOK, LoadIsIn, NEW t \in Tabs, NEW o \in Orgs, SignIn(t, o)
    PROVE  Turns(t) /\ token' \in Orgs \cup {NoOrg} /\ left' \in Left
<1> DEFINE page == [tab[t] EXCEPT !.org = o]
<1>1. page \in Pages /\ page.hydrated = tab[t].hydrated /\ page.history = tab[t].history
  BY PageOfTab DEF Pages
<1>2. tab' = [tab EXCEPT ![t] = Rearmed(page)]
  BY DEF SignIn
<1> HIDE DEF page
<1> QED
  BY <1>1, <1>2, Rearms, MayTyped DEF SignIn, LoadIsIn, Events

LEMMA EditStep ==
    ASSUME PageOK, LoadIsIn, NEW t \in Tabs, Edit(t)
    PROVE  Turns(t) /\ left' \in Left
<1> DEFINE page == [tab[t] EXCEPT !.mem.edit = NewEdit, !.mem.paused = ~ @]
<1>1. page \in Pages /\ page.hydrated = tab[t].hydrated /\ page.history = tab[t].history
  <2>1. ASSUME NEW b \in BOOLEAN
        PROVE  LET edited == [tab[t] EXCEPT !.mem.edit = NewEdit, !.mem.paused = b]
               IN  edited \in Pages /\ edited.hydrated = tab[t].hydrated
                   /\ edited.history = tab[t].history
    BY PageOfTab, NewEditTyped DEF Pages, Copies
  <2>2. (~ tab[t].mem.paused) \in BOOLEAN
    OBVIOUS
  <2> QED
    BY <2>1, <2>2
<1>2. tab' = [tab EXCEPT ![t] = Rearmed(page)]
  BY DEF Edit
<1> HIDE DEF page
<1> QED
  BY <1>1, <1>2, Rearms, MayTyped DEF Edit, LoadIsIn, Events

LEMMA SaveSetupStep ==
    ASSUME PageOK, LoadIsIn, PutsOK, Bounded, NEW t \in Tabs, SaveSetup(t)
    PROVE  Turns(t) /\ left' \in Left /\ PutsOK' /\ Bounded'
<1> DEFINE page == [tab[t] EXCEPT !.mem.edit = NewEdit]
<1> DEFINE sent == [page EXCEPT !.kept = token = page.org]
<1>1. page \in Pages /\ page.hydrated = tab[t].hydrated /\ page.history = tab[t].history
      /\ page.mem \in Copies
  BY PageOfTab, NewEditTyped DEF Pages, Copies
<1>2. /\ tab' = [tab EXCEPT ![t] = Rearmed(sent)]
      /\ IF token # NoOrg THEN SendsState(t, page.mem, FALSE) ELSE UNCHANGED puts
  BY DEF SaveSetup
<1> HIDE DEF page
<1>3. sent \in Pages /\ sent.hydrated = page.hydrated /\ sent.history = page.history
  <2>1. \A b \in BOOLEAN : [page EXCEPT !.kept = b] \in Pages
    BY <1>1 DEF Pages
  <2>2. (token = page.org) \in BOOLEAN
    OBVIOUS
  <2>3. sent \in Pages
    BY <2>1, <2>2
  <2> QED
    BY <1>1, <2>3 DEF Pages
<1> HIDE DEF sent
<1>4. PutsOK' /\ Bounded'
  <2>1. CASE token # NoOrg
    BY <2>1, <1>1, <1>2, SendsTyped DEF PageOK
  <2>2. CASE token = NoOrg
    BY <2>2, <1>2 DEF PutsOK, Bounded, Distinct
  <2> QED
    BY <2>1, <2>2
<1> QED
  BY <1>1, <1>2, <1>3, <1>4, Rearms, MayTyped DEF SaveSetup, LoadIsIn, Events

LEMMA AutosaveStep ==
    ASSUME PageOK, LoadIsIn, PutsOK, Bounded, NEW t \in Tabs, Autosave(t)
    PROVE  Turns(t) /\ PutsOK' /\ Bounded'
<1> DEFINE page == [tab[t] EXCEPT !.timer = FALSE, !.kept = token = tab[t].org]
<1>1. page \in Pages /\ page.hydrated = tab[t].hydrated /\ page.history = tab[t].history
      /\ page.timer = FALSE
  <2>1. ASSUME NEW b \in BOOLEAN
        PROVE  LET saved == [tab[t] EXCEPT !.timer = FALSE, !.kept = b]
               IN  saved \in Pages /\ saved.hydrated = tab[t].hydrated
                   /\ saved.history = tab[t].history /\ saved.timer = FALSE
    BY PageOfTab DEF Pages
  <2>2. (token = tab[t].org) \in BOOLEAN
    OBVIOUS
  <2> QED
    BY <2>1, <2>2
<1>2. tab' = [tab EXCEPT ![t] = page]
  BY PageOfTab DEF Autosave, PageOK
<1>3. PutsOK' /\ Bounded'
  BY PageOfTab, SendsTyped DEF Autosave, PageOK, Pages
<1> HIDE DEF page
<1> QED
  BY <1>1, <1>2, <1>3, TurnsTo DEF LoadIsIn

LEMMA AutosaveFailsStep ==
    ASSUME PageOK, LoadIsIn, NEW t \in Tabs, AutosaveFails(t)
    PROVE  Turns(t)
<1> DEFINE page == [tab[t] EXCEPT !.timer = FALSE, !.kept = FALSE]
<1>1. page \in Pages /\ page.hydrated = tab[t].hydrated /\ page.history = tab[t].history
      /\ page.timer = FALSE
  BY PageOfTab DEF Pages
<1>2. tab' = [tab EXCEPT ![t] = page]
  BY PageOfTab DEF AutosaveFails, PageOK
<1> HIDE DEF page
<1> QED
  BY <1>1, <1>2, TurnsTo DEF LoadIsIn

LEMMA LogoutSavesStep ==
    ASSUME PageOK, LoadIsIn, PutsOK, Bounded, NEW t \in Tabs, LogoutSaves(t)
    PROVE  Turns(t) /\ PutsOK' /\ Bounded'
<1> DEFINE page == [tab[t] EXCEPT !.leaving = TRUE]
<1>1. page \in Pages /\ page.hydrated = tab[t].hydrated /\ page.history = tab[t].history
      /\ page.timer = tab[t].timer
  BY PageOfTab DEF Pages
<1>2. tab' = [tab EXCEPT ![t] = page]
  BY PageOfTab DEF LogoutSaves, PageOK
<1>3. PutsOK' /\ Bounded'
  <2>1. CASE token # NoOrg
    BY <2>1, PageOfTab, SendsTyped DEF LogoutSaves, PageOK, Pages
  <2>2. CASE token = NoOrg
    BY <2>2 DEF LogoutSaves, PutsOK, Bounded, Distinct
  <2> QED
    BY <2>1, <2>2
<1> HIDE DEF page
<1> QED
  BY <1>1, <1>2, <1>3, TurnsTo DEF LoadIsIn

LEMMA LogoutSignsOutStep ==
    ASSUME PageOK, LoadIsIn, NEW t \in Tabs, LogoutSignsOut(t)
    PROVE  Turns(t)
<1> DEFINE page == [tab[t] EXCEPT !.org = NoOrg, !.timer = FALSE, !.history = "later", !.leaving = FALSE]
<1>1. page \in Pages /\ page.history = "later"
  BY PageOfTab DEF Pages
<1>2. tab' = [tab EXCEPT ![t] = page]
  BY PageOfTab DEF LogoutSignsOut, PageOK
<1> HIDE DEF page
<1> QED
  BY <1>1, <1>2, TurnsTo DEF LoadIsIn

LEMMA ExpireStep ==
    ASSUME PageOK, LoadIsIn, NEW t \in Tabs, Expire(t)
    PROVE  Turns(t) /\ left' \in Left
<1> DEFINE page == [tab[t] EXCEPT !.org = NoOrg, !.timer = FALSE, !.history = "later",
                                  !.leaving = FALSE, !.hydrated = TRUE]
<1>1. page \in Pages /\ page.history = "later"
  BY PageOfTab DEF Pages
<1>2. tab' = [tab EXCEPT ![t] = page]
  BY PageOfTab DEF Expire, PageOK
<1>3. left' \in Left
  BY MayTyped DEF Expire, Events, PageOK
<1> HIDE DEF page
<1> QED
  BY <1>1, <1>2, <1>3, TurnsTo DEF LoadIsIn

\* the timer is set again, if at all
LEMMA RearmedStep ==
    ASSUME PageOK, LoadIsIn, NEW t \in Tabs, tab' = [tab EXCEPT ![t] = Rearmed(tab[t])]
    PROVE  Turns(t)
BY PageOfTab, Rearms DEF LoadIsIn

LEMMA TakeStateStep ==
    ASSUME PageOK, LoadIsIn, LoadsOK, NEW l \in loads, TakeState(l)
    PROVE  Turns(l.tab) /\ tab'[l.tab].history # "unloaded"
<1> DEFINE t == l.tab
<1> DEFINE page == [tab[t] EXCEPT !.mem = l.data,
                                  !.history = IF @ = "unloaded" THEN "loaded" ELSE @]
<1>1. t \in Tabs /\ l.data \in Copies
  BY DEF LoadsOK, Loads
<1>2. page \in Pages /\ page.history # "unloaded"
  <2>1. PICK word \in {"loaded", "later"} :
          page = [tab[t] EXCEPT !.mem = l.data, !.history = word]
    BY <1>1, PageOfTab DEF Pages
  <2>2. /\ [tab[t] EXCEPT !.mem = l.data, !.history = word] \in Pages
        /\ [tab[t] EXCEPT !.mem = l.data, !.history = word].history = word
    BY <1>1, PageOfTab DEF Pages
  <2> HIDE DEF page
  <2> QED
    BY <2>1, <2>2
<1>3. tab' = [tab EXCEPT ![t] = Rearmed(page)]
  BY DEF TakeState
<1> HIDE DEF page
<1>4. Rearmed(page).history # "unloaded"
  BY <1>2, RearmedTyped
<1> QED
  BY <1>1, <1>2, <1>3, <1>4, Rearms DEF PageOK

LEMMA LoadFailsStep ==
    ASSUME PageOK, LoadIsIn, LoadsOK, NEW l \in loads, LoadFails(l)
    PROVE  Turns(l.tab) /\ tab'[l.tab].history # "unloaded"
<1> DEFINE t == l.tab
<1> DEFINE page == [tab[t] EXCEPT !.history = "later"]
<1>1. t \in Tabs
  BY DEF LoadsOK, Loads
<1>2. page \in Pages /\ page.history = "later"
  BY <1>1, PageOfTab DEF Pages
<1>3. tab' = [tab EXCEPT ![t] = page]
  BY <1>1, PageOfTab DEF LoadFails, PageOK
<1> HIDE DEF page
<1> QED
  BY <1>1, <1>2, <1>3, TurnsTo DEF PageOK

LEMMA TakeLatestStep ==
    ASSUME PageOK, LoadIsIn, LoadsOK, NEW l \in loads, TakeLatest(l)
    PROVE  Turns(l.tab)
<1> DEFINE t == l.tab
<1> DEFINE page == [tab[t] EXCEPT !.hydrated = TRUE]
<1>1. t \in Tabs /\ tab[t].history # "unloaded"
  BY DEF LoadsOK, Loads, LoadIsIn, TakeLatest
<1>2. page \in Pages /\ page.history # "unloaded"
  BY <1>1, PageOfTab DEF Pages
<1>3. tab' = [tab EXCEPT ![t] = Rearmed(page)]
  BY DEF TakeLatest
<1> HIDE DEF page
<1> QED
  BY <1>1, <1>2, <1>3, Rearms

\* a page whose tab is told that its configuration was overwritten, or its
\* save lost, is otherwise as it was
Keeps ==
    /\ tab' \in [Tabs -> Pages]
    /\ \A t \in Tabs : /\ tab'[t].history = tab[t].history
                       /\ tab'[t].hydrated = tab[t].hydrated
                       /\ tab'[t].timer = tab[t].timer

LEMMA OverwrittenKeeps ==
    ASSUME PageOK, NEW o, NEW author, tab' = Overwritten(tab, o, author)
    PROVE  Keeps
BY OverwrittenTyped DEF Keeps, PageOK

LEMMA LostKeeps ==
    ASSUME PageOK, NEW pages \in [Tabs -> Pages],
           \A t \in Tabs : /\ pages[t].history = tab[t].history
                          /\ pages[t].hydrated = tab[t].hydrated
                          /\ pages[t].timer = tab[t].timer,
           NEW t \in Owner,
           tab' = pages \/ (t # NoTab /\ tab' = [pages EXCEPT ![t].kept = FALSE])
    PROVE  Keeps
<1>1. CASE tab' = pages
  BY <1>1 DEF Keeps
<1>2. CASE t # NoTab /\ tab' = [pages EXCEPT ![t] = [pages[t] EXCEPT !.kept = FALSE]]
  <2> DEFINE page == [pages[t] EXCEPT !.kept = FALSE]
  <2>1. t \in Tabs
    BY <1>2 DEF Owner
  <2>2. /\ page \in Pages
        /\ page.history = pages[t].history /\ page.hydrated = pages[t].hydrated
        /\ page.timer = pages[t].timer
    BY <2>1 DEF Pages
  <2>3. tab' = [pages EXCEPT ![t] = page]
    BY <1>2
  <2> HIDE DEF page
  <2> QED
    BY <2>1, <2>2, <2>3 DEF Keeps
<1> QED
  BY <1>1, <1>2

-----------------------------------------------------------------------------
(* One step of the types, of LoadIsIn and of Fresher *)

Good ==
    /\ ServerOK /\ PageOK /\ PutsOK /\ Bounded /\ LoadsOK /\ GensOK
    /\ LoadIsIn /\ Fresher

ServerSame == UNCHANGED server
LeftLess == left' \in Left /\ \A e \in Events : left'[e] <= left[e]

LEMMA MayLess ==
    ASSUME PageOK, (\E e \in Events : May(e)) \/ UNCHANGED left
    PROVE  LeftLess
<1>1. CASE \E e \in Events : May(e)
  BY <1>1, MayTyped DEF LeftLess
<1>2. CASE UNCHANGED left
  BY <1>2 DEF LeftLess, PageOK, Left, Events
<1> QED
  BY <1>1, <1>2

LEMMA SameServer ==
    ASSUME ServerOK, UNCHANGED server
    PROVE  ServerOK'
BY DEF ServerOK, server, BegunOK

LEMMA LeftNumbers ==
    ASSUME PageOK, LeftLess
    PROVE  /\ left.signIns \in Nat /\ left'.signIns \in Nat /\ left'.signIns <= left.signIns
           /\ left.gens \in Nat /\ left'.gens \in Nat /\ left'.gens <= left.gens
BY DEF PageOK, LeftLess, Events, Left

LEMMA FewerLoads ==
    ASSUME PageOK, LoadsOK, Fresher, LeftLess, loads' \subseteq loads
    PROVE  LoadsOK' /\ \A l \in loads' : l.id > left'.signIns
BY LeftNumbers DEF LoadsOK, Distinct, Fresher, Loads

LEMMA LoadMoves ==
    ASSUME PageOK, LoadsOK, Fresher, LeftLess,
           NEW l \in loads, NEW k \in Loads, k.id = l.id, loads' = (loads \ {l}) \cup {k}
    PROVE  LoadsOK' /\ \A x \in loads' : x.id > left'.signIns
<1>1. LoadsOK'
  BY ReplaceTyped DEF LoadsOK
<1>2. \A x \in loads : x.id \in Nat /\ x.id > left.signIns
  BY DEF LoadsOK, Loads, Fresher
<1>3. ASSUME NEW x \in loads' PROVE x.id > left'.signIns
  <2>1. PICK y \in loads : x.id = y.id
    OBVIOUS
  <2> QED
    BY <2>1, <1>2, LeftNumbers
<1> QED
  BY <1>1, <1>3

LEMMA FewerGens ==
    ASSUME PageOK, GensOK, Fresher, LeftLess, gens' \subseteq gens
    PROVE  GensOK' /\ \A g \in gens' : g.id > left'.gens
BY LeftNumbers DEF GensOK, Distinct, Fresher, Gens

LEMMA GenMoves ==
    ASSUME PageOK, GensOK, Fresher, LeftLess,
           NEW g \in gens, NEW h \in Gens, h.id = g.id, gens' = (gens \ {g}) \cup {h}
    PROVE  GensOK' /\ \A x \in gens' : x.id > left'.gens
<1>1. GensOK'
  BY ReplaceTyped DEF GensOK
<1>2. \A x \in gens : x.id \in Nat /\ x.id > left.gens
  BY DEF GensOK, Gens, Fresher
<1>3. ASSUME NEW x \in gens' PROVE x.id > left'.gens
  <2>1. PICK y \in gens : x.id = y.id
    OBVIOUS
  <2> QED
    BY <2>1, <1>2, LeftNumbers
<1> QED
  BY <1>1, <1>3

LEMMA SameStored ==
    ASSUME PageOK, ServerOK, Fresher, LeftLess, (stored \cup deleted)' = stored \cup deleted
    PROVE  \A r \in (stored \cup deleted)' : r.id > left'.gens
BY LeftNumbers DEF ServerOK, Runs, Fresher

\* a load that is taken for the latest run has been waited for
LEMMA WaitsAfterTurn ==
    ASSUME LoadIsIn, LoadsOK, NEW t \in Tabs, Turns(t),
           \A l \in loads' :
             \/ l.stage # "latest"
             \/ l \in loads
             \/ l.tab = t /\ tab'[t].history # "unloaded"
    PROVE  LoadIsIn'
<1>1. ASSUME NEW u \in Tabs PROVE tab'[u].hydrated \/ tab'[u].timer => tab'[u].history # "unloaded"
  BY DEF Turns, WaitsOnce, LoadIsIn
<1>2. ASSUME NEW l \in loads', l.stage = "latest" PROVE tab'[l.tab].history # "unloaded"
  BY <1>2 DEF Turns, LoadIsIn, LoadsOK, Loads
<1> QED
  BY <1>1, <1>2 DEF LoadIsIn

LEMMA WaitsAsBefore ==
    ASSUME LoadIsIn, LoadsOK, Keeps \/ (UNCHANGED tab /\ PageOK),
           \A l \in loads' : l.stage # "latest" \/ l \in loads
    PROVE  LoadIsIn'
<1>1. \A t \in Tabs : /\ tab'[t].history = tab[t].history
                      /\ tab'[t].hydrated = tab[t].hydrated
                      /\ tab'[t].timer = tab[t].timer
  BY DEF Keeps
<1>2. ASSUME NEW u \in Tabs PROVE tab'[u].hydrated \/ tab'[u].timer => tab'[u].history # "unloaded"
  BY <1>1 DEF LoadIsIn
<1>3. ASSUME NEW l \in loads', l.stage = "latest" PROVE tab'[l.tab].history # "unloaded"
  BY <1>1, <1>3 DEF LoadIsIn, LoadsOK, Loads
<1> QED
  BY <1>2, <1>3 DEF LoadIsIn

\* a step of a page that leaves the server, the loads and the generations alone
LEMMA QuietPage ==
    ASSUME Good, NEW t \in Tabs, Turns(t), LeftLess, PutsOK', Bounded',
           UNCHANGED <<server, loads, gens>>, token' \in Orgs \cup {NoOrg}
    PROVE  Good'
<1>1. LoadsOK' /\ GensOK' /\ Fresher'
  BY FewerLoads, FewerGens, SameStored DEF Good, Fresher, server
<1>2. LoadIsIn'
  BY WaitsAfterTurn DEF Good
<1> QED
  BY <1>1, <1>2, SameServer DEF Good, PageOK, Turns, LeftLess

LEMMA SamePuts ==
    ASSUME PutsOK, Bounded, UNCHANGED puts
    PROVE  PutsOK' /\ Bounded'
BY FewerPuts

\* the events a page may use up
LEMMA PageLess ==
    ASSUME PageOK, NEW t \in Tabs, Page(t)
    PROVE  LeftLess
<1> SUFFICES (\E e \in Events : May(e)) \/ UNCHANGED left
  BY MayLess
<1> QED
  BY DEF Page, Edit, SaveSetup, Autosave, AutosaveFails, LogoutSaves, LogoutSignsOut, Expire,
         Reload, Generate, SignIn, Events

LEMMA PageGood ==
    ASSUME Good, NEW t \in Tabs, Page(t)
    PROVE  Good'
<1> USE DEF Good
<1>1. LeftLess
  BY PageLess
<1>2. CASE Edit(t)
  BY <1>1, <1>2, EditStep, QuietPage, SamePuts DEF Edit, requests, PageOK
<1>3. CASE SaveSetup(t)
  BY <1>1, <1>3, SaveSetupStep, QuietPage DEF SaveSetup, PageOK
<1>4. CASE Autosave(t)
  BY <1>1, <1>4, AutosaveStep, QuietPage DEF Autosave, PageOK
<1>5. CASE AutosaveFails(t)
  BY <1>1, <1>5, AutosaveFailsStep, QuietPage, SamePuts DEF AutosaveFails, requests, PageOK
<1>6. CASE LogoutSaves(t)
  BY <1>1, <1>6, LogoutSavesStep, QuietPage DEF LogoutSaves, PageOK
<1>7. CASE LogoutSignsOut(t)
  BY <1>1, <1>7, LogoutSignsOutStep, QuietPage, SamePuts DEF LogoutSignsOut, requests
<1>8. CASE Expire(t)
  BY <1>1, <1>8, ExpireStep, QuietPage, SamePuts DEF Expire, requests
<1>9. CASE Generate(t)
  <2> DEFINE g == [id |-> left.gens, tab |-> t, org |-> token, asked |-> tab[t].mem, stage |-> "asked"]
  <2>1. g \in Gens /\ g.id = left.gens
    BY <1>9, PageOfTab DEF Generate, PageOK, Pages, Gens, Owner, Left
  <2>2. gens' = gens \cup {g}
    BY <1>9 DEF Generate
  <2> HIDE DEF g
  <2>3. left.gens \in Nat /\ left'.gens = left.gens - 1 /\ \A x \in gens : x.id \in Nat /\ x.id > left.gens
    BY <1>9, LeftNumbers, MayTyped, <1>1 DEF Generate, Events, Fresher, GensOK, Gens
  <2>4. GensOK'
    BY <2>1, <2>2, <2>3, AddTyped DEF GensOK
  <2>5. \A x \in gens' : x.id > left'.gens
    BY <2>1, <2>2, <2>3
  <2>6. LoadsOK' /\ Fresher'
    BY <1>1, <1>9, <2>5, FewerLoads, SameStored DEF Generate, Fresher, server
  <2>7. Turns(t) /\ PutsOK' /\ Bounded' /\ ServerOK'
    BY <1>9, RearmedStep, SamePuts, SameServer DEF Generate
  <2>8. LoadIsIn'
    BY <1>9, <2>7, WaitsAfterTurn DEF Generate
  <2> QED
    BY <1>1, <1>9, <2>4, <2>6, <2>7, <2>8 DEF Generate, PageOK, Turns, LeftLess
<1>10. ASSUME NEW o \in Orgs, SignIn(t, o) PROVE Good'
  <2> DEFINE l == [id |-> left.signIns, tab |-> t, stage |-> "asked", org |-> NoOrg, data |-> Sample]
  <2>1. l \in Loads /\ l.id = left.signIns /\ l.stage # "latest"
    BY SampleTyped DEF PageOK, Loads, Left
  <2>2. loads' = loads \cup {l}
    BY <1>10 DEF SignIn
  <2> HIDE DEF l
  <2>3. left.signIns \in Nat /\ left'.signIns = left.signIns - 1
        /\ \A x \in loads : x.id \in Nat /\ x.id > left.signIns
    BY <1>10, LeftNumbers, MayTyped, <1>1 DEF SignIn, Events, Fresher, LoadsOK, Loads
  <2>4. LoadsOK'
    BY <2>1, <2>2, <2>3, AddTyped DEF LoadsOK
  <2>5. \A x \in loads' : x.id > left'.signIns
    BY <2>1, <2>2, <2>3
  <2>6. GensOK' /\ Fresher'
    BY <1>1, <1>10, <2>5, FewerGens, SameStored DEF SignIn, Fresher, server
  <2>7. Turns(t) /\ PutsOK' /\ Bounded' /\ ServerOK' /\ token' \in Orgs \cup {NoOrg}
    BY <1>10, SignInStep, SamePuts, SameServer DEF SignIn
  <2>8. LoadIsIn'
    BY <2>1, <2>2, <2>7, WaitsAfterTurn
  <2> QED
    BY <1>1, <2>4, <2>6, <2>7, <2>8 DEF PageOK, Turns, LeftLess
<1>11. CASE Reload(t)
  <2>1. tab' = [tab EXCEPT ![t] = Fresh] /\ Fresh \in Pages /\ Fresh.hydrated = FALSE /\ Fresh.timer = FALSE
    BY <1>11, SampleTyped DEF Reload, Fresh, Pages
  <2>2. loads' \subseteq loads /\ \A l \in loads' : l.tab # t
    BY <1>11 DEF Reload
  <2>3. ASSUME NEW p \in puts' PROVE p \in Puts /\ \E q \in puts : p.id = q.id /\ (q.tab = t => p = [q EXCEPT !.tab = NoTab]) /\ (q.tab # t => p = q)
    BY <1>11 DEF Reload, PutsOK, Puts, Owner
  <2>4. PutsOK' /\ Bounded'
    BY <2>3 DEF PutsOK, Distinct, Bounded
  <2>5. ASSUME NEW h \in gens' PROVE h \in Gens /\ \E g \in gens : h.id = g.id /\ (g.tab = t => h = [g EXCEPT !.tab = NoTab]) /\ (g.tab # t => h = g)
    BY <1>11 DEF Reload, GensOK, Gens, Owner
  <2>6. GensOK'
    BY <2>5 DEF GensOK, Distinct
  <2>7. \A h \in gens' : h.id > left'.gens
    BY <1>1, <2>5, LeftNumbers DEF GensOK, Gens, Fresher
  <2>8. LoadsOK' /\ Fresher'
    BY <1>1, <1>11, <2>2, <2>7, FewerLoads, SameStored DEF Reload, Fresher, server
  <2>9. LoadIsIn'
    BY <2>1, <2>2 DEF LoadIsIn, PageOK, LoadsOK, Loads
  <2>10. tab' \in [Tabs -> Pages]
    BY <2>1 DEF PageOK
  <2> QED
    BY <1>1, <1>11, <2>4, <2>6, <2>8, <2>9, <2>10, SameServer DEF Reload, PageOK, LeftLess
<1> QED
  BY <1>2, <1>3, <1>4, <1>5, <1>6, <1>7, <1>8, <1>9, <1>10, <1>11 DEF Page

\* the row of an organization is written
LEMMA RowWritten ==
    ASSUME ServerOK, NEW o \in Orgs, NEW c \in Copies, NEW b \in BOOLEAN,
           row' = [row EXCEPT ![o] = [data |-> c, migrated |-> b]],
           UNCHANGED <<client, stored, deleted, begun>>
    PROVE  ServerOK'
BY DEF ServerOK, BegunOK, Rows

LEMMA LoadingGood ==
    ASSUME Good, NEW l \in loads, Loading(l)
    PROVE  Good'
<1> USE DEF Good
<1>1. LeftLess
  BY MayLess DEF Loading, ReadState, WriteBack, TakeState, TakeLatest, LoadFails, Events
<1>2. l \in Loads /\ l.tab \in Tabs
  BY DEF LoadsOK, Loads
<1>3. PutsOK' /\ Bounded'
  BY SamePuts DEF Loading, ReadState, WriteBack, TakeState, TakeLatest, LoadFails
<1>4. GensOK' /\ \A g \in gens' : g.id > left'.gens
  BY <1>1, FewerGens DEF Loading, ReadState, WriteBack, TakeState, TakeLatest, LoadFails
<1>5. \A r \in (stored \cup deleted)' : r.id > left'.gens
  BY <1>1, SameStored DEF Loading, ReadState, WriteBack, TakeState, TakeLatest, LoadFails, server
<1>6. CASE ReadState(l)
  <2> DEFINE k == [l EXCEPT !.org = token, !.data = row[token].data,
                            !.stage = IF NeedsMigration(row[token]) THEN "migrating" ELSE "answered"]
  <2>1. row[token].data \in Copies /\ token \in Orgs
    BY <1>6 DEF ReadState, PageOK, ServerOK, Rows
  <2>2. k \in Loads /\ k.id = l.id /\ k.stage # "latest"
    BY <1>2, <2>1 DEF Loads
  <2>3. loads' = (loads \ {l}) \cup {k}
    BY <1>6 DEF ReadState
  <2> HIDE DEF k
  <2>4. LoadsOK' /\ Fresher'
    BY <1>1, <1>4, <1>5, <2>2, <2>3, LoadMoves DEF Fresher
  <2>5. LoadIsIn'
    BY <1>6, <2>2, <2>3, WaitsAsBefore DEF ReadState
  <2> QED
    BY <1>3, <1>4, <1>6, <2>4, <2>5, SameServer DEF ReadState, PageOK
<1>7. CASE WriteBack(l)
  <2> DEFINE k == [l EXCEPT !.stage = "answered"]
  <2>1. k \in Loads /\ k.id = l.id /\ k.stage # "latest"
    BY <1>2 DEF Loads
  <2>2. loads' = (loads \ {l}) \cup {k}
    BY <1>7 DEF WriteBack
  <2> HIDE DEF k
  <2>3. LoadsOK' /\ Fresher'
    BY <1>1, <1>4, <1>5, <2>1, <2>2, LoadMoves DEF Fresher
  <2>4. Keeps
    BY <1>7, OverwrittenKeeps DEF WriteBack
  <2>5. LoadIsIn'
    BY <2>1, <2>2, <2>4, WaitsAsBefore
  <2>6. ServerOK'
    <3>1. row' = [row EXCEPT ![l.org] = [data |-> l.data, migrated |-> TRUE]]
      BY <1>7 DEF WriteBack, Migrated
    <3>2. l.data \in Copies
      BY <1>2 DEF Loads
    <3>3. row' \in Rows
      BY <3>1, <3>2 DEF ServerOK, Rows
    <3> QED
      BY <1>7, <3>3 DEF WriteBack, ServerOK, BegunOK
  <2> QED
    BY <1>3, <1>4, <1>7, <2>3, <2>4, <2>5, <2>6 DEF WriteBack, PageOK, Keeps
<1>8. CASE TakeState(l) \/ LoadFails(l)
  <2> DEFINE k == [l EXCEPT !.stage = "latest"]
  <2>1. k \in Loads /\ k.id = l.id /\ k.tab = l.tab
    BY <1>2 DEF Loads
  <2>2. loads' = (loads \ {l}) \cup {k}
    BY <1>8 DEF TakeState, LoadFails
  <2> HIDE DEF k
  <2>3. LoadsOK' /\ Fresher'
    BY <1>1, <1>4, <1>5, <2>1, <2>2, LoadMoves DEF Fresher
  <2>4. Turns(l.tab) /\ tab'[l.tab].history # "unloaded"
    BY <1>8, TakeStateStep, LoadFailsStep
  <2>5. LoadIsIn'
    BY <1>2, <2>1, <2>2, <2>4, WaitsAfterTurn
  <2> QED
    BY <1>1, <1>3, <1>4, <1>8, <2>3, <2>4, <2>5, SameServer
       DEF TakeState, LoadFails, PageOK, Turns, LeftLess
<1>9. CASE TakeLatest(l)
  <2>1. LoadsOK' /\ Fresher'
    BY <1>1, <1>4, <1>5, <1>9, FewerLoads DEF TakeLatest, Fresher
  <2>2. Turns(l.tab)
    BY <1>9, TakeLatestStep
  <2>3. LoadIsIn'
    BY <1>2, <1>9, <2>2, WaitsAfterTurn DEF TakeLatest
  <2> QED
    BY <1>1, <1>3, <1>4, <1>9, <2>1, <2>2, <2>3, SameServer
       DEF TakeLatest, PageOK, Turns, LeftLess
<1> QED
  BY <1>6, <1>7, <1>8, <1>9 DEF Loading

LEMMA SavingGood ==
    ASSUME Good, NEW p \in puts, ProcessPut(p) \/ LosePut(p)
    PROVE  Good'
<1> USE DEF Good
<1>1. LeftLess
  BY MayLess DEF ProcessPut, LosePut, Events
<1>2. p \in Puts /\ p.tab \in Owner /\ p.org \in Orgs /\ p.data \in Copies
  BY DEF PutsOK, Puts
<1>3. PutsOK' /\ Bounded'
  BY FewerPuts DEF ProcessPut, LosePut
<1>4. LoadsOK' /\ GensOK' /\ Fresher'
  BY <1>1, FewerLoads, FewerGens, SameStored DEF ProcessPut, LosePut, Fresher, server
<1>5. Keeps
  <2>1. CASE ProcessPut(p)
    <3> DEFINE pages == Overwritten(tab, p.org, p.tab)
    <3>1. tab' = pages \/ (p.tab # NoTab /\ tab' = [pages EXCEPT ![p.tab].kept = FALSE])
      BY <2>1 DEF ProcessPut
    <3>2. /\ pages \in [Tabs -> Pages]
          /\ \A t \in Tabs : /\ pages[t].history = tab[t].history
                             /\ pages[t].hydrated = tab[t].hydrated
                             /\ pages[t].timer = tab[t].timer
      BY OverwrittenTyped DEF PageOK
    <3> HIDE DEF pages
    <3> QED
      BY <1>2, <3>1, <3>2, LostKeeps
  <2>2. CASE LosePut(p)
    <3>1. tab' = tab \/ (p.tab # NoTab /\ tab' = [tab EXCEPT ![p.tab].kept = FALSE])
      BY <2>2 DEF LosePut
    <3>2. tab \in [Tabs -> Pages]
      BY DEF PageOK
    <3> QED
      BY <1>2, <3>1, <3>2, LostKeeps
  <2> QED
    BY <2>1, <2>2
<1>6. LoadIsIn'
  BY <1>5, WaitsAsBefore DEF ProcessPut, LosePut
<1>7. ServerOK'
  <2>1. CASE ProcessPut(p)
    BY <1>2, <2>1, RowWritten, ParsedTyped DEF ProcessPut
  <2>2. CASE LosePut(p)
    BY <2>2, SameServer DEF LosePut
  <2> QED
    BY <2>1, <2>2
<1> QED
  BY <1>1, <1>3, <1>4, <1>5, <1>6, <1>7 DEF ProcessPut, LosePut, PageOK, Keeps, LeftLess

\* a generation goes to another stage
LEMMA StageMoves ==
    ASSUME Good, LeftLess, NEW g \in gens, NEW word \in {"asked", "running", "done", "failed"},
           Stage(g, word)
    PROVE  GensOK' /\ \A x \in gens' : x.id > left'.gens
<1> DEFINE h == [g EXCEPT !.stage = word]
<1>1. h \in Gens /\ h.id = g.id
  BY DEF Good, GensOK, Gens
<1>2. gens' = (gens \ {g}) \cup {h}
  BY DEF Stage
<1> HIDE DEF h
<1> QED
  BY <1>1, <1>2, GenMoves DEF Good

LEMMA BeginGood ==
    ASSUME Good, NEW g \in gens, Begin(g)
    PROVE  Good'
<1> USE DEF Good
<1>1. LeftLess
  BY MayLess DEF Begin
<1>2. PutsOK' /\ Bounded' /\ LoadsOK' /\ \A l \in loads' : l.id > left'.signIns
  BY <1>1, SamePuts, FewerLoads DEF Begin
<1>3. GensOK' /\ \A x \in gens' : x.id > left'.gens
  BY <1>1, StageMoves DEF Begin
<1>4. ServerOK' /\ UNCHANGED <<stored, deleted>>
  <2>1. CASE UNCHANGED server
    BY <2>1, SameServer DEF server
  <2>2. CASE /\ client = "sqlite" /\ begun' = [by |-> g.id, row |-> row, stored |-> stored]
             /\ UNCHANGED <<client, row, stored, deleted>>
    <3>1. g.id \in Nat \ {0}
      BY LeftNumbers, <1>1 DEF GensOK, Gens, Fresher
    <3> QED
      BY <2>2, <3>1 DEF ServerOK, BegunOK
  <2> QED
    BY <2>1, <2>2 DEF Begin, Refused
<1>5. LoadIsIn'
  BY WaitsAsBefore DEF Begin
<1>6. \A r \in (stored \cup deleted)' : r.id > left'.gens
  BY <1>1, <1>4, SameStored
<1> QED
  BY <1>1, <1>2, <1>3, <1>4, <1>5, <1>6 DEF Begin, PageOK, Fresher, LeftLess

LEMMA CommitGood ==
    ASSUME Good, NEW g \in gens, Commit(g)
    PROVE  Good'
<1> USE DEF Good
<1>1. LeftLess
  BY MayLess DEF Commit
<1>2. PutsOK' /\ Bounded' /\ LoadsOK' /\ \A l \in loads' : l.id > left'.signIns
  BY <1>1, SamePuts, FewerLoads DEF Commit
<1>3. GensOK' /\ \A x \in gens' : x.id > left'.gens
  BY <1>1, StageMoves DEF Commit
<1>4. g.org \in Orgs /\ Parsed(g.asked) \in Copies /\ g.id \in Nat /\ g.id > left.gens
  BY ParsedTyped DEF GensOK, Gens, Fresher
<1>5. row' \in Rows
  BY <1>4 DEF Commit, ServerOK, Rows
<1>6. stored' \subseteq Runs /\ deleted' = deleted
  BY <1>4 DEF Commit, ServerOK, Runs
<1>7. ServerOK'
  BY <1>5, <1>6 DEF Commit, ServerOK, BegunOK
<1>8. \A r \in (stored \cup deleted)' : r.id > left'.gens
  BY <1>1, <1>4, LeftNumbers DEF Commit, Fresher, ServerOK, Runs
<1>9. Keeps
  BY OverwrittenKeeps DEF Commit
<1>10. LoadIsIn'
  BY <1>9, WaitsAsBefore DEF Commit
<1> QED
  BY <1>1, <1>2, <1>3, <1>7, <1>8, <1>9, <1>10 DEF Commit, PageOK, Fresher, LeftLess, Keeps

LEMMA RollbackGood ==
    ASSUME Good, OneTransaction, NEW g \in gens, Rollback(g)
    PROVE  Good' /\ UNCHANGED <<stored, deleted>>
<1> USE DEF Good
<1>1. LeftLess
  BY MayLess DEF Rollback, Events
<1>2. PutsOK' /\ Bounded' /\ LoadsOK' /\ \A l \in loads' : l.id > left'.signIns
  BY <1>1, SamePuts, FewerLoads DEF Rollback
<1>3. GensOK' /\ \A x \in gens' : x.id > left'.gens
  BY <1>1, StageMoves DEF Rollback
<1>4. ServerOK' /\ UNCHANGED <<stored, deleted>>
  <2>1. CASE UNCHANGED server
    BY <2>1, SameServer DEF server
  <2>2. CASE /\ client = "sqlite" /\ begun.by # 0 /\ UNCHANGED <<client, deleted>>
             /\ row' = begun.row /\ stored' = begun.stored /\ begun' = NoTransaction
    BY <2>2 DEF ServerOK, BegunOK, OneTransaction, NoTransaction
  <2> QED
    BY <2>1, <2>2 DEF Rollback
<1>5. Keeps
  <2>1. CASE UNCHANGED tab
    BY <2>1 DEF Keeps, PageOK
  <2>2. ASSUME NEW O, tab' = [t \in Tabs |-> IF t # g.tab /\ tab[t].org \in O
                                             THEN [tab[t] EXCEPT !.kept = FALSE] ELSE tab[t]]
        PROVE  Keeps
    BY <2>2 DEF Keeps, PageOK, Pages
  <2> QED
    BY <2>1, <2>2 DEF Rollback
<1>6. LoadIsIn'
  BY <1>5, WaitsAsBefore DEF Rollback
<1>7. \A r \in (stored \cup deleted)' : r.id > left'.gens
  BY <1>1, <1>4, SameStored
<1> QED
  BY <1>1, <1>2, <1>3, <1>4, <1>5, <1>6, <1>7 DEF Rollback, PageOK, Fresher, LeftLess, Keeps

LEMMA AnsweredGood ==
    ASSUME Good, NEW g \in gens, GenerationAnswered(g) \/ GenerationLost(g)
    PROVE  Good'
<1> USE DEF Good
<1>1. LeftLess
  BY MayLess DEF GenerationAnswered, GenerationLost, Events
<1>2. /\ PutsOK' /\ Bounded' /\ LoadsOK' /\ \A l \in loads' : l.id > left'.signIns
      /\ ServerOK' /\ \A r \in (stored \cup deleted)' : r.id > left'.gens
  BY <1>1, SamePuts, FewerLoads, SameServer, SameStored
     DEF GenerationAnswered, GenerationLost, server
<1>3. g \in Gens /\ g.tab \in Owner
  BY DEF GensOK, Gens
<1>4. GensOK' /\ \A x \in gens' : x.id > left'.gens
  <2>1. CASE GenerationAnswered(g)
    BY <1>1, <2>1, FewerGens DEF GenerationAnswered
  <2>2. CASE GenerationLost(g)
    <3> DEFINE h == [g EXCEPT !.tab = NoTab]
    <3>1. h \in Gens /\ h.id = g.id
      BY <1>3 DEF Gens, Owner
    <3>2. gens' = (gens \ {g}) \cup {h}
      BY <2>2 DEF GenerationLost
    <3> HIDE DEF h
    <3> QED
      BY <1>1, <3>1, <3>2, GenMoves
  <2> QED
    BY <2>1, <2>2
<1>5. tab' \in [Tabs -> Pages] /\ LoadIsIn'
  <2>1. CASE g.tab = NoTab
    <3>1. UNCHANGED tab
      BY <2>1 DEF GenerationAnswered, GenerationLost
    <3> QED
      BY <3>1, WaitsAsBefore DEF GenerationAnswered, GenerationLost, PageOK
  <2>2. CASE g.tab # NoTab
    <3>1. g.tab \in Tabs
      BY <1>3, <2>2 DEF Owner
    <3>2. tab' = [tab EXCEPT ![g.tab] = Rearmed(tab[g.tab])]
      BY <2>2 DEF GenerationAnswered, GenerationLost, Answered
    <3>3. Turns(g.tab)
      BY <3>1, <3>2, RearmedStep
    <3> QED
      BY <3>1, <3>3, WaitsAfterTurn DEF GenerationAnswered, GenerationLost, Turns
  <2> QED
    BY <2>1, <2>2
<1> QED
  BY <1>1, <1>2, <1>4, <1>5 DEF GenerationAnswered, GenerationLost, PageOK, Fresher, LeftLess

LEMMA ImportGood ==
    ASSUME Good, NEW o \in Orgs, Import(o)
    PROVE  Good'
<1> USE DEF Good
<1>1. LeftLess
  BY MayLess DEF Import, Events
<1>2. PutsOK' /\ Bounded' /\ LoadsOK' /\ GensOK' /\ Fresher'
  <2>1. (stored \cup deleted)' = stored \cup deleted
    BY DEF Import
  <2>2. \A r \in (stored \cup deleted)' : r.id > left'.gens
    BY <1>1, <2>1, SameStored
  <2> QED
    BY <1>1, <2>2, SamePuts, FewerLoads, FewerGens DEF Import, Fresher, requests
<1>3. [from |-> o, edit |-> NewEdit, paused |-> FALSE] \in Copies
  BY NewEditTyped DEF Copies
<1>4. ServerOK'
  <2>1. row' \in Rows
    BY <1>3 DEF Import, ServerOK, Rows
  <2>2. stored' \subseteq Runs /\ deleted' \subseteq Runs
    BY DEF Import, ServerOK
  <2> QED
    BY <2>1, <2>2 DEF Import, ServerOK, BegunOK
<1>5. Keeps
  BY OverwrittenKeeps DEF Import
<1>6. LoadIsIn'
  BY <1>5, WaitsAsBefore DEF Import, requests
<1> QED
  BY <1>1, <1>2, <1>4, <1>5, <1>6 DEF Import, PageOK, Keeps, LeftLess

LEMMA RestartGood ==
    ASSUME Good, OneTransaction, Restart
    PROVE  Good' /\ UNCHANGED <<stored, deleted>>
<1> USE DEF Good
<1>1. LeftLess
  BY MayLess DEF Restart, Events
<1>2. PutsOK' /\ Bounded'
  BY DEF Restart, PutsOK, Bounded, Distinct
<1>3. ASSUME NEW k \in loads'
      PROVE  \E l \in loads :
               k = l \/ (l.stage = "migrating" /\ k = [l EXCEPT !.stage = "latest"])
  BY DEF Restart
<1>4. ASSUME NEW l \in loads
      PROVE  /\ [l EXCEPT !.stage = "latest"] \in Loads
             /\ [l EXCEPT !.stage = "latest"].id = l.id
             /\ [l EXCEPT !.stage = "latest"].tab = l.tab
             /\ l.id \in Nat
  BY DEF LoadsOK, Loads
<1>5. \A k \in loads' : k \in Loads /\ \E l \in loads : k.id = l.id
  BY <1>3, <1>4 DEF LoadsOK
<1>6. LoadsOK'
  <2>1. ASSUME NEW k1 \in loads', NEW k2 \in loads', k1.id = k2.id PROVE k1 = k2
    <3>1. PICK l1 \in loads : k1 = IF l1.stage = "migrating" THEN [l1 EXCEPT !.stage = "latest"] ELSE l1
      BY DEF Restart
    <3>2. PICK l2 \in loads : k2 = IF l2.stage = "migrating" THEN [l2 EXCEPT !.stage = "latest"] ELSE l2
      BY DEF Restart
    <3>3. k1.id = l1.id /\ k2.id = l2.id
      BY <1>4, <3>1, <3>2
    <3>4. l1 = l2
      BY <2>1, <3>3 DEF LoadsOK, Distinct
    <3> QED
      BY <3>1, <3>2, <3>4
  <2> QED
    BY <1>5, <2>1 DEF LoadsOK, Distinct
<1>7. ASSUME NEW k \in loads' PROVE k.id > left'.signIns
  <2>1. PICK l \in loads : k.id = l.id
    BY <1>5
  <2>2. l.id \in Nat /\ l.id > left.signIns
    BY <1>4 DEF Fresher
  <2> QED
    BY <1>1, <2>1, <2>2, LeftNumbers
<1>8. ASSUME NEW h \in gens'
      PROVE  \E g \in gens :
               \/ g.stage = "done" /\ h = g
               \/ g.stage # "done" /\ h = [g EXCEPT !.stage = "failed"]
  BY DEF Restart
<1>9. ASSUME NEW g \in gens
      PROVE  [g EXCEPT !.stage = "failed"] \in Gens /\ [g EXCEPT !.stage = "failed"].id = g.id
             /\ g.id \in Nat
  BY DEF GensOK, Gens
<1>10. \A h \in gens' : h \in Gens /\ \E g \in gens : h.id = g.id
  BY <1>8, <1>9 DEF GensOK
<1>11. GensOK'
  <2>1. ASSUME NEW h1 \in gens', NEW h2 \in gens', h1.id = h2.id PROVE h1 = h2
    <3>1. PICK g1 \in gens : \/ g1.stage = "done" /\ h1 = g1
                             \/ g1.stage # "done" /\ h1 = [g1 EXCEPT !.stage = "failed"]
      BY <1>8
    <3>2. PICK g2 \in gens : \/ g2.stage = "done" /\ h2 = g2
                             \/ g2.stage # "done" /\ h2 = [g2 EXCEPT !.stage = "failed"]
      BY <1>8
    <3>3. h1.id = g1.id /\ h2.id = g2.id
      BY <1>9, <3>1, <3>2
    <3>4. g1 = g2
      BY <2>1, <3>3 DEF GensOK, Distinct
    <3> QED
      BY <3>1, <3>2, <3>4
  <2> QED
    BY <1>10, <2>1 DEF GensOK, Distinct
<1>12. ASSUME NEW h \in gens' PROVE h.id > left'.gens
  <2>1. PICK g \in gens : h.id = g.id
    BY <1>10
  <2>2. g.id \in Nat /\ g.id > left.gens
    BY <1>9 DEF Fresher
  <2> QED
    BY <1>1, <2>1, <2>2, LeftNumbers
<1>13. ServerOK' /\ UNCHANGED <<stored, deleted>>
  <2>1. ASSUME NEW r \in Rows, row' = [o \in Orgs |-> Migrated(r[o].data)] PROVE row' \in Rows
    BY <2>1, MigratedTyped DEF Rows
  <2>2. begun.by # 0 => begun.row \in Rows /\ begun.stored = stored
    BY DEF ServerOK, BegunOK, NoTransaction, OneTransaction
  <2>3. row \in Rows
    BY DEF ServerOK
  <2>4. row' \in Rows /\ UNCHANGED <<stored, deleted>>
    BY <2>1, <2>2, <2>3 DEF Restart
  <2> QED
    BY <2>4 DEF Restart, ServerOK, BegunOK
<1>14. \A r \in (stored \cup deleted)' : r.id > left'.gens
  BY <1>1, <1>13, SameStored
<1>15. ASSUME NEW t \in Tabs
       PROVE  \E b \in BOOLEAN :
                tab'[t] = [tab[t] EXCEPT !.kept = b,
                             !.history = IF \E l \in loads : l.tab = t /\ l.stage = "migrating"
                                         THEN "later" ELSE @]
  <2> DEFINE b == tab[t].kept /\ (\A p \in puts : p.tab # t)
                  /\ (SignedIn(t) => row'[tab[t].org].data = row[tab[t].org].data)
  <2>1. b \in BOOLEAN
    OBVIOUS
  <2>2. tab'[t] = [tab[t] EXCEPT !.kept = b,
                     !.history = IF \E l \in loads : l.tab = t /\ l.stage = "migrating"
                                 THEN "later" ELSE @]
    BY DEF Restart
  <2> HIDE DEF b
  <2> QED
    BY <2>1, <2>2
<1>16. ASSUME NEW t \in Tabs
       PROVE  /\ tab'[t] \in Pages
              /\ tab'[t].hydrated = tab[t].hydrated /\ tab'[t].timer = tab[t].timer
              /\ tab[t].history # "unloaded" => tab'[t].history # "unloaded"
              /\ (\E l \in loads : l.tab = t /\ l.stage = "migrating")
                    => tab'[t].history # "unloaded"
  <2>1. tab[t] \in Pages
    BY PageOfTab
  <2>2. \A b \in BOOLEAN, w \in {"later", tab[t].history} :
          LET page == [tab[t] EXCEPT !.kept = b, !.history = w]
          IN  /\ page \in Pages /\ page.hydrated = tab[t].hydrated /\ page.timer = tab[t].timer
              /\ page.history = w
    BY <2>1 DEF Pages
  <2>3. CASE \E l \in loads : l.tab = t /\ l.stage = "migrating"
    <3>1. PICK b \in BOOLEAN : tab'[t] = [tab[t] EXCEPT !.kept = b, !.history = "later"]
      BY <1>15, <2>3
    <3> QED
      BY <2>2, <3>1
  <2>4. CASE ~ \E l \in loads : l.tab = t /\ l.stage = "migrating"
    <3>1. PICK b \in BOOLEAN : tab'[t] = [tab[t] EXCEPT !.kept = b, !.history = tab[t].history]
      BY <1>15, <2>4
    <3> QED
      BY <2>2, <2>4, <3>1
  <2> QED
    BY <2>3, <2>4
<1>17. tab' \in [Tabs -> Pages]
  <2>1. tab' = [t \in Tabs |-> tab'[t]]
    BY DEF Restart
  <2> QED
    BY <1>16, <2>1
<1>18. LoadIsIn'
  <2>1. ASSUME NEW t \in Tabs
        PROVE  tab'[t].hydrated \/ tab'[t].timer => tab'[t].history # "unloaded"
    BY <1>16 DEF LoadIsIn
  <2>2. ASSUME NEW k \in loads', k.stage = "latest" PROVE tab'[k.tab].history # "unloaded"
    <3>1. PICK l \in loads : k = l \/ (l.stage = "migrating" /\ k = [l EXCEPT !.stage = "latest"])
      BY <1>3
    <3>2. k.tab = l.tab /\ l.tab \in Tabs
      BY <1>4, <3>1 DEF LoadsOK, Loads
    <3>3. CASE k = l
      BY <1>16, <2>2, <3>2, <3>3 DEF LoadIsIn
    <3>4. CASE l.stage = "migrating"
      BY <1>16, <3>2, <3>4
    <3> QED
      BY <3>1, <3>3, <3>4
  <2> QED
    BY <2>1, <2>2 DEF LoadIsIn
<1> QED
  BY <1>1, <1>2, <1>6, <1>7, <1>11, <1>12, <1>13, <1>14, <1>17, <1>18
     DEF Restart, PageOK, Fresher, LeftLess

-----------------------------------------------------------------------------
(* The transaction and the stored runs *)

\* the generations of a step in which none begins, ends or is answered with a run
Calm ==
    /\ UNCHANGED <<client, stored, deleted, begun>>
    /\ \A h \in gens' :
         \/ h.stage = "asked" /\ \A r \in stored \cup deleted : r.id # h.id
         \/ \E g \in gens : h.id = g.id /\ h.stage = g.stage

LEMMA CalmStep ==
    ASSUME OneTransaction, AnswersMatchRuns, Calm
    PROVE  OneTransaction' /\ AnswersMatchRuns'
BY DEF Calm, OneTransaction, AnswersMatchRuns

LEMMA PageCalm ==
    ASSUME Good, NEW t \in Tabs, Page(t)
    PROVE  Calm
<1>1. CASE Generate(t)
  BY <1>1 DEF Generate, Calm, server, Good, Fresher, ServerOK, Runs, PageOK, Left
<1>2. CASE Reload(t)
  <2>1. ASSUME NEW h \in gens' PROVE \E g \in gens : h.id = g.id /\ h.stage = g.stage
    BY <1>2 DEF Reload, Good, GensOK, Gens
  <2> QED
    BY <1>2, <2>1 DEF Reload, Calm, server
<1>3. CASE UNCHANGED <<server, gens>>
  BY <1>3 DEF Calm, server
<1> QED
  BY <1>1, <1>2, <1>3
     DEF Page, Edit, SaveSetup, Autosave, AutosaveFails, LogoutSaves, LogoutSignsOut,
         Expire, SignIn, requests

LEMMA OthersCalm ==
    ASSUME \/ \E l \in loads : Loading(l)
           \/ \E p \in puts : ProcessPut(p) \/ LosePut(p)
    PROVE  Calm
BY DEF Calm, Loading, ReadState, WriteBack, TakeState, TakeLatest, LoadFails, ProcessPut,
       LosePut, server, requests

\* an import finds no transaction open, and what it deletes it remembers
LEMMA ImportStep ==
    ASSUME OneTransaction, AnswersMatchRuns, NEW o \in Orgs, Import(o)
    PROVE  OneTransaction' /\ AnswersMatchRuns'
<1>1. /\ (stored \cup deleted)' = stored \cup deleted
      /\ (stored \cap deleted)' = stored \cap deleted
      /\ UNCHANGED <<client, begun, gens>> /\ begun.by = 0
  <2>1. stored \cap deleted = {}
    BY DEF AnswersMatchRuns
  <2> QED
    BY <2>1 DEF Import, requests
<1> QED
  BY <1>1 DEF OneTransaction, AnswersMatchRuns

LEMMA AnsweredCalm ==
    ASSUME Good, NEW g \in gens, GenerationAnswered(g) \/ GenerationLost(g)
    PROVE  Calm
<1>1. CASE GenerationAnswered(g)
  BY <1>1 DEF GenerationAnswered, Calm, server
<1>2. CASE GenerationLost(g)
  <2>1. [g EXCEPT !.tab = NoTab].id = g.id /\ [g EXCEPT !.tab = NoTab].stage = g.stage
    BY DEF Good, GensOK, Gens
  <2> QED
    BY <1>2, <2>1 DEF GenerationLost, Calm, server
<1> QED
  BY <1>1, <1>2

\* the generations after one has gone to another stage
LEMMA StagedTo ==
    ASSUME Good, NEW g \in gens, NEW word, Stage(g, word)
    PROVE  \A h \in gens' : \/ h.id = g.id /\ h.stage = word
                            \/ h \in gens /\ h.id # g.id
BY DEF Good, GensOK, Gens, Distinct, Stage

LEMMA BeginStep ==
    ASSUME Good, OneTransaction, AnswersMatchRuns, NEW g \in gens, Begin(g)
    PROVE  OneTransaction' /\ AnswersMatchRuns'
<1>1. \A x \in gens : x.id \in Nat \ {0}
  BY DEF Good, GensOK, Gens, Fresher, PageOK, Left
<1>2. PICK word \in {"running", "failed"} :
        /\ Stage(g, word)
        /\ word = "running" /\ client = "postgres" => UNCHANGED begun
        /\ word = "running" /\ client = "sqlite" => begun.by = 0 /\ begun'.by = g.id
        /\ word = "failed" => UNCHANGED begun
  BY DEF Begin, Refused, server, Good, ServerOK, TenantAssumption
<1>3. UNCHANGED <<client, stored, deleted>> /\ (begun'.by # 0 => begun'.stored = stored)
  BY DEF Begin, Refused, server, OneTransaction
<1>4. g.stage = "asked"
  BY DEF Begin
<1>5. \A h \in gens' : \/ h.id = g.id /\ h.stage = word
                       \/ h \in gens /\ h.id # g.id
  BY <1>2, StagedTo
<1>6. AnswersMatchRuns'
  BY <1>2, <1>3, <1>4, <1>5 DEF AnswersMatchRuns
<1>7. client = "sqlite" => \A h \in gens' : h.stage = "running" => begun'.by = h.id
  BY <1>1, <1>2, <1>5 DEF OneTransaction
<1> QED
  BY <1>3, <1>6, <1>7 DEF OneTransaction

LEMMA CommitStep ==
    ASSUME Good, OneTransaction, AnswersMatchRuns, NEW g \in gens, Commit(g)
    PROVE  OneTransaction' /\ AnswersMatchRuns'
<1>1. \A x \in gens : x.id \in Nat \ {0}
  BY DEF Good, GensOK, Gens, Fresher, PageOK, Left
<1>2. g.stage = "running" /\ (client = "sqlite" => begun.by = g.id)
  BY DEF Commit, OneTransaction
<1>3. Stage(g, "done")
  BY <1>1, <1>2 DEF Commit
<1>4. \A h \in gens' : \/ h.id = g.id /\ h.stage = "done"
                       \/ h \in gens /\ h.id # g.id
  BY <1>3, StagedTo
<1>5. /\ UNCHANGED <<client, deleted>> /\ begun' = NoTransaction
      /\ stored' = stored \cup {[id |-> g.id, org |-> g.org, data |-> Parsed(g.asked)]}
  BY DEF Commit
<1>6. AnswersMatchRuns'
  <2>1. PICK run : run.id = g.id /\ stored' = stored \cup {run}
    BY <1>5
  <2>2. \A i : (\E r \in (stored \cup deleted)' : r.id = i)
                 <=> (i = g.id \/ \E r \in stored \cup deleted : r.id = i)
    BY <1>5, <2>1
  <2>3. ASSUME NEW h \in gens'
        PROVE  h.stage = "done" <=> \E r \in (stored \cup deleted)' : r.id = h.id
    BY <1>4, <2>2 DEF AnswersMatchRuns
  <2>4. run \notin deleted
    BY <1>2, <2>1 DEF AnswersMatchRuns
  <2>5. (stored \cap deleted)' = {}
    BY <1>5, <2>1, <2>4 DEF AnswersMatchRuns
  <2> QED
    BY <2>3, <2>5 DEF AnswersMatchRuns
<1>7. client = "sqlite" => \A h \in gens' : h.stage # "running"
  BY <1>2, <1>4 DEF OneTransaction
<1> QED
  BY <1>5, <1>6, <1>7 DEF OneTransaction, NoTransaction

LEMMA RollbackStep ==
    ASSUME Good, OneTransaction, AnswersMatchRuns, NEW g \in gens, Rollback(g)
    PROVE  OneTransaction' /\ AnswersMatchRuns'
<1>1. \A x \in gens : x.id \in Nat \ {0}
  BY DEF Good, GensOK, Gens, Fresher, PageOK, Left
<1>2. g.stage = "running" /\ (client = "sqlite" => begun.by = g.id)
  BY DEF Rollback, OneTransaction
<1>3. Stage(g, "failed") /\ client' = client
  BY DEF Rollback, server
<1>4. \A h \in gens' : \/ h.id = g.id /\ h.stage = "failed"
                       \/ h \in gens /\ h.id # g.id
  BY <1>3, StagedTo
<1>5. UNCHANGED <<stored, deleted>>
  BY RollbackGood
<1>6. begun' = begun \/ begun' = NoTransaction
  BY DEF Rollback, server
<1>7. AnswersMatchRuns'
  BY <1>2, <1>4, <1>5 DEF AnswersMatchRuns
<1>8. client = "sqlite" => \A h \in gens' : h.stage # "running"
  BY <1>2, <1>4 DEF OneTransaction
<1> QED
  BY <1>3, <1>5, <1>6, <1>7, <1>8 DEF OneTransaction, NoTransaction

LEMMA RestartStep ==
    ASSUME Good, OneTransaction, AnswersMatchRuns, Restart
    PROVE  OneTransaction' /\ AnswersMatchRuns'
<1>1. UNCHANGED <<stored, deleted>> /\ begun' = NoTransaction
  BY RestartGood DEF Restart
<1>2. ASSUME NEW h \in gens'
      PROVE  \E g \in gens : h.id = g.id /\ h.stage = IF g.stage = "done" THEN "done" ELSE "failed"
  BY DEF Restart, Good, GensOK, Gens
<1>3. OneTransaction'
  BY <1>1, <1>2 DEF OneTransaction, NoTransaction
<1>4. AnswersMatchRuns'
  BY <1>1, <1>2 DEF AnswersMatchRuns
<1> QED
  BY <1>3, <1>4

-----------------------------------------------------------------------------
(* The theorems *)

LEMMA IInvIsItsParts ==
    /\ IInv <=> Good /\ OneTransaction /\ AnswersMatchRuns
    /\ IInv' <=> Good' /\ OneTransaction' /\ AnswersMatchRuns'
BY TypeOKIsItsParts DEF IInv, Good

LEMMA InitIInv ==
    ASSUME Init
    PROVE  IInv
<1> USE DEF Init
<1>1. ServerOK
  <2>1. row \in Rows
    BY DEF Rows, Migrated, Copies
  <2> QED
    BY <2>1 DEF ServerOK, BegunOK
<1>2. PageOK
  <2>1. Fresh \in Pages
    BY SampleTyped DEF Fresh, Pages
  <2>2. left \in Left
    BY TenantAssumption DEF Left
  <2> QED
    BY <2>1, <2>2 DEF PageOK
<1>3. PutsOK /\ Bounded /\ LoadsOK /\ GensOK
  BY DEF PutsOK, Bounded, LoadsOK, GensOK, Distinct
<1>4. LoadIsIn /\ Fresher
  BY DEF LoadIsIn, Fresher, Fresh
<1>5. OneTransaction /\ AnswersMatchRuns
  BY DEF OneTransaction, AnswersMatchRuns, NoTransaction
<1> QED
  BY <1>1, <1>2, <1>3, <1>4, <1>5, IInvIsItsParts DEF Good

LEMMA NextIInv ==
    ASSUME IInv, Next
    PROVE  IInv'
<1>1. Good /\ OneTransaction /\ AnswersMatchRuns
  BY IInvIsItsParts
<1> SUFFICES Good' /\ OneTransaction' /\ AnswersMatchRuns'
  BY IInvIsItsParts
<1>2. CASE \E t \in Tabs : Page(t)
  BY <1>1, <1>2, PageGood, PageCalm, CalmStep
<1>3. CASE \E l \in loads : Loading(l)
  BY <1>1, <1>3, LoadingGood, OthersCalm, CalmStep
<1>4. CASE \E p \in puts : ProcessPut(p) \/ LosePut(p)
  BY <1>1, <1>4, SavingGood, OthersCalm, CalmStep
<1>5. CASE \E o \in Orgs : Import(o)
  BY <1>1, <1>5, ImportGood, ImportStep
<1>6. CASE Restart
  BY <1>1, <1>6, RestartGood, RestartStep
<1>7. ASSUME NEW g \in gens, Generating(g) PROVE Good' /\ OneTransaction' /\ AnswersMatchRuns'
  <2>1. CASE Begin(g)
    BY <1>1, <2>1, BeginGood, BeginStep
  <2>2. CASE Commit(g)
    BY <1>1, <2>2, CommitGood, CommitStep
  <2>3. CASE Rollback(g)
    BY <1>1, <2>3, RollbackGood, RollbackStep
  <2>4. CASE GenerationAnswered(g) \/ GenerationLost(g)
    BY <1>1, <2>4, AnsweredGood, AnsweredCalm, CalmStep
  <2> QED
    BY <1>7, <2>1, <2>2, <2>3, <2>4 DEF Generating
<1> QED
  BY <1>2, <1>3, <1>4, <1>5, <1>6, <1>7 DEF Next

LEMMA StutterIInv ==
    ASSUME IInv, UNCHANGED vars
    PROVE  IInv'
<1>1. UNCHANGED <<client, row, stored, deleted, begun, token, tab, puts, loads, gens, left>>
  BY DEF vars, server, requests
<1> QED
  BY <1>1 DEF IInv, TypeOK, Bounded, LoadIsIn, Fresher, OneTransaction, AnswersMatchRuns

\* The inductive invariant of the module.
THEOREM TenantInvariance == Spec => []IInv
<1>1. Init => IInv
  BY InitIInv
<1>2. IInv /\ [Next]_vars => IInv'
  BY NextIInv, StutterIInv
<1> QED
  BY <1>1, <1>2, PTL DEF Spec

\* The variables keep their types: no two requests of a kind share an
\* identity, and a transaction is open only on SQLite.
THEOREM TenantTypes == Spec => []TypeOK
<1>1. IInv => TypeOK
  BY DEF IInv
<1> QED
  BY <1>1, TenantInvariance, PTL

\* A page in its first session, whose load did not fail, has no save armed
\* before that load is in.
THEOREM AutosavesWait == Spec => []AutosaveWaitsForLoad
<1>1. IInv => AutosaveWaitsForLoad
  BY DEF IInv, LoadIsIn, AutosaveWaitsForLoad
<1> QED
  BY <1>1, TenantInvariance, PTL

\* A generation is answered with a timetable exactly when its run was stored
\* for good, on either database and however many generations are under way; a
\* run that an import deleted does not come back.
THEOREM AnswersTellOfRuns == Spec => []AnswersMatchRuns
<1>1. IInv => AnswersMatchRuns
  BY DEF IInv
<1> QED
  BY <1>1, TenantInvariance, PTL
-----------------------------------------------------------------------------
(* What a tab shows is what is stored.  A tab that has nothing to do but to *)
(* wait for its saves has sent what it shows with the last of them (InStep): *)
(* the saves that go before it may be processed in any order, or lost.       *)

\* no load, no generation, and nothing to save of what has not been lost
Idle(t) ==
    /\ SignedIn(t) /\ tab[t].hydrated /\ ~ tab[t].timer /\ ~ tab[t].leaving /\ tab[t].kept
    /\ \A x \in loads \cup gens : x.tab # t

LastSave(p) == \A q \in puts : q.tab = p.tab => q.id <= p.id

Saved(t) ==
    /\ \A p \in puts : p.tab = t /\ LastSave(p) =>
         Parsed(p.data) = Parsed(tab[t].mem) /\ p.org = tab[t].org
    /\ (\A p \in puts : p.tab # t) => row[tab[t].org].data = Parsed(tab[t].mem)

InStep == \A t \in Tabs : Idle(t) => Saved(t)

\* a step that concerns neither the tab nor the row of its organization
Undisturbed(t) ==
    /\ tab'[t].org = tab[t].org /\ tab'[t].mem = tab[t].mem
    /\ tab'[t].hydrated = tab[t].hydrated /\ tab'[t].timer = tab[t].timer
    /\ tab'[t].leaving = tab[t].leaving /\ tab[t].kept
    /\ \A p : (p \in puts' /\ p.tab = t) <=> (p \in puts /\ p.tab = t)
    /\ \A x \in loads : x.tab = t => \E y \in loads' : y.tab = t
    /\ \A x \in gens : x.tab = t => \E y \in gens' : y.tab = t
    /\ row'[tab[t].org].data = row[tab[t].org].data

LEMMA StaysSaved ==
    ASSUME NEW t \in Tabs, Idle(t) => Saved(t), Idle(t)' => Undisturbed(t)
    PROVE  Idle(t)' => Saved(t)'
<1> SUFFICES ASSUME Idle(t)' PROVE Saved(t)'
  OBVIOUS
<1>1. Undisturbed(t) /\ Idle(t)
  BY DEF Undisturbed, Idle, SignedIn
<1>2. Saved(t)
  BY <1>1
<1>3. ASSUME NEW p \in puts', p.tab = t, LastSave(p)' PROVE p \in puts /\ LastSave(p)
  BY <1>1, <1>3 DEF Undisturbed, LastSave
<1> QED
  BY <1>1, <1>2, <1>3 DEF Undisturbed, Saved

\* a page whose timer is set again has something to save
LEMMA RearmedNotIdle ==
    ASSUME PageOK, NEW t \in Tabs, NEW page \in Pages, tab' = [tab EXCEPT ![t] = Rearmed(page)]
    PROVE  ~ Idle(t)'
<1>1. tab'[t] = Rearmed(page)
  BY DEF PageOK
<1>2. /\ Rearmed(page).org = page.org /\ Rearmed(page).hydrated = page.hydrated
      /\ Rearmed(page).timer = (page.org # NoOrg /\ page.hydrated)
  BY DEF Rearmed, Pages
<1> QED
  BY <1>1, <1>2 DEF Idle, SignedIn

\* the tabs other than the one a page event is of
LEMMA PageLeavesOthers ==
    ASSUME Good, NEW u \in Tabs, Page(u), NEW t \in Tabs, t # u, Idle(t)'
    PROVE  Undisturbed(t)
<1> USE DEF Good
<1>1. tab'[t] = tab[t]
  BY DEF Page, Edit, SaveSetup, Autosave, AutosaveFails, LogoutSaves, LogoutSignsOut, Expire,
         Reload, Generate, SignIn, PageOK
<1>2. row' = row
  BY DEF Page, Edit, SaveSetup, Autosave, AutosaveFails, LogoutSaves, LogoutSignsOut, Expire,
         Reload, Generate, SignIn, server
<1>3. \A p : (p \in puts' /\ p.tab = t) <=> (p \in puts /\ p.tab = t)
  <2>1. CASE Reload(u)
    <3>1. t # NoTab
      BY TenantAssumption
    <3>2. \A p \in puts : p.tab = u => [p EXCEPT !.tab = NoTab].tab = NoTab
      BY DEF PutsOK, Puts
    <3> QED
      BY <2>1, <3>1, <3>2 DEF Reload
  <2>2. CASE \E data, isLast : SendsState(u, data, isLast)
    <3>1. PICK p : p.tab = u /\ puts' = puts \cup {p}
      BY <2>2 DEF SendsState
    <3> QED
      BY <3>1
  <2>3. CASE UNCHANGED puts
    BY <2>3
  <2> QED
    BY <2>1, <2>2, <2>3
       DEF Page, Edit, SaveSetup, Autosave, AutosaveFails, LogoutSaves, LogoutSignsOut, Expire,
           Generate, SignIn, requests
<1>4. \A x \in loads : x.tab = t => \E y \in loads' : y.tab = t
  BY DEF Page, Edit, SaveSetup, Autosave, AutosaveFails, LogoutSaves, LogoutSignsOut, Expire,
         Reload, Generate, SignIn, requests
<1>5. \A x \in gens : x.tab = t => \E y \in gens' : y.tab = t
  BY DEF Page, Edit, SaveSetup, Autosave, AutosaveFails, LogoutSaves, LogoutSignsOut, Expire,
         Reload, Generate, SignIn, requests
<1> QED
  BY <1>1, <1>2, <1>3, <1>4, <1>5 DEF Undisturbed, Idle

\* an autosave is numbered last, and carries what the page shows
LEMMA AutosaveSaves ==
    ASSUME Good, NEW t \in Tabs, Autosave(t), Idle(t)'
    PROVE  Saved(t)'
<1> USE DEF Good
<1> DEFINE p == [id |-> NextId, tab |-> t, org |-> token, data |-> tab[t].mem, last |-> FALSE]
<1>1. puts' = puts \cup {p}
  BY DEF Autosave, SendsState
<1>2. p.id = NextId /\ p.tab = t /\ p.org = token /\ p.data = tab[t].mem
  OBVIOUS
<1> HIDE DEF p
<1>3. NextId \in Nat /\ \A q \in puts : q.id \in Nat /\ q.id < NextId
  BY NextIdTyped DEF PutsOK, Puts
<1>4. /\ tab'[t].mem = tab[t].mem /\ tab'[t].org = tab[t].org
      /\ tab'[t].kept = (token = tab[t].org)
  BY PageOfTab DEF Autosave, PageOK, Pages
<1>5. token = tab[t].org
  BY <1>4 DEF Idle
<1>6. ASSUME NEW q \in puts', q.tab = t, LastSave(q)' PROVE q = p
  <2>1. p.id <= q.id
    BY <1>1, <1>2, <1>6 DEF LastSave
  <2> QED
    BY <1>1, <1>2, <1>3, <2>1
<1> QED
  BY <1>1, <1>2, <1>4, <1>5, <1>6 DEF Saved

LEMMA PageInStep ==
    ASSUME Good, InStep, NEW u \in Tabs, Page(u)
    PROVE  InStep'
<1> SUFFICES ASSUME NEW t \in Tabs PROVE Idle(t)' => Saved(t)'
  BY DEF InStep
<1>1. CASE t # u
  BY <1>1, PageLeavesOthers, StaysSaved DEF InStep
<1>2. CASE t = u /\ Autosave(t)
  BY <1>2, AutosaveSaves
<1>3. CASE t = u /\ ~ Autosave(t)
  <2> USE DEF Good
  <2>1. tab[t] \in Pages /\ tab \in [Tabs -> Pages]
    BY PageOfTab DEF PageOK
  <2>2. CASE Edit(t)
    <3> DEFINE page == [tab[t] EXCEPT !.mem.edit = NewEdit, !.mem.paused = ~ @]
    <3>1. page.org = tab[t].org /\ page.hydrated = tab[t].hydrated
      BY <2>1 DEF Pages
    <3>2. tab'[t] = [page EXCEPT !.timer = page.org # NoOrg /\ page.hydrated]
      BY <2>1, <2>2 DEF Edit, Rearmed
    <3>3. page = [f \in DOMAIN tab[t] |-> page[f]] /\ DOMAIN tab[t] = DOMAIN Fresh
      BY <2>1 DEF Pages, Fresh
    <3> HIDE DEF page
    <3>4. /\ tab'[t].org = page.org /\ tab'[t].hydrated = page.hydrated
          /\ tab'[t].timer = (page.org # NoOrg /\ page.hydrated)
      BY <3>2, <3>3 DEF Fresh
    <3> QED
      BY <3>4 DEF Idle, SignedIn
  <2>3. CASE SaveSetup(t)
    <3> DEFINE page == [[tab[t] EXCEPT !.mem.edit = NewEdit] EXCEPT !.kept = token = tab[t].org]
    <3>1. page \in Pages
      <4>1. \A b \in BOOLEAN : [[tab[t] EXCEPT !.mem.edit = NewEdit] EXCEPT !.kept = b] \in Pages
        BY <2>1, NewEditTyped DEF Pages, Copies
      <4>2. (token = tab[t].org) \in BOOLEAN
        OBVIOUS
      <4> QED
        BY <4>1, <4>2
    <3>2. tab' = [tab EXCEPT ![t] = Rearmed(page)]
      <4>1. [tab[t] EXCEPT !.mem.edit = NewEdit].org = tab[t].org
        BY <2>1 DEF Pages
      <4> QED
        BY <2>3, <4>1 DEF SaveSetup
    <3> HIDE DEF page
    <3> QED
      BY <3>1, <3>2, RearmedNotIdle
  <2>4. CASE AutosaveFails(t) \/ LogoutSaves(t) \/ LogoutSignsOut(t) \/ Expire(t) \/ Reload(t)
    <3>1. CASE AutosaveFails(t)
      BY <2>1, <3>1 DEF AutosaveFails, Pages, Idle
    <3>2. CASE LogoutSaves(t)
      BY <2>1, <3>2 DEF LogoutSaves, Pages, Idle
    <3>3. CASE LogoutSignsOut(t) \/ Expire(t)
      <4>1. tab'[t].org = NoOrg
        BY <2>1, <3>3 DEF LogoutSignsOut, Expire, Pages
      <4> QED
        BY <4>1 DEF Idle, SignedIn
    <3>4. CASE Reload(t)
      <4>1. tab'[t] = Fresh
        BY <2>1, <3>4 DEF Reload
      <4> QED
        BY <4>1 DEF Fresh, Idle, SignedIn
    <3> QED
      BY <2>4, <3>1, <3>2, <3>3, <3>4
  <2>5. CASE Generate(t)
    BY <2>1, <2>5, RearmedNotIdle DEF Generate
  <2>6. ASSUME NEW o \in Orgs, SignIn(t, o) PROVE ~ Idle(t)'
    <3> DEFINE page == [tab[t] EXCEPT !.org = o]
    <3>1. page \in Pages /\ tab' = [tab EXCEPT ![t] = Rearmed(page)]
      BY <2>1, <2>6 DEF SignIn, Pages
    <3> HIDE DEF page
    <3> QED
      BY <3>1, RearmedNotIdle
  <2> QED
    BY <1>3, <2>2, <2>3, <2>4, <2>5, <2>6 DEF Page
<1> QED
  BY <1>1, <1>2, <1>3

\* the row of an organization is written by a request of a tab, or of none
LEMMA OverwrittenInStep ==
    ASSUME Good, NEW o \in Orgs, NEW author, NEW r, row' = [row EXCEPT ![o] = r],
           tab' = Overwritten(tab, o, author),
           NEW t \in Tabs, t # author, Idle(t)'
    PROVE  /\ tab'[t] = tab[t]
           /\ row'[tab[t].org].data = row[tab[t].org].data
<1>1. tab[t] \in Pages
  BY PageOfTab DEF Good
<1>2. tab[t].org # o
  BY <1>1 DEF Overwritten, Idle, Pages
<1> QED
  BY <1>2 DEF Overwritten, Good, ServerOK, Rows

LEMMA LoadingInStep ==
    ASSUME Good, InStep, NEW l \in loads, Loading(l)
    PROVE  InStep'
<1> USE DEF Good
<1> SUFFICES ASSUME NEW t \in Tabs PROVE Idle(t)' => Saved(t)'
  BY DEF InStep
<1>1. l \in Loads /\ l.tab \in Tabs /\ tab[l.tab] \in Pages /\ l.data \in Copies
  BY PageOfTab DEF LoadsOK, Loads
<1>2. puts' = puts /\ gens' = gens
  BY DEF Loading, ReadState, WriteBack, TakeState, TakeLatest, LoadFails
<1>3. CASE TakeLatest(l)
  <2> DEFINE page == [tab[l.tab] EXCEPT !.hydrated = TRUE]
  <2>1. page \in Pages /\ tab' = [tab EXCEPT ![l.tab] = Rearmed(page)]
    BY <1>1, <1>3 DEF TakeLatest, Pages
  <2> HIDE DEF page
  <2>2. ~ Idle(l.tab)'
    BY <1>1, <2>1, RearmedNotIdle
  <2>3. t # l.tab /\ Idle(t)' => Undisturbed(t)
    BY <1>2, <1>3, <2>1 DEF TakeLatest, Undisturbed, Idle, server
  <2> QED
    BY <2>2, <2>3, StaysSaved DEF InStep
<1>4. CASE ~ TakeLatest(l)
  <2>1. PICK k : k.tab = l.tab /\ loads' = (loads \ {l}) \cup {k}
    <3>1. CASE ReadState(l)
      <4> DEFINE k == [l EXCEPT !.org = token, !.data = row[token].data,
                         !.stage = IF NeedsMigration(row[token]) THEN "migrating" ELSE "answered"]
      <4>1. k.tab = l.tab
        BY <1>1 DEF Loads
      <4>2. loads' = (loads \ {l}) \cup {k}
        BY <3>1 DEF ReadState
      <4> QED
        BY <4>1, <4>2
    <3>2. CASE WriteBack(l) \/ TakeState(l) \/ LoadFails(l)
      <4>1. PICK stage : loads' = (loads \ {l}) \cup {[l EXCEPT !.stage = stage]}
        BY <3>2 DEF WriteBack, TakeState, LoadFails
      <4>2. [l EXCEPT !.stage = stage].tab = l.tab
        BY <1>1 DEF Loads
      <4> QED
        BY <4>1, <4>2
    <3> QED
      BY <1>4, <3>1, <3>2 DEF Loading
  <2>2. \A x \in loads : x.tab = t => \E y \in loads' : y.tab = t
    BY <2>1
  <2>3. ASSUME Idle(t)' PROVE t # l.tab
    BY <2>1, <2>3 DEF Idle
  <2>4. CASE WriteBack(l)
    <3>1. l.org \in Orgs \/ l.org = NoOrg
      BY <1>1 DEF Loads
    <3>2. ASSUME Idle(t)'
          PROVE  tab'[t] = tab[t] /\ row'[tab[t].org].data = row[tab[t].org].data
      <4>1. CASE l.org \in Orgs
        BY <2>3, <2>4, <3>2, <4>1, OverwrittenInStep DEF WriteBack
      <4>2. CASE l.org \notin Orgs
        <5>1. row' = row
          BY <2>4, <4>2 DEF WriteBack, ServerOK, Rows
        <5>2. tab'[t] = tab[t] \/ tab'[t].kept = FALSE
          BY <2>4, PageOfTab DEF WriteBack, Overwritten, Pages
        <5> QED
          BY <3>2, <5>1, <5>2 DEF Idle
      <4> QED
        BY <4>1, <4>2
    <3>3. Idle(t)' => Undisturbed(t)
      BY <1>2, <2>2, <3>2 DEF Undisturbed, Idle
    <3> QED
      BY <3>3, StaysSaved DEF InStep
  <2>5. CASE ReadState(l) \/ TakeState(l) \/ LoadFails(l)
    <3>1. row' = row /\ (t # l.tab => tab'[t] = tab[t])
      BY <2>5 DEF ReadState, TakeState, LoadFails, server, PageOK
    <3>2. Idle(t)' => Undisturbed(t)
      BY <1>2, <2>2, <2>3, <3>1 DEF Undisturbed, Idle
    <3> QED
      BY <3>2, StaysSaved DEF InStep
  <2> QED
    BY <1>4, <2>4, <2>5 DEF Loading
<1> QED
  BY <1>3, <1>4

\* a save that no older one of its tab waits behind is processed
LEMMA ProcessPutInStep ==
    ASSUME Good, InStep, NEW p \in puts, ProcessPut(p)
    PROVE  InStep'
<1> USE DEF Good
<1> SUFFICES ASSUME NEW t \in Tabs, Idle(t)' PROVE Saved(t)'
  BY DEF InStep
<1> DEFINE pages == Overwritten(tab, p.org, p.tab)
<1>1. /\ tab \in [Tabs -> Pages] /\ p.org \in Orgs /\ p.tab \in Owner /\ p.id \in Nat
      /\ \A q \in puts : q.id \in Nat
      /\ puts' = puts \ {p} /\ loads' = loads /\ gens' = gens
      /\ row' = [row EXCEPT ![p.org] = [data |-> Parsed(p.data), migrated |-> FALSE]]
  BY DEF PageOK, PutsOK, Puts, ProcessPut
<1>2. pages[t] = IF tab[t].org = p.org /\ t # p.tab THEN [tab[t] EXCEPT !.kept = FALSE] ELSE tab[t]
  BY DEF Overwritten
<1>3. tab' = IF (\E q \in puts : q.tab = p.tab /\ q.id < p.id) /\ p.tab # NoTab
             THEN [pages EXCEPT ![p.tab].kept = FALSE] ELSE pages
  BY DEF ProcessPut
<1>4. pages \in [Tabs -> Pages]
  BY <1>1, OverwrittenTyped
<1> HIDE DEF pages
<1>5. CASE p.tab = t
  <2>1. t # NoTab
    BY TenantAssumption
  <2>2. ~ \E q \in puts : q.tab = t /\ q.id < p.id
    BY <1>3, <1>4, <1>5, <2>1 DEF Idle, Pages
  <2>3. tab'[t] = tab[t]
    BY <1>2, <1>3, <1>5, <2>2
  <2>4. Saved(t)
    BY <1>1, <2>3 DEF Idle, SignedIn, InStep
  <2>5. ASSUME NEW q \in puts', q.tab = t, LastSave(q)' PROVE LastSave(q)
    <3>1. p.id <= q.id
      BY <1>1, <2>2, <2>5
    <3> QED
      BY <1>1, <1>5, <2>5, <3>1 DEF LastSave
  <2>6. ASSUME \A q \in puts' : q.tab # t PROVE row'[tab[t].org].data = Parsed(tab[t].mem)
    <3>1. \A q \in puts : q.tab = t => q = p
      BY <1>1, <2>6
    <3>2. LastSave(p)
      BY <1>1, <1>5, <3>1 DEF LastSave
    <3> QED
      BY <1>1, <1>5, <2>4, <3>2 DEF Saved, ServerOK, Rows
  <2> QED
    BY <1>1, <2>3, <2>4, <2>5, <2>6 DEF Saved
<1>6. CASE p.tab # t
  <2>1. tab'[t] = pages[t]
    BY <1>3, <1>4, <1>6
  <2>2. tab[t].org # p.org
    BY <1>1, <1>2, <1>6, <2>1 DEF Idle, Pages
  <2>3. tab'[t] = tab[t]
    BY <1>2, <2>1, <2>2
  <2>4. row'[tab[t].org] = row[tab[t].org]
    BY <1>1, <2>2 DEF ServerOK, Rows
  <2>5. \A q : (q \in puts' /\ q.tab = t) <=> (q \in puts /\ q.tab = t)
    BY <1>1, <1>6
  <2>6. Undisturbed(t)
    BY <1>1, <2>3, <2>4, <2>5 DEF Undisturbed, Idle
  <2> QED
    BY <2>6, StaysSaved DEF InStep
<1> QED
  BY <1>5, <1>6

LEMMA LosePutInStep ==
    ASSUME Good, InStep, NEW p \in puts, LosePut(p)
    PROVE  InStep'
<1> USE DEF Good
<1> SUFFICES ASSUME NEW t \in Tabs, Idle(t)' PROVE Saved(t)'
  BY DEF InStep
<1>1. tab \in [Tabs -> Pages] /\ t # NoTab
  BY TenantAssumption DEF PageOK
<1>2. p.tab # t /\ tab'[t] = tab[t]
  BY <1>1 DEF LosePut, Idle, Pages
<1>3. Undisturbed(t)
  BY <1>2 DEF LosePut, Undisturbed, Idle, server
<1> QED
  BY <1>3, StaysSaved DEF InStep

LEMMA GeneratingInStep ==
    ASSUME Good, InStep, NEW g \in gens, Generating(g)
    PROVE  InStep'
<1> USE DEF Good
<1> SUFFICES ASSUME NEW t \in Tabs, Idle(t)' PROVE Saved(t)'
  BY DEF InStep
<1>1. g \in Gens /\ g.tab \in Owner /\ g.org \in Orgs /\ tab \in [Tabs -> Pages] /\ t # NoTab
  BY TenantAssumption DEF GensOK, Gens, PageOK
<1>2. puts' = puts /\ loads' = loads
  BY DEF Generating, Begin, Commit, Rollback, GenerationAnswered, GenerationLost
<1>3. CASE GenerationAnswered(g) \/ GenerationLost(g)
  <2>1. row' = row
    BY <1>3 DEF GenerationAnswered, GenerationLost, server
  <2>2. g.tab # NoTab => /\ g.tab \in Tabs
                         /\ tab' = [tab EXCEPT ![g.tab] = Rearmed(tab[g.tab])]
    BY <1>1, <1>3 DEF GenerationAnswered, GenerationLost, Answered, Owner
  <2>3. t # g.tab
    BY <1>1, <2>2, PageOfTab, RearmedNotIdle
  <2>4. tab'[t] = tab[t]
    BY <1>1, <1>3, <2>2, <2>3 DEF GenerationAnswered, GenerationLost
  <2>5. \A x \in gens : x.tab = t => x \in gens'
    BY <1>3, <2>3 DEF GenerationAnswered, GenerationLost
  <2>6. Undisturbed(t)
    BY <1>2, <2>1, <2>4, <2>5 DEF Undisturbed, Idle
  <2> QED
    BY <2>6, StaysSaved DEF InStep
<1>4. CASE Begin(g) \/ Commit(g) \/ Rollback(g)
  <2>1. PICK h : h.tab = g.tab /\ gens' = (gens \ {g}) \cup {h}
    <3>1. \A stage : [g EXCEPT !.stage = stage].tab = g.tab
      BY <1>1 DEF Gens
    <3> QED
      BY <1>4, <3>1 DEF Begin, Commit, Rollback, Stage
  <2>2. t # g.tab /\ \A x \in gens : x.tab = t => \E y \in gens' : y.tab = t
    BY <2>1 DEF Idle
  <2>3. tab'[t] = tab[t] /\ row'[tab[t].org].data = row[tab[t].org].data
    <3>1. CASE Begin(g)
      BY <3>1 DEF Begin, Refused, server
    <3>2. CASE Commit(g)
      <4>1. /\ row' = [row EXCEPT ![g.org] = [data |-> Parsed(g.asked), migrated |-> FALSE]]
            /\ tab' = Overwritten(tab, g.org, g.tab)
        BY <3>2 DEF Commit
      <4>2. PICK o, author, r :
              /\ o \in Orgs
              /\ row' = [row EXCEPT ![o] = r] /\ tab' = Overwritten(tab, o, author)
              /\ t # author
        BY <1>1, <2>2, <4>1
      <4> QED
        BY <4>2, OverwrittenInStep
    <3>3. CASE Rollback(g)
      <4>1. CASE UNCHANGED <<server, tab>>
        BY <4>1 DEF server
      <4>2. CASE tab' = [u \in Tabs |->
                       IF u # g.tab /\ tab[u].org \in {o \in Orgs : row'[o].data # row[o].data}
                       THEN [tab[u] EXCEPT !.kept = FALSE] ELSE tab[u]]
        <5>1. tab'[t] = tab[t] /\ tab[t].org \notin {o \in Orgs : row'[o].data # row[o].data}
          <6>1. [tab[t] EXCEPT !.kept = FALSE].kept = FALSE
            BY <1>1 DEF Pages
          <6> QED
            BY <2>2, <4>2, <6>1 DEF Idle
        <5>2. tab[t].org \in Orgs
          BY <1>1, <5>1 DEF Idle, SignedIn, Pages
        <5> QED
          BY <5>1, <5>2
      <4> QED
        BY <3>3, <4>1, <4>2 DEF Rollback
    <3> QED
      BY <1>4, <3>1, <3>2, <3>3
  <2>4. Undisturbed(t)
    BY <1>2, <2>2, <2>3 DEF Undisturbed, Idle
  <2> QED
    BY <2>4, StaysSaved DEF InStep
<1> QED
  BY <1>3, <1>4 DEF Generating

LEMMA ImportInStep ==
    ASSUME Good, InStep, NEW o \in Orgs, Import(o)
    PROVE  InStep'
<1> SUFFICES ASSUME NEW t \in Tabs, Idle(t)' PROVE Saved(t)'
  BY DEF InStep
<1>1. tab'[t] = tab[t] /\ row'[tab[t].org].data = row[tab[t].org].data
  BY TenantAssumption, OverwrittenInStep DEF Import
<1>2. Undisturbed(t)
  BY <1>1 DEF Import, requests, Undisturbed, Idle
<1> QED
  BY <1>2, StaysSaved DEF InStep

LEMMA RestartInStep ==
    ASSUME Good, InStep, Restart
    PROVE  InStep'
<1> USE DEF Good
<1> SUFFICES ASSUME NEW t \in Tabs, Idle(t)' PROVE Saved(t)'
  BY DEF InStep
<1>1. tab[t] \in Pages
  BY PageOfTab
<1> DEFINE b == tab[t].kept /\ (\A p \in puts : p.tab # t)
                /\ (SignedIn(t) => row'[tab[t].org].data = row[tab[t].org].data)
<1>2. PICK w : tab'[t] = [tab[t] EXCEPT !.kept = b, !.history = w]
  BY DEF Restart
<1>3. b
  <2>1. b \in BOOLEAN
    OBVIOUS
  <2> HIDE DEF b
  <2> QED
    BY <1>1, <1>2, <2>1 DEF Idle, Pages
<1>4. /\ tab'[t].org = tab[t].org /\ tab'[t].mem = tab[t].mem
      /\ tab'[t].hydrated = tab[t].hydrated /\ tab'[t].timer = tab[t].timer
      /\ tab'[t].leaving = tab[t].leaving
  <2> HIDE DEF b
  <2> QED
    BY <1>1, <1>2 DEF Pages
<1>5. \A x \in loads : x.tab = t => \E y \in loads' : y.tab = t
  <2>1. \A x \in loads : [x EXCEPT !.stage = "latest"].tab = x.tab
    BY DEF LoadsOK, Loads
  <2> QED
    BY <2>1 DEF Restart
<1>6. \A x \in gens : x.tab = t => \E y \in gens' : y.tab = t
  <2>1. \A x \in gens : [x EXCEPT !.stage = "failed"].tab = x.tab
    BY DEF GensOK, Gens
  <2>2. \A x \in gens : x.stage # "done" => [x EXCEPT !.stage = "failed"] \in gens'
    BY DEF Restart
  <2>3. \A x \in gens : x.stage = "done" => x \in gens'
    BY DEF Restart
  <2> QED
    BY <2>1, <2>2, <2>3
<1>7. puts' = {}
  BY DEF Restart
<1>8. SignedIn(t)
  BY <1>4 DEF Idle, SignedIn
<1>9. Undisturbed(t)
  BY <1>3, <1>4, <1>5, <1>6, <1>7, <1>8 DEF Undisturbed
<1> QED
  BY <1>9, StaysSaved DEF InStep

\* When a tab has nothing under way, what it shows is what is stored, unless
\* after its last save somebody else wrote the row or that save was lost or
\* overtaken.
THEOREM EditsAreKept == Spec => []EditsKept
<1>1. Init => InStep
  BY DEF Init, InStep, Idle, SignedIn, Fresh
<1>2. ASSUME IInv, InStep, [Next]_vars PROVE InStep'
  <2>1. Good
    BY <1>2, IInvIsItsParts
  <2>2. CASE UNCHANGED vars
    <3>1. UNCHANGED <<row, tab, puts, loads, gens>>
      BY <2>2 DEF vars, server, requests
    <3> QED
      BY <1>2, <3>1 DEF InStep, Idle, Saved, LastSave, SignedIn
  <2>3. CASE Next
    BY <1>2, <2>1, <2>3, PageInStep, LoadingInStep, ProcessPutInStep, LosePutInStep,
       GeneratingInStep, ImportInStep, RestartInStep DEF Next
  <2> QED
    BY <1>2, <2>2, <2>3
<1>3. InStep => EditsKept
  BY DEF InStep, EditsKept, Resting, Idle, Saved
<1> QED
  BY <1>1, <1>2, <1>3, TenantInvariance, PTL DEF Spec
=============================================================================

------------------------------ MODULE Sessions ------------------------------
(***************************************************************************)
(* The session of one user: a pair of an access token, which expires, and  *)
(* a refresh token, which a refresh exchanges for a new pair.  The tabs of *)
(* a browser share the pair, each has calls of its own under way, and the  *)
(* calls of a tab share one refresh.                                       *)
(*                                                                         *)
(* Pairs are numbered as they are issued, 0 is no token.  A step is one    *)
(* statement of the server, or what a tab does between two awaits.         *)
(***************************************************************************)
EXTENDS Integers, FiniteSets

CONSTANTS
    Tabs, Calls,
    TabOf,          \* the tab a call is made in
    Quiet,          \* the calls with suppressAutoLogout
    MaxPairs,       \* bound of the pairs issued
    Budgets         \* bounds: how many pairs are issued, calls made, access tokens
                    \* expired, requests or answers lost, and how often the user
                    \* opens the page, signs out or asks for a reset link, or an
                    \* administrator acts

ASSUME SessionAssumption ==
    /\ TabOf \in [Calls -> Tabs] /\ Quiet \subseteq Calls /\ "nobody" \notin Tabs
    /\ MaxPairs \in Nat
    /\ Budgets \subseteq [pairs : 0 .. MaxPairs, calls : Nat, expiries : Nat, faults : Nat, acts : Nat]

Pairs == 1 .. MaxPairs

VARIABLES
    issued,     \* number of pairs issued
    live,       \* refresh_tokens without revoked_at
    active,     \* users.is_active
    link,       \* the password reset token: "none", "sent" or "used"
    stale,      \* the expired access tokens
    store,      \* tt_token and tt_refresh_token in localStorage
    shows,      \* what each tab shows: the "app" or the "login" page
    timer,      \* whether sessionRefreshTimer of each tab is set
    refresh,    \* the refresh of each tab
    call,       \* progress of each call
    leave,      \* sign-out of each tab: the refresh token it sends, -1 when none
    confirm,    \* confirmation of the reset link in each tab: "idle" or "read"
    left,       \* how many events of each kind may still happen
    spender,    \* history: the tab whose refresh revoked a token
    lost,       \* history: the tokens whose exchange was not answered
    ended       \* history: how the session was ended since the last login

tokens == <<issued, live, active, link, stale>>
tabs == <<store, shows, timer, refresh, call, leave, confirm>>
history == <<spender, lost, ended>>
vars == <<tokens, tabs, left, history>>

NoTokens == [access |-> 0, refresh |-> 0]
NoRefresh == [stage |-> "idle", token |-> 0]

Init ==
    /\ issued = 0 /\ live = {} /\ stale = {}
    /\ active = TRUE /\ link = "none"
    /\ store = NoTokens
    /\ shows = [t \in Tabs |-> "login"]
    /\ timer = [t \in Tabs |-> FALSE]
    /\ refresh = [t \in Tabs |-> NoRefresh]
    /\ call = [c \in Calls |-> [stage |-> "idle", token |-> 0]]
    /\ leave = [t \in Tabs |-> -1]
    /\ confirm = [t \in Tabs |-> "idle"]
    /\ left \in Budgets
    /\ spender = [p \in Pairs |-> "nobody"]
    /\ lost = {}
    /\ ended = [store |-> FALSE, live |-> FALSE]

May(event) == left[event] > 0 /\ left' = [left EXCEPT ![event] = @ - 1]

Refreshing(t) == refresh[t].stage # "idle"

-----------------------------------------------------------------------------
(* Faulty variants of the definitions below, one for each property.        *)

\* each call starts a refresh of its own
MayStartWhileRefreshing(t) == TRUE

\* the refresh token is left in the storage
OnlyAccessCleared == [access |-> 0, refresh |-> store.refresh]

\* a new pair carries a number that is not taken
IssuesUnnumbered == May("pairs") /\ UNCHANGED issued

-----------------------------------------------------------------------------
(* The server *)

\* issueTokenPair
Issues == May("pairs") /\ issued' = issued + 1

\* POST /auth/login
Login(t) ==
    /\ shows[t] = "login" /\ active /\ Issues
    /\ live' = live \cup {issued + 1}
    /\ store' = [access |-> issued + 1, refresh |-> issued + 1]
    /\ shows' = [shows EXCEPT ![t] = "app"]
    /\ timer' = [timer EXCEPT ![t] = TRUE]
    /\ ended' = [store |-> FALSE, live |-> FALSE]
    /\ UNCHANGED <<active, link, stale, refresh, call, leave, confirm, spender, lost>>

\* authMiddleware
Accepted(token) == token # 0 /\ token \notin stale

\* POST /auth/refresh: the row is read ...
RefreshRead(t) ==
    /\ refresh[t].stage = "asked"
    /\ refresh' = [refresh EXCEPT ![t].stage =
                      IF refresh[t].token \in live /\ active THEN "read" ELSE "refused"]
    /\ UNCHANGED <<tokens, store, shows, timer, call, leave, confirm, left, history>>

\* ... revoked, without asking again ...
Exchanged(t) == live' = live \ {refresh[t].token}

RefreshRevoke(t) ==
    /\ refresh[t].stage = "read"
    /\ Exchanged(t)
    /\ spender' = [spender EXCEPT ![refresh[t].token] = t]
    /\ refresh' = [refresh EXCEPT ![t].stage = "revoked"]
    /\ UNCHANGED <<issued, active, link, stale, store, shows, timer, call, leave, confirm, left, lost, ended>>

\* ... and exchanged
RefreshIssue(t) ==
    /\ refresh[t].stage = "revoked" /\ Issues
    /\ live' = live \cup {issued + 1}
    /\ refresh' = [refresh EXCEPT ![t] = [stage |-> "answered", token |-> issued + 1]]
    /\ UNCHANGED <<active, link, stale, store, shows, timer, call, leave, confirm, history>>

\* POST /auth/logout, behind authMiddleware
LogoutServed(t) ==
    /\ leave[t] > 0
    /\ live' = IF Accepted(store.access) THEN live \ {leave[t]} ELSE live
    /\ leave' = [leave EXCEPT ![t] = 0]
    /\ UNCHANGED <<issued, active, link, stale, store, shows, timer, refresh, call, confirm, left, history>>

RevokeAll ==
    /\ live' = {}
    /\ ended' = [ended EXCEPT !.live = \A t \in Tabs : refresh[t].stage \notin {"read", "revoked"}]

\* an administrator sets a password, of the organization or of the platform, or
\* the platform deactivates the user
SetPassword ==
    /\ May("acts") /\ RevokeAll
    /\ active' \in {active, FALSE}
    /\ UNCHANGED <<issued, link, stale, tabs, spender, lost>>

\* PATCH /users/:id with isActive alone revokes nothing; a refresh asks is_active
SwitchActive ==
    /\ May("acts")
    /\ active' = ~ active
    /\ UNCHANGED <<issued, live, link, stale, tabs, history>>

\* POST /auth/password-reset/request
RequestReset ==
    /\ May("acts") /\ link = "none"
    /\ link' = "sent"
    /\ UNCHANGED <<issued, live, active, stale, tabs, history>>

\* POST /auth/password-reset/confirm reads the link before its transaction
ConfirmRead(t) ==
    /\ link = "sent" /\ shows[t] = "login" /\ confirm[t] = "idle"
    /\ confirm' = [confirm EXCEPT ![t] = "read"]
    /\ UNCHANGED <<tokens, store, shows, timer, refresh, call, leave, left, history>>

ConfirmCommit(t) ==
    /\ confirm[t] = "read"
    /\ link' = "used" /\ RevokeAll
    /\ confirm' = [confirm EXCEPT ![t] = "idle"]
    /\ UNCHANGED <<issued, active, stale, store, shows, timer, refresh, call, leave, left, spender, lost>>

\* JWT_EXPIRES_IN has passed
AccessExpires ==
    /\ May("expiries")
    /\ \E p \in 1 .. issued : p \notin stale /\ stale' = stale \cup {p}
    /\ UNCHANGED <<issued, live, active, link, tabs, history>>

-----------------------------------------------------------------------------
(* The tab *)

\* clearStoredSession
Cleared == NoTokens

\* refreshInFlight: a refresh is started only when none is under way
MayStart(t) == ~ Refreshing(t)

Starts(t) == refresh' = [refresh EXCEPT ![t] = [stage |-> "asked", token |-> store.refresh]]

\* request: without an access token it refreshes first, when it can
Send(c) ==
    LET t == TabOf[c]
        recover == store.access = 0 /\ store.refresh # 0
    IN  /\ shows[t] = "app" /\ call[c].stage = "idle" /\ May("calls")
        /\ call' = [call EXCEPT ![c] = IF recover THEN [stage |-> "recovering", token |-> 0]
                                       ELSE [stage |-> "sent", token |-> store.access]]
        /\ IF recover /\ MayStart(t) THEN Starts(t) ELSE UNCHANGED refresh
        /\ UNCHANGED <<tokens, store, shows, timer, leave, confirm, history>>

\* the middleware answers the call; a call is refused again after its retry
Serve(c) ==
    /\ call[c].stage \in {"sent", "retried"}
    /\ call' = [call EXCEPT ![c].stage =
                   IF Accepted(call[c].token) THEN "idle"
                   ELSE IF call[c].stage = "sent" THEN "denied" ELSE "expelled"]
    /\ UNCHANGED <<tokens, store, shows, timer, refresh, leave, confirm, left, history>>

\* a 401: the call waits for the refresh of its tab, its own or one under way
AskRefresh(c) ==
    LET t == TabOf[c]
    IN  /\ call[c].stage = "denied"
        /\ \/ /\ MayStart(t) /\ store.refresh # 0
              /\ Starts(t)
              /\ call' = [call EXCEPT ![c].stage = "waiting"]
           \/ /\ ~ MayStart(t)
              /\ call' = [call EXCEPT ![c].stage = "waiting"]
              /\ UNCHANGED refresh
           \/ /\ MayStart(t) /\ store.refresh = 0
              /\ call' = [call EXCEPT ![c].stage = "expelled"]
              /\ UNCHANGED refresh
        /\ UNCHANGED <<tokens, store, shows, timer, leave, confirm, left, history>>

\* the page is opened while tokens are stored
Open(t) ==
    /\ shows[t] = "login" /\ ~ Refreshing(t) /\ store.access # 0 /\ May("acts")
    /\ shows' = [shows EXCEPT ![t] = "app"]
    /\ timer' = [timer EXCEPT ![t] = store.refresh # 0]
    /\ UNCHANGED <<tokens, store, refresh, call, leave, confirm, history>>

\* scheduleSessionRefresh: the timer fires
RefreshTimer(t) ==
    /\ timer[t]
    /\ timer' = [timer EXCEPT ![t] = FALSE]
    /\ IF store.refresh # 0 /\ MayStart(t) THEN Starts(t) ELSE UNCHANGED refresh
    /\ UNCHANGED <<tokens, store, shows, call, leave, confirm, left, history>>

\* the answer of the refresh is in, and the calls that wait for it go on
TakeRefresh(t) ==
    LET pair == [access |-> refresh[t].token, refresh |-> refresh[t].token]
        ok == refresh[t].stage = "answered"
    IN  /\ refresh[t].stage \in {"answered", "refused"}
        /\ store' = IF ok THEN pair ELSE Cleared
        /\ call' = [c \in Calls |->
                      CASE TabOf[c] # t -> call[c]
                        [] call[c].stage = "recovering" -> [stage |-> "sent", token |-> store'.access]
                        [] call[c].stage = "waiting" /\ ok -> [stage |-> "retried", token |-> store'.access]
                        [] call[c].stage = "waiting" /\ ~ ok -> [call[c] EXCEPT !.stage = "expelled"]
                        [] OTHER -> call[c]]
        /\ refresh' = [refresh EXCEPT ![t] = NoRefresh]
        /\ timer' = [timer EXCEPT ![t] = ok]
        /\ UNCHANGED <<tokens, shows, leave, confirm, left, history>>

\* the request or the answer of the refresh is lost: the calls that wait for
\* it fail, and nobody is signed out
LoseRefresh(t) ==
    /\ refresh[t].stage \in {"asked", "answered"} /\ May("faults")
    /\ lost' = IF refresh[t].stage = "asked" THEN lost ELSE lost \cup {p \in Pairs : spender[p] = t}
    /\ refresh' = [refresh EXCEPT ![t] = NoRefresh]
    /\ call' = [c \in Calls |->
                  IF TabOf[c] # t THEN call[c]
                  ELSE CASE call[c].stage = "waiting" -> [stage |-> "idle", token |-> 0]
                         [] call[c].stage = "recovering" -> [stage |-> "sent", token |-> store.access]
                         [] OTHER -> call[c]]
    /\ UNCHANGED <<tokens, store, shows, timer, leave, confirm, spender, ended>>

\* forceLogoutToAuth, unless the call asked not to
Expelled(c) ==
    /\ call[c].stage = "expelled"
    /\ store' = IF c \in Quiet THEN store ELSE Cleared
    /\ shows' = IF c \in Quiet THEN shows ELSE [shows EXCEPT ![TabOf[c]] = "login"]
    /\ call' = [call EXCEPT ![c] = [stage |-> "idle", token |-> 0]]
    /\ UNCHANGED <<tokens, timer, refresh, leave, confirm, left, history>>

\* logout: the request, then clearToken whatever became of it
Logout(t) ==
    /\ shows[t] = "app" /\ leave[t] = -1 /\ May("acts")
    /\ leave' = [leave EXCEPT ![t] = store.refresh]
    /\ UNCHANGED <<tokens, store, shows, timer, refresh, call, confirm, history>>

LogoutDone(t) ==
    /\ leave[t] = 0
    /\ leave' = [leave EXCEPT ![t] = -1]
    /\ store' = Cleared
    /\ shows' = [shows EXCEPT ![t] = "login"]
    /\ timer' = [timer EXCEPT ![t] = FALSE]
    /\ ended' = [ended EXCEPT !.store = \A u \in Tabs : ~ Refreshing(u)]
    /\ UNCHANGED <<tokens, refresh, call, confirm, left, spender, lost>>

LogoutLost(t) ==
    /\ leave[t] > 0 /\ May("faults")
    /\ leave' = [leave EXCEPT ![t] = 0]
    /\ UNCHANGED <<tokens, store, shows, timer, refresh, call, confirm, history>>

Page(t) == Login(t) \/ Open(t) \/ RefreshTimer(t) \/ TakeRefresh(t) \/ LoseRefresh(t)
           \/ Logout(t) \/ LogoutDone(t) \/ LogoutLost(t)

Server(t) == RefreshRead(t) \/ RefreshRevoke(t) \/ RefreshIssue(t)
             \/ LogoutServed(t) \/ ConfirmRead(t) \/ ConfirmCommit(t)

Calling(c) == Send(c) \/ Serve(c) \/ AskRefresh(c) \/ Expelled(c)

Next ==
    \/ \E t \in Tabs : Page(t) \/ Server(t)
    \/ \E c \in Calls : Calling(c)
    \/ SetPassword \/ SwitchActive \/ RequestReset \/ AccessExpires

Spec == Init /\ [][Next]_vars
-----------------------------------------------------------------------------
(* Properties *)

\* the variables have their types; only issued tokens are live, stale, stored
\* or carried by a request
TypeOK ==
    LET Tokens == 0 .. issued
    IN  /\ issued \in 0 .. MaxPairs
        /\ live \cup stale \subseteq 1 .. issued /\ lost \subseteq Pairs
        /\ active \in BOOLEAN /\ link \in {"none", "sent", "used"}
        /\ store \in [access : Tokens, refresh : Tokens]
        /\ shows \in [Tabs -> {"app", "login"}] /\ timer \in [Tabs -> BOOLEAN]
        /\ refresh \in [Tabs -> [stage : {"idle", "asked", "read", "revoked", "answered", "refused"},
                                 token : Tokens]]
        /\ call \in [Calls -> [stage : {"idle", "recovering", "sent", "denied", "waiting",
                                        "retried", "expelled"},
                               token : Tokens]]
        /\ leave \in [Tabs -> Tokens \cup {-1}] /\ confirm \in [Tabs -> {"idle", "read"}]
        /\ left \in [pairs : Nat, calls : Nat, expiries : Nat, faults : Nat, acts : Nat]
        /\ spender \in [Pairs -> Tabs \cup {"nobody"}]
        /\ ended \in [store : BOOLEAN, live : BOOLEAN]

\* A tab does not end its own session: when its refresh is refused, the token
\* was not one that this tab has exchanged itself and had an answer for,
\* however many of its calls found the access token expired.
NotByItself ==
    \A t \in Tabs :
        LET r == refresh[t].token
        IN  refresh[t].stage = "refused" => spender[r] # t \/ r \in lost

\* A session that has been ended stays ended until somebody signs in: nothing
\* is stored after a sign-out, and no refresh token lives after a password was
\* set, unless a refresh was under way at that moment.
EndedStaysEnded ==
    /\ ended.store => store = NoTokens
    /\ ended.live => live = {}
=============================================================================

---------------------------- MODULE SessionsProofs ----------------------------
(***************************************************************************)
(* For any number of tabs, calls and tokens: no tab is refused a refresh   *)
(* for what it has exchanged itself, and a session that was ended stays    *)
(* ended.                                                                  *)
(*                                                                         *)
(* Neither is inductive.  That a session stays ended needs that nothing    *)
(* under way can bring it back (Quenched).  That a tab is not refused for  *)
(* its own doing needs that the token the tabs are about to send is not    *)
(* one they have spent (NotSpentHere), which needs that the answer to a    *)
(* refresh is held by one tab alone until it is stored (AnswersAreNew).    *)
(***************************************************************************)
EXTENDS Sessions, TLAPS

\* the pairs that may still be issued have a number each
Numbered == issued + left.pairs <= MaxPairs

\* nothing that is under way stores a pair again, or issues one
Quenched ==
    /\ ended.store => store = NoTokens /\ \A t \in Tabs : ~ Refreshing(t)
    /\ ended.live => live = {} /\ \A t \in Tabs : refresh[t].stage \notin {"read", "revoked"}

\* a number that has not been issued has not been spent
FutureUnspent == \A p \in Pairs : p > issued => spender[p] = "nobody"

\* a pair that a tab has been given and has not stored yet is nowhere else,
\* and has not been spent
AnswersAreNew ==
    \A t \in Tabs : refresh[t].stage = "answered" =>
        LET p == refresh[t].token
        IN  /\ p > 0 /\ spender[p] = "nobody" /\ p # store.refresh
            /\ \A u \in Tabs : u # t => refresh[u].token # p

\* a refresh that is under way carries a token
AsksWithToken ==
    \A t \in Tabs : refresh[t].stage \in {"asked", "read", "revoked", "refused"} => refresh[t].token > 0

\* the token a tab would send, and the one it has sent, is not one it has
\* exchanged itself, unless the answer was lost or is still to come
NotSpentHere ==
    \A t \in Tabs :
        /\ store.refresh > 0 /\ refresh[t].stage \notin {"revoked", "answered"} =>
             spender[store.refresh] # t \/ store.refresh \in lost
        /\ refresh[t].stage \in {"asked", "read", "refused"} =>
             spender[refresh[t].token] # t \/ refresh[t].token \in lost

IInv ==
    /\ TypeOK /\ Numbered
    /\ Quenched
    /\ FutureUnspent /\ AnswersAreNew /\ AsksWithToken /\ NotSpentHere

Left == [pairs : Nat, calls : Nat, expiries : Nat, faults : Nat, acts : Nat]
Events == {"pairs", "calls", "expiries", "faults", "acts"}
Stages == {"idle", "asked", "read", "revoked", "answered", "refused"}
CallStages == {"idle", "recovering", "sent", "denied", "waiting", "retried", "expelled"}

-----------------------------------------------------------------------------
(* Lemmas about the operators of the module *)

\* an event uses up one of its budget
LEMMA MayTyped ==
    ASSUME TypeOK, NEW event \in Events, May(event)
    PROVE  /\ left' \in Left /\ left'.pairs <= left.pairs
           /\ event = "pairs" => left.pairs > 0 /\ left'.pairs = left.pairs - 1
<1>1. left \in Left
  BY DEF TypeOK, Left
<1> QED
  BY <1>1 DEF May, Left, Events

\* a pair that is issued has the next number
LEMMA IssuesTyped ==
    ASSUME TypeOK, Numbered, Issues
    PROVE  /\ left' \in Left /\ issued' = issued + 1 /\ issued \in Nat /\ issued + 1 \in Pairs
           /\ issued' \in 0 .. MaxPairs /\ Numbered'
<1>1. left' \in Left /\ left.pairs > 0 /\ left'.pairs = left.pairs - 1
  BY MayTyped DEF Issues, Events
<1>2. left.pairs \in Nat /\ issued \in 0 .. MaxPairs /\ MaxPairs \in Nat
  BY SessionAssumption DEF TypeOK
<1> QED
  BY <1>1, <1>2 DEF Issues, Numbered, Pairs

\* history: whether the session was ended here, for any answer to whether
\* something was under way
LEMMA EndedTyped ==
    ASSUME TypeOK, NEW b \in BOOLEAN
    PROVE  /\ [ended EXCEPT !.store = b] \in [store : BOOLEAN, live : BOOLEAN]
           /\ [ended EXCEPT !.live = b] \in [store : BOOLEAN, live : BOOLEAN]
BY DEF TypeOK

LEMMA StartsTyped ==
    ASSUME TypeOK, NEW t \in Tabs, Starts(t) \/ UNCHANGED refresh
    PROVE  refresh' \in [Tabs -> [stage : Stages, token : 0 .. issued]]
BY DEF TypeOK, Starts, Stages

-----------------------------------------------------------------------------
(* Types *)

LEMMA InitIInv == Init => IInv
<1> SUFFICES ASSUME Init PROVE IInv
  OBVIOUS
<1>1. left \in [pairs : 0 .. MaxPairs, calls : Nat, expiries : Nat, faults : Nat, acts : Nat]
      /\ MaxPairs \in Nat
  BY SessionAssumption DEF Init
<1>2. TypeOK
  BY <1>1 DEF Init, TypeOK, NoTokens, NoRefresh
<1>3. Numbered
  BY <1>1 DEF Init, Numbered
<1>4. Quenched
  BY DEF Init, Quenched
<1>5. FutureUnspent
  BY DEF Init, FutureUnspent
<1>6. AnswersAreNew /\ AsksWithToken
  BY DEF Init, AnswersAreNew, AsksWithToken, NoRefresh
<1>7. NotSpentHere
  BY DEF Init, NotSpentHere, NoRefresh, NoTokens
<1> QED
  BY <1>2, <1>3, <1>4, <1>5, <1>6, <1>7 DEF IInv

LEMMA PageTyped ==
    ASSUME TypeOK, Numbered, NEW t \in Tabs, Page(t)
    PROVE  TypeOK' /\ Numbered'
<1> USE SessionAssumption DEF tokens, tabs, history, Events, Left, NoTokens, NoRefresh
<1>1. CASE Login(t)
  BY <1>1, IssuesTyped DEF Login, TypeOK
<1>2. CASE Open(t)
  BY <1>2, MayTyped DEF Open, TypeOK, Numbered
<1>3. CASE RefreshTimer(t)
  BY <1>3 DEF RefreshTimer, Starts, TypeOK, Numbered
<1>4. CASE TakeRefresh(t)
  <2>1. store' \in [access : 0 .. issued, refresh : 0 .. issued]
    BY <1>4 DEF TakeRefresh, Cleared, TypeOK
  <2>2. ASSUME NEW c \in Calls
        PROVE  call'[c] \in [stage : CallStages, token : 0 .. issued]
    BY <1>4, <2>1 DEF TakeRefresh, TypeOK, CallStages
  <2>3. call' \in [Calls -> [stage : CallStages, token : 0 .. issued]]
    BY <1>4, <2>2 DEF TakeRefresh
  <2>4. refresh' \in [Tabs -> [stage : Stages, token : 0 .. issued]]
    BY <1>4 DEF TakeRefresh, TypeOK, Stages
  <2>5. timer' \in [Tabs -> BOOLEAN]
    BY <1>4 DEF TakeRefresh, TypeOK
  <2> QED
    BY <1>4, <2>1, <2>3, <2>4, <2>5 DEF TakeRefresh, TypeOK, Numbered, Stages, CallStages
<1>5. CASE LoseRefresh(t)
  BY <1>5, MayTyped DEF LoseRefresh, TypeOK, Numbered
<1>6. CASE Logout(t)
  BY <1>6, MayTyped DEF Logout, TypeOK, Numbered
<1>7. CASE LogoutDone(t)
  <2>1. ended' \in [store : BOOLEAN, live : BOOLEAN]
    BY <1>7, EndedTyped DEF LogoutDone
  <2> QED
    BY <1>7, <2>1 DEF LogoutDone, Cleared, TypeOK, Numbered
<1>8. CASE LogoutLost(t)
  BY <1>8, MayTyped DEF LogoutLost, TypeOK, Numbered
<1> QED
  BY <1>1, <1>2, <1>3, <1>4, <1>5, <1>6, <1>7, <1>8 DEF Page

LEMMA ServerTyped ==
    ASSUME TypeOK, Numbered, NEW t \in Tabs, Server(t)
    PROVE  TypeOK' /\ Numbered'
<1> USE SessionAssumption DEF tokens, tabs, history, Events, Left, NoTokens, NoRefresh
<1>1. CASE RefreshRead(t)
  BY <1>1 DEF RefreshRead, TypeOK, Numbered
<1>2. CASE RefreshRevoke(t)
  <2>1. live' \cup stale' \subseteq 1 .. issued'
    BY <1>2 DEF RefreshRevoke, Exchanged, TypeOK
  <2>2. spender' \in [Pairs -> Tabs \cup {"nobody"}]
    BY <1>2 DEF RefreshRevoke, TypeOK
  <2>3. refresh' \in [Tabs -> [stage : Stages, token : 0 .. issued]]
    BY <1>2 DEF RefreshRevoke, TypeOK, Stages
  <2> QED
    BY <1>2, <2>1, <2>2, <2>3 DEF RefreshRevoke, TypeOK, Numbered, Stages
<1>3. CASE RefreshIssue(t)
  BY <1>3, IssuesTyped DEF RefreshIssue, TypeOK
<1>4. CASE LogoutServed(t)
  BY <1>4 DEF LogoutServed, TypeOK, Numbered
<1>5. CASE ConfirmRead(t)
  BY <1>5 DEF ConfirmRead, TypeOK, Numbered
<1>6. CASE ConfirmCommit(t)
  BY <1>6 DEF ConfirmCommit, RevokeAll, TypeOK, Numbered
<1> QED
  BY <1>1, <1>2, <1>3, <1>4, <1>5, <1>6 DEF Server

LEMMA CallingTyped ==
    ASSUME TypeOK, Numbered, NEW c \in Calls, Calling(c)
    PROVE  TypeOK' /\ Numbered'
<1> USE SessionAssumption DEF tokens, tabs, history, Events, Left, NoTokens, NoRefresh
<1>1. CASE Send(c)
  <2>1. left' \in Left /\ left'.pairs <= left.pairs
    BY <1>1, MayTyped DEF Send
  <2>2. refresh' \in [Tabs -> [stage : Stages, token : 0 .. issued]]
    BY <1>1, StartsTyped DEF Send
  <2>3. call' \in [Calls -> [stage : CallStages, token : 0 .. issued]]
    BY <1>1 DEF Send, TypeOK, CallStages
  <2> QED
    BY <1>1, <2>1, <2>2, <2>3 DEF Send, TypeOK, Numbered, Stages, CallStages
<1>2. CASE Serve(c)
  BY <1>2 DEF Serve, TypeOK, Numbered
<1>3. CASE AskRefresh(c)
  <2>1. refresh' \in [Tabs -> [stage : Stages, token : 0 .. issued]]
    BY <1>3, StartsTyped DEF AskRefresh
  <2>2. call' \in [Calls -> [stage : CallStages, token : 0 .. issued]]
    <3>1. PICK stage \in CallStages : call' = [call EXCEPT ![c].stage = stage]
      BY <1>3 DEF AskRefresh, CallStages
    <3> QED
      BY <3>1 DEF TypeOK, CallStages
  <2> QED
    BY <1>3, <2>1, <2>2 DEF AskRefresh, TypeOK, Numbered, Stages, CallStages
<1>4. CASE Expelled(c)
  BY <1>4 DEF Expelled, Cleared, TypeOK, Numbered
<1> QED
  BY <1>1, <1>2, <1>3, <1>4 DEF Calling

LEMMA OthersTyped ==
    ASSUME TypeOK, Numbered, SetPassword \/ SwitchActive \/ RequestReset \/ AccessExpires
    PROVE  TypeOK' /\ Numbered'
<1> USE SessionAssumption DEF tokens, tabs, history, Events, Left, NoTokens, NoRefresh
<1>1. CASE SetPassword
  <2>1. ended' \in [store : BOOLEAN, live : BOOLEAN]
    BY <1>1, EndedTyped DEF SetPassword, RevokeAll
  <2>2. left' \in Left /\ left'.pairs <= left.pairs
    BY <1>1, MayTyped DEF SetPassword
  <2>3. active' \in BOOLEAN
    BY <1>1, Zenon DEF SetPassword, TypeOK
  <2> QED
    BY <1>1, <2>1, <2>2, <2>3 DEF SetPassword, RevokeAll, TypeOK, Numbered
<1>2. CASE SwitchActive
  BY <1>2, MayTyped DEF SwitchActive, TypeOK, Numbered
<1>3. CASE RequestReset
  BY <1>3, MayTyped DEF RequestReset, TypeOK, Numbered
<1>4. CASE AccessExpires
  BY <1>4, MayTyped DEF AccessExpires, TypeOK, Numbered
<1> QED
  BY <1>1, <1>2, <1>3, <1>4

LEMMA StepTyped ==
    ASSUME TypeOK, Numbered, [Next]_vars
    PROVE  TypeOK' /\ Numbered'
<1>1. CASE UNCHANGED vars
  BY <1>1 DEF vars, tokens, tabs, history, TypeOK, Numbered
<1> QED
  BY <1>1, PageTyped, ServerTyped, CallingTyped, OthersTyped DEF Next

-----------------------------------------------------------------------------
(* What a step may do to the tokens.  The invariants below depend on these  *)
(* variables only.                                                          *)

pairs == <<issued, store, refresh, spender, lost>>

\* a tab starts a refresh with the stored token
Begins(t) ==
    /\ refresh[t].stage = "idle" /\ store.refresh # 0 /\ Starts(t)
    /\ UNCHANGED <<issued, live, store, spender, lost, ended>>

\* the stored tokens are removed
Clears ==
    /\ store' = NoTokens
    /\ UNCHANGED <<issued, live, refresh, spender, lost>>
    /\ \/ UNCHANGED ended
       \/ ended' = [ended EXCEPT !.store = \A u \in Tabs : ~ Refreshing(u)]

Revokes == RevokeAll /\ UNCHANGED pairs

\* nothing is issued, stored or asked for; a token may be revoked
Leaves == live' \subseteq live /\ UNCHANGED <<pairs, ended>>

Exchanges(t) ==
    RefreshRead(t) \/ RefreshRevoke(t) \/ RefreshIssue(t) \/ TakeRefresh(t) \/ LoseRefresh(t)

LEMMA Kinds ==
    ASSUME TypeOK, [Next]_vars
    PROVE  \/ \E t \in Tabs : Login(t) \/ Begins(t) \/ Exchanges(t)
           \/ Clears \/ Revokes \/ Leaves
<1> USE DEF tokens, tabs, history, pairs
<1>1. ASSUME NEW t \in Tabs, Page(t)
      PROVE  Login(t) \/ Begins(t) \/ Exchanges(t) \/ Clears \/ Leaves
  <2>1. CASE Login(t) \/ TakeRefresh(t) \/ LoseRefresh(t)
    BY <2>1 DEF Exchanges
  <2>2. CASE Open(t)
    BY <2>2 DEF Open, Leaves
  <2>3. CASE RefreshTimer(t)
    BY <2>3 DEF RefreshTimer, MayStart, Refreshing, Begins, Leaves
  <2>4. CASE Logout(t)
    BY <2>4 DEF Logout, Leaves
  <2>5. CASE LogoutDone(t)
    BY <2>5 DEF LogoutDone, Cleared, Clears
  <2>6. CASE LogoutLost(t)
    BY <2>6 DEF LogoutLost, Leaves
  <2> QED
    BY <1>1, <2>1, <2>2, <2>3, <2>4, <2>5, <2>6 DEF Page
<1>2. ASSUME NEW t \in Tabs, Server(t)
      PROVE  Exchanges(t) \/ Revokes \/ Leaves
  <2>1. CASE RefreshRead(t) \/ RefreshRevoke(t) \/ RefreshIssue(t)
    BY <2>1 DEF Exchanges
  <2>2. CASE LogoutServed(t)
    BY <2>2 DEF LogoutServed, Leaves
  <2>3. CASE ConfirmRead(t)
    BY <2>3 DEF ConfirmRead, Leaves
  <2>4. CASE ConfirmCommit(t)
    BY <2>4 DEF ConfirmCommit, Revokes
  <2> QED
    BY <1>2, <2>1, <2>2, <2>3, <2>4 DEF Server
<1>3. ASSUME NEW c \in Calls, Calling(c)
      PROVE  Begins(TabOf[c]) \/ Clears \/ Leaves
  <2>1. CASE Send(c)
    BY <2>1 DEF Send, MayStart, Refreshing, Begins, Leaves
  <2>2. CASE Serve(c)
    BY <2>2 DEF Serve, Leaves
  <2>3. CASE AskRefresh(c)
    BY <2>3 DEF AskRefresh, MayStart, Refreshing, Begins, Leaves
  <2>4. CASE Expelled(c)
    BY <2>4 DEF Expelled, Cleared, Clears, Leaves
  <2> QED
    BY <1>3, <2>1, <2>2, <2>3, <2>4 DEF Calling
<1>4. \A c \in Calls : TabOf[c] \in Tabs
  BY SessionAssumption
<1>5. CASE SetPassword
  BY <1>5 DEF SetPassword, Revokes
<1>6. CASE SwitchActive \/ RequestReset \/ AccessExpires
  BY <1>6 DEF SwitchActive, RequestReset, AccessExpires, Leaves
<1>7. CASE UNCHANGED vars
  BY <1>7 DEF vars, Leaves
<1> QED
  BY <1>1, <1>2, <1>3, <1>4, <1>5, <1>6, <1>7 DEF Next

-----------------------------------------------------------------------------
(* A session that was ended stays ended *)

LEMMA StepQuenched ==
    ASSUME TypeOK, Quenched, [Next]_vars
    PROVE  Quenched'
<1> USE DEF Quenched, Refreshing, pairs
<1>1. ASSUME NEW t \in Tabs, Login(t)
      PROVE  Quenched'
  BY <1>1 DEF Login
<1>2. ASSUME NEW t \in Tabs, Begins(t)
      PROVE  Quenched'
  BY <1>2 DEF Begins, Starts, TypeOK, NoTokens
<1>3. ASSUME NEW t \in Tabs, Exchanges(t)
      PROVE  Quenched'
  <2>1. CASE RefreshRead(t)
    BY <1>3, <2>1 DEF RefreshRead, history, tokens, TypeOK
  <2>2. CASE RefreshRevoke(t)
    BY <1>3, <2>2 DEF RefreshRevoke, Exchanged, TypeOK
  <2>3. CASE RefreshIssue(t)
    BY <1>3, <2>3 DEF RefreshIssue, history, TypeOK
  <2>4. CASE TakeRefresh(t)
    BY <1>3, <2>4 DEF TakeRefresh, NoRefresh, Cleared, history, tokens, TypeOK
  <2>5. CASE LoseRefresh(t)
    BY <1>3, <2>5 DEF LoseRefresh, NoRefresh, tokens, TypeOK
  <2> QED
    BY <1>3, <2>1, <2>2, <2>3, <2>4, <2>5 DEF Exchanges
<1>4. CASE Clears
  BY <1>4 DEF Clears, TypeOK
<1>5. CASE Revokes
  BY <1>5 DEF Revokes, RevokeAll, TypeOK
<1>6. CASE Leaves
  BY <1>6 DEF Leaves
<1> QED
  BY <1>1, <1>2, <1>3, <1>4, <1>5, <1>6, Kinds

-----------------------------------------------------------------------------
(* A tab is not refused what it has not spent *)

LEMMA StepFutureUnspent ==
    ASSUME IInv, [Next]_vars
    PROVE  FutureUnspent'
<1> USE DEF IInv, FutureUnspent, pairs
<1>1. ASSUME NEW t \in Tabs, Login(t)
      PROVE  FutureUnspent'
  BY <1>1, IssuesTyped DEF Login, Pairs
<1>2. ASSUME NEW t \in Tabs, Exchanges(t)
      PROVE  FutureUnspent'
  <2>1. CASE RefreshRead(t) \/ TakeRefresh(t) \/ LoseRefresh(t)
    BY <2>1 DEF RefreshRead, TakeRefresh, LoseRefresh, tokens, history
  <2>2. CASE RefreshRevoke(t)
    BY <2>2 DEF RefreshRevoke, TypeOK
  <2>3. CASE RefreshIssue(t)
    BY <2>3, IssuesTyped DEF RefreshIssue, Pairs, history
  <2> QED
    BY <1>2, <2>1, <2>2, <2>3 DEF Exchanges
<1>3. CASE (\E t \in Tabs : Begins(t)) \/ Clears \/ Revokes \/ Leaves
  BY <1>3 DEF Begins, Clears, Revokes, Leaves
<1> QED
  BY <1>1, <1>2, <1>3, Kinds

LEMMA StepAnswersAreNew ==
    ASSUME IInv, [Next]_vars
    PROVE  AnswersAreNew' /\ AsksWithToken'
<1> USE DEF IInv, AnswersAreNew, AsksWithToken, pairs
<1>1. ASSUME NEW t \in Tabs, Login(t)
      PROVE  AnswersAreNew' /\ AsksWithToken'
  BY <1>1, IssuesTyped DEF Login, TypeOK
<1>2. ASSUME NEW t \in Tabs, Begins(t)
      PROVE  AnswersAreNew' /\ AsksWithToken'
  BY <1>2 DEF Begins, Starts, TypeOK
<1>3. ASSUME NEW t \in Tabs, Exchanges(t)
      PROVE  AnswersAreNew' /\ AsksWithToken'
  <2>1. CASE RefreshRead(t)
    BY <1>3, <2>1 DEF RefreshRead, history, tokens, TypeOK
  <2>2. CASE RefreshRevoke(t)
    BY <1>3, <2>2 DEF RefreshRevoke, TypeOK
  <2>3. CASE RefreshIssue(t)
    BY <1>3, <2>3, IssuesTyped DEF RefreshIssue, FutureUnspent, history, TypeOK
  <2>4. CASE TakeRefresh(t)
    BY <1>3, <2>4 DEF TakeRefresh, NoRefresh, NoTokens, Cleared, history, tokens, TypeOK
  <2>5. CASE LoseRefresh(t)
    BY <1>3, <2>5 DEF LoseRefresh, NoRefresh, tokens, TypeOK
  <2> QED
    BY <1>3, <2>1, <2>2, <2>3, <2>4, <2>5 DEF Exchanges
<1>4. CASE Clears
  BY <1>4 DEF Clears, NoTokens
<1>5. CASE Revokes \/ Leaves
  BY <1>5 DEF Revokes, Leaves
<1> QED
  BY <1>1, <1>2, <1>3, <1>4, <1>5, Kinds

LEMMA StepNotSpentHere ==
    ASSUME IInv, [Next]_vars
    PROVE  NotSpentHere'
<1> USE DEF IInv, NotSpentHere, pairs
<1>1. ASSUME NEW t \in Tabs, Login(t)
      PROVE  NotSpentHere'
  BY <1>1, IssuesTyped, SessionAssumption DEF Login, FutureUnspent, TypeOK
<1>2. ASSUME NEW t \in Tabs, Begins(t)
      PROVE  NotSpentHere'
  BY <1>2 DEF Begins, Starts, TypeOK
<1>3. ASSUME NEW t \in Tabs, Exchanges(t)
      PROVE  NotSpentHere'
  <2>1. CASE RefreshRead(t)
    BY <1>3, <2>1 DEF RefreshRead, history, tokens, TypeOK
  <2>2. CASE RefreshRevoke(t)
    BY <1>3, <2>2 DEF RefreshRevoke, AsksWithToken, TypeOK, Pairs
  <2>3. CASE RefreshIssue(t)
    BY <1>3, <2>3 DEF RefreshIssue, history, TypeOK
  <2>4. CASE TakeRefresh(t)
    BY <1>3, <2>4, SessionAssumption
       DEF TakeRefresh, AnswersAreNew, NoRefresh, NoTokens, Cleared, history, tokens, TypeOK
  <2>5. CASE LoseRefresh(t)
    BY <1>3, <2>5, SessionAssumption DEF LoseRefresh, NoRefresh, tokens, TypeOK, Pairs
  <2> QED
    BY <1>3, <2>1, <2>2, <2>3, <2>4, <2>5 DEF Exchanges
<1>4. CASE Clears
  BY <1>4 DEF Clears, NoTokens
<1>5. CASE Revokes \/ Leaves
  BY <1>5 DEF Revokes, Leaves
<1> QED
  BY <1>1, <1>2, <1>3, <1>4, <1>5, Kinds

-----------------------------------------------------------------------------
\* The invariant holds of every state the sessions reach.
THEOREM SessionInvariance == Spec => []IInv
<1>1. IInv /\ [Next]_vars => IInv'
  BY StepTyped, StepQuenched, StepFutureUnspent, StepAnswersAreNew, StepNotSpentHere DEF IInv
<1> QED
  BY InitIInv, <1>1, PTL DEF Spec

\* The variables have their types, and only tokens that were issued are live,
\* stored or carried by a request.
THEOREM SessionTypes == Spec => []TypeOK
<1>1. IInv => TypeOK
  BY DEF IInv
<1> QED
  BY SessionInvariance, <1>1, PTL

\* A refresh token that a tab is refused was not exchanged by this very tab
\* with an answer (api.js: the calls of a tab share one refresh).
THEOREM NotRefusedByItself == Spec => []NotByItself
<1>1. IInv => NotByItself
  BY DEF IInv, NotSpentHere, NotByItself
<1> QED
  BY SessionInvariance, <1>1, PTL

\* A session that was ended with no refresh under way stays ended until
\* somebody signs in.
THEOREM EndedForGood == Spec => []EndedStaysEnded
<1>1. IInv => EndedStaysEnded
  BY DEF IInv, Quenched, EndedStaysEnded
<1> QED
  BY SessionInvariance, <1>1, PTL

=============================================================================

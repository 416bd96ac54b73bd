---------------------- MODULE CreditTransactionsProofs ----------------------
(***************************************************************************)
(* However many requests there are and however they interleave, the        *)
(* balance of an organization stays between zero, what the ledger has      *)
(* taken and what it has given.                                            *)
(*                                                                         *)
(* The invariants are not inductive: a balance in bounds says nothing of   *)
(* the stale balances the open transactions are about to write.            *)
(* PendingWithin says the same of those.  It is stable because a commit    *)
(* only widens the bounds.                                                 *)
(***************************************************************************)
EXTENDS CreditTransactions, TLAPS

Writing == {"read", "updated", "marked"}

\* what an open transaction has read is in bounds, and what it will write is
\* not negative
PendingWithin ==
    \A r \in Requests : pc[r] \in Writing =>
        /\ seen[r] + Change(r) >= 0
        /\ InitialCredits - ledger.out <= seen[r] /\ seen[r] <= InitialCredits + ledger.in

IInv == TypeOK /\ NeverNegative /\ WithinLedger /\ PendingWithin

LEMMA ChangeTyped == \A r \in Requests : Change(r) \in Int
<1> SUFFICES ASSUME NEW r \in Requests PROVE Change(r) \in Int
  OBVIOUS
<1>1. Job[r] \in Jobs
  BY CreditAssumption
<1>2. CASE Job[r] \in [op : {"generate"}]
  BY <1>2 DEF Change, Op
<1>3. CASE Job[r] \in [op : {"approve", "reject"}, of : Purchases]
  <2>1. Job[r].of \in Purchases /\ CreditsTotal[Job[r].of] \in Int
    BY <1>3, CreditAssumption
  <2> QED
    BY <1>3, <2>1 DEF Change, Op
<1>4. CASE Job[r] \in [op : {"adjust"}, delta : Int]
  BY <1>4 DEF Change, Op
<1> QED
  BY <1>1, <1>2, <1>3, <1>4 DEF Jobs

LEMMA PurchaseOf ==
    ASSUME NEW r \in Requests, Op(r) \in {"approve", "reject"}
    PROVE  Job[r].of \in Purchases
<1>1. Job[r] \in Jobs
  BY CreditAssumption
<1> QED
  BY <1>1 DEF Jobs, Op

\* a request that reads the credits writes a balance that is not negative
LEMMA EnoughIsEnough ==
    ASSUME NEW r \in Requests, credits \in Int, credits >= 0, Enough(r),
           Op(r) \in {"generate", "adjust", "approve"}
    PROVE  credits + Change(r) >= 0
<1>1. CASE Op(r) = "generate"
  BY <1>1 DEF Enough, Change
<1>2. CASE Op(r) = "adjust"
  BY <1>2 DEF Enough
<1>3. CASE Op(r) = "approve"
  <2>1. CreditsTotal[Job[r].of] \in Nat
    BY <1>3, PurchaseOf, CreditAssumption
  <2> QED
    BY <1>3, <2>1 DEF Change
<1> QED
  BY <1>1, <1>2, <1>3

-----------------------------------------------------------------------------
(* Types *)

LEMMA AnswersTyped ==
    ASSUME TypeOK, NEW r \in Requests, NEW word \in {"ok", "refused", "failed"}, Answers(r, word)
    PROVE  /\ pc' \in [Requests -> {"start", "checked", "read", "updated", "marked", "done"}]
           /\ answer' \in [Requests -> {"none", "ok", "refused", "failed"}]
BY DEF TypeOK, Answers

LEMMA GoesToTyped ==
    ASSUME TypeOK, NEW r \in Requests, NEW place \in {"checked", "read", "updated", "marked"},
           GoesTo(r, place)
    PROVE  /\ pc' \in [Requests -> {"start", "checked", "read", "updated", "marked", "done"}]
           /\ answer' \in [Requests -> {"none", "ok", "refused", "failed"}]
BY DEF TypeOK, GoesTo

LEMMA UnlockTyped ==
    ASSUME TypeOK, NEW r \in Requests, Unlock(r)
    PROVE  /\ licenseLock' \in Requests \cup {NoRequest}
           /\ purchaseLock' \in [Purchases -> Requests \cup {NoRequest}]
BY DEF TypeOK, Unlock

LEMMA InitIInv == Init => IInv
BY CreditAssumption
   DEF Init, IInv, TypeOK, NeverNegative, WithinLedger, PendingWithin, Writing

LEMMA StepTypeOK ==
    ASSUME TypeOK, NEW r \in Requests, Step(r) \/ Abort(r)
    PROVE  TypeOK'
<1>1. CASE CheckPending(r)
  BY <1>1, AnswersTyped, GoesToTyped DEF CheckPending, TypeOK, rows, locks
<1>2. CASE ReadCredits(r)
  BY <1>2, AnswersTyped, GoesToTyped DEF ReadCredits, TypeOK, rows, locks
<1>3. CASE UpdateLicense(r)
  BY <1>3, GoesToTyped DEF UpdateLicense, TypeOK, rows
<1>4. CASE MarkApproved(r)
  BY <1>4, GoesToTyped DEF MarkApproved, TypeOK, rows
<1>5. CASE Commit(r)
  <2>1. Change(r) \in Int
    BY ChangeTyped
  <2>2. credits' \in Int
    BY <1>5, <2>1 DEF Commit, TypeOK
  <2>3. ledger' \in [in : Nat, out : Nat]
    BY <1>5, <2>1 DEF Commit, WriteLedger, Gain, Loss, TypeOK
  <2>4. /\ status' \in [Purchases -> {"pending", "approved", "rejected"}]
        /\ grants' \in [Purchases -> Nat]
    BY <1>5, PurchaseOf DEF Commit, TypeOK
  <2>5. runs' \subseteq Requests /\ seen' = seen
    BY <1>5 DEF Commit, TypeOK
  <2> QED
    BY <1>5, <2>2, <2>3, <2>4, <2>5, AnswersTyped, UnlockTyped DEF Commit, TypeOK
<1>6. CASE MarkRejected(r)
  BY <1>6, AnswersTyped DEF MarkRejected, TypeOK, locks
<1>7. CASE Abort(r)
  BY <1>7, AnswersTyped, UnlockTyped DEF Abort, TypeOK, rows
<1> QED
  BY <1>1, <1>2, <1>3, <1>4, <1>5, <1>6, <1>7 DEF Step

-----------------------------------------------------------------------------
(* Bounds *)

\* a step that leaves the rows and what was read alone, and starts no writing
LEMMA QuietStep ==
    ASSUME IInv, NEW r \in Requests, UNCHANGED <<credits, ledger, seen>>,
           NEW place, pc' = [pc EXCEPT ![r] = place],
           place \in Writing => pc[r] \in Writing
    PROVE  (NeverNegative /\ WithinLedger /\ PendingWithin)'
<1>1. \A q \in Requests : pc'[q] \in Writing => pc[q] \in Writing
  BY DEF IInv, TypeOK
<1>2. PendingWithin'
  BY <1>1 DEF IInv, PendingWithin, Change, Op
<1> QED
  BY <1>2 DEF IInv, NeverNegative, WithinLedger

LEMMA ReadBounds ==
    ASSUME IInv, NEW r \in Requests, ReadCredits(r)
    PROVE  (NeverNegative /\ WithinLedger /\ PendingWithin)'
<1>1. CASE ~ Enough(r)
  BY <1>1, QuietStep DEF ReadCredits, Answers, rows, Writing
<1>2. CASE Enough(r)
  <2>1. credits + Change(r) >= 0
    BY <1>2, EnoughIsEnough DEF ReadCredits, IInv, TypeOK, NeverNegative
  <2>2. /\ seen' = [seen EXCEPT ![r] = credits] /\ pc' = [pc EXCEPT ![r] = "read"]
        /\ UNCHANGED <<credits, ledger>>
    BY <1>2 DEF ReadCredits, GoesTo, rows
  <2>3. PendingWithin'
    BY <2>1, <2>2 DEF IInv, TypeOK, PendingWithin, WithinLedger, Change, Op
  <2> QED
    BY <2>2, <2>3 DEF IInv, NeverNegative, WithinLedger
<1> QED
  BY <1>1, <1>2

LEMMA CommitBounds ==
    ASSUME IInv, NEW r \in Requests, Commit(r)
    PROVE  (NeverNegative /\ WithinLedger /\ PendingWithin)'
<1> DEFINE n == Change(r)
<1>1. n \in Int /\ seen[r] \in Int /\ credits \in Int /\ InitialCredits \in Int
      /\ ledger.in \in Nat /\ ledger.out \in Nat
  BY ChangeTyped, CreditAssumption DEF IInv, TypeOK
<1>2. /\ seen[r] + n >= 0
      /\ InitialCredits - ledger.out <= seen[r] /\ seen[r] <= InitialCredits + ledger.in
  BY DEF IInv, PendingWithin, Commit, Writing
<1>3. /\ credits' = seen[r] + n
      /\ ledger'.in = ledger.in + Gain(n) /\ ledger'.out = ledger.out + Loss(n)
  BY DEF Commit, WriteLedger
<1>4. Gain(n) \in Nat /\ Loss(n) \in Nat /\ n <= Gain(n) /\ -Loss(n) <= n
  BY <1>1 DEF Gain, Loss
<1> HIDE DEF n
<1>5. NeverNegative'
  BY <1>2, <1>3 DEF NeverNegative
<1>6. WithinLedger'
  BY <1>1, <1>2, <1>3, <1>4 DEF WithinLedger
<1>7. ASSUME NEW q \in Requests, pc'[q] \in Writing
      PROVE  /\ (seen[q] + Change(q) >= 0)'
             /\ (InitialCredits - ledger.out <= seen[q])'
             /\ (seen[q] <= InitialCredits + ledger.in)'
  <2>1. pc[q] \in Writing /\ seen' = seen
    BY <1>7 DEF IInv, TypeOK, Commit, Answers, Writing
  <2>2. /\ seen[q] + Change(q) >= 0 /\ seen[q] \in Int
        /\ InitialCredits - ledger.out <= seen[q] /\ seen[q] <= InitialCredits + ledger.in
    BY <2>1 DEF IInv, TypeOK, PendingWithin
  <2>3. /\ InitialCredits - ledger'.out <= seen[q] /\ seen[q] <= InitialCredits + ledger'.in
    BY <1>1, <1>3, <1>4, <2>2
  <2> QED
    BY <2>1, <2>2, <2>3 DEF Change, Op
<1>8. PendingWithin'
  BY <1>7 DEF PendingWithin
<1> QED
  BY <1>5, <1>6, <1>8

LEMMA StepBounds ==
    ASSUME IInv, NEW r \in Requests, Step(r) \/ Abort(r)
    PROVE  (NeverNegative /\ WithinLedger /\ PendingWithin)'
<1>1. CASE CheckPending(r)
  BY <1>1, QuietStep DEF CheckPending, Answers, GoesTo, rows, Writing
<1>2. CASE UpdateLicense(r)
  BY <1>2, QuietStep DEF UpdateLicense, GoesTo, rows, Writing
<1>3. CASE MarkApproved(r)
  BY <1>3, QuietStep DEF MarkApproved, GoesTo, rows, Writing
<1>4. CASE MarkRejected(r)
  BY <1>4, QuietStep DEF MarkRejected, Answers, Writing
<1>5. CASE Abort(r)
  BY <1>5, QuietStep DEF Abort, Answers, rows, Writing
<1> QED
  BY <1>1, <1>2, <1>3, <1>4, <1>5, ReadBounds, CommitBounds DEF Step

-----------------------------------------------------------------------------

LEMMA NextIInv == IInv /\ [Next]_vars => IInv'
<1> SUFFICES ASSUME IInv, [Next]_vars PROVE IInv'
  OBVIOUS
<1>1. ASSUME NEW r \in Requests, Step(r) \/ Abort(r) PROVE IInv'
  BY <1>1, StepTypeOK, StepBounds DEF IInv
<1>2. CASE UNCHANGED vars
  BY <1>2 DEF IInv, TypeOK, NeverNegative, WithinLedger, PendingWithin, Change, Op,
              vars, rows, locks
<1> QED
  BY <1>1, <1>2 DEF Next, AllAnswered

(* In every reachable state the balance, and every balance an open         *)
(* transaction is about to write, is in bounds.                            *)
THEOREM CreditInvariance == Spec => []IInv
<1> QED
  BY InitIInv, NextIInv, PTL DEF Spec

(* The rows and the requests keep their types.                             *)
THEOREM CreditTypes == Spec => []TypeOK
<1>1. IInv => TypeOK
  BY DEF IInv
<1> QED
  BY <1>1, CreditInvariance, PTL

(* No interleaving of generations, approvals, rejections, adjustments and  *)
(* failures makes the balance of an organization negative.                 *)
THEOREM CreditsNeverNegative == Spec => []NeverNegative
<1>1. IInv => NeverNegative
  BY DEF IInv
<1> QED
  BY <1>1, CreditInvariance, PTL

(* The balance stays within what the ledger has taken and given, lost      *)
(* updates included.                                                       *)
THEOREM CreditsWithinLedger == Spec => []WithinLedger
<1>1. IInv => WithinLedger
  BY DEF IInv
<1> QED
  BY <1>1, CreditInvariance, PTL
=============================================================================

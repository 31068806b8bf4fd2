---------------------- MODULE PayoutTransactionsProofs ----------------------
(***************************************************************************)
(* Proofs about PayoutTransactions, for any number of concurrent sessions  *)
(* and any number of decisions, and about ChatLogClaims, the logs a bounty *)
(* is paid against, for any proofs, packages, readers and deliveries.      *)
(*                                                                         *)
(* ChatLogClaims.  What one step can do to a claim, a proof, a page and a  *)
(* delivery is stated once (Moves) and shown of every action               *)
(* (EachStepMoves); that the invariant is kept, that a delivery that ended *)
(* stays so and that forfeited logs hold no bounty follow from it.  The    *)
(* argument is one of numbers: a version of a claim is one package, one    *)
(* status and one binding (ClaimsAreNumbered), and a decision a licence    *)
(* lost is never again the newest (LatestAfterRuling).                     *)
(***************************************************************************)
EXTENDS PayoutTransactions, ChatLogClaims,
        FiniteSetTheorems, WellFoundedInduction, TLAPS

\* The reward column never contradicts the binding decision.
RewardFollowsDecision == reward = "INELIGIBLE" <=> ~Approved

\* Between two of its statements only a withdrawal looking for payouts holds the
\* submission's row lock.
SubmissionLockInv == \A t \in Txns : subLock = t <=> txn[t].at = "LockEventAgain"

\* A transaction that will append a decision has room for it: a caller's named
\* decision is not the last one the bound admits, and under the lock the chain does
\* not grow.
RoomInv ==
    \A t \in Txns :
        /\ txn[t].kind \in {"CorrectUp", "CorrectDown", "Cancel"} => txn[t].decision < MaxDecisions
        /\ txn[t].at = "LockEventAgain" => Current < MaxDecisions /\ txn[t].kind \in Withdrawals

\* A paid submission has its obligation.
PaidInv == reward = "REWARDED" => event # "None"

OwedInv == ChatLogsPolicy => OwedOnlyIfApproved

IInv ==
    /\ TypeOK
    /\ DecisionsFormAChain
    /\ SubmissionLockInv /\ RoomInv
    /\ RewardFollowsDecision /\ PaidInv /\ OwedInv

-----------------------------------------------------------------------------
(* The pieces steps are made of.                                           *)

DataTypeOK ==
    /\ decisions \in Seq([outcome : {"APPROVED", "REJECTED"}, supersedes : 0..MaxDecisions])
    /\ Len(decisions) \in 1..MaxDecisions
    /\ reward \in {"INELIGIBLE", "ELIGIBLE", "REWARDED"}
    /\ evidence \in EvidenceStates
    /\ boundTo \in 0..MaxDecisions /\ version \in 0..MaxVersion
    /\ event \in {"None", "PENDING", "SUBMITTED", "CONFIRMED"}
    /\ cancelled \in BOOLEAN /\ recorded \in BOOLEAN
    /\ delivery \in {"None", "PENDING", "SENDING", "SENT", "FAILED"}

TxnTypeOK ==
    /\ txn \in [Txns -> Txn]
    /\ subLock \in Txns \cup {Nobody} /\ eventLock \in Txns \cup {Nobody}

LEMMA TypeParts == TypeOK <=> DataTypeOK /\ TxnTypeOK
  BY DEF TypeOK, DataTypeOK, TxnTypeOK

LEMMA IdleIsNowhere == Idle.at = "Idle" /\ Idle.kind = "None"
  BY DEF Idle

\* An open transaction is a record of the right type.
LEMMA OpenIsTyped ==
  ASSUME TxnTypeOK, NEW t \in Txns, txn[t].at # "Idle"
  PROVE  /\ txn[t] \in [kind : Kinds, at : Places, decision : 1..MaxDecisions, version : 0..MaxVersion]
         /\ txn[t] # Idle
  BY IdleIsNowhere DEF TxnTypeOK, Txn

\* Ending releases the locks; if the step appended a decision, nobody else held the
\* submission.
LEMMA EndEffect ==
  ASSUME TxnTypeOK, SubmissionLockInv, RoomInv, NEW t \in Txns, End(t),
         Current' = Current \/ subLock \in {Nobody, t}
  PROVE  TxnTypeOK' /\ SubmissionLockInv' /\ RoomInv'
  <1>1. txn'[t] = Idle /\ \A u \in Txns \ {t} : txn'[u] = txn[u]
    BY DEF TxnTypeOK, End
  <1>2. TxnTypeOK'
    BY <1>1 DEF TxnTypeOK, End, Txn
  <1>3. SubmissionLockInv'
    BY <1>1, IdleIsNowhere, TransactionConstants DEF SubmissionLockInv, End, TxnTypeOK
  <1>4. ASSUME NEW u \in Txns \ {t}, txn[u].at = "LockEventAgain" PROVE Current' = Current
    BY <1>4, TransactionConstants DEF SubmissionLockInv
  <1>5. RoomInv'
    BY <1>1, <1>4, IdleIsNowhere DEF RoomInv
  <1> QED
    BY <1>2, <1>3, <1>5

\* A statement that neither locks nor releases the submission moves its transaction.
LEMMA MoveEffect ==
  ASSUME TxnTypeOK, SubmissionLockInv, RoomInv, NEW t \in Txns, NEW place \in Places,
         txn[t].at \in Places \ {"LockEventAgain"}, place # "LockEventAgain",
         MoveTo(t, place), subLock' = subLock, eventLock' \in {eventLock, t},
         Current' = Current
  PROVE  TxnTypeOK' /\ SubmissionLockInv' /\ RoomInv'
  <1>1. txn[t] \in [kind : Kinds, at : Places, decision : 1..MaxDecisions, version : 0..MaxVersion]
    BY OpenIsTyped DEF Places
  <1>2. /\ txn'[t] \in [kind : Kinds, at : Places, decision : 1..MaxDecisions, version : 0..MaxVersion]
        /\ txn'[t].at = place /\ txn'[t].kind = txn[t].kind
        /\ txn'[t].decision = txn[t].decision
        /\ \A u \in Txns \ {t} : txn'[u] = txn[u]
    BY <1>1 DEF TxnTypeOK, MoveTo
  <1>3. TxnTypeOK'
    BY <1>2 DEF TxnTypeOK, MoveTo, Txn
  <1>4. SubmissionLockInv'
    BY <1>2 DEF SubmissionLockInv
  <1>5. RoomInv'
    BY <1>2 DEF RoomInv
  <1> QED
    BY <1>3, <1>4, <1>5

\* Opening a transaction; a correction or a cancellation leaves room for a decision.
LEMMA BeginEffect ==
  ASSUME TypeOK, SubmissionLockInv, RoomInv, NEW t \in Txns, NEW kind \in Kinds,
         NEW place \in Places \ {"LockEventAgain"}, Begin(t, kind, place),
         kind \in {"CorrectUp", "CorrectDown", "Cancel"} => Current < MaxDecisions
  PROVE  TxnTypeOK' /\ SubmissionLockInv' /\ RoomInv'
  <1>1. /\ txn[t] = Idle /\ Current' = Current /\ subLock' = subLock /\ eventLock' = eventLock
        /\ txn' = [txn EXCEPT ![t] = [kind |-> kind, at |-> place,
                                      decision |-> Current, version |-> version]]
    BY DEF Begin, reviewVars, Current
  <1>2. Current \in 1..MaxDecisions /\ version \in 0..MaxVersion /\ TxnTypeOK
    BY DEF TypeOK, Current, TxnTypeOK
  <1>3. /\ txn'[t] \in [kind : Kinds, at : Places, decision : 1..MaxDecisions, version : 0..MaxVersion]
        /\ txn'[t].at = place /\ txn'[t].kind = kind /\ txn'[t].decision = Current
        /\ \A u \in Txns \ {t} : txn'[u] = txn[u]
    BY <1>1, <1>2 DEF TxnTypeOK
  <1>4. TxnTypeOK'
    BY <1>1, <1>2, <1>3 DEF TxnTypeOK, Txn
  <1>5. SubmissionLockInv'
    BY <1>1, <1>3, IdleIsNowhere DEF SubmissionLockInv
  <1>6. RoomInv'
    BY <1>1, <1>3 DEF RoomInv
  <1> QED
    BY <1>4, <1>5, <1>6

\* Appending the decision that supersedes the current one keeps the chain.
LEMMA SupersedeEffect ==
  ASSUME TypeOK, DecisionsFormAChain, Current < MaxDecisions,
         NEW outcome \in {"APPROVED", "REJECTED"}, Supersede(outcome, Current)
  PROVE  /\ decisions' \in Seq([outcome : {"APPROVED", "REJECTED"}, supersedes : 0..MaxDecisions])
         /\ Current' = Current + 1 /\ Current' \in 1..MaxDecisions
         /\ DecisionsFormAChain'
         /\ Approved' <=> outcome = "APPROVED"
  <1> DEFINE D == [outcome : {"APPROVED", "REJECTED"}, supersedes : 0..MaxDecisions]
             d == [outcome |-> outcome, supersedes |-> Current]
  <1>1. decisions \in Seq(D) /\ Len(decisions) \in 1..MaxDecisions /\ Current = Len(decisions)
    BY DEF TypeOK, Current
  <1>2. d \in D
    BY <1>1, TransactionConstants
  <1>3. decisions' = Append(decisions, d)
    BY DEF Supersede
  <1>4. decisions' \in Seq(D)
    BY <1>1, <1>2, <1>3
  <1>5. Len(decisions') = Len(decisions) + 1
    BY <1>1, <1>2, <1>3
  <1>6. Current' = Current + 1 /\ Current' \in 1..MaxDecisions
    BY <1>1, <1>5, TransactionConstants DEF Current
  <1>7. decisions'[Current'] = d /\ \A i \in 1..Current : decisions'[i] = decisions[i]
    BY <1>1, <1>2, <1>3, <1>6
  <1>8. DecisionsFormAChain'
    BY <1>1, <1>6, <1>7 DEF DecisionsFormAChain
  <1>9. Approved' <=> outcome = "APPROVED"
    BY <1>7 DEF Approved
  <1> QED
    BY <1>4, <1>6, <1>8, <1>9

\* A step that touches neither the decision, the reward nor the obligation.
LEMMA QuietStep ==
  ASSUME IInv, UNCHANGED <<decisions, reward, event, cancelled>>,
         evidence' \in EvidenceStates,
         boundTo' \in 0..MaxDecisions, version' \in 0..MaxVersion, recorded' \in BOOLEAN,
         delivery' \in {"None", "PENDING", "SENDING", "SENT", "FAILED"},
         TxnTypeOK', SubmissionLockInv', RoomInv'
  PROVE  IInv'
  <1>1. DataTypeOK'
    BY TypeParts DEF IInv, DataTypeOK
  <1>2. TypeOK'
    BY <1>1 DEF TypeOK, DataTypeOK, TxnTypeOK
  <1>3. Current' = Current /\ (Approved' <=> Approved)
    BY DEF Current, Approved
  <1>4. DecisionsFormAChain' /\ RewardFollowsDecision' /\ PaidInv' /\ OwedInv'
    BY <1>3 DEF IInv, DecisionsFormAChain, RewardFollowsDecision, PaidInv, OwedInv, OwedOnlyIfApproved, Unsigned
  <1> QED
    BY <1>2, <1>4 DEF IInv

-----------------------------------------------------------------------------
(* One lemma per group of actions.                                         *)

LEMMA OpenIInv == ASSUME IInv, NEW t \in Txns, Open(t) PROVE IInv'
  <1>1. PICK kind \in Kinds, place \in Places \ {"LockEventAgain"} :
           /\ Begin(t, kind, place)
           /\ kind \in {"CorrectUp", "CorrectDown", "Cancel"} => Current < MaxDecisions
    BY Zenon DEF Open, BeginCorrection, BeginRevoke, BeginSeed, BeginNotify, BeginMark, BeginSettle,
           BeginChange, Kinds, Places
  <1>2. TxnTypeOK' /\ SubmissionLockInv' /\ RoomInv'
    BY <1>1, BeginEffect DEF IInv
  <1> QED
    BY <1>1, <1>2, QuietStep DEF Begin, reviewVars, evidenceVars, payoutVars, IInv, TypeOK

\* Statements that lock, check or give up without writing.
LEMMA LockEventIInv ==
  ASSUME IInv, NEW t \in Txns, LockEventFirst(t) \/ LockEventAlone(t) \/ LockEventForRevoke(t)
  PROVE  IInv'
  <1> USE DEF reviewVars, evidenceVars, payoutVars
  <1>0. /\ UNCHANGED <<decisions, reward, evidence, boundTo, version, event, cancelled, recorded, delivery>>
        /\ txn[t].at = "LockEvent"
        /\ \/ End(t)
           \/ /\ MoveTo(t, "LockSubmission") /\ subLock' = subLock
              /\ eventLock' \in {eventLock, t}
    BY DEF LockEventFirst, LockEventAlone, LockEventForRevoke, At
  <1>1. Current' = Current
    BY <1>0 DEF Current
  <1>2. TxnTypeOK
    BY TypeParts DEF IInv
  <1>3. TxnTypeOK' /\ SubmissionLockInv' /\ RoomInv'
    <2>1. CASE End(t)
      BY <1>1, <1>2, <2>1, EndEffect DEF IInv
    <2>2. CASE MoveTo(t, "LockSubmission") /\ subLock' = subLock /\ eventLock' \in {eventLock, t}
      BY <1>0, <1>1, <1>2, <2>2, MoveEffect DEF IInv, Places
    <2> QED
      BY <1>0, <2>1, <2>2
  <1> QED
    BY <1>0, <1>3, QuietStep DEF IInv, TypeOK

LEMMA CheckLockedAmountIInv == ASSUME IInv, NEW t \in Txns, CheckLockedAmount(t) PROVE IInv'
  <1> USE DEF reviewVars, evidenceVars, payoutVars
  <1>0. /\ UNCHANGED <<decisions, reward, evidence, boundTo, version, event, cancelled, recorded, delivery>>
        /\ txn[t].at = "CheckAmount"
        /\ End(t) \/ (MoveTo(t, "Insert") /\ subLock' = subLock /\ eventLock' = eventLock)
    BY DEF CheckLockedAmount, At
  <1>1. Current' = Current
    BY <1>0 DEF Current
  <1>2. TxnTypeOK
    BY TypeParts DEF IInv
  <1>3. TxnTypeOK' /\ SubmissionLockInv' /\ RoomInv'
    <2>1. CASE End(t)
      BY <1>1, <1>2, <2>1, EndEffect DEF IInv
    <2>2. CASE MoveTo(t, "Insert") /\ subLock' = subLock /\ eventLock' = eventLock
      BY <1>0, <1>1, <1>2, <2>2, MoveEffect DEF IInv, Places
    <2> QED
      BY <1>0, <2>1, <2>2
  <1> QED
    BY <1>0, <1>3, QuietStep DEF IInv, TypeOK

\* Transactions that end having changed at most the evidence or the delivery.
LEMMA QuietEndIInv ==
  ASSUME IInv, NEW t \in Txns, CommitRevoke(t) \/ ClaimDelivery(t) \/ DeadlockVictim(t)
  PROVE  IInv'
  <1> USE DEF reviewVars, evidenceVars, payoutVars
  <1>0. UNCHANGED <<decisions, reward, event, cancelled, recorded>> /\ End(t)
    BY DEF CommitRevoke, ClaimDelivery, DeadlockVictim
  <1>1. Current' = Current
    BY <1>0 DEF Current
  <1>2. TxnTypeOK' /\ SubmissionLockInv' /\ RoomInv'
    BY <1>0, <1>1, TypeParts, EndEffect DEF IInv
  <1>3. /\ evidence' \in EvidenceStates
        /\ boundTo' \in 0..MaxDecisions /\ version' \in 0..MaxVersion
        /\ delivery' \in {"None", "PENDING", "SENDING", "SENT", "FAILED"}
    BY TransactionConstants
       DEF CommitRevoke, ClaimDelivery, DeadlockVictim, EvidenceBecomes, EvidenceStates, IInv, TypeOK
  <1>4. recorded' \in BOOLEAN
    BY <1>0 DEF IInv, TypeOK
  <1> QED
    BY <1>0, <1>2, <1>3, <1>4, QuietStep

LEMMA ShortIInv ==
  ASSUME IInv, ApproveEvidence \/ RebindEvidence \/ ReopenEvidence
               \/ SeedDelivery \/ FinishDelivery \/ RecordTransfer
  PROVE  IInv'
  <1> USE DEF reviewVars, evidenceVars, payoutVars
  <1>0. UNCHANGED <<decisions, reward, event, cancelled, txn, subLock, eventLock>>
    BY DEF ApproveEvidence, RebindEvidence, ReopenEvidence, SeedDelivery, FinishDelivery, RecordTransfer
  <1>1. TxnTypeOK' /\ SubmissionLockInv' /\ RoomInv'
    BY <1>0, TypeParts DEF IInv, TxnTypeOK, SubmissionLockInv, RoomInv, Current
  <1>2. Current \in 0..MaxDecisions
    BY TransactionConstants DEF IInv, TypeOK, Current
  <1>3. /\ evidence' \in EvidenceStates
        /\ boundTo' \in 0..MaxDecisions /\ version' \in 0..MaxVersion
        /\ delivery' \in {"None", "PENDING", "SENDING", "SENT", "FAILED"}
    BY <1>2, TransactionConstants
       DEF ApproveEvidence, RebindEvidence, ReopenEvidence, SeedDelivery, FinishDelivery,
           RecordTransfer, EvidenceBecomes, EvidenceStates, IInv, TypeOK
  <1>4. recorded' \in BOOLEAN
    BY Zenon DEF ApproveEvidence, RebindEvidence, ReopenEvidence, SeedDelivery, FinishDelivery,
           RecordTransfer, IInv, TypeOK
  <1> QED
    BY <1>0, <1>1, <1>3, <1>4, QuietStep

\* Writes to the obligation under the submission's lock, with the decision unchanged.
LEMMA ObligationStep ==
  ASSUME IInv, NEW t \in Txns, End(t), UNCHANGED <<decisions, evidenceVars, recorded, delivery>>,
         reward' \in {reward, "REWARDED"}, event' \in {"None", "PENDING", "SUBMITTED", "CONFIRMED"},
         cancelled' \in BOOLEAN, event' = "None" => event = "None" /\ reward' = reward,
         Approved \/ UNCHANGED <<reward, event, cancelled>> \/ (event = "None" /\ ~ChatLogsPolicy /\ UNCHANGED <<reward, cancelled>>)
  PROVE  IInv'
  <1>1. Current' = Current /\ (Approved' <=> Approved)
    BY DEF Current, Approved
  <1>2. TxnTypeOK' /\ SubmissionLockInv' /\ RoomInv'
    BY <1>1, TypeParts, EndEffect DEF IInv
  <1>3. TypeOK'
    BY <1>2 DEF IInv, TypeOK, TxnTypeOK, evidenceVars
  <1>4. DecisionsFormAChain'
    BY <1>1 DEF IInv, DecisionsFormAChain
  <1>5. RewardFollowsDecision'
    BY <1>1 DEF IInv, RewardFollowsDecision
  <1>6. OwedInv'
    BY <1>1, <1>5 DEF IInv, OwedInv, OwedOnlyIfApproved, Unsigned, RewardFollowsDecision
  <1>7. PaidInv'
    BY DEF IInv, PaidInv
  <1> QED
    BY <1>2, <1>3, <1>4, <1>5, <1>6, <1>7 DEF IInv

LEMMA ObligationIInv ==
  ASSUME IInv, NEW t \in Txns,
         InsertReward(t) \/ CommitMark(t) \/ CommitSettle(t) \/ CommitRestore(t)
  PROVE  IInv'
  <1> USE DEF reviewVars
  <1>1. CASE InsertReward(t)
    <2>1. Eligible /\ ChatLogsPolicy => Approved
      BY DEF Eligible
    <2> QED
      BY <1>1, <2>1, ObligationStep DEF InsertReward, IInv, TypeOK
  <1>2. CASE CommitMark(t)
    <2>1. reward = "ELIGIBLE" => Approved
      BY DEF IInv, RewardFollowsDecision
    <2> QED
      BY <1>2, <2>1, ObligationStep DEF CommitMark, IInv, TypeOK
  <1>3. CASE CommitSettle(t)
    <2>1. reward # "INELIGIBLE" => Approved
      BY DEF IInv, RewardFollowsDecision
    <2> QED
      BY <1>3, <2>1, ObligationStep DEF CommitSettle, IInv, TypeOK
  <1>4. CASE CommitRestore(t)
    <2>1. cancelled' # cancelled => Approved
      BY <1>4 DEF CommitRestore, Changeable
    <2> QED
      BY <1>4, <2>1, ObligationStep DEF CommitRestore, IInv, TypeOK
  <1> QED
    BY <1>1, <1>2, <1>3, <1>4

LEMMA RevertIInv == ASSUME IInv, RevertSubmitted PROVE IInv'
  <1> USE DEF reviewVars, evidenceVars
  <1>0. /\ UNCHANGED <<decisions, reward, evidence, boundTo, version, cancelled, recorded, delivery>>
        /\ UNCHANGED <<txn, subLock, eventLock>>
        /\ event = "SUBMITTED" /\ event' = "PENDING"
    BY DEF RevertSubmitted
  <1>1. Current' = Current /\ (Approved' <=> Approved)
    BY <1>0 DEF Current, Approved
  <1>2. TypeOK'
    BY <1>0 DEF IInv, TypeOK
  <1>3. SubmissionLockInv' /\ RoomInv'
    BY <1>0, <1>1 DEF IInv, SubmissionLockInv, RoomInv
  <1>4. DecisionsFormAChain' /\ RewardFollowsDecision'
    BY <1>0, <1>1 DEF IInv, DecisionsFormAChain, RewardFollowsDecision
  <1>5. PaidInv' /\ OwedInv'
    BY <1>0, <1>1 DEF IInv, PaidInv, OwedInv, OwedOnlyIfApproved, Unsigned
  <1> QED
    BY <1>2, <1>3, <1>4, <1>5 DEF IInv

\* A transaction that appends a decision to the current one, holding the submission,
\* and leaves a rejected submission with no obligation that could be paid.
LEMMA DecisionStep ==
  ASSUME IInv, NEW t \in Txns, End(t), subLock \in {Nobody, t}, Current < MaxDecisions,
         NEW outcome \in {"APPROVED", "REJECTED"}, Supersede(outcome, Current),
         reward' = IF outcome = "APPROVED" THEN "ELIGIBLE" ELSE "INELIGIBLE",
         evidence' \in EvidenceStates,
         version' \in 0..MaxVersion, cancelled' \in BOOLEAN,
         UNCHANGED <<boundTo, event, recorded, delivery>>,
         ChatLogsPolicy /\ outcome = "REJECTED" => event = "None" \/ (Unsigned /\ cancelled')
  PROVE  IInv'
  <1>1. /\ decisions' \in Seq([outcome : {"APPROVED", "REJECTED"}, supersedes : 0..MaxDecisions])
        /\ Current' = Current + 1 /\ Current' \in 1..MaxDecisions
        /\ DecisionsFormAChain'
        /\ Approved' <=> outcome = "APPROVED"
    BY SupersedeEffect DEF IInv
  <1>2. TxnTypeOK' /\ SubmissionLockInv' /\ RoomInv'
    BY TypeParts, EndEffect DEF IInv
  <1>3. Len(decisions') \in 1..MaxDecisions
    BY <1>1 DEF Current
  <1>4. TypeOK'
    BY <1>1, <1>2, <1>3 DEF IInv, TypeOK, TxnTypeOK
  <1>5. RewardFollowsDecision'
    BY <1>1 DEF RewardFollowsDecision
  <1>6. PaidInv' /\ OwedInv'
    BY <1>1, <1>5 DEF PaidInv, OwedInv, OwedOnlyIfApproved, Unsigned, RewardFollowsDecision
  <1> QED
    BY <1>1, <1>2, <1>4, <1>5, <1>6 DEF IInv

LEMMA CorrectToApprovedIInv == ASSUME IInv, NEW t \in Txns, CorrectToApproved(t) PROVE IInv'
  <1> USE DEF reviewVars, evidenceVars, payoutVars
  <1>0. /\ End(t) /\ txn[t].kind = "CorrectUp" /\ subLock \in {Nobody, t}
        /\ UNCHANGED <<evidence, boundTo, version, event, cancelled, recorded, delivery>>
    BY DEF CorrectToApproved, At, SubmissionFree
  <1>1. CASE CorrectionStale(t)
    <2>1. UNCHANGED <<decisions, reward>>
      BY <1>1 DEF CorrectToApproved
    <2>2. Current' = Current
      BY <2>1 DEF Current
    <2>3. TxnTypeOK' /\ SubmissionLockInv' /\ RoomInv'
      BY <1>0, <2>2, TypeParts, EndEffect DEF IInv
    <2> QED
      BY <1>0, <2>1, <2>3, QuietStep DEF IInv, TypeOK
  <1>2. CASE ~CorrectionStale(t)
    <2>1. txn[t].decision = Current /\ Current < MaxDecisions
      BY <1>0, <1>2 DEF CorrectionStale, IInv, RoomInv
    <2>2. Supersede("APPROVED", Current) /\ reward' = "ELIGIBLE"
      BY <1>2, <2>1 DEF CorrectToApproved
    <2> QED
      BY <1>0, <2>1, <2>2, DecisionStep DEF IInv, TypeOK
  <1> QED
    BY <1>1, <1>2

\* Withdraw, once no payout is in its way.
LEMMA WithdrawIInv ==
  ASSUME IInv, NEW t \in Txns, Withdraw(t), UNCHANGED <<event, cancelled, recorded, delivery>>,
         subLock \in {Nobody, t}, Current < MaxDecisions,
         Approved => event = "None" \/ (Unsigned /\ cancelled)
  PROVE  IInv'
  <1> USE DEF reviewVars, evidenceVars
  <1>1. /\ evidence' \in EvidenceStates
        /\ version' \in 0..MaxVersion /\ boundTo' = boundTo /\ End(t)
    BY TransactionConstants DEF Withdraw, EvidenceBecomes, EvidenceStates, IInv, TypeOK
  <1>2. CASE UNCHANGED <<decisions, reward>>
    <2>1. Current' = Current
      BY <1>2 DEF Current
    <2>2. TxnTypeOK' /\ SubmissionLockInv' /\ RoomInv'
      BY <1>1, <2>1, TypeParts, EndEffect DEF IInv
    <2> QED
      BY <1>1, <1>2, <2>2, QuietStep DEF IInv, TypeOK
  <1>3. CASE Supersede("REJECTED", Current) /\ reward' = "INELIGIBLE"
    <2>1. ChatLogsPolicy => event = "None" \/ (Unsigned /\ cancelled)
      BY DEF IInv, OwedInv, OwedOnlyIfApproved
    <2> QED
      BY <1>1, <1>3, <2>1, DecisionStep DEF IInv, TypeOK
  <1> QED
    BY <1>2, <1>3 DEF Withdraw

\* A withdrawal that has reached the submission gives up, takes it, or is done.
LEMMA LockSubmissionForWithdrawalIInv ==
  ASSUME IInv, NEW t \in Txns, LockSubmissionForWithdrawal(t) PROVE IInv'
  <1> USE DEF reviewVars, evidenceVars, payoutVars
  <1>0. /\ txn[t].kind \in Withdrawals /\ txn[t].at = "LockSubmission" /\ subLock \in {Nobody, t}
        /\ UNCHANGED <<event, cancelled, recorded, delivery>>
    BY DEF LockSubmissionForWithdrawal, SubmissionFree
  <1>1. TxnTypeOK
    BY TypeParts DEF IInv
  <1>2. CASE End(t) /\ UNCHANGED <<reviewVars, evidenceVars>>
    <2>1. Current' = Current
      BY <1>2 DEF Current
    <2>2. TxnTypeOK' /\ SubmissionLockInv' /\ RoomInv'
      BY <1>1, <1>2, <2>1, EndEffect DEF IInv
    <2> QED
      BY <1>0, <1>2, <2>2, QuietStep DEF IInv, TypeOK
  <1>3. CASE /\ Current < MaxDecisions /\ subLock' = t /\ MoveTo(t, "LockEventAgain")
             /\ UNCHANGED <<eventLock, reviewVars, evidenceVars>>
    <2>1. Current' = Current
      BY <1>3 DEF Current
    <2>2. txn[t] \in [kind : Kinds, at : Places, decision : 1..MaxDecisions, version : 0..MaxVersion]
      BY <1>0, <1>1, OpenIsTyped
    <2>3. /\ txn'[t] \in [kind : Kinds, at : Places, decision : 1..MaxDecisions, version : 0..MaxVersion]
          /\ txn'[t].at = "LockEventAgain" /\ txn'[t].kind = txn[t].kind
          /\ txn'[t].decision = txn[t].decision
          /\ \A u \in Txns \ {t} : txn'[u] = txn[u]
      BY <1>1, <1>3, <2>2 DEF TxnTypeOK, MoveTo, Places
    <2>4. TxnTypeOK'
      BY <1>1, <1>3, <2>3 DEF TxnTypeOK, MoveTo, Txn
    <2>5. SubmissionLockInv'
      <3>1. \A u \in Txns \ {t} : subLock # u
        BY <1>0, TransactionConstants
      <3> QED
        BY <1>3, <2>3, <3>1 DEF IInv, SubmissionLockInv
    <2>6. RoomInv'
      BY <1>0, <1>3, <2>1, <2>3 DEF IInv, RoomInv
    <2> QED
      BY <1>0, <1>3, <2>4, <2>5, <2>6, QuietStep DEF IInv, TypeOK
  <1>4. CASE Current < MaxDecisions /\ ~Approved /\ Withdraw(t)
    BY <1>0, <1>4, WithdrawIInv
  <1> QED
    BY <1>2, <1>3, <1>4 DEF LockSubmissionForWithdrawal

LEMMA LookForPayoutsIInv == ASSUME IInv, NEW t \in Txns, LookForPayouts(t) PROVE IInv'
  <1> USE DEF reviewVars, evidenceVars, payoutVars
  <1>0. /\ txn[t].at = "LockEventAgain"
        /\ UNCHANGED <<event, cancelled, recorded, delivery>>
    BY DEF LookForPayouts
  <1>1. subLock = t /\ Current < MaxDecisions
    BY <1>0 DEF IInv, SubmissionLockInv, RoomInv
  <1>2. CASE BlocksWithdrawal
    <2>1. End(t) /\ UNCHANGED <<decisions, reward, evidence, boundTo, version>>
      BY <1>2 DEF LookForPayouts
    <2>2. Current' = Current
      BY <2>1 DEF Current
    <2>3. TxnTypeOK' /\ SubmissionLockInv' /\ RoomInv'
      BY <2>1, <2>2, TypeParts, EndEffect DEF IInv
    <2> QED
      BY <1>0, <2>1, <2>3, QuietStep DEF IInv, TypeOK
  <1>3. CASE ~BlocksWithdrawal
    <2>1. Withdraw(t)
      BY <1>3 DEF LookForPayouts
    <2> QED
      BY <1>0, <1>1, <1>3, <2>1, WithdrawIInv DEF BlocksWithdrawal
  <1> QED
    BY <1>2, <1>3

LEMMA CommitCancelIInv == ASSUME IInv, NEW t \in Txns, CommitCancel(t) PROVE IInv'
  <1> USE DEF reviewVars, evidenceVars
  <1>0. /\ End(t) /\ txn[t].kind = "Cancel" /\ subLock \in {Nobody, t}
        /\ UNCHANGED <<evidence, boundTo, version, event, recorded, delivery>>
    BY DEF CommitCancel, At, SubmissionFree
  <1>1. CASE Changeable(t)
    <2>1. txn[t].decision = Current /\ Current < MaxDecisions /\ Unsigned
      BY <1>0, <1>1 DEF Changeable, IInv, RoomInv
    <2>2. cancelled' = TRUE /\ Supersede("REJECTED", Current) /\ reward' = "INELIGIBLE"
      BY <1>1 DEF CommitCancel
    <2> QED
      BY <1>0, <2>1, <2>2, DecisionStep DEF IInv, TypeOK
  <1>2. CASE ~Changeable(t)
    <2>1. UNCHANGED <<decisions, reward, cancelled>>
      BY <1>2 DEF CommitCancel
    <2>2. Current' = Current
      BY <2>1 DEF Current
    <2>3. TxnTypeOK' /\ SubmissionLockInv' /\ RoomInv'
      BY <1>0, <2>2, TypeParts, EndEffect DEF IInv
    <2> QED
      BY <1>0, <2>1, <2>3, QuietStep DEF IInv, TypeOK
  <1> QED
    BY <1>1, <1>2

-----------------------------------------------------------------------------
(* The invariant and what follows from it.                                 *)

LEMMA InitIInv == ASSUME Init PROVE IInv
  <1> DEFINE D == [outcome : {"APPROVED", "REJECTED"}, supersedes : 0..MaxDecisions]
  <1>1. decisions \in Seq(D) /\ Len(decisions) = 1 /\ decisions[1] = [outcome |-> "APPROVED", supersedes |-> 0]
    BY TransactionConstants DEF Init
  <1>2. TypeOK
    <2>1. Len(decisions) \in 1..MaxDecisions
      BY <1>1, TransactionConstants
    <2>2. txn \in [Txns -> Txn]
      BY DEF Init, Txn
    <2>3. cancelled \in BOOLEAN /\ recorded \in BOOLEAN
      BY DEF Init
    <2> QED
      BY <1>1, <2>1, <2>2, <2>3, TransactionConstants DEF Init, TypeOK, EvidenceStates
  <1>3. Current = 1 /\ Approved /\ DecisionsFormAChain
    BY <1>1 DEF Current, Approved, DecisionsFormAChain
  <1>4. SubmissionLockInv /\ RoomInv
    BY IdleIsNowhere, TransactionConstants DEF Init, SubmissionLockInv, RoomInv
  <1>5. RewardFollowsDecision /\ PaidInv /\ OwedInv
    BY <1>3 DEF Init, RewardFollowsDecision, PaidInv, OwedInv, OwedOnlyIfApproved
  <1> QED
    BY <1>2, <1>3, <1>4, <1>5 DEF IInv

LEMMA NextIInv == ASSUME IInv, [Next]_vars PROVE IInv'
  <1>1. CASE \E t \in Txns : Open(t)
    BY <1>1, OpenIInv
  <1>2. ASSUME NEW t \in Txns, Proceed(t) PROVE IInv'
    BY <1>2, LockEventIInv, CorrectToApprovedIInv, LockSubmissionForWithdrawalIInv,
       LookForPayoutsIInv, CheckLockedAmountIInv, QuietEndIInv, ObligationIInv, CommitCancelIInv
       DEF Proceed
  <1>3. CASE Short
    BY <1>3, ShortIInv, RevertIInv DEF Short
  <1>4. CASE UNCHANGED vars
    <2>1. UNCHANGED <<decisions, reward, evidence, boundTo, version, event, cancelled, recorded,
                      delivery, subLock, eventLock, txn>>
      BY <1>4 DEF vars, reviewVars, evidenceVars, payoutVars
    <2>2. TxnTypeOK' /\ SubmissionLockInv' /\ RoomInv'
      BY <2>1, TypeParts DEF IInv, TxnTypeOK, SubmissionLockInv, RoomInv, Current
    <2> QED
      BY <2>1, <2>2, QuietStep DEF IInv, TypeOK
  <1> QED
    BY <1>1, <1>2, <1>3, <1>4 DEF Next

\* The inductive invariant holds in every reachable state.
THEOREM TransactionsInductive == Spec => []IInv
  BY InitIInv, NextIInv, PTL DEF Spec

\* Type correctness of the review, evidence and payout rows, the locks and the
\* transactions of correct_human_decision, the evidence router, notifier and watcher.
THEOREM TransactionsTypeOK == Spec => []TypeOK
  <1>1. IInv => TypeOK
    BY DEF IInv
  <1> QED
    BY <1>1, TransactionsInductive, PTL

\* However many reviewers correct a submission at once, its decisions form one chain:
\* correct_human_decision and change_instruction never supersede a decision twice.
THEOREM TransactionsDecisionsFormAChain == Spec => []DecisionsFormAChain
  <1>1. IInv => DecisionsFormAChain
    BY DEF IInv
  <1> QED
    BY <1>1, TransactionsInductive, PTL

\* For submissions under the chat-log policy an obligation is owed only for an
\* approved proof: the notifier's triggers, the locked re-check of a withdrawal and
\* the watcher's settlement agree on it in every interleaving.
THEOREM TransactionsOwedOnlyIfApproved == Spec => [](ChatLogsPolicy => OwedOnlyIfApproved)
  <1>1. IInv => (ChatLogsPolicy => OwedOnlyIfApproved)
    BY DEF IInv, OwedInv
  <1> QED
    BY <1>1, TransactionsInductive, PTL

\* A step that creates an obligation is the notifier's insert, and it is authorized
\* by the state it commits in.
LEMMA InsertionStep ==
  ASSUME IInv, [Next]_vars, event = "None", event' = "PENDING", ChatLogsPolicy
  PROVE  Approved /\ reward = "ELIGIBLE" /\ evidence = "APPROVED" /\ boundTo = Current
  <1> USE DEF reviewVars, evidenceVars, payoutVars
  <1>1. PICK t \in Txns : InsertReward(t)
    <2>1. event' # event
      OBVIOUS
    <2>2. ~UNCHANGED vars /\ ~ \E t \in Txns : Open(t)
      BY <2>1 DEF vars, Open, Begin, BeginCorrection, BeginRevoke, BeginSeed, BeginNotify,
                  BeginMark, BeginSettle, BeginChange
    <2>3. ~Short
      BY <2>1 DEF Short, ApproveEvidence, RebindEvidence, ReopenEvidence, SeedDelivery,
                  FinishDelivery, RecordTransfer, RevertSubmitted
    <2>4. PICK t \in Txns : Proceed(t)
      BY <2>2, <2>3 DEF Next
    <2>5. InsertReward(t)
      BY <2>1, <2>4 DEF Proceed, LockEventFirst, CorrectToApproved, LockSubmissionForWithdrawal,
                        LookForPayouts, LockEventForRevoke, CommitRevoke, CheckLockedAmount,
                        ClaimDelivery, LockEventAlone, CommitMark, CommitSettle, CommitCancel,
                        CommitRestore, DeadlockVictim
    <2> QED
      BY <2>5
  <1>2. Eligible
    BY <1>1 DEF InsertReward
  <1> QED
    BY <1>2 DEF Eligible, IInv, PaidInv

\* Every obligation the notifier creates under the chat-log policy is authorized by
\* the state its transaction commits in, whatever changed since its candidate was read.
THEOREM TransactionsInsertedIsAuthorized == Spec => InsertedIsAuthorized
  <1>1. IInv /\ [Next]_vars =>
          [(event = "None" /\ event' = "PENDING" /\ ChatLogsPolicy) =>
              Approved /\ reward = "ELIGIBLE" /\ evidence = "APPROVED" /\ boundTo = Current]_vars
    BY InsertionStep
  <1> QED
    BY <1>1, TransactionsInductive, PTL DEF Spec, InsertedIsAuthorized

-----------------------------------------------------------------------------
(* Chat-log claims, for any proofs, packages and readers.                  *)

Unlicensed == {"UNDER_REVIEW", "NEEDS_CHANGES", "EXPIRED", "REVOKED_PROOF_CHANGED"} \cup FORFEITED
ClaimStatuses == {"none", "DEPOSITED"} \cup Unlicensed \cup LICENSED
ClaimRecords == [status : ClaimStatuses, revision : Nat, version : Nat, package : Logs \cup {NoLog},
                 held : BOOLEAN, over : BOOLEAN, bound : Nat, confirmed : BOOLEAN, approvedFor : Logs \cup {NoLog}]
LogRulingRecords == [proof : LogProofs, approved : BOOLEAN, supersedes : Nat]
SeenRecords == [proof : LogProofs, version : Nat, revision : Nat, package : Logs \cup {NoLog}]

ClaimTypesOK ==
    /\ logClaims \in [LogProofs -> ClaimRecords]
    /\ logRulings \in Seq(LogRulingRecords)
    /\ views \in [LogReaders -> SeenRecords \cup {NoView}]

\* A version of a claim is one package: what a page showed is, as long as the version
\* it showed stands, what the claim still holds, and a claim that was shown never goes
\* back to a deposit, which alone may be deleted and numbered from the start.
SeenIsCurrent(v) ==
    v.proof # 0 =>
        /\ v.proof \in LogProofs /\ Submitted(v.proof)
        /\ v.version <= logClaims[v.proof].version
        /\ v.version = logClaims[v.proof].version => v.package = logClaims[v.proof].package
ViewsInv == \A r \in LogReaders : SeenIsCurrent(views[r])

\* Two accepted claims are one.
OneLicence == \A s, t \in LogProofs :
    logClaims[s].status \in LICENSED /\ logClaims[t].status \in LICENSED => s = t

ProofRecords == [verification : {"none", "PENDING", "VERIFIED", "REJECTED"},
                 review : {"UNREVIEWED", "APPROVED", "REJECTED"}, reward : {"INELIGIBLE", "ELIGIBLE"}]
DeliveryRecords == [proof : LogProofs, package : Logs \cup {NoLog}, version : Nat, accepted : BOOLEAN,
                    revoked : BOOLEAN, exported : BOOLEAN, takedown : BOOLEAN]

DeliveryTypesOK ==
    /\ proofs \in [LogProofs -> ProofRecords]
    /\ deliveries \in [Deliveries -> DeliveryRecords \cup {NoDelivery}]

\* Logs come first: a proof is not there before its deposit is bound, and the bounty is
\* what the current decision on a verified proof says.
ProofsInv == \A s \in LogProofs :
    /\ logClaims[s].status = "DEPOSITED" => required(s)
    /\ required(s) /\ ~Submitted(s) => proofs[s].verification = "none"
    /\ proofs[s].reward = "ELIGIBLE" <=> eligible_claim(s)
    /\ proofs[s].review = "APPROVED" => proofs[s].reward = "ELIGIBLE"

\* A licence relies on a decision there is, and while that is the current one the proof
\* still has the bounty.
ReliedOn(s) == /\ logClaims[s].bound \in DOMAIN logRulings
               /\ logClaims[s].bound = latest_binding_decision(s) => eligible_claim(s)
RelianceInv == \A s \in LogProofs : logClaims[s].status \in LICENSED => ReliedOn(s)

\* While the version a delivery was granted for stands, so does its licence.
GrantIsCurrent(g) ==
    g.proof # 0 =>
        /\ g.proof \in LogProofs /\ Submitted(g.proof)
        /\ g.version <= logClaims[g.proof].version
        /\ g.version = logClaims[g.proof].version =>
               g.package = logClaims[g.proof].package /\ logClaims[g.proof].status \in LICENSED
GrantsInv == \A d \in Deliveries : GrantIsCurrent(deliveries[d])

ClaimsIInv == /\ ClaimTypesOK /\ DeliveryTypesOK
              /\ ViewsInv /\ ApprovedAsReviewed /\ LicensedIsKept /\ OneLicence
              /\ ProofsInv /\ RelianceInv /\ GrantsInv

-----------------------------------------------------------------------------
\* The newest decision on a proof.
LEMMA LatestIsLatest ==
  ASSUME logRulings \in Seq(LogRulingRecords), NEW s
  PROVE  \/ latest_binding_decision(s) = 0
         \/ latest_binding_decision(s) \in DOMAIN logRulings
  <1> DEFINE mine == {i \in DOMAIN logRulings : logRulings[i].proof = s}
             back == {Len(logRulings) - i : i \in mine}
  <1>1. mine \subseteq 1..Len(logRulings) /\ Len(logRulings) \in Nat
    OBVIOUS
  <1>2. CASE mine = {}
    BY <1>2 DEF latest_binding_decision
  <1>3. CASE mine # {}
    <2>1. back \subseteq Nat /\ back # {}
      BY <1>1, <1>3
    <2> HIDE DEF back, mine
    <2>2. PICK m \in back : \A n \in back : ~ (<<n, m>> \in OpToRel(<, Nat))
      BY <2>1, NatLessThanWellFounded, WFMin
    <2>3. ASSUME NEW n \in back, n < m PROVE FALSE
      <3>1. n \in Nat /\ m \in Nat
        BY <2>1
      <3>2. <<n, m>> \in OpToRel(<, Nat)
        BY <2>3, <3>1 DEF OpToRel
      <3> QED
        BY <2>2, <3>2
    <2>4. PICK i \in mine : m = Len(logRulings) - i
      BY DEF back
    <2>5. \A j \in mine : j <= i
      <3> SUFFICES ASSUME NEW j \in mine, ~ (j <= i) PROVE FALSE
        OBVIOUS
      <3>1. Len(logRulings) - j \in back /\ Len(logRulings) - j < m
        BY <1>1, <2>4 DEF back
      <3> QED
        BY <2>3, <3>1
    <2> USE DEF mine
    <2>6. (CHOOSE k \in mine : \A j \in mine : j <= k) \in mine
      BY <2>5
    <2> QED
      BY <1>1, <1>3, <2>6 DEF latest_binding_decision
  <1> QED
    BY <1>2, <1>3

LEMMA LatestIsNat ==
  ASSUME logRulings \in Seq(LogRulingRecords), NEW s
  PROVE  latest_binding_decision(s) \in Nat
  BY LatestIsLatest

\* A ruling on s is its newest decision; the newest ones of the others stay what they are.
LEMMA LatestAfterRuling ==
  ASSUME logRulings \in Seq(LogRulingRecords), NEW s, NEW ok, RuledLog(s, ok)
  PROVE  /\ Len(logRulings') = Len(logRulings) + 1
         /\ latest_binding_decision(s)' = Len(logRulings) + 1
         /\ \A t : t # s => latest_binding_decision(t)' = latest_binding_decision(t)
  <1> DEFINE new == [proof |-> s, approved |-> ok, supersedes |-> latest_binding_decision(s)]
             mine(t) == {i \in DOMAIN logRulings : logRulings[i].proof = t}
             after(t) == {i \in DOMAIN logRulings' : logRulings'[i].proof = t}
             n == Len(logRulings)
  <1>1. logRulings' = Append(logRulings, new)
    BY DEF RuledLog
  <1>2. /\ n \in Nat /\ DOMAIN logRulings = 1..n /\ DOMAIN logRulings' = 1..(n + 1)
        /\ \A i \in 1..n : logRulings'[i] = logRulings[i]
        /\ logRulings'[n + 1] = new /\ Len(logRulings') = n + 1
    <2> HIDE DEF new
    <2> QED
      BY <1>1
  <1>3. logRulings'[n + 1].proof = s
    BY <1>2
  <1> HIDE DEF new, n
  <1>4. ASSUME NEW t, t # s PROVE latest_binding_decision(t)' = latest_binding_decision(t)
    <2> DEFINE newest(S) == IF S = {} THEN 0 ELSE CHOOSE i \in S : \A j \in S : j <= i
    <2>1. after(t) = mine(t)
      BY <1>2, <1>3, <1>4
    <2>2. latest_binding_decision(t) = newest(mine(t)) /\ latest_binding_decision(t)' = newest(after(t))
      BY DEF latest_binding_decision
    <2> HIDE DEF newest, mine, after
    <2> QED
      BY <2>1, <2>2
  <1>5. latest_binding_decision(s)' = n + 1
    <2>1. n + 1 \in after(s) /\ \A j \in after(s) : j \in Nat /\ j <= n + 1
      BY <1>2, <1>3
    <2>2. \A i \in after(s) : (\A j \in after(s) : j <= i) => i = n + 1
      BY <1>2, <2>1
    <2>3. (CHOOSE i \in after(s) : \A j \in after(s) : j <= i) = n + 1
      BY <2>1, <2>2
    <2> QED
      BY <2>1, <2>3 DEF latest_binding_decision
  <1> QED
    BY <1>2, <1>4, <1>5 DEF n

-----------------------------------------------------------------------------
(* What one step does to a claim, a proof, a page and a delivery.          *)

\* A claim: its deadline passes; a deposit comes or goes; it changes to something that
\* is no licence, with the bounty if it is given up; or it is licensed, or bound again, for what its reviewer saw.
ClaimMoves(s, c) ==
    \/ \A f \in {"status", "version", "package", "held", "bound", "approvedFor"} : c[f] = logClaims[s][f]
    \/ /\ ~Submitted(s) /\ c.status \in {"none", "DEPOSITED"}
       /\ c.status = "DEPOSITED" => required(s)
    \/ /\ c.version > logClaims[s].version /\ c.status \in Unlicensed
       /\ c.status \in FORFEITED /\ logClaims[s].status \notin FORFEITED => GivesUp(s)
    \/ /\ c.version > logClaims[s].version /\ c.status \in LICENSED
       /\ c.approvedFor = c.package /\ c.held /\ TargetFree(s)
       /\ Submitted(s) /\ eligible_claim(s) /\ c.bound = latest_binding_decision(s)
       /\ UNCHANGED <<proofs, logRulings>>
ClaimPart ==
    \/ UNCHANGED logClaims
    \/ \E s \in LogProofs, c \in ClaimRecords : logClaims' = [logClaims EXCEPT ![s] = c] /\ ClaimMoves(s, c)

\* A proof: it is left alone; it comes with its logs or gets its verdict; it is ruled on.
ProofMoves(s) ==
    \/ proofs'[s] = proofs[s] /\ latest_binding_decision(s)' = latest_binding_decision(s)
    \/ /\ proofs[s].verification # "VERIFIED"
       /\ required(s) => Submitted(s)'
       /\ proofs'[s].review = proofs[s].review /\ proofs'[s].reward = proofs[s].reward
       /\ latest_binding_decision(s)' = latest_binding_decision(s)
    \/ /\ proofs[s].verification = "VERIFIED" /\ proofs'[s].verification = "VERIFIED"
       /\ latest_binding_decision(s)' = Len(logRulings) + 1
       /\ \/ proofs'[s].review = "APPROVED" /\ proofs'[s].reward = "ELIGIBLE"
          \/ proofs'[s].review = "REJECTED" /\ proofs'[s].reward = "INELIGIBLE"
ProofPart ==
    /\ proofs' \in [LogProofs -> ProofRecords] /\ logRulings' \in Seq(LogRulingRecords)
    /\ Len(logRulings) <= Len(logRulings')
    /\ \A s \in LogProofs : ProofMoves(s)

ViewPart ==
    /\ views' \in [LogReaders -> SeenRecords \cup {NoView}]
    /\ \/ UNCHANGED views
       \/ /\ UNCHANGED logClaims
          /\ \A r \in LogReaders : views'[r] # views[r] => SeenIsCurrent(views'[r])

DeliveryMoves(d) ==
    \/ UNCHANGED deliveries[d]
    \/ /\ deliveries[d].proof # 0
       /\ UNCHANGED <<deliveries[d].proof, deliveries[d].package, deliveries[d].version>>
       /\ deliveries[d].revoked => deliveries'[d].revoked
    \/ deliveries[d] = NoDelivery /\ UNCHANGED logClaims /\ GrantIsCurrent(deliveries'[d])
DeliveryPart ==
    /\ deliveries' \in [Deliveries -> DeliveryRecords \cup {NoDelivery}]
    /\ \A d \in Deliveries : DeliveryMoves(d)

Moves == ClaimPart /\ ProofPart /\ ViewPart /\ DeliveryPart

LEMMA NothingMoves ==
  ASSUME ClaimsIInv
  PROVE  /\ UNCHANGED <<proofs, logRulings>> => ProofPart
         /\ UNCHANGED views => ViewPart
         /\ UNCHANGED deliveries => DeliveryPart
  <1>1. ASSUME UNCHANGED <<proofs, logRulings>> PROVE ProofPart
    <2>1. \A s \in LogProofs : latest_binding_decision(s)' = latest_binding_decision(s)
      BY <1>1 DEF latest_binding_decision
    <2>2. \A s \in LogProofs : ProofMoves(s)
      BY <1>1, <2>1 DEF ProofMoves
    <2> QED
      BY <1>1, <2>2 DEF ProofPart, ClaimsIInv, ClaimTypesOK, DeliveryTypesOK
  <1> QED
    BY <1>1 DEF ClaimsIInv, ClaimTypesOK, DeliveryTypesOK, ViewPart, DeliveryPart, DeliveryMoves

LEMMA RuledLogMoves ==
  ASSUME ClaimsIInv, NEW s \in LogProofs, NEW ok \in BOOLEAN, RuledLog(s, ok),
         proofs[s].verification = "VERIFIED"
  PROVE  ProofPart
  <1> DEFINE new == [proof |-> s, approved |-> ok, supersedes |-> latest_binding_decision(s)]
  <1>1. logRulings \in Seq(LogRulingRecords) /\ proofs \in [LogProofs -> ProofRecords]
    BY DEF ClaimsIInv, ClaimTypesOK, DeliveryTypesOK
  <1>2. new \in LogRulingRecords
    BY <1>1, LatestIsNat DEF LogRulingRecords
  <1>3. logRulings' \in Seq(LogRulingRecords)
    BY <1>1, <1>2 DEF RuledLog
  <1>4. proofs[s] \in ProofRecords
    BY <1>1
  <1>5. /\ proofs'[s] \in ProofRecords /\ proofs'[s].verification = proofs[s].verification
        /\ proofs'[s].review = IF ok THEN "APPROVED" ELSE "REJECTED"
        /\ proofs'[s].reward = IF ok THEN "ELIGIBLE" ELSE "INELIGIBLE"
        /\ proofs' \in [LogProofs -> ProofRecords]
        /\ \A t \in LogProofs \ {s} : proofs'[t] = proofs[t]
    BY <1>1, <1>4 DEF RuledLog, ProofRecords
  <1>6. \A t \in LogProofs : ProofMoves(t)
    BY <1>1, <1>5, LatestAfterRuling DEF ProofMoves
  <1>7. Len(logRulings) \in Nat
    BY <1>1
  <1> QED
    BY <1>1, <1>3, <1>5, <1>6, <1>7, LatestAfterRuling DEF ProofPart

LEMMA GivesUpMoves ==
  ASSUME ClaimsIInv, NEW s \in LogProofs, GivesUp(s)
  PROVE  ProofPart
  BY RuledLogMoves, NothingMoves DEF GivesUp, forfeit_bounty

\* A step of verification: nothing is decided by it.
LEMMA VerificationMoves ==
  ASSUME ClaimsIInv, NEW s \in LogProofs, NEW v \in {"PENDING", "VERIFIED", "REJECTED"},
         proofs' = [proofs EXCEPT ![s].verification = v], logRulings' = logRulings,
         proofs[s].verification # "VERIFIED", required(s) => Submitted(s)'
  PROVE  ProofPart
  <1>1. proofs \in [LogProofs -> ProofRecords] /\ proofs[s] \in ProofRecords
    BY DEF ClaimsIInv, DeliveryTypesOK
  <1>2. /\ proofs' \in [LogProofs -> ProofRecords]
        /\ proofs'[s].review = proofs[s].review /\ proofs'[s].reward = proofs[s].reward
        /\ \A t \in LogProofs \ {s} : proofs'[t] = proofs[t]
    BY <1>1 DEF ProofRecords
  <1>3. \A t \in LogProofs : latest_binding_decision(t)' = latest_binding_decision(t)
    BY DEF latest_binding_decision
  <1>4. \A t \in LogProofs : ProofMoves(t)
    BY <1>2, <1>3 DEF ProofMoves
  <1> QED
    BY <1>2, <1>4 DEF ProofPart, ClaimsIInv, ClaimTypesOK

\* What a caller whose page is current knows.
LEMMA CurrentPage ==
  ASSUME ClaimsIInv, NEW r \in LogReaders, check_version(views[r])
  PROVE  /\ views[r].proof \in LogProofs /\ Submitted(views[r].proof)
         /\ views[r].package = logClaims[views[r].proof].package
  BY DEF ClaimsIInv, ViewsInv, SeenIsCurrent, check_version

LEMMA StatusFacts ==
  /\ {"UNDER_REVIEW", "NEEDS_CHANGES", "EXPIRED", "REVOKED_PROOF_CHANGED", "WITHDRAWN", "REJECTED"} = Unlicensed
  /\ Unlicensed \subseteq ClaimStatuses /\ LICENSED \subseteq ClaimStatuses
  /\ Unlicensed \cap LICENSED = {} /\ Outcomes \subseteq Unlicensed \cup LICENSED
  /\ {"none", "DEPOSITED"} \cap Unlicensed = {} /\ {"none", "DEPOSITED"} \cap LICENSED = {}
  /\ {"none", "DEPOSITED"} \subseteq ClaimStatuses
  /\ {"UNDER_REVIEW", "NEEDS_CHANGES", "EXPIRED", "REVOKED_PROOF_CHANGED"} \cap FORFEITED = {}
  /\ FORFEITED \cap Outcomes = {"REJECTED"} /\ FORFEITED \cap (LICENSED \cup {"none", "DEPOSITED"}) = {}
  BY DEF ClaimStatuses, Unlicensed, LICENSED, FORFEITED, Outcomes

\* An audited change is numbered on.
LEMMA AuditedMoves ==
  ASSUME ClaimsIInv, NEW s \in LogProofs, NEW c \in ClaimRecords, Changed(s, c),
         c.version = logClaims[s].version,
         \/ c.status \in Unlicensed /\ (c.status \in FORFEITED => GivesUp(s))
         \/ /\ c.status \in LICENSED /\ c.approvedFor = c.package /\ c.held /\ TargetFree(s)
            /\ Submitted(s) /\ eligible_claim(s) /\ c.bound = latest_binding_decision(s)
            /\ UNCHANGED <<proofs, logRulings>>
  PROVE  ClaimPart
  <1>1. /\ audited(c) \in ClaimRecords /\ audited(c).version = c.version + 1 /\ c.version \in Nat
        /\ \A f \in {"status", "package", "held", "bound", "approvedFor"} : audited(c)[f] = c[f]
    BY DEF audited, ClaimRecords
  <1>2. ClaimMoves(s, audited(c))
    BY <1>1 DEF ClaimMoves
  <1> QED
    BY <1>1, <1>2 DEF Changed, ClaimPart

LEMMA EachStepMoves ==
  ASSUME ClaimsIInv, [ClaimsNext]_claimVars
  PROVE  Moves
  <1> USE DEF Moves
  <1>0. /\ logClaims \in [LogProofs -> ClaimRecords]
        /\ \A s \in LogProofs : logClaims[s] \in ClaimRecords
        /\ \A s \in LogProofs : latest_binding_decision(s) \in Nat
        /\ UNCHANGED <<proofs, logRulings>> => ProofPart
        /\ UNCHANGED views => ViewPart
        /\ UNCHANGED deliveries => DeliveryPart
    BY LatestIsNat, NothingMoves DEF ClaimsIInv, ClaimTypesOK
  <1>1. CASE UNCHANGED claimVars
    BY <1>0, <1>1 DEF claimVars, ClaimPart
  <1>2. ASSUME NEW s \in LogProofs, verify_log(s) PROVE Moves
    <2>1. required(s) => Submitted(s)'
      BY <1>2 DEF verify_log, ClaimsIInv, ProofsInv, Submitted
    <2>2. ProofPart
      BY <1>2, <2>1, VerificationMoves DEF verify_log
    <2> QED
      BY <1>0, <1>2, <2>2 DEF verify_log, ClaimPart
  <1>3. ASSUME NEW s \in LogProofs, bind_deposit(s) PROVE Moves
    <2> DEFINE c == [logClaims[s] EXCEPT !.status = "UNDER_REVIEW"]
    <2>a. logClaims[s] \in ClaimRecords /\ latest_binding_decision(s) \in Nat
      BY <1>0
    <2>b. "UNDER_REVIEW" \in ClaimStatuses /\ "UNDER_REVIEW" \in Unlicensed \ FORFEITED
      BY StatusFacts
    <2>1. c \in ClaimRecords /\ c.version = logClaims[s].version /\ c.status \in Unlicensed \ FORFEITED
      BY <2>a, <2>b DEF ClaimRecords
    <2>2. ClaimPart
      BY <1>3, <2>1, AuditedMoves DEF bind_deposit
    <2>3. logClaims'[s].status = "UNDER_REVIEW"
      <3>1. logClaims'[s] = audited(c) /\ c.status = "UNDER_REVIEW"
        BY <1>0, <1>3, <2>a DEF bind_deposit, Changed, ClaimRecords
      <3> QED
        BY <2>1, <3>1 DEF audited, ClaimRecords
    <2>4. Submitted(s)' /\ proofs[s].verification # "VERIFIED"
      BY <1>3, <2>3 DEF bind_deposit, Submitted, ClaimsIInv, ProofsInv
    <2>5. ProofPart
      BY <1>3, <2>4, VerificationMoves DEF bind_deposit
    <2> QED
      BY <1>0, <1>3, <2>2, <2>5 DEF bind_deposit
  <1>4. ASSUME NEW s \in LogProofs, deadline(s) PROVE Moves
    <2> DEFINE c == [logClaims[s] EXCEPT !.over = TRUE]
    <2>1. logClaims[s] \in ClaimRecords
      BY <1>0
    <2>2. c \in ClaimRecords /\ ClaimMoves(s, c)
      BY <2>1 DEF ClaimRecords, ClaimMoves
    <2>3. logClaims' = [logClaims EXCEPT ![s] = c]
      BY <1>0, <1>4 DEF deadline
    <2> QED
      BY <1>0, <1>4, <2>2, <2>3 DEF deadline, ClaimPart
  <1>5. ASSUME NEW s \in LogProofs, delete_deposit(s) PROVE Moves
    <2>1. NoClaim \in ClaimRecords
      BY StatusFacts DEF NoClaim, ClaimRecords
    <2>2. ClaimMoves(s, NoClaim)
      BY <1>5 DEF ClaimMoves, NoClaim, Submitted, delete_deposit
    <2> QED
      BY <1>0, <1>5, <2>1, <2>2 DEF delete_deposit, ClaimPart
  <1>6. ASSUME NEW s \in LogProofs, purge(s) PROVE Moves
    <2>1. CASE UNCHANGED logClaims
      BY <1>0, <1>6, <2>1 DEF purge, ClaimPart
    <2>2. CASE ~UNCHANGED logClaims
      <3> DEFINE c == [logClaims[s] EXCEPT !.held = FALSE, !.version = @ + 1,
                         !.status = IF @ \in {"UNDER_REVIEW", "NEEDS_CHANGES"} THEN "EXPIRED" ELSE @]
      <3>1. expiring(s) /\ logClaims' = [logClaims EXCEPT ![s] = c]
        BY <1>0, <1>6, <2>2 DEF purge
      <3>a. logClaims[s] \in ClaimRecords /\ logClaims[s].version + 1 \in Nat
        BY <1>0 DEF ClaimRecords
      <3>b. "EXPIRED" \in ClaimStatuses /\ "EXPIRED" \in Unlicensed \ FORFEITED
        BY StatusFacts
      <3>c. /\ c \in ClaimRecords /\ c.version = logClaims[s].version + 1
            /\ c.status \in {"EXPIRED", logClaims[s].status}
        BY <3>a, <3>b DEF ClaimRecords
      <3>d. c.status \in Unlicensed /\ c.version > logClaims[s].version
            /\ (c.status \in FORFEITED => logClaims[s].status \in FORFEITED)
        BY <3>1, <3>a, <3>b, <3>c DEF expiring, Submitted, ClaimRecords, ClaimStatuses
      <3>2. ClaimPart
        BY <3>1, <3>c, <3>d DEF ClaimPart, ClaimMoves
      <3> QED
        BY <1>0, <1>6, <3>2 DEF purge
    <2> QED
      BY <2>1, <2>2
  <1>7. ASSUME NEW s \in LogProofs, NEW ok \in BOOLEAN, review_proof(s, ok) PROVE Moves
    BY <1>0, <1>7, RuledLogMoves DEF review_proof, ClaimPart
  <1>8. ASSUME NEW s \in LogProofs, NEW p \in Logs, deposit_package(s, p) PROVE Moves
    <2> DEFINE c == audited([NoClaim EXCEPT !.status = "DEPOSITED", !.revision = 1,
                                            !.package = p, !.held = TRUE])
    <2>a. c \in ClaimRecords /\ c.status = "DEPOSITED"
      <3>1. NoClaim \in ClaimRecords /\ "DEPOSITED" \in ClaimStatuses
        BY StatusFacts DEF NoClaim, ClaimRecords
      <3>2. \A old \in ClaimRecords :
              LET new == [old EXCEPT !.status = "DEPOSITED", !.revision = 1, !.package = p, !.held = TRUE]
              IN  new \in ClaimRecords /\ new.status = "DEPOSITED"
        BY <3>1 DEF ClaimRecords
      <3>3. \A new \in ClaimRecords : audited(new) \in ClaimRecords /\ audited(new).status = new.status
        BY DEF audited, ClaimRecords
      <3> QED
        BY <3>1, <3>2, <3>3
    <2>1. ClaimMoves(s, c)
      BY <1>8, <2>a DEF deposit_package, Submitted, ClaimMoves
    <2>2. ClaimPart
      BY <1>8, <2>a, <2>1 DEF deposit_package, Changed, ClaimPart
    <2> QED
      BY <1>0, <1>8, <2>2 DEF deposit_package
  <1>9. ASSUME NEW s \in LogProofs, NEW p \in Logs, NEW r \in LogReaders, upload_log(r, s, p)
        PROVE  Moves
    <2> DEFINE c == [logClaims[s] EXCEPT !.status = "UNDER_REVIEW", !.revision = @ + 1, !.package = p,
                                         !.held = TRUE, !.bound = latest_binding_decision(s)]
    <2>a. logClaims[s] \in ClaimRecords /\ latest_binding_decision(s) \in Nat
          /\ logClaims[s].revision + 1 \in Nat /\ p \in Logs \cup {NoLog}
      BY <1>0 DEF ClaimRecords
    <2>b. "UNDER_REVIEW" \in ClaimStatuses /\ "UNDER_REVIEW" \in Unlicensed \ FORFEITED
      BY StatusFacts
    <2>1. c \in ClaimRecords /\ c.version = logClaims[s].version /\ c.status \in Unlicensed \ FORFEITED
      BY <2>a, <2>b DEF ClaimRecords
    <2> QED
      BY <1>0, <1>9, <2>1, AuditedMoves DEF upload_log, accept_package
  <1>10. ASSUME NEW s \in LogProofs, NEW r \in LogReaders, look(r, s) PROVE Moves
    <2> DEFINE v == [proof |-> s, version |-> logClaims[s].version,
                     revision |-> logClaims[s].revision, package |-> logClaims[s].package]
    <2>1. v \in SeenRecords /\ SeenIsCurrent(v)
      BY <1>0, <1>10 DEF look, SeenRecords, SeenIsCurrent, ClaimRecords
    <2>2. /\ views' \in [LogReaders -> SeenRecords \cup {NoView}]
          /\ \A reader \in LogReaders : views'[reader] = IF reader = r THEN v ELSE views[reader]
      BY <1>10, <2>1 DEF look, ClaimsIInv, ClaimTypesOK
    <2>3. ViewPart
      BY <1>10, <2>1, <2>2 DEF look, ViewPart
    <2> QED
      BY <1>0, <1>10, <2>3 DEF look, ClaimPart
  <1>11. ASSUME NEW s \in LogProofs, NEW d \in Deliveries, grant(d, s) PROVE Moves
    <2> DEFINE g == [proof |-> s, package |-> logClaims[s].package, version |-> logClaims[s].version,
                     accepted |-> FALSE, revoked |-> FALSE, exported |-> FALSE, takedown |-> FALSE]
    <2>1. logClaims[s].status \in LICENSED
      BY <1>11 DEF grant, require_accepted, effective_status, LICENSED
    <2>2. g \in DeliveryRecords /\ GrantIsCurrent(g)
      BY <1>0, <2>1, StatusFacts DEF DeliveryRecords, GrantIsCurrent, Submitted, ClaimRecords
    <2>3. /\ deliveries' \in [Deliveries -> DeliveryRecords \cup {NoDelivery}]
          /\ \A e \in Deliveries : deliveries'[e] = IF e = d THEN g ELSE deliveries[e]
      BY <1>11, <2>2 DEF grant, ClaimsIInv, DeliveryTypesOK
    <2>4. DeliveryPart
      BY <1>11, <2>2, <2>3 DEF grant, DeliveryPart, DeliveryMoves
    <2> QED
      BY <1>0, <1>11, <2>4 DEF grant, ClaimPart
  <1>12. CASE list_candidates
    BY <1>0, <1>12 DEF list_candidates, ClaimPart
  <1>13. ASSUME NEW d \in Deliveries, accept(d) \/ buyer_download(d) \/ delivery_action(d) PROVE Moves
    <2>1. deliveries[d].proof # 0
      BY <1>13 DEF accept, buyer_download, delivery_action, owned_delivery, ValidDelivery
    <2>2. deliveries[d] \in DeliveryRecords
      BY <2>1 DEF ClaimsIInv, DeliveryTypesOK, NoDelivery
    <2>3. PICK g \in DeliveryRecords :
             /\ deliveries' = [deliveries EXCEPT ![d] = g]
             /\ g.proof = deliveries[d].proof /\ g.package = deliveries[d].package
             /\ g.version = deliveries[d].version /\ (deliveries[d].revoked => g.revoked)
      <3>1. ASSUME NEW f \in {"accepted", "exported", "revoked", "takedown"},
                   deliveries' = [deliveries EXCEPT ![d] = [deliveries[d] EXCEPT ![f] = TRUE]]
            PROVE  \E g \in DeliveryRecords :
                     /\ deliveries' = [deliveries EXCEPT ![d] = g]
                     /\ g.proof = deliveries[d].proof /\ g.package = deliveries[d].package
                     /\ g.version = deliveries[d].version /\ (deliveries[d].revoked => g.revoked)
        <4> DEFINE g == [deliveries[d] EXCEPT ![f] = TRUE]
        <4>1. g \in DeliveryRecords
          BY <2>2 DEF DeliveryRecords
        <4>2. /\ g.proof = deliveries[d].proof /\ g.package = deliveries[d].package
              /\ g.version = deliveries[d].version /\ (deliveries[d].revoked => g.revoked)
          BY <2>2 DEF DeliveryRecords
        <4> QED
          BY <3>1, <4>1, <4>2
      <3>2. \E f \in {"accepted", "exported", "revoked", "takedown"} :
              deliveries' = [deliveries EXCEPT ![d] = [deliveries[d] EXCEPT ![f] = TRUE]]
        BY <1>13 DEF accept, buyer_download, delivery_action, owned_delivery
      <3> QED
        BY <3>1, <3>2
    <2>4. DeliveryPart
      BY <2>1, <2>3 DEF DeliveryPart, DeliveryMoves, ClaimsIInv, DeliveryTypesOK
    <2> QED
      BY <1>0, <1>13, <2>4 DEF accept, buyer_download, delivery_action, owned_delivery, ClaimPart
  <1>14. ASSUME NEW r \in LogReaders, withdraw(r) PROVE Moves
    <2> DEFINE s == views[r].proof
               c == [logClaims[s] EXCEPT !.status = "WITHDRAWN", !.held = FALSE]
    <2>1. s \in LogProofs /\ ProofPart /\ GivesUp(s)
      BY <1>14, CurrentPage, GivesUpMoves DEF withdraw
    <2>a. logClaims[s] \in ClaimRecords /\ latest_binding_decision(s) \in Nat
      BY <1>0, <2>1
    <2>b. "WITHDRAWN" \in ClaimStatuses /\ "WITHDRAWN" \in Unlicensed
      BY StatusFacts
    <2>2. c \in ClaimRecords /\ c.version = logClaims[s].version /\ c.status \in Unlicensed
      BY <2>a, <2>b DEF ClaimRecords
    <2> QED
      BY <1>0, <1>14, <2>1, <2>2, AuditedMoves DEF withdraw
  <1>15. ASSUME NEW r \in LogReaders, confirm_proof(r) PROVE Moves
    <2> DEFINE s == views[r].proof
               c == [logClaims[s] EXCEPT !.confirmed = TRUE]
    <2>1. s \in LogProofs
      BY <1>15, CurrentPage DEF confirm_proof
    <2>a. logClaims[s] \in ClaimRecords /\ logClaims[s].status \in Unlicensed \ FORFEITED
      BY <1>0, <1>15, <2>1, StatusFacts DEF confirm_proof
    <2>2. c \in ClaimRecords /\ c.version = logClaims[s].version /\ c.status \in Unlicensed \ FORFEITED
      BY <2>a DEF ClaimRecords
    <2> QED
      BY <1>0, <1>15, <2>1, <2>2, AuditedMoves DEF confirm_proof
  <1>16. ASSUME NEW r \in LogReaders, revoke_proof_changed(r) PROVE Moves
    <2> DEFINE s == views[r].proof
               c == [logClaims[s] EXCEPT !.status = "REVOKED_PROOF_CHANGED", !.over = FALSE]
    <2>1. s \in LogProofs
      BY <1>16, CurrentPage DEF revoke_proof_changed
    <2>a. logClaims[s] \in ClaimRecords /\ latest_binding_decision(s) \in Nat
      BY <1>0, <2>1
    <2>b. "REVOKED_PROOF_CHANGED" \in ClaimStatuses /\ "REVOKED_PROOF_CHANGED" \in Unlicensed \ FORFEITED
      BY StatusFacts
    <2>2. c \in ClaimRecords /\ c.version = logClaims[s].version /\ c.status \in Unlicensed \ FORFEITED
      BY <2>a, <2>b DEF ClaimRecords
    <2> QED
      BY <1>0, <1>16, <2>1, <2>2, AuditedMoves DEF revoke_proof_changed
  <1>17. ASSUME NEW r \in LogReaders, reopen_review(r) PROVE Moves
    <2> DEFINE s == views[r].proof
               c == [logClaims[s] EXCEPT !.status = "UNDER_REVIEW"]
    <2>1. s \in LogProofs
      BY <1>17, CurrentPage DEF reopen_review
    <2>a. logClaims[s] \in ClaimRecords /\ latest_binding_decision(s) \in Nat
      BY <1>0, <2>1
    <2>b. "UNDER_REVIEW" \in ClaimStatuses /\ "UNDER_REVIEW" \in Unlicensed \ FORFEITED
      BY StatusFacts
    <2>2. c \in ClaimRecords /\ c.version = logClaims[s].version /\ c.status \in Unlicensed \ FORFEITED
      BY <2>a, <2>b DEF ClaimRecords
    <2> QED
      BY <1>0, <1>17, <2>1, <2>2, AuditedMoves DEF reopen_review
  <1>18. ASSUME NEW r \in LogReaders, rebind_proof_decision(r) PROVE Moves
    <2> DEFINE s == views[r].proof
               c == [logClaims[s] EXCEPT !.bound = latest_binding_decision(s)]
    <2>1. s \in LogProofs /\ Submitted(s) /\ logClaims[s].status \in LICENSED
      BY <1>18, CurrentPage DEF rebind_proof_decision
    <2>2. /\ c \in ClaimRecords /\ c.version = logClaims[s].version /\ c.status = logClaims[s].status
          /\ c.approvedFor = logClaims[s].approvedFor /\ c.package = logClaims[s].package
          /\ c.held = logClaims[s].held /\ c.bound = latest_binding_decision(s)
      <3>1. logClaims[s] \in ClaimRecords /\ latest_binding_decision(s) \in Nat
        BY <1>0, <2>1
      <3> QED
        BY <3>1 DEF ClaimRecords
    <2>3. c.approvedFor = c.package /\ c.held /\ TargetFree(s)
      BY <2>1, <2>2 DEF ClaimsIInv, ApprovedAsReviewed, LicensedIsKept, OneLicence, TargetFree
    <2> QED
      BY <1>0, <1>18, <2>1, <2>2, <2>3, AuditedMoves DEF rebind_proof_decision
  <1>19. ASSUME NEW r \in LogReaders, NEW o \in Outcomes, decide(r, o) PROVE Moves
    <2> DEFINE s == views[r].proof
               c == [logClaims[s] EXCEPT
                       !.status = o,
                       !.bound = IF o \in LICENSED THEN latest_binding_decision(s) ELSE @,
                       !.approvedFor = IF o \in LICENSED THEN views[r].package ELSE @]
    <2>1. s \in LogProofs /\ views[r].package = logClaims[s].package
      BY <1>19, CurrentPage DEF decide
    <2>2. ProofPart
      BY <1>0, <1>19, <2>1, GivesUpMoves DEF decide
    <2>3. /\ c \in ClaimRecords /\ c.version = logClaims[s].version /\ c.status = o
          /\ c.package = logClaims[s].package /\ c.held = logClaims[s].held
          /\ o \in LICENSED => c.approvedFor = views[r].package /\ c.bound = latest_binding_decision(s)
      <3>1. logClaims[s] \in ClaimRecords /\ latest_binding_decision(s) \in Nat
        BY <1>0, <2>1
      <3>2. o \in ClaimStatuses /\ views[r].package \in Logs \cup {NoLog}
        BY <2>1, <3>1, StatusFacts DEF ClaimRecords
      <3> QED
        BY <3>1, <3>2 DEF ClaimRecords
    <2>4. ASSUME o \in LICENSED
          PROVE  /\ c.held /\ TargetFree(s) /\ Submitted(s) /\ eligible_claim(s)
                 /\ UNCHANGED <<proofs, logRulings>>
      BY <1>19, <2>1, <2>3, <2>4, CurrentPage DEF decide, content_available, LICENSED
    <2>5. Changed(s, c) /\ UNCHANGED <<views, deliveries>>
      BY <1>19 DEF decide
    <2>6. (o \in Unlicensed /\ (o \in FORFEITED => GivesUp(s))) \/ o \in LICENSED
      BY <1>19, StatusFacts DEF decide
    <2>7. ClaimPart
      <3> HIDE DEF c
      <3> QED
        BY <2>1, <2>3, <2>4, <2>5, <2>6, AuditedMoves
    <2> QED
      BY <1>0, <2>2, <2>5, <2>7
  <1> QED
    BY <1>1, <1>2, <1>3, <1>4, <1>5, <1>6, <1>7, <1>8, <1>9, <1>10, <1>11, <1>12, <1>13,
       <1>14, <1>15, <1>16, <1>17, <1>18, <1>19 DEF ClaimsNext

LEMMA EachClaimMoves ==
  ASSUME ClaimsIInv, Moves
  PROVE  \A s \in LogProofs : /\ logClaims[s] \in ClaimRecords /\ logClaims'[s] \in ClaimRecords
                              /\ ClaimMoves(s, logClaims'[s])
  <1>1. CASE UNCHANGED logClaims
    BY <1>1 DEF ClaimsIInv, ClaimTypesOK, ClaimMoves
  <1>2. ASSUME NEW t \in LogProofs, NEW c \in ClaimRecords,
               logClaims' = [logClaims EXCEPT ![t] = c], ClaimMoves(t, c)
        PROVE  \A s \in LogProofs : /\ logClaims[s] \in ClaimRecords /\ logClaims'[s] \in ClaimRecords
                                    /\ ClaimMoves(s, logClaims'[s])
    <2> SUFFICES ASSUME NEW s \in LogProofs
                 PROVE  /\ logClaims[s] \in ClaimRecords /\ logClaims'[s] \in ClaimRecords
                        /\ ClaimMoves(s, logClaims'[s])
      OBVIOUS
    <2>1. /\ logClaims[s] \in ClaimRecords
          /\ logClaims'[s] = IF s = t THEN c ELSE logClaims[s]
      BY <1>2 DEF ClaimsIInv, ClaimTypesOK
    <2>2. CASE s = t
      BY <1>2, <2>1, <2>2
    <2>3. CASE s # t
      BY <2>1, <2>3 DEF ClaimMoves
    <2> QED
      BY <2>2, <2>3
  <1> QED
    BY <1>1, <1>2 DEF Moves, ClaimPart

\* A version of a claim that was shown is one package, one status and one binding.
LEMMA ClaimsAreNumbered ==
  ASSUME ClaimsIInv, Moves, NEW s \in LogProofs
  PROVE  /\ logClaims[s].version \in Nat /\ logClaims'[s].version \in Nat
         /\ Submitted(s) =>
              /\ Submitted(s)'
              /\ \/ logClaims'[s].version > logClaims[s].version
                 \/ /\ logClaims'[s].version = logClaims[s].version
                    /\ logClaims'[s].package = logClaims[s].package
                    /\ logClaims'[s].status = logClaims[s].status
                    /\ logClaims'[s].bound = logClaims[s].bound
  <1>1. /\ logClaims[s] \in ClaimRecords /\ logClaims'[s] \in ClaimRecords
        /\ ClaimMoves(s, logClaims'[s])
    BY EachClaimMoves
  <1> QED
    BY <1>1, StatusFacts DEF ClaimMoves, Submitted, ClaimRecords

LEMMA MovesKeep ==
  ASSUME ClaimsIInv, Moves
  PROVE  ClaimsIInv'
  <1>1. \A s \in LogProofs : /\ logClaims[s] \in ClaimRecords /\ logClaims'[s] \in ClaimRecords
                             /\ ClaimMoves(s, logClaims'[s])
    BY EachClaimMoves
  <1>2. ClaimTypesOK' /\ DeliveryTypesOK'
    <2>1. logClaims' \in [LogProofs -> ClaimRecords]
      BY DEF ClaimsIInv, ClaimTypesOK, Moves, ClaimPart
    <2> QED
      BY <2>1 DEF Moves, ProofPart, ViewPart, DeliveryPart, ClaimTypesOK, DeliveryTypesOK
  <1>3. \A s \in LogProofs :
           /\ logClaims[s].version \in Nat /\ logClaims'[s].version \in Nat
           /\ Submitted(s) =>
                /\ Submitted(s)'
                /\ \/ logClaims'[s].version > logClaims[s].version
                   \/ /\ logClaims'[s].version = logClaims[s].version
                      /\ logClaims'[s].package = logClaims[s].package
                      /\ logClaims'[s].status = logClaims[s].status
    BY ClaimsAreNumbered
  <1>4. ViewsInv'
    <2> SUFFICES ASSUME NEW r \in LogReaders PROVE SeenIsCurrent(views[r])'
      BY DEF ViewsInv
    <2>1. CASE views'[r] = views[r] /\ views[r].proof # 0
      <3>1. views[r].version \in Nat
        BY <2>1 DEF ClaimsIInv, ClaimTypesOK, SeenRecords, NoView
      <3>2. SeenIsCurrent(views[r])
        BY DEF ClaimsIInv, ViewsInv
      <3> QED
        BY <1>3, <2>1, <3>1, <3>2 DEF SeenIsCurrent
    <2>2. CASE views'[r] = views[r] /\ views[r].proof = 0
      BY <2>2 DEF SeenIsCurrent
    <2>3. CASE views'[r] # views[r]
      BY <2>3 DEF Moves, ViewPart, SeenIsCurrent, Submitted
    <2> QED
      BY <2>1, <2>2, <2>3
  <1>5. ApprovedAsReviewed' /\ LicensedIsKept'
    BY <1>1, StatusFacts DEF ClaimMoves, ClaimsIInv, ApprovedAsReviewed, LicensedIsKept
  <1>6. OneLicence'
    <2>1. CASE UNCHANGED logClaims
      BY <2>1 DEF ClaimsIInv, OneLicence
    <2>2. ASSUME NEW t \in LogProofs, NEW c \in ClaimRecords,
                 logClaims' = [logClaims EXCEPT ![t] = c], ClaimMoves(t, c)
          PROVE  OneLicence'
      <3>1. \A s \in LogProofs : logClaims'[s] = IF s = t THEN c ELSE logClaims[s]
        BY <2>2 DEF ClaimsIInv, ClaimTypesOK
      <3>2. c.status \in LICENSED => \A s \in LogProofs \ {t} : logClaims[s].status \notin LICENSED
        BY <2>2, StatusFacts DEF ClaimMoves, TargetFree, ClaimsIInv, OneLicence
      <3> QED
        BY <3>1, <3>2 DEF ClaimsIInv, OneLicence
    <2> QED
      BY <2>1, <2>2 DEF Moves, ClaimPart
  <1>7. \A s \in LogProofs : ProofMoves(s) /\ proofs[s] \in ProofRecords
    BY DEF Moves, ProofPart, ClaimsIInv, DeliveryTypesOK
  <1>8. /\ Len(logRulings) \in Nat /\ Len(logRulings') \in Nat /\ Len(logRulings) <= Len(logRulings')
        /\ DOMAIN logRulings = 1..Len(logRulings) /\ DOMAIN logRulings' = 1..Len(logRulings')
        /\ \A s : latest_binding_decision(s) \in {0} \cup DOMAIN logRulings
    BY LatestIsLatest DEF Moves, ProofPart, ClaimsIInv, ClaimTypesOK
  <1>9. ProofsInv'
    <2> SUFFICES ASSUME NEW s \in LogProofs
                 PROVE  /\ logClaims'[s].status = "DEPOSITED" => required(s)
                        /\ required(s) /\ ~Submitted(s)' => proofs'[s].verification = "none"
                        /\ proofs'[s].reward = "ELIGIBLE" <=> eligible_claim(s)'
                        /\ proofs'[s].review = "APPROVED" => proofs'[s].reward = "ELIGIBLE"
      BY DEF ProofsInv, required
    <2>0. /\ logClaims[s].status = "DEPOSITED" => required(s)
          /\ required(s) /\ ~Submitted(s) => proofs[s].verification = "none"
          /\ proofs[s].reward = "ELIGIBLE" <=> eligible_claim(s)
          /\ proofs[s].review = "APPROVED" => proofs[s].reward = "ELIGIBLE"
      BY DEF ClaimsIInv, ProofsInv
    <2>1. logClaims'[s].status = "DEPOSITED" => required(s)
      BY <1>1, <2>0, StatusFacts DEF ClaimMoves
    <2>2. required(s) /\ ~Submitted(s)' => proofs'[s].verification = "none"
      BY <1>3, <1>7, <2>0 DEF ProofMoves
    <2>3. /\ proofs'[s].reward = "ELIGIBLE" <=> eligible_claim(s)'
          /\ proofs'[s].review = "APPROVED" => proofs'[s].reward = "ELIGIBLE"
      <3>1. ProofMoves(s)
        BY <1>7
      <3>2. CASE proofs'[s] = proofs[s] /\ latest_binding_decision(s)' = latest_binding_decision(s)
        BY <2>0, <3>2 DEF eligible_claim
      <3>3. CASE /\ proofs[s].verification # "VERIFIED"
                 /\ proofs'[s].review = proofs[s].review /\ proofs'[s].reward = proofs[s].reward
                 /\ latest_binding_decision(s)' = latest_binding_decision(s)
        BY <2>0, <3>3 DEF eligible_claim
      <3>4. CASE /\ proofs'[s].verification = "VERIFIED"
                 /\ latest_binding_decision(s)' = Len(logRulings) + 1
                 /\ \/ proofs'[s].review = "APPROVED" /\ proofs'[s].reward = "ELIGIBLE"
                    \/ proofs'[s].review = "REJECTED" /\ proofs'[s].reward = "INELIGIBLE"
        <4>1. latest_binding_decision(s)' # 0
          BY <1>8, <3>4
        <4> QED
          BY <3>4, <4>1 DEF eligible_claim
      <3> QED
        BY <3>1, <3>2, <3>3, <3>4 DEF ProofMoves
    <2> QED
      BY <2>1, <2>2, <2>3
  <1>10. RelianceInv'
    <2> SUFFICES ASSUME NEW s \in LogProofs, logClaims'[s].status \in LICENSED PROVE ReliedOn(s)'
      BY DEF RelianceInv
    <2>1. CASE logClaims[s].status \in LICENSED /\ logClaims'[s].bound = logClaims[s].bound
      <3>1. ReliedOn(s)
        BY <2>1 DEF ClaimsIInv, RelianceInv
      <3>2. logClaims[s].bound \in 1..Len(logRulings)
        BY <1>8, <3>1 DEF ReliedOn
      <3>3. logClaims[s].bound = latest_binding_decision(s)' =>
               latest_binding_decision(s) = latest_binding_decision(s)' /\ eligible_claim(s)'
        <4> SUFFICES ASSUME logClaims[s].bound = latest_binding_decision(s)'
                     PROVE  latest_binding_decision(s) = latest_binding_decision(s)' /\ eligible_claim(s)'
          OBVIOUS
        <4>1. ProofMoves(s)
          BY <1>7
        <4>2. latest_binding_decision(s)' # Len(logRulings) + 1
          BY <1>8, <3>2
        <4>3. latest_binding_decision(s) = latest_binding_decision(s)'
          BY <4>1, <4>2 DEF ProofMoves
        <4>4. eligible_claim(s)
          BY <3>1, <4>3 DEF ReliedOn
        <4>5. proofs'[s] = proofs[s]
          BY <4>1, <4>2, <4>4 DEF ProofMoves, eligible_claim
        <4> QED
          BY <4>3, <4>4, <4>5 DEF eligible_claim
      <3> QED
        BY <1>8, <2>1, <3>2, <3>3 DEF ReliedOn
    <2>2. CASE /\ eligible_claim(s) /\ logClaims'[s].bound = latest_binding_decision(s)
               /\ UNCHANGED <<proofs, logRulings>>
      <3>1. latest_binding_decision(s)' = latest_binding_decision(s) /\ eligible_claim(s)'
        BY <2>2 DEF latest_binding_decision, eligible_claim
      <3>2. latest_binding_decision(s) \in DOMAIN logRulings'
        BY <1>8, <2>2 DEF eligible_claim
      <3> QED
        BY <2>2, <3>1, <3>2 DEF ReliedOn
    <2> QED
      BY <1>1, <2>1, <2>2, StatusFacts DEF ClaimMoves
  <1>11. GrantsInv'
    <2> SUFFICES ASSUME NEW d \in Deliveries PROVE GrantIsCurrent(deliveries[d])'
      BY DEF GrantsInv
    <2>0. DeliveryMoves(d) /\ GrantIsCurrent(deliveries[d])
      BY DEF Moves, DeliveryPart, ClaimsIInv, GrantsInv
    <2>1. CASE UNCHANGED <<deliveries[d].proof, deliveries[d].package, deliveries[d].version>>
               /\ deliveries[d].proof # 0
      <3>1. deliveries[d].version \in Nat
        BY <2>1 DEF ClaimsIInv, DeliveryTypesOK, DeliveryRecords, NoDelivery
      <3> QED
        BY <1>3, <2>0, <2>1, <3>1 DEF GrantIsCurrent
    <2>2. CASE deliveries'[d] = deliveries[d] /\ deliveries[d].proof = 0
      BY <2>2 DEF GrantIsCurrent
    <2>3. CASE UNCHANGED logClaims /\ GrantIsCurrent(deliveries'[d])
      BY <2>3 DEF GrantIsCurrent, Submitted
    <2> QED
      BY <2>0, <2>1, <2>2, <2>3 DEF DeliveryMoves
  <1> QED
    BY <1>2, <1>4, <1>5, <1>6, <1>9, <1>10, <1>11 DEF ClaimsIInv

LEMMA ClaimsInductive == ClaimsSpec => []ClaimsIInv
  <1>1. ClaimsInit => ClaimsIInv
    <2> SUFFICES ASSUME ClaimsInit PROVE ClaimsIInv
      OBVIOUS
    <2>1. NoClaim \in ClaimRecords
      BY StatusFacts DEF NoClaim, ClaimRecords
    <2>2. ClaimTypesOK /\ DeliveryTypesOK
      BY <2>1 DEF ClaimsInit, ClaimTypesOK, DeliveryTypesOK, ProofRecords
    <2>3. ViewsInv /\ GrantsInv
      BY DEF ClaimsInit, ViewsInv, SeenIsCurrent, NoView, GrantsInv, GrantIsCurrent, NoDelivery
    <2>4. \A s \in LogProofs : logClaims[s].status = "none" /\ logClaims[s].status \notin LICENSED
      BY DEF ClaimsInit, NoClaim, LICENSED
    <2>5. ProofsInv
      BY <2>4 DEF ClaimsInit, ProofsInv, eligible_claim, Submitted
    <2> QED
      BY <2>2, <2>3, <2>4, <2>5 DEF ClaimsIInv, ApprovedAsReviewed, LicensedIsKept, OneLicence,
                                    RelianceInv
  <1>2. ClaimsIInv /\ [ClaimsNext]_claimVars => ClaimsIInv'
    BY EachStepMoves, MovesKeep
  <1> QED
    BY <1>1, <1>2, PTL DEF ClaimsSpec

\* What a licence keeps: trajectories.py accepts the package its reviewer downloaded
\* and holds, for one proof of a target, and purge_trajectories.py never clears it.
THEOREM ClaimsLicencesAreSound == ClaimsSpec => []LicencesAreSound
  <1>1. ClaimsIInv => LicencesAreSound
    <2> SUFFICES ASSUME OneLicence PROVE OneLicensePerTarget
      BY DEF ClaimsIInv, LicencesAreSound
    <2> DEFINE licensed == {s \in LogProofs : logClaims[s].status \in LICENSED}
    <2>1. CASE licensed = {}
      BY <2>1, FS_EmptySet DEF OneLicensePerTarget
    <2>2. CASE licensed # {}
      <3>1. PICK s \in licensed : licensed = {s}
        BY <2>2 DEF OneLicence
      <3> QED
        BY <3>1, FS_Singleton DEF OneLicensePerTarget
    <2> QED
      BY <2>1, <2>2
  <1> QED
    BY <1>1, ClaimsInductive, PTL

\* A buyer's right to a package ends for good: once a delivery is invalid because the
\* licence was changed, revoked or lost the decision it is bound to, no later ruling,
\* review or binding makes it valid again (trajectory_fulfillment.py, owned_delivery).
THEOREM ClaimsEndedDeliveryStaysEnded == ClaimsSpec => [][EndedDeliveryStaysEnded]_claimVars
  <1>1. ASSUME ClaimsIInv, Moves, NEW d \in Deliveries, deliveries[d].proof # 0,
               ~ValidDelivery(deliveries[d])
        PROVE  ~ValidDelivery(deliveries[d])'
    <2> DEFINE g == deliveries[d]
    <2>0. PICK s : s = g.proof
      OBVIOUS
    <2>1. /\ g \in DeliveryRecords /\ GrantIsCurrent(g) /\ s \in LogProofs /\ Submitted(s)
          /\ g.version \in Nat
      BY <1>1, <2>0 DEF ClaimsIInv, DeliveryTypesOK, GrantsInv, GrantIsCurrent, NoDelivery, DeliveryRecords
    <2>2. /\ deliveries'[d].proof = s /\ deliveries'[d].package = g.package
          /\ deliveries'[d].version = g.version /\ (g.revoked => deliveries'[d].revoked)
      BY <1>1, <2>0 DEF Moves, DeliveryPart, DeliveryMoves, NoDelivery
    <2>3. CASE g.revoked
      BY <2>2, <2>3 DEF ValidDelivery
    <2>4. /\ logClaims[s] \in ClaimRecords /\ logClaims'[s] \in ClaimRecords
          /\ \/ logClaims'[s].version > logClaims[s].version
             \/ /\ logClaims'[s].version = logClaims[s].version
                /\ logClaims'[s].bound = logClaims[s].bound
      BY <1>1, <2>1, ClaimsAreNumbered, EachClaimMoves
    <2>5. CASE g.version # logClaims[s].version
      <3>1. g.version < logClaims[s].version
        BY <1>1, <2>0, <2>1, <2>4, <2>5 DEF GrantIsCurrent, ClaimRecords
      <3>2. deliveries'[d].version # logClaims'[s].version
        BY <2>1, <2>2, <2>4, <3>1 DEF ClaimRecords
      <3> QED
        BY <2>2, <3>2 DEF ValidDelivery
    <2>6. CASE ~g.revoked /\ g.version = logClaims[s].version
      <3>1. g.package = logClaims[s].package /\ logClaims[s].status \in LICENSED
        BY <1>1, <2>0, <2>1, <2>6 DEF GrantIsCurrent
      <3>2. logClaims[s].bound # latest_binding_decision(s)
        <4>1. content_available(s)
          BY <1>1, <2>1, <3>1 DEF content_available, ClaimsIInv, LicensedIsKept
        <4>2. effective_status(s) \notin LICENSED
          BY <1>1, <2>0, <2>6, <3>1, <4>1 DEF ValidDelivery, require_accepted
        <4>3. ~eligible_claim(s) \/ latest_binding_decision(s) # logClaims[s].bound
          BY <3>1, <4>2 DEF effective_status, LICENSED
        <4> QED
          BY <1>1, <2>1, <3>1, <4>3 DEF ClaimsIInv, RelianceInv, ReliedOn
      <3>3. logClaims[s].bound # latest_binding_decision(s)'
        <4>1. logClaims[s].bound \in 1..Len(logRulings) /\ Len(logRulings) \in Nat
          BY <1>1, <2>1, <3>1 DEF ClaimsIInv, RelianceInv, ReliedOn, ClaimTypesOK
        <4>2. ProofMoves(s)
          BY <1>1, <2>1 DEF Moves, ProofPart
        <4>3. CASE latest_binding_decision(s)' = latest_binding_decision(s)
          BY <3>2, <4>3
        <4>4. CASE latest_binding_decision(s)' = Len(logRulings) + 1
          BY <4>1, <4>4
        <4> QED
          BY <4>2, <4>3, <4>4 DEF ProofMoves
      <3>4. CASE logClaims'[s].version > logClaims[s].version
        BY <2>1, <2>2, <2>4, <2>6, <3>4 DEF ValidDelivery, ClaimRecords
      <3>5. CASE logClaims'[s].bound = logClaims[s].bound
        <4>1. ~require_accepted(s)'
          <5>1. CASE logClaims'[s].status \in LICENSED
            <6>1. effective_status(s)' = "BLOCKED_PROOF_CHANGED"
              BY <3>3, <3>5, <5>1 DEF effective_status
            <6> QED
              BY <6>1 DEF require_accepted, LICENSED
          <5>2. CASE logClaims'[s].status \notin LICENSED
            <6>1. effective_status(s)' \in {"EXPIRED", logClaims'[s].status}
              BY <5>2 DEF effective_status
            <6> QED
              BY <5>2, <6>1 DEF require_accepted, LICENSED
          <5> QED
            BY <5>1, <5>2
        <4> QED
          BY <2>2, <4>1 DEF ValidDelivery
      <3> QED
        BY <2>4, <3>4, <3>5
    <2> QED
      BY <2>3, <2>5, <2>6
  <1>2. ClaimsIInv /\ [ClaimsNext]_claimVars => [EndedDeliveryStaysEnded]_claimVars
    BY <1>1, EachStepMoves DEF EndedDeliveryStaysEnded
  <1> QED
    BY <1>2, ClaimsInductive, PTL DEF ClaimsSpec

\* Giving up required logs gives up the bounty: forfeit_bounty rules against the proof
\* exactly when it could still hold the reward, and otherwise it holds none.
THEOREM ClaimsForfeitedHoldsNothing == ClaimsSpec => [][ForfeitedHoldsNothing]_claimVars
  <1>1. ASSUME ClaimsIInv, NEW s \in LogProofs, required(s), GivesUp(s)
        PROVE  proofs'[s].reward = "INELIGIBLE"
    <2>1. proofs \in [LogProofs -> ProofRecords] /\ proofs[s] \in ProofRecords
      BY <1>1 DEF ClaimsIInv, DeliveryTypesOK
    <2>2. CASE RuledLog(s, FALSE)
      BY <2>1, <2>2 DEF RuledLog, ProofRecords
    <2>3. CASE /\ UNCHANGED proofs
               /\ \/ proofs[s].verification # "VERIFIED"
                  \/ latest_binding_decision(s) # 0 /\ proofs[s].review # "APPROVED"
      <3>1. ~eligible_claim(s)
        BY <2>3 DEF eligible_claim
      <3> QED
        BY <1>1, <2>1, <2>3, <3>1 DEF ClaimsIInv, ProofsInv, ProofRecords
    <2> QED
      BY <1>1, <2>2, <2>3 DEF GivesUp, forfeit_bounty
  <1>2. ASSUME ClaimsIInv, Moves, NEW s \in LogProofs, required(s),
               logClaims'[s].status \in FORFEITED, logClaims[s].status \notin FORFEITED
        PROVE  proofs'[s].reward = "INELIGIBLE"
    <2>1. GivesUp(s)
      BY <1>2, EachClaimMoves, StatusFacts DEF ClaimMoves
    <2> QED
      BY <1>1, <1>2, <2>1
  <1>3. ClaimsIInv /\ [ClaimsNext]_claimVars => [ForfeitedHoldsNothing]_claimVars
    BY <1>2, EachStepMoves DEF ForfeitedHoldsNothing
  <1> QED
    BY <1>3, ClaimsInductive, PTL DEF ClaimsSpec
=============================================================================

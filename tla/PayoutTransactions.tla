------------------------- MODULE PayoutTransactions -------------------------
(***************************************************************************)
(* The transactions that meet at one submission and its payout obligation, *)
(* statement by statement.                                                 *)
(*                                                                         *)
(* submission_api/routers/reviews.py, db/submissions.py   a correction     *)
(* submission_api/routers/trajectories.py                 required chat    *)
(*                                logs approved, refused, revoked, rebound *)
(* payout_notifier/worker.py, V012, V043, V046 triggers   the obligation   *)
(*                                            and the Discord notification *)
(* db/payouts.py                             the watcher's mark and settle *)
(* db/payout_instructions.py                 cancel and restore            *)
(*                                                                         *)
(* PostgreSQL runs them at READ COMMITTED: a plain SELECT sees what is     *)
(* committed when it runs, SELECT ... FOR UPDATE waits for the row and     *)
(* then sees its latest version, and a commit publishes all writes at once *)
(* and releases every lock.  The last wait of a transaction and its commit *)
(* are one step.  A submission's manual_review_status is written together  *)
(* with its decisions, so it is the outcome of the last one.               *)
(***************************************************************************)
EXTENDS Integers, Sequences, FiniteSets

CONSTANTS
    Txns,            \* sessions that may hold a transaction at once
    Nobody,          \* owner of a free row lock
    ChatLogsPolicy,  \* bounty_policy_version is linear-age-v3-chat-logs
    MaxDecisions,    \* bound: binding decisions
    MaxVersion       \* bound: state_version of the evidence claim

ASSUME TransactionConstants ==
    /\ Nobody \notin Txns
    /\ ChatLogsPolicy \in BOOLEAN
    /\ MaxDecisions \in Nat \ {0} /\ MaxVersion \in Nat

VARIABLES
    \* review_decisions (outcome, supersedes_id), oldest first; submissions.reward_status
    decisions, reward,
    \* trajectory_claims: status, proof_review_decision_id, state_version
    evidence, boundTo, version,
    \* reward_events.status, latest instruction action, a ledger row with its fingerprint
    event, cancelled, recorded,
    \* payout_discord_deliveries.status
    delivery,
    \* row locks, and the transactions
    subLock, eventLock, txn

reviewVars == <<decisions, reward>>
evidenceVars == <<evidence, boundTo, version>>
payoutVars == <<event, cancelled, recorded>>
vars == <<reviewVars, evidenceVars, payoutVars, delivery, subLock, eventLock, txn>>

Kinds == {"CorrectUp", "CorrectDown", "Forfeit", "Revoke", "Seed", "Mark", "Settle",
          "Cancel", "Restore", "Notify"}
Places == {"LockEvent", "LockSubmission", "LockEventAgain", "CheckAmount", "Insert"}
Idle == [kind |-> "None", at |-> "Idle", decision |-> 0, version |-> 0]
EvidenceStates == {"UNDER_REVIEW", "APPROVED", "REJECTED", "WITHDRAWN", "REVOKED"}
Txn == {Idle} \cup [kind : Kinds, at : Places, decision : 1..MaxDecisions, version : 0..MaxVersion]

TypeOK ==
    /\ decisions \in Seq([outcome : {"APPROVED", "REJECTED"}, supersedes : 0..MaxDecisions])
    /\ Len(decisions) \in 1..MaxDecisions
    /\ reward \in {"INELIGIBLE", "ELIGIBLE", "REWARDED"}
    /\ evidence \in EvidenceStates
    /\ boundTo \in 0..MaxDecisions /\ version \in 0..MaxVersion
    /\ event \in {"None", "PENDING", "SUBMITTED", "CONFIRMED"}
    /\ cancelled \in BOOLEAN /\ recorded \in BOOLEAN
    /\ delivery \in {"None", "PENDING", "SENDING", "SENT", "FAILED"}
    /\ subLock \in Txns \cup {Nobody} /\ eventLock \in Txns \cup {Nobody}
    /\ txn \in [Txns -> Txn]

Current == Len(decisions)
Approved == decisions[Current].outcome = "APPROVED"

\* A proof a human approved for the full bounty, its chat logs still to be reviewed.
Init ==
    /\ decisions = <<[outcome |-> "APPROVED", supersedes |-> 0]>>
    /\ reward = "ELIGIBLE"
    /\ evidence = "UNDER_REVIEW" /\ boundTo = 0 /\ version = 0
    /\ event = "None" /\ cancelled = FALSE /\ recorded = FALSE
    /\ delivery = "None"
    /\ subLock = Nobody /\ eventLock = Nobody
    /\ txn = [t \in Txns |-> Idle]

-----------------------------------------------------------------------------
(* Transactions. *)

\* bounty_trajectory_eligible: legacy submissions need no evidence.
Eligible ==
    ChatLogsPolicy => /\ Approved /\ reward \in {"ELIGIBLE", "REWARDED"}
                      /\ evidence = "APPROVED" /\ boundTo = Current

Sendable == event = "PENDING" /\ ~cancelled /\ Eligible
Unsigned == event = "PENDING"

\* _reward_event_exists
BlocksWithdrawalIfSigned == event # "None" /\ ~Unsigned
BlocksWithdrawal == event # "None" /\ ~(Unsigned /\ cancelled)

At(t, kind, place) == txn[t].kind = kind /\ txn[t].at = place
MoveTo(t, place) == txn' = [txn EXCEPT ![t].at = place]

\* Commit or rollback: every lock is released.
EndKeepingLocks(t) == txn' = [txn EXCEPT ![t] = Idle] /\ UNCHANGED <<subLock, eventLock>>
End(t) ==
    /\ txn' = [txn EXCEPT ![t] = Idle]
    /\ subLock' = IF subLock = t THEN Nobody ELSE subLock
    /\ eventLock' = IF eventLock = t THEN Nobody ELSE eventLock

\* The caller names the decision and the claim version it was shown.
Begin(t, kind, place) ==
    /\ txn[t] = Idle
    /\ txn' = [txn EXCEPT ![t] = [kind |-> kind, at |-> place,
                                  decision |-> Current, version |-> version]]
    /\ UNCHANGED <<reviewVars, evidenceVars, payoutVars, delivery, subLock, eventLock>>

SubmissionFree(t) == subLock \in {Nobody, t}
EventFree(t) == event = "None" \/ eventLock \in {Nobody, t}

Supersede(outcome, named) ==
    decisions' = Append(decisions, [outcome |-> outcome, supersedes |-> named])

\* audit: every change of the claim moves its version.
EvidenceBecomes(status) ==
    /\ version < MaxVersion   \* the bound
    /\ evidence' = status /\ version' = version + 1

-----------------------------------------------------------------------------
(* correct_human_decision and forfeit_bounty.                              *)

Withdrawals == {"CorrectDown", "Forfeit"}
Reviewable == ChatLogsPolicy /\ evidence = "UNDER_REVIEW"
BeginCorrection(t) ==
    /\ Current < MaxDecisions
    /\ \/ Begin(t, "CorrectUp", "LockEvent")
       \/ Begin(t, "CorrectDown", "LockEvent")
       \/ Reviewable /\ version < MaxVersion /\ Begin(t, "Forfeit", "LockEvent")

\* First statement: lock the payout rows that exist.
LockEventFirst(t) ==
    /\ txn[t].kind \in {"CorrectUp"} \cup Withdrawals /\ txn[t].at = "LockEvent"
    /\ EventFree(t)
    /\ eventLock' = IF event = "None" THEN eventLock ELSE t
    /\ MoveTo(t, "LockSubmission")
    /\ UNCHANGED <<reviewVars, evidenceVars, payoutVars, delivery, subLock>>

CorrectionStale(t) ==
    IF txn[t].kind = "Forfeit"
    THEN txn[t].version # version
    ELSE txn[t].decision # Current

CorrectToApproved(t) ==
    /\ At(t, "CorrectUp", "LockSubmission") /\ SubmissionFree(t)
    /\ IF CorrectionStale(t)
       THEN UNCHANGED reviewVars
       ELSE Supersede("APPROVED", txn[t].decision) /\ reward' = "ELIGIBLE"
    /\ End(t)
    /\ UNCHANGED <<evidenceVars, payoutVars, delivery>>

\* The writes of a withdrawal; a forfeit (logs rejected by a reviewer or withdrawn by
\* their owner) corrects only an approval.
Withdraw(t) ==
    /\ IF txn[t].kind = "Forfeit" /\ ~Approved
       THEN UNCHANGED reviewVars
       ELSE Supersede("REJECTED", Current) /\ reward' = "INELIGIBLE"
    /\ IF txn[t].kind = "Forfeit"
       THEN /\ \E status \in {"REJECTED", "WITHDRAWN"} : EvidenceBecomes(status)
            /\ UNCHANGED boundTo
       ELSE UNCHANGED evidenceVars
    /\ End(t)

\* Withdrawing an approval goes on to look for payouts, holding the submission.
LockSubmissionForWithdrawal(t) ==
    /\ txn[t].kind \in Withdrawals /\ txn[t].at = "LockSubmission" /\ SubmissionFree(t)
    /\ \/ /\ CorrectionStale(t) \/ Current = MaxDecisions \/ (Approved /\ reward = "REWARDED")
          /\ End(t) /\ UNCHANGED <<reviewVars, evidenceVars>>
       \/ /\ ~CorrectionStale(t) /\ Current < MaxDecisions /\ Approved /\ reward # "REWARDED"
          /\ subLock' = t /\ MoveTo(t, "LockEventAgain")
          /\ UNCHANGED <<eventLock, reviewVars, evidenceVars>>
       \/ ~CorrectionStale(t) /\ Current < MaxDecisions /\ ~Approved /\ Withdraw(t)
    /\ UNCHANGED <<payoutVars, delivery>>

\* _reward_event_exists locks whatever payout rows exist by now; one that is not
\* an unsigned, cancelled instruction refuses the withdrawal.
LookForPayouts(t) ==
    /\ txn[t].kind \in Withdrawals /\ txn[t].at = "LockEventAgain" /\ EventFree(t)
    /\ IF BlocksWithdrawal THEN End(t) /\ UNCHANGED <<reviewVars, evidenceVars>> ELSE Withdraw(t)
    /\ UNCHANGED <<payoutVars, delivery>>

-----------------------------------------------------------------------------
(* Chat-log evidence, under the submission lock.                           *)

ApproveEvidence ==
    /\ subLock = Nobody
    /\ Reviewable /\ Approved /\ reward \in {"ELIGIBLE", "REWARDED"}
    /\ EvidenceBecomes("APPROVED") /\ boundTo' = Current
    /\ UNCHANGED <<reviewVars, payoutVars, delivery, subLock, eventLock, txn>>

\* REBIND_PROOF_DECISION: only approvals since the one the evidence was bound to.
RebindEvidence ==
    /\ subLock = Nobody
    /\ evidence = "APPROVED" /\ boundTo # Current
    /\ Approved /\ reward \in {"ELIGIBLE", "REWARDED"}
    /\ \A d \in boundTo..Current : decisions[d].outcome = "APPROVED"
    /\ EvidenceBecomes("APPROVED") /\ boundTo' = Current
    /\ UNCHANGED <<reviewVars, payoutVars, delivery, subLock, eventLock, txn>>

ReopenEvidence ==
    /\ subLock = Nobody
    /\ evidence \in {"REVOKED", "REJECTED"}
    /\ EvidenceBecomes("UNDER_REVIEW")
    /\ UNCHANGED <<boundTo, reviewVars, payoutVars, delivery, subLock, eventLock, txn>>

\* REVOKE_PROOF_CHANGED asks for payouts first (event before submission), then locks
\* the submission and the claim and looks at the evidence.
BeginRevoke(t) == evidence = "APPROVED" /\ version < MaxVersion /\ Begin(t, "Revoke", "LockEvent")

LockEventForRevoke(t) ==
    /\ At(t, "Revoke", "LockEvent") /\ EventFree(t)
    /\ IF BlocksWithdrawal
       THEN End(t)
       ELSE /\ eventLock' = IF event = "None" THEN eventLock ELSE t
            /\ MoveTo(t, "LockSubmission") /\ UNCHANGED subLock
    /\ UNCHANGED <<reviewVars, evidenceVars, payoutVars, delivery>>

ProofChanged == evidence = "APPROVED" /\ ~(Approved /\ reward # "INELIGIBLE" /\ boundTo = Current)

CommitRevoke(t) ==
    /\ At(t, "Revoke", "LockSubmission") /\ SubmissionFree(t)
    /\ IF txn[t].version = version /\ ProofChanged
       THEN EvidenceBecomes("REVOKED") /\ UNCHANGED boundTo
       ELSE UNCHANGED evidenceVars
    /\ End(t)
    /\ UNCHANGED <<reviewVars, payoutVars, delivery>>

-----------------------------------------------------------------------------
(* The notifier.                                                           *)

Running(kind) == \E t \in Txns : txn[t].kind = kind

\* seed_reward_events reads its candidates in a transaction of their own.
BeginSeed(t) ==
    /\ reward = "ELIGIBLE" /\ event = "None" /\ Eligible /\ ~Running("Seed")
    /\ Begin(t, "Seed", "CheckAmount")

\* Trigger enforce_locked_reward_event reads the submission without a lock.
CheckLockedAmount(t) ==
    /\ At(t, "Seed", "CheckAmount")
    /\ IF reward = "ELIGIBLE" THEN MoveTo(t, "Insert") /\ UNCHANGED <<subLock, eventLock>> ELSE End(t)
    /\ UNCHANGED <<reviewVars, evidenceVars, payoutVars, delivery>>

\* Trigger require_bounty_trajectory locks the submission and asks Eligible again;
\* the unique generation key admits one obligation.
InsertRewardUnchecked(t) ==
    /\ At(t, "Seed", "Insert") /\ SubmissionFree(t)
    /\ event' = IF event = "None" THEN "PENDING" ELSE event
    /\ End(t)
    /\ UNCHANGED <<reviewVars, evidenceVars, cancelled, recorded, delivery>>
InsertReward(t) ==
    /\ At(t, "Seed", "Insert") /\ SubmissionFree(t)
    /\ event' = IF event = "None" /\ Eligible THEN "PENDING" ELSE event
    /\ End(t)
    /\ UNCHANGED <<reviewVars, evidenceVars, cancelled, recorded, delivery>>

\* seed, for one signer
SeedDelivery ==
    /\ Sendable /\ delivery = "None"
    /\ delivery' = "PENDING"
    /\ UNCHANGED <<reviewVars, evidenceVars, payoutVars, subLock, eventLock, txn>>

\* claim picks the delivery on its statement's snapshot and then locks it and the
\* event, skipping both when either is locked.  Neither row is changed by a
\* cancellation, so the predicate is not evaluated again.  A lease may have run out.
BeginNotify(t) ==
    /\ Sendable /\ delivery \in {"PENDING", "FAILED", "SENDING"} /\ ~Running("Notify")
    /\ Begin(t, "Notify", "LockEvent")

ClaimDelivery(t) ==
    /\ At(t, "Notify", "LockEvent")
    /\ delivery' = IF eventLock = Nobody /\ event = "PENDING" /\ delivery # "SENT"
                   THEN "SENDING" ELSE delivery
    /\ End(t)
    /\ UNCHANGED <<reviewVars, evidenceVars, payoutVars>>

FinishDelivery ==
    /\ delivery = "SENDING"
    /\ delivery' \in {"SENT", "FAILED"}
    /\ UNCHANGED <<reviewVars, evidenceVars, payoutVars, subLock, eventLock, txn>>

-----------------------------------------------------------------------------
(* The watcher and the operator: event first, then submission.             *)

\* mark_submitted chooses the event on a snapshot.
BeginMark(t) ==
    /\ event = "PENDING" /\ ~cancelled /\ ~Running("Mark")
    /\ Begin(t, "Mark", "LockEvent")

RecordTransfer ==
    /\ event # "None" /\ ~recorded
    /\ recorded' = TRUE
    /\ UNCHANGED <<reviewVars, evidenceVars, event, cancelled, delivery, subLock, eventLock, txn>>

\* The watcher's claim_payout, or an operator's bind_payout, which asks neither for a
\* clock nor for an enabled instruction.  The ledger row's lock admits one.
BeginSettle(t) ==
    /\ recorded /\ event \in {"PENDING", "SUBMITTED"} /\ ~Running("Settle")
    /\ Begin(t, "Settle", "LockEvent")

BeginChange(t) ==
    /\ event # "None"
    /\ \/ Current < MaxDecisions /\ Begin(t, "Cancel", "LockEvent")
       \/ Begin(t, "Restore", "LockEvent")

LockEventAlone(t) ==
    /\ txn[t].kind \in {"Mark", "Settle", "Cancel", "Restore"} /\ txn[t].at = "LockEvent"
    /\ eventLock = Nobody
    /\ IF txn[t].kind = "Mark" /\ event # "PENDING"
       THEN End(t)
       ELSE eventLock' = t /\ MoveTo(t, "LockSubmission") /\ UNCHANGED subLock
    /\ UNCHANGED <<reviewVars, evidenceVars, payoutVars, delivery>>

CommitMark(t) ==
    /\ At(t, "Mark", "LockSubmission") /\ SubmissionFree(t)
    /\ event' = IF reward = "ELIGIBLE" THEN "SUBMITTED" ELSE event
    /\ End(t)
    /\ UNCHANGED <<reviewVars, evidenceVars, cancelled, recorded, delivery>>

CommitSettle(t) ==
    /\ At(t, "Settle", "LockSubmission") /\ SubmissionFree(t)
    /\ IF reward = "INELIGIBLE"
       THEN UNCHANGED <<event, reward>>
       ELSE event' = "CONFIRMED" /\ reward' = "REWARDED"
    /\ End(t)
    /\ UNCHANGED <<decisions, evidenceVars, cancelled, recorded, delivery>>

\* revert_submitted locks the event only.
RevertSubmitted ==
    /\ event = "SUBMITTED" /\ eventLock = Nobody /\ ~Running("Mark")
    /\ event' = "PENDING"
    /\ UNCHANGED <<reviewVars, evidenceVars, cancelled, recorded, delivery, subLock, eventLock, txn>>

\* change_instruction's checks, under both locks.  A cancellation always appends a
\* decision, so an unchanged decision and the disposition cover expected_action_id.
Changeable(t) ==
    /\ txn[t].decision = Current
    /\ Unsigned /\ ~recorded /\ delivery # "SENDING"
    /\ Approved /\ reward = "ELIGIBLE"
    /\ cancelled = (txn[t].kind = "Restore")

CommitCancel(t) ==
    /\ At(t, "Cancel", "LockSubmission") /\ SubmissionFree(t)
    /\ IF Changeable(t)
       THEN cancelled' = TRUE /\ Supersede("REJECTED", Current) /\ reward' = "INELIGIBLE"
       ELSE UNCHANGED <<cancelled, reviewVars>>
    /\ End(t)
    /\ UNCHANGED <<evidenceVars, event, recorded, delivery>>

CommitRestore(t) ==
    /\ At(t, "Restore", "LockSubmission") /\ SubmissionFree(t)
    /\ cancelled' = IF Changeable(t) THEN FALSE ELSE cancelled
    /\ End(t)
    /\ UNCHANGED <<reviewVars, evidenceVars, event, recorded, delivery>>

-----------------------------------------------------------------------------
\* PostgreSQL's deadlock detector rolls back one of two transactions that wait for
\* each other.
WaitsForEvent(t) == txn[t].at = "LockEventAgain" /\ ~EventFree(t)
WaitsForSubmission(t) ==
    txn[t].at \in {"LockSubmission", "Insert"} /\ ~SubmissionFree(t)
DeadlockVictim(t) ==
    /\ \E u \in Txns : \/ WaitsForEvent(t) /\ eventLock = u /\ WaitsForSubmission(u) /\ subLock = t
                       \/ WaitsForEvent(u) /\ eventLock = t /\ WaitsForSubmission(t) /\ subLock = u
    /\ End(t)
    /\ UNCHANGED <<reviewVars, evidenceVars, payoutVars, delivery>>

Open(t) ==
    \/ BeginCorrection(t) \/ BeginRevoke(t) \/ BeginSeed(t) \/ BeginNotify(t)
    \/ BeginMark(t) \/ BeginSettle(t) \/ BeginChange(t)

Proceed(t) ==
    \/ LockEventFirst(t) \/ CorrectToApproved(t)
    \/ LockSubmissionForWithdrawal(t) \/ LookForPayouts(t)
    \/ LockEventForRevoke(t) \/ CommitRevoke(t)
    \/ CheckLockedAmount(t) \/ InsertReward(t) \/ ClaimDelivery(t)
    \/ LockEventAlone(t) \/ CommitMark(t) \/ CommitSettle(t)
    \/ CommitCancel(t) \/ CommitRestore(t)
    \/ DeadlockVictim(t)

Short ==
    \/ ApproveEvidence \/ RebindEvidence \/ ReopenEvidence
    \/ SeedDelivery \/ FinishDelivery \/ RecordTransfer \/ RevertSubmitted

Next ==
    \/ \E t \in Txns : Open(t) \/ Proceed(t)
    \/ Short

Spec == Init /\ [][Next]_vars

\* A transaction that can take its next statement takes it.
FairSpec == Spec /\ \A t \in Txns : SF_vars(Proceed(t))
-----------------------------------------------------------------------------
(* Properties. *)

\* Safety.  Money is owed only for an approved proof: whatever corrections, forfeits,
\* cancellations and chain observations overlap, an obligation belongs to an approved
\* and eligible submission, or is unsigned and cancelled.
OwedOnlyIfApproved ==
    event # "None" => (Approved /\ reward # "INELIGIBLE") \/ (Unsigned /\ cancelled)

\* Safety.  Corrections form a chain: every decision supersedes the one that was
\* current when it was written, so no decision is corrected twice.
DecisionsFormAChain ==
    \A d \in 1..Current : decisions[d].supersedes = d - 1

\* Action property.  A new obligation is authorized by the state it commits in, not by
\* the one its candidate was read in: the approval is current and the chat logs were
\* accepted for exactly that decision.
InsertedIsAuthorized ==
    [][(event = "None" /\ event' = "PENDING" /\ ChatLogsPolicy) =>
          Approved /\ reward = "ELIGIBLE" /\ evidence = "APPROVED" /\ boundTo = Current]_vars

\* Liveness.  No transaction waits forever: those that wait for each other are told
\* apart by the deadlock detector.
TransactionsEnd == \A t \in Txns : (txn[t] # Idle) ~> (txn[t] = Idle)

=============================================================================

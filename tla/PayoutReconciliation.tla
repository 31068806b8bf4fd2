----------------------- MODULE PayoutReconciliation -----------------------
(***************************************************************************)
(* What a treasury payout on chain does to the obligations in the          *)
(* database.                                                               *)
(*                                                                         *)
(* payout_watcher/watcher.py              one pass of the watcher          *)
(* conjectures_subnet/db/payouts.py       its transactions, and the        *)
(*                                        operator's bind and disregard    *)
(* conjectures_subnet/db/payout_instructions.py   cancel and restore       *)
(* conjectures_subnet/db/submissions.py   human decision and correction    *)
(* payout_notifier/worker.py              seeding the obligation           *)
(*                                                                         *)
(* A submission has at most one obligation (generation_key), so the        *)
(* columns of reward_events are functions of the submission.  Each action  *)
(* is one transaction, except a claim or a best-chain mark: its SELECT ... *)
(* FOR UPDATE evaluates the match on a snapshot (Match) and then waits for *)
(* the event's row lock; only the event's own columns are re-evaluated     *)
(* after the wait (Apply).                                                 *)
(***************************************************************************)
EXTENDS Chain, FiniteSets

CONSTANTS
    Subs,           \* submissions Lean verified
    TargetOf,       \* reward_target_id of a submission
    Pays,           \* {<<t, s>>}: transfer t has the fingerprint of s's obligation
    Reserved,       \* transfers that pay a prepared chat-log bonus
    NoSub, NoRef,   \* SQL NULL
    Batch,          \* batch_blocks
    Tolerance,      \* CHAIN_CLOCK_TOLERANCE, in ticks
    CancelWindow,   \* how far back change_instruction looks for a transfer, in ticks
    MaxFailures     \* bound: passes that fail for reasons of their own

ASSUME PayoutConstants ==
    /\ NoSub \notin Subs /\ NoRef \notin Refs
    /\ Pays \subseteq Transfers \X Subs
    /\ Reserved \subseteq Transfers
    /\ Batch \in Nat \ {0}
    /\ Tolerance \in Nat /\ CancelWindow \in Nat /\ MaxFailures \in Nat

VARIABLES
    \* submissions
    review, reward,
    \* reward_events: status, extrinsic_reference, created_at, latest instruction action
    event, ref, bornAt, cancelled,
    \* treasury_payouts: status, reward_event_id
    ledger, paidFor,
    \* payout_watch_cursor: last_scanned_block and start_block; 0 before it is opened
    cursor, start,
    \* the watcher's pass
    phase, step, head, last, tip, cur, read, match, seen, retry, gone, failures

subVars == <<review, reward>>
eventVars == <<event, ref, bornAt, cancelled>>
ledgerVars == <<ledger, paidFor>>
cursorVars == <<cursor, start>>
passVars == <<phase, step, head, last, tip, cur, read, match, seen, retry, gone>>
vars == <<chainVars, subVars, eventVars, ledgerVars, cursorVars, passVars, failures>>

EmptyBlock == [at |-> 0, pays |-> <<>>]

TypeOK ==
    /\ ChainTypeOK
    /\ review \in [Subs -> {"UNREVIEWED", "APPROVED", "REJECTED"}]
    /\ reward \in [Subs -> {"INELIGIBLE", "ELIGIBLE", "REWARDED"}]
    /\ event \in [Subs -> {"None", "PENDING", "SUBMITTED", "CONFIRMED"}]
    /\ ref \in [Subs -> Refs \cup {NoRef}]
    /\ bornAt \in [Subs -> 0..MaxNow]
    /\ cancelled \in [Subs -> BOOLEAN]
    /\ ledger \in [Refs -> {"Absent", "UNCLAIMED", "CLAIMED", "DISREGARDED"}]
    /\ paidFor \in [Refs -> Subs \cup {NoSub}]
    /\ cursor \in 0..MaxHeight /\ start \in 0..MaxHeight
    /\ phase \in {"Idle", "Scan", "Retry", "Tail", "Revert"}
    /\ step \in {"Next", "Match", "Apply"}
    /\ head \in 0..MaxHeight /\ last \in 0..MaxHeight /\ tip \in 0..MaxHeight
    /\ cur \in (0..(MaxHeight + 1)) \X (0..(MaxPerBlock + 1))
    /\ read \in Blocks
    /\ match \in Subs \cup {NoSub}
    /\ seen \subseteq Refs /\ retry \subseteq Refs
    /\ gone \subseteq Subs \X Refs
    /\ failures \in 0..MaxFailures

Init ==
    /\ ChainInit
    /\ review = [s \in Subs |-> "UNREVIEWED"]
    /\ reward = [s \in Subs |-> "INELIGIBLE"]
    /\ event = [s \in Subs |-> "None"]
    /\ ref = [s \in Subs |-> NoRef]
    /\ bornAt = [s \in Subs |-> 0]
    /\ cancelled = [s \in Subs |-> FALSE]
    /\ ledger = [r \in Refs |-> "Absent"]
    /\ paidFor = [r \in Refs |-> NoSub]
    /\ cursor = 0 /\ start = 0
    /\ phase = "Idle" /\ step = "Next"
    /\ head = 0 /\ last = 0 /\ tip = 0
    /\ cur = <<0, 0>> /\ read = EmptyBlock /\ match = NoSub
    /\ seen = {} /\ retry = {} /\ gone = {}
    /\ failures = 0

-----------------------------------------------------------------------------
(* Reviewers, the notifier and the operator. *)

\* reward_target_holder, and the unique index it mirrors
HoldersRewarded(s) == {t \in Subs \ {s} : TargetOf[t] = TargetOf[s] /\ reward[t] = "REWARDED"}
Holders(s) == {t \in Subs \ {s} : TargetOf[t] = TargetOf[s] /\ reward[t] # "INELIGIBLE"}

Rule(s, decision, rewarded) ==
    /\ review' = [review EXCEPT ![s] = decision]
    /\ reward' = [reward EXCEPT ![s] = rewarded]

\* record_human_decision
Decide(s) ==
    /\ review[s] = "UNREVIEWED" /\ reward[s] = "INELIGIBLE"
    /\ \/ Holders(s) = {} /\ Rule(s, "APPROVED", "ELIGIBLE")
       \/ Rule(s, "REJECTED", "INELIGIBLE")
    /\ UNCHANGED <<chainVars, eventVars, ledgerVars, cursorVars, passVars, failures>>

Unsigned(s) == event[s] = "PENDING" /\ ref[s] = NoRef

\* _reward_event_exists: only an explicitly cancelled, unsigned instruction is exempt.
BlocksWithdrawalIgnoringChain(s) == event[s] # "None" /\ ~cancelled[s] /\ Unsigned(s)
BlocksWithdrawal(s) == event[s] # "None" /\ ~(Unsigned(s) /\ cancelled[s])

\* correct_human_decision of a decided submission, to either outcome
CorrectUp(s) ==
    /\ review[s] # "UNREVIEWED"
    /\ review[s] = "REJECTED" => Holders(s) = {}
    /\ Rule(s, "APPROVED", "ELIGIBLE")
    /\ UNCHANGED <<chainVars, eventVars, ledgerVars, cursorVars, passVars, failures>>

CorrectDown(s) ==
    /\ review[s] # "UNREVIEWED"
    /\ review[s] = "APPROVED" => reward[s] # "REWARDED" /\ ~BlocksWithdrawal(s)
    /\ Rule(s, "REJECTED", "INELIGIBLE")
    /\ UNCHANGED <<chainVars, eventVars, ledgerVars, cursorVars, passVars, failures>>

\* seed_reward_events: the obligation of an eligible submission
Seed(s) ==
    /\ reward[s] = "ELIGIBLE" /\ event[s] = "None"
    /\ event' = [event EXCEPT ![s] = "PENDING"]
    /\ bornAt' = [bornAt EXCEPT ![s] = now]
    /\ UNCHANGED <<chainVars, subVars, ref, cancelled, ledgerVars, cursorVars, passVars, failures>>

\* change_instruction: a recorded transfer that could pay s blocks the change.
TransferKnown(s) ==
    \E r \in Refs : /\ ledger[r] # "Absent"
                    /\ <<TransferAt(r), s>> \in Pays
                    /\ TimeAt(r) >= bornAt[s] - CancelWindow

Changeable(s) ==
    /\ Unsigned(s) /\ ~TransferKnown(s)
    /\ review[s] = "APPROVED" /\ reward[s] = "ELIGIBLE"

\* cancel_and_withdraw: the cancellation and the rejection commit together.
CancelAndWithdraw(s) ==
    /\ Changeable(s) /\ ~cancelled[s]
    /\ cancelled' = [cancelled EXCEPT ![s] = TRUE]
    /\ Rule(s, "REJECTED", "INELIGIBLE")
    /\ UNCHANGED <<chainVars, event, ref, bornAt, ledgerVars, cursorVars, passVars, failures>>

Restore(s) ==
    /\ Changeable(s) /\ cancelled[s]
    /\ cancelled' = [cancelled EXCEPT ![s] = FALSE]
    /\ UNCHANGED <<chainVars, subVars, event, ref, bornAt, ledgerVars, cursorVars, passVars, failures>>

-----------------------------------------------------------------------------
(* Settling an obligation with a recorded payout. *)

\* The watcher's open claim holds the row lock of the payout it is claiming.
LedgerRowLocked(r) == phase \in {"Scan", "Retry"} /\ step = "Apply" /\ cur = r

\* Unique indexes on treasury_payouts.reward_event_id and extrinsic_reference.
IndexesAdmitAnything(s, r) == TRUE
IndexesAdmit(s, r) ==
    /\ \A q \in Refs \ {r} : paidFor[q] # s
    /\ \A t \in Subs \ {s} : ref[t] # r

\* _settle, when it does not raise
Settleable(s, r) == reward[s] \in {"ELIGIBLE", "REWARDED"} /\ IndexesAdmit(s, r)
Settle(s, r) ==
    /\ ledger' = [ledger EXCEPT ![r] = "CLAIMED"]
    /\ paidFor' = [paidFor EXCEPT ![r] = s]
    /\ IF event[s] = "CONFIRMED" /\ reward[s] = "REWARDED"
       THEN UNCHANGED <<event, ref, reward>>
       ELSE /\ event' = [event EXCEPT ![s] = "CONFIRMED"]
            /\ ref' = [ref EXCEPT ![s] = r]
            /\ reward' = [reward EXCEPT ![s] = "REWARDED"]
    /\ UNCHANGED <<review, bornAt, cancelled>>

\* bind_payout, on an operator's authority: no clock rule, no instruction rule.
BindPayout(r, s) ==
    /\ ledger[r] = "UNCLAIMED" /\ ~LedgerRowLocked(r)
    /\ TransferAt(r) \notin Reserved
    /\ event[s] # "None" /\ <<TransferAt(r), s>> \in Pays
    /\ Settleable(s, r)
    /\ Settle(s, r)
    /\ UNCHANGED <<chainVars, cursorVars, passVars, failures>>

DisregardPayout(r) ==
    /\ ledger[r] = "UNCLAIMED" /\ ~LedgerRowLocked(r)
    /\ ledger' = [ledger EXCEPT ![r] = "DISREGARDED"]
    /\ UNCHANGED <<chainVars, subVars, eventVars, paidFor, cursorVars, passVars, failures>>

-----------------------------------------------------------------------------
(* The watcher. *)

EndPass ==
    /\ phase' = "Idle" /\ step' = "Next"
    /\ head' = 0 /\ last' = 0 /\ tip' = 0
    /\ cur' = <<0, 0>> /\ read' = EmptyBlock /\ match' = NoSub
    /\ seen' = {} /\ retry' = {} /\ gone' = {}

Unresolved(s) == event[s] \in {"PENDING", "SUBMITTED"}

OpenCursor ==
    /\ phase = "Idle" /\ start = 0
    /\ \E s \in Subs, n \in 1..fin :
         /\ Unresolved(s) /\ \A t \in Subs : Unresolved(t) => bornAt[s] <= bornAt[t]
         /\ best[n].at >= bornAt[s]
         /\ \A m \in 1..(n - 1) : best[m].at < bornAt[s]
         /\ start' = n /\ cursor' = n - 1
    /\ UNCHANGED <<chainVars, subVars, eventVars, ledgerVars, passVars, failures>>

\* With every finalized block read, go on to the unclaimed payouts an automatic
\* match can still reach; else leave the rest of the backlog to the next pass.
Recent == {r \in Refs : ledger[r] = "UNCLAIMED" /\ TimeAt(r) >= now - Tolerance}
LeaveScan(newHead, newLast) ==
    IF newLast >= newHead
    THEN /\ phase' = "Retry" /\ step' = "Next"
         /\ head' = newHead /\ last' = newLast
         /\ retry' = Recent
         /\ cur' = <<0, 0>> /\ match' = NoSub
         /\ UNCHANGED <<tip, read, seen, gone>>
    ELSE EndPass

BeginPass ==
    /\ phase = "Idle" /\ start # 0
    /\ LET upto == IF fin < cursor + Batch THEN fin ELSE cursor + Batch
       IN IF cursor < upto
          THEN /\ phase' = "Scan" /\ step' = "Next"
               /\ head' = fin /\ last' = upto
               /\ cur' = <<cursor + 1, 1>>
               /\ UNCHANGED <<tip, read, match, seen, retry, gone>>
          ELSE LeaveScan(fin, upto)
    /\ UNCHANGED <<chainVars, subVars, eventVars, ledgerVars, cursorVars, failures>>

\* record_payout, idempotent on the reference, committed before anything
\* interprets it
RecordPayout ==
    /\ phase = "Scan" /\ step = "Next" /\ Extant(cur)
    /\ ledger' = IF ledger[cur] = "Absent" THEN [ledger EXCEPT ![cur] = "UNCLAIMED"] ELSE ledger
    /\ step' = "Match"
    /\ UNCHANGED <<chainVars, subVars, eventVars, paidFor, cursorVars, failures,
                   phase, head, last, tip, cur, read, match, seen, retry, gone>>

\* advance_cursor, after every payout of the block
AdvanceCursorFirst ==
    /\ phase = "Scan" /\ step = "Next" /\ cur[2] >= Len(best[cur[1]].pays)
    /\ cursor' = IF cur[1] > cursor THEN cur[1] ELSE cursor
    /\ IF cur[1] < last
       THEN /\ cur' = <<cur[1] + 1, 1>>
            /\ UNCHANGED <<phase, step, head, last, tip, read, match, seen, retry, gone>>
       ELSE LeaveScan(head, last)
    /\ UNCHANGED <<chainVars, subVars, eventVars, ledgerVars, start, failures>>
AdvanceCursor ==
    /\ phase = "Scan" /\ step = "Next" /\ ~Extant(cur)
    /\ cursor' = IF cur[1] > cursor THEN cur[1] ELSE cursor
    /\ IF cur[1] < last
       THEN /\ cur' = <<cur[1] + 1, 1>>
            /\ UNCHANGED <<phase, step, head, last, tip, read, match, seen, retry, gone>>
       ELSE LeaveScan(head, last)
    /\ UNCHANGED <<chainVars, subVars, eventVars, ledgerVars, start, failures>>

\* _reconcile_recent: the next payout of the list, oldest block first
RetryNext ==
    /\ phase = "Retry" /\ step = "Next"
    /\ \E r \in retry :
         /\ \A q \in retry : r[1] < q[1] \/ (r[1] = q[1] /\ r[2] <= q[2])
         /\ cur' = r /\ retry' = retry \ {r}
    /\ step' = "Match"
    /\ UNCHANGED <<chainVars, subVars, eventVars, ledgerVars, cursorVars, failures,
                   phase, head, last, tip, read, match, seen, gone>>

\* _scan_best_tail begins with the best head of that moment.
BeginTail ==
    /\ phase = "Retry" /\ step = "Next" /\ retry = {}
    /\ phase' = "Tail"
    /\ tip' = IF Len(best) > head THEN Len(best) ELSE head
    /\ cur' = <<head + 1, 0>>
    /\ UNCHANGED <<chainVars, subVars, eventVars, ledgerVars, cursorVars, failures,
                   step, head, last, read, match, seen, retry, gone>>

\* payouts_in(number); a height the chain no longer has raises (PassFails).
ReadTailBlock ==
    /\ phase = "Tail" /\ step = "Next" /\ cur[2] = 0 /\ cur[1] <= tip /\ cur[1] <= Len(best)
    /\ read' = best[cur[1]]
    /\ cur' = <<cur[1], 1>>
    /\ UNCHANGED <<chainVars, subVars, eventVars, ledgerVars, cursorVars, failures,
                   phase, step, head, last, tip, match, seen, retry, gone>>

TailNext ==
    /\ phase = "Tail" /\ step = "Next" /\ cur[2] > 0
    /\ IF cur[2] <= Len(read.pays)
       THEN seen' = seen \cup {cur} /\ step' = "Match" /\ UNCHANGED <<cur, read>>
       ELSE cur' = <<cur[1] + 1, 0>> /\ read' = EmptyBlock /\ UNCHANGED <<seen, step>>
    /\ UNCHANGED <<chainVars, subVars, eventVars, ledgerVars, cursorVars, failures,
                   phase, head, last, tip, match, retry, gone>>

\* submitted_after, less what the tail still shows
EndTail ==
    /\ phase = "Tail" /\ step = "Next" /\ cur[1] > tip
    /\ phase' = "Revert"
    /\ gone' = {<<s, ref[s]>> : s \in {t \in Subs : event[t] = "SUBMITTED" /\ ref[t][1] > head
                                                    /\ ref[t] \notin seen}}
    /\ UNCHANGED <<chainVars, subVars, eventVars, ledgerVars, cursorVars, failures,
                   step, head, last, tip, cur, read, match, seen, retry>>

\* revert_submitted, if the row still is what the list said
RevertUnchecked ==
    /\ phase = "Revert"
    /\ \E g \in gone :
         /\ gone' = gone \ {g}
         /\ event' = [event EXCEPT ![g[1]] = "PENDING"]
         /\ ref' = [ref EXCEPT ![g[1]] = NoRef]
    /\ UNCHANGED <<chainVars, subVars, bornAt, cancelled, ledgerVars, cursorVars, failures,
                   phase, step, head, last, tip, cur, read, match, seen, retry>>
Revert ==
    /\ phase = "Revert"
    /\ \E g \in gone :
         /\ gone' = gone \ {g}
         /\ IF event[g[1]] = "SUBMITTED" /\ ref[g[1]] = g[2]
            THEN /\ event' = [event EXCEPT ![g[1]] = "PENDING"]
                 /\ ref' = [ref EXCEPT ![g[1]] = NoRef]
            ELSE UNCHANGED <<event, ref>>
    /\ UNCHANGED <<chainVars, subVars, bornAt, cancelled, ledgerVars, cursorVars, failures,
                   phase, step, head, last, tip, cur, read, match, seen, retry>>

FinishPass ==
    /\ phase = "Revert" /\ gone = {}
    /\ EndPass
    /\ UNCHANGED <<chainVars, subVars, eventVars, ledgerVars, cursorVars, failures>>

-----------------------------------------------------------------------------
(* One claim (claim_payout) or one best-chain mark (mark_submitted).        *)

Observed == IF phase = "Tail" THEN read ELSE best[cur[1]]
Paid == Observed.pays[cur[2]]

\* The fingerprint and clock part of _oldest_match, and its instruction part.
Fits(s) == <<Paid, s>> \in Pays /\ bornAt[s] <= Observed.at + Tolerance
Open(s) == event[s] = "PENDING" /\ ref[s] = NoRef
Candidates == {s \in Subs : Open(s) /\ ~cancelled[s] /\ Fits(s)}
ByReferencePending == {s \in Subs : ref[s] = cur /\ event[s] = "PENDING"}
ByReference == {s \in Subs : ref[s] = cur}

\* Return from the claim or the mark to the loop that called it.
Resume ==
    /\ step' = "Next" /\ match' = NoSub
    /\ cur' = IF phase = "Retry" THEN <<0, 0>> ELSE <<cur[1], cur[2] + 1>>
    /\ UNCHANGED <<phase, head, last, tip, read, seen, retry, gone>>

\* Nothing to do: the payout is no longer UNCLAIMED or belongs to a bonus, the
\* marked event already shows this reference, or nothing matches.
Passed ==
    \/ phase # "Tail" /\ (ledger[cur] # "UNCLAIMED" \/ Paid \in Reserved)
    \/ phase = "Tail" /\ \E s \in ByReference : <<Paid, s>> \in Pays
    \/ ByReference = {} /\ Candidates = {}

\* The reference is attached to a different payout: PayoutConflict ends the pass.
Conflicting == ~Passed /\ \E s \in ByReference : <<Paid, s>> \notin Pays

MatchEvent ==
    /\ step = "Match"
    /\ \/ Passed /\ Resume
       \/ Conflicting /\ EndPass
       \/ /\ ~Passed /\ ~Conflicting
          /\ \E s \in IF ByReference # {} THEN ByReference ELSE Candidates :
               /\ ByReference = {} => \A t \in Candidates : bornAt[s] <= bornAt[t]
               /\ match' = s
          /\ step' = "Apply"
          /\ UNCHANGED <<phase, head, last, tip, cur, read, seen, retry, gone>>
    /\ UNCHANGED <<chainVars, subVars, eventVars, ledgerVars, cursorVars, failures>>

\* After the wait for the event's row lock only its own columns are looked at again.
StillThere == Open(match) \/ ref[match] = cur

ApplyClaim ==
    /\ phase \in {"Scan", "Retry"} /\ step = "Apply"
    /\ \/ ~StillThere /\ Resume /\ UNCHANGED <<subVars, eventVars, ledgerVars>>
       \/ StillThere /\ ~Settleable(match, cur) /\ EndPass /\ UNCHANGED <<subVars, eventVars, ledgerVars>>
       \/ StillThere /\ Settleable(match, cur) /\ Settle(match, cur) /\ Resume
    /\ UNCHANGED <<chainVars, cursorVars, failures>>

ApplyMark ==
    /\ phase = "Tail" /\ step = "Apply"
    /\ \/ ~StillThere /\ Resume /\ UNCHANGED <<event, ref>>
       \/ StillThere /\ reward[match] # "ELIGIBLE" /\ EndPass /\ UNCHANGED <<event, ref>>
       \/ /\ StillThere /\ reward[match] = "ELIGIBLE"
          /\ event' = [event EXCEPT ![match] = "SUBMITTED"]
          /\ ref' = [ref EXCEPT ![match] = cur]
          /\ Resume
    /\ UNCHANGED <<chainVars, subVars, bornAt, cancelled, ledgerVars, cursorVars, failures>>

\* run_forever swallows a chain read or a database call that fails, and a killed
\* process starts again: either way the pass is forgotten.
PassFails ==
    /\ phase # "Idle"
    /\ \/ failures < MaxFailures /\ failures' = failures + 1
       \/ /\ phase = "Tail" /\ step = "Next" /\ cur[2] = 0
          /\ cur[1] <= tip /\ cur[1] > Len(best)
          /\ UNCHANGED failures
    /\ EndPass
    /\ UNCHANGED <<chainVars, subVars, eventVars, ledgerVars, cursorVars>>

-----------------------------------------------------------------------------
ChainStep ==
    /\ NewBlock \/ Reorg \/ Finalize
    /\ UNCHANGED <<subVars, eventVars, ledgerVars, cursorVars, passVars, failures>>

People ==
    \/ \E s \in Subs : Decide(s) \/ CorrectUp(s) \/ CorrectDown(s) \/ CancelAndWithdraw(s) \/ Restore(s)
    \/ \E r \in Refs : DisregardPayout(r) \/ \E s \in Subs : BindPayout(r, s)

Watch ==
    \/ OpenCursor \/ BeginPass \/ RecordPayout \/ AdvanceCursor \/ RetryNext
    \/ BeginTail \/ ReadTailBlock \/ TailNext \/ EndTail \/ Revert \/ FinishPass
    \/ MatchEvent \/ ApplyClaim \/ ApplyMark

Next ==
    \/ ChainStep
    \/ People
    \/ \E s \in Subs : Seed(s)
    \/ Watch
    \/ PassFails

Spec == Init /\ [][Next]_vars

\* The chain finalizes what it produced, the watcher keeps passing, and a pass
\* whose chain read is refused ends.
FairSpec ==
    /\ Spec
    /\ WF_vars(ChainStep /\ fin' > fin)
    /\ WF_vars(Watch) /\ WF_vars(PassFails /\ failures' = failures)
-----------------------------------------------------------------------------
(* Properties. *)

\* Safety.  "A restart costs a safe replay and cannot skip a payout": every payout
\* in a block the cursor has passed is in the ledger, and the ledger holds only
\* finalized chain facts, whatever passes fail and blocks are replaced.
CursorSkipsNothing ==
    \A r \in Refs :
        /\ start # 0 /\ r[1] \in start..cursor /\ Extant(r) => ledger[r] # "Absent"
        /\ ledger[r] # "Absent" => Finalized(r)

\* Safety.  A confirmed obligation and a claimed payout are two sides of one
\* finalized transfer with the obligation's fingerprint; no transfer settles two
\* obligations and no obligation takes two transfers.
SettledOneToOne ==
    /\ \A s \in Subs : event[s] = "CONFIRMED" =>
          ref[s] \in Refs /\ ledger[ref[s]] = "CLAIMED" /\ paidFor[ref[s]] = s
    /\ \A r \in Refs : ledger[r] = "CLAIMED" =>
          /\ paidFor[r] \in Subs /\ ref[paidFor[r]] = r /\ event[paidFor[r]] = "CONFIRMED"
          /\ Finalized(r) /\ <<TransferAt(r), paidFor[r]>> \in Pays

\* Safety.  An approval is never withdrawn under a payout: an obligation with chain
\* history belongs to an approved submission, and an ineligible submission's
\* obligation is unsigned and cancelled.
NoPayoutWithoutApproval ==
    \A s \in Subs : event[s] # "None" =>
        \/ review[s] = "APPROVED" /\ reward[s] # "INELIGIBLE"
        \/ Unsigned(s) /\ cancelled[s]

\* Safety.  Two submissions on one reward target never both have a payout on chain,
\* through withdrawals, re-approvals and operator bindings.
TargetPaidOnce ==
    \A s, t \in Subs :
        (TargetOf[s] = TargetOf[t] /\ event[s] \in {"SUBMITTED", "CONFIRMED"}
         /\ event[t] \in {"SUBMITTED", "CONFIRMED"}) => s = t

\* Action property.  Finality is final: no step takes a confirmed obligation back or
\* changes the transfer it names (a stale revert, a second binding).
ConfirmedIsForever ==
    [][\A s \in Subs : event[s] = "CONFIRMED" => event'[s] = "CONFIRMED" /\ ref'[s] = ref[s]]_vars

\* Liveness.  Every payout finalized in or after the cursor's first block is
\* eventually recorded.
FinalizedIsRecorded ==
    \A r \in Refs : (start # 0 /\ r[1] >= start /\ Finalized(r)) ~> ledger[r] # "Absent"

\* Liveness.  An obligation whose payout finalized where it was seen is eventually
\* confirmed, unless an operator took the payout out of reconciliation.
FinalizedIsConfirmed ==
    \A s \in Subs, r \in Refs :
        (event[s] = "SUBMITTED" /\ ref[s] = r /\ Finalized(r))
        ~> (event[s] = "CONFIRMED" \/ ref[s] # r \/ ledger[r] = "DISREGARDED")

\* What claim_payout says of a transfer that pays a prepared chat-log bonus: it
\* must "never consume a proof reward".  So a complete pass leaves no obligation
\* naming one as its finalized payout.
BonusNeverConsumesReward ==
    (phase = "Revert" /\ gone = {}) =>
        \A s \in Subs : (ref[s] # NoRef /\ ref[s][1] <= head /\ Extant(ref[s]))
                        => TransferAt(ref[s]) \notin Reserved
=============================================================================

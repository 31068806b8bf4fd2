---------------------------- MODULE PayoutNotices ----------------------------
(***************************************************************************)
(* The payout notifier (src/payout_notifier): several replicas of it turn  *)
(* approved submissions into payout obligations, put one delivery per      *)
(* signer into an outbox, lease a delivery, post the signing command to    *)
(* Discord and record the outcome.  A replica may die anywhere, a lease    *)
(* may run out while its request is still open, and Discord may refuse a   *)
(* message or accept it without the answer arriving.                       *)
(*                                                                         *)
(* PayoutTransactions models the locks between one seeding, one claim and  *)
(* the reviewers; this module is about the outbox over many deliveries.    *)
(***************************************************************************)
EXTENDS Naturals, FiniteSets, FiniteSetsExt

CONSTANTS
    Notifiers,     \* replicas, each with a worker_id of its own
    Payees,        \* submissions
    DefectAwards,  \* the ones approved as FORMALIZATION_DEFECT_AWARD
    LockedBounty,  \* [Payees -> Nat]: bounty_amount_rao
    Quotes,        \* what 750 USD may be worth, in rao
    Signers,       \* DEFAULT_DISCORD_MENTIONS
    MaxTroubles    \* bound: failures, crashes, expired leases and quotes that do not come

ASSUME NoticeBounds == /\ DefectAwards \subseteq Payees /\ LockedBounty \in [Payees -> Nat]
                       /\ Quotes \subseteq Nat /\ MaxTroubles \in Nat

VARIABLES
    approved,   \* submissions that are ELIGIBLE with sendable evidence
    owed,       \* reward_events: the amount owed to each submission
    outbox,     \* payout_discord_deliveries
    replica,    \* what each notifier is doing
    acceptedNotices,   \* the messages Discord has accepted
    troubles    \* what has gone wrong so far

noticeVars == <<approved, owed, outbox, replica, acceptedNotices, troubles>>

Unowed == 0
Idle == [at |-> "idle"]
Unlisted == [status |-> "none", owner |-> "", due |-> TRUE]
Notices == Payees \X Signers

NoticesInit ==
    /\ approved = {}
    /\ owed = [s \in Payees |-> Unowed]
    /\ outbox = [n \in Notices |-> Unlisted]
    /\ replica = [w \in Notifiers |-> Idle]
    /\ acceptedNotices = {}
    /\ troubles = 0

Trouble == troubles < MaxTroubles /\ troubles' = troubles + 1
NoticeMoves(w, at) == replica' = [replica EXCEPT ![w] = at]

----------------------------------------------------------------------------
(* Review approves a submission, or withdraws it before money is owed.    *)

review(s) ==
    /\ \/ s \notin approved /\ owed[s] = Unowed /\ approved' = approved \union {s} /\ UNCHANGED troubles
       \/ s \in approved /\ owed[s] = Unowed /\ Trouble /\ approved' = approved \ {s}
    /\ UNCHANGED <<owed, outbox, replica, acceptedNotices>>

(* The payout is paid or cancelled: nobody needs to be told any more.     *)
settle(s) ==
    /\ s \in approved /\ owed[s] # Unowed /\ Trouble
    /\ approved' = approved \ {s}
    /\ UNCHANGED <<owed, outbox, replica, acceptedNotices>>

----------------------------------------------------------------------------
(* One pass: candidates are read, the quote for defect awards is fetched  *)
(* (or does not come), the obligations are inserted in one transaction    *)
(* that a trigger may refuse, deliveries are seeded, and the due ones are *)
(* taken one by one.                                                      *)

Candidates == {s \in approved : owed[s] = Unowed}

process_once(w) ==
    /\ replica[w] = Idle
    /\ \/ \E q \in Quotes : NoticeMoves(w, [at |-> "seeding", found |-> Candidates, quote |-> q]) /\ UNCHANGED troubles
       \/ /\ Candidates \intersect DefectAwards # {} /\ Trouble
          /\ NoticeMoves(w, [at |-> "seeding", found |-> Candidates \ DefectAwards, quote |-> 0])
    /\ UNCHANGED <<approved, owed, outbox, acceptedNotices>>

(* A defect award is paid the quote, up to the bounty that was locked.    *)
award(s, quote) == IF s \in DefectAwards THEN Min({quote, LockedBounty[s]}) ELSE LockedBounty[s]

(* on_conflict_do_nothing on the generation key: one obligation for each  *)
(* submission, whichever replica comes first.  The triggers refuse a      *)
(* candidate that is no longer approved, and with it the whole pass.      *)
seed_reward_events(w) ==
    /\ replica[w].at = "seeding"
    /\ IF replica[w].found \subseteq approved
       THEN /\ owed' = [s \in Payees |-> IF s \in replica[w].found /\ owed[s] = Unowed
                                         THEN award(s, replica[w].quote) ELSE owed[s]]
            /\ NoticeMoves(w, [at |-> "listing"])
       ELSE UNCHANGED owed /\ NoticeMoves(w, Idle)
    /\ UNCHANGED <<approved, outbox, acceptedNotices, troubles>>

instruction_sendable(s) == s \in approved /\ owed[s] # Unowed

seed(w) ==
    /\ replica[w].at = "listing"
    /\ outbox' = [n \in Notices |-> IF outbox[n].status = "none" /\ instruction_sendable(n[1])
                                    THEN [outbox[n] EXCEPT !.status = "PENDING"] ELSE outbox[n]]
    /\ NoticeMoves(w, [at |-> "claiming"])
    /\ UNCHANGED <<approved, owed, acceptedNotices, troubles>>

(* Nobody takes over from a replica that died. *)
DueUnlessLeased(n) == /\ outbox[n].status \in {"PENDING", "FAILED"} /\ outbox[n].due
                      /\ instruction_sendable(n[1])

(* claim: FOR UPDATE SKIP LOCKED, one due delivery of a sendable payout.  *)
(* A SENDING one is due when its lease has run out.                       *)
Due(n) == /\ outbox[n].status \in {"PENDING", "FAILED", "SENDING"} /\ outbox[n].due
          /\ instruction_sendable(n[1])

claim_notice(w) ==
    /\ replica[w].at = "claiming"
    /\ IF \E n \in Notices : Due(n)
       THEN \E n \in {x \in Notices : Due(x)} :
              /\ outbox' = [outbox EXCEPT ![n] = [status |-> "SENDING", owner |-> w, due |-> FALSE]]
              /\ NoticeMoves(w, [at |-> "sending", notice |-> n])
       ELSE UNCHANGED outbox /\ NoticeMoves(w, Idle)
    /\ UNCHANGED <<approved, owed, acceptedNotices, troubles>>

(* The POST: accepted and answered, refused, or accepted with the answer  *)
(* lost, which counts as a failure here.                                  *)
send_discord_notifications(w) ==
    /\ replica[w].at = "sending"
    /\ \/ /\ acceptedNotices' = acceptedNotices \union {replica[w].notice}
          /\ NoticeMoves(w, [replica[w] EXCEPT !.at = "sent"]) /\ UNCHANGED troubles
       \/ /\ Trouble
          /\ \/ acceptedNotices' = acceptedNotices \/ acceptedNotices' = acceptedNotices \union {replica[w].notice}
          /\ NoticeMoves(w, [replica[w] EXCEPT !.at = "failed"])
    /\ UNCHANGED <<approved, owed, outbox>>

(* Whoever has it now. *)
StillThere(n, w) == outbox[n].status # "none"

(* _finish writes only what this replica still leases.                    *)
StillMine(n, w) == outbox[n].status = "SENDING" /\ outbox[n].owner = w

_finish(w) ==
    /\ replica[w].at \in {"sent", "failed"}
    /\ LET n == replica[w].notice
       IN  outbox' = IF StillMine(n, w)
                     THEN [outbox EXCEPT ![n] = IF replica[w].at = "sent"
                             THEN [status |-> "SENT", owner |-> "", due |-> TRUE]
                             ELSE [status |-> "FAILED", owner |-> "", due |-> FALSE]]
                     ELSE outbox
    /\ NoticeMoves(w, [at |-> "claiming"])
    /\ UNCHANGED <<approved, owed, acceptedNotices, troubles>>

----------------------------------------------------------------------------
(* Time: retry_seconds after a failure a delivery is due again, and       *)
(* lease_seconds after a claim its lease has run out, with the replica    *)
(* dead or merely slow.                                                   *)

Held(n) == \E w \in Notifiers : replica[w].at \in {"sending", "sent", "failed"} /\ replica[w].notice = n

retry_is_due(n) ==
    /\ outbox[n].status = "FAILED" /\ ~outbox[n].due
    /\ outbox' = [outbox EXCEPT ![n].due = TRUE]
    /\ UNCHANGED <<approved, owed, replica, acceptedNotices, troubles>>

lease_ends(n) ==
    /\ outbox[n].status = "SENDING" /\ ~outbox[n].due
    /\ IF Held(n) THEN Trouble ELSE UNCHANGED troubles
    /\ outbox' = [outbox EXCEPT ![n].due = TRUE]
    /\ UNCHANGED <<approved, owed, replica, acceptedNotices>>

crash(w) ==
    /\ replica[w] # Idle /\ Trouble
    /\ NoticeMoves(w, Idle)
    /\ UNCHANGED <<approved, owed, outbox, acceptedNotices>>

----------------------------------------------------------------------------
PassGoesOn(w) == seed_reward_events(w) \/ seed(w) \/ claim_notice(w) \/ send_discord_notifications(w) \/ _finish(w)

NoticesNext ==
    \/ \E s \in Payees : review(s) \/ settle(s)
    \/ \E w \in Notifiers : process_once(w) \/ PassGoesOn(w) \/ crash(w)
    \/ \E n \in Notices : retry_is_due(n) \/ lease_ends(n)

NoticesSpec ==
    /\ NoticesInit /\ [][NoticesNext]_noticeVars
    /\ \A w \in Notifiers : WF_noticeVars(process_once(w) \/ PassGoesOn(w))
    /\ \A n \in Notices : WF_noticeVars(retry_is_due(n) \/ lease_ends(n))

----------------------------------------------------------------------------
(* A delivery marked SENT was accepted by Discord, and stays SENT: a      *)
(* replica whose lease ran out while its request was open neither marks   *)
(* what another one is sending nor undoes what another one has sent       *)
(* (_finish).                                                             *)
SentWasAccepted == \A n \in Notices : outbox[n].status = "SENT" => n \in acceptedNotices
SentIsFinal == \A n \in Notices : outbox[n].status = "SENT" => outbox'[n].status = "SENT"

(* What is owed never exceeds the bounty locked for the submission and    *)
(* never changes, although two replicas may price the same award at       *)
(* different quotes.                                                      *)
OwedWithinTheLock ==
    \A s \in Payees : /\ owed'[s] <= LockedBounty[s]
                         /\ owed[s] # Unowed => owed'[s] = owed[s]

(* A payout that stays approved is owed and every signer is told of it,   *)
(* whichever replicas die and whatever is refused or lost on the way.     *)
(* Fairness: the replicas keep polling and their clocks go on; failures   *)
(* are finitely many.                                                     *)
SignersAreTold ==
    \A n \in Notices : (n[1] \in approved) ~> (n[1] \notin approved \/ outbox[n].status = "SENT")
=============================================================================

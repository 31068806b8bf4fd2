---------------------------- MODULE ChatLogClaims ----------------------------
(***************************************************************************)
(* The life of a chat-log claim (src/submission_api/trajectories.py and    *)
(* routers/trajectories.py): logs deposited before the proof they must     *)
(* accompany, or uploaded for the bonus of an earlier proof; revised,      *)
(* withdrawn, reviewed, revoked when the decision on the proof changes,    *)
(* reopened or bound to a newer decision; deleted by the retention job     *)
(* (src/scripts/purge_trajectories.py); and delivered to a buyer while     *)
(* they are licensed (routers/trajectory_fulfillment.py).                  *)
(*                                                                         *)
(* Every route locks the submission and then the claim, so it is one step  *)
(* here; what the caller has seen (state_version and revision) may be old  *)
(* by then, and the retention job picks its candidates before it locks     *)
(* them.  All proofs are for one reward target.  Package bytes are a       *)
(* digest; ChatLogUploads models how they are moved.  Payouts of a bounty, *)
(* and the revocation that races them, are in PayoutTransactions.          *)
(***************************************************************************)
EXTENDS Naturals, Sequences, FiniteSets, FiniteSetsExt

CONSTANTS
    LogProofs,     \* submissions, all for one reward target
    BonusProofs,   \* the ones from before the program, with a bonus
    Logs,          \* what a package can hold
    LogReaders,       \* people with the claim page open
    Deliveries,    \* deliveries to buyers
    MaxRevisions,  \* MAX_REVISIONS
    MaxLogRulings,    \* bound: decisions on proofs
    MaxLogChanges     \* bound: changes of claims and decisions on proofs, together

ASSUME ClaimBounds == /\ BonusProofs \subseteq LogProofs
                      /\ {MaxRevisions, MaxLogRulings, MaxLogChanges} \subseteq Nat

VARIABLES
    proofs,      \* verification_status and reward_status of each submission
    logRulings,     \* review_decisions: all of them binding, the newest last
    logClaims,      \* trajectory_claims by submission
    prints,      \* trajectory_fingerprints: the claim that used a package first
    views,       \* what each reader saw last
    candidates,  \* the claims the retention job is about to clear
    deliveries   \* trajectory_deliveries and their exports

claimVars == <<proofs, logRulings, logClaims, prints, views, candidates, deliveries>>

NoLog == "none"
NoClaim == [status |-> "none", revision |-> 0, version |-> 0, package |-> NoLog,
            held |-> FALSE, over |-> FALSE, bound |-> 0, confirmed |-> FALSE, approvedFor |-> NoLog]
NoView == [proof |-> 0]
NoDelivery == [proof |-> 0]

LICENSED == {"APPROVED_MANUAL_PAYMENT", "APPROVED_BOUNTY_EVIDENCE"}
FORFEITED == {"REJECTED", "WITHDRAWN"}

required(s) == s \notin BonusProofs

\* Every change moves the version of a claim or adds a decision.
LogChanges == Len(logRulings) + MapThenSumSet(LAMBDA s : logClaims[s].version, LogProofs)

ClaimsInit ==
    /\ proofs = [s \in LogProofs |-> [verification |-> IF required(s) THEN "none" ELSE "VERIFIED",
                                      review |-> "UNREVIEWED", reward |-> "INELIGIBLE"]]
    /\ logRulings = <<>>
    /\ logClaims = [s \in LogProofs |-> NoClaim]
    /\ prints = [p \in Logs |-> 0]
    /\ views = [r \in LogReaders |-> NoView]
    /\ candidates = {}
    /\ deliveries = [d \in Deliveries |-> NoDelivery]

----------------------------------------------------------------------------
(* The proof: verified by the worker, decided and corrected by reviewers. *)

latest_binding_decision(s) ==
    LET mine == {i \in DOMAIN logRulings : logRulings[i].proof = s}
    IN  IF mine = {} THEN 0 ELSE CHOOSE i \in mine : \A j \in mine : j <= i

log_target_holder(s) == {t \in LogProofs \ {s} : proofs[t].reward # "INELIGIBLE"}

eligible_claim(s) == /\ proofs[s].verification = "VERIFIED"
               /\ proofs[s].review = "APPROVED" /\ proofs[s].reward = "ELIGIBLE"
               /\ latest_binding_decision(s) # 0

verify_log(s) ==
    /\ proofs[s].verification = "PENDING"
    /\ \E v \in {"VERIFIED", "REJECTED"} : proofs' = [proofs EXCEPT ![s].verification = v]
    /\ UNCHANGED <<logRulings, logClaims, prints, views, candidates, deliveries>>

(* record_human_decision or correct_human_decision: the new decision       *)
(* supersedes the current one, and a proof is approved only while no other *)
(* one holds the target.                                                   *)
RuledLog(s, approve) ==
    /\ logRulings' = Append(logRulings, [proof |-> s, approved |-> approve,
                                   supersedes |-> latest_binding_decision(s)])
    /\ proofs' = [proofs EXCEPT ![s].review = IF approve THEN "APPROVED" ELSE "REJECTED",
                                ![s].reward = IF approve THEN "ELIGIBLE" ELSE "INELIGIBLE"]

review_proof(s, approve) ==
    /\ Len(logRulings) < MaxLogRulings /\ LogChanges < MaxLogChanges
    /\ proofs[s].verification = "VERIFIED"
    /\ approve => log_target_holder(s) = {}
    /\ RuledLog(s, approve)
    /\ UNCHANGED <<logClaims, prints, views, candidates, deliveries>>

----------------------------------------------------------------------------
(* What the claim shows.  An acceptance counts only while the decision it *)
(* was bound to is the current one and still grants the bounty.           *)

(* Any approval of the proof will do, not only the one that was relied on. *)
effective_by_outcome(s) ==
    IF logClaims[s].status \in LICENSED /\ ~eligible_claim(s) THEN "BLOCKED_PROOF_CHANGED"
    ELSE IF logClaims[s].status \in {"DEPOSITED", "UNDER_REVIEW", "NEEDS_CHANGES"} /\ logClaims[s].over
    THEN "EXPIRED" ELSE logClaims[s].status

effective_status(s) ==
    IF /\ logClaims[s].status \in LICENSED
       /\ ~eligible_claim(s) \/ latest_binding_decision(s) # logClaims[s].bound
    THEN "BLOCKED_PROOF_CHANGED"
    ELSE IF logClaims[s].status \in {"DEPOSITED", "UNDER_REVIEW", "NEEDS_CHANGES"} /\ logClaims[s].over
    THEN "EXPIRED" ELSE logClaims[s].status

content_available(s) == (logClaims[s].status \in LICENSED \/ ~logClaims[s].over) /\ logClaims[s].held

Submitted(s) == logClaims[s].status \notin {"none", "DEPOSITED"}

look(r, s) ==
    /\ Submitted(s)
    /\ views' = [views EXCEPT ![r] = [proof |-> s, version |-> logClaims[s].version,
                                      revision |-> logClaims[s].revision, package |-> logClaims[s].package]]
    /\ UNCHANGED <<proofs, logRulings, logClaims, prints, candidates, deliveries>>

(* Whatever the page showed. *)
version_unchecked(v) == v.proof # 0

(* The caller repeats the version, and for a decision the revision, that  *)
(* the page showed.                                                       *)
check_version(v) == v.proof # 0 /\ v.version = logClaims[v.proof].version
                                /\ v.revision = logClaims[v.proof].revision

(* audit: every change of a claim moves its version.                      *)
audited(c) == [c EXCEPT !.version = @ + 1]

Changed(s, c) == LogChanges < MaxLogChanges /\ logClaims' = [logClaims EXCEPT ![s] = audited(c)]

----------------------------------------------------------------------------
(* Intake.  A package counts once: its fingerprint belongs to the claim   *)
(* that brought it first, and goes when a deposit is deleted.             *)

store_fingerprint(s, p, kept) ==
    prints' = [q \in Logs |-> IF q = p THEN s ELSE IF prints[q] = s /\ ~kept THEN 0 ELSE prints[q]]

deposit_package(s, p) ==
    /\ required(s)
    /\ logClaims[s].status \in {"none", "DEPOSITED"}
    /\ logClaims[s].status = "DEPOSITED" => logClaims[s].over \/ logClaims[s].package # p
    /\ prints[p] \in {0, s}
    /\ logClaims[s].status = "none" => prints[p] = 0
    /\ Changed(s, [NoClaim EXCEPT !.status = "DEPOSITED", !.revision = 1, !.package = p, !.held = TRUE])
    /\ store_fingerprint(s, p, FALSE)
    /\ UNCHANGED <<proofs, logRulings, views, candidates, deliveries>>

(* require_deposit and bind_deposit: the proof arrives with its logs.     *)
bind_deposit(s) ==
    /\ logClaims[s].status = "DEPOSITED" /\ ~logClaims[s].over
    /\ proofs' = [proofs EXCEPT ![s].verification = "PENDING"]
    /\ Changed(s, [logClaims[s] EXCEPT !.status = "UNDER_REVIEW"])
    /\ UNCHANGED <<logRulings, prints, views, candidates, deliveries>>

(* revisable: required logs take a new version when a reviewer asked for  *)
(* one, a bonus while its proof qualifies.                                *)
revisable(s) ==
    IF required(s) THEN /\ logClaims[s].status = "NEEDS_CHANGES" /\ logClaims[s].revision < MaxRevisions
                        /\ ~logClaims[s].over /\ proofs[s].review # "REJECTED"
    ELSE eligible_claim(s)

accept_package(r, s, p) ==
    LET old == logClaims[s]
    IN  /\ IF old.status = "none" THEN TRUE
           ELSE /\ check_version(views[r]) /\ views[r].proof = s
                /\ old.status \in {"NEEDS_CHANGES", "WITHDRAWN"} /\ old.revision < MaxRevisions
                /\ ~(old.status = "NEEDS_CHANGES" /\ old.package = p) /\ ~old.over
        /\ prints[p] = 0 \/ (prints[p] = s /\ old.status # "none")
        /\ store_fingerprint(s, p, TRUE)
        /\ Changed(s, [old EXCEPT !.status = "UNDER_REVIEW", !.revision = @ + 1, !.package = p,
                                  !.held = TRUE, !.bound = latest_binding_decision(s)])
        /\ UNCHANGED <<proofs, logRulings, views, candidates, deliveries>>

upload_log(r, s, p) == revisable(s) /\ accept_package(r, s, p)

----------------------------------------------------------------------------
(* A required claim that is withdrawn or rejected gives up the bounty:    *)
(* forfeit_bounty records or corrects the decision on the proof.          *)

verification_pending(s) == proofs[s].verification \notin {"VERIFIED", "REJECTED"}

forfeit_bounty(s) ==
    IF /\ proofs[s].verification = "VERIFIED"
       /\ latest_binding_decision(s) = 0 \/ proofs[s].review = "APPROVED"
    THEN Len(logRulings) < MaxLogRulings /\ LogChanges + 1 < MaxLogChanges /\ RuledLog(s, FALSE)
    ELSE UNCHANGED <<proofs, logRulings>>

GivesUp(s) == IF required(s) THEN ~verification_pending(s) /\ forfeit_bounty(s)
              ELSE UNCHANGED <<proofs, logRulings>>

withdraw(r) ==
    LET s == views[r].proof
    IN  /\ check_version(views[r])
        /\ logClaims[s].status \in {"UNDER_REVIEW", "NEEDS_CHANGES"}
        /\ GivesUp(s)
        /\ Changed(s, [logClaims[s] EXCEPT !.status = "WITHDRAWN", !.held = FALSE])
        /\ UNCHANGED <<prints, views, candidates, deliveries>>

----------------------------------------------------------------------------
(* Review.                                                                *)

confirm_proof(r) ==
    LET s == views[r].proof
    IN  /\ check_version(views[r])
        /\ required(s) /\ proofs[s].verification = "VERIFIED" /\ proofs[s].review = "UNREVIEWED"
        /\ logClaims[s].status \in {"UNDER_REVIEW", "NEEDS_CHANGES"} /\ ~logClaims[s].confirmed
        /\ Changed(s, [logClaims[s] EXCEPT !.confirmed = TRUE])
        /\ UNCHANGED <<proofs, logRulings, prints, views, candidates, deliveries>>

(* trajectory_one_approved_target, a unique index. *)
TargetFree(s) == \A t \in LogProofs \ {s} : logClaims[t].status \notin LICENSED

decide(r, outcome) ==
    LET s == views[r].proof
    IN  /\ check_version(views[r])
        /\ \/ logClaims[s].status = "UNDER_REVIEW"
           \/ outcome = "REJECTED" /\ logClaims[s].status \in {"EXPIRED", "NEEDS_CHANGES"}
        /\ outcome = "NEEDS_CHANGES" => ~(required(s) /\ logClaims[s].revision >= MaxRevisions)
        /\ outcome # "REJECTED" => content_available(s)
        /\ outcome \in LICENSED =>
              /\ eligible_claim(s) /\ TargetFree(s)
              /\ outcome = IF required(s) THEN "APPROVED_BOUNTY_EVIDENCE" ELSE "APPROVED_MANUAL_PAYMENT"
        /\ IF outcome = "REJECTED" THEN GivesUp(s) ELSE UNCHANGED <<proofs, logRulings>>
        /\ Changed(s, [logClaims[s] EXCEPT
              !.status = outcome,
              !.bound = IF outcome \in LICENSED THEN latest_binding_decision(s) ELSE @,
              !.approvedFor = IF outcome \in LICENSED THEN views[r].package ELSE @])
        /\ UNCHANGED <<prints, views, candidates, deliveries>>

(* REVOKE_PROOF_CHANGED: the licence ends, the content gets a new term.   *)
revoke_proof_changed(r) ==
    LET s == views[r].proof
    IN  /\ check_version(views[r])
        /\ effective_status(s) = "BLOCKED_PROOF_CHANGED"
        /\ Changed(s, [logClaims[s] EXCEPT !.status = "REVOKED_PROOF_CHANGED", !.over = FALSE])
        /\ UNCHANGED <<proofs, logRulings, prints, views, candidates, deliveries>>

target_reassigned(s) ==
    \E t \in log_target_holder(s) : logClaims[t].status \notin FORFEITED

reopen_review(r) ==
    LET s == views[r].proof
    IN  /\ check_version(views[r])
        /\ logClaims[s].status \in {"REVOKED_PROOF_CHANGED", "REJECTED"}
        /\ content_available(s)
        /\ ~(logClaims[s].status = "REJECTED" /\ required(s) /\ target_reassigned(s))
        /\ Changed(s, [logClaims[s] EXCEPT !.status = "UNDER_REVIEW"])
        /\ UNCHANGED <<proofs, logRulings, prints, views, candidates, deliveries>>

(* unchanged_approval_chain: only corrections of the explanation lie      *)
(* between the decision relied on and the current one.                    *)
Behind(i) == {j \in DOMAIN logRulings : j <= i /\ logRulings[j].proof = logRulings[i].proof}
unchanged_approval_chain(s, from) ==
    LET now == latest_binding_decision(s)
    IN  from \in Behind(now) /\ \A j \in Behind(now) : j >= from => logRulings[j].approved

rebind_proof_decision(r) ==
    LET s == views[r].proof
    IN  /\ check_version(views[r])
        /\ logClaims[s].status \in LICENSED /\ eligible_claim(s)
        /\ logClaims[s].bound # latest_binding_decision(s)
        /\ unchanged_approval_chain(s, logClaims[s].bound)
        /\ Changed(s, [logClaims[s] EXCEPT !.bound = latest_binding_decision(s)])
        /\ UNCHANGED <<proofs, logRulings, prints, views, candidates, deliveries>>

----------------------------------------------------------------------------
(* Retention: the deadline of a package passes; the job deletes deposits  *)
(* whose proof never came, lists what has expired, and clears each of the *)
(* listed under its locks if it is still expiring.                        *)

deadline(s) ==
    /\ logClaims[s].status # "none" /\ ~logClaims[s].over
    /\ logClaims' = [logClaims EXCEPT ![s].over = TRUE]
    /\ UNCHANGED <<proofs, logRulings, prints, views, candidates, deliveries>>

expiring(s) == logClaims[s].over /\ logClaims[s].held /\ Submitted(s) /\ logClaims[s].status \notin LICENSED

delete_deposit(s) ==
    /\ logClaims[s].status = "DEPOSITED" /\ logClaims[s].over
    /\ logClaims' = [logClaims EXCEPT ![s] = NoClaim]
    /\ prints' = [p \in Logs |-> IF prints[p] = s THEN 0 ELSE prints[p]]
    /\ UNCHANGED <<proofs, logRulings, views, candidates, deliveries>>

list_candidates ==
    /\ candidates = {}
    /\ candidates' = {s \in LogProofs : expiring(s)}
    /\ candidates' # {}
    /\ UNCHANGED <<proofs, logRulings, logClaims, prints, views, deliveries>>

purge(s) ==
    /\ s \in candidates
    /\ candidates' = candidates \ {s}
    /\ IF expiring(s) /\ LogChanges < MaxLogChanges
       THEN logClaims' = [logClaims EXCEPT ![s].held = FALSE, ![s].version = @ + 1,
              ![s].status = IF @ \in {"UNDER_REVIEW", "NEEDS_CHANGES"} THEN "EXPIRED" ELSE @]
       ELSE UNCHANGED logClaims
    /\ UNCHANGED <<proofs, logRulings, prints, views, deliveries>>

----------------------------------------------------------------------------
(* Deliveries.  A grant names the package and the version of the claim;   *)
(* the buyer assents and downloads only while both still stand.           *)

require_accepted(s) == effective_status(s) \in LICENSED /\ content_available(s)

grant(d, s) ==
    /\ deliveries[d] = NoDelivery
    /\ require_accepted(s)
    /\ deliveries' = [deliveries EXCEPT ![d] =
         [proof |-> s, package |-> logClaims[s].package, version |-> logClaims[s].version,
          accepted |-> FALSE, revoked |-> FALSE, exported |-> FALSE, takedown |-> FALSE]]
    /\ UNCHANGED <<proofs, logRulings, logClaims, prints, views, candidates>>

ValidDelivery(d) ==
    /\ d.proof # 0 /\ ~d.revoked /\ require_accepted(d.proof)
    /\ d.package = logClaims[d.proof].package /\ d.version = logClaims[d.proof].version

owned_delivery(d, change) ==
    /\ ValidDelivery(deliveries[d])
    /\ deliveries' = [deliveries EXCEPT ![d] = change]
    /\ UNCHANGED <<proofs, logRulings, logClaims, prints, views, candidates>>

accept(d) == owned_delivery(d, [deliveries[d] EXCEPT !.accepted = TRUE])
buyer_download(d) == /\ deliveries[d].proof # 0 /\ deliveries[d].accepted
                     /\ owned_delivery(d, [deliveries[d] EXCEPT !.exported = TRUE])

delivery_action(d) ==
    /\ deliveries[d].proof # 0
    /\ \/ ~deliveries[d].revoked /\ deliveries' = [deliveries EXCEPT ![d].revoked = TRUE]
       \/ deliveries[d].revoked /\ deliveries' = [deliveries EXCEPT ![d].takedown = TRUE]
    /\ UNCHANGED <<proofs, logRulings, logClaims, prints, views, candidates>>

----------------------------------------------------------------------------
Outcomes == LICENSED \union {"NEEDS_CHANGES", "REJECTED"}

ClaimsNext ==
    \/ \E s \in LogProofs :
         \/ verify_log(s) \/ bind_deposit(s) \/ deadline(s) \/ delete_deposit(s) \/ purge(s)
         \/ \E ok \in BOOLEAN : review_proof(s, ok)
         \/ \E p \in Logs : deposit_package(s, p) \/ \E r \in LogReaders : upload_log(r, s, p)
         \/ \E r \in LogReaders : look(r, s)
         \/ \E d \in Deliveries : grant(d, s)
    \/ list_candidates
    \/ \E r \in LogReaders :
         \/ withdraw(r) \/ confirm_proof(r) \/ revoke_proof_changed(r) \/ reopen_review(r)
         \/ rebind_proof_decision(r)
         \/ \E o \in Outcomes : decide(r, o)
    \/ \E d \in Deliveries : accept(d) \/ buyer_download(d) \/ delivery_action(d)

ClaimsSpec == ClaimsInit /\ [][ClaimsNext]_claimVars

----------------------------------------------------------------------------
(* The package that carries an acceptance is the one its reviewer         *)
(* downloaded, although the contributor may withdraw and upload another   *)
(* version while the page is open (check_version and the revision test).  *)
ApprovedAsReviewed ==
    \A s \in LogProofs : logClaims[s].status \in LICENSED => logClaims[s].approvedFor = logClaims[s].package

(* Accepted logs are kept for sale: no order of review, deadline and       *)
(* retention job deletes their content, and none that is gone is accepted. *)
LicensedIsKept == \A s \in LogProofs : logClaims[s].status \in LICENSED => logClaims[s].held

(* At most one proof of a target has accepted logs, also after a          *)
(* correction took the bounty from one proof and gave it to another       *)
(* before anybody revoked the first acceptance.                           *)
OneLicensePerTarget == Cardinality({s \in LogProofs : logClaims[s].status \in LICENSED}) <= 1

(* A buyer's right to a package ends for good: once a delivery that was   *)
(* exported is no longer valid, and so has to be taken down, nothing that *)
(* happens to the proof or the claim makes it valid again (the version    *)
(* and the decision a licence is bound to).                               *)
EndedDeliveryStaysEnded ==
    \A d \in Deliveries : deliveries[d].proof # 0 /\ deliveries[d].exported
           /\ ~ValidDelivery(deliveries[d]) => ~ValidDelivery(deliveries[d])'

(* Giving up required logs gives up the bounty: until a reviewer rules on *)
(* the proof again, a claim that was rejected or withdrawn has no proof   *)
(* holding the target (forfeit_bounty).                                   *)
ForfeitedHoldsNothing ==
    \A s \in LogProofs : required(s) /\ logClaims'[s].status \in FORFEITED
           /\ logClaims[s].status \notin FORFEITED => proofs'[s].reward = "INELIGIBLE"

(* What a licence keeps: the package its reviewer saw, its content, and    *)
(* its target to itself (trajectories.py, purge_trajectories.py).          *)
LicencesAreSound == ApprovedAsReviewed /\ LicensedIsKept /\ OneLicensePerTarget
=============================================================================

-------------------------- MODULE VerificationQueue --------------------------
(***************************************************************************)
(* The verification queue: rows of `submissions`, leased by worker         *)
(* processes that run the verifier and write at most one verdict each.     *)
(*                                                                         *)
(* conjectures_subnet/db/verification.py  the queue statements             *)
(* verification_worker/worker.py          one pass of one worker           *)
(* conjectures_subnet/db/submissions.py   recording, automatic approval    *)
(*                                                                         *)
(* Each action is one database transaction, or one statement of the        *)
(* recording transaction: PostgreSQL runs it READ COMMITTED, so each of    *)
(* its reads sees what other workers have committed by then.  Writes of    *)
(* the recording transaction appear at its commit; the row lock it takes   *)
(* is lockedBy.                                                            *)
(***************************************************************************)
EXTENDS Integers, FiniteSets

CONSTANTS
    Workers,         \* running worker processes; the lease owner token is the worker
    Dead,            \* the owner token of a process that no longer runs
    NoOwner,         \* SQL NULL in verification_lease_owner
    Subs,            \* paid submissions
    CreatedAt,       \* created_at, [Subs -> Nat]
    ProblemOf,       \* problem_id
    ModeOf,          \* task_mode: a proof of the statement or of its negation
    TargetOf,        \* reward_target_id: what carries one reward
    ReviewRequired,  \* submissions whose manual_review_required flag is set
    Served,          \* [Workers -> SUBSET Subs], the claim's `served` triples
    Resolves,        \* [Workers -> SUBSET Subs], what the task resolver accepts
    MaxAttempts,     \* VERIFICATION_MAX_ATTEMPTS
    ClaimLease,      \* claim_lease_seconds, in ticks
    RunLease         \* lease_seconds(task_timeout), in ticks

ASSUME QueueConstants ==
    /\ Workers # {} /\ NoOwner \notin Workers /\ Dead \notin Workers /\ Dead # NoOwner
    /\ CreatedAt \in [Subs -> Nat]
    /\ Served \in [Workers -> SUBSET Subs]
    /\ Resolves \in [Workers -> SUBSET Subs]
    /\ ReviewRequired \subseteq Subs
    /\ MaxAttempts \in Nat \ {0}
    /\ ClaimLease \in Nat \ {0} /\ RunLease \in Nat \ {0}

VARIABLES
    \* the submissions row
    status,     \* verification_status; "Absent" before intake commits the row
    review,     \* manual_review_status
    reward,     \* reward_status
    attempts,   \* verification_attempts
    owner,      \* verification_lease_owner
    ttl,        \* verification_lease_until - now(), -1 once it has passed or is NULL
    lockedBy,   \* the worker whose open transaction holds the row lock
    \* rows that refer to it
    runs,       \* how many verification_runs rows were recorded
    ruling,     \* the review_decisions row the recording appended
    paged,      \* submissions an attempts_exhausted alarm was raised for
    \* the worker process
    pc, job, claimNo, accepted, contradicted, excluded

rowVars == <<status, review, reward, attempts, owner, ttl, lockedBy>>
logVars == <<runs, ruling, paged>>
workerVars == <<pc, job, claimNo, accepted, contradicted, excluded>>
vars == <<rowVars, logVars, workerVars>>

Owners == Workers \cup {Dead, NoOwner}
NoJob == "NoJob"

\* A pass of a worker: claim, resolve and extend, run, lock the row, read the
\* problem's verified modes, read the reward target's holder, commit.
PCs == {"Idle", "Claimed", "Running", "Judged", "Locked", "ModesRead", "HolderFree", "HolderTaken"}
InRecording(w) == pc[w] \in {"Locked", "ModesRead", "HolderFree", "HolderTaken"}

TypeOK ==
    /\ status \in [Subs -> {"Absent", "UNVERIFIED", "VERIFIED", "REJECTED"}]
    /\ review \in [Subs -> {"UNREVIEWED", "APPROVED", "REJECTED"}]
    /\ reward \in [Subs -> {"INELIGIBLE", "ELIGIBLE"}]
    /\ attempts \in [Subs -> 0..MaxAttempts]
    /\ owner \in [Subs -> Owners]
    /\ ttl \in [Subs -> Int]
    /\ lockedBy \in [Subs -> Workers \cup {NoOwner}]
    /\ runs \in [Subs -> Nat]
    /\ ruling \in [Subs -> {"None", "Advisory", "AutoRejected", "AutoApproved"}]
    /\ paged \in SUBSET Subs
    /\ pc \in [Workers -> PCs]
    /\ job \in [Workers -> Subs \cup {NoJob}]
    /\ claimNo \in [Workers -> 0..MaxAttempts]
    /\ accepted \in [Workers -> BOOLEAN]
    /\ contradicted \in [Workers -> BOOLEAN]
    /\ excluded \in [Workers -> SUBSET Subs]

Init ==
    /\ status = [s \in Subs |-> "Absent"]
    /\ review = [s \in Subs |-> "UNREVIEWED"]
    /\ reward = [s \in Subs |-> "INELIGIBLE"]
    /\ attempts = [s \in Subs |-> 0]
    /\ owner = [s \in Subs |-> NoOwner]
    /\ ttl = [s \in Subs |-> -1]
    /\ lockedBy = [s \in Subs |-> NoOwner]
    /\ runs = [s \in Subs |-> 0]
    /\ ruling = [s \in Subs |-> "None"]
    /\ paged = {}
    /\ pc = [w \in Workers |-> "Idle"]
    /\ job = [w \in Workers |-> NoJob]
    /\ claimNo = [w \in Workers |-> 0]
    /\ accepted = [w \in Workers |-> FALSE]
    /\ contradicted = [w \in Workers |-> FALSE]
    /\ excluded = [w \in Workers |-> {}]

-----------------------------------------------------------------------------
(* The queue's predicates. *)

ClaimableOnlyUnleased(w, s) ==
    /\ status[s] = "UNVERIFIED" /\ s \in Served[w] /\ s \notin excluded[w]
    /\ owner[s] = NoOwner
    /\ attempts[s] < MaxAttempts
    /\ lockedBy[s] = NoOwner
Claimable(w, s) ==
    /\ status[s] = "UNVERIFIED"
    /\ s \in Served[w]
    /\ s \notin excluded[w]
    /\ owner[s] = NoOwner \/ ttl[s] < 0
    /\ attempts[s] < MaxAttempts
    /\ lockedBy[s] = NoOwner

\* ORDER BY created_at ... SKIP LOCKED LIMIT 1
OldestClaimable(w, s) ==
    /\ Claimable(w, s)
    /\ \A t \in Subs : Claimable(w, t) => CreatedAt[s] <= CreatedAt[t]

\* WHERE clause shared by EXTEND and RELEASE: the lease names me, expired or not.
NamesMeWithoutOwner(w, s) == status[s] = "UNVERIFIED"
NamesMe(w, s) == status[s] = "UNVERIFIED" /\ owner[s] = w

\* WHERE clause of lock_owned_for_recording: my lease, and it is still live.
OwnsLiveLeaseAnyStatus(w, s) == pc[w] = "Judged" /\ lockedBy[s] = NoOwner
OwnsLiveLease(w, s) == NamesMe(w, s) /\ ttl[s] >= 0

\* reward_target_holder: another submission on the target already rewarded.
Holders(s) ==
    {t \in Subs \ {s} : TargetOf[t] = TargetOf[s] /\ reward[t] # "INELIGIBLE"}

\* problem_verified_modes, which sees this transaction's own flushed verdict.
VerifiedModes(s) ==
    {ModeOf[t] : t \in {u \in Subs : /\ ProblemOf[u] = ProblemOf[s]
                                     /\ u = s \/ status[u] = "VERIFIED"}}

\* submissions_reward_target_reward_unique, consulted when ELIGIBLE is written.
IndexAdmitsAnything(s) == TRUE
IndexAdmits(s) == Holders(s) = {}

-----------------------------------------------------------------------------
(* Intake commits a row; the API side is modelled elsewhere. *)

Submit(s) ==
    /\ status[s] = "Absent"
    /\ status' = [status EXCEPT ![s] = "UNVERIFIED"]
    /\ UNCHANGED <<review, reward, attempts, owner, ttl, lockedBy, logVars, workerVars>>

(* The pass ends, and its local variables with it. *)
GoIdle(w) ==
    /\ pc' = [pc EXCEPT ![w] = "Idle"]
    /\ job' = [job EXCEPT ![w] = NoJob]
    /\ claimNo' = [claimNo EXCEPT ![w] = 0]
    /\ accepted' = [accepted EXCEPT ![w] = FALSE]
    /\ contradicted' = [contradicted EXCEPT ![w] = FALSE]

\* One UPDATE: stamp the lease and count the attempt.
Claim(w) ==
    /\ pc[w] = "Idle"
    /\ \E s \in Subs :
         /\ OldestClaimable(w, s)
         /\ attempts' = [attempts EXCEPT ![s] = @ + 1]
         /\ owner' = [owner EXCEPT ![s] = w]
         /\ ttl' = [ttl EXCEPT ![s] = ClaimLease]
         /\ job' = [job EXCEPT ![w] = s]
         /\ claimNo' = [claimNo EXCEPT ![w] = attempts[s] + 1]
    /\ pc' = [pc EXCEPT ![w] = "Claimed"]
    /\ UNCHANGED <<status, review, reward, lockedBy, logVars, accepted, contradicted, excluded>>

\* RELEASE / RELEASE_UNCONSUMED: drop the lease if it still names me.
DropLease(w, s) ==
    /\ owner' = IF NamesMe(w, s) THEN [owner EXCEPT ![s] = NoOwner] ELSE owner
    /\ ttl' = IF NamesMe(w, s) THEN [ttl EXCEPT ![s] = -1] ELSE ttl

\* TaskNotAllowed: undo the claim, attempt included, and never claim it again.
MisroutedAlwaysRefunds(w) ==
    LET s == job[w] IN
    /\ pc[w] = "Claimed" /\ s \notin Resolves[w]
    /\ DropLease(w, s)
    /\ attempts' = IF attempts[s] > 0 THEN [attempts EXCEPT ![s] = @ - 1] ELSE attempts
    /\ excluded' = [excluded EXCEPT ![w] = @ \cup {s}]
    /\ GoIdle(w)
    /\ UNCHANGED <<status, review, reward, lockedBy, logVars>>
Misrouted(w) ==
    LET s == job[w] IN
    /\ pc[w] = "Claimed" /\ s \notin Resolves[w]
    /\ IF NamesMe(w, s) /\ attempts[s] > 0
       THEN DropLease(w, s) /\ attempts' = [attempts EXCEPT ![s] = @ - 1]
       ELSE UNCHANGED <<owner, ttl, attempts>>
    /\ excluded' = [excluded EXCEPT ![w] = @ \cup {s}]
    /\ GoIdle(w)
    /\ UNCHANGED <<status, review, reward, lockedBy, logVars>>

\* EXTEND, which does not ask whether the lease had expired; a lost lease is
\* abandoned without touching the row.
Extend(w) ==
    LET s == job[w] IN
    /\ pc[w] = "Claimed" /\ s \in Resolves[w]
    /\ IF NamesMe(w, s)
       THEN /\ ttl' = [ttl EXCEPT ![s] = RunLease]
            /\ pc' = [pc EXCEPT ![w] = "Running"]
            /\ UNCHANGED <<job, claimNo, accepted, contradicted>>
       ELSE GoIdle(w) /\ UNCHANGED ttl
    /\ UNCHANGED <<status, review, reward, attempts, owner, lockedBy, logVars, excluded>>

\* The verifier judged the proof: a reason code in VERDICT_REASONS.
RunVerdict(w) ==
    /\ pc[w] = "Running"
    /\ \E verdict \in BOOLEAN : accepted' = [accepted EXCEPT ![w] = verdict]
    /\ pc' = [pc EXCEPT ![w] = "Judged"]
    /\ UNCHANGED <<rowVars, logVars, job, claimNo, contradicted, excluded>>

RunOperator(w) ==
    LET s == job[w] IN
    /\ pc[w] = "Running"
    /\ DropLease(w, s)
    /\ paged' = IF claimNo[w] >= MaxAttempts THEN paged \cup {s} ELSE paged
    /\ GoIdle(w)
    /\ UNCHANGED <<status, review, reward, attempts, lockedBy, runs, ruling, excluded>>

-----------------------------------------------------------------------------
(* The recording transaction. *)

\* lock_owned_for_recording; None means the verdict is thrown away.
LockForRecording(w) ==
    LET s == job[w] IN
    /\ pc[w] = "Judged"
    /\ lockedBy[s] = NoOwner
    /\ IF OwnsLiveLease(w, s)
       THEN /\ lockedBy' = [lockedBy EXCEPT ![s] = w]
            /\ pc' = [pc EXCEPT ![w] = "Locked"]
            /\ UNCHANGED <<job, claimNo, accepted, contradicted>>
       ELSE GoIdle(w) /\ UNCHANGED lockedBy
    /\ UNCHANGED <<status, review, reward, attempts, owner, ttl, logVars, excluded>>

Automatic(w) == accepted[w] /\ job[w] \notin ReviewRequired

\* approve_automatically, first statement
ReadModes(w) ==
    /\ pc[w] = "Locked" /\ Automatic(w)
    /\ contradicted' = [contradicted EXCEPT ![w] = Cardinality(VerifiedModes(job[w])) > 1]
    /\ pc' = [pc EXCEPT ![w] = "ModesRead"]
    /\ UNCHANGED <<rowVars, logVars, job, claimNo, accepted, excluded>>

\* approve_automatically, second statement
ReadHolder(w) ==
    /\ pc[w] = "ModesRead" /\ ~contradicted[w]
    /\ pc' = [pc EXCEPT ![w] = IF Holders(job[w]) = {} THEN "HolderFree" ELSE "HolderTaken"]
    /\ UNCHANGED <<rowVars, logVars, job, claimNo, accepted, contradicted, excluded>>

\* The commit: the run row, the verdict, the review decision and the statuses
\* it moves, and the cleared lease.
CommitRun(w, verdict, decision, reviewed, rewarded) ==
    LET s == job[w] IN
    /\ runs' = [runs EXCEPT ![s] = @ + 1]
    /\ status' = [status EXCEPT ![s] = verdict]
    /\ ruling' = [ruling EXCEPT ![s] = decision]
    /\ review' = [review EXCEPT ![s] = reviewed]
    /\ reward' = [reward EXCEPT ![s] = rewarded]
    /\ owner' = [owner EXCEPT ![s] = NoOwner]
    /\ ttl' = [ttl EXCEPT ![s] = -1]
    /\ lockedBy' = [lockedBy EXCEPT ![s] = NoOwner]
    /\ GoIdle(w)
    /\ UNCHANGED <<attempts, paged, excluded>>

RecordRejected(w) ==
    /\ pc[w] = "Locked" /\ ~accepted[w]
    /\ CommitRun(w, "REJECTED", "None", "UNREVIEWED", "INELIGIBLE")

RecordForReview(w) ==
    /\ pc[w] = "Locked" /\ accepted[w] /\ job[w] \in ReviewRequired
    /\ CommitRun(w, "VERIFIED", "None", "UNREVIEWED", "INELIGIBLE")

RecordContradicted(w) ==
    /\ pc[w] = "ModesRead" /\ contradicted[w]
    /\ CommitRun(w, "VERIFIED", "Advisory", "UNREVIEWED", "INELIGIBLE")

RecordSuperseded(w) ==
    /\ pc[w] = "HolderTaken"
    /\ CommitRun(w, "VERIFIED", "AutoRejected", "REJECTED", "INELIGIBLE")

RecordApproved(w) ==
    /\ pc[w] = "HolderFree" /\ IndexAdmits(job[w])
    /\ CommitRun(w, "VERIFIED", "AutoApproved", "APPROVED", "ELIGIBLE")

\* Rollback: the row lock goes, nothing the transaction wrote stays.
Rollback(w) == lockedBy' = [s \in Subs |-> IF lockedBy[s] = w THEN NoOwner ELSE lockedBy[s]]

\* The unique index refused the reward: the IntegrityError ends the pass.
IndexConflict(w) ==
    /\ pc[w] = "HolderFree" /\ ~IndexAdmits(job[w])
    /\ Rollback(w)
    /\ GoIdle(w)
    /\ UNCHANGED <<status, review, reward, attempts, owner, ttl, logVars, excluded>>

\* run_forever swallows any other exception; the lease is left to expire.
PassFails(w) ==
    /\ pc[w] # "Idle"
    /\ Rollback(w)
    /\ GoIdle(w)
    /\ UNCHANGED <<status, review, reward, attempts, owner, ttl, logVars, excluded>>

\* The process dies and is restarted under a fresh owner token: its leases name
\* nobody any more, and its exclusions are forgotten.
Crash(w) ==
    /\ pc[w] # "Idle" \/ excluded[w] # {}
    /\ Rollback(w)
    /\ owner' = [s \in Subs |-> IF owner[s] = w THEN Dead ELSE owner[s]]
    /\ GoIdle(w)
    /\ excluded' = [excluded EXCEPT ![w] = {}]
    /\ UNCHANGED <<status, review, reward, attempts, ttl, logVars>>

\* The database clock moves; only what is left of each lease matters.
Tick ==
    /\ \E s \in Subs : ttl[s] >= 0
    /\ ttl' = [s \in Subs |-> IF ttl[s] >= 0 THEN ttl[s] - 1 ELSE ttl[s]]
    /\ UNCHANGED <<status, review, reward, attempts, owner, lockedBy, logVars, workerVars>>

-----------------------------------------------------------------------------
Record(w) ==
    \/ RecordRejected(w) \/ RecordForReview(w) \/ RecordContradicted(w)
    \/ RecordSuperseded(w) \/ RecordApproved(w) \/ IndexConflict(w)

\* What a worker does while nothing goes wrong around it.
Work(w) ==
    \/ Claim(w) \/ Misrouted(w) \/ Extend(w) \/ RunVerdict(w) \/ RunOperator(w)
    \/ LockForRecording(w) \/ ReadModes(w) \/ ReadHolder(w) \/ Record(w)

Next ==
    \/ \E s \in Subs : Submit(s)
    \/ \E w \in Workers : Work(w) \/ PassFails(w) \/ Crash(w)
    \/ Tick

Spec == Init /\ [][Next]_vars

\* A worker keeps polling and finishing its passes, and time passes.
Fairness == WF_vars(Tick) /\ \A w \in Workers : WF_vars(Work(w))
FairSpec == Spec /\ Fairness

-----------------------------------------------------------------------------
(* Properties. *)

Decided(s) == status[s] \in {"VERIFIED", "REJECTED"}
Working(w, s) == pc[w] # "Idle" /\ job[w] = s

\* Safety.  However many workers claimed, lost and reclaimed a submission, it is
\* ruled by exactly one verification run: `lock_owned_for_recording` keeps a
\* worker that finishes late from writing a second verdict.
VerdictRecordedOnce ==
    \A s \in Subs : runs[s] = IF Decided(s) THEN 1 ELSE 0

\* Safety.  One reward target has one rewarded submission, although two workers
\* approving two of its submissions both read "no holder" before either commits.
OneRewardPerTarget ==
    \A s, t \in Subs :
        (TargetOf[s] = TargetOf[t] /\ reward[s] # "INELIGIBLE" /\ reward[t] # "INELIGIBLE")
        => s = t

\* Safety.  Automatic approval never makes a submission eligible that the
\* verifier did not accept or whose own flag asks for a human.
EligibleWasApproved ==
    \A s \in Subs : reward[s] # "INELIGIBLE" =>
        status[s] = "VERIFIED" /\ review[s] = "APPROVED" /\ s \notin ReviewRequired

\* Safety.  Between locking a row and committing its verdict a worker stays the
\* row's owner, even when its lease runs out in between.
RecorderKeepsTheRow ==
    \A w \in Workers : InRecording(w) =>
        /\ lockedBy[job[w]] = w
        /\ owner[job[w]] = w
        /\ status[job[w]] = "UNVERIFIED"

\* Safety.  Two workers still busy with one submission hold different attempt
\* numbers, and the one the row names holds the row's own count: a refund is
\* never applied to somebody else's claim.
ClaimsNumberedApart ==
    \A s \in Subs : \A w \in Workers : Working(w, s) =>
        /\ owner[s] = w => attempts[s] = claimNo[w]
        /\ \A v \in Workers \ {w} : Working(v, s) => claimNo[v] # claimNo[w]

\* Safety.  Once an operator was paged for a submission it stays undecided, out
\* of attempts and unleased: no late worker resolves it behind the operator.
PagedIsFinal ==
    \A s \in paged :
        /\ status[s] = "UNVERIFIED" /\ attempts[s] = MaxAttempts
        /\ owner[s] = NoOwner /\ lockedBy[s] = NoOwner

\* Action property.  A live lease is only ever given up by its holder (or by the
\* holder's death): no other worker's release, claim or verdict strips it.
LiveLeaseIsNotStripped ==
    [][\A s \in Subs, w \in Workers :
          (owner[s] = w /\ ttl[s] >= 0 /\ owner'[s] # w)
          => \A v \in Workers \ {w} : pc'[v] = pc[v]]_vars

\* Liveness.  A submission some worker serves is eventually ruled, or has used up
\* its attempts: an expired lease always returns the row to the queue.
ServedIsResolved ==
    \A s \in UNION {Served[w] : w \in Workers} :
        status[s] = "UNVERIFIED" ~> (Decided(s) \/ attempts[s] = MaxAttempts)

\* Safety.  What a claim keeps until it is given back, stolen or judged: its row, its number among the
\* attempts, and the last word of the operator's page (CLAIM, RELEASE, lock_owned_for_recording, _operator).
ClaimsAreSound ==
    TypeOK /\ RecorderKeepsTheRow /\ ClaimsNumberedApart /\ PagedIsFinal /\ EligibleWasApproved
=============================================================================

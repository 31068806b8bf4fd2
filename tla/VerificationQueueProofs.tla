----------------------- MODULE VerificationQueueProofs -----------------------
(***************************************************************************)
(* Proofs about VerificationQueue, for any number of workers, submissions, *)
(* attempts and any lease lengths, and about TaskPublication, which puts   *)
(* the tasks that it verifies where they are read, for any publishers,     *)
(* readers, publications, crashes and power losses.                        *)
(*                                                                         *)
(* TaskPublication.  The invariant is about every state of the checkout    *)
(* that a power loss may leave (Survivors), since the next step can make   *)
(* any of them the current one: each can be rolled forward or needs not be *)
(* (Recoverable), they share one registry as long as no journal is there   *)
(* (SurvivorsInv), and each names what was acknowledged and read.  Between *)
(* them they go only forward (GoesForward), which is why a reader that     *)
(* finds its registry again has an allowlist of the same publication.      *)
(***************************************************************************)
EXTENDS VerificationQueue, TaskPublication, TLAPS

\* The row lock belongs to the worker that is recording the row.
LockInv ==
    \A w \in Workers, s \in Subs : lockedBy[s] = w <=> (InRecording(w) /\ job[w] = s)

\* A busy worker has a submission; past the verdict's branch it is one the
\* verifier accepted and no human has to see.
JobInv ==
    \A w \in Workers :
        /\ pc[w] # "Idle" => job[w] \in Subs
        /\ pc[w] \in {"ModesRead", "HolderFree", "HolderTaken"} => Automatic(w)

\* Attempt numbers: a claim's number is never above the row's count, and a claim
\* that took the last attempt still owns its undecided row.
ClaimInv ==
    \A w \in Workers, s \in Subs : Working(w, s) =>
        /\ claimNo[w] >= 1
        /\ claimNo[w] <= attempts[s]
        /\ claimNo[w] = MaxAttempts => owner[s] = w /\ status[s] = "UNVERIFIED"

IInv ==
    /\ TypeOK
    /\ LockInv /\ JobInv /\ RecorderKeepsTheRow
    /\ ClaimsNumberedApart /\ ClaimInv /\ PagedIsFinal
    /\ VerdictRecordedOnce /\ OneRewardPerTarget /\ EligibleWasApproved

USE DEF Working, Decided, InRecording, Automatic, NamesMe, OwnsLiveLease, GoIdle, DropLease,
        Rollback, PCs, Owners, NoJob

LEMMA InitIInv == Init => IInv
  <1> SUFFICES ASSUME Init PROVE IInv
    OBVIOUS
  <1>1. TypeOK
    BY QueueConstants DEF Init, TypeOK
  <1>2. LockInv /\ JobInv /\ RecorderKeepsTheRow
    BY QueueConstants DEF Init, LockInv, JobInv, RecorderKeepsTheRow
  <1>3. ClaimsNumberedApart /\ ClaimInv /\ PagedIsFinal
    BY QueueConstants DEF Init, ClaimsNumberedApart, ClaimInv, PagedIsFinal
  <1>4. VerdictRecordedOnce /\ OneRewardPerTarget /\ EligibleWasApproved
    BY DEF Init, VerdictRecordedOnce, OneRewardPerTarget, EligibleWasApproved
  <1> QED
    BY <1>1, <1>2, <1>3, <1>4 DEF IInv

LEMMA SubmitIInv == ASSUME IInv, NEW s \in Subs, Submit(s) PROVE IInv'
  <1> USE QueueConstants DEF IInv, Submit, rowVars, logVars, workerVars
  <1>1. TypeOK'
    BY DEF TypeOK
  <1>2. LockInv' /\ JobInv' /\ RecorderKeepsTheRow'
    BY DEF TypeOK, LockInv, JobInv, RecorderKeepsTheRow
  <1>3. ClaimsNumberedApart' /\ ClaimInv' /\ PagedIsFinal'
    BY DEF TypeOK, ClaimsNumberedApart, ClaimInv, PagedIsFinal
  <1>4. VerdictRecordedOnce' /\ OneRewardPerTarget' /\ EligibleWasApproved'
    BY DEF TypeOK, VerdictRecordedOnce, OneRewardPerTarget, EligibleWasApproved
  <1> QED
    BY <1>1, <1>2, <1>3, <1>4

LEMMA ClaimIInv == ASSUME IInv, NEW w \in Workers, Claim(w) PROVE IInv'
  <1> USE QueueConstants DEF IInv, logVars
  <1> PICK s \in Subs :
         /\ OldestClaimable(w, s)
         /\ attempts' = [attempts EXCEPT ![s] = @ + 1]
         /\ owner' = [owner EXCEPT ![s] = w]
         /\ ttl' = [ttl EXCEPT ![s] = ClaimLease]
         /\ job' = [job EXCEPT ![w] = s]
         /\ claimNo' = [claimNo EXCEPT ![w] = attempts[s] + 1]
    BY DEF Claim
  <1>0. /\ pc[w] = "Idle" /\ pc' = [pc EXCEPT ![w] = "Claimed"]
        /\ UNCHANGED <<status, review, reward, lockedBy, runs, ruling, paged, accepted, contradicted, excluded>>
        /\ status[s] = "UNVERIFIED" /\ attempts[s] < MaxAttempts /\ lockedBy[s] = NoOwner
    BY DEF Claim, OldestClaimable, Claimable
  <1>1. TypeOK'
    BY <1>0 DEF TypeOK
  <1>2. LockInv' /\ JobInv'
    BY <1>0 DEF TypeOK, LockInv, JobInv
  <1>3. RecorderKeepsTheRow'
    BY <1>0 DEF TypeOK, LockInv, RecorderKeepsTheRow
  <1>4. ClaimsNumberedApart'
    BY <1>0 DEF TypeOK, ClaimsNumberedApart, ClaimInv
  <1>5. ClaimInv'
    BY <1>0 DEF TypeOK, ClaimsNumberedApart, ClaimInv
  <1>6. PagedIsFinal'
    BY <1>0 DEF TypeOK, PagedIsFinal
  <1>7. VerdictRecordedOnce' /\ OneRewardPerTarget' /\ EligibleWasApproved'
    BY <1>0 DEF TypeOK, VerdictRecordedOnce, OneRewardPerTarget, EligibleWasApproved
  <1> QED
    BY <1>1, <1>2, <1>3, <1>4, <1>5, <1>6, <1>7
LEMMA MisroutedIInv == ASSUME IInv, NEW w \in Workers, Misrouted(w) PROVE IInv'
  <1> DEFINE s == job[w]
  <1> USE QueueConstants DEF IInv
  <1>0. /\ pc' = [pc EXCEPT ![w] = "Idle"] /\ job' = [job EXCEPT ![w] = NoJob]
        /\ claimNo' = [claimNo EXCEPT ![w] = 0]
        /\ accepted' = [accepted EXCEPT ![w] = FALSE]
        /\ contradicted' = [contradicted EXCEPT ![w] = FALSE]
        /\ pc[w] = "Claimed" /\ s \in Subs
        /\ excluded' = [excluded EXCEPT ![w] = @ \cup {s}]
        /\ UNCHANGED <<status, review, reward, lockedBy, runs, ruling, paged>>
    BY DEF Misrouted, logVars, JobInv
  <1>1. CASE NamesMe(w, s) /\ attempts[s] > 0
    <2>0. /\ owner' = [owner EXCEPT ![s] = NoOwner] /\ ttl' = [ttl EXCEPT ![s] = -1]
          /\ attempts' = [attempts EXCEPT ![s] = @ - 1]
      BY <1>1, <1>0 DEF Misrouted, logVars, JobInv
    <2>1. TypeOK'
      BY <1>1, <1>0, <2>0 DEF TypeOK
    <2>2. LockInv' /\ JobInv'
      BY <1>1, <1>0, <2>0 DEF TypeOK, LockInv, JobInv, RecorderKeepsTheRow
    <2>3. RecorderKeepsTheRow'
      BY <1>1, <1>0, <2>0 DEF TypeOK, LockInv, JobInv, RecorderKeepsTheRow
    <2>4. ClaimsNumberedApart'
      BY <1>1, <1>0, <2>0 DEF TypeOK, ClaimsNumberedApart, ClaimInv
    <2>5. ClaimInv'
      BY <1>1, <1>0, <2>0 DEF TypeOK, ClaimsNumberedApart, ClaimInv
    <2>6. PagedIsFinal'
      BY <1>1, <1>0, <2>0 DEF TypeOK, LockInv, PagedIsFinal, ClaimInv, RecorderKeepsTheRow
    <2>7. VerdictRecordedOnce' /\ OneRewardPerTarget' /\ EligibleWasApproved'
      BY <1>1, <1>0, <2>0 DEF TypeOK, VerdictRecordedOnce, OneRewardPerTarget, EligibleWasApproved
    <2> QED
      BY <2>1, <2>2, <2>3, <2>4, <2>5, <2>6, <2>7
  <1>2. CASE ~(NamesMe(w, s) /\ attempts[s] > 0)
    <2>0. UNCHANGED <<owner, ttl, attempts>>
      BY <1>2, <1>0 DEF Misrouted, logVars, JobInv
    <2>1. TypeOK'
      BY <1>2, <1>0, <2>0 DEF TypeOK
    <2>2. LockInv' /\ JobInv'
      BY <1>2, <1>0, <2>0 DEF TypeOK, LockInv, JobInv, RecorderKeepsTheRow
    <2>3. RecorderKeepsTheRow'
      BY <1>2, <1>0, <2>0 DEF TypeOK, LockInv, JobInv, RecorderKeepsTheRow
    <2>4. ClaimsNumberedApart'
      BY <1>2, <1>0, <2>0 DEF TypeOK, ClaimsNumberedApart, ClaimInv
    <2>5. ClaimInv'
      BY <1>2, <1>0, <2>0 DEF TypeOK, ClaimsNumberedApart, ClaimInv
    <2>6. PagedIsFinal'
      BY <1>2, <1>0, <2>0 DEF TypeOK, LockInv, PagedIsFinal, ClaimInv, RecorderKeepsTheRow
    <2>7. VerdictRecordedOnce' /\ OneRewardPerTarget' /\ EligibleWasApproved'
      BY <1>2, <1>0, <2>0 DEF TypeOK, VerdictRecordedOnce, OneRewardPerTarget, EligibleWasApproved
    <2> QED
      BY <2>1, <2>2, <2>3, <2>4, <2>5, <2>6, <2>7
  <1> QED
    BY <1>1, <1>2

LEMMA ExtendIInv == ASSUME IInv, NEW w \in Workers, Extend(w) PROVE IInv'
  <1> DEFINE s == job[w]
  <1> USE QueueConstants DEF IInv
  <1>0. /\ pc[w] = "Claimed" /\ s \in Subs
        /\ UNCHANGED <<status, review, reward, attempts, owner, lockedBy, runs, ruling, paged, excluded>>
    BY DEF Extend, logVars, JobInv
  <1>1. CASE NamesMe(w, s)
    <2>0. /\ ttl' = [ttl EXCEPT ![s] = RunLease] /\ pc' = [pc EXCEPT ![w] = "Running"]
          /\ UNCHANGED <<job, claimNo, accepted, contradicted>>
      BY <1>1, <1>0 DEF Extend, logVars, JobInv
    <2>1. TypeOK'
      BY <1>1, <1>0, <2>0 DEF TypeOK
    <2>2. LockInv' /\ JobInv'
      BY <1>1, <1>0, <2>0 DEF TypeOK, LockInv, JobInv, RecorderKeepsTheRow
    <2>3. RecorderKeepsTheRow'
      BY <1>1, <1>0, <2>0 DEF TypeOK, LockInv, JobInv, RecorderKeepsTheRow
    <2>4. ClaimsNumberedApart'
      BY <1>1, <1>0, <2>0 DEF TypeOK, ClaimsNumberedApart, ClaimInv
    <2>5. ClaimInv'
      BY <1>1, <1>0, <2>0 DEF TypeOK, ClaimsNumberedApart, ClaimInv
    <2>6. PagedIsFinal'
      BY <1>1, <1>0, <2>0 DEF TypeOK, LockInv, PagedIsFinal, ClaimInv, RecorderKeepsTheRow
    <2>7. VerdictRecordedOnce' /\ OneRewardPerTarget' /\ EligibleWasApproved'
      BY <1>1, <1>0, <2>0 DEF TypeOK, VerdictRecordedOnce, OneRewardPerTarget, EligibleWasApproved
    <2> QED
      BY <2>1, <2>2, <2>3, <2>4, <2>5, <2>6, <2>7
  <1>2. CASE ~NamesMe(w, s)
    <2>0. /\ pc' = [pc EXCEPT ![w] = "Idle"] /\ job' = [job EXCEPT ![w] = NoJob]
          /\ claimNo' = [claimNo EXCEPT ![w] = 0]
          /\ accepted' = [accepted EXCEPT ![w] = FALSE]
          /\ contradicted' = [contradicted EXCEPT ![w] = FALSE]
          /\ UNCHANGED ttl
      BY <1>2, <1>0 DEF Extend, logVars, JobInv
    <2>1. TypeOK'
      BY <1>2, <1>0, <2>0 DEF TypeOK
    <2>2. LockInv' /\ JobInv'
      BY <1>2, <1>0, <2>0 DEF TypeOK, LockInv, JobInv, RecorderKeepsTheRow
    <2>3. RecorderKeepsTheRow'
      BY <1>2, <1>0, <2>0 DEF TypeOK, LockInv, JobInv, RecorderKeepsTheRow
    <2>4. ClaimsNumberedApart'
      BY <1>2, <1>0, <2>0 DEF TypeOK, ClaimsNumberedApart, ClaimInv
    <2>5. ClaimInv'
      BY <1>2, <1>0, <2>0 DEF TypeOK, ClaimsNumberedApart, ClaimInv
    <2>6. PagedIsFinal'
      BY <1>2, <1>0, <2>0 DEF TypeOK, LockInv, PagedIsFinal, ClaimInv, RecorderKeepsTheRow
    <2>7. VerdictRecordedOnce' /\ OneRewardPerTarget' /\ EligibleWasApproved'
      BY <1>2, <1>0, <2>0 DEF TypeOK, VerdictRecordedOnce, OneRewardPerTarget, EligibleWasApproved
    <2> QED
      BY <2>1, <2>2, <2>3, <2>4, <2>5, <2>6, <2>7
  <1> QED
    BY <1>1, <1>2

LEMMA RunVerdictIInv == ASSUME IInv, NEW w \in Workers, RunVerdict(w) PROVE IInv'
  <1> USE QueueConstants DEF IInv, RunVerdict, rowVars, logVars
  <1>1. TypeOK'
    BY DEF TypeOK, JobInv
  <1>2. LockInv' /\ JobInv'
    BY DEF TypeOK, LockInv, JobInv, RecorderKeepsTheRow
  <1>3. RecorderKeepsTheRow'
    BY DEF TypeOK, LockInv, JobInv, RecorderKeepsTheRow
  <1>4. ClaimsNumberedApart'
    BY DEF TypeOK, JobInv, ClaimsNumberedApart, ClaimInv, RecorderKeepsTheRow
  <1>5. ClaimInv'
    BY DEF TypeOK, JobInv, ClaimsNumberedApart, ClaimInv, RecorderKeepsTheRow
  <1>6. PagedIsFinal'
    BY DEF TypeOK, JobInv, LockInv, PagedIsFinal, ClaimInv, RecorderKeepsTheRow
  <1>7. VerdictRecordedOnce' /\ OneRewardPerTarget' /\ EligibleWasApproved'
    BY DEF TypeOK, VerdictRecordedOnce, OneRewardPerTarget, EligibleWasApproved
  <1> QED
    BY <1>1, <1>2, <1>3, <1>4, <1>5, <1>6, <1>7

LEMMA RunOperatorIInv == ASSUME IInv, NEW w \in Workers, RunOperator(w) PROVE IInv'
  <1> DEFINE s == job[w]
  <1> USE QueueConstants DEF IInv
  <1>0. /\ pc' = [pc EXCEPT ![w] = "Idle"] /\ job' = [job EXCEPT ![w] = NoJob]
        /\ claimNo' = [claimNo EXCEPT ![w] = 0]
        /\ accepted' = [accepted EXCEPT ![w] = FALSE]
        /\ contradicted' = [contradicted EXCEPT ![w] = FALSE]
        /\ pc[w] = "Running" /\ s \in Subs
        /\ paged' = IF claimNo[w] >= MaxAttempts THEN paged \cup {s} ELSE paged
        /\ UNCHANGED <<status, review, reward, attempts, lockedBy, runs, ruling, excluded>>
    BY DEF RunOperator, JobInv
  <1>p. claimNo[w] >= MaxAttempts => /\ owner[s] = w /\ status[s] = "UNVERIFIED"
                                     /\ attempts[s] = MaxAttempts /\ lockedBy[s] = NoOwner
    <2> SUFFICES ASSUME claimNo[w] >= MaxAttempts
                 PROVE  /\ owner[s] = w /\ status[s] = "UNVERIFIED"
                        /\ attempts[s] = MaxAttempts /\ lockedBy[s] = NoOwner
      OBVIOUS
    <2>0. claimNo[w] \in 0..MaxAttempts /\ attempts[s] \in 0..MaxAttempts
      BY <1>0 DEF TypeOK
    <2>a. claimNo[w] <= attempts[s]
      BY <1>0 DEF ClaimInv
    <2>1. claimNo[w] = MaxAttempts /\ attempts[s] = MaxAttempts
      BY <2>0, <2>a
    <2>2. owner[s] = w /\ status[s] = "UNVERIFIED"
      BY <1>0, <2>1 DEF ClaimInv
    <2>3. lockedBy[s] = NoOwner
      <3>1. s \in Subs /\ lockedBy[s] \in Workers \cup {NoOwner} /\ pc[w] = "Running"
        BY <1>0 DEF TypeOK
      <3>2. ASSUME NEW x \in Workers, lockedBy[s] = x PROVE x = w /\ InRecording(x)
        <4>1. InRecording(x) /\ job[x] = s
          BY <3>1, <3>2 DEF LockInv
        <4> QED
          BY <2>2, <4>1 DEF RecorderKeepsTheRow
      <3> QED
        BY <3>1, <3>2 DEF InRecording
    <2> QED
      BY <2>1, <2>2, <2>3
  <1>1. CASE NamesMe(w, s)
    <2>0. /\ owner' = [owner EXCEPT ![s] = NoOwner] /\ ttl' = [ttl EXCEPT ![s] = -1]
      BY <1>1, <1>0 DEF RunOperator, JobInv
    <2>1. TypeOK'
      BY <1>1, <1>0, <2>0 DEF TypeOK
    <2>2. LockInv' /\ JobInv'
      BY <1>1, <1>0, <2>0 DEF TypeOK, LockInv, JobInv, RecorderKeepsTheRow
    <2>3. RecorderKeepsTheRow'
      BY <1>1, <1>0, <2>0 DEF TypeOK, LockInv, JobInv, RecorderKeepsTheRow
    <2>4. ClaimsNumberedApart'
      BY <1>1, <1>0, <2>0 DEF TypeOK, ClaimsNumberedApart, ClaimInv
    <2>5. ClaimInv'
      BY <1>1, <1>0, <2>0 DEF TypeOK, ClaimsNumberedApart, ClaimInv
    <2>6. PagedIsFinal'
      <3> SUFFICES ASSUME NEW x \in paged'
                   PROVE  /\ status'[x] = "UNVERIFIED" /\ attempts'[x] = MaxAttempts
                          /\ owner'[x] = NoOwner /\ lockedBy'[x] = NoOwner
        BY DEF PagedIsFinal
      <3>1. CASE x \in paged
        BY <3>1, <1>1, <1>0, <2>0 DEF TypeOK, PagedIsFinal
      <3>2. CASE x = s /\ claimNo[w] >= MaxAttempts
        BY <3>2, <1>1, <1>0, <1>p, <2>0 DEF TypeOK
      <3> QED
        BY <3>1, <3>2, <1>0
    <2>7. VerdictRecordedOnce' /\ OneRewardPerTarget' /\ EligibleWasApproved'
      BY <1>1, <1>0, <2>0 DEF TypeOK, VerdictRecordedOnce, OneRewardPerTarget, EligibleWasApproved
    <2> QED
      BY <2>1, <2>2, <2>3, <2>4, <2>5, <2>6, <2>7
  <1>2. CASE ~NamesMe(w, s)
    <2>0. UNCHANGED <<owner, ttl>>
      BY <1>2, <1>0 DEF RunOperator, JobInv
    <2>1. TypeOK'
      BY <1>2, <1>0, <2>0 DEF TypeOK
    <2>2. LockInv' /\ JobInv'
      BY <1>2, <1>0, <2>0 DEF TypeOK, LockInv, JobInv, RecorderKeepsTheRow
    <2>3. RecorderKeepsTheRow'
      BY <1>2, <1>0, <2>0 DEF TypeOK, LockInv, JobInv, RecorderKeepsTheRow
    <2>4. ClaimsNumberedApart'
      BY <1>2, <1>0, <2>0 DEF TypeOK, ClaimsNumberedApart, ClaimInv
    <2>5. ClaimInv'
      BY <1>2, <1>0, <2>0 DEF TypeOK, ClaimsNumberedApart, ClaimInv
    <2>6. PagedIsFinal'
      <3> SUFFICES ASSUME NEW x \in paged'
                   PROVE  /\ status'[x] = "UNVERIFIED" /\ attempts'[x] = MaxAttempts
                          /\ owner'[x] = NoOwner /\ lockedBy'[x] = NoOwner
        BY DEF PagedIsFinal
      <3>1. CASE x \in paged
        BY <3>1, <1>2, <1>0, <2>0 DEF TypeOK, PagedIsFinal
      <3>2. CASE x = s /\ claimNo[w] >= MaxAttempts
        BY <3>2, <1>2, <1>0, <1>p, <2>0 DEF TypeOK
      <3> QED
        BY <3>1, <3>2, <1>0
    <2>7. VerdictRecordedOnce' /\ OneRewardPerTarget' /\ EligibleWasApproved'
      BY <1>2, <1>0, <2>0 DEF TypeOK, VerdictRecordedOnce, OneRewardPerTarget, EligibleWasApproved
    <2> QED
      BY <2>1, <2>2, <2>3, <2>4, <2>5, <2>6, <2>7
  <1> QED
    BY <1>1, <1>2

LEMMA LockForRecordingIInv == ASSUME IInv, NEW w \in Workers, LockForRecording(w) PROVE IInv'
  <1> DEFINE s == job[w]
  <1> USE QueueConstants DEF IInv
  <1>0. /\ pc[w] = "Judged" /\ s \in Subs /\ lockedBy[s] = NoOwner
        /\ UNCHANGED <<status, review, reward, attempts, owner, ttl, runs, ruling, paged, excluded>>
    BY DEF LockForRecording, logVars, JobInv
  <1>1. CASE OwnsLiveLease(w, s)
    <2>0. /\ lockedBy' = [lockedBy EXCEPT ![s] = w] /\ pc' = [pc EXCEPT ![w] = "Locked"]
          /\ UNCHANGED <<job, claimNo, accepted, contradicted>>
      BY <1>1, <1>0 DEF LockForRecording, logVars, JobInv
    <2>1. TypeOK'
      BY <1>1, <1>0, <2>0 DEF TypeOK
    <2>2. LockInv' /\ JobInv'
      BY <1>1, <1>0, <2>0 DEF TypeOK, LockInv, JobInv, RecorderKeepsTheRow
    <2>3. RecorderKeepsTheRow'
      BY <1>1, <1>0, <2>0 DEF TypeOK, LockInv, JobInv, RecorderKeepsTheRow
    <2>4. ClaimsNumberedApart'
      BY <1>1, <1>0, <2>0 DEF TypeOK, ClaimsNumberedApart, ClaimInv
    <2>5. ClaimInv'
      BY <1>1, <1>0, <2>0 DEF TypeOK, ClaimsNumberedApart, ClaimInv
    <2>6. PagedIsFinal'
      BY <1>1, <1>0, <2>0 DEF TypeOK, LockInv, PagedIsFinal, ClaimInv, RecorderKeepsTheRow
    <2>7. VerdictRecordedOnce' /\ OneRewardPerTarget' /\ EligibleWasApproved'
      BY <1>1, <1>0, <2>0 DEF TypeOK, VerdictRecordedOnce, OneRewardPerTarget, EligibleWasApproved
    <2> QED
      BY <2>1, <2>2, <2>3, <2>4, <2>5, <2>6, <2>7
  <1>2. CASE ~OwnsLiveLease(w, s)
    <2>0. /\ pc' = [pc EXCEPT ![w] = "Idle"] /\ job' = [job EXCEPT ![w] = NoJob]
          /\ claimNo' = [claimNo EXCEPT ![w] = 0]
          /\ accepted' = [accepted EXCEPT ![w] = FALSE]
          /\ contradicted' = [contradicted EXCEPT ![w] = FALSE]
          /\ UNCHANGED lockedBy
      BY <1>2, <1>0 DEF LockForRecording, logVars, JobInv
    <2>1. TypeOK'
      BY <1>2, <1>0, <2>0 DEF TypeOK
    <2>2. LockInv' /\ JobInv'
      BY <1>2, <1>0, <2>0 DEF TypeOK, LockInv, JobInv, RecorderKeepsTheRow
    <2>3. RecorderKeepsTheRow'
      BY <1>2, <1>0, <2>0 DEF TypeOK, LockInv, JobInv, RecorderKeepsTheRow
    <2>4. ClaimsNumberedApart'
      BY <1>2, <1>0, <2>0 DEF TypeOK, ClaimsNumberedApart, ClaimInv
    <2>5. ClaimInv'
      BY <1>2, <1>0, <2>0 DEF TypeOK, ClaimsNumberedApart, ClaimInv
    <2>6. PagedIsFinal'
      BY <1>2, <1>0, <2>0 DEF TypeOK, LockInv, PagedIsFinal, ClaimInv, RecorderKeepsTheRow
    <2>7. VerdictRecordedOnce' /\ OneRewardPerTarget' /\ EligibleWasApproved'
      BY <1>2, <1>0, <2>0 DEF TypeOK, VerdictRecordedOnce, OneRewardPerTarget, EligibleWasApproved
    <2> QED
      BY <2>1, <2>2, <2>3, <2>4, <2>5, <2>6, <2>7
  <1> QED
    BY <1>1, <1>2

LEMMA ReadModesIInv == ASSUME IInv, NEW w \in Workers, ReadModes(w) PROVE IInv'
  <1> USE QueueConstants DEF IInv, ReadModes, rowVars, logVars
  <1>1. TypeOK'
    BY DEF TypeOK, JobInv
  <1>2. LockInv' /\ JobInv'
    BY DEF TypeOK, LockInv, JobInv, RecorderKeepsTheRow
  <1>3. RecorderKeepsTheRow'
    BY DEF TypeOK, LockInv, JobInv, RecorderKeepsTheRow
  <1>4. ClaimsNumberedApart'
    BY DEF TypeOK, JobInv, ClaimsNumberedApart, ClaimInv, RecorderKeepsTheRow
  <1>5. ClaimInv'
    BY DEF TypeOK, JobInv, ClaimsNumberedApart, ClaimInv, RecorderKeepsTheRow
  <1>6. PagedIsFinal'
    BY DEF TypeOK, JobInv, LockInv, PagedIsFinal, ClaimInv, RecorderKeepsTheRow
  <1>7. VerdictRecordedOnce' /\ OneRewardPerTarget' /\ EligibleWasApproved'
    BY DEF TypeOK, VerdictRecordedOnce, OneRewardPerTarget, EligibleWasApproved
  <1> QED
    BY <1>1, <1>2, <1>3, <1>4, <1>5, <1>6, <1>7

LEMMA ReadHolderIInv == ASSUME IInv, NEW w \in Workers, ReadHolder(w) PROVE IInv'
  <1> USE QueueConstants DEF IInv, ReadHolder, rowVars, logVars
  <1>1. TypeOK'
    BY DEF TypeOK, JobInv
  <1>2. LockInv' /\ JobInv'
    BY DEF TypeOK, LockInv, JobInv, RecorderKeepsTheRow
  <1>3. RecorderKeepsTheRow'
    BY DEF TypeOK, LockInv, JobInv, RecorderKeepsTheRow
  <1>4. ClaimsNumberedApart'
    BY DEF TypeOK, JobInv, ClaimsNumberedApart, ClaimInv, RecorderKeepsTheRow
  <1>5. ClaimInv'
    BY DEF TypeOK, JobInv, ClaimsNumberedApart, ClaimInv, RecorderKeepsTheRow
  <1>6. PagedIsFinal'
    BY DEF TypeOK, JobInv, LockInv, PagedIsFinal, ClaimInv, RecorderKeepsTheRow
  <1>7. VerdictRecordedOnce' /\ OneRewardPerTarget' /\ EligibleWasApproved'
    BY DEF TypeOK, VerdictRecordedOnce, OneRewardPerTarget, EligibleWasApproved
  <1> QED
    BY <1>1, <1>2, <1>3, <1>4, <1>5, <1>6, <1>7

LEMMA IndexConflictIInv == ASSUME IInv, NEW w \in Workers, IndexConflict(w) PROVE IInv'
  <1> USE QueueConstants DEF IInv, IndexConflict, logVars
  <1>1. TypeOK'
    BY DEF TypeOK, JobInv
  <1>2. LockInv' /\ JobInv'
    BY DEF TypeOK, LockInv, JobInv, RecorderKeepsTheRow
  <1>3. RecorderKeepsTheRow'
    BY DEF TypeOK, LockInv, JobInv, RecorderKeepsTheRow
  <1>4. ClaimsNumberedApart'
    BY DEF TypeOK, JobInv, ClaimsNumberedApart, ClaimInv, RecorderKeepsTheRow
  <1>5. ClaimInv'
    BY DEF TypeOK, JobInv, ClaimsNumberedApart, ClaimInv, RecorderKeepsTheRow
  <1>6. PagedIsFinal'
    BY DEF TypeOK, JobInv, LockInv, PagedIsFinal, ClaimInv, RecorderKeepsTheRow
  <1>7. VerdictRecordedOnce' /\ OneRewardPerTarget' /\ EligibleWasApproved'
    BY DEF TypeOK, VerdictRecordedOnce, OneRewardPerTarget, EligibleWasApproved
  <1> QED
    BY <1>1, <1>2, <1>3, <1>4, <1>5, <1>6, <1>7

LEMMA PassFailsIInv == ASSUME IInv, NEW w \in Workers, PassFails(w) PROVE IInv'
  <1> USE QueueConstants DEF IInv, PassFails, logVars
  <1>1. TypeOK'
    BY DEF TypeOK, JobInv
  <1>2. LockInv' /\ JobInv'
    BY DEF TypeOK, LockInv, JobInv, RecorderKeepsTheRow
  <1>3. RecorderKeepsTheRow'
    BY DEF TypeOK, LockInv, JobInv, RecorderKeepsTheRow
  <1>4. ClaimsNumberedApart'
    BY DEF TypeOK, JobInv, ClaimsNumberedApart, ClaimInv, RecorderKeepsTheRow
  <1>5. ClaimInv'
    BY DEF TypeOK, JobInv, ClaimsNumberedApart, ClaimInv, RecorderKeepsTheRow
  <1>6. PagedIsFinal'
    BY DEF TypeOK, JobInv, LockInv, PagedIsFinal, ClaimInv, RecorderKeepsTheRow
  <1>7. VerdictRecordedOnce' /\ OneRewardPerTarget' /\ EligibleWasApproved'
    BY DEF TypeOK, VerdictRecordedOnce, OneRewardPerTarget, EligibleWasApproved
  <1> QED
    BY <1>1, <1>2, <1>3, <1>4, <1>5, <1>6, <1>7

LEMMA CrashIInv == ASSUME IInv, NEW w \in Workers, Crash(w) PROVE IInv'
  <1> USE QueueConstants DEF IInv, Crash, logVars
  <1>1. TypeOK'
    BY DEF TypeOK, JobInv
  <1>2. LockInv' /\ JobInv'
    BY DEF TypeOK, LockInv, JobInv, RecorderKeepsTheRow
  <1>3. RecorderKeepsTheRow'
    BY DEF TypeOK, LockInv, JobInv, RecorderKeepsTheRow
  <1>4. ClaimsNumberedApart'
    BY DEF TypeOK, JobInv, ClaimsNumberedApart, ClaimInv, RecorderKeepsTheRow
  <1>5. ClaimInv'
    BY DEF TypeOK, JobInv, ClaimsNumberedApart, ClaimInv, RecorderKeepsTheRow
  <1>6. PagedIsFinal'
    BY DEF TypeOK, JobInv, LockInv, PagedIsFinal, ClaimInv, RecorderKeepsTheRow
  <1>7. VerdictRecordedOnce' /\ OneRewardPerTarget' /\ EligibleWasApproved'
    BY DEF TypeOK, VerdictRecordedOnce, OneRewardPerTarget, EligibleWasApproved
  <1> QED
    BY <1>1, <1>2, <1>3, <1>4, <1>5, <1>6, <1>7

\* Every commit of the recording transaction, whatever it decided.
LEMMA CommitIInv ==
  ASSUME IInv, NEW w \in Workers, InRecording(w),
         NEW verdict \in {"VERIFIED", "REJECTED"},
         NEW decision \in {"None", "Advisory", "AutoRejected", "AutoApproved"},
         NEW reviewed \in {"UNREVIEWED", "APPROVED", "REJECTED"},
         NEW rewarded \in {"INELIGIBLE", "ELIGIBLE"},
         CommitRun(w, verdict, decision, reviewed, rewarded),
         rewarded = "ELIGIBLE" =>
            /\ verdict = "VERIFIED" /\ reviewed = "APPROVED"
            /\ job[w] \notin ReviewRequired /\ IndexAdmits(job[w])
  PROVE  IInv'
  <1> DEFINE s == job[w]
  <1> USE QueueConstants DEF IInv
  <1>0. /\ s \in Subs /\ lockedBy[s] = w /\ owner[s] = w /\ status[s] = "UNVERIFIED"
    BY DEF JobInv, RecorderKeepsTheRow
  <1>1. TypeOK'
    BY <1>0 DEF TypeOK, CommitRun
  <1>2. LockInv' /\ JobInv'
    BY <1>0 DEF TypeOK, LockInv, JobInv, CommitRun
  <1>3. RecorderKeepsTheRow'
    BY <1>0 DEF TypeOK, LockInv, RecorderKeepsTheRow, CommitRun
  <1>4. ClaimsNumberedApart'
    BY <1>0 DEF TypeOK, ClaimsNumberedApart, CommitRun
  <1>5. ClaimInv'
    BY <1>0 DEF TypeOK, ClaimInv, CommitRun
  <1>6. PagedIsFinal'
    BY <1>0 DEF TypeOK, PagedIsFinal, CommitRun
  <1>7. VerdictRecordedOnce'
    BY <1>0 DEF TypeOK, VerdictRecordedOnce, CommitRun
  <1>8. OneRewardPerTarget'
    BY <1>0 DEF TypeOK, OneRewardPerTarget, CommitRun, IndexAdmits, Holders
  <1>9. EligibleWasApproved'
    BY <1>0 DEF TypeOK, EligibleWasApproved, CommitRun
  <1> QED
    BY <1>1, <1>2, <1>3, <1>4, <1>5, <1>6, <1>7, <1>8, <1>9

LEMMA RecordIInv == ASSUME IInv, NEW w \in Workers, Record(w) PROVE IInv'
  <1>1. CASE RecordRejected(w)
    BY <1>1, CommitIInv DEF RecordRejected
  <1>2. CASE RecordForReview(w)
    BY <1>2, CommitIInv DEF RecordForReview
  <1>3. CASE RecordContradicted(w)
    BY <1>3, CommitIInv DEF RecordContradicted
  <1>4. CASE RecordSuperseded(w)
    BY <1>4, CommitIInv DEF RecordSuperseded
  <1>5. CASE RecordApproved(w)
    BY <1>5, CommitIInv DEF RecordApproved, IInv, JobInv
  <1>6. CASE IndexConflict(w)
    BY <1>6, IndexConflictIInv
  <1> QED
    BY <1>1, <1>2, <1>3, <1>4, <1>5, <1>6 DEF Record

LEMMA TickIInv == ASSUME IInv, Tick PROVE IInv'
  <1> USE QueueConstants DEF IInv, Tick, logVars, workerVars
  <1>1. TypeOK'
    BY DEF TypeOK
  <1>2. LockInv' /\ JobInv' /\ RecorderKeepsTheRow'
    BY DEF LockInv, JobInv, RecorderKeepsTheRow
  <1>3. ClaimsNumberedApart' /\ ClaimInv' /\ PagedIsFinal'
    BY DEF ClaimsNumberedApart, ClaimInv, PagedIsFinal
  <1>4. VerdictRecordedOnce' /\ OneRewardPerTarget' /\ EligibleWasApproved'
    BY DEF VerdictRecordedOnce, OneRewardPerTarget, EligibleWasApproved
  <1> QED
    BY <1>1, <1>2, <1>3, <1>4

LEMMA StutterIInv == ASSUME IInv, UNCHANGED vars PROVE IInv'
  BY DEF IInv, vars, rowVars, logVars, workerVars, TypeOK, LockInv, JobInv, RecorderKeepsTheRow,
         ClaimsNumberedApart, ClaimInv, PagedIsFinal, VerdictRecordedOnce, OneRewardPerTarget,
         EligibleWasApproved

LEMMA NextIInv == ASSUME IInv, [Next]_vars PROVE IInv'
  <1>1. CASE \E s \in Subs : Submit(s)
    BY <1>1, SubmitIInv
  <1>2. CASE \E w \in Workers : Work(w) \/ PassFails(w) \/ Crash(w)
    BY <1>2, ClaimIInv, MisroutedIInv, ExtendIInv, RunVerdictIInv, RunOperatorIInv,
       LockForRecordingIInv, ReadModesIInv, ReadHolderIInv, RecordIInv, PassFailsIInv, CrashIInv
    DEF Work
  <1>3. CASE Tick
    BY <1>3, TickIInv
  <1>4. CASE UNCHANGED vars
    BY <1>4, StutterIInv
  <1> QED
    BY <1>1, <1>2, <1>3, <1>4 DEF Next

\* The inductive invariant holds of every behaviour of the queue: attempts stay
\* within the cap, whatever crashes, expiries and reclaims happen.
THEOREM QueueInductive == Spec => []IInv
  <1>1. Init => IInv
    BY InitIInv
  <1>2. IInv /\ [Next]_vars => IInv'
    BY NextIInv
  <1> QED
    BY <1>1, <1>2, PTL DEF Spec

\* Type correctness of the queue (verification_attempts never passes the cap,
\* the lease owner is a process or NULL).
THEOREM QueueTypeOK == Spec => []TypeOK
  BY QueueInductive, PTL DEF IInv

\* One verification run rules a submission, however often its lease was lost.
THEOREM QueueVerdictRecordedOnce == Spec => []VerdictRecordedOnce
  BY QueueInductive, PTL DEF IInv

\* One reward per reward target under concurrent automatic approvals.
THEOREM QueueOneRewardPerTarget == Spec => []OneRewardPerTarget
  BY QueueInductive, PTL DEF IInv

\* Automatic approval never makes a submission eligible that the verifier did not
\* accept or that its own flag reserves for a human.
THEOREM QueueEligibleWasApproved == Spec => []EligibleWasApproved
  BY QueueInductive, PTL DEF IInv

\* A worker that is recording still owns its undecided row.
THEOREM QueueRecorderKeepsTheRow == Spec => []RecorderKeepsTheRow
  BY QueueInductive, PTL DEF IInv

\* Claims of one row carry different attempt numbers; refunds hit their own.
THEOREM QueueClaimsNumberedApart == Spec => []ClaimsNumberedApart
  BY QueueInductive, PTL DEF IInv

\* A submission an operator was paged for is never resolved behind the operator.
THEOREM QueuePagedIsFinal == Spec => []PagedIsFinal
  BY QueueInductive, PTL DEF IInv

\* The five together, as the run checks them: what a claim, its attempt number and
\* its recording rely on holds in every interleaving of the workers.
THEOREM QueueClaimsAreSound == Spec => []ClaimsAreSound
  <1>1. IInv => ClaimsAreSound
    BY DEF IInv, ClaimsAreSound
  <1> QED
    BY <1>1, QueueInductive, PTL

\* A live lease is given up by its holder alone: the owner guards of RELEASE,
\* RELEASE_UNCONSUMED and lock_owned_for_recording, with the inductive invariant
\* for the commit, leave other workers no way to strip it.
THEOREM QueueLiveLeaseIsNotStripped == Spec => LiveLeaseIsNotStripped
  <1> DEFINE Kept == \A s \in Subs, w \in Workers :
                       (owner[s] = w /\ ttl[s] >= 0 /\ owner'[s] # w)
                       => \A v \in Workers \ {w} : pc'[v] = pc[v]
  <1>1. ASSUME IInv, [Next]_vars PROVE [Kept]_vars
    <2> SUFFICES ASSUME IInv, Next,
                        NEW s \in Subs, NEW w \in Workers, owner[s] = w, ttl[s] >= 0, owner'[s] # w,
                        NEW v \in Workers \ {w}
                 PROVE  pc'[v] = pc[v]
      BY <1>1
    <2> USE QueueConstants DEF IInv, TypeOK, rowVars, logVars, workerVars
    <2>1. PICK u \in Workers : Work(u) \/ PassFails(u) \/ Crash(u)
      BY DEF Next, Submit, Tick
    <2>2. u = w
      <3>1. CASE Claim(u)
        BY <3>1 DEF Claim, OldestClaimable, Claimable
      <3>2. CASE Misrouted(u)
        BY <3>2 DEF Misrouted
      <3>3. CASE Extend(u) \/ RunVerdict(u) \/ LockForRecording(u)
        BY <3>3 DEF Extend, RunVerdict, LockForRecording
      <3>4. CASE RunOperator(u)
        BY <3>4 DEF RunOperator
      <3>5. CASE ReadModes(u) \/ ReadHolder(u) \/ PassFails(u) \/ IndexConflict(u)
        BY <3>5 DEF ReadModes, ReadHolder, PassFails, IndexConflict
      <3>6. CASE Crash(u)
        BY <3>6 DEF Crash
      <3>7. CASE Record(u) /\ ~IndexConflict(u)
        BY <3>7 DEF Record, RecordRejected, RecordForReview, RecordContradicted,
           RecordSuperseded, RecordApproved, CommitRun, RecorderKeepsTheRow
      <3> QED
        BY <2>1, <3>1, <3>2, <3>3, <3>4, <3>5, <3>6, <3>7 DEF Work
    <2>3. \A x \in Workers \ {u} : pc'[x] = pc[x]
      BY <2>1 DEF Work, Record, Claim, Misrouted, Extend, RunVerdict, RunOperator,
         LockForRecording, ReadModes, ReadHolder, PassFails, IndexConflict, Crash,
         RecordRejected, RecordForReview, RecordContradicted, RecordSuperseded,
         RecordApproved, CommitRun
    <2> QED
      BY <2>2, <2>3
  <1> QED
    BY <1>1, QueueInductive, PTL DEF Spec, LiveLeaseIsNotStripped

-----------------------------------------------------------------------------
(* The publication of the tasks that the queue verifies (TaskPublication). *)

Ids == 1 .. MaxPublications
Registries == Seq(Ids)
Journals == [registry : Registries, allowlist : Ids]
Checkouts == [registry : Registries, allowlist : 0 .. MaxPublications, journal : Journals \cup {NoFile},
              stagedRegistry : Registries \cup {NoFile}, stagedAllowlist : Ids \cup {NoFile}]
StoreStates == [Bundles -> {"None", "Renamed", "Sealed"}]
PublisherPCs == {"Idle", "Derive", "Bundle", "BundleSync", "Seal", "Check", "StageRegistry", "StageAllowlist", "Journal",
                 "JournalSync", "Allowlist", "Registry", "ReplaceSync", "Unlink", "UnlinkSync", "Done"}
PublisherStates == [pc : PublisherPCs, base : Registries, id : 0 .. MaxPublications, recovering : BOOLEAN]
ReaderPCs == {"Idle", "Registry", "Allowlist", "Used", "CompareRegistry", "CompareAllowlist"}
ReaderStates == [pc : ReaderPCs, tries : Nat, registry : Registries, allowlist : 0 .. MaxPublications,
                 got : {<<>>} \cup (Registries \X (0 .. MaxPublications))]

\* The states of the checkout that a power loss may leave.
Survivors == {disk[i] : i \in DOMAIN disk}

PublicationTyped ==
    /\ dir \in Checkouts
    /\ disk \in Seq(Checkouts) /\ disk # <<>> /\ disk[Len(disk)] = dir
    /\ store \in StoreStates /\ storeDisk \in StoreStates
    /\ flock \in Publishers \cup {NoPublisher}
    /\ publisher \in [Publishers -> PublisherStates]
    /\ checkoutReader \in [CheckoutReaders -> ReaderStates]
    /\ made \in 0 .. MaxPublications
    /\ \A p \in Publishers : publisher[p].pc # "Idle" => flock = p

\* A journal can be rolled forward, and without one the two files belong together.
RolledForward(d) == /\ d.registry = d.journal.registry /\ d.allowlist = d.journal.allowlist
                    /\ d.allowlist = LastOr0(d.registry)
CanRollForward(d) == /\ d.journal.registry = Append(d.registry, d.journal.allowlist)
                     /\ d.stagedRegistry = d.journal.registry
                     /\ d.journal.allowlist \in {d.allowlist, d.stagedAllowlist}
Recoverable(d) == /\ d.journal = NoFile => d.allowlist = LastOr0(d.registry)
                  /\ d.journal # NoFile => RolledForward(d) \/ CanRollForward(d)

SurvivorsInv == /\ \A d \in Survivors : Recoverable(d)
                /\ dir.journal = NoFile => \A d \in Survivors : d.registry = dir.registry

Early == {"Derive", "Bundle", "BundleSync", "Seal", "Check"}
Staging == {"StageRegistry", "StageAllowlist", "Journal"}
Journaled == {"JournalSync", "Allowlist", "Registry", "ReplaceSync", "Unlink"}

\* What the holder q of the lock knows of the checkout d.
Knows(q, d) ==
    /\ q.pc \in Early \cup Staging => d.journal = NoFile /\ ~q.recovering
    /\ q.pc \in {"Bundle", "BundleSync", "Seal", "Check"} \cup Staging => q.id \in Ids
    /\ q.pc \in Staging => d.registry = q.base
    /\ q.pc \in {"StageAllowlist", "Journal"} => d.stagedRegistry = Append(q.base, q.id)
    /\ q.pc = "Journal" => d.stagedAllowlist = q.id
    /\ q.pc \in Journaled => d.journal # NoFile /\ (q.recovering \/ d.journal.registry = Append(q.base, q.id))
    /\ q.pc = "Registry" => d.allowlist = d.journal.allowlist
    /\ q.pc \in {"ReplaceSync", "Unlink"} => d.registry = d.journal.registry
    /\ q.pc \in {"UnlinkSync", "Done"} => d.journal = NoFile /\ (q.recovering \/ d.registry = Append(q.base, q.id))
PublishersInv ==
    \A p \in Publishers : /\ Knows(publisher[p], dir)
                          /\ publisher[p].pc \in {"Unlink", "Done"} => Survivors = {dir}

Names(registry, id) == \E i \in 1 .. Len(registry) : registry[i] = id
AcknowledgedInv == \A d \in Survivors : \A id \in acknowledged : Names(d.registry, id)

Kept(registry) == \A i \in 1 .. Len(registry) : storeDisk[BundleOf[registry[i]]] # "None"
StoreInv ==
    /\ \A b \in Bundles : storeDisk[b] # "None" => store[b] # "None"
    /\ \A d \in Survivors : Kept(d.registry) /\ (d.journal # NoFile => Kept(d.journal.registry))
    /\ \A p \in Publishers :
         /\ publisher[p].pc = "BundleSync" => store[BundleOf[publisher[p].id]] # "None"
         /\ publisher[p].pc \in {"Seal", "Check"} \cup Staging => storeDisk[BundleOf[publisher[p].id]] # "None"

Pending(d) == d.journal # NoFile /\ d.journal.registry # d.registry

\* What a reader has seen, against the checkout d.
Saw(x, d) ==
    /\ x.pc \in {"Allowlist", "Used"} => IsPrefix(x.registry, d.registry)
    /\ x.pc = "Used" => (x.registry = d.registry => x.allowlist = d.allowlist \/ Pending(d))
    /\ x.pc = "CompareRegistry" => (x.registry = d.registry => x.allowlist = LastOr0(x.registry))
    /\ x.pc = "CompareAllowlist" => x.allowlist = LastOr0(x.registry)
    /\ x.got # <<>> => x.got[2] = LastOr0(x.got[1])
\* What of it no power loss takes back.
Lasts(x, d) ==
    /\ x.pc \in {"CompareRegistry", "CompareAllowlist"} => IsPrefix(x.registry, d.registry)
    /\ x.got # <<>> => IsPrefix(x.got[1], d.registry)
ReadersInv == \A r \in CheckoutReaders : Saw(checkoutReader[r], dir) /\ \A d \in Survivors : Lasts(checkoutReader[r], d)

PublicationIInv == PublicationTyped /\ SurvivorsInv /\ PublishersInv /\ AcknowledgedInv /\ StoreInv /\ ReadersInv

-----------------------------------------------------------------------------
\* A registry that gains a publication names it last.
LEMMA LastOfAppend ==
    ASSUME NEW s \in Registries, NEW x \in Ids
    PROVE  Append(s, x) \in Registries /\ LastOr0(Append(s, x)) = x /\ Append(s, x) # s
<1>1. /\ Append(s, x) \in Seq(Ids) /\ Len(Append(s, x)) = Len(s) + 1 /\ Len(s) \in Nat
      /\ Append(s, x)[Len(s) + 1] = x
  BY DEF Registries
<1>2. Append(s, x) # <<>> /\ Append(s, x) # s
  BY <1>1
<1> QED BY <1>1, <1>2 DEF LastOr0, Last, Registries

LEMMA LastIsTyped ==
    ASSUME NEW s \in Registries
    PROVE  LastOr0(s) \in 0 .. MaxPublications
BY PublicationConstants DEF LastOr0, Last, Registries, Ids

LEMMA PrefixOfItself ==
    ASSUME NEW s \in Registries
    PROVE  IsPrefix(s, s)
BY DEF IsPrefix, Registries

\* A registry that gains a publication keeps its prefixes and equals none of them.
LEMMA PrefixOfAppend ==
    ASSUME NEW s \in Registries, NEW t \in Registries, NEW x \in Ids, IsPrefix(s, t)
    PROVE  IsPrefix(s, Append(t, x)) /\ s # Append(t, x)
<1>1. Len(s) \in Nat /\ Len(t) \in Nat /\ Len(s) <= Len(t) /\ Len(Append(t, x)) = Len(t) + 1
  BY DEF IsPrefix, Registries
<1>2. SubSeq(t, 1, Len(s)) = SubSeq(Append(t, x), 1, Len(s))
  BY <1>1 DEF Registries
<1> QED BY <1>1, <1>2 DEF IsPrefix, Registries

\* It still names what it named.
LEMMA NamesInAppend ==
    ASSUME NEW s \in Registries, NEW x \in Ids
    PROVE  /\ Names(Append(s, x), x)
           /\ \A id : Names(s, id) => Names(Append(s, x), id)
BY DEF Names, Registries

LEMMA KeptInAppend ==
    ASSUME NEW s \in Registries, NEW x \in Ids, Kept(s), storeDisk[BundleOf[x]] # "None"
    PROVE  Kept(Append(s, x))
BY DEF Kept, Registries

\* What processes see is one of the states that a power loss may leave.
LEMMA DirSurvives ==
    ASSUME PublicationTyped
    PROVE  dir \in Survivors /\ Survivors \subseteq Checkouts
BY DEF PublicationTyped, Survivors

\* A journal is never taken for no file.
LEMMA JournalIsAFile ==
    ASSUME NEW s \in Registries, NEW x \in Ids
    PROVE  /\ [registry |-> s, allowlist |-> x] \in Journals
           /\ [registry |-> s, allowlist |-> x] # NoFile
<1>1. s \in Seq(Nat) /\ x \in Nat
  BY PublicationConstants DEF Registries, Ids
<1> QED BY <1>1, PublicationConstants DEF Journals

\* Only the publisher that holds the lock is at work.
LEMMA OneAtWork ==
    ASSUME PublicationTyped, NEW p \in Publishers, NEW q \in Publishers, p # q, publisher[p].pc # "Idle"
    PROVE  publisher[q].pc = "Idle"
BY DEF PublicationTyped

\* An operation that is not synced adds one state to those a power loss may leave; a sync leaves one.
LEMMA ChangeDirSurvivors ==
    ASSUME PublicationTyped, NEW new \in Checkouts,
           dir' = new, disk' = IF new = dir THEN disk ELSE Append(disk, new)
    PROVE  /\ disk' \in Seq(Checkouts) /\ disk' # <<>> /\ disk'[Len(disk')] = new
           /\ Survivors' \subseteq Survivors \cup {new}
<1>1. CASE new = dir
  BY <1>1 DEF PublicationTyped, Survivors
<1>2. CASE new # dir
  <2>1. disk' = Append(disk, new) /\ disk \in Seq(Checkouts)
    BY <1>2 DEF PublicationTyped
  <2>2. /\ disk' \in Seq(Checkouts) /\ Len(disk') = Len(disk) + 1
        /\ \A i \in 1 .. Len(disk) : disk'[i] = disk[i]
        /\ disk'[Len(disk) + 1] = new
    BY <2>1
  <2> QED BY <2>1, <2>2 DEF Survivors
<1> QED BY <1>1, <1>2

LEMMA SyncSurvivors ==
    ASSUME NEW d, disk' = <<d>>
    PROVE  Survivors' = {d} /\ disk' # <<>> /\ disk'[Len(disk')] = d
BY DEF Survivors

-----------------------------------------------------------------------------
(* What a publisher's step does to the checkout. *)

\* From d to e a registry only gains the pending publication, and an allowlist changes only while one is pending.
GoesForward(d, e) ==
    /\ \/ e.registry = d.registry
       \/ Pending(d) /\ d.journal.allowlist \in Ids /\ e.registry = Append(d.registry, d.journal.allowlist) /\ e.registry = d.journal.registry
    /\ e.allowlist = d.allowlist \/ (Pending(d) /\ Pending(e))
    /\ Pending(d) => Pending(e) \/ e.registry # d.registry

CheckoutMoves ==
    /\ dir' \in Checkouts /\ disk' \in Seq(Checkouts) /\ disk' # <<>> /\ disk'[Len(disk')] = dir'
    /\ Survivors' \subseteq Survivors \cup {dir'} /\ GoesForward(dir, dir')
    /\ SurvivorsInv'

\* A step that touches no file.
LEMMA Stays ==
    ASSUME PublicationTyped, SurvivorsInv, dir' = dir, disk' = disk
    PROVE  CheckoutMoves /\ Survivors' = Survivors
<1>1. Survivors' = Survivors
  BY DEF Survivors
<1>2. SurvivorsInv'
  BY <1>1 DEF SurvivorsInv
<1> QED BY <1>1, <1>2 DEF CheckoutMoves, GoesForward, PublicationTyped

\* A step that changes one file so that the checkout still goes forward and can be recovered.
LEMMA Changes ==
    ASSUME PublicationTyped, SurvivorsInv, NEW p, NEW new, NEW to, ChangeDir(p, new, to),
           new \in Checkouts, GoesForward(dir, new), Recoverable(new),
           new.journal = NoFile => \A d \in Survivors : d.registry = new.registry
    PROVE  CheckoutMoves
<1>1. dir' = new /\ disk' = IF new = dir THEN disk ELSE Append(disk, new)
  BY DEF ChangeDir
<1>2. /\ disk' \in Seq(Checkouts) /\ disk' # <<>> /\ disk'[Len(disk')] = new
      /\ Survivors' \subseteq Survivors \cup {new}
  BY <1>1, ChangeDirSurvivors
<1>3. SurvivorsInv'
  BY <1>1, <1>2 DEF SurvivorsInv
<1> QED BY <1>1, <1>2, <1>3 DEF CheckoutMoves

LEMMA Syncs ==
    ASSUME PublicationTyped, SurvivorsInv, NEW p, NEW to, NEW next, _fsync_directory(p, to, next)
    PROVE  CheckoutMoves /\ Survivors' = {dir'} /\ dir' = dir
<1>1. dir' = dir /\ disk' = <<dir>>
  BY DEF _fsync_directory
<1>2. Survivors' = {dir} /\ disk' # <<>> /\ disk'[Len(disk')] = dir
  BY <1>1, SyncSurvivors
<1>3. dir \in Survivors /\ dir \in Checkouts /\ disk' \in Seq(Checkouts)
  BY <1>1, DirSurvives DEF PublicationTyped
<1>4. SurvivorsInv'
  BY <1>1, <1>2, <1>3 DEF SurvivorsInv
<1> QED BY <1>1, <1>2, <1>3, <1>4 DEF CheckoutMoves, GoesForward

-----------------------------------------------------------------------------
(* One publisher's step. *)

PublisherStep(p) == checkout_writer(p) \/ publish_tasks_checkout(p) \/ publish(p) \/ Commit(p) \/ Die(p)

\* What it knows afterwards.
KnowsNow(p) == /\ publisher' \in [Publishers -> PublisherStates]
               /\ \A q \in Publishers : q # p => publisher'[q] = publisher[q]
               /\ publisher'[p].pc # "Idle" => flock' = p
               /\ Knows(publisher'[p], dir')
               /\ publisher'[p].pc \in {"Unlink", "Done"} => Survivors' = {dir'}

\* The publisher goes on to its next step.
LEMMA Advancing ==
    ASSUME PublicationTyped, NEW p \in Publishers, NEW to \in PublisherPCs, To(p, to)
    PROVE  /\ publisher' \in [Publishers -> PublisherStates]
           /\ \A q \in Publishers : q # p => publisher'[q] = publisher[q]
           /\ publisher'[p].pc = to /\ publisher'[p].base = publisher[p].base
           /\ publisher'[p].id = publisher[p].id /\ publisher'[p].recovering = publisher[p].recovering
BY DEF To, PublicationTyped, PublisherStates

LEMMA Becoming ==
    ASSUME PublicationTyped, NEW p \in Publishers, NEW new \in PublisherStates, publisher' = [publisher EXCEPT ![p] = new]
    PROVE  /\ publisher' \in [Publishers -> PublisherStates]
           /\ \A q \in Publishers : q # p => publisher'[q] = publisher[q]
           /\ publisher'[p] = new
BY DEF PublicationTyped

\* The operations of a publisher one by one.
LEMMA CheckoutWriterStep ==
    ASSUME PublicationTyped, SurvivorsInv, PublishersInv, NEW p \in Publishers, checkout_writer(p)
    PROVE  CheckoutMoves /\ KnowsNow(p)
<1>1. CheckoutMoves /\ Survivors' = Survivors /\ dir' = dir
  BY Stays DEF checkout_writer
<1> DEFINE new == [publisher[p] EXCEPT !.recovering = dir.journal # NoFile,
                                       !.pc = IF dir.journal # NoFile THEN "Allowlist" ELSE "Derive"]
<1>2. publisher[p] \in PublisherStates
  BY DEF PublicationTyped
<1>a. new.recovering <=> dir.journal # NoFile
  BY <1>2 DEF PublisherStates
<1>b. new.pc = IF dir.journal # NoFile THEN "Allowlist" ELSE "Derive"
  BY <1>2 DEF PublisherStates
<1>c. new.base = publisher[p].base /\ new.id = publisher[p].id
  BY <1>2 DEF PublisherStates
<1>d. new \in PublisherStates
  BY <1>2 DEF PublisherStates, PublisherPCs
<1>4. publisher' = [publisher EXCEPT ![p] = new] /\ flock' = p
  BY DEF checkout_writer
<1>5. publisher' \in [Publishers -> PublisherStates] /\ publisher'[p] = new
      /\ \A q \in Publishers : q # p => publisher'[q] = publisher[q]
  BY <1>d, <1>4, Becoming
<1>6. Knows(new, dir)
  <2> HIDE DEF new
  <2> QED BY <1>a, <1>b, <1>c DEF Knows, Early, Staging, Journaled
<1>7. new.pc \notin {"Unlink", "Done"}
  BY <1>b
<1> QED BY <1>1, <1>4, <1>5, <1>6, <1>7 DEF KnowsNow

LEMMA DeriveStep ==
    ASSUME PublicationTyped, SurvivorsInv, PublishersInv, NEW p \in Publishers, publish_tasks_checkout(p)
    PROVE  CheckoutMoves /\ KnowsNow(p)
<1>1. CheckoutMoves /\ Survivors' = Survivors /\ dir' = dir
  BY Stays DEF publish_tasks_checkout
<1> DEFINE new == [publisher[p] EXCEPT !.pc = "Bundle", !.base = dir.registry, !.id = made + 1]
<1>2. publisher[p] \in PublisherStates /\ publisher[p].pc = "Derive" /\ flock = p /\ flock' = flock
  BY DEF PublicationTyped, publish_tasks_checkout, At
<1>3. made + 1 \in Ids /\ made + 1 \in 0 .. MaxPublications /\ dir.registry \in Registries
  BY PublicationConstants DEF PublicationTyped, publish_tasks_checkout, Ids, Checkouts
<1>4. new \in PublisherStates
  BY <1>2, <1>3 DEF PublisherStates, PublisherPCs
<1>c. new.pc = "Bundle" /\ new.base = dir.registry /\ new.id = made + 1
  BY <1>2 DEF PublisherStates
<1>d. new.recovering = publisher[p].recovering
  BY <1>2 DEF PublisherStates
<1>5. publisher' = [publisher EXCEPT ![p] = new]
  BY DEF publish_tasks_checkout
<1>6. publisher' \in [Publishers -> PublisherStates] /\ publisher'[p] = new
      /\ \A q \in Publishers : q # p => publisher'[q] = publisher[q]
  BY <1>4, <1>5, Becoming
<1>7. dir.journal = NoFile /\ ~publisher[p].recovering
  BY <1>2 DEF PublishersInv, Knows, Early
<1>8. Knows(new, dir)
  <2> HIDE DEF new
  <2> QED BY <1>3, <1>c, <1>d, <1>7 DEF Knows, Early, Staging, Journaled
<1>9. new.pc \notin {"Unlink", "Done"}
  BY <1>c
<1> QED BY <1>1, <1>2, <1>6, <1>8, <1>9 DEF KnowsNow

\* Publishing a bundle, checking the registry and failing leave the checkout alone.
LEMMA QuietStep ==
    ASSUME PublicationTyped, SurvivorsInv, PublishersInv, NEW p \in Publishers, NEW to \in PublisherPCs,
           To(p, to), dir' = dir, disk' = disk, flock' = IF to = "Idle" THEN NoPublisher ELSE p,
           \/ to = "Idle"
           \/ publisher[p].pc = "Bundle" /\ to = "BundleSync"
           \/ publisher[p].pc = "BundleSync" /\ to = "Seal"
           \/ publisher[p].pc = "Seal" /\ to = "Check"
           \/ publisher[p].pc = "Check" /\ to = "StageRegistry" /\ dir.registry = publisher[p].base
           \/ publisher[p].pc = "Allowlist" /\ to = "Registry" /\ dir.allowlist = dir.journal.allowlist
           \/ publisher[p].pc = "Registry" /\ to = "ReplaceSync" /\ dir.registry = dir.journal.registry
    PROVE  CheckoutMoves /\ KnowsNow(p)
<1>1. CheckoutMoves /\ Survivors' = Survivors
  BY Stays
<1>2. /\ publisher' \in [Publishers -> PublisherStates]
      /\ \A q \in Publishers : q # p => publisher'[q] = publisher[q]
      /\ publisher'[p].pc = to /\ publisher'[p].base = publisher[p].base
      /\ publisher'[p].id = publisher[p].id /\ publisher'[p].recovering = publisher[p].recovering
  BY Advancing
<1>3. Knows(publisher[p], dir)
  BY DEF PublishersInv
<1>4. Knows(publisher'[p], dir)
  BY <1>2, <1>3 DEF Knows, Early, Staging, Journaled
<1>5. to \notin {"Unlink", "Done"}
  OBVIOUS
<1> QED BY <1>1, <1>2, <1>4, <1>5 DEF KnowsNow

\* The publisher goes on to to with what it knew of the checkout and what the step made of it.
LEMMA ChangingStep ==
    ASSUME PublicationTyped, SurvivorsInv, PublishersInv, NEW p \in Publishers, NEW new, NEW to \in PublisherPCs,
           ChangeDir(p, new, to), publisher[p].pc # "Idle", to \notin {"Unlink", "Done"},
           new \in Checkouts, GoesForward(dir, new), Recoverable(new),
           new.journal = NoFile => \A d \in Survivors : d.registry = new.registry,
           \A q \in PublisherStates :
               q.pc = to /\ q.base = publisher[p].base /\ q.id = publisher[p].id /\ q.recovering = publisher[p].recovering
               => Knows(q, new)
    PROVE  CheckoutMoves /\ KnowsNow(p)
<1>1. CheckoutMoves
  BY Changes
<1>2. dir' = new /\ To(p, to) /\ flock' = flock
  BY DEF ChangeDir
<1>3. /\ publisher' \in [Publishers -> PublisherStates]
      /\ \A q \in Publishers : q # p => publisher'[q] = publisher[q]
      /\ publisher'[p].pc = to /\ publisher'[p].base = publisher[p].base
      /\ publisher'[p].id = publisher[p].id /\ publisher'[p].recovering = publisher[p].recovering
  BY <1>2, Advancing
<1>4. publisher'[p] \in PublisherStates
  BY <1>3
<1>5. Knows(publisher'[p], new)
  BY <1>3, <1>4
<1>6. flock = p
  BY DEF PublicationTyped
<1> QED BY <1>1, <1>2, <1>3, <1>5, <1>6 DEF KnowsNow

LEMMA StageRegistryStep ==
    ASSUME PublicationTyped, SurvivorsInv, PublishersInv, NEW p \in Publishers, StageRegistry(p)
    PROVE  CheckoutMoves /\ KnowsNow(p)
<1> DEFINE new == [dir EXCEPT !.stagedRegistry = NewRegistry(p)]
<1>1. publisher[p].pc = "StageRegistry" /\ ChangeDir(p, new, "StageAllowlist")
  BY DEF StageRegistry, At
<1>2. Knows(publisher[p], dir) /\ publisher[p] \in PublisherStates /\ dir \in Checkouts
  BY DEF PublishersInv, PublicationTyped
<1>3. /\ dir.journal = NoFile /\ ~publisher[p].recovering /\ publisher[p].id \in Ids
      /\ dir.registry = publisher[p].base
  BY <1>1, <1>2 DEF Knows, Staging
<1>4. NewRegistry(p) = Append(publisher[p].base, publisher[p].id) /\ NewRegistry(p) \in Registries
  BY <1>2, <1>3, LastOfAppend DEF NewRegistry, PublisherStates
<1>5. /\ new \in Checkouts /\ new.registry = dir.registry /\ new.allowlist = dir.allowlist /\ new.journal = NoFile
      /\ new.stagedRegistry = NewRegistry(p)
  BY <1>2, <1>3, <1>4 DEF Checkouts
<1> HIDE DEF new
<1>6. GoesForward(dir, new) /\ Recoverable(new) /\ \A d \in Survivors : d.registry = new.registry
  BY <1>3, <1>5, DirSurvives DEF GoesForward, SurvivorsInv, Recoverable, Pending
<1>7. \A q \in PublisherStates :
         q.pc = "StageAllowlist" /\ q.base = publisher[p].base /\ q.id = publisher[p].id /\ q.recovering = publisher[p].recovering
         => Knows(q, new)
  BY <1>3, <1>4, <1>5 DEF Knows, Early, Staging, Journaled
<1> QED BY <1>1, <1>5, <1>6, <1>7, ChangingStep DEF PublisherPCs

LEMMA StageAllowlistStep ==
    ASSUME PublicationTyped, SurvivorsInv, PublishersInv, NEW p \in Publishers, StageAllowlist(p)
    PROVE  CheckoutMoves /\ KnowsNow(p)
<1> DEFINE new == [dir EXCEPT !.stagedAllowlist = publisher[p].id]
<1>1. publisher[p].pc = "StageAllowlist" /\ ChangeDir(p, new, "Journal")
  BY DEF StageAllowlist, At
<1>2. Knows(publisher[p], dir) /\ publisher[p] \in PublisherStates /\ dir \in Checkouts
  BY DEF PublishersInv, PublicationTyped
<1>3. /\ dir.journal = NoFile /\ ~publisher[p].recovering /\ publisher[p].id \in Ids
      /\ dir.registry = publisher[p].base /\ dir.stagedRegistry = Append(publisher[p].base, publisher[p].id)
  BY <1>1, <1>2 DEF Knows, Staging
<1>5. /\ new \in Checkouts /\ new.registry = dir.registry /\ new.allowlist = dir.allowlist /\ new.journal = NoFile
      /\ new.stagedRegistry = dir.stagedRegistry /\ new.stagedAllowlist = publisher[p].id
  BY <1>2, <1>3 DEF Checkouts
<1> HIDE DEF new
<1>6. GoesForward(dir, new) /\ Recoverable(new) /\ \A d \in Survivors : d.registry = new.registry
  BY <1>3, <1>5, DirSurvives DEF GoesForward, SurvivorsInv, Recoverable, Pending
<1>7. \A q \in PublisherStates :
         q.pc = "Journal" /\ q.base = publisher[p].base /\ q.id = publisher[p].id /\ q.recovering = publisher[p].recovering
         => Knows(q, new)
  BY <1>3, <1>5 DEF Knows, Early, Staging, Journaled
<1> QED BY <1>1, <1>5, <1>6, <1>7, ChangingStep DEF PublisherPCs

LEMMA WriteJournalStep ==
    ASSUME PublicationTyped, SurvivorsInv, PublishersInv, NEW p \in Publishers, WriteJournal(p)
    PROVE  CheckoutMoves /\ KnowsNow(p)
<1> DEFINE journal == [registry |-> NewRegistry(p), allowlist |-> publisher[p].id]
           new == [dir EXCEPT !.journal = journal]
<1>1. publisher[p].pc = "Journal" /\ ChangeDir(p, new, "JournalSync")
  BY DEF WriteJournal, At
<1>2. Knows(publisher[p], dir) /\ publisher[p] \in PublisherStates /\ dir \in Checkouts
  BY DEF PublishersInv, PublicationTyped
<1>3. /\ dir.journal = NoFile /\ ~publisher[p].recovering /\ publisher[p].id \in Ids
      /\ dir.registry = publisher[p].base /\ dir.stagedRegistry = Append(publisher[p].base, publisher[p].id)
      /\ dir.stagedAllowlist = publisher[p].id
  BY <1>1, <1>2 DEF Knows, Staging
<1>4. NewRegistry(p) = Append(publisher[p].base, publisher[p].id) /\ NewRegistry(p) \in Registries
  BY <1>2, <1>3, LastOfAppend DEF NewRegistry, PublisherStates
<1>5. /\ journal \in Journals /\ journal # NoFile
      /\ journal.registry = NewRegistry(p) /\ journal.allowlist = publisher[p].id
  BY <1>3, <1>4, JournalIsAFile
<1> HIDE DEF journal
<1>6. /\ new \in Checkouts /\ new.registry = dir.registry /\ new.allowlist = dir.allowlist /\ new.journal = journal
      /\ new.stagedRegistry = dir.stagedRegistry /\ new.stagedAllowlist = publisher[p].id
  BY <1>2, <1>3, <1>5 DEF Checkouts
<1> HIDE DEF new
<1>7. GoesForward(dir, new) /\ Recoverable(new) /\ new.journal # NoFile
  BY <1>3, <1>4, <1>5, <1>6 DEF GoesForward, Recoverable, CanRollForward, Pending
<1>8. \A q \in PublisherStates :
         q.pc = "JournalSync" /\ q.base = publisher[p].base /\ q.id = publisher[p].id /\ q.recovering = publisher[p].recovering
         => Knows(q, new)
  BY <1>3, <1>4, <1>5, <1>6 DEF Knows, Early, Staging, Journaled
<1> QED BY <1>1, <1>6, <1>7, <1>8, ChangingStep DEF PublisherPCs

LEMMA ReplaceAllowlistStep ==
    ASSUME PublicationTyped, SurvivorsInv, PublishersInv, NEW p \in Publishers, ReplaceAllowlist(p)
    PROVE  CheckoutMoves /\ KnowsNow(p)
<1>1. publisher[p].pc = "Allowlist"
  BY DEF ReplaceAllowlist, At
<1>2. Knows(publisher[p], dir) /\ publisher[p] \in PublisherStates /\ dir \in Checkouts /\ flock = p
  BY <1>1 DEF PublishersInv, PublicationTyped
<1>3. dir.journal # NoFile /\ (publisher[p].recovering \/ dir.journal.registry = Append(publisher[p].base, publisher[p].id))
  BY <1>1, <1>2 DEF Knows, Journaled
<1>4. dir.journal \in Journals /\ dir.journal.allowlist \in Ids /\ dir.journal.allowlist \in 0 .. MaxPublications
  BY <1>2, <1>3 DEF Checkouts, Journals, Ids
<1>5. RolledForward(dir) \/ CanRollForward(dir)
  BY <1>3, DirSurvives DEF SurvivorsInv, Recoverable
<1>6. CASE dir.stagedAllowlist = dir.journal.allowlist
  <2> DEFINE new == [dir EXCEPT !.allowlist = dir.stagedAllowlist, !.stagedAllowlist = NoFile]
  <2>1. ChangeDir(p, new, "Registry")
    BY <1>6 DEF ReplaceAllowlist
  <2>2. /\ new \in Checkouts /\ new.registry = dir.registry /\ new.allowlist = dir.journal.allowlist
        /\ new.journal = dir.journal /\ new.stagedRegistry = dir.stagedRegistry
    BY <1>2, <1>4, <1>6 DEF Checkouts
  <2> HIDE DEF new
  <2>3. CanRollForward(dir) => dir.journal.registry # dir.registry
    BY <1>2, <1>4, LastOfAppend DEF CanRollForward, Checkouts
  <2>4. GoesForward(dir, new) /\ Recoverable(new) /\ new.journal # NoFile
    BY <1>3, <1>5, <2>2, <2>3 DEF GoesForward, Recoverable, RolledForward, CanRollForward, Pending
  <2>5. \A q \in PublisherStates :
           q.pc = "Registry" /\ q.base = publisher[p].base /\ q.id = publisher[p].id /\ q.recovering = publisher[p].recovering
           => Knows(q, new)
    BY <1>3, <2>2 DEF Knows, Early, Staging, Journaled
  <2> QED BY <1>1, <2>1, <2>2, <2>4, <2>5, ChangingStep DEF PublisherPCs
<1>7. CASE dir.stagedAllowlist # dir.journal.allowlist
  <2>1. CASE publisher[p].recovering /\ dir.allowlist = dir.journal.allowlist
    <3>1. ChangeDir(p, dir, "Registry")
      BY <1>7, <2>1 DEF ReplaceAllowlist
    <3> QED BY <1>1, <1>2, <2>1, <3>1, QuietStep DEF ChangeDir, PublisherPCs
  <2>2. CASE ~(publisher[p].recovering /\ dir.allowlist = dir.journal.allowlist)
    <3>1. Raise(p)
      BY <1>7, <2>2 DEF ReplaceAllowlist
    <3> QED BY <3>1, QuietStep DEF Raise, PublisherPCs
  <2> QED BY <2>1, <2>2
<1> QED BY <1>6, <1>7

LEMMA ReplaceRegistryStep ==
    ASSUME PublicationTyped, SurvivorsInv, PublishersInv, NEW p \in Publishers, ReplaceRegistry(p)
    PROVE  CheckoutMoves /\ KnowsNow(p)
<1>1. publisher[p].pc = "Registry"
  BY DEF ReplaceRegistry, At
<1>2. Knows(publisher[p], dir) /\ publisher[p] \in PublisherStates /\ dir \in Checkouts /\ flock = p
  BY <1>1 DEF PublishersInv, PublicationTyped
<1>3. /\ dir.journal # NoFile /\ (publisher[p].recovering \/ dir.journal.registry = Append(publisher[p].base, publisher[p].id))
      /\ dir.allowlist = dir.journal.allowlist
  BY <1>1, <1>2 DEF Knows, Journaled
<1>4. dir.journal.allowlist \in Ids /\ dir.journal.registry \in Registries /\ dir.registry \in Registries
  BY <1>2, <1>3 DEF Checkouts, Journals
<1>5. RolledForward(dir) \/ CanRollForward(dir)
  BY <1>3, DirSurvives DEF SurvivorsInv, Recoverable
<1>6. CASE dir.stagedRegistry = dir.journal.registry
  <2> DEFINE new == [dir EXCEPT !.registry = dir.stagedRegistry, !.stagedRegistry = NoFile]
  <2>1. ChangeDir(p, new, "ReplaceSync")
    BY <1>6 DEF ReplaceRegistry
  <2>2. /\ new \in Checkouts /\ new.registry = dir.journal.registry /\ new.allowlist = dir.journal.allowlist
        /\ new.journal = dir.journal
    BY <1>2, <1>3, <1>4, <1>6 DEF Checkouts
  <2> HIDE DEF new
  <2>3. /\ CanRollForward(dir) => dir.journal.registry # dir.registry
        /\ LastOr0(Append(dir.registry, dir.journal.allowlist)) = dir.journal.allowlist
    BY <1>2, <1>4, LastOfAppend DEF CanRollForward
  <2>4. GoesForward(dir, new)
    BY <1>3, <1>4, <1>5, <2>2, <2>3 DEF GoesForward, RolledForward, CanRollForward, Pending
  <2>5. Recoverable(new) /\ new.journal # NoFile
    BY <1>3, <1>5, <2>2, <2>3 DEF Recoverable, RolledForward, CanRollForward
  <2>6. \A q \in PublisherStates :
           q.pc = "ReplaceSync" /\ q.base = publisher[p].base /\ q.id = publisher[p].id /\ q.recovering = publisher[p].recovering
           => Knows(q, new)
    BY <1>3, <2>2 DEF Knows, Early, Staging, Journaled
  <2> QED BY <1>1, <2>1, <2>2, <2>4, <2>5, <2>6, ChangingStep DEF PublisherPCs
<1>7. CASE dir.stagedRegistry # dir.journal.registry
  <2>1. CASE publisher[p].recovering /\ dir.registry = dir.journal.registry
    <3>1. ChangeDir(p, dir, "ReplaceSync")
      BY <1>7, <2>1 DEF ReplaceRegistry
    <3> QED BY <1>1, <1>2, <2>1, <3>1, QuietStep DEF ChangeDir, PublisherPCs
  <2>2. CASE ~(publisher[p].recovering /\ dir.registry = dir.journal.registry)
    <3>1. Raise(p)
      BY <1>7, <2>2 DEF ReplaceRegistry
    <3> QED BY <3>1, QuietStep DEF Raise, PublisherPCs
  <2> QED BY <2>1, <2>2
<1> QED BY <1>6, <1>7

\* The journal goes only when both files are in place and on disk.
LEMMA RemoveJournalStep ==
    ASSUME PublicationTyped, SurvivorsInv, PublishersInv, NEW p \in Publishers, RemoveJournal(p)
    PROVE  CheckoutMoves /\ KnowsNow(p)
<1> DEFINE new == [dir EXCEPT !.journal = NoFile]
<1>1. publisher[p].pc = "Unlink" /\ ChangeDir(p, new, "UnlinkSync")
  BY DEF RemoveJournal, At
<1>2. Knows(publisher[p], dir) /\ publisher[p] \in PublisherStates /\ dir \in Checkouts /\ Survivors = {dir}
  BY <1>1 DEF PublishersInv, PublicationTyped
<1>3. /\ dir.journal # NoFile /\ (publisher[p].recovering \/ dir.journal.registry = Append(publisher[p].base, publisher[p].id))
      /\ dir.registry = dir.journal.registry
  BY <1>1, <1>2 DEF Knows, Journaled
<1>4. dir.journal.allowlist \in Ids /\ dir.registry \in Registries
  BY <1>2, <1>3 DEF Checkouts, Journals
<1>5. RolledForward(dir)
  BY <1>2, <1>3, <1>4, LastOfAppend DEF SurvivorsInv, Recoverable, CanRollForward
<1>6. new \in Checkouts /\ new.registry = dir.registry /\ new.allowlist = dir.allowlist /\ new.journal = NoFile
  BY <1>2 DEF Checkouts
<1> HIDE DEF new
<1>7. GoesForward(dir, new) /\ Recoverable(new) /\ \A d \in Survivors : d.registry = new.registry
  BY <1>2, <1>3, <1>5, <1>6 DEF GoesForward, Recoverable, RolledForward, Pending
<1>8. \A q \in PublisherStates :
         q.pc = "UnlinkSync" /\ q.base = publisher[p].base /\ q.id = publisher[p].id /\ q.recovering = publisher[p].recovering
         => Knows(q, new)
  BY <1>3, <1>6 DEF Knows, Early, Staging, Journaled
<1> QED BY <1>1, <1>6, <1>7, <1>8, ChangingStep DEF PublisherPCs

LEMMA SyncStep ==
    ASSUME PublicationTyped, SurvivorsInv, PublishersInv, NEW p \in Publishers,
           \/ _fsync_directory(p, "JournalSync", "Allowlist")
           \/ _fsync_directory(p, "ReplaceSync", "Unlink")
           \/ _fsync_directory(p, "UnlinkSync", "Done")
    PROVE  CheckoutMoves /\ KnowsNow(p)
<1>1. PICK to \in {"JournalSync", "ReplaceSync", "UnlinkSync"}, next \in {"Allowlist", "Unlink", "Done"} :
         /\ _fsync_directory(p, to, next)
         /\ <<to, next>> \in {<<"JournalSync", "Allowlist">>, <<"ReplaceSync", "Unlink">>, <<"UnlinkSync", "Done">>}
  OBVIOUS
<1>2. CheckoutMoves /\ Survivors' = {dir'} /\ dir' = dir
  BY <1>1, Syncs
<1>3. publisher[p].pc = to /\ To(p, next) /\ flock' = flock /\ next \in PublisherPCs
  BY <1>1 DEF _fsync_directory, At, PublisherPCs
<1>4. /\ publisher' \in [Publishers -> PublisherStates]
      /\ \A q \in Publishers : q # p => publisher'[q] = publisher[q]
      /\ publisher'[p].pc = next /\ publisher'[p].base = publisher[p].base
      /\ publisher'[p].id = publisher[p].id /\ publisher'[p].recovering = publisher[p].recovering
  BY <1>3, Advancing
<1>5. Knows(publisher[p], dir) /\ flock = p
  BY <1>1, <1>3 DEF PublishersInv, PublicationTyped
<1>6. Knows(publisher'[p], dir)
  BY <1>1, <1>3, <1>4, <1>5 DEF Knows, Early, Staging, Journaled
<1> QED BY <1>2, <1>3, <1>4, <1>5, <1>6 DEF KnowsNow

LEMMA FinishStep ==
    ASSUME PublicationTyped, SurvivorsInv, PublishersInv, NEW p \in Publishers, Finish(p)
    PROVE  CheckoutMoves /\ KnowsNow(p)
<1>1. CASE ~publisher[p].recovering
  BY <1>1, QuietStep DEF Finish, PublisherPCs
<1>2. CASE publisher[p].recovering
  <2> DEFINE new == [publisher[p] EXCEPT !.pc = "Derive", !.recovering = FALSE]
  <2>1. CheckoutMoves /\ Survivors' = Survivors /\ dir' = dir
    BY Stays DEF Finish
  <2>2. publisher[p] \in PublisherStates /\ publisher[p].pc = "Done" /\ flock = p /\ Knows(publisher[p], dir)
    BY DEF PublicationTyped, PublishersInv, Finish, At
  <2>3. publisher' = [publisher EXCEPT ![p] = new] /\ flock' = flock
    BY <1>2 DEF Finish
  <2>4. new \in PublisherStates
    BY <2>2 DEF PublisherStates, PublisherPCs
  <2>5. new.pc = "Derive" /\ ~new.recovering
    BY <2>2 DEF PublisherStates
  <2>6. publisher' \in [Publishers -> PublisherStates] /\ publisher'[p] = new
        /\ \A q \in Publishers : q # p => publisher'[q] = publisher[q]
    BY <2>3, <2>4, Becoming
  <2>7. dir.journal = NoFile
    BY <2>2 DEF Knows
  <2> HIDE DEF new
  <2>8. Knows(new, dir)
    BY <2>5, <2>7 DEF Knows, Early, Staging, Journaled
  <2> QED BY <2>1, <2>2, <2>3, <2>5, <2>6, <2>8 DEF KnowsNow
<1> QED BY <1>1, <1>2

\* Whatever a publisher does, the checkout goes forward and the publisher knows what it needs.
LEMMA PublisherMoves ==
    ASSUME PublicationTyped, SurvivorsInv, PublishersInv, NEW p \in Publishers, PublisherStep(p)
    PROVE  CheckoutMoves /\ KnowsNow(p)
<1>1. CASE publish(p)
  BY <1>1, QuietStep DEF publish, At, PublicationTyped, PublisherPCs
<1>2. CASE CheckRegistry(p)
  <2>1. publisher[p].pc = "Check" /\ flock = p
    BY <1>2 DEF CheckRegistry, At, PublicationTyped
  <2>2. CASE dir.registry = publisher[p].base
    BY <1>2, <2>1, <2>2, QuietStep DEF CheckRegistry, ChangeDir, PublisherPCs
  <2>3. CASE dir.registry # publisher[p].base
    BY <1>2, <2>3, QuietStep DEF CheckRegistry, Raise, PublisherPCs
  <2> QED BY <2>2, <2>3
<1>3. CASE Die(p)
  BY <1>3, QuietStep DEF Die, PublisherPCs
<1>4. CASE Commit(p)
  BY <1>2, <1>4, StageRegistryStep, StageAllowlistStep, WriteJournalStep, ReplaceAllowlistStep, ReplaceRegistryStep,
     RemoveJournalStep, SyncStep, FinishStep DEF Commit
<1> QED BY <1>1, <1>3, <1>4, CheckoutWriterStep, DeriveStep DEF PublisherStep

\* Only its holder gives the lock away.
LEMMA LockMoves ==
    ASSUME PublicationTyped, NEW p \in Publishers, PublisherStep(p)
    PROVE  /\ flock' \in Publishers \cup {NoPublisher} /\ checkoutReader' = checkoutReader
           /\ \A q \in Publishers : q # p => publisher[q].pc = "Idle"
           /\ made' \in 0 .. MaxPublications
<1>1. flock = p \/ flock = NoPublisher
  BY DEF PublisherStep, checkout_writer, publish_tasks_checkout, publish, Commit, Die, CheckRegistry, StageRegistry, StageAllowlist,
         WriteJournal, ReplaceAllowlist, ReplaceRegistry, RemoveJournal, _fsync_directory, Finish, At, PublicationTyped
<1>2. \A q \in Publishers : q # p => publisher[q].pc = "Idle"
  BY <1>1, PublicationConstants DEF PublicationTyped
<1>3. flock' \in {flock, p, NoPublisher} /\ checkoutReader' = checkoutReader
  BY DEF PublisherStep, checkout_writer, publish_tasks_checkout, publish, Commit, Die, CheckRegistry, StageRegistry, StageAllowlist,
         WriteJournal, ReplaceAllowlist, ReplaceRegistry, RemoveJournal, _fsync_directory, Finish, ChangeDir, Raise
<1>4. made' = made \/ (made < MaxPublications /\ made' = made + 1)
  BY DEF PublisherStep, checkout_writer, publish_tasks_checkout, publish, Commit, Die, CheckRegistry, StageRegistry, StageAllowlist,
         WriteJournal, ReplaceAllowlist, ReplaceRegistry, RemoveJournal, _fsync_directory, Finish, ChangeDir, Raise
<1>5. made' \in 0 .. MaxPublications
  BY <1>4, PublicationConstants DEF PublicationTyped
<1> QED BY <1>2, <1>3, <1>5 DEF PublicationTyped

-----------------------------------------------------------------------------
(* What is stored, what was acknowledged and what readers have seen. *)

LEMMA KeptFollows ==
    ASSUME NEW s, storeDisk' = storeDisk
    PROVE  Kept(s) => Kept(s)'
BY DEF Kept

\* A version that is stored for good stays.
StoreGrows ==
    /\ store' \in StoreStates /\ storeDisk' \in StoreStates
    /\ \A b \in Bundles : /\ storeDisk[b] # "None" => storeDisk'[b] # "None"
                          /\ storeDisk'[b] # "None" => store'[b] # "None"

\* A version is renamed, synced and sealed before its publication is checked.
LEMMA PublishStores ==
    ASSUME PublicationTyped, StoreInv, PublishersInv, NEW p \in Publishers, publish(p)
    PROVE  /\ StoreGrows /\ publisher'[p].id = publisher[p].id
           /\ publisher'[p].pc = "BundleSync" => store'[BundleOf[publisher[p].id]] # "None"
           /\ publisher'[p].pc \in {"Seal", "Check"} => storeDisk'[BundleOf[publisher[p].id]] # "None"
           /\ publisher'[p].pc \in {"BundleSync", "Seal", "Check"}
<1> DEFINE b == BundleOf[publisher[p].id]
<1>1. Knows(publisher[p], dir) /\ store \in StoreStates /\ storeDisk \in StoreStates
  BY DEF PublishersInv, PublicationTyped
<1>2. publisher[p].id \in Ids /\ b \in Bundles
  BY <1>1, PublicationConstants DEF publish, At, Knows, Ids
<1>3. \A c \in Bundles : storeDisk[c] # "None" => store[c] # "None"
  BY DEF StoreInv
<1> HIDE DEF b
<1>4. CASE /\ At(p, "Bundle") /\ To(p, "BundleSync") /\ UNCHANGED storeDisk
           /\ store' = [store EXCEPT ![b] = IF @ = "None" THEN "Renamed" ELSE "Sealed"]
  <2>1. store' \in StoreStates /\ storeDisk' = storeDisk /\ store'[b] # "None"
        /\ \A c \in Bundles : store[c] # "None" => store'[c] # "None"
    BY <1>1, <1>2, <1>4 DEF StoreStates
  <2>2. publisher'[p].pc = "BundleSync" /\ publisher'[p].id = publisher[p].id
    BY <1>4, Advancing DEF PublisherPCs
  <2> QED BY <1>1, <1>3, <2>1, <2>2 DEF StoreGrows, b
<1>5. CASE At(p, "BundleSync") /\ To(p, "Seal") /\ storeDisk' = store /\ UNCHANGED store
  <2>1. publisher'[p].pc = "Seal" /\ publisher'[p].id = publisher[p].id
    BY <1>5, Advancing DEF PublisherPCs
  <2>2. store[b] # "None"
    BY <1>5 DEF StoreInv, At, b
  <2> QED BY <1>1, <1>3, <1>5, <2>1, <2>2 DEF StoreGrows, b
<1>6. CASE /\ At(p, "Seal") /\ To(p, "Check")
           /\ store' = [store EXCEPT ![b] = "Sealed"] /\ storeDisk' = [storeDisk EXCEPT ![b] = "Sealed"]
  <2>1. publisher'[p].pc = "Check" /\ publisher'[p].id = publisher[p].id
    BY <1>6, Advancing DEF PublisherPCs
  <2>2. /\ store' \in StoreStates /\ storeDisk' \in StoreStates /\ storeDisk'[b] # "None"
        /\ \A c \in Bundles : storeDisk[c] # "None" => storeDisk'[c] # "None"
        /\ \A c \in Bundles : storeDisk'[c] # "None" => store'[c] # "None"
    BY <1>1, <1>2, <1>3, <1>6 DEF StoreStates
  <2>3. StoreGrows
    BY <2>2 DEF StoreGrows
  <2>4. storeDisk'[BundleOf[publisher[p].id]] # "None"
    BY <2>2 DEF b
  <2> QED BY <2>1, <2>3, <2>4
<1> QED BY <1>4, <1>5, <1>6 DEF publish, b

\* No other step of a publisher touches the store, or reaches the point where its version must be there.
LEMMA OthersStore ==
    ASSUME PublicationTyped, NEW p \in Publishers, PublisherStep(p), ~publish(p)
    PROVE  /\ store' = store /\ storeDisk' = storeDisk
           /\ publisher'[p].pc # "BundleSync" /\ publisher'[p].pc # "Seal"
           /\ publisher'[p].pc \in {"Check"} \cup Staging =>
                 publisher[p].pc \in {"Check"} \cup Staging /\ publisher'[p].id = publisher[p].id
<1> USE DEF PublisherPCs
<1>1. CASE checkout_writer(p)
  <2>1. publisher'[p].pc \in {"Allowlist", "Derive"} /\ store' = store /\ storeDisk' = storeDisk
    BY <1>1 DEF checkout_writer, PublicationTyped, PublisherStates
  <2> QED BY <2>1 DEF Staging
<1>2. CASE publish_tasks_checkout(p)
  <2>1. publisher'[p].pc = "Bundle" /\ store' = store /\ storeDisk' = storeDisk
    BY <1>2 DEF publish_tasks_checkout, PublicationTyped, PublisherStates
  <2> QED BY <2>1 DEF Staging
<1>3. CASE Finish(p)
  <2>1. publisher'[p].pc \in {"Idle", "Derive"} /\ store' = store /\ storeDisk' = storeDisk
    <3>1. CASE publisher[p].recovering
      <4>1. /\ publisher' = [publisher EXCEPT ![p] = [publisher[p] EXCEPT !.pc = "Derive", !.recovering = FALSE]]
            /\ store' = store /\ storeDisk' = storeDisk
        BY <1>3, <3>1 DEF Finish
      <4>2. publisher[p] \in PublisherStates /\ publisher \in [Publishers -> PublisherStates]
        BY DEF PublicationTyped
      <4> QED BY <4>1, <4>2 DEF PublisherStates
    <3>2. CASE ~publisher[p].recovering
      BY <1>3, <3>2, Advancing DEF Finish
    <3> QED BY <1>3, <3>1, <3>2 DEF Finish
  <2> QED BY <2>1 DEF Staging
<1>4. CASE Die(p) \/ (Commit(p) /\ ~Finish(p))
  <2>1. PICK to \in PublisherPCs :
           /\ To(p, to) /\ to \notin {"BundleSync", "Seal", "Check"}
           /\ to \in Staging => publisher[p].pc \in {"Check"} \cup Staging
    BY <1>4 DEF Die, Commit, CheckRegistry, StageRegistry, StageAllowlist, WriteJournal, ReplaceAllowlist, ReplaceRegistry,
       RemoveJournal, _fsync_directory, ChangeDir, Raise, At, Staging
  <2>2. store' = store /\ storeDisk' = storeDisk
    BY <1>4 DEF Die, Commit, CheckRegistry, StageRegistry, StageAllowlist, WriteJournal, ReplaceAllowlist, ReplaceRegistry,
       RemoveJournal, _fsync_directory, ChangeDir, Raise
  <2>3. publisher'[p].pc = to /\ publisher'[p].id = publisher[p].id
    BY <2>1, Advancing
  <2> QED BY <2>1, <2>2, <2>3
<1> QED BY <1>1, <1>2, <1>3, <1>4 DEF PublisherStep

\* A journal is written only for a version that is there.
LEMMA JournalsWritten ==
    ASSUME PublicationTyped, StoreInv, PublishersInv, NEW p \in Publishers, PublisherStep(p)
    PROVE  \/ dir'.journal = dir.journal \/ dir'.journal = NoFile
           \/ Kept(dir'.journal.registry)
<1>1. CASE WriteJournal(p)
  <2> DEFINE journal == [registry |-> NewRegistry(p), allowlist |-> publisher[p].id]
  <2>1. publisher[p].pc = "Journal" /\ dir' = [dir EXCEPT !.journal = journal]
    BY <1>1 DEF WriteJournal, At, ChangeDir
  <2>2. Knows(publisher[p], dir) /\ publisher[p] \in PublisherStates /\ dir \in Checkouts
    BY DEF PublishersInv, PublicationTyped
  <2>3. publisher[p].id \in Ids /\ dir.registry = publisher[p].base /\ dir.registry \in Registries
    BY <2>1, <2>2 DEF Knows, Staging, Checkouts
  <2>4. Kept(dir.registry) /\ storeDisk[BundleOf[publisher[p].id]] # "None"
    BY <2>1, DirSurvives DEF StoreInv, Staging
  <2>5. Kept(NewRegistry(p))
    BY <2>3, <2>4, KeptInAppend DEF NewRegistry
  <2>6. dir'.journal.registry = NewRegistry(p)
    BY <2>1, <2>2 DEF Checkouts
  <2> QED BY <2>5, <2>6
<1>2. CASE ~WriteJournal(p)
  <2>1. dir \in Checkouts
    BY DEF PublicationTyped
  <2>2. CASE Commit(p)
    BY <1>2, <2>1, <2>2 DEF Commit, CheckRegistry, StageRegistry, StageAllowlist, ReplaceAllowlist, ReplaceRegistry,
       RemoveJournal, _fsync_directory, Finish, ChangeDir, Raise, Checkouts
  <2>3. CASE ~Commit(p)
    BY <2>3 DEF PublisherStep, checkout_writer, publish_tasks_checkout, publish, Die
  <2> QED BY <2>2, <2>3
<1> QED BY <1>1, <1>2

\* What a registry or a journal names stays in the store.
LEMMA StoreFollows ==
    ASSUME PublicationTyped, StoreInv, PublishersInv, PublicationTyped', NEW p \in Publishers, PublisherStep(p),
           CheckoutMoves, \A q \in Publishers : q # p => publisher[q].pc = "Idle" /\ publisher'[q] = publisher[q]
    PROVE  StoreInv' /\ StoreGrows
<1>1. /\ StoreGrows
      /\ publisher'[p].pc = "BundleSync" => store'[BundleOf[publisher'[p].id]] # "None"
      /\ publisher'[p].pc \in {"Seal", "Check"} \cup Staging => storeDisk'[BundleOf[publisher'[p].id]] # "None"
  <2>1. CASE publish(p)
    BY <2>1, PublishStores DEF Staging
  <2>2. CASE ~publish(p)
    BY <2>2, OthersStore DEF StoreInv, StoreGrows, PublicationTyped
  <2> QED BY <2>1, <2>2
<1>2. \A s \in Registries : Kept(s) => Kept(s)'
  <2> SUFFICES ASSUME NEW s \in Registries, Kept(s), NEW i \in 1 .. Len(s)
               PROVE  storeDisk'[BundleOf[s[i]]] # "None"
    BY DEF Kept
  <2>1. s[i] \in Ids /\ BundleOf[s[i]] \in Bundles
    BY PublicationConstants DEF Registries, Ids
  <2> QED BY <1>1, <2>1 DEF Kept, StoreGrows
<1>3. ASSUME NEW d \in Survivors'
      PROVE  Kept(d.registry)' /\ (d.journal # NoFile => Kept(d.journal.registry)')
  <2>1. d \in Checkouts
    BY <1>3 DEF PublicationTyped, Survivors
  <2>2. d.registry \in Registries /\ (d.journal # NoFile => d.journal.registry \in Registries)
    BY <2>1 DEF Checkouts, Journals
  <2>3. Kept(dir.registry) /\ (dir.journal # NoFile => Kept(dir.journal.registry))
    BY DirSurvives DEF StoreInv
  <2>4. CASE d \in Survivors
    BY <1>2, <2>2, <2>4 DEF StoreInv
  <2>5. CASE d = dir'
    <3>1. Kept(d.registry)
      BY <2>3, <2>5 DEF CheckoutMoves, GoesForward, Pending
    <3>2. d.journal # NoFile => Kept(d.journal.registry)
      BY <2>3, <2>5, JournalsWritten
    <3> QED BY <1>2, <2>2, <3>1, <3>2
  <2> QED BY <1>3, <2>4, <2>5 DEF CheckoutMoves
<1>4. \A q \in Publishers :
         /\ publisher'[q].pc = "BundleSync" => store'[BundleOf[publisher'[q].id]] # "None"
         /\ publisher'[q].pc \in {"Seal", "Check"} \cup Staging => storeDisk'[BundleOf[publisher'[q].id]] # "None"
  BY <1>1 DEF Staging
<1> QED BY <1>1, <1>3, <1>4 DEF StoreInv, StoreGrows

\* A publication is acknowledged when its registry is the only state left.
LEMMA Acknowledging ==
    ASSUME PublicationTyped, PublishersInv, NEW p \in Publishers, PublisherStep(p)
    PROVE  \/ acknowledged' = acknowledged
           \/ /\ acknowledged' = acknowledged \cup {publisher[p].id} /\ dir' = dir /\ Survivors = {dir} /\ disk' = disk
              /\ dir.registry = Append(publisher[p].base, publisher[p].id)
<1>1. CASE Finish(p) /\ ~publisher[p].recovering
  <2>1. publisher[p].pc = "Done" /\ acknowledged' = acknowledged \cup {publisher[p].id} /\ dir' = dir /\ disk' = disk
    BY <1>1 DEF Finish, At
  <2>2. Survivors = {dir} /\ Knows(publisher[p], dir)
    BY <2>1 DEF PublishersInv
  <2> QED BY <1>1, <2>1, <2>2 DEF Knows
<1>2. CASE ~(Finish(p) /\ ~publisher[p].recovering)
  BY <1>2 DEF PublisherStep, checkout_writer, publish_tasks_checkout, publish, Commit, Die, CheckRegistry, StageRegistry, StageAllowlist,
         WriteJournal, ReplaceAllowlist, ReplaceRegistry, RemoveJournal, _fsync_directory, Finish, ChangeDir, Raise
<1> QED BY <1>1, <1>2

\* A registry that goes forward keeps its names and its prefixes.
LEMMA ForwardKeeps ==
    ASSUME NEW d \in Checkouts, NEW e \in Checkouts, GoesForward(d, e)
    PROVE  /\ \A id : Names(d.registry, id) => Names(e.registry, id)
           /\ \A s \in Registries : IsPrefix(s, d.registry) => IsPrefix(s, e.registry)
           /\ \A s \in Registries : IsPrefix(s, d.registry) /\ s = e.registry => s = d.registry
<1>1. d.registry \in Registries
  BY DEF Checkouts
<1>2. CASE e.registry = d.registry
  BY <1>2
<1>3. CASE d.journal.allowlist \in Ids /\ e.registry = Append(d.registry, d.journal.allowlist)
  BY <1>1, <1>3, NamesInAppend, PrefixOfAppend
<1> QED BY <1>2, <1>3 DEF GoesForward

\* An acknowledged publication stays in every state a power loss may leave.
LEMMA AcknowledgedFollows ==
    ASSUME PublicationTyped, PublishersInv, AcknowledgedInv, NEW p \in Publishers, PublisherStep(p), CheckoutMoves
    PROVE  AcknowledgedInv'
<1>1. CASE acknowledged' = acknowledged
  <2> SUFFICES ASSUME NEW d \in Survivors', NEW id \in acknowledged
               PROVE  Names(d.registry, id)
    BY <1>1 DEF AcknowledgedInv
  <2>1. Names(dir.registry, id) /\ dir \in Checkouts
    BY DirSurvives DEF AcknowledgedInv
  <2>2. Names(dir'.registry, id)
    BY <2>1, ForwardKeeps DEF CheckoutMoves
  <2> QED BY <2>2 DEF CheckoutMoves, AcknowledgedInv
<1>2. CASE /\ acknowledged' = acknowledged \cup {publisher[p].id} /\ dir' = dir /\ Survivors = {dir} /\ disk' = disk
           /\ dir.registry = Append(publisher[p].base, publisher[p].id)
  <2>1. Survivors' = {dir}
    BY <1>2 DEF Survivors
  <2>2. \A id \in acknowledged : Names(dir.registry, id)
    BY <1>2 DEF AcknowledgedInv
  <2>3. Names(dir.registry, publisher[p].id)
    <3>1. publisher[p].base \in Registries
      BY DEF PublicationTyped, PublisherStates
    <3> QED BY <1>2, <3>1 DEF Names, Registries
  <2> QED BY <1>2, <2>1, <2>2, <2>3 DEF AcknowledgedInv
<1> QED BY <1>1, <1>2, Acknowledging

\* What a reader has seen stays true while a publisher works.
LEMMA ReadersFollow ==
    ASSUME PublicationTyped, SurvivorsInv, ReadersInv, CheckoutMoves, checkoutReader' = checkoutReader
    PROVE  ReadersInv'
<1> SUFFICES ASSUME NEW r \in CheckoutReaders
             PROVE  Saw(checkoutReader[r], dir') /\ \A d \in Survivors' : Lasts(checkoutReader[r], d)
  BY DEF ReadersInv
<1> DEFINE x == checkoutReader[r]
<1>1. x \in ReaderStates /\ dir \in Checkouts /\ dir' \in Checkouts /\ GoesForward(dir, dir')
  BY DEF PublicationTyped, CheckoutMoves
<1>2. x.registry \in Registries /\ (x.got # <<>> => x.got[1] \in Registries)
  BY <1>1 DEF ReaderStates
<1>3. Saw(x, dir) /\ \A d \in Survivors : Lasts(x, d)
  BY DEF ReadersInv
<1> HIDE DEF x
<1>4. Lasts(x, dir')
  BY <1>1, <1>2, <1>3, DirSurvives, ForwardKeeps DEF Lasts
<1>5. \A d \in Survivors' : Lasts(x, d)
  BY <1>3, <1>4 DEF CheckoutMoves
<1>6. Saw(x, dir')
  <2>1. x.pc \in {"Allowlist", "Used"} => IsPrefix(x.registry, dir.registry) /\ IsPrefix(x.registry, dir'.registry)
    BY <1>1, <1>2, <1>3, ForwardKeeps DEF Saw
  <2>2. x.pc \in {"Allowlist", "Used"} /\ x.registry = dir'.registry => x.registry = dir.registry
    BY <1>1, <1>2, <2>1, ForwardKeeps
  <2>3. x.pc = "Used" /\ x.registry = dir'.registry => x.allowlist = dir'.allowlist \/ Pending(dir')
    BY <1>1, <1>3, <2>2 DEF Saw, GoesForward
  <2>4. x.pc = "CompareRegistry" => IsPrefix(x.registry, dir.registry)
    BY <1>3, DirSurvives DEF Lasts
  <2>5. x.pc = "CompareRegistry" /\ x.registry = dir'.registry => x.allowlist = LastOr0(x.registry)
    BY <1>1, <1>2, <1>3, <2>4, ForwardKeeps DEF Saw
  <2> QED BY <1>3, <2>1, <2>3, <2>5 DEF Saw
<1> QED BY <1>5, <1>6 DEF x

LEMMA PublisherKeeps ==
    ASSUME PublicationIInv, NEW p \in Publishers, PublisherStep(p)
    PROVE  PublicationIInv'
<1> USE DEF PublicationIInv
<1>1. CheckoutMoves /\ KnowsNow(p)
  BY PublisherMoves
<1>2. /\ flock' \in Publishers \cup {NoPublisher} /\ checkoutReader' = checkoutReader
      /\ \A q \in Publishers : q # p => publisher[q].pc = "Idle" /\ publisher'[q] = publisher[q]
      /\ made' \in 0 .. MaxPublications
  BY <1>1, LockMoves DEF KnowsNow
<1>3. store' \in StoreStates /\ storeDisk' \in StoreStates
  <2>1. CASE publish(p)
    BY <2>1, PublishStores DEF StoreGrows
  <2>2. CASE ~publish(p)
    BY <2>2, OthersStore DEF PublicationTyped
  <2> QED BY <2>1, <2>2
<1>4. PublicationTyped'
  <2>1. \A q \in Publishers : publisher'[q].pc # "Idle" => flock' = q
    BY <1>1, <1>2 DEF KnowsNow
  <2> QED BY <1>1, <1>2, <1>3, <2>1 DEF PublicationTyped, CheckoutMoves, KnowsNow
<1>5. PublishersInv'
  <2>1. \A q \in Publishers : q # p => Knows(publisher'[q], dir') /\ publisher'[q].pc \notin {"Unlink", "Done"}
    BY <1>2 DEF Knows, Early, Staging, Journaled
  <2> QED BY <1>1, <2>1 DEF PublishersInv, KnowsNow
<1>6. StoreInv'
  BY <1>1, <1>2, <1>4, StoreFollows
<1> QED BY <1>1, <1>2, <1>4, <1>5, <1>6, AcknowledgedFollows, ReadersFollow DEF CheckoutMoves

-----------------------------------------------------------------------------
(* A reader's step and a power loss. *)

LEMMA TriesAgain ==
    ASSUME NEW x \in ReaderStates, NEW n \in Nat, NEW new, new = [x EXCEPT !.pc = "Registry", !.tries = n]
    PROVE  new \in ReaderStates /\ new.pc = "Registry" /\ new.got = x.got
BY DEF ReaderStates, ReaderPCs

LEMMA ReaderKeeps ==
    ASSUME PublicationIInv, NEW r \in CheckoutReaders, read_coherently(r)
    PROVE  PublicationIInv'
<1> USE DEF PublicationIInv
<1> DEFINE x == checkoutReader[r]
           new == checkoutReader'[r]
<1>1. x \in ReaderStates /\ dir \in Checkouts /\ checkoutReader \in [CheckoutReaders -> ReaderStates]
  BY DEF PublicationTyped
<1>2. Saw(x, dir) /\ \A d \in Survivors : Lasts(x, d)
  BY DEF ReadersInv
<1>3. dir.journal = NoFile => \A d \in Survivors : d.registry = dir.registry
  BY DEF SurvivorsInv
<1>4. dir.journal = NoFile => dir.allowlist = LastOr0(dir.registry)
  BY DirSurvives DEF SurvivorsInv, Recoverable
<1>5. dir.registry \in Registries /\ dir.allowlist \in 0 .. MaxPublications /\ x.registry \in Registries
  BY <1>1 DEF Checkouts, ReaderStates
<1>6. /\ UNCHANGED <<dir, disk, store, storeDisk, flock, publisher, made, acknowledged>>
      /\ \E y : checkoutReader' = [checkoutReader EXCEPT ![r] = y]
  BY DEF read_coherently, BeginReading, ReadRegistry, ReadAllowlist, CheckPending, CompareRegistry, CompareAllowlist, Again, CheckoutReads
<1>7. /\ new \in ReaderStates /\ Saw(new, dir) /\ \A d \in Survivors : Lasts(new, d)
  <2>1. CASE BeginReading(r)
    <3>1. new = [x EXCEPT !.pc = "Registry", !.tries = 1]
      BY <1>1, <2>1 DEF BeginReading, CheckoutReads
    <3>2. new \in ReaderStates /\ new.pc = "Registry" /\ new.got = x.got
      <4>1. 1 \in Nat
        OBVIOUS
      <4> HIDE DEF new, x
      <4> QED BY <1>1, <3>1, <4>1, TriesAgain
    <3> QED BY <1>2, <3>2 DEF Saw, Lasts
  <2>2. CASE ReadRegistry(r)
    <3>1. new = [x EXCEPT !.pc = "Allowlist", !.registry = dir.registry]
      BY <1>1, <2>2 DEF ReadRegistry, CheckoutReads
    <3>2. new \in ReaderStates /\ new.pc = "Allowlist" /\ new.got = x.got /\ new.registry = dir.registry
      BY <1>1, <1>5, <3>1 DEF ReaderStates, ReaderPCs
    <3> QED BY <1>2, <1>5, <3>2, PrefixOfItself DEF Saw, Lasts
  <2>3. CASE ReadAllowlist(r)
    <3>1. new = [x EXCEPT !.pc = "Used", !.allowlist = dir.allowlist] /\ x.pc = "Allowlist"
      BY <1>1, <2>3 DEF ReadAllowlist, CheckoutReads
    <3>2. new \in ReaderStates /\ new.pc = "Used" /\ new.got = x.got /\ new.registry = x.registry /\ new.allowlist = dir.allowlist
      BY <1>1, <1>5, <3>1 DEF ReaderStates, ReaderPCs
    <3> QED BY <1>2, <3>1, <3>2 DEF Saw, Lasts
  <2>4. CASE CheckPending(r)
    <3>1. x.pc = "Used" /\ new = [x EXCEPT !.pc = IF dir.journal = NoFile THEN "CompareRegistry" ELSE "Idle"]
      BY <1>1, <2>4 DEF CheckPending, CheckoutReads, assert_no_pending_publication
    <3>2. new \in ReaderStates /\ new.got = x.got /\ new.registry = x.registry /\ new.allowlist = x.allowlist
      BY <1>1, <3>1 DEF ReaderStates, ReaderPCs
    <3>3. new.pc = IF dir.journal = NoFile THEN "CompareRegistry" ELSE "Idle"
      BY <1>1, <3>1 DEF ReaderStates
    <3>4. CASE dir.journal = NoFile
      <4>1. IsPrefix(x.registry, dir.registry) /\ (x.registry = dir.registry => x.allowlist = LastOr0(x.registry))
        BY <1>2, <1>4, <3>1, <3>4 DEF Saw, Pending
      <4> QED BY <1>2, <1>3, <3>2, <3>3, <3>4, <4>1 DEF Saw, Lasts
    <3>5. CASE dir.journal # NoFile
      BY <1>2, <3>2, <3>3, <3>5 DEF Saw, Lasts
    <3> QED BY <3>4, <3>5
  <2>5. ASSUME Again(r)
        PROVE  new \in ReaderStates /\ Saw(new, dir) /\ \A d \in Survivors : Lasts(new, d)
    <3>1. new = [x EXCEPT !.pc = "Registry", !.tries = @ + 1] \/ new = [x EXCEPT !.pc = "Idle"]
      BY <1>1, <2>5 DEF Again, CheckoutReads
    <3>2. CASE new = [x EXCEPT !.pc = "Registry", !.tries = @ + 1]
      <4>1. x.tries + 1 \in Nat
        BY <1>1 DEF ReaderStates
      <4> HIDE DEF new, x
      <4>2. new \in ReaderStates /\ new.pc = "Registry" /\ new.got = x.got
        BY <1>1, <3>2, <4>1, TriesAgain
      <4> QED BY <1>2, <4>2 DEF Saw, Lasts
    <3>3. CASE new = [x EXCEPT !.pc = "Idle"]
      <4>1. new \in ReaderStates /\ new.got = x.got /\ new.pc = "Idle"
        BY <1>1, <3>3 DEF ReaderStates, ReaderPCs
      <4> QED BY <1>2, <4>1 DEF Saw, Lasts
    <3> QED BY <3>1, <3>2, <3>3
  <2>6. CASE CompareRegistry(r) /\ dir.registry = x.registry
    <3>1. x.pc = "CompareRegistry" /\ new = [x EXCEPT !.pc = "CompareAllowlist"]
      BY <1>1, <2>6 DEF CompareRegistry, CheckoutReads
    <3>2. new \in ReaderStates /\ new.got = x.got /\ new.pc = "CompareAllowlist" /\ new.registry = x.registry /\ new.allowlist = x.allowlist
      BY <1>1, <3>1 DEF ReaderStates, ReaderPCs
    <3> QED BY <1>2, <2>6, <3>1, <3>2 DEF Saw, Lasts
  <2>7. CASE CompareAllowlist(r) /\ dir.allowlist = x.allowlist
    <3>1. x.pc = "CompareAllowlist" /\ new = [x EXCEPT !.pc = "Idle", !.got = <<x.registry, x.allowlist>>]
      BY <1>1, <2>7 DEF CompareAllowlist, CheckoutReads
    <3>2. x.allowlist \in 0 .. MaxPublications
      BY <1>1 DEF ReaderStates
    <3>3. new \in ReaderStates /\ new.pc = "Idle"
      <4>1. <<x.registry, x.allowlist>> \in {<<>>} \cup (Registries \X (0 .. MaxPublications))
        BY <1>5, <3>2
      <4> QED BY <1>1, <3>1, <4>1 DEF ReaderStates, ReaderPCs
    <3>4. new.got[1] = x.registry /\ new.got[2] = x.allowlist
      BY <1>1, <3>1 DEF ReaderStates
    <3> QED BY <1>2, <3>1, <3>3, <3>4 DEF Saw, Lasts
  <2> QED BY <2>1, <2>2, <2>3, <2>4, <2>5, <2>6, <2>7 DEF read_coherently, CompareRegistry, CompareAllowlist
<1>8. checkoutReader' \in [CheckoutReaders -> ReaderStates] /\ \A s \in CheckoutReaders : s # r => checkoutReader'[s] = checkoutReader[s]
  BY <1>1, <1>6, <1>7
<1> HIDE DEF new
<1>9. Survivors' = Survivors
  BY <1>6 DEF Survivors
<1>10. ReadersInv'
  BY <1>6, <1>7, <1>8, <1>9 DEF ReadersInv, new
<1>11. PublicationTyped'
  BY <1>6, <1>8 DEF PublicationTyped
<1>12. SurvivorsInv' /\ PublishersInv' /\ AcknowledgedInv' /\ StoreInv'
  BY <1>6, <1>9 DEF SurvivorsInv, PublishersInv, AcknowledgedInv, StoreInv, Kept
<1> QED BY <1>10, <1>11, <1>12

LEMMA PowerLossKeeps ==
    ASSUME PublicationIInv, PowerLoss
    PROVE  PublicationIInv'
<1> USE DEF PublicationIInv
<1>1. PICK i \in DOMAIN disk : dir' = disk[i] /\ disk' = <<disk[i]>>
  BY DEF PowerLoss
<1>2. PICK s \in {store, storeDisk} : store' = s /\ storeDisk' = s
  BY DEF PowerLoss
<1>3. Survivors' = {dir'} /\ disk' # <<>> /\ disk'[Len(disk')] = dir' /\ dir' \in Survivors
  BY <1>1, SyncSurvivors DEF Survivors
<1>4. dir' \in Checkouts /\ disk' \in Seq(Checkouts)
  BY <1>1, <1>3, DirSurvives
<1>5. publisher' \in [Publishers -> PublisherStates] /\ \A p \in Publishers : publisher'[p].pc = "Idle"
  BY DEF PowerLoss, PublicationTyped, PublisherStates, PublisherPCs
<1>6. /\ checkoutReader' \in [CheckoutReaders -> ReaderStates]
      /\ \A r \in CheckoutReaders : checkoutReader'[r].pc = "Idle" /\ checkoutReader'[r].got = checkoutReader[r].got
  BY DEF PowerLoss, PublicationTyped, ReaderStates, ReaderPCs
<1>7. PublicationTyped'
  BY <1>2, <1>3, <1>4, <1>5, <1>6 DEF PowerLoss, PublicationTyped
<1>8. SurvivorsInv'
  BY <1>3 DEF SurvivorsInv
<1>9. PublishersInv'
  BY <1>5 DEF PublishersInv, Knows, Early, Staging, Journaled
<1>10. AcknowledgedInv'
  BY <1>3 DEF AcknowledgedInv, PowerLoss
<1>11. StoreInv'
  <2>1. \A b \in Bundles : storeDisk[b] # "None" => storeDisk'[b] # "None"
    BY <1>2 DEF StoreInv
  <2>2. \A t \in Registries : Kept(t) => Kept(t)'
    <3> SUFFICES ASSUME NEW t \in Registries, Kept(t), NEW j \in 1 .. Len(t)
                 PROVE  storeDisk'[BundleOf[t[j]]] # "None"
      BY DEF Kept
    <3>1. BundleOf[t[j]] \in Bundles
      BY PublicationConstants DEF Registries, Ids
    <3> QED BY <2>1, <3>1 DEF Kept
  <2>3. ASSUME NEW d \in Survivors'
        PROVE  Kept(d.registry)' /\ (d.journal # NoFile => Kept(d.journal.registry)')
    <3>1. d \in Survivors /\ d \in Checkouts
      BY <1>3, <1>4
    <3>2. d.registry \in Registries /\ (d.journal # NoFile => d.journal.registry \in Registries)
      BY <3>1 DEF Checkouts, Journals
    <3> QED BY <2>2, <3>1, <3>2 DEF StoreInv
  <2>4. \A b \in Bundles : storeDisk'[b] # "None" => store'[b] # "None"
    BY <1>2
  <2>5. \A p \in Publishers : publisher'[p].pc \notin {"BundleSync", "Seal", "Check"} \cup Staging
    BY <1>5 DEF Staging
  <2> QED BY <2>3, <2>4, <2>5 DEF StoreInv
<1>12. ReadersInv'
  BY <1>3, <1>6 DEF ReadersInv, Saw, Lasts
<1> QED BY <1>7, <1>8, <1>9, <1>10, <1>11, <1>12

-----------------------------------------------------------------------------
\* The empty checkout.
LEMMA PublicationInitInv == PublicationInit => PublicationIInv
<1> SUFFICES ASSUME PublicationInit PROVE PublicationIInv
  OBVIOUS
<1>1. dir = Empty /\ disk = <<Empty>> /\ Survivors = {Empty}
  BY DEF PublicationInit, Survivors
<1>2. /\ Empty \in Checkouts /\ Empty.journal = NoFile /\ Empty.registry = <<>> /\ Empty.allowlist = LastOr0(<<>>)
  BY PublicationConstants DEF Empty, Checkouts, Registries, LastOr0
<1>3. /\ publisher \in [Publishers -> PublisherStates] /\ \A p \in Publishers : publisher[p].pc = "Idle"
  BY PublicationConstants DEF PublicationInit, PublisherStates, PublisherPCs, Registries
<1>4. /\ checkoutReader \in [CheckoutReaders -> ReaderStates]
      /\ \A r \in CheckoutReaders : checkoutReader[r].pc = "Idle" /\ checkoutReader[r].got = <<>>
  BY PublicationConstants DEF PublicationInit, ReaderStates, ReaderPCs, Registries
<1>5. PublicationTyped
  BY <1>1, <1>2, <1>3, <1>4, PublicationConstants DEF PublicationInit, PublicationTyped, StoreStates
<1>6. SurvivorsInv /\ AcknowledgedInv
  BY <1>1, <1>2 DEF SurvivorsInv, Recoverable, AcknowledgedInv, PublicationInit
<1>7. PublishersInv
  BY <1>3 DEF PublishersInv, Knows, Early, Staging, Journaled
<1>8. StoreInv
  BY <1>1, <1>2, <1>3 DEF StoreInv, Kept, Staging, PublicationInit
<1>9. ReadersInv
  BY <1>4 DEF ReadersInv, Saw, Lasts
<1> QED BY <1>5, <1>6, <1>7, <1>8, <1>9 DEF PublicationIInv

\* Of what the invariant says of every state a power loss may leave, the property is the part about dir.
LEMMA PublicationIInvSafe == PublicationIInv => PublicationIsDurable
<1> SUFFICES ASSUME PublicationIInv PROVE PublicationIsDurable
  OBVIOUS
<1> USE DEF PublicationIInv
<1>1. dir \in Survivors /\ dir \in Checkouts
  BY DirSurvives DEF PublicationTyped
<1>2. PublicationTypeOK
  BY <1>1 DEF PublicationTypeOK, PublicationTyped, Checkouts, Registries, Ids
<1>3. CheckoutIsCoherent
  BY <1>1 DEF CheckoutIsCoherent, SurvivorsInv, Recoverable
<1>4. ReadersSeeCommitted
  BY <1>1 DEF ReadersSeeCommitted, ReadersInv, Saw, Lasts
<1>5. AcknowledgedStays
  BY <1>1 DEF AcknowledgedStays, AcknowledgedInv, Names
<1>6. RegistryNamesStored
  <2> SUFFICES ASSUME NEW i \in 1 .. Len(dir.registry)
               PROVE  store[BundleOf[dir.registry[i]]] # "None"
    BY DEF RegistryNamesStored
  <2>1. dir.registry[i] \in Ids
    BY <1>1 DEF Checkouts, Registries
  <2>2. BundleOf[dir.registry[i]] \in Bundles
    BY <2>1, PublicationConstants DEF Ids
  <2>3. storeDisk[BundleOf[dir.registry[i]]] # "None"
    BY <1>1 DEF StoreInv, Kept
  <2> QED BY <2>2, <2>3 DEF StoreInv
<1> QED BY <1>2, <1>3, <1>4, <1>5, <1>6 DEF PublicationIsDurable

\* In every reachable state each state that a power loss may leave can be recovered and names what
\* was acknowledged, read and stored.
THEOREM PublicationInductive == PublicationSpec => []PublicationIInv
<1>1. PublicationIInv /\ [PublicationNext]_publicationVars => PublicationIInv'
  <2> SUFFICES ASSUME PublicationIInv, [PublicationNext]_publicationVars PROVE PublicationIInv'
    OBVIOUS
  <2>1. CASE UNCHANGED publicationVars
    BY <2>1 DEF publicationVars, PublicationIInv, PublicationTyped, SurvivorsInv, Survivors, PublishersInv, AcknowledgedInv,
                StoreInv, Kept, ReadersInv
  <2>2. CASE PowerLoss
    BY <2>2, PowerLossKeeps
  <2>3. CASE \E p \in Publishers : PublisherStep(p)
    BY <2>3, PublisherKeeps
  <2>4. CASE \E r \in CheckoutReaders : read_coherently(r)
    BY <2>4, ReaderKeeps
  <2> QED BY <2>1, <2>2, <2>3, <2>4 DEF PublicationNext, PublisherStep
<1> QED BY <1>1, PublicationInitInv, PTL DEF PublicationSpec

\* Whoever publishes, dies or loses power at whichever write: readers get one committed state that
\* nobody takes back, and a publication whose commit returned stays (publish, _recover, read_coherently).
THEOREM PublicationStaysDurable == PublicationSpec => []PublicationIsDurable
BY PublicationInductive, PublicationIInvSafe, PTL
=============================================================================

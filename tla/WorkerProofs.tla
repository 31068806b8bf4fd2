---------------------------- MODULE WorkerProofs ----------------------------
(***************************************************************************)
(* Proofs about the components of MCWorkers: the verifier, the competition *)
(* and its intake, the reader of the chain and the emissions worker.       *)
(*                                                                         *)
(* VerifierPipeline, for any submission.  Each stage finds in order what   *)
(* its gate looks at (GatesPassed), so that a report that accepts, which   *)
(* is written once, at the end (ReportOK), speaks for all of them.         *)
(*                                                                         *)
(* CompetitionQueue, for any rows, registrations and workers.  No row lock *)
(* carries the argument.  The two keys of entitlement_claims keep charges  *)
(* apart, and as long as nobody takes a claim from a worker at work a row  *)
(* in hand is "verifying" and in one hand only (HandsInv), so that no      *)
(* verdict is written over another.                                        *)
(*                                                                         *)
(* CompetitionIntake, for any chain, watchers and requests.  Watchers      *)
(* remember neurons of different heights.  Each block has one registration,*)
(* so whatever any of them has seen are events that a block tells apart    *)
(* (OneEventPerBlock), and the rows are some of them.  A request's reads   *)
(* stay true because the hotkey's lock keeps the others away               *)
(* (CallsAreApart) and the table of registrations only grows.              *)
(*                                                                         *)
(* ChainReads, for any chain, block contents and callers.  Only the head   *)
(* of the lock's line drives a client (LineInv), a client is forgotten     *)
(* before it is closed (ClientInv), the block looked for stays between the *)
(* search's bounds (SearchInv), and what was read of a final block stays   *)
(* there (PaymentInv).                                                     *)
(*                                                                         *)
(* Emissions, for any subnet, competitors, scores and shares.  The parts   *)
(* of all competitors make the budget (SumScaled), those that hold a uid   *)
(* are to the uids they hold one to one (SumOverImage), and the others'    *)
(* parts are the treasury's, so what combine returns is whole              *)
(* (CombinedIsWhole).  What is on the chain is of an epoch that is over or *)
(* is the plan being submitted (PlanInv).                                  *)
(***************************************************************************)
EXTENDS MCWorkers, SumTheorems, FunctionTheorems, FiniteSetTheorems, SequenceTheorems, WellFoundedInduction, TLAPS

----------------------------------------------------------------------------
(* The verifier's pipeline.                                                *)

Worlds == [wrong : SUBSET Facts, v2 : BOOLEAN, production : BOOLEAN, insecure : BOOLEAN,
           challengeEnds : Ends, comparatorEnds : Ends, noise : SUBSET {"exporting", "axiom", "kernel"}]

\* The stages that come after a gate.
AtCompare == {"package", "comparator"}
AfterInspection == AtCompare \cup {"types"}
AfterChallenge == AfterInspection \cup {"inspect"}
InWorkspace == AfterChallenge \cup {"build_challenge"}
AfterSandbox == InWorkspace \cup {"workspace"}
AfterCommitment == AfterSandbox \cup {"load_submission", "sandbox"}
AfterLoading == AfterCommitment \cup {"commitment"}
Underway == AfterLoading \cup {"load_task"}

\* The checks a report may list, and the reasons that judge the proof.
Checks == AcceptanceChecks \cup {"nanoda_passed"}
Judgements == {"SOLUTION_BUILD_FAILED", "STATEMENT_MISMATCH", "UNPERMITTED_AXIOM", "NANODA_REJECTED", "LEAN_KERNEL_REJECTED",
               "COMPARATOR_REJECTED"}

\* What every gate that was passed has found in order.
GatesPassed ==
    /\ host \notin {"admission", "refused"} =>
          \A f \in {"archive", "manifest", "digest", "signer", "policy"} : ~Wrong(f)
    /\ stage \in AfterLoading => ~Wrong("bundle")
    /\ stage \in AfterCommitment =>
          /\ ~Wrong("commitment") /\ ~Wrong("production") /\ ~Wrong("pins")
          /\ world.v2 => ~Wrong("environment")
    /\ stage \in AfterSandbox => ~Wrong("sandbox") \/ world.insecure
    /\ stage \in InWorkspace => ~Wrong("disk")
    /\ stage \in AfterChallenge => ~Wrong("challenge")
    /\ stage \in AfterInspection => (world.v2 => ~Wrong("closure") /\ ~Wrong("provenance"))
    /\ stage \in AtCompare => ~Wrong("sourceType") /\ ~Wrong("targetType") /\ ~Wrong("eligible")

\* The report is written once, at the end of the stages.
ReportOK ==
    /\ stage \in Underway \cup {"none"} => report = NoReport
    /\ report.accepted /\ world.production =>
          /\ world.wrong \subseteq (IF world.v2 THEN {} ELSE {"environment", "closure", "provenance"})
          /\ world.comparatorEnds = "exits"
    /\ report.reason \in Judgements =>
          Wrong("targetType") \/ (world.comparatorEnds = "exits" /\ ~Wrong("tools"))
    /\ host = "accepted" => report.accepted

PipelineIInv ==
    /\ world \in Worlds /\ (world.production => ~world.insecure)
    /\ PipelineTypeOK
    /\ host \in {"admission", "admitted", "ready", "refused"} => stage = "none"
    /\ GatesPassed /\ ReportOK
    /\ workspace = "open" => stage \in InWorkspace \cup {"cleanup"}
-----------------------------------------------------------------------------
LEMMA PipelineStarts ==
  ASSUME PipelineInit
  PROVE  PipelineIInv
  BY DEF PipelineInit, PipelineIInv, PipelineTypeOK, Worlds, GatesPassed, ReportOK, NoReport, Underway, AfterLoading,
         AfterCommitment, AfterSandbox, InWorkspace, AfterChallenge, AfterInspection, AtCompare, Judgements

\* A report that ends the stages judges the proof only with a reason.
LEMMA ReportKeeps ==
  ASSUME PipelineIInv, stage \in Underway, NEW reason, NEW found \in SUBSET Checks, NEW exit, rejectedWith(reason, found, exit),
         reason \in Judgements => Wrong("targetType") \/ (world.comparatorEnds = "exits" /\ ~Wrong("tools")),
         UNCHANGED <<world, host>>, workspace' \in {"none", workspace}
  PROVE  PipelineIInv'
  <1> USE DEF PipelineIInv, Underway, AfterLoading, AfterCommitment, AfterSandbox, InWorkspace, AfterChallenge,
              AfterInspection, AtCompare, rejectedWith, Wrong
  <1>1. PipelineTypeOK'
    BY DEF PipelineTypeOK, Checks
  <1>2. GatesPassed'
    BY DEF GatesPassed
  <1>3. ReportOK'
    BY DEF ReportOK, Judgements, NoReport
  <1> QED
    BY <1>1, <1>2, <1>3

LEMMA PassedKeeps ==
  ASSUME PipelineIInv, stage \in Underway, NEW next \in AfterLoading, NEW found \in SUBSET Checks, Passed(next, found),
         UNCHANGED <<world, host>>, workspace' \in {"none", "open"}, workspace' = "open" => next \in InWorkspace, GatesPassed'
  PROVE  PipelineIInv'
  <1> USE DEF PipelineIInv, Underway, AfterLoading, AfterCommitment, AfterSandbox, InWorkspace, AfterChallenge,
              AfterInspection, AtCompare, Passed
  <1>1. PipelineTypeOK'
    BY DEF PipelineTypeOK, Checks
  <1>2. ReportOK'
    BY DEF ReportOK, NoReport, Wrong
  <1> QED
    BY <1>1, <1>2

\* Before the comparator a gate lets the run on, or ends it with a report that does not judge the proof.
LEMMA GateKeeps ==
  ASSUME PipelineIInv,
         \/ load_task_bundle \/ assert_dependency_pins \/ check_submission \/ production_sandbox_available
         \/ create_workspace \/ build_challenge \/ check_inspected_closure \/ inspect_generated_target \/ package_solution
  PROVE  PipelineIInv'
  <1> DEFINE Ended == \E reason : \E found \in SUBSET Checks : \E exit :
                         /\ rejectedWith(reason, found, exit) /\ (reason \in Judgements => Wrong("targetType"))
                         /\ workspace' \in {"none", workspace}
  <1>0. checks \in SUBSET Checks /\ workspace \in {"none", "open"} /\ (workspace = "open" => stage \in InWorkspace \cup {"cleanup"})
        /\ GatesPassed
    BY DEF PipelineIInv, PipelineTypeOK, Checks
  <1> USE DEF Underway, AfterLoading, AfterCommitment, AfterSandbox, InWorkspace, AfterChallenge, AfterInspection, AtCompare
  <1>1. ASSUME Ended, UNCHANGED <<world, host>>, stage \in Underway
        PROVE  PipelineIInv'
    BY <1>1, ReportKeeps
  <1>report. \A reason : \A found \in SUBSET Checks : \A exit :
          rejectedWith(reason, found, exit) /\ (reason \in Judgements => Wrong("targetType")) /\ workspace' \in {"none", workspace}
             => Ended
    OBVIOUS
  <1> HIDE DEF Ended
  <1>2. CASE load_task_bundle
    <2> DEFINE found == {"manifest_valid"} \cup (IF Wrong("production") THEN {} ELSE {"production_task"})
    <2>1. stage = "load_task" /\ UNCHANGED <<world, host>>
      BY <1>2 DEF load_task_bundle
    <2>2. \/ Ended
          \/ Passed("commitment", found) /\ workspace' = workspace /\ ~Wrong("bundle")
          \/ stage' = "error" /\ UNCHANGED <<world, workspace, host, checks, report>>
      BY <1>0, <1>2, <1>report, SMTT(30) DEF load_task_bundle, rejected, Checks, AcceptanceChecks, ComparatorChecks, Judgements
    <2>3. found \in SUBSET Checks
      BY DEF Checks, AcceptanceChecks, ComparatorChecks
    <2>error. CASE stage' = "error" /\ UNCHANGED <<world, workspace, host, checks, report>>
      BY <2>1, <2>error DEF PipelineIInv, PipelineTypeOK, GatesPassed, ReportOK, Wrong
    <2> HIDE DEF found
    <2>4. ASSUME Passed("commitment", found), workspace' = workspace, ~Wrong("bundle")
          PROVE  PipelineIInv'
      <3>1. stage' = "commitment"
        BY <2>4 DEF Passed
      <3>2. GatesPassed'
        BY <1>0, <2>1, <2>4, <3>1 DEF GatesPassed, Wrong
      <3> QED
        BY <1>0, <2>1, <2>3, <2>4, <3>2, PassedKeeps
    <2> QED
      BY <1>1, <2>1, <2>2, <2>4, <2>error
  <1>3. CASE assert_dependency_pins
    <2> DEFINE found == {"task_commitment_valid", "trusted_hashes_valid"}
    <2>1. stage = "commitment" /\ UNCHANGED <<world, host>>
      BY <1>3 DEF assert_dependency_pins
    <2>2. \/ Ended
          \/ Passed("load_submission", found) /\ workspace' = workspace /\ ~Wrong("commitment") /\ ~Wrong("production") /\ ~Wrong("pins") /\ (world.v2 => ~Wrong("environment"))
      BY <1>0, <1>3, <1>report, SMTT(30) DEF assert_dependency_pins, rejected, Checks, AcceptanceChecks, ComparatorChecks, Judgements
    <2>3. found \in SUBSET Checks
      BY DEF Checks, AcceptanceChecks, ComparatorChecks
    <2> HIDE DEF found
    <2>4. ASSUME Passed("load_submission", found), workspace' = workspace, ~Wrong("commitment") /\ ~Wrong("production") /\ ~Wrong("pins") /\ (world.v2 => ~Wrong("environment"))
          PROVE  PipelineIInv'
      <3>1. stage' = "load_submission"
        BY <2>4 DEF Passed
      <3>2. GatesPassed'
        BY <1>0, <2>1, <2>4, <3>1 DEF GatesPassed, Wrong
      <3> QED
        BY <1>0, <2>1, <2>3, <2>4, <3>2, PassedKeeps
    <2> QED
      BY <1>1, <2>1, <2>2, <2>4
  <1>4. CASE check_submission
    <2> DEFINE found == {"submission_policy_valid"}
    <2>1. stage = "load_submission" /\ UNCHANGED <<world, host>>
      BY <1>4 DEF check_submission
    <2>2. \/ Ended
          \/ Passed("sandbox", found) /\ workspace' = workspace
      BY <1>0, <1>4, <1>report, SMTT(30) DEF check_submission, rejected, Checks, AcceptanceChecks, ComparatorChecks, Judgements
    <2>3. found \in SUBSET Checks
      BY DEF Checks, AcceptanceChecks, ComparatorChecks
    <2> HIDE DEF found
    <2>4. ASSUME Passed("sandbox", found), workspace' = workspace
          PROVE  PipelineIInv'
      <3>1. stage' = "sandbox"
        BY <2>4 DEF Passed
      <3>2. GatesPassed'
        BY <1>0, <2>1, <2>4, <3>1 DEF GatesPassed, Wrong
      <3> QED
        BY <1>0, <2>1, <2>3, <2>4, <3>2, PassedKeeps
    <2> QED
      BY <1>1, <2>1, <2>2, <2>4
  <1>5. CASE production_sandbox_available
    <2> DEFINE found == IF ~Wrong("sandbox") /\ ~world.insecure THEN {"production_sandbox"} ELSE {}
    <2>1. stage = "sandbox" /\ UNCHANGED <<world, host>>
      BY <1>5 DEF production_sandbox_available
    <2>2. \/ Ended
          \/ Passed("workspace", found) /\ workspace' = workspace /\ (~Wrong("sandbox") \/ world.insecure)
      BY <1>0, <1>5, <1>report, SMTT(30) DEF production_sandbox_available, rejected, Checks, AcceptanceChecks, ComparatorChecks, Judgements
    <2>3. found \in SUBSET Checks
      BY DEF Checks, AcceptanceChecks, ComparatorChecks
    <2> HIDE DEF found
    <2>4. ASSUME Passed("workspace", found), workspace' = workspace, (~Wrong("sandbox") \/ world.insecure)
          PROVE  PipelineIInv'
      <3>1. stage' = "workspace"
        BY <2>4 DEF Passed
      <3>2. GatesPassed'
        BY <1>0, <2>1, <2>4, <3>1 DEF GatesPassed, Wrong
      <3> QED
        BY <1>0, <2>1, <2>3, <2>4, <3>2, PassedKeeps
    <2> QED
      BY <1>1, <2>1, <2>2, <2>4
  <1>6. CASE create_workspace
    <2> DEFINE found == {}
    <2>1. stage = "workspace" /\ UNCHANGED <<world, host>>
      BY <1>6 DEF create_workspace
    <2>2. \/ Ended
          \/ Passed("build_challenge", found) /\ workspace' = "open" /\ ~Wrong("disk")
      BY <1>0, <1>6, <1>report, SMTT(30) DEF create_workspace, rejected, Checks, AcceptanceChecks, ComparatorChecks, Judgements
    <2>3. found \in SUBSET Checks
      BY DEF Checks, AcceptanceChecks, ComparatorChecks
    <2> HIDE DEF found
    <2>4. ASSUME Passed("build_challenge", found), workspace' = "open", ~Wrong("disk")
          PROVE  PipelineIInv'
      <3>1. stage' = "build_challenge"
        BY <2>4 DEF Passed
      <3>2. GatesPassed'
        BY <1>0, <2>1, <2>4, <3>1 DEF GatesPassed, Wrong
      <3> QED
        BY <1>0, <2>1, <2>3, <2>4, <3>2, PassedKeeps
    <2> QED
      BY <1>1, <2>1, <2>2, <2>4
  <1>7. CASE build_challenge
    <2> DEFINE found == {"challenge_built"}
    <2>1. stage = "build_challenge" /\ UNCHANGED <<world, host>>
      BY <1>7 DEF build_challenge
    <2>2. \/ Ended
          \/ Passed("inspect", found) /\ workspace' = workspace /\ ~Wrong("challenge")
      BY <1>0, <1>7, <1>report, SMTT(30) DEF build_challenge, rejected, Checks, AcceptanceChecks, ComparatorChecks, Judgements, run_process
    <2>3. found \in SUBSET Checks
      BY DEF Checks, AcceptanceChecks, ComparatorChecks
    <2> HIDE DEF found
    <2>4. ASSUME Passed("inspect", found), workspace' = workspace, ~Wrong("challenge")
          PROVE  PipelineIInv'
      <3>1. stage' = "inspect"
        BY <2>4 DEF Passed
      <3>2. GatesPassed'
        BY <1>0, <2>1, <2>4, <3>1 DEF GatesPassed, Wrong
      <3> QED
        BY <1>0, <2>1, <2>3, <2>4, <3>2, PassedKeeps
    <2> QED
      BY <1>1, <2>1, <2>2, <2>4
  <1>8. CASE check_inspected_closure
    <2> DEFINE found == {}
    <2>1. stage = "inspect" /\ UNCHANGED <<world, host>>
      BY <1>8 DEF check_inspected_closure
    <2>2. \/ Ended
          \/ Passed("types", found) /\ workspace' = workspace /\ (world.v2 => ~Wrong("closure") /\ ~Wrong("provenance"))
      BY <1>0, <1>8, <1>report, SMTT(30) DEF check_inspected_closure, rejected, Checks, AcceptanceChecks, ComparatorChecks, Judgements
    <2>3. found \in SUBSET Checks
      BY DEF Checks, AcceptanceChecks, ComparatorChecks
    <2> HIDE DEF found
    <2>4. ASSUME Passed("types", found), workspace' = workspace, (world.v2 => ~Wrong("closure") /\ ~Wrong("provenance"))
          PROVE  PipelineIInv'
      <3>1. stage' = "types"
        BY <2>4 DEF Passed
      <3>2. GatesPassed'
        BY <1>0, <2>1, <2>4, <3>1 DEF GatesPassed, Wrong
      <3> QED
        BY <1>0, <2>1, <2>3, <2>4, <3>2, PassedKeeps
    <2> QED
      BY <1>1, <2>1, <2>2, <2>4
  <1>9. CASE inspect_generated_target
    <2> DEFINE found == {"source_type_hash_valid"}
    <2>1. stage = "types" /\ UNCHANGED <<world, host>>
      BY <1>9 DEF inspect_generated_target
    <2>2. \/ Ended
          \/ Passed("package", found) /\ workspace' = workspace /\ ~Wrong("sourceType") /\ ~Wrong("targetType") /\ ~Wrong("eligible")
      BY <1>0, <1>9, <1>report, SMTT(30) DEF inspect_generated_target, rejected, Checks, AcceptanceChecks, ComparatorChecks, Judgements
    <2>3. found \in SUBSET Checks
      BY DEF Checks, AcceptanceChecks, ComparatorChecks
    <2> HIDE DEF found
    <2>4. ASSUME Passed("package", found), workspace' = workspace, ~Wrong("sourceType") /\ ~Wrong("targetType") /\ ~Wrong("eligible")
          PROVE  PipelineIInv'
      <3>1. stage' = "package"
        BY <2>4 DEF Passed
      <3>2. GatesPassed'
        BY <1>0, <2>1, <2>4, <3>1 DEF GatesPassed, Wrong
      <3> QED
        BY <1>0, <2>1, <2>3, <2>4, <3>2, PassedKeeps
    <2> QED
      BY <1>1, <2>1, <2>2, <2>4
  <1>10. CASE package_solution
    <2> DEFINE found == {}
    <2>1. stage = "package" /\ UNCHANGED <<world, host>>
      BY <1>10 DEF package_solution
    <2>2. \/ Ended
          \/ Passed("comparator", found) /\ workspace' = workspace
      BY <1>0, <1>10, <1>report, SMTT(30) DEF package_solution, rejected, Checks, AcceptanceChecks, ComparatorChecks, Judgements
    <2>3. found \in SUBSET Checks
      BY DEF Checks, AcceptanceChecks, ComparatorChecks
    <2> HIDE DEF found
    <2>4. ASSUME Passed("comparator", found), workspace' = workspace
          PROVE  PipelineIInv'
      <3>1. stage' = "comparator"
        BY <2>4 DEF Passed
      <3>2. GatesPassed'
        BY <1>0, <2>1, <2>4, <3>1 DEF GatesPassed, Wrong
      <3> QED
        BY <1>0, <2>1, <2>3, <2>4, <3>2, PassedKeeps
    <2> QED
      BY <1>1, <2>1, <2>2, <2>4
  <1> QED
    BY <1>2, <1>3, <1>4, <1>5, <1>6, <1>7, <1>8, <1>9, <1>10

\* The comparator judges only if it ended by itself.
LEMMA Judged ==
  ASSUME PipelineIInv, NEW result \in IF Wrong("tools") THEN {"missing"} ELSE run_process(world.comparatorEnds)
  PROVE  /\ rejection_reason(result) \in Judgements => world.comparatorEnds = "exits" /\ ~Wrong("tools")
         /\ result = "exit" => world.comparatorEnds = "exits" /\ ~Wrong("tools")
  <1>1. world.comparatorEnds \in {"exits", "crashes", "hangs", "holds"}
    BY DEF PipelineIInv, Worlds, Ends
  <1>2. CASE Wrong("tools")
    BY <1>2 DEF rejection_reason, Judgements
  <1>3. CASE ~Wrong("tools")
    BY <1>1, <1>3 DEF rejection_reason, run_process, Judgements
  <1> QED
    BY <1>2, <1>3

\* It finds a proof fine only if nothing is wrong with it.
LEMMA Fine ==
  ASSUME Verdict = "fine"
  PROVE  \A f \in {"builds", "statement", "axioms", "nanoda", "kernel"} : ~Wrong(f)
  <1> DEFINE steps == <<"builds", "statement", "axioms", "nanoda", "kernel">>
             failing == {i \in 1..5 : Wrong(steps[i])}
  <1>1. SUFFICES ASSUME NEW k \in 1 .. 5, Wrong(steps[k]) PROVE FALSE
    <2>1. \A f \in {"builds", "statement", "axioms", "nanoda", "kernel"} : \E i \in 1 .. 5 : f = steps[i]
      OBVIOUS
    <2> QED
      BY <2>1
  <1>2. \E i \in failing : \A j \in failing : i <= j
    <2>1. CASE Wrong(steps[1])
      BY <2>1
    <2>2. CASE ~Wrong(steps[1]) /\ Wrong(steps[2])
      BY <2>2
    <2>3. CASE ~Wrong(steps[1]) /\ ~Wrong(steps[2]) /\ Wrong(steps[3])
      BY <2>3
    <2>4. CASE ~Wrong(steps[1]) /\ ~Wrong(steps[2]) /\ ~Wrong(steps[3]) /\ Wrong(steps[4])
      BY <2>4
    <2>5. CASE ~Wrong(steps[1]) /\ ~Wrong(steps[2]) /\ ~Wrong(steps[3]) /\ ~Wrong(steps[4])
      BY <1>1, <2>5
    <2> QED
      BY <2>1, <2>2, <2>3, <2>4, <2>5
  <1>3. PICK i \in 1 .. 5 : Verdict = steps[i]
    BY <1>1, <1>2 DEF Verdict
  <1> QED
    BY <1>3

LEMMA ComparatorKeeps ==
  ASSUME PipelineIInv, run_comparator
  PROVE  PipelineIInv'
  <1> USE DEF PipelineIInv, PipelineTypeOK, GatesPassed, ReportOK, Underway, AfterLoading, AfterCommitment,
              AfterSandbox, InWorkspace, AfterChallenge, AfterInspection, AtCompare
  <1>1. PICK result \in IF Wrong("tools") THEN {"missing"} ELSE run_process(world.comparatorEnds) :
         IF result = "exit" /\ Verdict = "fine"
           THEN /\ checks' = checks \cup ComparatorChecks
                /\ report' = [accepted |-> TRUE, reason |-> "VERIFIED", checks |-> checks', exit |-> 0]
                /\ stage' = "cleanup"
           ELSE LET reason == rejection_reason(result)
                IN  rejectedWith(reason, checks \cup _failed_comparator_checks(reason), 1)
    BY DEF run_comparator
  <1>2. stage = "comparator" /\ UNCHANGED <<world, workspace, host>>
    BY DEF run_comparator
  <1>3. CASE result = "exit" /\ Verdict = "fine"
    <2>1. world.comparatorEnds = "exits" /\ ~Wrong("tools")
      BY <1>3, Judged
    <2>2. \A f \in Facts : Wrong(f) => f \in {"environment", "closure", "provenance", "sandbox"}
      BY <1>2, <1>3, <2>1, Fine DEF Facts, BundleFacts, TaskFacts, ProofFacts, MachineFacts
    <2>3. world.production => world.wrong \subseteq (IF world.v2 THEN {} ELSE {"environment", "closure", "provenance"})
      BY <1>2, <2>2 DEF Wrong
    <2>4. /\ checks' = checks \cup ComparatorChecks /\ stage' = "cleanup"
          /\ report' = [accepted |-> TRUE, reason |-> "VERIFIED", checks |-> checks', exit |-> 0]
      BY <1>1, <1>3
    <2>5. PipelineTypeOK'
      BY <1>2, <2>4 DEF ComparatorChecks, AcceptanceChecks
    <2>6. GatesPassed'
      BY <1>2, <2>4 DEF Wrong
    <2>7. ReportOK'
      BY <1>2, <2>1, <2>3, <2>4 DEF Judgements
    <2> QED
      BY <1>2, <2>4, <2>5, <2>6, <2>7
  <1>4. CASE ~(result = "exit" /\ Verdict = "fine")
    <2> DEFINE reason == rejection_reason(result)
               found == checks \cup _failed_comparator_checks(reason)
    <2>1. rejectedWith(reason, found, 1)
      BY <1>1, <1>4
    <2>2. found \in SUBSET Checks
      BY DEF _failed_comparator_checks, Checks, AcceptanceChecks, ComparatorChecks
    <2>3. reason \in Judgements => world.comparatorEnds = "exits" /\ ~Wrong("tools")
      BY Judged
    <2> HIDE DEF reason, found
    <2> QED
      BY <1>2, <2>1, <2>2, <2>3, ReportKeeps
  <1> QED
    BY <1>3, <1>4

LEMMA CleanupKeeps ==
  ASSUME PipelineIInv, cleanup_workspace
  PROVE  PipelineIInv'
  BY DEF PipelineIInv, PipelineTypeOK, GatesPassed, ReportOK, Underway, AfterLoading, AfterCommitment,
         AfterSandbox, InWorkspace, AfterChallenge, AfterInspection, AtCompare, Wrong, cleanup_workspace

\* The host writes down a report only as it is.
LEMMA HostKeeps ==
  ASSUME PipelineIInv, admit_proof_bundle \/ build_runner \/ start \/ _communicate \/ outer_bound \/ _kill
  PROVE  PipelineIInv'
  <1> USE DEF PipelineIInv, PipelineTypeOK, GatesPassed, ReportOK, Underway, AfterLoading, AfterCommitment,
              AfterSandbox, InWorkspace, AfterChallenge, AfterInspection, AtCompare, Wrong
  <1>1. CASE admit_proof_bundle
    BY <1>1 DEF admit_proof_bundle, load_proof_bundle
  <1>2. CASE build_runner
    BY <1>2 DEF build_runner
  <1>3. CASE start
    BY <1>3 DEF start
  <1>4. CASE _communicate
    <2>1. /\ host = "waiting" /\ stage \in {"reported", "error", "killed"} /\ UNCHANGED <<world, stage, checks, workspace, report>>
          /\ host' = "failure" \/ (host' = "accepted" /\ report.accepted) \/ host' = "rejected"
      BY <1>4 DEF _communicate
    <2> QED
      BY <2>1
  <1>5. CASE outer_bound
    BY <1>5 DEF outer_bound
  <1>6. CASE _kill
    BY <1>6 DEF _kill
  <1> QED
    BY <1>1, <1>2, <1>3, <1>4, <1>5, <1>6

LEMMA PipelineKeeps ==
  ASSUME PipelineIInv, [PipelineNext]_pipelineVars
  PROVE  PipelineIInv'
  <1>1. CASE UNCHANGED pipelineVars
    BY <1>1 DEF pipelineVars, PipelineIInv, PipelineTypeOK, GatesPassed, ReportOK, Wrong
  <1> QED
    BY <1>1, GateKeeps, ComparatorKeeps, CleanupKeeps, HostKeeps DEF PipelineNext, verify

\* What the gates have found in order stays so until the verdict.
THEOREM PipelineInductive == PipelineSpec => []PipelineIInv
  <1> QED
    BY PipelineStarts, PipelineKeeps, PTL DEF PipelineSpec

\* An accepted proof passed every gate of verify() and both kernels, a rejection was judged by tools that ended
\* by themselves, and no end of a run leaves the proof on disk, for any number of things that are wrong at once.
THEOREM PipelineVerdictsAreEarned == PipelineSpec => []VerdictsAreEarned
  <1>1. PipelineIInv => VerdictsAreEarned
    BY DEF PipelineIInv, VerdictsAreEarned, AcceptedWasChecked, UnjudgedIsNotRejected, NothingLeftBehind, Finished, ReportOK,
           InWorkspace, AfterChallenge, AfterInspection, AtCompare, Wrong, PipelineTypeOK, Judgements
  <1> QED
    BY <1>1, PipelineInductive, PTL

----------------------------------------------------------------------------
(* The competition: its queue and its intake.                              *)

RowType == [state : {Absent, "queued", "verifying", "accepted", "rejected", "error"}, attempts : Nat]
Gating == [at : {"gate"} \cup Verdicts, sub : Submissions, attempts : Nat]
Choosing == [at : {"choosing"}, sub : Submissions, attempts : Nat, seen : SUBSET Registrations]
Charging == [at : {"charging"}, sub : Submissions, attempts : Nat, reg : Registrations]
AtWork == Gating \cup Choosing \cup Charging

QueueTypes ==
    /\ table \in [Submissions -> RowType]
    /\ claims \subseteq Registrations \X Submissions
    /\ hand \in [Runners -> {AtRest} \cup AtWork]
    /\ turns \in [Runners -> 0 .. BackoffTurns]

\* The registrations a worker considers or has locked are its submission's hotkey's.
HotkeyInv ==
    \A w \in Runners :
        /\ At_(w, "choosing") => \A r \in hand[w].seen : RegisteredTo[r] = HotkeyOf[hand[w].sub]
        /\ At_(w, "charging") => RegisteredTo[hand[w].reg] = HotkeyOf[hand[w].sub]

\* A row in hand is being verified and in one hand, unless a claim was taken away.
HandsInv ==
    stolen \/ \A w \in Runners : hand[w] # AtRest =>
        /\ table[hand[w].sub].state = "verifying"
        /\ \A v \in Runners : hand[v] # AtRest /\ hand[v].sub = hand[w].sub => v = w

CompetitionIInv ==
    QueueTypes /\ HotkeyInv /\ HandsInv /\ ChargedOnce /\ AcceptedIsCharged /\ ChargedIffAcceptedUnlessStolen
-----------------------------------------------------------------------------
(* What a worker has in hand.                                              *)

LEMMA InHand ==
  ASSUME QueueTypes, NEW w \in Runners
  PROVE  /\ hand[w] = AtRest <=> At_(w, "idle")
         /\ hand[w] # AtRest => hand[w] \in AtWork /\ hand[w].sub \in Submissions /\ hand[w].attempts \in Nat
         /\ hand[w].at = "choosing" => hand[w] \in Choosing
         /\ hand[w].at = "charging" => hand[w] \in Charging
         /\ hand[w].at \in {"gate"} \cup Verdicts => hand[w] \in Gating
  <1>1. hand[w] = AtRest \/ hand[w] \in Gating \/ hand[w] \in Choosing \/ hand[w] \in Charging
    BY DEF QueueTypes, AtWork
  <1>2. CASE hand[w] = AtRest
    BY <1>2 DEF AtRest, At_, Verdicts
  <1>3. CASE hand[w] \in Gating
    BY <1>3 DEF AtRest, At_, Verdicts, Gating, AtWork
  <1>4. CASE hand[w] \in Choosing
    BY <1>4 DEF AtRest, At_, Verdicts, Choosing, AtWork
  <1>5. CASE hand[w] \in Charging
    BY <1>5 DEF AtRest, At_, Verdicts, Charging, AtWork
  <1> QED
    BY <1>1, <1>2, <1>3, <1>4, <1>5

\* A worker goes on with the row it has.
LEMMA HandGoesOn ==
  ASSUME CompetitionIInv, NEW w \in Runners, NEW rec \in AtWork,
         hand[w] # AtRest, rec.sub = hand[w].sub, hand' = [hand EXCEPT ![w] = rec],
         rec.at = "choosing" => \A r \in rec.seen : RegisteredTo[r] = HotkeyOf[rec.sub],
         rec.at = "charging" => RegisteredTo[rec.reg] = HotkeyOf[rec.sub],
         UNCHANGED <<table, claims, turns, stolen>>
  PROVE  CompetitionIInv'
  <1>1. /\ hand \in [Runners -> {AtRest} \cup AtWork] /\ hand' \in [Runners -> {AtRest} \cup AtWork]
        /\ hand'[w] = rec /\ \A v \in Runners : v # w => hand'[v] = hand[v]
    BY DEF CompetitionIInv, QueueTypes
  <1>2. QueueTypes'
    BY <1>1 DEF CompetitionIInv, QueueTypes, AtRest, AtWork, Gating, Choosing, Charging, RowType
  <1>3. HotkeyInv'
    BY <1>1 DEF CompetitionIInv, HotkeyInv, At_
  <1>4. HandsInv'
    <2>1. AtRest' = AtRest
      BY DEF AtRest
    <2> HIDE DEF AtRest
    <2> QED
      BY <1>1, <2>1 DEF CompetitionIInv, HandsInv
  <1>5. ChargedOnce' /\ AcceptedIsCharged' /\ ChargedIffAcceptedUnlessStolen'
    BY DEF CompetitionIInv, ChargedOnce, AcceptedIsCharged, ChargedIffAcceptedUnlessStolen, ChargedIffAccepted
  <1> QED
    BY <1>2, <1>3, <1>4, <1>5 DEF CompetitionIInv

\* A worker lets its row go, and the row is as it was or without a verdict in its favour.
LEMMA RowLetGo ==
  ASSUME CompetitionIInv, NEW w \in Runners, hand[w] # AtRest, hand' = [hand EXCEPT ![w] = AtRest],
         \/ table' = table
         \/ \E st \in {"queued", "rejected", "error"} : Set(hand[w].sub, st),
         turns' \in [Runners -> 0 .. BackoffTurns], UNCHANGED <<claims, stolen>>
  PROVE  CompetitionIInv'
  <1> DEFINE s == hand[w].sub
  <1>1. /\ hand \in [Runners -> {AtRest} \cup AtWork] /\ hand' \in [Runners -> {AtRest} \cup AtWork]
        /\ hand'[w] = AtRest /\ \A v \in Runners : v # w => hand'[v] = hand[v]
        /\ s \in Submissions
    BY InHand DEF CompetitionIInv, QueueTypes
  <1>2. /\ table' \in [Submissions -> RowType]
        /\ table'[s].state = table[s].state \/ table'[s].state \in {"queued", "rejected", "error"}
        /\ \A t \in Submissions : t # s => table'[t] = table[t]
    BY <1>1 DEF CompetitionIInv, QueueTypes, Set, RowType
  <1> HIDE DEF s
  <1>3. QueueTypes'
    BY <1>1, <1>2 DEF CompetitionIInv, QueueTypes, AtRest, AtWork, Gating, Choosing, Charging, RowType
  <1>4. HotkeyInv'
    BY <1>1 DEF CompetitionIInv, HotkeyInv, At_, AtRest
  <1>5. HandsInv'
    <2>1. AtRest' = AtRest
      BY DEF AtRest
    <2>2. \A v \in Runners : hand[v] # AtRest => hand[v].sub \in Submissions
      BY InHand DEF CompetitionIInv
    <2> HIDE DEF AtRest
    <2> QED
      BY <1>1, <1>2, <2>1, <2>2 DEF CompetitionIInv, HandsInv, s
  <1>6. ChargedOnce'
    BY DEF CompetitionIInv, ChargedOnce
  <1>7. AcceptedIsCharged'
    BY <1>1, <1>2 DEF CompetitionIInv, AcceptedIsCharged
  <1>8. ChargedIffAcceptedUnlessStolen'
    <2>1. stolen \/ table[s].state = "verifying"
      BY DEF CompetitionIInv, HandsInv, s
    <2>2. \A c \in claims : c[2] \in Submissions
      BY DEF CompetitionIInv, QueueTypes
    <2> QED
      BY <1>1, <1>2, <2>1, <2>2 DEF CompetitionIInv, ChargedIffAcceptedUnlessStolen, ChargedIffAccepted
  <1> QED
    BY <1>3, <1>4, <1>5, <1>6, <1>7, <1>8 DEF CompetitionIInv

\* Rows that nobody has, or that are taken away, are queued.
LEMMA RowsQueued ==
  ASSUME CompetitionIInv, table' \in [Submissions -> RowType],
         \A s \in Submissions : table'[s] # table[s] =>
             /\ table[s].state # "accepted" /\ table'[s].state = "queued"
             /\ stolen' \/ \A w \in Runners : hand[w] # AtRest => hand[w].sub # s,
         stolen => stolen', UNCHANGED <<claims, hand, turns>>
  PROVE  CompetitionIInv'
  <1>1. QueueTypes'
    BY DEF CompetitionIInv, QueueTypes, AtRest, AtWork, Gating, Choosing, Charging, RowType
  <1>2. HotkeyInv'
    BY DEF CompetitionIInv, HotkeyInv, At_
  <1>3. HandsInv'
    <2>1. AtRest' = AtRest
      BY DEF AtRest
    <2>2. \A v \in Runners : hand[v] # AtRest => hand[v].sub \in Submissions
      BY InHand DEF CompetitionIInv
    <2> HIDE DEF AtRest
    <2> QED
      BY <2>1, <2>2 DEF CompetitionIInv, HandsInv
  <1>4. ChargedOnce'
    BY DEF CompetitionIInv, ChargedOnce
  <1>5. AcceptedIsCharged'
    BY DEF CompetitionIInv, AcceptedIsCharged
  <1>6. ChargedIffAcceptedUnlessStolen'
    <2>1. \A c \in claims : c[2] \in Submissions
      BY DEF CompetitionIInv, QueueTypes
    <2> QED
      BY <2>1 DEF CompetitionIInv, ChargedIffAcceptedUnlessStolen, ChargedIffAccepted
  <1> QED
    BY <1>1, <1>2, <1>3, <1>4, <1>5, <1>6 DEF CompetitionIInv

\* A queued row is in nobody's hand, so the claim is the only one.
LEMMA ClaimNextKeeps ==
  ASSUME CompetitionIInv, NEW w \in Runners, claim_next(w)
  PROVE  CompetitionIInv'
  <1>1. PICK s \in Submissions :
            /\ table[s].state = "queued"
            /\ table' = [table EXCEPT ![s] = [state |-> "verifying", attempts |-> @.attempts + 1]]
            /\ hand' = [hand EXCEPT ![w] = [at |-> "gate", sub |-> s, attempts |-> table[s].attempts + 1]]
            /\ UNCHANGED <<claims, turns, stolen>>
    BY DEF claim_next, Claimable
  <1> DEFINE rec == [at |-> "gate", sub |-> s, attempts |-> table[s].attempts + 1]
  <1>2. hand[w] = AtRest
    BY InHand DEF CompetitionIInv, claim_next
  <1>3. /\ table' \in [Submissions -> RowType] /\ table'[s].state = "verifying"
        /\ \A t \in Submissions : t # s => table'[t] = table[t]
    BY <1>1 DEF CompetitionIInv, QueueTypes, RowType
  <1>4. rec \in AtWork /\ rec.sub = s /\ rec.at = "gate" /\ rec # AtRest
    BY DEF CompetitionIInv, QueueTypes, RowType, AtWork, Gating, AtRest
  <1> HIDE DEF rec
  <1>5. /\ hand' \in [Runners -> {AtRest} \cup AtWork] /\ hand'[w] = rec
        /\ \A v \in Runners : v # w => hand'[v] = hand[v]
    BY <1>1, <1>4 DEF CompetitionIInv, QueueTypes, rec
  <1>6. QueueTypes'
    BY <1>1, <1>3, <1>5 DEF CompetitionIInv, QueueTypes, AtRest, AtWork, Gating, Choosing, Charging, RowType
  <1>7. HotkeyInv'
    BY <1>4, <1>5 DEF CompetitionIInv, HotkeyInv, At_
  <1>8. HandsInv'
    <2>1. AtRest' = AtRest
      BY DEF AtRest
    <2>2. \A v \in Runners : hand[v] # AtRest => hand[v].sub \in Submissions
      BY InHand DEF CompetitionIInv
    <2>3. stolen \/ \A v \in Runners : hand[v] # AtRest => hand[v].sub # s
      BY <1>1 DEF CompetitionIInv, HandsInv
    <2> HIDE DEF AtRest
    <2> QED
      BY <1>1, <1>2, <1>3, <1>4, <1>5, <2>1, <2>2, <2>3 DEF CompetitionIInv, HandsInv
  <1>9. ChargedOnce'
    BY <1>1 DEF CompetitionIInv, ChargedOnce
  <1>10. AcceptedIsCharged'
    BY <1>1, <1>3 DEF CompetitionIInv, AcceptedIsCharged
  <1>11. ChargedIffAcceptedUnlessStolen'
    <2>1. \A c \in claims : c[2] \in Submissions
      BY DEF CompetitionIInv, QueueTypes
    <2> QED
      BY <1>1, <1>3, <2>1 DEF CompetitionIInv, ChargedIffAcceptedUnlessStolen, ChargedIffAccepted
  <1> QED
    BY <1>6, <1>7, <1>8, <1>9, <1>10, <1>11 DEF CompetitionIInv

\* The claim and the acceptance are committed together, and the keys keep claims apart.
LEMMA ChargeKeeps ==
  ASSUME CompetitionIInv, NEW w \in Runners, charge(w), claims' # claims
  PROVE  CompetitionIInv'
  <1> DEFINE s == hand[w].sub
             r == hand[w].reg
  <1>1. /\ At_(w, "charging") /\ ClaimFits(r, s) /\ claims' = claims \cup {<<r, s>>}
        /\ Set(s, "accepted") /\ hand' = [hand EXCEPT ![w] = AtRest] /\ UNCHANGED <<turns, stolen>>
    BY DEF charge
  <1>2. /\ s \in Submissions /\ r \in Registrations /\ hand[w] # AtRest
        /\ RegisteredTo[r] = HotkeyOf[s]
    BY <1>1, InHand DEF CompetitionIInv, HotkeyInv, At_, Charging, AtRest
  <1>3. /\ hand' \in [Runners -> {AtRest} \cup AtWork]
        /\ hand'[w] = AtRest /\ \A v \in Runners : v # w => hand'[v] = hand[v]
    BY <1>1 DEF CompetitionIInv, QueueTypes
  <1>4. /\ table' \in [Submissions -> RowType] /\ table'[s].state = "accepted"
        /\ \A t \in Submissions : t # s => table'[t] = table[t]
    BY <1>1, <1>2 DEF CompetitionIInv, QueueTypes, Set, RowType
  <1>5. <<r, s>> \in Registrations \X Submissions /\ <<r, s>>[1] = r /\ <<r, s>>[2] = s
    BY <1>2
  <1>6. \A c \in claims : c[1] # r /\ c[2] # s
    BY <1>1 DEF ClaimFits
  <1>7. HandsInv'
    <2>1. AtRest' = AtRest
      BY DEF AtRest
    <2>2. \A v \in Runners : hand[v] # AtRest => hand[v].sub \in Submissions
      BY InHand DEF CompetitionIInv
    <2> HIDE DEF AtRest
    <2> QED
      BY <1>1, <1>2, <1>3, <1>4, <2>1, <2>2 DEF CompetitionIInv, HandsInv
  <1> HIDE DEF r, s
  <1>8. QueueTypes'
    BY <1>1, <1>3, <1>4, <1>5 DEF CompetitionIInv, QueueTypes, AtRest, AtWork, Gating, Choosing, Charging, RowType
  <1>9. HotkeyInv'
    BY <1>3 DEF CompetitionIInv, HotkeyInv, At_, AtRest
  <1>10. ChargedOnce'
    <2>1. \A c, d \in claims : c[1] = d[1] \/ c[2] = d[2] => c = d
      BY DEF CompetitionIInv, ChargedOnce
    <2>2. SUFFICES ASSUME NEW c \in claims', NEW d \in claims', c[1] = d[1] \/ c[2] = d[2] PROVE c = d
      BY DEF ChargedOnce
    <2>3. (c \in claims \/ c = <<r, s>>) /\ (d \in claims \/ d = <<r, s>>)
      BY <1>1, <2>2
    <2> QED
      BY <1>5, <1>6, <2>1, <2>2, <2>3
  <1>11. AcceptedIsCharged'
    <2>1. \A t \in Submissions : table'[t].state = "accepted" => t = s \/ table[t].state = "accepted"
      BY <1>4
    <2>2. claims \subseteq claims' /\ <<r, s>> \in claims' /\ \A c \in claims' : c \in claims \/ c = <<r, s>>
      BY <1>1
    <2> QED
      BY <1>2, <1>5, <2>1, <2>2 DEF CompetitionIInv, AcceptedIsCharged
  <1>12. ChargedIffAcceptedUnlessStolen'
    <2>1. \A c \in claims : c[2] \in Submissions
      BY DEF CompetitionIInv, QueueTypes
    <2>2. stolen \/ \A c \in claims : table[c[2]].state = "accepted"
      BY DEF CompetitionIInv, ChargedIffAcceptedUnlessStolen, ChargedIffAccepted
    <2>3. \A c \in claims : table'[c[2]] = table[c[2]]
      BY <1>4, <1>6, <2>1
    <2>4. \A c \in claims' : c \in claims \/ c = <<r, s>>
      BY <1>1
    <2> QED
      BY <1>1, <1>4, <1>5, <2>2, <2>3, <2>4 DEF ChargedIffAcceptedUnlessStolen, ChargedIffAccepted
  <1> QED
    BY <1>7, <1>8, <1>9, <1>10, <1>11, <1>12 DEF CompetitionIInv
-----------------------------------------------------------------------------
(* The actions.                                                            *)

\* The steps of a worker that has a row.
LEMMA VerifyOneKeeps ==
  ASSUME CompetitionIInv, NEW w \in Runners, verify_one(w)
  PROVE  CompetitionIInv'
  <1>0. /\ hand \in [Runners -> {AtRest} \cup AtWork] /\ turns \in [Runners -> 0 .. BackoffTurns]
        /\ BackoffTurns \in 0 .. BackoffTurns
        /\ hand[w] # AtRest => hand[w] \in AtWork /\ hand[w].sub \in Submissions /\ hand[w].attempts \in Nat
        /\ hand[w].at \in {"gate"} \cup Verdicts => hand[w] \in Gating
        /\ hand[w].at = "choosing" => hand[w] \in Choosing
        /\ hand[w].at = "charging" => hand[w] \in Charging
        /\ AtRest.at = "idle"
    BY InHand, CompetitionAssumption DEF CompetitionIInv, QueueTypes, AtRest
  <1>1. CASE run_gate(w)
    <2>1. PICK v \in Verdicts : hand' = [hand EXCEPT ![w] = [@ EXCEPT !.at = v]]
      BY <1>1 DEF run_gate
    <2> DEFINE rec == [hand[w] EXCEPT !.at = v]
    <2>2. hand[w] \in Gating /\ hand[w] # AtRest
      BY <1>0, <1>1 DEF run_gate, At_
    <2>3. rec \in Gating /\ rec.sub = hand[w].sub /\ rec.at = v
      BY <2>2 DEF Gating
    <2>4. hand' = [hand EXCEPT ![w] = rec]
      BY <2>1
    <2>5. UNCHANGED <<table, claims, turns, stolen>>
      BY <1>1 DEF run_gate
    <2>6. v # "choosing" /\ v # "charging"
      BY DEF Verdicts
    <2> HIDE DEF rec
    <2> QED
      BY <2>2, <2>3, <2>4, <2>5, <2>6, HandGoesOn DEF AtWork
  <1>2. CASE gate_cannot_run(w)
    BY <1>0, <1>2, RowLetGo DEF gate_cannot_run, Raised, At_
  <1>3. CASE abandon(w)
    BY <1>0, <1>3, RowLetGo DEF abandon, At_
  <1>4. CASE _gate_failed(w)
    BY <1>0, <1>4, RowLetGo DEF _gate_failed, Raised, At_
  <1>5. CASE finish_rejected(w)
    BY <1>0, <1>5, RowLetGo DEF finish_rejected, At_
  <1>6. CASE finish_accepted(w)
    <2> DEFINE rec == [at |-> "choosing", sub |-> hand[w].sub, attempts |-> hand[w].attempts,
                       seen |-> Unclaimed(HotkeyOf[hand[w].sub])]
    <2>1. /\ hand' = [hand EXCEPT ![w] = rec] /\ hand[w] # AtRest
          /\ UNCHANGED <<table, claims, turns, stolen>>
      BY <1>0, <1>6 DEF finish_accepted, At_
    <2>2. Unclaimed(HotkeyOf[hand[w].sub]) \in SUBSET {x \in Registrations : RegisteredTo[x] = HotkeyOf[hand[w].sub]}
      BY DEF Unclaimed
    <2>3. /\ rec \in AtWork /\ rec.sub = hand[w].sub /\ rec.at = "choosing"
          /\ \A x \in rec.seen : RegisteredTo[x] = HotkeyOf[rec.sub]
      BY <1>0, <2>1, <2>2 DEF AtWork, Choosing
    <2> HIDE DEF rec
    <2> QED
      BY <2>1, <2>3, HandGoesOn
  <1>7. CASE claim_slot(w)
    <2>1. /\ hand[w] \in Choosing /\ hand[w] # AtRest
          /\ \A x \in hand[w].seen : RegisteredTo[x] = HotkeyOf[hand[w].sub]
      BY <1>0, <1>7 DEF claim_slot, At_, CompetitionIInv, HotkeyInv
    <2>2. PICK x \in hand[w].seen :
              hand' = [hand EXCEPT ![w] = [at |-> "charging", sub |-> hand[w].sub, attempts |-> hand[w].attempts, reg |-> x]]
      BY <1>7 DEF claim_slot, Lockable
    <2> DEFINE rec == [at |-> "charging", sub |-> hand[w].sub, attempts |-> hand[w].attempts, reg |-> x]
    <2>3. rec \in AtWork /\ rec.sub = hand[w].sub /\ rec.at = "charging" /\ rec.reg = x
      BY <2>1 DEF AtWork, Charging, Choosing
    <2>4. UNCHANGED <<table, claims, turns, stolen>>
      BY <1>7 DEF claim_slot
    <2>5. hand' = [hand EXCEPT ![w] = rec]
      BY <2>2
    <2> HIDE DEF rec
    <2> QED
      BY <2>1, <2>3, <2>4, <2>5, HandGoesOn
  <1>8. CASE no_slot(w)
    BY <1>0, <1>8, RowLetGo DEF no_slot, At_
  <1>9. CASE charge(w)
    <2>1. CASE claims' = claims
      <3>1. /\ hand[w] # AtRest /\ hand' = [hand EXCEPT ![w] = AtRest] /\ UNCHANGED <<claims, turns, stolen>>
            /\ table' = table
        <4>1. ~(/\ ClaimFits(hand[w].reg, hand[w].sub)
                /\ claims' = claims \cup {<<hand[w].reg, hand[w].sub>>})
          <5> SUFFICES ASSUME ClaimFits(hand[w].reg, hand[w].sub), <<hand[w].reg, hand[w].sub>> \in claims
                       PROVE  FALSE
            BY <2>1
          <5>1. <<hand[w].reg, hand[w].sub>>[1] = hand[w].reg
            OBVIOUS
          <5> QED
            BY ONLY <5>1, ClaimFits(hand[w].reg, hand[w].sub), <<hand[w].reg, hand[w].sub>> \in claims DEF ClaimFits
        <4> QED
          BY <1>0, <1>9, <2>1, <4>1 DEF charge, At_, Raised
      <3> QED
        BY <1>0, <3>1, RowLetGo
    <2> QED
      BY <1>9, <2>1, ChargeKeeps
  <1> QED
    BY <1>1, <1>2, <1>3, <1>4, <1>5, <1>6, <1>7, <1>8, <1>9 DEF verify_one

LEMMA RequeueKeeps ==
  ASSUME CompetitionIInv, requeue_stale \/ \E s \in Submissions : add(s) \/ requeue_submission(s)
  PROVE  CompetitionIInv'
  <1>0. /\ table \in [Submissions -> RowType]
        /\ \A s \in Submissions : HeldBy(s) = {} => \A w \in Runners : hand[w] # AtRest => hand[w].sub # s
    BY InHand DEF CompetitionIInv, QueueTypes, HeldBy
  <1>1. CASE requeue_stale
    <2>1. PICK S \in SUBSET {s \in Submissions : table[s].state = "verifying" /\ HeldBy(s) = {}} :
              table' = [s \in Submissions |-> IF s \in S THEN [table[s] EXCEPT !.state = "queued"] ELSE table[s]]
      BY <1>1 DEF requeue_stale
    <2>2. /\ table' \in [Submissions -> RowType]
          /\ \A s \in Submissions : table'[s] # table[s] =>
                 table[s].state = "verifying" /\ table'[s].state = "queued" /\ HeldBy(s) = {}
      BY <1>0, <2>1 DEF RowType
    <2> QED
      BY <1>0, <1>1, <2>2, RowsQueued DEF requeue_stale
  <1>2. ASSUME NEW s \in Submissions, add(s) PROVE CompetitionIInv'
    <2>1. table[s].state = Absent /\ table' = [table EXCEPT ![s].state = "queued"]
          /\ UNCHANGED <<claims, hand, turns, stolen>>
      BY <1>2 DEF add
    <2>2. /\ table' \in [Submissions -> RowType] /\ table'[s].state = "queued"
          /\ \A t \in Submissions : t # s => table'[t] = table[t]
      BY <1>0, <2>1 DEF RowType
    <2>3. stolen \/ \A w \in Runners : hand[w] # AtRest => hand[w].sub # s
      BY <2>1 DEF CompetitionIInv, HandsInv, Absent
    <2> QED
      BY <2>1, <2>2, <2>3, RowsQueued DEF Absent
  <1>3. ASSUME NEW s \in Submissions, requeue_submission(s) PROVE CompetitionIInv'
    <2>1. /\ table[s].state \in {"error", "verifying"} /\ stolen' = (stolen \/ HeldBy(s) # {})
          /\ table' = [table EXCEPT ![s] = [state |-> "queued", attempts |-> 0]]
          /\ UNCHANGED <<claims, hand, turns>>
      BY <1>3 DEF requeue_submission
    <2>2. /\ table' \in [Submissions -> RowType] /\ table'[s].state = "queued"
          /\ \A t \in Submissions : t # s => table'[t] = table[t]
      BY <1>0, <2>1 DEF RowType
    <2>3. (stolen => stolen') /\ (stolen' \/ \A w \in Runners : hand[w] # AtRest => hand[w].sub # s)
      BY <1>0, <2>1
    <2> QED
      BY <2>1, <2>2, <2>3, RowsQueued
  <1> QED
    BY <1>1, <1>2, <1>3

LEMMA CompetitionUnchanged ==
  CompetitionIInv /\ UNCHANGED <<table, claims, hand, stolen>> /\ turns' \in [Runners -> 0 .. BackoffTurns]
      => CompetitionIInv'
  <1> SUFFICES ASSUME CompetitionIInv, UNCHANGED <<table, claims, hand, stolen>>,
                      turns' \in [Runners -> 0 .. BackoffTurns]
               PROVE  CompetitionIInv'
    OBVIOUS
  <1>1. QueueTypes'
    BY DEF CompetitionIInv, QueueTypes, RowType, AtWork, Gating, Choosing, Charging
  <1> QED
    BY <1>1 DEF CompetitionIInv, HotkeyInv, HandsInv, ChargedOnce, AcceptedIsCharged,
                ChargedIffAcceptedUnlessStolen, ChargedIffAccepted, At_

LEMMA CompetitionInitHolds == CompetitionInit => CompetitionIInv
  BY CompetitionAssumption
     DEF CompetitionInit, CompetitionIInv, QueueTypes, RowType, AtRest, HotkeyInv, HandsInv, ChargedOnce,
         AcceptedIsCharged, ChargedIffAcceptedUnlessStolen, ChargedIffAccepted, At_, Absent

LEMMA CompetitionStepKeeps == CompetitionIInv /\ [CompetitionNext]_competitionVars => CompetitionIInv'
  <1> SUFFICES ASSUME CompetitionIInv, [CompetitionNext]_competitionVars PROVE CompetitionIInv'
    OBVIOUS
  <1>0. turns \in [Runners -> 0 .. BackoffTurns] /\ BackoffTurns \in Nat \ {0}
    BY CompetitionAssumption DEF CompetitionIInv, QueueTypes
  <1>1. CASE requeue_stale \/ \E s \in Submissions : add(s) \/ requeue_submission(s)
    BY <1>1, RequeueKeeps
  <1>2. ASSUME NEW w \in Runners, tick(w) PROVE CompetitionIInv'
    <2>1. turns' \in [Runners -> 0 .. BackoffTurns] /\ UNCHANGED <<table, claims, hand, stolen>>
      BY <1>0, <1>2 DEF tick
    <2> QED
      BY <2>1, CompetitionUnchanged
  <1>3. ASSUME NEW w \in Runners, drain_queue(w) PROVE CompetitionIInv'
    <2>1. CASE nothing_queued(w)
      BY <1>0, <2>1, CompetitionUnchanged DEF nothing_queued
    <2> QED
      BY <1>3, <2>1, ClaimNextKeeps, VerifyOneKeeps DEF drain_queue
  <1>4. ASSUME NEW w \in Runners, WorkerDies(w) PROVE CompetitionIInv'
    <2>1. /\ hand[w] # AtRest /\ hand' = [hand EXCEPT ![w] = AtRest] /\ table' = table
          /\ turns' = [turns EXCEPT ![w] = 0] /\ UNCHANGED <<claims, stolen>>
      BY <1>4, InHand DEF WorkerDies, Raised, CompetitionIInv
    <2>2. turns' \in [Runners -> 0 .. BackoffTurns]
      BY <1>0, <2>1
    <2> QED
      BY <2>1, <2>2, RowLetGo
  <1>5. CASE UNCHANGED competitionVars
    BY <1>0, <1>5, CompetitionUnchanged DEF competitionVars
  <1> QED
    BY <1>1, <1>2, <1>3, <1>4, <1>5 DEF CompetitionNext, run_forever

\* Rows, hands and charges agree in every reachable state.
THEOREM CompetitionInductive == CompetitionSpec => []CompetitionIInv
  BY CompetitionInitHolds, CompetitionStepKeeps, PTL DEF CompetitionSpec

\* Safety.  A registration buys one accepted submission of its own hotkey, a submission is charged once,
\* and charges and acceptances are one fact unless the operator took a claim from a worker at work, for
\* any number of workers and rows (claim_slot, finish, abandon, requeue).
THEOREM CompetitionChargesMatch == CompetitionSpec => []ChargesMatch
  <1>1. CompetitionIInv => ChargesMatch
    BY DEF CompetitionIInv, QueueTypes, RowType, ChargesMatch, CompetitionTypeOK
  <1> QED
    BY <1>1, CompetitionInductive, PTL
-----------------------------------------------------------------------------
Registration == [uid : Uids, hot : Miners, block : Nat \ {0}]
Tenant == {Vacant} \cup [hot : Miners, block : Nat \ {0}]
Keys == [Uids -> Tenant]
ReadingCalls == [at : {"read"}, head : Nat, keys : Keys, times : SUBSET Nat]
Counted == [at : {"slots"}, hot : Miners, digest : Digests, slots : Nat]
Asking == [at : {"eligible"}, hot : Miners, digest : Digests, reg : Registration]
Admitted == [at : {"insert"}, hot : Miners, digest : Digests, reg : Registration, by : {"check", "cutoff"}]
Entering == [at : {"insert"}, hot : Miners, digest : Digests, reg : Registration]
Ended == [at |-> "end"]
Upload == [hot : Miners, digest : Digests, state : {"pending", "accepted", "rejected"}, at : Nat]
FloatUpload == [hot : Miners, digest : Digests, at : Nat, reg : Registration, by : {"check", "cutoff"}]

IntakeTypes ==
    /\ height \in Nat /\ holder \in Keys
    /\ watcher \in [RegistrationWatchers -> {Waiting} \cup ReadingCalls]
    /\ \A r \in rows : r \in Registration
    /\ \A s \in uploads : s \in Upload
    /\ \A s \in floats : s \in FloatUpload
    /\ call \in [Calls -> {Waiting, Ended} \cup Counted \cup Asking \cup Admitted \cup Entering]
    /\ open \in {"deflate", "floatlib", "torchlean"} /\ raced \in BOOLEAN

\* The registrations that keys, and all that is remembered of the chain, tell of.
Told(keys) == {[uid |-> u, hot |-> keys[u].hot, block |-> keys[u].block] : u \in {v \in Uids : keys[v] # Vacant}}
Remembered ==
    rows \cup Told(holder) \cup UNION {Told(watcher[w].keys) : w \in {v \in RegistrationWatchers : watcher[v].at = "read"}}

\* Each block has one registration, and who registered to a uid last holds it.
OneEventPerBlock ==
    /\ \A f \in Remembered : f.block <= height /\ f.block <= holder[f.uid].block
    /\ \A f, g \in Remembered : f.block = g.block => f = g

\* The lock keeps the requests of a hotkey apart, for TorchLean all requests.
CallsAreApart ==
    \A c, d \in Calls : LiveRows(c) /\ LiveRows(d) /\ c # d => call[c].hot # call[d].hot /\ open # "torchlean"

UnusedSince(uploaded, h, row) == \A s \in uploaded : s.hot = h => s.at < Dated(row)

\* What a request q has read is still so.
StillSo(q) ==
    /\ q.at = "slots" => open = "deflate" /\ (raced \/ q.slots <= Cardinality(Unspent(q.hot)))
    /\ q.at = "eligible" =>
          open = "floatlib" /\ q.reg \in Of(q.hot) /\ UnusedSince(floats, q.hot, q.reg)
    /\ q.at = "insert" => open # "deflate"
    /\ q.at = "insert" /\ open = "floatlib" =>
          /\ q \in Admitted /\ q.reg \in Of(q.hot) /\ UnusedSince(floats, q.hot, q.reg)
          /\ q.by = "check" => UnusedSince(uploads, q.hot, q.reg)

CallInv == \A c \in Calls : StillSo(call[c])

\* A FloatLib upload was made after the registration that admitted it, and none before that intake opened.
FloatInv ==
    /\ \A s \in floats : s.reg \in Of(s.hot) /\ Dated(s.reg) <= s.at
    /\ open = "deflate" => floats = {}

IntakeIInv ==
    /\ IntakeTypes /\ OneEventPerBlock /\ CallsAreApart /\ CallInv /\ FloatInv /\ IsFiniteSet(uploads)
    /\ PendingIsCoveredUnlessRaced /\ RegistrationAdmitsOnce /\ CheckedWasUnused
-----------------------------------------------------------------------------
(* Counting registrations.                                                 *)

\* A block has one registration, so there are finitely many.
LEMMA EventsAreFinite ==
  ASSUME NEW events, NEW top \in Nat, \A r \in events : r.block \in 1..top,
         \A r, q \in events : r.block = q.block => r = q
  PROVE  IsFiniteSet(events)
  <1> DEFINE blockOf == [r \in events |-> r.block]
  <1>1. IsFiniteSet(1..top)
    BY FS_Interval
  <1>2. blockOf \in Injection(events, 1..top)
    BY DEF Injection, IsInjective
  <1> QED
    BY <1>1, <1>2, FS_Injection

LEMMA RowsAreFinite ==
  ASSUME IntakeTypes, OneEventPerBlock
  PROVE  IsFiniteSet(rows)
  <1>1. \A r \in rows : r.block \in 1..height
    BY DEF IntakeTypes, OneEventPerBlock, Remembered, Registration
  <1>2. \A r, q \in rows : r.block = q.block => r = q
    BY DEF OneEventPerBlock, Remembered
  <1> QED
    BY <1>1, <1>2, EventsAreFinite DEF IntakeTypes

LEMMA UnspentIsFinite ==
  ASSUME IntakeTypes, OneEventPerBlock, NEW h
  PROVE  IsFiniteSet(Unspent(h)) /\ Cardinality(Unspent(h)) \in Nat
  <1>1. IsFiniteSet(rows)
    BY RowsAreFinite
  <1>2. Unspent(h) \in SUBSET rows
    BY DEF Unspent, Of
  <1> QED
    BY <1>1, <1>2, FS_Subset, FS_CardinalityType

LEMMA QueueIsFinite ==
  ASSUME IsFiniteSet(uploads), NEW h
  PROVE  IsFiniteSet(InQueue(h)) /\ Cardinality(InQueue(h)) \in Nat
  <1>1. InQueue(h) \in SUBSET uploads
    BY DEF InQueue
  <1> QED
    BY <1>1, FS_Subset, FS_CardinalityType

\* The latest of a hotkey's registrations is one of them.
LEMMA LatestIsOwn ==
  ASSUME IntakeTypes, OneEventPerBlock, NEW h, Of(h) # {}
  PROVE  Latest(h) \in Of(h)
  <1> DEFINE ago == {n \in Nat : \E r \in Of(h) : n = height - r.block}
  <1>1. \A r \in Of(h) : r \in Registration /\ r.block <= height /\ height - r.block \in Nat
    BY DEF IntakeTypes, OneEventPerBlock, Remembered, Of, Registration
  <1>2. ago # {} /\ ago \subseteq Nat
    BY <1>1
  <1> HIDE DEF ago
  <1>3. PICK n \in ago : \A m \in ago : ~(<<m, n>> \in OpToRel(<, Nat))
    BY <1>2, NatLessThanWellFounded, WFMin
  <1>4. \A m \in ago : n <= m
    <2>1. SUFFICES ASSUME NEW m \in ago, m < n PROVE FALSE
      BY <1>2
    <2>2. n \in Nat /\ m \in Nat
      BY <1>2
    <2>3. <<m, n>> \in OpToRel(<, Nat)
      BY <2>1, <2>2 DEF OpToRel
    <2> QED
      BY <1>3, <2>3
  <1>5. PICK r \in Of(h) : n = height - r.block
    BY <1>3 DEF ago
  <1>6. \A q \in Of(h) : q.block <= r.block
    <2>1. SUFFICES ASSUME NEW q \in Of(h) PROVE q.block <= r.block
      OBVIOUS
    <2>2. height - q.block \in ago
      BY <1>1 DEF ago
    <2> QED
      BY <1>1, <1>4, <1>5, <2>2 DEF IntakeTypes, Registration
  <1> QED
    BY <1>6 DEF Latest
-----------------------------------------------------------------------------
(* The chain and the watcher.                                              *)

LEMMA NothingNewIsToldOf ==
  ASSUME IntakeTypes, OneEventPerBlock, Remembered' \subseteq Remembered, UNCHANGED <<height, holder>>
  PROVE  OneEventPerBlock'
  BY DEF OneEventPerBlock

LEMMA ToldTypes ==
  ASSUME NEW keys \in Keys
  PROVE  Told(keys) \subseteq Registration
  <1>1. \A u \in Uids : keys[u] # Vacant => keys[u].hot \in Miners /\ keys[u].block \in Nat \ {0}
    BY DEF Keys, Tenant
  <1> QED
    BY <1>1 DEF Told, Registration

\* What the requests rely on, but for the chain.
LEMMA ChainMovesOn ==
  ASSUME IntakeIInv, height' \in Nat, holder' \in Keys,
         watcher' \in [RegistrationWatchers -> {Waiting} \cup ReadingCalls], OneEventPerBlock',
         UNCHANGED <<rows, uploads, spent, floats, torches, call, open, raced>>
  PROVE  IntakeIInv'
  <1>1. IntakeTypes'
    BY DEF IntakeIInv, IntakeTypes
  <1>2. \A h : Of(h)' = Of(h) /\ Unspent(h)' = Unspent(h) /\ InQueue(h)' = InQueue(h)
    BY DEF Of, Unspent, InQueue
  <1>3. CallsAreApart'
    BY DEF IntakeIInv, CallsAreApart, LiveRows
  <1>4. CallInv'
    BY <1>2 DEF IntakeIInv, CallInv, StillSo, UnusedSince, Dated
  <1>5. FloatInv'
    BY <1>2 DEF IntakeIInv, FloatInv, Dated
  <1>6. PendingIsCoveredUnlessRaced'
    BY <1>2 DEF IntakeIInv, PendingIsCoveredUnlessRaced, PendingIsCovered
  <1>7. RegistrationAdmitsOnce' /\ CheckedWasUnused' /\ IsFiniteSet(uploads')
    BY DEF IntakeIInv, RegistrationAdmitsOnce, CheckedWasUnused, Dated
  <1> QED
    BY <1>1, <1>3, <1>4, <1>5, <1>6, <1>7 DEF IntakeIInv

LEMMA RegisterStep ==
  ASSUME IntakeIInv, NEW u \in Uids, NEW h \in Miners, Register(u, h)
  PROVE  IntakeIInv'
  <1> DEFINE new == [uid |-> u, hot |-> h, block |-> height + 1]
             tenant == [hot |-> h, block |-> height + 1]
  <1>1. /\ height \in Nat /\ height' = height + 1 /\ holder \in Keys /\ holder' = [holder EXCEPT ![u] = tenant]
        /\ UNCHANGED <<rows, watcher, uploads, spent, floats, torches, call, open, raced>>
    BY DEF Register, IntakeIInv, IntakeTypes
  <1>2. height' \in Nat /\ holder' \in Keys
    <2>1. tenant \in Tenant
      BY <1>1 DEF Tenant
    <2> QED
      BY <1>1, <2>1 DEF Keys
  <1>3. Told(holder)' \subseteq Told(holder) \cup {new}
    BY <1>1 DEF Told, Keys
  <1>4. Remembered' \subseteq Remembered \cup {new}
    BY <1>1, <1>3 DEF Remembered
  <1>5. \A f \in Remembered : f \in Registration
    <2>1. \A w \in RegistrationWatchers : watcher[w].at = "read" => watcher[w].keys \in Keys
      BY DEF IntakeIInv, IntakeTypes, ReadingCalls, Waiting
    <2> QED
      BY <2>1, ToldTypes DEF Remembered, IntakeIInv, IntakeTypes
  <1>6. \A v \in Uids : holder[v].block \in Nat /\ holder'[v].block \in Nat
                        /\ (v # u => holder'[v] = holder[v]) /\ holder'[u].block = height + 1
    BY <1>1, <1>2 DEF Keys, Tenant, Vacant
  <1>7. new.uid = u /\ new.block = height + 1
    OBVIOUS
  <1>8. OneEventPerBlock'
    <2> HIDE DEF new
    <2>1. ASSUME NEW f \in Remembered'
          PROVE  f.block <= height' /\ f.block <= holder'[f.uid].block
      <3>1. CASE f \in Remembered
        <4>1. f.block \in Nat /\ f.uid \in Uids /\ f.block <= height /\ f.block <= holder[f.uid].block
          BY <1>5, <3>1 DEF IntakeIInv, OneEventPerBlock, Registration
        <4> QED
          BY <1>1, <1>6, <4>1
      <3>2. CASE f = new
        BY <1>1, <1>6, <1>7, <3>2
      <3> QED
        BY <1>4, <3>1, <3>2
    <2>2. ASSUME NEW f \in Remembered', NEW g \in Remembered', f.block = g.block
          PROVE  f = g
      <3>1. \A e \in Remembered : e.block # height + 1
        BY <1>1, <1>5 DEF IntakeIInv, OneEventPerBlock, Registration
      <3> QED
        BY <1>4, <1>7, <2>2, <3>1 DEF IntakeIInv, OneEventPerBlock
    <2> QED
      BY <2>1, <2>2 DEF OneEventPerBlock
  <1> QED
    BY <1>1, <1>2, <1>8, ChainMovesOn DEF IntakeIInv, IntakeTypes

LEMMA ReadSnapshotStep ==
  ASSUME IntakeIInv, NEW w \in RegistrationWatchers, read_snapshot(w)
  PROVE  IntakeIInv'
  <1> DEFINE snapshot == [head |-> height, keys |-> holder]
             reading == [at |-> "read", head |-> height, keys |-> holder,
                         times |-> {r.block : r \in changed_rows(snapshot)}]
  <1>1. /\ watcher \in [RegistrationWatchers -> {Waiting} \cup ReadingCalls] /\ holder \in Keys /\ height \in Nat
        /\ watcher' = [watcher EXCEPT ![w] = reading]
        /\ UNCHANGED <<height, holder, rows, uploads, spent, floats, torches, call, open, raced>>
    BY DEF read_snapshot, IntakeIInv, IntakeTypes
  <1>2. reading \in ReadingCalls
    <2>1. changed_rows(snapshot) \subseteq Told(holder)
      BY DEF changed_rows, Told
    <2>2. Told(holder) \subseteq Registration
      BY <1>1, ToldTypes
    <2>3. {r.block : r \in changed_rows(snapshot)} \in SUBSET Nat
      BY <2>1, <2>2 DEF Registration
    <2> QED
      BY <1>1, <2>3 DEF ReadingCalls
  <1>3. reading.keys = holder
    OBVIOUS
  <1> HIDE DEF reading
  <1>4. watcher' \in [RegistrationWatchers -> {Waiting} \cup ReadingCalls]
    BY <1>1, <1>2
  <1>5. Remembered' \subseteq Remembered
    BY <1>1, <1>3 DEF Remembered, Told
  <1> QED
    BY <1>1, <1>4, <1>5, NothingNewIsToldOf, ChainMovesOn DEF IntakeIInv

LEMMA PassFailsStep ==
  ASSUME IntakeIInv, NEW w \in RegistrationWatchers, pass_fails(w)
  PROVE  IntakeIInv'
  <1>1. /\ watcher \in [RegistrationWatchers -> {Waiting} \cup ReadingCalls] /\ holder \in Keys /\ height \in Nat
        /\ watcher' = [watcher EXCEPT ![w] = Waiting]
        /\ UNCHANGED <<height, holder, rows, uploads, spent, floats, torches, call, open, raced>>
    BY DEF pass_fails, IntakeIInv, IntakeTypes
  <1>2. Waiting.at # "read"
    BY DEF Waiting
  <1>3. Remembered' \subseteq Remembered
    BY <1>1, <1>2 DEF Remembered, Told
  <1> QED
    BY <1>1, <1>3, NothingNewIsToldOf, ChainMovesOn DEF IntakeIInv

LEMMA PublishSnapshotStep ==
  ASSUME IntakeIInv, NEW w \in RegistrationWatchers, publish_snapshot(w)
  PROVE  IntakeIInv'
  <1>1. /\ watcher \in [RegistrationWatchers -> {Waiting} \cup ReadingCalls] /\ watcher[w].at = "read"
        /\ watcher' = [watcher EXCEPT ![w] = Waiting]
        /\ rows \subseteq rows' /\ rows' \subseteq rows \cup changed_rows(watcher[w])
        /\ UNCHANGED <<height, holder, uploads, spent, floats, torches, call, open, raced>>
    BY DEF publish_snapshot, IntakeIInv, IntakeTypes, RecordedRegistration
  <1>2. changed_rows(watcher[w]) \subseteq Told(watcher[w].keys)
    BY DEF changed_rows, Told
  <1>3. changed_rows(watcher[w]) \subseteq Remembered
    BY <1>1, <1>2 DEF Remembered
  <1>4. changed_rows(watcher[w]) \subseteq Registration
    <2>1. watcher[w].keys \in Keys
      BY <1>1 DEF ReadingCalls, Waiting
    <2> QED
      BY <1>2, <2>1, ToldTypes
  <1>5. IntakeTypes'
    BY <1>1, <1>4 DEF IntakeIInv, IntakeTypes
  <1>6. Remembered' \subseteq Remembered
    <2>1. Waiting.at # "read"
      BY DEF Waiting
    <2>2. rows' \subseteq Remembered
      BY <1>1, <1>3 DEF Remembered
    <2> QED
      BY <1>1, <2>1, <2>2 DEF Remembered, Told
  <1>7. OneEventPerBlock'
    BY <1>1, <1>6, NothingNewIsToldOf DEF IntakeIInv
  <1>8. \A h : /\ Of(h) \subseteq Of(h)' /\ Unspent(h) \subseteq Unspent(h)' /\ InQueue(h)' = InQueue(h)
               /\ Cardinality(Unspent(h)) \in Nat /\ Cardinality(Unspent(h)') \in Nat
               /\ Cardinality(Unspent(h)) <= Cardinality(Unspent(h)')
               /\ Cardinality(InQueue(h)) \in Nat
    <2>1. SUFFICES ASSUME NEW h
                   PROVE  /\ Of(h) \subseteq Of(h)' /\ Unspent(h) \subseteq Unspent(h)' /\ InQueue(h)' = InQueue(h)
                          /\ Cardinality(Unspent(h)) \in Nat /\ Cardinality(Unspent(h)') \in Nat
                          /\ Cardinality(Unspent(h)) <= Cardinality(Unspent(h)')
                          /\ Cardinality(InQueue(h)) \in Nat
      OBVIOUS
    <2>2. Of(h) \subseteq Of(h)' /\ Unspent(h) \subseteq Unspent(h)' /\ InQueue(h)' = InQueue(h)
      BY <1>1 DEF Of, Unspent, InQueue
    <2>3. IsFiniteSet(Unspent(h)') /\ Cardinality(Unspent(h)') \in Nat
      <3>1. IsFiniteSet(rows')
        <4>1. \A r \in rows' : r.block \in 1..height'
          BY <1>5, <1>7 DEF IntakeTypes, OneEventPerBlock, Remembered, Registration
        <4>2. \A r, q \in rows' : r.block = q.block => r = q
          BY <1>7 DEF OneEventPerBlock, Remembered
        <4> QED
          BY <1>5, <4>1, <4>2, EventsAreFinite DEF IntakeTypes
      <3>2. Unspent(h)' \in SUBSET rows'
        BY DEF Unspent, Of
      <3> QED
        BY <3>1, <3>2, FS_Subset, FS_CardinalityType
    <2>4. Cardinality(Unspent(h)) \in Nat /\ Cardinality(InQueue(h)) \in Nat
      BY UnspentIsFinite, QueueIsFinite DEF IntakeIInv
    <2> QED
      BY <2>2, <2>3, <2>4, FS_Subset
  <1>9. CallsAreApart'
    BY <1>1 DEF IntakeIInv, CallsAreApart, LiveRows
  <1>10. CallInv'
    <2>1. \A c \in Calls : call[c].at = "slots" => call[c].slots \in Nat
      BY DEF IntakeIInv, IntakeTypes, Waiting, Ended, Counted, Asking, Admitted, Entering
    <2> QED
      BY <1>1, <1>8, <2>1 DEF IntakeIInv, CallInv, StillSo, UnusedSince, Dated
  <1>11. FloatInv'
    BY <1>1, <1>8 DEF IntakeIInv, FloatInv, Dated
  <1>12. PendingIsCoveredUnlessRaced'
    <2>1. SUFFICES ASSUME ~raced, NEW h \in Miners
                   PROVE  Cardinality(InQueue(h)') <= Cardinality(Unspent(h)')
      BY <1>1 DEF PendingIsCoveredUnlessRaced, PendingIsCovered, IntakeIInv, IntakeTypes
    <2>2. Cardinality(InQueue(h)) <= Cardinality(Unspent(h))
      BY <2>1 DEF IntakeIInv, PendingIsCoveredUnlessRaced, PendingIsCovered
    <2> QED
      BY <1>8, <2>2
  <1>13. RegistrationAdmitsOnce' /\ CheckedWasUnused' /\ IsFiniteSet(uploads')
    BY <1>1 DEF IntakeIInv, RegistrationAdmitsOnce, CheckedWasUnused, Dated
  <1> QED
    BY <1>5, <1>7, <1>9, <1>10, <1>11, <1>12, <1>13 DEF IntakeIInv
-----------------------------------------------------------------------------
(* Requests.                                                               *)

Request == {Waiting, Ended} \cup Counted \cup Asking \cup Admitted \cup Entering
Live(q) == q.at \notin {"start", "end"}

LEMMA RequestFields ==
  ASSUME NEW q \in Request
  PROVE  /\ Live(q) => q.hot \in Miners /\ q.digest \in Digests
         /\ q.at = "slots" => q.slots \in Nat
         /\ q.at = "eligible" => q \in Asking
         /\ q.at = "insert" => q \in Admitted \/ q \in Entering
         /\ q.at \in {"eligible", "insert"} => q.reg \in Registration
         /\ q.at \in {"start", "slots", "eligible", "insert", "end"}
  <1>1. q = Waiting \/ q = Ended \/ q \in Counted \/ q \in Asking \/ q \in Admitted \/ q \in Entering
    BY DEF Request
  <1>2. CASE q = Waiting \/ q = Ended
    BY <1>2 DEF Waiting, Ended, Live
  <1>3. CASE q \in Counted \/ q \in Asking
    BY <1>3 DEF Counted, Asking, Live
  <1>4. CASE q \in Admitted \/ q \in Entering
    BY <1>4 DEF Admitted, Entering, Live
  <1> QED
    BY <1>1, <1>2, <1>3, <1>4

\* One request goes on: it has the lock, and what it read is so.
CallGoesOn(c, q) ==
    /\ q \in Request /\ call' = [call EXCEPT ![c] = q]
    /\ Live(q) => lock_hotkey(c, q.hot) \/ (Live(call[c]) /\ q.hot = call[c].hot)

LEMMA CallsStayApart ==
  ASSUME IntakeTypes, CallsAreApart, NEW c \in Calls, NEW q, CallGoesOn(c, q), open' = open
  PROVE  CallsAreApart' /\ call' \in [Calls -> Request]
  <1>1. call \in [Calls -> Request] /\ q \in Request /\ call' = [call EXCEPT ![c] = q]
    BY DEF IntakeTypes, Request, CallGoesOn
  <1>2. call' \in [Calls -> Request]
    BY <1>1
  <1>3. call'[c] = q /\ \A d \in Calls : d # c => call'[d] = call[d]
    BY <1>1
  <1>4. ASSUME NEW d \in Calls, NEW e \in Calls, LiveRows(d)', LiveRows(e)', d # e
        PROVE  call'[d].hot # call'[e].hot /\ open' # "torchlean"
    <2>1. CASE d # c /\ e # c
      BY <1>3, <1>4, <2>1 DEF CallsAreApart, LiveRows
    <2>2. ASSUME NEW f \in Calls, f # c, Live(call[f]), Live(q)
          PROVE  call[f].hot # q.hot /\ open # "torchlean"
      BY <2>2 DEF CallGoesOn, lock_hotkey, LiveRows, Live, CallsAreApart
    <2> QED
      BY <1>3, <1>4, <2>1, <2>2 DEF LiveRows, Live
  <1> QED
    BY <1>2, <1>4 DEF CallsAreApart

\* A request that changes no table.
LEMMA QuietCall ==
  ASSUME IntakeIInv, NEW c \in Calls, NEW q, CallGoesOn(c, q), StillSo(q),
         UNCHANGED <<height, holder, rows, watcher, uploads, spent, floats, torches, open, raced>>
  PROVE  IntakeIInv'
  <1>1. CallsAreApart' /\ call' \in [Calls -> Request]
    BY CallsStayApart DEF IntakeIInv
  <1>2. IntakeTypes'
    BY <1>1 DEF IntakeIInv, IntakeTypes, Request
  <1>3. OneEventPerBlock'
    BY DEF IntakeIInv, OneEventPerBlock, Remembered, Told
  <1>4. \A h : Of(h)' = Of(h) /\ Unspent(h)' = Unspent(h) /\ InQueue(h)' = InQueue(h)
    BY DEF Of, Unspent, InQueue
  <1>5. CallInv'
    <2>1. \A d \in Calls : call'[d] = q \/ call'[d] = call[d]
      BY DEF CallGoesOn, IntakeIInv, IntakeTypes
    <2>2. ASSUME NEW d \in Calls
          PROVE  StillSo(call[d])'
      <3>1. StillSo(call'[d])
        BY <2>1 DEF IntakeIInv, CallInv
      <3> QED
        BY <1>4, <3>1 DEF StillSo, UnusedSince, Dated
    <2> QED
      BY <2>2 DEF CallInv
  <1>6. FloatInv' /\ PendingIsCoveredUnlessRaced'
    BY <1>4 DEF IntakeIInv, FloatInv, Dated, PendingIsCoveredUnlessRaced, PendingIsCovered
  <1>7. RegistrationAdmitsOnce' /\ CheckedWasUnused' /\ IsFiniteSet(uploads')
    BY DEF IntakeIInv, RegistrationAdmitsOnce, CheckedWasUnused, Dated
  <1> QED
    BY <1>1, <1>2, <1>3, <1>5, <1>6, <1>7 DEF IntakeIInv

LEMMA EndedCall ==
  ASSUME NEW c \in Calls, RequestEnds(c)
  PROVE  CallGoesOn(c, Ended) /\ StillSo(Ended)
  BY DEF RequestEnds, CallGoesOn, Ended, Request, Live, StillSo

LEMMA BeginQueueStep ==
  ASSUME IntakeIInv, NEW c \in Calls, NEW h \in Miners, NEW d \in Digests, begin_queue(c, h, d)
  PROVE  IntakeIInv'
  <1>1. UNCHANGED <<height, holder, rows, watcher, uploads, spent, floats, torches, open, raced>>
    BY DEF begin_queue, NoChange
  <1>2. CASE RequestEnds(c)
    BY <1>1, <1>2, EndedCall, QuietCall
  <1> DEFINE q == [at |-> "slots", hot |-> h, digest |-> d, slots |-> Cardinality(Unspent(h))]
  <1>3. CASE call' = [call EXCEPT ![c] = q]
    <2>1. Cardinality(Unspent(h)) \in Nat
      BY UnspentIsFinite DEF IntakeIInv
    <2>2. CallGoesOn(c, q)
      BY <1>3, <2>1 DEF CallGoesOn, Request, Counted, Live, begin_queue
    <2>3. StillSo(q)
      BY <2>1 DEF StillSo, begin_queue
    <2> QED
      BY <1>1, <2>2, <2>3, QuietCall
  <1> QED
    BY <1>2, <1>3 DEF begin_queue

LEMMA BeginEnqueueStep ==
  ASSUME IntakeIInv, NEW c \in Calls, NEW h \in Miners, NEW d \in Digests, begin_enqueue(c, h, d)
  PROVE  IntakeIInv'
  <1>1. UNCHANGED <<height, holder, rows, watcher, uploads, spent, floats, torches, open, raced>>
    BY DEF begin_enqueue, NoChange
  <1>2. CASE RequestEnds(c)
    BY <1>1, <1>2, EndedCall, QuietCall
  <1> DEFINE q == [at |-> "eligible", hot |-> h, digest |-> d, reg |-> Latest(h)]
  <1>3. ASSUME Of(h) # {}, ~\E s \in floats : s.hot = h /\ s.at >= Dated(Latest(h)),
               call' = [call EXCEPT ![c] = q]
        PROVE  IntakeIInv'
    <2>1. Latest(h) \in Of(h) /\ Latest(h) \in Registration
      <3>1. Latest(h) \in Of(h)
        BY <1>3, LatestIsOwn DEF IntakeIInv
      <3> QED
        BY <3>1 DEF Of, IntakeIInv, IntakeTypes
    <2>2. CallGoesOn(c, q)
      BY <1>3, <2>1 DEF CallGoesOn, Request, Asking, Live, begin_enqueue
    <2>3. UnusedSince(floats, h, Latest(h))
      BY <1>3, <2>1 DEF UnusedSince, Dated, Registration, IntakeIInv, IntakeTypes, FloatUpload
    <2>4. StillSo(q)
      BY <2>1, <2>3 DEF StillSo, begin_enqueue
    <2> QED
      BY <1>1, <2>2, <2>4, QuietCall
  <1> QED
    BY <1>2, <1>3 DEF begin_enqueue

LEMMA EligibleStep ==
  ASSUME IntakeIInv, NEW c \in Calls, eligible(c)
  PROVE  IntakeIInv'
  <1>1. UNCHANGED <<height, holder, rows, watcher, uploads, spent, floats, torches, open, raced>>
    BY DEF eligible, NoChange
  <1>2. CASE RequestEnds(c)
    BY <1>1, <1>2, EndedCall, QuietCall
  <1>3. /\ call[c].at = "eligible" /\ call[c].hot \in Miners /\ call[c].digest \in Digests
        /\ call[c].reg \in Registration /\ call[c].reg \in Of(call[c].hot) /\ open = "floatlib"
        /\ UnusedSince(floats, call[c].hot, call[c].reg)
    <2>1. call[c] \in Request /\ call[c].at = "eligible" /\ StillSo(call[c])
      BY DEF eligible, IntakeIInv, IntakeTypes, Request, CallInv
    <2> QED
      BY <2>1, RequestFields DEF StillSo, Live
  <1> DEFINE q(why) == [at |-> "insert", hot |-> call[c].hot, digest |-> call[c].digest,
                        reg |-> call[c].reg, by |-> why]
  <1>4. ASSUME NEW why \in {"check", "cutoff"}, call' = [call EXCEPT ![c] = q(why)],
               why = "check" => ~used_in_deflate(call[c].hot, call[c].reg)
        PROVE  IntakeIInv'
    <2>1. q(why) \in Admitted
      BY <1>3 DEF Admitted
    <2>2. CallGoesOn(c, q(why))
      BY <1>3, <1>4, <2>1 DEF CallGoesOn, Request, Live
    <2>3. why = "check" => UnusedSince(uploads, call[c].hot, call[c].reg)
      BY <1>3, <1>4 DEF used_in_deflate, UnusedSince, Dated, Registration, IntakeIInv, IntakeTypes, Upload
    <2>4. StillSo(q(why))
      BY <1>3, <2>1, <2>3 DEF StillSo
    <2> QED
      BY <1>1, <2>2, <2>4, QuietCall
  <1>5. call \in [Calls -> Request]
    BY DEF IntakeIInv, IntakeTypes, Request
  <1>6. \/ RequestEnds(c)
        \/ call' = [call EXCEPT ![c] = q("check")] /\ ~used_in_deflate(call[c].hot, call[c].reg)
        \/ call' = [call EXCEPT ![c] = q("cutoff")]
    BY <1>5 DEF eligible
  <1> QED
    BY <1>2, <1>4, <1>6

LEMMA BeginTorchleanStep ==
  ASSUME IntakeIInv, NEW c \in Calls, NEW h \in Miners, NEW d \in Digests, begin_torchlean(c, h, d)
  PROVE  IntakeIInv'
  <1>1. UNCHANGED <<height, holder, rows, watcher, uploads, spent, floats, torches, open, raced>>
    BY DEF begin_torchlean, NoChange
  <1>2. CASE RequestEnds(c)
    BY <1>1, <1>2, EndedCall, QuietCall
  <1> DEFINE q == [at |-> "insert", hot |-> h, digest |-> d, reg |-> Latest(h)]
  <1>3. ASSUME Of(h) # {}, call' = [call EXCEPT ![c] = q]
        PROVE  IntakeIInv'
    <2>1. Latest(h) \in Registration
      <3>1. Latest(h) \in Of(h)
        BY <1>3, LatestIsOwn DEF IntakeIInv
      <3> QED
        BY <3>1 DEF Of, IntakeIInv, IntakeTypes
    <2>2. CallGoesOn(c, q)
      BY <1>3, <2>1 DEF CallGoesOn, Request, Entering, Live, begin_torchlean
    <2>3. StillSo(q)
      BY DEF StillSo, begin_torchlean
    <2> QED
      BY <1>1, <2>2, <2>3, QuietCall
  <1> QED
    BY <1>2, <1>3 DEF begin_torchlean

-----------------------------------------------------------------------------
(* Uploads.                                                                *)

\* What the uploads do not touch.
LEMMA ChainStands ==
  ASSUME UNCHANGED <<height, holder, rows, watcher>>
  PROVE  /\ OneEventPerBlock <=> OneEventPerBlock'
         /\ \A h : Of(h)' = Of(h)
  BY DEF OneEventPerBlock, Remembered, Told, Of

\* The upload was counted against registrations that are still unspent, unless an acceptance raced it.
LEMMA QueueStep ==
  ASSUME IntakeIInv, NEW c \in Calls, _queue(c)
  PROVE  IntakeIInv'
  <1>0. PICK h : h = call[c].hot
    OBVIOUS
  <1> DEFINE new == [hot |-> h, digest |-> call[c].digest, state |-> "pending", at |-> Now]
  <1>1. /\ call[c].at = "slots" /\ call[c].slots \in Nat /\ h \in Miners /\ call[c].digest \in Digests
        /\ open = "deflate" /\ (raced \/ call[c].slots <= Cardinality(Unspent(h))) /\ floats = {}
    <2>1. call[c] \in Request /\ call[c].at = "slots" /\ StillSo(call[c])
      BY DEF _queue, IntakeIInv, IntakeTypes, Request, CallInv
    <2> QED
      BY <1>0, <2>1, RequestFields DEF StillSo, Live, IntakeIInv, FloatInv
  <1>2. /\ UNCHANGED <<height, holder, rows, watcher, spent, floats, torches, open, raced>> /\ RequestEnds(c)
        /\ uploads' = IF Cardinality(InQueue(h)) < call[c].slots THEN uploads \cup {new} ELSE uploads
    BY <1>0 DEF _queue, NoChange
  <1>3. CASE uploads' = uploads
    BY <1>2, <1>3, EndedCall, QuietCall
  <1>4. CASE uploads' = uploads \cup {new} /\ Cardinality(InQueue(h)) < call[c].slots
    <2>1. CallsAreApart' /\ call' \in [Calls -> Request]
      BY <1>2, EndedCall, CallsStayApart DEF IntakeIInv
    <2>2. new \in Upload
      BY <1>1 DEF Upload, Now, IntakeIInv, IntakeTypes
    <2>3. IntakeTypes'
      BY <1>2, <1>4, <2>1, <2>2 DEF IntakeIInv, IntakeTypes, Request
    <2>4. OneEventPerBlock' /\ \A g : Of(g)' = Of(g) /\ Unspent(g)' = Unspent(g)
      BY <1>2, ChainStands DEF IntakeIInv, Unspent
    <2>5. CallInv'
      <3>1. SUFFICES ASSUME NEW d \in Calls PROVE StillSo(call[d])'
        BY DEF CallInv
      <3>2. call'[d] = Ended \/ call'[d] = call[d]
        BY <1>2 DEF RequestEnds, Ended, IntakeIInv, IntakeTypes
      <3>3. CASE call'[d] = Ended
        BY <3>3 DEF StillSo, Ended
      <3>4. CASE call'[d] = call[d]
        BY <1>1, <1>2, <2>4, <3>4 DEF StillSo, IntakeIInv, CallInv
      <3> QED
        BY <3>2, <3>3, <3>4
    <2>6. FloatInv' /\ CheckedWasUnused' /\ RegistrationAdmitsOnce'
      BY <1>1, <1>2 DEF FloatInv, CheckedWasUnused, RegistrationAdmitsOnce, IntakeIInv
    <2>7. IsFiniteSet(uploads')
      BY <1>4, FS_AddElement DEF IntakeIInv
    <2>8. PendingIsCoveredUnlessRaced'
      <3>1. SUFFICES ASSUME ~raced, NEW g \in Miners
                     PROVE  Cardinality(InQueue(g)') <= Cardinality(Unspent(g)')
        BY <1>2 DEF PendingIsCoveredUnlessRaced, PendingIsCovered, IntakeIInv, IntakeTypes
      <3>2. Cardinality(InQueue(g)) <= Cardinality(Unspent(g)) /\ Unspent(g)' = Unspent(g)
        BY <2>4, <3>1 DEF PendingIsCoveredUnlessRaced, PendingIsCovered, IntakeIInv
      <3>3. CASE g # h
        <4>1. InQueue(g)' = InQueue(g)
          BY <1>4, <3>3 DEF InQueue
        <4> QED
          BY <3>2, <4>1
      <3>4. CASE g = h
        <4>1. InQueue(g)' = InQueue(g) \cup {new}
          BY <1>4, <3>4 DEF InQueue
        <4>2. IsFiniteSet(InQueue(g)) /\ Cardinality(InQueue(g)) \in Nat /\ Cardinality(Unspent(g)) \in Nat
          BY QueueIsFinite, UnspentIsFinite DEF IntakeIInv
        <4>3. /\ Cardinality(InQueue(g) \cup {new}) <= Cardinality(InQueue(g)) + 1
              /\ Cardinality(InQueue(g) \cup {new}) \in Nat
          <5> HIDE DEF new
          <5>1. /\ IsFiniteSet(InQueue(g) \cup {new})
                /\ Cardinality(InQueue(g) \cup {new})
                     = IF new \in InQueue(g) THEN Cardinality(InQueue(g)) ELSE Cardinality(InQueue(g)) + 1
            BY <4>2, FS_AddElement
          <5> QED
            BY ONLY <4>2, <5>1
        <4>4. Cardinality(InQueue(g)) < call[c].slots /\ call[c].slots <= Cardinality(Unspent(g))
          BY <1>1, <1>4, <3>1, <3>4
        <4>5. Cardinality(InQueue(g) \cup {new}) <= Cardinality(Unspent(g))
          <5>1. call[c].slots \in Nat
            BY <1>1
          <5> HIDE DEF new
          <5> QED
            BY ONLY <4>2, <4>3, <4>4, <5>1
        <4> QED
          BY <3>2, <4>1, <4>5
      <3> QED
        BY <3>3, <3>4
    <2> QED
      BY <2>1, <2>3, <2>4, <2>5, <2>6, <2>7, <2>8 DEF IntakeIInv
  <1> QED
    BY <1>2, <1>3, <1>4

LEMMA EnqueueStep ==
  ASSUME IntakeIInv, NEW c \in Calls, enqueue(c)
  PROVE  IntakeIInv'
  <1> DEFINE q == call[c]
             new == [hot |-> q.hot, digest |-> q.digest, at |-> Now, reg |-> q.reg, by |-> q.by]
  <1>1. /\ q.at = "insert" /\ open = "floatlib" /\ q \in Admitted /\ q.reg \in Of(q.hot)
        /\ UnusedSince(floats, q.hot, q.reg) /\ (q.by = "check" => UnusedSince(uploads, q.hot, q.reg))
    BY DEF enqueue, IntakeIInv, CallInv, StillSo
  <1>2. /\ UNCHANGED <<height, holder, rows, watcher, uploads, spent, torches, open, raced>> /\ RequestEnds(c)
        /\ floats' = floats \cup {new}
    BY DEF enqueue, NoChange
  <1>3. q.reg \in rows /\ q.reg.hot = q.hot /\ q.reg \in Registration /\ Dated(q.reg) \in Nat /\ Dated(q.reg) <= Now
    BY <1>1 DEF Of, IntakeIInv, IntakeTypes, OneEventPerBlock, Remembered, Registration, Dated, Now
  <1>4. new \in FloatUpload /\ new.hot = q.hot /\ new.reg = q.reg /\ new.at = Now /\ new.by = q.by /\ Now \in Nat
    BY <1>1 DEF FloatUpload, Admitted, Now, IntakeIInv, IntakeTypes
  <1> HIDE DEF new
  <1>5. CallsAreApart' /\ call' \in [Calls -> Request]
    BY <1>2, EndedCall, CallsStayApart DEF IntakeIInv
  <1>6. IntakeTypes'
    BY <1>2, <1>4, <1>5 DEF IntakeIInv, IntakeTypes, Request
  <1>7. OneEventPerBlock' /\ \A g : Of(g)' = Of(g) /\ Unspent(g)' = Unspent(g) /\ InQueue(g)' = InQueue(g)
    BY <1>2, ChainStands DEF IntakeIInv, Unspent, InQueue
  <1>8. CallInv'
    <2>1. SUFFICES ASSUME NEW d \in Calls PROVE StillSo(call[d])'
      BY DEF CallInv
    <2>2. IF d = c THEN call'[d] = Ended ELSE call'[d] = call[d]
      BY <1>2 DEF RequestEnds, Ended, IntakeIInv, IntakeTypes
    <2>3. CASE d = c
      BY <2>2, <2>3 DEF StillSo, Ended
    <2>4. CASE d # c
      <3>1. LiveRows(d) => call[d].hot # q.hot
        BY <1>1, <2>4 DEF IntakeIInv, CallsAreApart, LiveRows
      <3>2. ASSUME NEW row, LiveRows(d), UnusedSince(floats, call[d].hot, row)
            PROVE  UnusedSince(floats', call[d].hot, row)
        BY <1>2, <1>4, <3>1, <3>2 DEF UnusedSince
      <3>3. StillSo(call[d])
        BY DEF IntakeIInv, CallInv
      <3> QED
        BY <1>2, <1>7, <2>2, <2>4, <3>2, <3>3 DEF StillSo, LiveRows, UnusedSince, Dated
    <2> QED
      BY <2>3, <2>4
  <1>9. FloatInv'
    BY <1>1, <1>2, <1>3, <1>4, <1>7 DEF IntakeIInv, FloatInv, Dated
  <1>10. PendingIsCoveredUnlessRaced'
    BY <1>2, <1>7 DEF IntakeIInv, PendingIsCoveredUnlessRaced, PendingIsCovered
  <1>11. CheckedWasUnused'
    <2>1. q.by = "check" => \A t \in uploads : t.hot = q.hot => t.at < Dated(q.reg)
      BY <1>1 DEF UnusedSince
    <2> QED
      BY <1>2, <1>4, <2>1 DEF IntakeIInv, CheckedWasUnused, Dated
  <1>12. RegistrationAdmitsOnce'
    <2>1. ASSUME NEW s \in floats PROVE s.reg # q.reg
      <3>1. s.reg.hot = s.hot /\ Dated(s.reg) <= s.at /\ s.at \in Nat
        BY DEF IntakeIInv, FloatInv, Of, IntakeTypes, FloatUpload
      <3>2. s.hot = q.hot => s.at < Dated(q.reg)
        BY <1>1 DEF UnusedSince
      <3> QED
        BY <1>3, <3>1, <3>2
    <2> QED
      BY <1>2, <1>4, <2>1 DEF IntakeIInv, RegistrationAdmitsOnce
  <1> QED
    BY <1>2, <1>5, <1>6, <1>7, <1>8, <1>9, <1>10, <1>11, <1>12 DEF IntakeIInv

LEMMA TorchleanEnqueueStep ==
  ASSUME IntakeIInv, NEW c \in Calls, torchlean_enqueue(c)
  PROVE  IntakeIInv'
  <1>1. UNCHANGED <<height, holder, rows, watcher, uploads, spent, floats, open, raced>> /\ RequestEnds(c)
    BY DEF torchlean_enqueue, NoChange
  <1>2. CallsAreApart' /\ call' \in [Calls -> Request]
    BY <1>1, EndedCall, CallsStayApart DEF IntakeIInv
  <1>3. IntakeTypes'
    BY <1>1, <1>2 DEF IntakeIInv, IntakeTypes, Request
  <1>4. OneEventPerBlock' /\ \A g : Of(g)' = Of(g) /\ Unspent(g)' = Unspent(g) /\ InQueue(g)' = InQueue(g)
    BY <1>1, ChainStands DEF IntakeIInv, Unspent, InQueue
  <1>5. CallInv'
    <2>1. SUFFICES ASSUME NEW d \in Calls PROVE StillSo(call[d])'
      BY DEF CallInv
    <2>2. call'[d] = Ended \/ call'[d] = call[d]
      BY <1>1 DEF RequestEnds, Ended, IntakeIInv, IntakeTypes
    <2>3. StillSo(call'[d])
      BY <1>1, <2>2, EndedCall DEF IntakeIInv, CallInv
    <2> QED
      BY <1>1, <1>4, <2>3 DEF StillSo, UnusedSince, Dated
  <1>6. FloatInv' /\ PendingIsCoveredUnlessRaced' /\ CheckedWasUnused'
    BY <1>1, <1>4 DEF IntakeIInv, FloatInv, PendingIsCoveredUnlessRaced, PendingIsCovered, CheckedWasUnused, Dated
  <1>7. RegistrationAdmitsOnce'
    BY <1>1 DEF IntakeIInv, RegistrationAdmitsOnce, torchlean_enqueue
  <1> QED
    BY <1>1, <1>2, <1>3, <1>4, <1>5, <1>6, <1>7 DEF IntakeIInv

-----------------------------------------------------------------------------
(* The competition's verifier, and the intake that is open.                *)

LEMMA JudgeStep ==
  ASSUME IntakeIInv, NEW s \in uploads, Judge(s)
  PROVE  IntakeIInv'
  <1>1. /\ UNCHANGED <<height, holder, rows, watcher, floats, torches, call, open>> /\ s.state = "pending"
        /\ \/ uploads' = (uploads \ {s}) \cup {[s EXCEPT !.state = "rejected"]} /\ UNCHANGED <<spent, raced>>
           \/ /\ uploads' = (uploads \ {s}) \cup {[s EXCEPT !.state = "accepted"]}
              /\ \E r \in Unspent(s.hot) : spent' = spent \cup {<<r, s.digest>>}
              /\ raced' = (raced \/ \E c \in Calls : call[c].at = "slots" /\ call[c].hot = s.hot)
    BY DEF Judge, NoChange
  <1>2. PICK judged \in Upload :
           /\ uploads' = (uploads \ {s}) \cup {judged}
           /\ judged.hot = s.hot /\ judged.at = s.at /\ judged.state # "pending"
    <2>1. \A v \in {"rejected", "accepted"} :
             /\ [s EXCEPT !.state = v] \in Upload /\ [s EXCEPT !.state = v].hot = s.hot
             /\ [s EXCEPT !.state = v].at = s.at /\ [s EXCEPT !.state = v].state # "pending"
      BY DEF IntakeIInv, IntakeTypes, Upload
    <2> QED
      BY <1>1, <2>1
  <1>3. OneEventPerBlock' /\ \A g : Of(g)' = Of(g)
    BY <1>1, ChainStands DEF IntakeIInv
  <1>4. IntakeTypes'
    BY <1>1, <1>2 DEF IntakeIInv, IntakeTypes
  <1>5. IsFiniteSet(uploads')
    BY <1>2, FS_RemoveElement, FS_AddElement DEF IntakeIInv
  <1>6. \A g : InQueue(g)' = InQueue(g) \ {s}
    BY <1>2 DEF InQueue
  <1>7. \A h, row : UnusedSince(uploads, h, row) => UnusedSince(uploads', h, row)
    BY <1>2 DEF UnusedSince
  <1>8. \A g : g # s.hot => Unspent(g)' = Unspent(g) /\ InQueue(g)' = InQueue(g)
    <2>1. SUFFICES ASSUME NEW g, g # s.hot PROVE Unspent(g)' = Unspent(g) /\ InQueue(g)' = InQueue(g)
      OBVIOUS
    <2>2. InQueue(g)' = InQueue(g)
      BY <1>6, <2>1 DEF InQueue
    <2>3. CASE spent' = spent
      BY <1>3, <2>2, <2>3 DEF Unspent
    <2>4. ASSUME NEW r \in Unspent(s.hot), spent' = spent \cup {<<r, s.digest>>}
          PROVE  Unspent(g)' = Unspent(g)
      <3>1. r \notin Of(g)
        BY <2>1 DEF Unspent, Of
      <3> QED
        BY <1>3, <2>4, <3>1 DEF Unspent
    <2> QED
      BY <1>1, <2>2, <2>3, <2>4
  <1>9. \/ UNCHANGED <<spent, raced>>
        \/ \E r \in Unspent(s.hot) : Unspent(s.hot)' = Unspent(s.hot) \ {r}
    <2>1. ASSUME NEW r \in Unspent(s.hot), spent' = spent \cup {<<r, s.digest>>}
          PROVE  Unspent(s.hot)' = Unspent(s.hot) \ {r}
      <3>1. <<r, s.digest>>[1] = r
        OBVIOUS
      <3>2. {p[1] : p \in spent'} = {p[1] : p \in spent} \cup {r}
        BY <2>1, <3>1
      <3> QED
        BY <1>3, <3>2 DEF Unspent
    <2> QED
      BY <1>1, <2>1
  <1>10. ~raced' => /\ ~raced
                    /\ \/ UNCHANGED spent
                       \/ \A c \in Calls : call[c].at = "slots" => call[c].hot # s.hot
    BY <1>1
  <1>11. CallInv'
    <2>1. SUFFICES ASSUME NEW c \in Calls PROVE StillSo(call[c])'
      BY DEF CallInv
    <2>2. StillSo(call[c]) /\ call'[c] = call[c]
      BY <1>1 DEF IntakeIInv, CallInv
    <2>3. call[c].at = "slots" => raced' \/ call[c].slots <= Cardinality(Unspent(call[c].hot)')
      <3>1. SUFFICES ASSUME call[c].at = "slots", ~raced'
                     PROVE  call[c].slots <= Cardinality(Unspent(call[c].hot)')
        OBVIOUS
      <3>2. call[c].slots <= Cardinality(Unspent(call[c].hot))
        BY <1>10, <2>2, <3>1 DEF StillSo
      <3>3. Unspent(call[c].hot)' = Unspent(call[c].hot)
        BY <1>1, <1>3, <1>8, <1>10, <3>1 DEF Unspent
      <3> QED
        BY <3>2, <3>3
    <2> QED
      BY <1>1, <1>3, <1>7, <2>2, <2>3 DEF StillSo, UnusedSince, Dated
  <1>12. FloatInv' /\ RegistrationAdmitsOnce'
    BY <1>1, <1>3 DEF IntakeIInv, FloatInv, RegistrationAdmitsOnce, Dated
  <1>13. CallsAreApart'
    BY <1>1 DEF IntakeIInv, CallsAreApart, LiveRows
  <1>14. CheckedWasUnused'
    BY <1>1, <1>2 DEF IntakeIInv, CheckedWasUnused, Dated
  <1>15. PendingIsCoveredUnlessRaced'
    <2>1. SUFFICES ASSUME ~raced', NEW g \in Miners
                   PROVE  Cardinality(InQueue(g)') <= Cardinality(Unspent(g)')
      BY DEF PendingIsCoveredUnlessRaced, PendingIsCovered
    <2>2. Cardinality(InQueue(g)) <= Cardinality(Unspent(g))
      BY <1>10, <2>1 DEF IntakeIInv, PendingIsCoveredUnlessRaced, PendingIsCovered
    <2>3. /\ IsFiniteSet(InQueue(g)) /\ Cardinality(InQueue(g)) \in Nat
          /\ IsFiniteSet(Unspent(g)) /\ Cardinality(Unspent(g)) \in Nat
      BY QueueIsFinite, UnspentIsFinite DEF IntakeIInv
    <2>4. CASE g # s.hot
      BY <1>8, <2>2, <2>4
    <2>5. CASE g = s.hot
      <3>1. s \in InQueue(g) /\ InQueue(g)' = InQueue(g) \ {s}
        BY <1>1, <1>6, <2>5 DEF InQueue
      <3>2. Cardinality(InQueue(g) \ {s}) = Cardinality(InQueue(g)) - 1
        BY <2>3, <3>1, FS_RemoveElement
      <3>3. CASE spent' = spent
        <4>1. Unspent(g)' = Unspent(g)
          BY <1>3, <3>3 DEF Unspent
        <4> QED
          BY <2>2, <2>3, <3>1, <3>2, <4>1
      <3>4. ASSUME NEW r \in Unspent(g), Unspent(g)' = Unspent(g) \ {r}
            PROVE  Cardinality(InQueue(g)') <= Cardinality(Unspent(g)')
        <4>1. Cardinality(Unspent(g) \ {r}) = Cardinality(Unspent(g)) - 1
          BY <2>3, FS_RemoveElement
        <4> QED
          BY <2>2, <2>3, <3>1, <3>2, <3>4, <4>1
      <3> QED
        BY <1>9, <2>5, <3>3, <3>4
    <2> QED
      BY <2>4, <2>5
  <1> QED
    BY <1>3, <1>4, <1>5, <1>11, <1>12, <1>13, <1>14, <1>15 DEF IntakeIInv

LEMMA SwitchIntakeStep ==
  ASSUME IntakeIInv, NEW to \in {"floatlib", "torchlean"}, SwitchIntake(to)
  PROVE  IntakeIInv'
  <1>1. /\ UNCHANGED <<height, holder, rows, watcher, uploads, spent, floats, torches, raced>> /\ open = "deflate"
        /\ open' = to /\ floats = {}
        /\ call' = [c \in Calls |-> IF LiveRows(c) THEN Ended ELSE call[c]]
    BY DEF SwitchIntake, NoChange, Ended, IntakeIInv, FloatInv
  <1>2. \A c \in Calls : ~Live(call'[c]) /\ call'[c] \in Request
    BY <1>1 DEF LiveRows, Live, Ended, Request, IntakeIInv, IntakeTypes
  <1>3. call' \in [Calls -> Request]
    BY <1>1, <1>2
  <1>4. IntakeTypes'
    BY <1>1, <1>3 DEF IntakeIInv, IntakeTypes, Request
  <1>5. OneEventPerBlock' /\ \A g : Of(g)' = Of(g) /\ Unspent(g)' = Unspent(g) /\ InQueue(g)' = InQueue(g)
    BY <1>1, ChainStands DEF IntakeIInv, Unspent, InQueue
  <1>6. CallsAreApart'
    BY <1>2 DEF CallsAreApart, LiveRows, Live
  <1>7. CallInv'
    BY <1>2 DEF CallInv, StillSo, Live
  <1>8. FloatInv' /\ PendingIsCoveredUnlessRaced' /\ CheckedWasUnused' /\ RegistrationAdmitsOnce'
    BY <1>1, <1>5 DEF IntakeIInv, FloatInv, PendingIsCoveredUnlessRaced, PendingIsCovered, CheckedWasUnused,
                      RegistrationAdmitsOnce
  <1> QED
    BY <1>1, <1>4, <1>5, <1>6, <1>7, <1>8 DEF IntakeIInv

LEMMA IntakeIdles ==
  ASSUME IntakeIInv, UNCHANGED intakeAll
  PROVE  IntakeIInv'
  <1>1. UNCHANGED <<height, holder, rows, watcher, uploads, spent, floats, torches, call, open, raced>>
    BY DEF intakeAll
  <1>2. OneEventPerBlock'
    BY <1>1, ChainStands DEF IntakeIInv
  <1> QED
    BY <1>1, <1>2, ChainMovesOn DEF IntakeIInv, IntakeTypes
-----------------------------------------------------------------------------
LEMMA IntakeStarts ==
  ASSUME IntakeInit
  PROVE  IntakeIInv
  <1>1. IntakeTypes
    BY DEF IntakeInit, IntakeTypes, Keys, Tenant
  <1>2. Remembered = {}
    BY DEF IntakeInit, Remembered, Told, Waiting
  <1>3. OneEventPerBlock
    BY <1>2 DEF OneEventPerBlock
  <1>4. \A h : Of(h) = {} /\ Unspent(h) = {} /\ InQueue(h) = {}
    BY DEF IntakeInit, Of, Unspent, InQueue
  <1>5. CallsAreApart /\ CallInv /\ FloatInv
    BY DEF IntakeInit, CallsAreApart, LiveRows, CallInv, StillSo, FloatInv, Waiting
  <1>6. PendingIsCoveredUnlessRaced
    BY <1>4, FS_EmptySet DEF PendingIsCoveredUnlessRaced, PendingIsCovered
  <1>7. RegistrationAdmitsOnce /\ CheckedWasUnused /\ IsFiniteSet(uploads)
    BY FS_EmptySet DEF IntakeInit, RegistrationAdmitsOnce, CheckedWasUnused
  <1> QED
    BY <1>1, <1>3, <1>5, <1>6, <1>7 DEF IntakeIInv

LEMMA IntakeSteps ==
  ASSUME IntakeIInv, [IntakeNext]_intakeAll
  PROVE  IntakeIInv'
  <1>1. ASSUME NEW u \in Uids, NEW h \in Miners, Register(u, h)
        PROVE  IntakeIInv'
    BY <1>1, RegisterStep
  <1>2. ASSUME NEW w \in RegistrationWatchers, step(w) \/ pass_fails(w)
        PROVE  IntakeIInv'
    BY <1>2, ReadSnapshotStep, PublishSnapshotStep, PassFailsStep DEF step
  <1>3. ASSUME NEW c \in Calls, Handle(c)
        PROVE  IntakeIInv'
    BY <1>3, BeginQueueStep, BeginEnqueueStep, BeginTorchleanStep, QueueStep, EligibleStep, EnqueueStep,
       TorchleanEnqueueStep DEF Handle
  <1>4. ASSUME NEW s \in uploads, Judge(s)
        PROVE  IntakeIInv'
    BY <1>4, JudgeStep
  <1>5. ASSUME NEW to \in {"floatlib", "torchlean"}, SwitchIntake(to)
        PROVE  IntakeIInv'
    BY <1>5, SwitchIntakeStep
  <1> QED
    BY <1>1, <1>2, <1>3, <1>4, <1>5, IntakeIdles DEF IntakeNext

\* The registrations table and the uploads agree in every state, for any chain, watchers and requests.
THEOREM IntakeInductive == IntakeSpec => []IntakeIInv
  <1>1. IntakeInit => IntakeIInv
    BY IntakeStarts
  <1>2. IntakeIInv /\ [IntakeNext]_intakeAll => IntakeIInv'
    BY IntakeSteps
  <1> QED
    BY <1>1, <1>2, PTL DEF IntakeSpec

\* A row of the table is one registration of the chain, in any order of two watchers, and a registration
\* admits one upload to each competition (registration_watcher, routers/competitions.py,
\* floatlib_intake.py, torchlean_store.py).
THEOREM RegistrationsSpentOnce == IntakeSpec => []RegistrationsAreSpentOnce
  <1>1. IntakeIInv => RowsAreRegistrations
    <2>1. SUFFICES ASSUME IntakeIInv PROVE RowsAreRegistrations
      OBVIOUS
    <2>2. \A r, q \in rows : r.block = q.block => r = q
      BY <2>1 DEF IntakeIInv, OneEventPerBlock, Remembered
    <2>3. ASSUME NEW u \in Uids, NEW r \in rows, r.uid = u, r.block >= holder[u].block
          PROVE  r.block = holder[u].block /\ r.hot = holder[u].hot
      <3>1. r \in Registration /\ holder[u] \in Tenant /\ r.block <= holder[u].block
        BY <2>1, <2>3 DEF IntakeIInv, IntakeTypes, Keys, OneEventPerBlock, Remembered
      <3>2. r.block = holder[u].block /\ r.block # 0
        BY <2>3, <3>1 DEF Registration, Tenant, Vacant
      <3> DEFINE now == [uid |-> u, hot |-> holder[u].hot, block |-> holder[u].block]
      <3>3. now \in Told(holder) /\ now.block = r.block /\ now.hot = holder[u].hot
        BY <3>2 DEF Told, Vacant
      <3> HIDE DEF now
      <3>4. now \in Remembered /\ r \in Remembered
        BY <3>3 DEF Remembered
      <3>5. now = r
        BY <2>1, <3>3, <3>4 DEF IntakeIInv, OneEventPerBlock
      <3> QED
        BY <3>2, <3>3, <3>5
    <2> QED
      BY <2>2, <2>3 DEF RowsAreRegistrations
  <1>2. IntakeIInv => RegistrationsAreSpentOnce
    BY <1>1 DEF IntakeIInv, RegistrationsAreSpentOnce
  <1> QED
    BY <1>2, IntakeInductive, PTL

----------------------------------------------------------------------------
(* The reader of the chain.                                                *)

Searches == [stage : {"off", "head", "tip", "back", "bisect", "future", "found"},
             when : Int, top : Int, low : Int, high : Int, step : Int]
Payments == [stage : {"unasked", "head", "events", "stamp", "resolved", "refused", "ambiguous", "unavailable"},
             cited : Nat \X (Nat \cup {Unnamed}), found : {<<>>} \cup (Int \X Nat)]

ReadTypes ==
    /\ finalHead \in 1 .. Tip /\ content \in Contents /\ lockTurns \in Seq(ReadCallers)
    /\ phase \in [ReadCallers -> {"idle", "waiting", "reading", "dropping"}] /\ using \in [ReadCallers -> Nat]
    /\ current \in [Networks -> Nat] /\ clientsMade \in Nat
    /\ search \in Searches /\ payment \in [Payers -> Payments]

\* Who is in line is there once, and only its head drives a client.
LineInv ==
    /\ \A i, j \in 1 .. Len(lockTurns) : lockTurns[i] = lockTurns[j] => i = j
    /\ \A r \in ReadCallers : phase[r] # "idle" <=> \E i \in 1 .. Len(lockTurns) : lockTurns[i] = r
    /\ \A r \in ReadCallers : phase[r] \in {"reading", "dropping"} => lockTurns[1] = r

\* A client that is dropped was forgotten before, and a new one is nobody's.
ClientInv ==
    /\ \A n \in Networks : current[n] <= clientsMade
    /\ \A r \in ReadCallers :
          /\ phase[r] \in {"reading", "dropping"} => using[r] \in 1 .. clientsMade
          /\ phase[r] = "dropping" => using[r] \notin Range(current)
    /\ \A t \in left : t[2] \in 1 .. clientsMade /\ t[2] \notin Range(current)
    /\ ConnectionsAreClosed

\* The block looked for lies between a height that is too early and one that is late enough.
SearchInv ==
    /\ phase[Searcher] \in {"waiting", "reading"} => search.stage \in {"head", "tip", "back", "bisect"}
    /\ search.stage # "off" => search.when \in Whens
    /\ search.stage \in {"tip", "back"} => search.top \in 1 .. Tip
    /\ search.stage = "back" => search.low = 1 /\ search.step \in Nat \ {0} /\ search.top - search.step > 1
    /\ search.stage \in {"back", "bisect", "found"} =>
          /\ search.low \in 1 .. Tip /\ TimeOf[search.low] < search.when
          /\ search.high \in 1 .. Tip /\ TimeOf[search.high] >= search.when
    /\ search.stage = "found" => search.low + 1 >= search.high

\* What was read of a block that is final is still there.
PaymentOK(p) ==
    /\ phase[p] \in {"waiting", "reading"} => payment[p].stage \in {"head", "events", "stamp"}
    /\ payment[p].stage \in {"events", "stamp", "resolved"} => PaidBlock <= finalHead
    /\ payment[p].stage \in {"stamp", "resolved"} => Cited(p) = {payment[p].found}

PaymentInv == \A p \in Payers : PaymentOK(p)

ReadsIInv == ReadTypes /\ LineInv /\ ClientInv /\ SearchInv /\ PaymentInv

----------------------------------------------------------------------------
(* Removing one position of a line keeps the order of the others.          *)
LEMMA WithoutPosition ==
    ASSUME NEW S, NEW s \in Seq(S), NEW i \in 1 .. Len(s),
           NEW t, t = SubSeq(s, 1, i - 1) \o SubSeq(s, i + 1, Len(s))
    PROVE  /\ t \in Seq(S) /\ Len(t) = Len(s) - 1
           /\ \A j \in 1 .. Len(t) : t[j] = s[IF j < i THEN j ELSE j + 1]
<1>1. /\ Len(s) \in Nat /\ i \in Nat /\ 1 \in Int /\ i - 1 \in Int /\ i + 1 \in Int /\ Len(s) \in Int
      /\ (\A j \in 1 .. i - 1 : s[j] \in S) /\ (\A j \in i + 1 .. Len(s) : s[j] \in S)
  OBVIOUS
<1>2. PICK a : a = SubSeq(s, 1, i - 1)
  OBVIOUS
<1>3. PICK b : b = SubSeq(s, i + 1, Len(s))
  OBVIOUS
<1>4. /\ a \in Seq(S) /\ Len(a) = i - 1
      /\ \A j \in 1 .. i - 1 : a[j] = s[j]
  <2>1. a \in Seq(S) /\ Len(a) = IF 1 <= i - 1 THEN i - 1 - 1 + 1 ELSE 0
    BY <1>1, <1>2, SubSeqProperties
  <2>2. \A j \in 1 .. i - 1 - 1 + 1 : a[j] = s[1 + j - 1]
    BY <1>1, <1>2, SubSeqProperties
  <2>3. i - 1 - 1 + 1 = i - 1 /\ (IF 1 <= i - 1 THEN i - 1 - 1 + 1 ELSE 0) = i - 1 /\ i \in Int
    BY <1>1
  <2>4. Len(a) = i - 1
    BY <2>1, <2>3, Zenon
  <2>5. ASSUME NEW j \in 1 .. i - 1 PROVE a[j] = s[j]
    <3>1. 1 + j - 1 = j /\ j \in 1 .. i - 1 - 1 + 1
      BY <2>3
    <3> QED BY <2>2, <3>1
  <2> QED BY <2>1, <2>4, <2>5
<1>5. /\ b \in Seq(S) /\ Len(b) = Len(s) - i
      /\ \A j \in 1 .. Len(s) - i : b[j] = s[i + j]
  <2>1. b \in Seq(S) /\ Len(b) = IF i + 1 <= Len(s) THEN Len(s) - (i + 1) + 1 ELSE 0
    BY <1>1, <1>3, SubSeqProperties
  <2>2. \A j \in 1 .. Len(s) - (i + 1) + 1 : b[j] = s[i + 1 + j - 1]
    BY <1>1, <1>3, SubSeqProperties
  <2>3. /\ Len(s) - (i + 1) + 1 = Len(s) - i /\ Len(s) - i \in Int /\ i \in Int
        /\ (IF i + 1 <= Len(s) THEN Len(s) - (i + 1) + 1 ELSE 0) = Len(s) - i
    BY <1>1
  <2>4. Len(b) = Len(s) - i
    BY <2>1, <2>3, Zenon
  <2>5. ASSUME NEW j \in 1 .. Len(s) - i PROVE b[j] = s[i + j]
    <3>0. PICK n \in Int : n = Len(s) - i
      BY <2>3
    <3>1. i + 1 + j - 1 = i + j
      <4>1. i \in Int /\ n \in Int /\ j \in 1 .. n
        BY <1>1, <3>0
      <4> QED BY ONLY <4>1
    <3>2. j \in 1 .. Len(s) - (i + 1) + 1
      BY <2>3, Zenon
    <3> QED BY <2>2, <3>1, <3>2
  <2> QED BY <2>1, <2>4, <2>5
<1>6. t = a \o b
  BY <1>2, <1>3
<1>7. t \in Seq(S) /\ Len(t) = Len(a) + Len(b)
  BY <1>4, <1>5, <1>6, ConcatProperties
<1>8. \A j \in 1 .. Len(a) + Len(b) : (a \o b)[j] = IF j <= Len(a) THEN a[j] ELSE b[j - Len(a)]
  <2>1. a \in Seq(S) /\ b \in Seq(S)
    BY <1>4, <1>5
  <2> QED BY <2>1, ConcatProperties
<1>9. Len(t) = Len(s) - 1
  <2>1. Len(a) = i - 1 /\ Len(b) = Len(s) - i /\ Len(t) = Len(a) + Len(b) /\ Len(s) \in Nat /\ i \in Nat
    BY <1>1, <1>4, <1>5, <1>7
  <2> QED BY ONLY <2>1
<1>10. ASSUME NEW j \in 1 .. Len(s) - 1 PROVE t[j] = s[IF j < i THEN j ELSE j + 1]
  <2>1. t[j] = IF j <= i - 1 THEN a[j] ELSE b[j - (i - 1)]
    <3>1. j \in 1 .. Len(a) + Len(b) /\ Len(a) = i - 1
      BY <1>4, <1>7, <1>9
    <3> QED BY <1>6, <1>8, <3>1
  <2>2. Len(s) \in Nat /\ i \in Nat /\ j \in 1 .. Len(s) - 1
    BY <1>1
  <2>3. CASE j < i
    <3>1. j \in 1 .. i - 1 /\ j <= i - 1
      BY ONLY <2>2, <2>3
    <3>2. a[j] = s[j]
      BY <1>4, <3>1
    <3> QED BY <2>1, <2>3, <3>1, <3>2
  <2>4. CASE ~(j < i)
    <3>1. j - (i - 1) \in 1 .. Len(s) - i /\ i + (j - (i - 1)) = j + 1 /\ ~(j <= i - 1)
      BY ONLY <2>2, <2>4
    <3>2. b[j - (i - 1)] = s[j + 1]
      BY <1>5, <3>1
    <3> QED BY <2>1, <2>4, <3>1, <3>2
  <2> QED BY <2>3, <2>4
<1> QED BY <1>7, <1>9, <1>10

(* The line of the lock: a caller that asks joins at the end, one that is  *)
(* cancelled leaves it, one that was served leaves it at the head.         *)
LEMMA LineKeeps ==
    ASSUME ReadsIInv, ChainReadsNext
    PROVE  LineInv' /\ lockTurns' \in Seq(ReadCallers)
           /\ phase' \in [ReadCallers -> {"idle", "waiting", "reading", "dropping"}]
<1> USE DEF LineInv
<1>1. LineInv /\ lockTurns \in Seq(ReadCallers) /\ phase \in [ReadCallers -> {"idle", "waiting", "reading", "dropping"}]
  BY DEF ReadsIInv, ReadTypes
<1>2. CASE UNCHANGED <<lockTurns, phase>>
  BY <1>1, <1>2
<1>3. ASSUME NEW r \in ReadCallers, ask(r) PROVE LineInv' /\ lockTurns' \in Seq(ReadCallers)
           /\ phase' \in [ReadCallers -> {"idle", "waiting", "reading", "dropping"}]
  <2>1. phase[r] = "idle" /\ lockTurns' = Append(lockTurns, r) /\ phase' = [phase EXCEPT ![r] = "waiting"]
    BY <1>3 DEF ask
  <2>2. /\ lockTurns' \in Seq(ReadCallers) /\ Len(lockTurns') = Len(lockTurns) + 1
        /\ lockTurns'[Len(lockTurns) + 1] = r
        /\ \A i \in 1 .. Len(lockTurns) : lockTurns'[i] = lockTurns[i] /\ lockTurns[i] # r
    BY <1>1, <2>1
  <2>3. \A o \in ReadCallers : phase'[o] = IF o = r THEN "waiting" ELSE phase[o]
    BY <1>1, <2>1
  <2>4. \A o \in ReadCallers : phase'[o] # "idle" <=> \E i \in 1 .. Len(lockTurns') : lockTurns'[i] = o
    BY <1>1, <2>2, <2>3
  <2>5. \A i, j \in 1 .. Len(lockTurns') : lockTurns'[i] = lockTurns'[j] => i = j
    BY <1>1, <2>2
  <2>6. \A o \in ReadCallers : phase'[o] \in {"reading", "dropping"} => lockTurns'[1] = o
    BY <1>1, <2>2, <2>3
  <2> QED BY <1>1, <2>1, <2>2, <2>4, <2>5, <2>6
<1>4. ASSUME NEW r \in ReadCallers, leave_line(r) PROVE LineInv' /\ lockTurns' \in Seq(ReadCallers)
           /\ phase' \in [ReadCallers -> {"idle", "waiting", "reading", "dropping"}]
  <2>1. PICK i \in 1 .. Len(lockTurns) : /\ lockTurns[i] = r
             /\ lockTurns' = SubSeq(lockTurns, 1, i - 1) \o SubSeq(lockTurns, i + 1, Len(lockTurns))
    <3>1. DOMAIN lockTurns = 1 .. Len(lockTurns)
      BY <1>1
    <3> QED BY <1>4, <3>1, Zenon DEF leave_line
  <2>2. phase[r] = "waiting" /\ phase' = [phase EXCEPT ![r] = "idle"]
    BY <1>4 DEF leave_line
  <2>3. /\ lockTurns' \in Seq(ReadCallers) /\ Len(lockTurns') = Len(lockTurns) - 1
        /\ \A j \in 1 .. Len(lockTurns') : lockTurns'[j] = lockTurns[IF j < i THEN j ELSE j + 1]
    <3> HIDE DEF LineInv
    <3>1. lockTurns \in Seq(ReadCallers)
      BY <1>1
    <3>2. lockTurns' = SubSeq(lockTurns, 1, i - 1) \o SubSeq(lockTurns, i + 1, Len(lockTurns))
      BY <2>1
    <3>3. \A t : t = SubSeq(lockTurns, 1, i - 1) \o SubSeq(lockTurns, i + 1, Len(lockTurns))
                  => /\ t \in Seq(ReadCallers) /\ Len(t) = Len(lockTurns) - 1
                     /\ \A j \in 1 .. Len(t) : t[j] = lockTurns[IF j < i THEN j ELSE j + 1]
      BY ONLY <3>1, i \in 1 .. Len(lockTurns), WithoutPosition
    <3> QED BY ONLY <3>2, <3>3
  <2>4. \A o \in ReadCallers : phase'[o] = IF o = r THEN "idle" ELSE phase[o]
    BY <1>1, <2>2
  <2>length. Len(lockTurns) \in Nat
    BY <1>1
  <2>5. ASSUME NEW j \in 1 .. Len(lockTurns'), NEW k \in 1 .. Len(lockTurns'), lockTurns'[j] = lockTurns'[k] PROVE j = k
    <3> DEFINE at(m) == IF m < i THEN m ELSE m + 1
    <3>1. at(j) \in 1 .. Len(lockTurns) /\ at(k) \in 1 .. Len(lockTurns)
      BY <2>length, <2>3
    <3>2. lockTurns[at(j)] = lockTurns[at(k)]
      BY <2>3, <2>5, Zenon
    <3>3. at(j) = at(k)
      BY <1>1, <3>1, <3>2, Zenon
    <3> QED BY <2>length, <2>3, <3>3
  <2>6. ASSUME NEW o \in ReadCallers PROVE phase'[o] # "idle" <=> \E j \in 1 .. Len(lockTurns') : lockTurns'[j] = o
    <3>1. CASE o = r
      <4>1. ASSUME NEW j \in 1 .. Len(lockTurns') PROVE lockTurns'[j] # r
        <5> DEFINE at == IF j < i THEN j ELSE j + 1
        <5>1. at \in 1 .. Len(lockTurns) /\ at # i
          BY <2>length, <2>3
        <5>2. lockTurns'[j] = lockTurns[at]
          BY <2>3, Zenon
        <5> HIDE DEF at
        <5> QED BY <1>1, <2>1, <5>1, <5>2
      <4> QED BY <2>4, <3>1, <4>1
    <3>2. ASSUME o # r, phase'[o] # "idle" PROVE \E j \in 1 .. Len(lockTurns') : lockTurns'[j] = o
      <4>1. PICK k \in 1 .. Len(lockTurns) : lockTurns[k] = o
        BY <1>1, <2>4, <3>2
      <4>2. k # i
        BY <2>1, <3>2, <4>1
      <4>3. CASE k < i
        BY <1>1, <2>3, <4>1, <4>3
      <4>4. CASE k > i
        <5>1. k - 1 \in 1 .. Len(lockTurns') /\ ~(k - 1 < i) /\ (k - 1) + 1 = k
          BY <1>1, <2>3, <4>4
        <5> QED BY <2>3, <4>1, <5>1
      <4> QED BY <4>2, <4>3, <4>4
    <3>3. ASSUME o # r, NEW j \in 1 .. Len(lockTurns'), lockTurns'[j] = o PROVE phase'[o] # "idle"
      <4> DEFINE at == IF j < i THEN j ELSE j + 1
      <4>1. at \in 1 .. Len(lockTurns)
        BY <2>length, <2>3
      <4>2. lockTurns[at] = o
        BY <2>3, <3>3, Zenon
      <4> HIDE DEF at
      <4>3. phase[o] # "idle"
        BY <1>1, <4>1, <4>2
      <4> QED BY <2>4, <3>3, <4>3
    <3> QED BY <3>1, <3>2, <3>3
  <2>7. ASSUME NEW o \in ReadCallers, phase'[o] \in {"reading", "dropping"} PROVE lockTurns'[1] = o
    <3>1. o # r /\ lockTurns[1] = o
      BY <1>1, <2>4, <2>7
    <3>2. 1 < i /\ 1 \in 1 .. Len(lockTurns')
      <4>1. i # 1
        BY <2>1, <3>1
      <4>2. i \in Nat /\ i > 1 /\ Len(lockTurns) > 1
        BY <2>length, <4>1
      <4>3. Len(lockTurns') = Len(lockTurns) - 1
        BY <2>3
      <4> HIDE DEF LineInv
      <4> QED BY <2>length, <4>2, <4>3
    <3> QED BY <2>3, <3>1, <3>2
  <2> QED BY <1>1, <2>2, <2>3, <2>5, <2>6, <2>7
<1>5. ASSUME NEW r \in ReadCallers, UNCHANGED lockTurns, lockTurns[1] = r, phase[r] # "idle",
             NEW p \in {"reading", "dropping"}, phase' = [phase EXCEPT ![r] = p]
      PROVE  LineInv' /\ lockTurns' \in Seq(ReadCallers)
             /\ phase' \in [ReadCallers -> {"idle", "waiting", "reading", "dropping"}]
  <2>1. \A o \in ReadCallers : phase'[o] = IF o = r THEN p ELSE phase[o]
    BY <1>1, <1>5
  <2> QED BY <1>1, <1>5, <2>1
<1>6. ASSUME NEW r \in ReadCallers, phase[r] \in {"reading", "dropping"}, Leave(r)
      PROVE  LineInv' /\ lockTurns' \in Seq(ReadCallers)
             /\ phase' \in [ReadCallers -> {"idle", "waiting", "reading", "dropping"}]
  <2>1. lockTurns' = Tail(lockTurns) /\ phase' = [phase EXCEPT ![r] = "idle"] /\ lockTurns[1] = r /\ Len(lockTurns) >= 1
    BY <1>1, <1>6 DEF Leave
  <2>2. /\ lockTurns' \in Seq(ReadCallers) /\ Len(lockTurns') = Len(lockTurns) - 1
        /\ \A j \in 1 .. Len(lockTurns') : lockTurns'[j] = lockTurns[j + 1] /\ lockTurns[j + 1] # r
    BY <1>1, <2>1
  <2>3. \A o \in ReadCallers : phase'[o] = IF o = r THEN "idle" ELSE phase[o]
    BY <1>1, <2>1
  <2>4. \A j, k \in 1 .. Len(lockTurns') : lockTurns'[j] = lockTurns'[k] => j = k
    BY <1>1, <2>2, SMTT(60)
  <2>5. ASSUME NEW o \in ReadCallers PROVE phase'[o] # "idle" <=> \E j \in 1 .. Len(lockTurns') : lockTurns'[j] = o
    <3>1. CASE o = r
      BY <2>2, <2>3, <3>1
    <3>2. ASSUME o # r, phase'[o] # "idle" PROVE \E j \in 1 .. Len(lockTurns') : lockTurns'[j] = o
      <4>1. PICK k \in 1 .. Len(lockTurns) : lockTurns[k] = o
        BY <1>1, <2>3, <3>2
      <4>2. k - 1 \in 1 .. Len(lockTurns') /\ (k - 1) + 1 = k
        BY <1>1, <2>1, <2>2, <3>2, <4>1
      <4> QED BY <2>2, <4>1, <4>2
    <3>3. ASSUME o # r, NEW j \in 1 .. Len(lockTurns'), lockTurns'[j] = o PROVE phase'[o] # "idle"
      BY <1>1, <2>2, <2>3, <3>3
    <3> QED BY <3>1, <3>2, <3>3
  <2>6. ASSUME NEW o \in ReadCallers PROVE phase'[o] \notin {"reading", "dropping"}
    BY <1>1, <1>6, <2>1, <2>3
  <2> QED BY <1>1, <2>1, <2>2, <2>4, <2>5, <2>6
<1>7. CASE finalize \/ reorganize \/ search_again \/ _cleanup_finished \/ \E p \in Payers : cite(p)
  BY <1>2, <1>7 DEF finalize, reorganize, search_again, _cleanup_finished, cite, sourceVars
<1>8. ASSUME NEW r \in ReadCallers, _connect(r) PROVE LineInv' /\ lockTurns' \in Seq(ReadCallers)
             /\ phase' \in [ReadCallers -> {"idle", "waiting", "reading", "dropping"}]
  <2>1. phase[r] = "waiting" /\ lockTurns[1] = r /\ phase' = [phase EXCEPT ![r] = "reading"] /\ UNCHANGED lockTurns
    BY <1>1, <1>8 DEF _connect
  <2> QED BY <1>5, <2>1
<1>9. ASSUME NEW r \in ReadCallers, goes_wrong(r) PROVE LineInv' /\ lockTurns' \in Seq(ReadCallers)
             /\ phase' \in [ReadCallers -> {"idle", "waiting", "reading", "dropping"}]
  <2>1. phase[r] = "reading" /\ phase' = [phase EXCEPT ![r] = "dropping"] /\ UNCHANGED lockTurns
    BY <1>9 DEF goes_wrong
  <2> QED BY <1>1, <1>5, <2>1
<1>10. \A r \in ReadCallers : answered(r) \/ dropped(r) => phase[r] \in {"reading", "dropping"} /\ Leave(r)
  BY DEF answered, dropped
<1> QED BY <1>3, <1>4, <1>6, <1>7, <1>8, <1>9, <1>10 DEF ChainReadsNext, _read, ReadCallers

(* A reading or dropping caller stands at the head of the line, so there   *)
(* is one of them at most.                                                 *)
LEMMA OneAtWork ==
    ASSUME LineInv, NEW r \in ReadCallers, NEW o \in ReadCallers,
           phase[r] \in {"reading", "dropping"} \/ (phase[r] = "waiting" /\ lockTurns[1] = r),
           phase[o] \in {"reading", "dropping"}
    PROVE  o = r
BY DEF LineInv

ClientTypes == current \in [Networks -> Nat] /\ clientsMade \in Nat /\ using \in [ReadCallers -> Nat]

(* Clients: a new one has a number nobody has; one that goes is forgotten  *)
(* before it is closed, and what may live on in it is left behind after.   *)
LEMMA ClientsKeep ==
    ASSUME ReadsIInv, ChainReadsNext PROVE ClientTypes' /\ ClientInv'
<1>1. /\ ClientTypes /\ ClientInv /\ LineInv /\ lockTurns \in Seq(ReadCallers)
      /\ phase \in [ReadCallers -> {"idle", "waiting", "reading", "dropping"}]
  BY DEF ReadsIInv, ReadTypes, ClientTypes
<1>range. ASSUME NEW f, DOMAIN f = Networks, NEW c PROVE c \in Range(f) <=> c = f["head"] \/ c = f["archive"]
  BY <1>range DEF Range, Networks
<1>domain. DOMAIN current = Networks
  BY <1>1 DEF ClientTypes
<1>2. ASSUME UNCHANGED <<using, current, clientsMade, shut>>, left' \subseteq left,
             \A r \in ReadCallers : phase'[r] \in {"reading", "dropping"} => phase'[r] = phase[r]
      PROVE  ClientTypes' /\ ClientInv'
  BY <1>1, <1>2 DEF ClientTypes, ClientInv, ConnectionsAreClosed
<1>3. CASE finalize \/ reorganize \/ search_again \/ (\E p \in Payers : cite(p)) \/ _cleanup_finished
  <2>1. UNCHANGED <<using, current, clientsMade, shut, phase>> /\ left' \subseteq left
    BY <1>3 DEF finalize, reorganize, search_again, _cleanup_finished, cite, sourceVars
  <2> QED BY <1>2, <2>1
<1>4. ASSUME NEW r \in ReadCallers, ask(r) \/ leave_line(r) PROVE ClientTypes' /\ ClientInv'
  <2>1. UNCHANGED <<using, current, clientsMade, shut, left>> /\ phase' \in {[phase EXCEPT ![r] = "waiting"], [phase EXCEPT ![r] = "idle"]}
    BY <1>4 DEF ask, leave_line
  <2>2. \A o \in ReadCallers : phase'[o] \in {"reading", "dropping"} => phase'[o] = phase[o]
    BY <1>1, <2>1
  <2> QED BY <1>2, <2>1, <2>2
<1>5. ASSUME NEW r \in ReadCallers, _connect(r) PROVE ClientTypes' /\ ClientInv'
  <2> DEFINE n == NetworkOf(r)
  <2>1. n \in Networks
    BY DEF NetworkOf, Networks
  <2>2. phase[r] = "waiting" /\ lockTurns[1] = r /\ phase' = [phase EXCEPT ![r] = "reading"]
    BY <1>1, <1>5 DEF _connect
  <2>3. \A o \in ReadCallers : phase[o] \notin {"reading", "dropping"}
    BY <1>1, <2>2, OneAtWork
  <2>4. \A o \in ReadCallers : phase'[o] = IF o = r THEN "reading" ELSE phase[o]
    BY <1>1, <2>2
  <2>5. using' = [using EXCEPT ![r] = current'[n]] /\ UNCHANGED <<left, shut>>
    BY <1>5 DEF _connect
  <2>6. CASE current[n] = NoClient
    <3>1. clientsMade' = clientsMade + 1 /\ current' = [current EXCEPT ![n] = clientsMade + 1]
      BY <1>5, <2>6 DEF _connect
    <3> HIDE DEF n
    <3>2. ClientTypes' /\ using'[r] = clientsMade + 1 /\ DOMAIN current' = Networks
      BY <1>1, <2>1, <2>5, <3>1 DEF ClientTypes
    <3>3. \A m \in Networks : current'[m] = IF m = n THEN clientsMade + 1 ELSE current[m]
      BY <1>1, <2>1, <3>1 DEF ClientTypes
    <3>4. \A c : c \in Range(current') => c = clientsMade + 1 \/ c \in Range(current)
      BY <1>range, <1>domain, <3>2, <3>3 DEF Networks
    <3>5. \A c \in 1 .. clientsMade + 1 : c = clientsMade + 1 \/ c \in Range(current) => c \in Range(current')
      <4>1. ASSUME NEW c \in 1 .. clientsMade, c \in Range(current) PROVE c \in Range(current')
        <5>1. PICK m \in Networks : current[m] = c
          BY <1>range, <1>domain, <4>1 DEF Networks
        <5>2. m # n
          BY <1>1, <2>6, <5>1 DEF NoClient, ClientTypes
        <5> QED BY <1>range, <3>2, <3>3, <5>1, <5>2 DEF Networks
      <4>2. clientsMade + 1 \in Range(current')
        BY <1>range, <2>1, <3>2, <3>3 DEF Networks
      <4> QED BY <1>1, <4>1, <4>2, <3>4 DEF ClientTypes, ClientInv
    <3>6. \A m \in Networks : current'[m] <= clientsMade'
      BY <1>1, <3>1, <3>3 DEF ClientTypes, ClientInv
    <3>7. \A o \in ReadCallers : /\ phase'[o] \in {"reading", "dropping"} => using'[o] \in 1 .. clientsMade'
                                 /\ phase'[o] = "dropping" => using'[o] \notin Range(current')
      BY <1>1, <2>3, <2>4, <3>1, <3>2 DEF ClientTypes
    <3>8. ASSUME NEW t \in left' PROVE t[2] \in 1 .. clientsMade' /\ t[2] \notin Range(current')
      <4>1. t[2] \in 1 .. clientsMade /\ t[2] \notin Range(current)
        BY <1>1, <2>5 DEF ClientInv
      <4>2. t[2] \in 1 .. clientsMade + 1 /\ t[2] # clientsMade + 1
        BY <1>1, <4>1 DEF ClientTypes
      <4> QED BY <3>1, <3>4, <4>1, <4>2
    <3>9. ASSUME NEW c \in 1 .. clientsMade' PROVE c \in Range(current') \/ c \in shut'
      <4>1. c \in 1 .. clientsMade + 1 /\ (c # clientsMade + 1 => c \in 1 .. clientsMade)
        BY <1>1, <3>1 DEF ClientTypes
      <4>2. c # clientsMade + 1 => c \in Range(current) \/ c \in shut
        BY <1>1, <4>1 DEF ClientInv, ConnectionsAreClosed
      <4> QED BY <2>5, <3>5, <4>1, <4>2
    <3> QED BY <3>2, <3>6, <3>7, <3>8, <3>9 DEF ClientInv, ConnectionsAreClosed
  <2>7. CASE current[n] # NoClient
    <3>1. UNCHANGED <<clientsMade, current>>
      BY <1>5, <2>7 DEF _connect
    <3> HIDE DEF n
    <3>2. current[n] \in 1 .. clientsMade
      BY <1>1, <2>1, <2>7 DEF ClientTypes, ClientInv, NoClient
    <3>3. using' = [using EXCEPT ![r] = current[n]]
      BY <2>5, <3>1
    <3>4. ClientTypes' /\ using'[r] \in 1 .. clientsMade
      BY <1>1, <3>1, <3>2, <3>3 DEF ClientTypes
    <3> QED BY <1>1, <2>3, <2>4, <2>5, <3>1, <3>4 DEF ClientInv, ConnectionsAreClosed
  <2> QED BY <2>6, <2>7
<1>6. ASSUME NEW r \in ReadCallers, answered(r) PROVE ClientTypes' /\ ClientInv'
  <2>1. /\ UNCHANGED <<current, clientsMade, left, shut>> /\ using' = [using EXCEPT ![r] = NoClient]
        /\ phase' = [phase EXCEPT ![r] = "idle"]
    BY <1>6 DEF answered, Leave
  <2>2. \A o \in ReadCallers : /\ phase'[o] = IF o = r THEN "idle" ELSE phase[o]
                               /\ using'[o] = IF o = r THEN NoClient ELSE using[o]
    BY <1>1, <2>1 DEF ClientTypes
  <2>3. ClientTypes'
    BY <1>1, <2>1 DEF ClientTypes, NoClient
  <2> QED BY <1>1, <2>1, <2>2, <2>3 DEF ClientInv, ConnectionsAreClosed
<1>7. ASSUME NEW r \in ReadCallers, goes_wrong(r) PROVE ClientTypes' /\ ClientInv'
  <2> DEFINE u == using[r]
  <2>1. /\ phase[r] = "reading" /\ phase' = [phase EXCEPT ![r] = "dropping"] /\ UNCHANGED <<using, clientsMade>>
        /\ left' \in {left, left \cup {<<"read", u>>}}
        /\ current' = [n \in Networks |-> IF current[n] = u THEN NoClient ELSE current[n]]
        /\ shut' = shut \cup {u}
    BY <1>7 DEF goes_wrong, _drop
  <2>2. u \in 1 .. clientsMade
    BY <1>1, <2>1 DEF ClientInv
  <2> HIDE DEF u
  <2>3. ClientTypes' /\ DOMAIN current' = Networks
    BY <1>1, <2>1 DEF ClientTypes, NoClient
  <2>4. \A c \in 1 .. clientsMade : c \in Range(current') <=> c \in Range(current) /\ c # u
    BY <1>1, <1>range, <1>domain, <2>1, <2>3 DEF ClientTypes, NoClient, Networks
  <2>5. \A o \in ReadCallers : phase'[o] = IF o = r THEN "dropping" ELSE phase[o]
    BY <1>1, <2>1
  <2>6. \A o \in ReadCallers : phase'[o] \in {"reading", "dropping"} => o = r
    BY <1>1, <2>1, <2>5, OneAtWork
  <2>7. \A m \in Networks : current'[m] <= clientsMade'
    BY <1>1, <2>1 DEF ClientTypes, ClientInv, NoClient
  <2>8. \A t \in left' : t[2] \in 1 .. clientsMade' /\ t[2] \notin Range(current')
    BY <1>1, <2>1, <2>2, <2>4 DEF ClientInv
  <2>9. \A o \in ReadCallers : phase'[o] \in {"reading", "dropping"} => using'[o] \in 1 .. clientsMade' /\ using'[o] \notin Range(current')
    BY <2>1, <2>2, <2>4, <2>6 DEF u
  <2>10. ConnectionsAreClosed'
    BY <1>1, <2>1, <2>4 DEF ClientInv, ConnectionsAreClosed
  <2> QED BY <2>3, <2>7, <2>8, <2>9, <2>10 DEF ClientInv
<1>8. ASSUME NEW r \in ReadCallers, dropped(r) PROVE ClientTypes' /\ ClientInv'
  <2>1. /\ phase[r] = "dropping" /\ UNCHANGED <<current, clientsMade, shut>> /\ using' = [using EXCEPT ![r] = NoClient]
        /\ phase' = [phase EXCEPT ![r] = "idle"] /\ left' \in {left, left \cup {<<"close", using[r]>>}}
    BY <1>8 DEF dropped, Leave, close_is_bounded
  <2>2. \A o \in ReadCallers : /\ phase'[o] = IF o = r THEN "idle" ELSE phase[o]
                               /\ using'[o] = IF o = r THEN NoClient ELSE using[o]
    BY <1>1, <2>1 DEF ClientTypes
  <2>3. ClientTypes'
    BY <1>1, <2>1 DEF ClientTypes, NoClient
  <2>4. \A t \in left' : t[2] \in 1 .. clientsMade' /\ t[2] \notin Range(current')
    BY <1>1, <2>1 DEF ClientInv
  <2> QED BY <1>1, <2>1, <2>2, <2>3, <2>4 DEF ClientInv, ConnectionsAreClosed
<1> QED BY <1>3, <1>4, <1>5, <1>6, <1>7, <1>8 DEF ChainReadsNext, _read, ReadCallers

SearchTypes == search \in Searches /\ finalHead \in 1 .. Tip

(* Times and heights agree: of two blocks the later one is the higher one. *)
LEMMA TimeIsHeight ==
    ASSUME NEW low \in 1 .. Tip, NEW high \in 1 .. Tip, NEW when \in Int,
           TimeOf[low] < when, TimeOf[high] >= when
    PROVE  low < high
<1>1. TimeOf[low] \in Int /\ TimeOf[high] \in Int /\ low \in Int /\ high \in Int /\ low # high
  BY ChainReadsBounds DEF Tip
<1>2. high < low => TimeOf[high] < TimeOf[low]
  BY ChainReadsBounds
<1> QED BY <1>1, <1>2

(* One answer of the chain: the block looked for stays between a height    *)
(* that is too early and one that is late enough.                          *)
LEMMA SearchNarrows ==
    ASSUME ReadsIInv, search_goes_on, phase[Searcher] = "reading", phase'[Searcher] = "idle", UNCHANGED finalHead
    PROVE  SearchTypes' /\ SearchInv'
<1>1. /\ search \in Searches /\ SearchInv /\ finalHead \in 1 .. Tip /\ search.stage \in {"head", "tip", "back", "bisect"}
      /\ search.when \in Whens /\ search.when \in Int
  BY ChainReadsBounds DEF ReadsIInv, ReadTypes, SearchInv
<1>2. Tip \in Nat /\ 1 \in 1 .. Tip /\ TimeOf[1] < search.when /\ StepBlocks \in Nat \ {0} /\ TimeOf \in [1 .. Tip -> Int]
  BY <1>1, ChainReadsBounds DEF Tip
<1>3. SUFFICES search' \in Searches /\ SearchInv'
  BY <1>1, <1>3 DEF SearchTypes
<1>fields. ASSUME NEW nextStage \in {"tip", "future", "back", "bisect", "found"},
             NEW top \in Int, NEW low \in Int, NEW high \in Int, NEW stride \in Int,
             search' = [stage |-> nextStage, when |-> search.when, top |-> top, low |-> low, high |-> high, step |-> stride]
      PROVE  search' \in Searches
  BY ONLY <1>1, <1>fields DEF Searches
<1>types. search.top \in Int /\ search.low \in Int /\ search.high \in Int /\ search.step \in Int
  BY <1>1 DEF Searches
<1>4. CASE search.stage = "head"
  <2>1. search' = [search EXCEPT !.stage = "tip", !.top = finalHead]
    BY <1>4 DEF search_goes_on
  <2>2. search' = [stage |-> "tip", when |-> search.when, top |-> finalHead, low |-> search.low, high |-> search.high, step |-> search.step]
    BY <1>1, <2>1 DEF Searches
  <2>3. search' \in Searches
    BY <1>1, <1>fields, <1>types, <2>2
  <2> QED BY <1>1, <1>2, <2>2, <2>3 DEF SearchInv
<1>5. CASE search.stage = "tip"
  <2>1. Probe = search.top
    BY <1>5 DEF Probe
  <2>2. search' = IF TimeOf[search.top] < search.when THEN [search EXCEPT !.stage = "future"]
                  ELSE Back([search EXCEPT !.low = 1, !.high = search.top, !.step = StepBlocks])
    BY <1>5, <2>1 DEF search_goes_on, Learn
  <2>3. search.top \in 1 .. Tip /\ TimeOf[search.top] \in Int
    BY <1>1, <1>2, <1>5 DEF SearchInv
  <2>4. CASE TimeOf[search.top] < search.when
    BY <1>1, <1>2, <2>2, <2>4 DEF Searches, SearchInv
  <2>5. CASE ~(TimeOf[search.top] < search.when)
    <3> DEFINE nextStage == IF search.top - StepBlocks <= 1 THEN "bisect" ELSE "back"
    <3>1. search' = Back([search EXCEPT !.low = 1, !.high = search.top, !.step = StepBlocks])
      BY <2>2, <2>5
    <3>2. search' = [stage |-> nextStage, when |-> search.when, top |-> search.top, low |-> 1, high |-> search.top, step |-> StepBlocks]
      BY <1>1, <3>1 DEF Back, Searches
    <3>3. search' \in Searches
      BY <1>2, <1>fields, <1>types, <2>3, <3>2
    <3> QED BY <1>1, <1>2, <2>3, <2>5, <3>2, <3>3 DEF SearchInv
  <2> QED BY <2>4, <2>5
<1>6. CASE search.stage = "back"
  <2> DEFINE q == search.top - search.step
  <2>1. Probe = q
    BY <1>6 DEF Probe
  <2>2. search' = IF TimeOf[q] < search.when THEN [search EXCEPT !.low = q, !.stage = "bisect"]
                  ELSE Back([search EXCEPT !.high = q, !.step = 2 * @])
    BY <1>6, <2>1 DEF search_goes_on, Learn
  <2>3. q \in 1 .. Tip /\ TimeOf[q] \in Int /\ search.low = 1 /\ search.step \in Nat \ {0} /\ search.top \in 1 .. Tip
        /\ search.high \in 1 .. Tip /\ TimeOf[search.high] >= search.when
    BY <1>1, <1>2, <1>6 DEF SearchInv
  <2>4. CASE TimeOf[q] < search.when
    <3> HIDE DEF q
    <3>1. search' = [stage |-> "bisect", when |-> search.when, top |-> search.top, low |-> q, high |-> search.high, step |-> search.step]
      BY <1>1, <2>2, <2>4 DEF Searches
    <3>2. search' \in Searches
      BY <1>fields, <1>types, <2>3, <3>1
    <3> QED BY <1>1, <1>2, <2>3, <2>4, <3>1, <3>2 DEF SearchInv
  <2>5. CASE ~(TimeOf[q] < search.when)
    <3> DEFINE nextStage == IF search.top - 2 * search.step <= 1 THEN "bisect" ELSE "back"
    <3> HIDE DEF q
    <3>1. search' = Back([search EXCEPT !.high = q, !.step = 2 * @])
      BY <2>2, <2>5
    <3>2. search' = [stage |-> nextStage, when |-> search.when, top |-> search.top, low |-> search.low, high |-> q, step |-> 2 * search.step]
      BY <1>1, <3>1 DEF Back, Searches
    <3>stage. nextStage \in {"tip", "future", "back", "bisect", "found"}
      OBVIOUS
    <3>stride. 2 * search.step \in Int /\ q \in Int
      BY <1>2, <2>3
    <3>3. search' \in Searches
      <4> HIDE DEF nextStage
      <4>1. \A stride \in Int : search' = [stage |-> nextStage, when |-> search.when, top |-> search.top, low |-> search.low, high |-> q, step |-> stride]
                                 => search' \in Searches
        BY ONLY <1>types, <1>fields, <3>stage, <3>stride
      <4> QED BY ONLY <3>2, <3>stride, <4>1
    <3>4. TimeOf[q] >= search.when /\ 2 * search.step \in Nat \ {0} /\ TimeOf[1] < search.when
      BY <1>1, <1>2, <2>3, <2>5
    <3>5. nextStage = "back" => search.top - 2 * search.step > 1
      BY <1>types, <2>3
    <3> HIDE DEF nextStage
    <3>6. nextStage \in {"back", "bisect"}
      BY DEF nextStage
    <3> QED BY <1>1, <1>2, <2>3, <3>2, <3>3, <3>4, <3>5, <3>6 DEF SearchInv
  <2> QED BY <2>4, <2>5
<1>7. CASE search.stage = "bisect"
  <2> DEFINE m == (search.low + search.high) \div 2
  <2>1. /\ search.low \in 1 .. Tip /\ TimeOf[search.low] < search.when
        /\ search.high \in 1 .. Tip /\ TimeOf[search.high] >= search.when
    BY <1>1, <1>7 DEF SearchInv
  <2>2. CASE search.low + 1 < search.high
    <3>1. Probe = m
      BY <1>7, <2>2 DEF Probe
    <3>2. search' = IF TimeOf[m] < search.when THEN [search EXCEPT !.low = m] ELSE [search EXCEPT !.high = m]
      BY <1>7, <2>2, <3>1 DEF search_goes_on, Learn, Halve
    <3>3. m \in 1 .. Tip /\ TimeOf[m] \in Int
      <4>1. m >= search.low /\ m <= search.high /\ m \in Int
        BY <2>1, <2>2
      <4> HIDE DEF m
      <4> QED BY <1>2, <2>1, <4>1
    <3> HIDE DEF m
    <3>4. search' \in Searches
      BY <1>1, <3>2, <3>3 DEF Searches
    <3>5. ASSUME TimeOf[m] < search.when PROVE SearchInv'
      <4>1. search' = [stage |-> "bisect", when |-> search.when, top |-> search.top, low |-> m, high |-> search.high, step |-> search.step]
        BY <1>1, <1>7, <3>2, <3>5 DEF Searches
      <4> QED BY <1>1, <2>1, <3>3, <3>5, <4>1 DEF SearchInv
    <3>6. ASSUME ~(TimeOf[m] < search.when) PROVE SearchInv'
      <4>1. search' = [stage |-> "bisect", when |-> search.when, top |-> search.top, low |-> search.low, high |-> m, step |-> search.step]
        BY <1>1, <1>7, <3>2, <3>6 DEF Searches
      <4>2. TimeOf[m] >= search.when
        BY <1>1, <3>3, <3>6
      <4> QED BY <1>1, <2>1, <3>3, <4>1, <4>2 DEF SearchInv
    <3> QED BY <3>4, <3>5, <3>6
  <2>3. CASE ~(search.low + 1 < search.high)
    <3>1. search' = [search EXCEPT !.stage = "found"]
      BY <1>7, <2>3 DEF search_goes_on, Learn
    <3>2. search' = [stage |-> "found", when |-> search.when, top |-> search.top, low |-> search.low, high |-> search.high, step |-> search.step]
      BY <1>1, <3>1 DEF Searches
    <3>3. search' \in Searches
      BY <1>1, <1>fields, <1>types, <3>2
    <3>4. search.low + 1 >= search.high
      BY <1>types, <2>3
    <3> QED BY <1>1, <2>1, <3>2, <3>3, <3>4 DEF SearchInv
  <2> QED BY <2>2, <2>3
<1> QED BY <1>1, <1>4, <1>5, <1>6, <1>7

(* Starting over, from whatever head is found next.                        *)
LEMMA SearchStartsOver ==
    ASSUME ReadsIInv, search' = [SearchIdle EXCEPT !.when = search.when], search.when \in Whens,
           UNCHANGED finalHead
    PROVE  SearchTypes' /\ SearchInv'
<1>1. finalHead \in 1 .. Tip /\ search.when \in Int /\ StepBlocks \in Int
  BY ChainReadsBounds DEF ReadsIInv, ReadTypes
<1>2. search' = [stage |-> "head", when |-> search.when, top |-> 0, low |-> 1, high |-> 0, step |-> StepBlocks]
  BY DEF SearchIdle
<1>3. search' \in Searches
  BY ONLY <1>1, <1>2 DEF Searches
<1>4. SearchInv'
  BY <1>1, <1>2 DEF SearchInv
<1> QED BY <1>1, <1>3, <1>4 DEF SearchTypes

LEMMA SearchKeeps ==
    ASSUME ReadsIInv, ChainReadsNext PROVE SearchTypes' /\ SearchInv'
<1>1. /\ SearchTypes /\ SearchInv /\ phase \in [ReadCallers -> {"idle", "waiting", "reading", "dropping"}]
      /\ Searcher \in ReadCallers /\ Searcher \notin Payers /\ TimeOf \in Seq(Int) /\ Tip \in Nat
  BY ChainReadsBounds DEF ReadsIInv, ReadTypes, SearchTypes, ReadCallers, Tip
<1>2. ASSUME UNCHANGED search, finalHead' \in 1 .. Tip,
             phase'[Searcher] \in {"waiting", "reading"} => phase[Searcher] \in {"waiting", "reading"} \/ Reading(Searcher)
      PROVE  SearchTypes' /\ SearchInv'
  BY <1>1, <1>2 DEF SearchTypes, SearchInv, Reading
<1>3. CASE finalize
  BY <1>1, <1>2, <1>3 DEF finalize, sourceVars, SearchTypes
<1>4. CASE reorganize \/ _cleanup_finished \/ \E p \in Payers : cite(p)
  <2>1. UNCHANGED <<search, finalHead, phase>>
    BY <1>4 DEF reorganize, _cleanup_finished, cite, sourceVars
  <2> QED BY <1>1, <1>2, <2>1 DEF SearchTypes
<1>5. CASE search_again
  BY <1>1, <1>5, SearchStartsOver DEF search_again, SearchInv
<1>6. ASSUME NEW r \in ReadCallers, ask(r) \/ _connect(r) \/ dropped(r) PROVE SearchTypes' /\ SearchInv'
  <2>1. UNCHANGED <<search, finalHead>> /\ \/ ask(r) /\ Reading(r) /\ phase' = [phase EXCEPT ![r] = "waiting"]
                                           \/ phase[r] = "waiting" /\ phase' = [phase EXCEPT ![r] = "reading"]
                                           \/ phase' = [phase EXCEPT ![r] = "idle"]
    BY <1>6 DEF ask, _connect, dropped, Leave
  <2>2. phase'[Searcher] \in {"waiting", "reading"} => phase[Searcher] \in {"waiting", "reading"} \/ Reading(Searcher)
    BY <1>1, <2>1
  <2> QED BY <1>1, <1>2, <2>1, <2>2 DEF SearchTypes
<1>7. ASSUME NEW p \in Payers, leave_line(p) PROVE SearchTypes' /\ SearchInv'
  <2>1. UNCHANGED <<search, finalHead>> /\ phase' = [phase EXCEPT ![p] = "idle"]
    BY <1>7 DEF leave_line
  <2> QED BY <1>1, <1>2, <2>1 DEF SearchTypes
<1>8. ASSUME NEW r \in ReadCallers, answered(r) PROVE SearchTypes' /\ SearchInv'
  <2>1. phase[r] = "reading" /\ phase' = [phase EXCEPT ![r] = "idle"] /\ UNCHANGED finalHead
    BY <1>8 DEF answered, Leave
  <2>2. CASE r = Searcher
    BY <1>1, <1>8, <2>1, <2>2, SearchNarrows DEF answered
  <2>3. CASE r # Searcher
    <3>1. UNCHANGED search
      BY <1>8, <2>3 DEF answered, payment_goes_on
    <3> QED BY <1>1, <1>2, <2>1, <2>3, <3>1 DEF SearchTypes
  <2> QED BY <2>2, <2>3
<1>9. ASSUME NEW r \in ReadCallers, goes_wrong(r) PROVE SearchTypes' /\ SearchInv'
  <2>1. phase[r] = "reading" /\ phase' = [phase EXCEPT ![r] = "dropping"] /\ UNCHANGED finalHead /\ ChainUnavailable(r)
    BY <1>9 DEF goes_wrong
  <2>2. CASE r = Searcher
    <3>1. search.when \in Whens /\ search' = [SearchIdle EXCEPT !.when = search.when]
      BY <1>1, <2>1, <2>2 DEF SearchInv, ChainUnavailable
    <3> QED BY <2>1, <3>1, SearchStartsOver
  <2>3. CASE r # Searcher
    <3>1. UNCHANGED search
      BY <2>1, <2>3 DEF ChainUnavailable
    <3> QED BY <1>1, <1>2, <2>1, <2>3, <3>1 DEF SearchTypes
  <2> QED BY <2>2, <2>3
<1> QED BY <1>3, <1>4, <1>5, <1>6, <1>7, <1>8, <1>9 DEF ChainReadsNext, _read, ReadCallers

PaymentTypes == payment \in [Payers -> Payments] /\ content \in Contents

(* What a reference can mean: one extrinsic's events, a finite set.        *)
LEMMA CitedIsFinite ==
    ASSUME content \in Contents, NEW p PROVE IsFiniteSet(Cited(p)) /\ Cited(p) \subseteq Int \X Nat
<1>1. /\ content \in Seq([kind : STRING, extrinsic : Int, amount : Int])
      /\ Len(content) \in Nat /\ DOMAIN content = 1 .. Len(content)
  BY ChainReadsBounds
<1>2. ASSUME NEW t \in Cited(p)
      PROVE  t \in {payment[p].cited[1]} \X (1 .. Len(content)) /\ t \in Int \X Nat
  <2>1. PICK i \in 1 .. Len(content) : t = <<ExtrinsicOf(content[i]), i>>
    BY <1>1, <1>2 DEF Cited, InExtrinsic, transfers_in_events
  <2>2. t[1] = payment[p].cited[1]
    BY <1>2 DEF Cited, InExtrinsic
  <2>3. content[i] \in [kind : STRING, extrinsic : Int, amount : Int]
    <3> DEFINE E == [kind : STRING, extrinsic : Int, amount : Int]
    <3>1. content \in Seq(E)
      BY <1>1
    <3> HIDE DEF E
    <3>2. content[i] \in E
      BY <3>1
    <3> QED BY <3>2 DEF E
  <2>4. content[i].extrinsic \in Int
    BY ONLY <2>3
  <2>5. ExtrinsicOf(content[i]) \in Int
    BY <2>4 DEF ExtrinsicOf
  <2> QED BY <1>1, <2>1, <2>2, <2>5
<1>3. IsFiniteSet({payment[p].cited[1]}) /\ IsFiniteSet(1 .. Len(content))
  <2>1. \A x : IsFiniteSet({x})
    BY FS_Singleton
  <2>2. IsFiniteSet({payment[p].cited[1]})
    BY <2>1, Zenon
  <2> QED BY <1>1, <2>2, FS_Interval
<1>4. IsFiniteSet({payment[p].cited[1]} \X (1 .. Len(content)))
  BY <1>3, FS_Product
<1>5. Cited(p) \in SUBSET ({payment[p].cited[1]} \X (1 .. Len(content)))
  BY <1>2
<1>6. IsFiniteSet(Cited(p))
  BY <1>4, <1>5, FS_Subset
<1> QED BY <1>2, <1>6

(* Two transfers never pass for one: what is left is the only one there.   *)
LEMMA OnlyOneIsMeant ==
    ASSUME NEW S, IsFiniteSet(S), S # {}, ~(Cardinality(S) > 1)
    PROVE  S = {CHOOSE t \in S : TRUE}
<1>1. Cardinality(S) = 1
  <2>1. Cardinality(S) \in Nat /\ Cardinality(S) # 0
    BY FS_CardinalityType, FS_EmptySet
  <2> QED BY <2>1
<1>2. PICK x : S = {x}
  BY <1>1, FS_Singleton
<1> QED BY <1>2

(* What a step leaves of the payments it is not about.                     *)
LEMMA OtherPayments ==
    ASSUME ReadsIInv, NEW o \in Payers, payment'[o] = payment[o], UNCHANGED content,
           finalHead' \in 1 .. Tip, finalHead <= finalHead',
           phase'[o] \in {"waiting", "reading"} => phase[o] \in {"waiting", "reading"} \/ payment[o].stage \in {"head", "events", "stamp"}
    PROVE  PaymentOK(o)'
<1>1. PaymentOK(o) /\ finalHead \in Int /\ finalHead' \in Int /\ PaidBlock \in Int
  BY ChainReadsBounds DEF ReadsIInv, ReadTypes, PaymentInv
<1>2. Cited(o)' = Cited(o)
  BY DEF Cited, InExtrinsic
<1> QED BY <1>1, <1>2 DEF PaymentOK

(* One answer of the chain about a payment.                                *)
LEMMA PaymentGoesOn ==
    ASSUME ReadsIInv, NEW p \in Payers, payment_goes_on(p), phase[p] = "reading", phase'[p] = "idle",
           UNCHANGED <<content, finalHead>>
    PROVE  payment' \in [Payers -> Payments] /\ PaymentOK(p)'
<1>1. /\ payment \in [Payers -> Payments] /\ content \in Contents /\ PaymentOK(p) /\ payment[p] \in Payments
      /\ payment[p].stage \in {"head", "events", "stamp"} /\ finalHead \in Int /\ PaidBlock \in Int
  BY ChainReadsBounds DEF ReadsIInv, ReadTypes, PaymentInv, PaymentOK
<1>2. IsFiniteSet(Cited(p)) /\ Cited(p) \subseteq Int \X Nat
  BY <1>1, CitedIsFinite
<1>3. ASSUME payment'[p].cited = payment[p].cited PROVE Cited(p)' = Cited(p)
  BY <1>3 DEF Cited, InExtrinsic
<1>4. CASE payment[p].stage = "head"
  <2>1. payment' = [payment EXCEPT ![p] = final_or_refused(p)]
    BY <1>4 DEF payment_goes_on
  <2>2. final_or_refused(p) \in Payments
    BY <1>1 DEF final_or_refused, Payments
  <2>3. payment'[p] = [payment[p] EXCEPT !.stage = IF PaidBlock > finalHead THEN "refused" ELSE "events"]
    BY <1>1, <2>1 DEF final_or_refused
  <2>4. payment'[p].stage = IF PaidBlock > finalHead THEN "refused" ELSE "events"
    BY <1>1, <2>3 DEF Payments
  <2> QED BY <1>1, <2>1, <2>2, <2>4 DEF PaymentOK
<1>5. CASE payment[p].stage = "events"
  <2>1. payment' = [payment EXCEPT ![p] = resolved(p)]
    BY <1>5 DEF payment_goes_on
  <2>2. CASE Cited(p) = {} \/ Cardinality(Cited(p)) > 1
    <3>1. PICK nextStage \in {"refused", "ambiguous"} : resolved(p) = [payment[p] EXCEPT !.stage = nextStage]
      BY <2>2 DEF resolved
    <3>2. resolved(p) \in Payments /\ resolved(p).stage \in {"refused", "ambiguous"}
      BY <1>1, <3>1 DEF Payments
    <3>3. payment'[p].stage \in {"refused", "ambiguous"}
      BY <1>1, <2>1, <3>2
    <3> QED BY <1>1, <2>1, <3>2, <3>3 DEF PaymentOK
  <2>3. CASE ~(Cited(p) = {} \/ Cardinality(Cited(p)) > 1)
    <3> DEFINE found == CHOOSE t \in Cited(p) : TRUE
    <3>1. resolved(p) = [payment[p] EXCEPT !.stage = "stamp", !.found = found]
      BY <2>3 DEF resolved
    <3>2. Cited(p) = {found}
      BY <1>2, <2>3, OnlyOneIsMeant
    <3> HIDE DEF found
    <3>3. resolved(p) = [stage |-> "stamp", cited |-> payment[p].cited, found |-> found]
      BY <1>1, <3>1 DEF Payments
    <3>4. payment[p].cited \in Nat \X (Nat \cup {Unnamed}) /\ found \in Int \X Nat
      BY <1>1, <1>2, <3>2 DEF Payments
    <3>5. resolved(p) \in Payments
      BY ONLY <3>3, <3>4 DEF Payments
    <3>6. payment'[p] = [stage |-> "stamp", cited |-> payment[p].cited, found |-> found]
      BY <1>1, <2>1, <3>3
    <3>7. Cited(p)' = {found}
      BY <1>3, <3>2, <3>6
    <3> QED BY <1>1, <1>5, <2>1, <3>5, <3>6, <3>7 DEF PaymentOK
  <2> QED BY <2>2, <2>3
<1>6. CASE payment[p].stage = "stamp"
  <2>1. payment' = [payment EXCEPT ![p].stage = "resolved"]
    BY <1>6 DEF payment_goes_on
  <2>2. /\ payment' \in [Payers -> Payments] /\ payment'[p].stage = "resolved"
        /\ payment'[p].cited = payment[p].cited /\ payment'[p].found = payment[p].found
    BY <1>1, <2>1 DEF Payments
  <2>3. Cited(p)' = Cited(p)
    BY <1>3, <2>2
  <2> QED BY <1>1, <1>6, <2>2, <2>3 DEF PaymentOK
<1> QED BY <1>1, <1>4, <1>5, <1>6

LEMMA PaymentsKeep ==
    ASSUME ReadsIInv, ChainReadsNext PROVE PaymentTypes' /\ finalHead' \in 1 .. Tip /\ PaymentInv'
<1>1. /\ PaymentTypes /\ PaymentInv /\ phase \in [ReadCallers -> {"idle", "waiting", "reading", "dropping"}]
      /\ Searcher \in ReadCallers /\ Searcher \notin Payers /\ Payers \subseteq ReadCallers
      /\ finalHead \in 1 .. Tip /\ finalHead \in Int /\ Tip \in Nat /\ PaidBlock \in 1 .. Tip
      /\ payment \in [Payers -> Payments]
  BY ChainReadsBounds DEF ReadsIInv, ReadTypes, PaymentTypes, ReadCallers, Tip
<1> DEFINE Goal == PaymentTypes' /\ finalHead' \in 1 .. Tip /\ PaymentInv'
<1>2. ASSUME UNCHANGED <<payment, content>>, finalHead' \in 1 .. Tip, finalHead <= finalHead',
             \A o \in Payers : phase'[o] \in {"waiting", "reading"} =>
                  phase[o] \in {"waiting", "reading"} \/ payment[o].stage \in {"head", "events", "stamp"}
      PROVE  Goal
  <2>1. \A o \in Payers : PaymentOK(o)'
    BY <1>2, OtherPayments
  <2> QED BY <1>1, <1>2, <2>1 DEF PaymentTypes, PaymentInv
<1>3. ASSUME NEW p \in Payers, NEW s \in {"unavailable", "head"}, NEW c \in Nat \X (Nat \cup {Unnamed}),
             payment' = [payment EXCEPT ![p].stage = s, ![p].cited = c], UNCHANGED <<content, finalHead>>,
             phase'[p] \in {"idle", "dropping"} \/ s = "head", \A o \in Payers \ {p} : phase'[o] = phase[o]
      PROVE  Goal
  <2>1. /\ payment' \in [Payers -> Payments] /\ payment'[p].stage = s
        /\ \A o \in Payers \ {p} : payment'[o] = payment[o]
    <3>1. payment' = [payment EXCEPT ![p] = [stage |-> s, cited |-> c, found |-> payment[p].found]]
      <4>1. payment[p] \in Payments
        BY <1>1
      <4>2. PICK q : q = [payment[p] EXCEPT !.stage = s, !.cited = c]
        OBVIOUS
      <4>3. q = [stage |-> s, cited |-> c, found |-> payment[p].found]
        BY ONLY <4>1, <4>2 DEF Payments
      <4>4. payment' = [payment EXCEPT ![p] = q]
        BY <1>1, <1>3, <4>2
      <4> QED BY <4>3, <4>4
    <3>2. payment[p].found \in {<<>>} \cup (Int \X Nat)
      BY <1>1 DEF Payments
    <3>3. [stage |-> s, cited |-> c, found |-> payment[p].found] \in Payments
      BY <1>3, <3>2 DEF Payments
    <3> QED BY <1>1, <3>1, <3>3
  <2>2. PaymentOK(p)'
    BY <1>3, <2>1 DEF PaymentOK
  <2>3. \A o \in Payers \ {p} : PaymentOK(o)'
    BY <1>1, <1>3, <2>1, OtherPayments
  <2> QED BY <1>1, <1>3, <2>1, <2>2, <2>3 DEF PaymentTypes, PaymentInv
<1>4. CASE finalize
  <2>1. UNCHANGED <<payment, content, phase>> /\ finalHead' = finalHead + 1 /\ finalHead < Tip
    BY <1>4 DEF finalize, sourceVars
  <2> QED BY <1>1, <1>2, <2>1
<1>5. CASE reorganize
  <2>1. UNCHANGED <<payment, finalHead, phase>> /\ content' \in Contents /\ finalHead < PaidBlock
    BY <1>5 DEF reorganize, sourceVars
  <2>2. \A o \in Payers : payment[o].stage \notin {"events", "stamp", "resolved"}
    BY <1>1, <2>1 DEF PaymentInv, PaymentOK
  <2> QED BY <1>1, <2>1, <2>2 DEF PaymentTypes, PaymentInv, PaymentOK
<1>6. CASE search_again \/ _cleanup_finished
  <2>1. UNCHANGED <<payment, content, phase, finalHead>>
    BY <1>6 DEF search_again, _cleanup_finished, sourceVars
  <2> QED BY <1>1, <1>2, <2>1
<1>7. ASSUME NEW p \in Payers, cite(p) PROVE Goal
  <2>1. PICK c \in Citations : payment' = [payment EXCEPT ![p].stage = "head", ![p].cited = c]
    BY <1>7 DEF cite
  <2>2. UNCHANGED <<content, finalHead, phase>>
    BY <1>7 DEF cite, sourceVars
  <2>3. c \in Nat \X (Nat \cup {Unnamed})
    BY ChainReadsBounds
  <2> QED BY <1>3, <2>1, <2>2, <2>3
<1>8. ASSUME NEW p \in Payers, payment' = [payment EXCEPT ![p].stage = "unavailable"], UNCHANGED <<content, finalHead>>,
             NEW s \in {"idle", "dropping"}, phase' = [phase EXCEPT ![p] = s]
      PROVE  Goal
  <2>1. payment' = [payment EXCEPT ![p].stage = "unavailable", ![p].cited = payment[p].cited]
    BY <1>1, <1>8 DEF Payments
  <2>2. payment[p].cited \in Nat \X (Nat \cup {Unnamed})
    BY <1>1 DEF Payments
  <2>3. phase'[p] = s /\ \A o \in Payers \ {p} : phase'[o] = phase[o]
    BY <1>1, <1>8
  <2> QED BY <1>3, <1>8, <2>1, <2>2, <2>3
<1>9. ASSUME NEW p \in Payers, leave_line(p) PROVE Goal
  BY <1>8, <1>9 DEF leave_line
<1>10. ASSUME NEW r \in ReadCallers, ask(r) \/ _connect(r) \/ dropped(r) PROVE Goal
  <2>1. UNCHANGED <<payment, content, finalHead>>
    BY <1>10 DEF ask, _connect, dropped
  <2>2. ASSUME NEW o \in Payers, phase'[o] \in {"waiting", "reading"}
        PROVE  phase[o] \in {"waiting", "reading"} \/ payment[o].stage \in {"head", "events", "stamp"}
    <3>1. CASE ask(r)
      <4>1. phase' = [phase EXCEPT ![r] = "waiting"] /\ (r = o => payment[o].stage \in {"head", "events", "stamp"})
        BY <1>1, <3>1 DEF ask, Reading
      <4> QED BY <1>1, <2>2, <4>1
    <3>2. CASE _connect(r)
      <4>1. phase' = [phase EXCEPT ![r] = "reading"] /\ phase[r] = "waiting"
        BY <3>2 DEF _connect
      <4> QED BY <1>1, <2>2, <4>1
    <3>3. CASE dropped(r)
      <4>1. phase' = [phase EXCEPT ![r] = "idle"]
        BY <3>3 DEF dropped, Leave
      <4> QED BY <1>1, <2>2, <4>1
    <3> QED BY <1>10, <3>1, <3>2, <3>3
  <2> QED BY <1>1, <1>2, <2>1, <2>2
<1>11. ASSUME NEW r \in ReadCallers, answered(r) PROVE Goal
  <2>1. phase[r] = "reading" /\ phase' = [phase EXCEPT ![r] = "idle"] /\ UNCHANGED <<finalHead, content>>
    BY <1>11 DEF answered, Leave
  <2>2. phase'[r] = "idle" /\ \A o \in ReadCallers \ {r} : phase'[o] = phase[o]
    BY <1>1, <2>1
  <2>3. CASE r = Searcher
    <3>1. UNCHANGED payment
      BY <1>11, <2>3 DEF answered, search_goes_on
    <3> QED BY <1>1, <1>2, <2>1, <2>2, <2>3, <3>1
  <2>4. CASE r \in Payers
    <3>1. payment_goes_on(r)
      BY <1>1, <1>11, <2>4 DEF answered
    <3>2. payment' \in [Payers -> Payments] /\ PaymentOK(r)'
      BY <2>1, <2>2, <2>4, <3>1, PaymentGoesOn
    <3>3. \A o \in Payers \ {r} : payment'[o] = payment[o]
      BY <1>1, <3>1 DEF payment_goes_on
    <3>4. \A o \in Payers \ {r} : PaymentOK(o)'
      BY <1>1, <2>1, <2>2, <3>3, OtherPayments
    <3> QED BY <1>1, <2>1, <3>2, <3>4 DEF PaymentTypes, PaymentInv
  <2> QED BY <2>3, <2>4 DEF ReadCallers
<1>12. ASSUME NEW r \in ReadCallers, goes_wrong(r) PROVE Goal
  <2>1. phase[r] = "reading" /\ phase' = [phase EXCEPT ![r] = "dropping"] /\ UNCHANGED <<finalHead, content>> /\ ChainUnavailable(r)
    BY <1>12 DEF goes_wrong
  <2>2. CASE r = Searcher
    <3>1. UNCHANGED payment /\ \A o \in Payers : phase'[o] = phase[o]
      BY <1>1, <2>1, <2>2 DEF ChainUnavailable
    <3> QED BY <1>1, <1>2, <2>1, <3>1
  <2>3. CASE r \in Payers
    <3>1. payment' = [payment EXCEPT ![r].stage = "unavailable"]
      BY <1>1, <2>1, <2>3 DEF ChainUnavailable
    <3> QED BY <1>8, <2>1, <2>3, <3>1
  <2> QED BY <2>2, <2>3 DEF ReadCallers
<1> QED BY <1>4, <1>5, <1>6, <1>7, <1>9, <1>10, <1>11, <1>12 DEF ChainReadsNext, _read

LEMMA ReadsStart == ChainReadsInit => ReadsIInv
<1> SUFFICES ASSUME ChainReadsInit PROVE ReadsIInv
  OBVIOUS
<1>1. /\ finalHead \in 1 .. Tip /\ content \in Contents /\ lockTurns = <<>> /\ phase = [r \in ReadCallers |-> "idle"]
      /\ using = [r \in ReadCallers |-> NoClient] /\ current = [n \in Networks |-> NoClient]
      /\ clientsMade = 0 /\ left = {} /\ payment = [p \in Payers |-> PaymentIdle]
      /\ Searcher \in ReadCallers /\ Payers \subseteq ReadCallers
  BY ChainReadsBounds DEF ChainReadsInit, ReadCallers
<1>2. search \in Searches /\ search.stage \in {"off", "head"} /\ (search.stage # "off" => search.when \in Whens)
  <2>1. SearchIdle = [stage |-> "head", when |-> 0, top |-> 0, low |-> 1, high |-> 0, step |-> StepBlocks] /\ StepBlocks \in Int
    BY ChainReadsBounds DEF SearchIdle
  <2>2. CASE search = [SearchIdle EXCEPT !.stage = "off"]
    <3>1. search = [stage |-> "off", when |-> 0, top |-> 0, low |-> 1, high |-> 0, step |-> StepBlocks]
      BY <2>1, <2>2
    <3> QED BY ONLY <2>1, <3>1 DEF Searches
  <2>3. CASE \E when \in Whens : search = [SearchIdle EXCEPT !.when = when]
    <3>1. PICK when \in Whens : search = [SearchIdle EXCEPT !.when = when]
      BY <2>3
    <3>2. search = [stage |-> "head", when |-> when, top |-> 0, low |-> 1, high |-> 0, step |-> StepBlocks]
      BY <2>1, <3>1
    <3>3. when \in Int /\ when \in Whens
      BY ChainReadsBounds
    <3> QED BY ONLY <2>1, <3>2, <3>3 DEF Searches
  <2> QED BY <2>2, <2>3 DEF ChainReadsInit
<1>3. PaymentIdle \in Payments /\ PaymentIdle.stage = "unasked"
  <2>1. <<0, Unnamed>> \in Nat \X (Nat \cup {Unnamed})
    OBVIOUS
  <2> QED BY <2>1 DEF PaymentIdle, Payments
<1>4. ReadTypes
  BY <1>1, <1>2, <1>3 DEF ReadTypes, NoClient
<1>5. LineInv /\ ClientInv
  BY <1>1 DEF LineInv, ClientInv, ConnectionsAreClosed, NoClient
<1>6. SearchInv
  BY <1>1, <1>2 DEF SearchInv
<1>7. PaymentInv
  BY <1>1, <1>3 DEF PaymentInv, PaymentOK
<1> QED BY <1>4, <1>5, <1>6, <1>7 DEF ReadsIInv

(* The inductive invariant of the reader of the chain.                     *)
THEOREM ReadsInductive == ChainReadsSpec => []ReadsIInv
<1>1. ASSUME ReadsIInv, [ChainReadsNext]_chainReadsVars PROVE ReadsIInv'
  <2>1. CASE ChainReadsNext
    BY <1>1, <2>1, LineKeeps, ClientsKeep, SearchKeeps, PaymentsKeep
       DEF ReadsIInv, ReadTypes, ClientTypes, SearchTypes, PaymentTypes
  <2>2. CASE UNCHANGED chainReadsVars
    <3> USE <2>2 DEF chainReadsVars, sourceVars
    <3>1. ReadTypes' /\ LineInv'
      BY <1>1 DEF ReadsIInv, ReadTypes, LineInv
    <3>2. ClientInv'
      BY <1>1 DEF ReadsIInv, ClientInv, ConnectionsAreClosed
    <3>3. SearchInv'
      BY <1>1 DEF ReadsIInv, SearchInv
    <3>4. \A p \in Payers : Cited(p)' = Cited(p)
      BY DEF Cited, InExtrinsic
    <3>5. PaymentInv'
      BY <1>1, <3>4 DEF ReadsIInv, PaymentInv, PaymentOK
    <3> QED BY <3>1, <3>2, <3>3, <3>5 DEF ReadsIInv
  <2> QED BY <1>1, <2>1, <2>2
<1> QED BY <1>1, ReadsStart, PTL DEF ChainReadsSpec

(* One operation drives a client at a time, no client is lost, the search  *)
(* ends at the earliest block and a confirmed payment is the cited one.    *)
THEOREM ReadsStaySound == ChainReadsSpec => []ReadsAreSound
<1>1. ASSUME ReadsIInv PROVE ReadsAreSound
  <2>1. LineInv /\ ClientInv /\ SearchInv /\ PaymentInv /\ search \in Searches
    BY <1>1 DEF ReadsIInv, ReadTypes
  <2>2. ClientIsDrivenAlone
    <3> DEFINE W == {r \in ReadCallers : phase[r] \in {"reading", "dropping"}}
    <3>1. \A r, o \in W : r = o
      BY <2>1, OneAtWork
    <3> HIDE DEF W
    <3>2. ASSUME W # {} PROVE Cardinality(W) = 1
      <4>1. PICK r : r \in W
        BY <3>2
      <4>2. W = {r}
        BY <3>1, <4>1
      <4> QED BY <4>2, FS_Singleton, Zenon
    <3>3. W = {} => Cardinality(W) = 0
      BY FS_EmptySet
    <3>4. Cardinality(W) <= 1
      BY <3>2, <3>3
    <3> QED BY <2>1, <3>4 DEF ClientIsDrivenAlone, ClientInv, W
  <2>3. SearchFindsTheFirst
    <3>1. SUFFICES ASSUME search.stage = "found"
                   PROVE  /\ TimeOf[search.high] >= search.when
                          /\ \A b \in 1 .. Tip : TimeOf[b] >= search.when => search.high <= b
      BY DEF SearchFindsTheFirst
    <3>2. /\ search.low \in 1 .. Tip /\ TimeOf[search.low] < search.when
          /\ search.high \in 1 .. Tip /\ TimeOf[search.high] >= search.when /\ search.low + 1 >= search.high
          /\ search.when \in Int
      BY <2>1, <3>1 DEF SearchInv, Searches
    <3>3. ASSUME NEW b \in 1 .. Tip, TimeOf[b] >= search.when PROVE search.high <= b
      <4>1. search.low < b
        BY <3>2, <3>3, TimeIsHeight
      <4> QED BY <3>2, <4>1
    <3> QED BY <3>2, <3>3
  <2>4. ResolvedIsTheCited
    BY <2>1 DEF ResolvedIsTheCited, PaymentInv, PaymentOK
  <2> QED BY <2>1, <2>2, <2>3, <2>4 DEF ReadsAreSound, ClientInv
<1> QED BY <1>1, ReadsInductive, PTL

----------------------------------------------------------------------------
(* The emissions worker.                                                   *)

Vectors == [Slots -> Nat]
Planners == [at : {"waiting"}, done : Nat]
              \cup [at : {"submitting"}, epoch : Nat, plan : Vectors, done : Nat]

\* A vector hands out the whole, and the treasury its share.
WholeVector(p) == p \in Vectors /\ Total(p) = BASIS_POINTS /\ p[TREASURY_UID] >= TREASURY_BPS

\* A hotkey has one uid, and the treasury's is no competitor's.
HotkeysOK ==
    /\ hotkeys \in [Slots -> Competitors \cup {Empty_}] /\ hotkeys[TREASURY_UID] = Empty_
    /\ \A u, v \in Slots : hotkeys[u] = hotkeys[v] => u = v \/ hotkeys[u] = Empty_

EmissionTypes ==
    /\ epoch \in Nat /\ HotkeysOK /\ planner \in Planners
    /\ published.why = "fresh" => published.scores \in [Competitors -> Scores]
    /\ onchain \in SUBSET [epoch : Nat, weights : Vectors]

\* What is on the chain is of an epoch that is over, or is what the worker is submitting.
PlanInv ==
    /\ planner.at = "submitting" => planner.epoch > planner.done /\ WholeVector(planner.plan)
    /\ \A v \in onchain :
          /\ WholeVector(v.weights)
          /\ \/ v.epoch <= planner.done
             \/ planner.at = "submitting" /\ v.epoch = planner.epoch /\ v.weights = planner.plan

EmissionsIInv == EmissionTypes /\ PlanInv /\ EpochsArePaidOnce

LEMMA SameFactor ==
  ASSUME NEW d \in Nat, d # 0, NEW a \in Nat, NEW b \in Nat, d * a = b * d
  PROVE  a = b
  OBVIOUS

LEMMA ExactPart ==
  ASSUME NEW d \in Nat, d # 0, NEW a \in Nat, a % d = 0
  PROVE  a \div d \in Nat /\ d * (a \div d) = a
  OBVIOUS

LEMMA TotalIs ==
  ASSUME NEW f
  PROVE  Total(f) = SumFunctionOnSet(f, DOMAIN f)
  BY DEF Total, SumFunction

\* The treasury's weight and the others'.
LEMMA WholeIf ==
  ASSUME NEW p \in Vectors, NEW n \in Nat, SumFunctionOnSet(p, Slots \ {TREASURY_UID}) = n,
         p[TREASURY_UID] >= TREASURY_BPS, p[TREASURY_UID] + n = BASIS_POINTS
  PROVE  WholeVector(p)
  <1>1. IsFiniteSet(Slots) /\ TREASURY_UID \in Slots /\ DOMAIN p = Slots
    BY EmissionsAssumption DEF Vectors
  <1>2. Numbers(p, Slots)
    BY DEF Vectors, Numbers
  <1>3. SumFunctionOnSet(p, Slots) = p[TREASURY_UID] + SumFunctionOnSet(p, Slots \ {TREASURY_UID})
    BY <1>1, <1>2, SumWithout
  <1> QED
    BY <1>1, <1>3, TotalIs DEF WholeVector

LEMMA OthersFinite == IsFiniteSet(Slots \ {TREASURY_UID}) /\ BASIS_POINTS \in Nat
  BY EmissionsAssumption, FS_RemoveElement DEF BASIS_POINTS

LEMMA TreasuryOnlyIsWhole == WholeVector(treasury_only)
  <1>1. BASIS_POINTS \in Nat /\ BASIS_POINTS >= TREASURY_BPS
    BY EmissionsAssumption DEF BASIS_POINTS
  <1>2. treasury_only \in Vectors
    BY <1>1 DEF treasury_only, Vectors
  <1>3. SumFunctionOnSet(treasury_only, Slots \ {TREASURY_UID}) = 0
    BY OthersFinite, SumOfZeros DEF treasury_only
  <1>4. treasury_only[TREASURY_UID] = BASIS_POINTS
    BY EmissionsAssumption DEF treasury_only
  <1> QED
    BY <1>1, <1>2, <1>3, <1>4, WholeIf

\* What goes to uids and what goes to the treasury for the missing ones is the whole budget.
LEMMA CombinedIsWhole ==
  ASSUME HotkeysOK, NEW scores \in [Competitors -> Scores]
  PROVE  WholeVector(combine(scores))
  <1> DEFINE total == Total(scores)
             Part(h) == (COMPETITION_BPS * scores[h]) \div total
             Held == {h \in Competitors : \E u \in Slots : hotkeys[u] = h}
             paid == [h \in Held |-> Part(h)]
             rest == [h \in Competitors \ Held |-> Part(h)]
             parts == [h \in Competitors |-> Part(h)]
             unallocated == IF total = 0 THEN COMPETITION_BPS ELSE Total(rest)
             p == combine(scores)
             others == Slots \ {TREASURY_UID}
  <1>1. /\ \A u \in Slots : p[u] = IF u = TREASURY_UID THEN TREASURY_BPS + unallocated
                                   ELSE IF hotkeys[u] # Empty_ /\ total > 0 THEN paid[hotkeys[u]] ELSE 0
        /\ DOMAIN p = Slots /\ p = [u \in Slots |-> p[u]]
    BY DEF combine
  <1>2. /\ IsFiniteSet(Slots) /\ TREASURY_UID \in Slots /\ IsFiniteSet(Competitors)
        /\ TREASURY_BPS \in Nat /\ COMPETITION_BPS \in Nat /\ Empty_ \notin Competitors
        /\ IsFiniteSet(others) /\ Held \in SUBSET Competitors
    BY EmissionsAssumption, OthersFinite
  <1>3. /\ \A h \in Competitors : scores[h] \in Nat
        /\ Numbers(scores, Competitors) /\ total = SumFunctionOnSet(scores, Competitors) /\ total \in Nat
    <2>1. \A h \in Competitors : scores[h] \in Nat
      BY EmissionsAssumption
    <2>2. Numbers(scores, Competitors)
      BY <2>1 DEF Numbers
    <2>3. total = SumFunctionOnSet(scores, Competitors)
      BY TotalIs
    <2> QED
      BY <1>2, <2>1, <2>2, <2>3, SumIsANumber
  <1>4. CASE total = 0
    <2>1. p[TREASURY_UID] = TREASURY_BPS + COMPETITION_BPS /\ \A u \in others : p[u] = 0
      BY <1>1, <1>2, <1>4
    <2> HIDE DEF p
    <2>2. p \in Vectors
      BY <1>1, <1>2, <2>1 DEF Vectors
    <2>3. SumFunctionOnSet(p, others) = 0
      BY <1>2, <2>1, SumOfZeros
    <2>4. p[TREASURY_UID] >= TREASURY_BPS /\ p[TREASURY_UID] + 0 = BASIS_POINTS
      BY <1>2, <2>1 DEF BASIS_POINTS
    <2>5. WholeVector(p)
      BY <2>2, <2>3, <2>4, WholeIf
    <2> QED
      BY <2>5 DEF p
  <1>5. CASE total # 0
    <2>1. \A h \in Competitors : Part(h) \in Nat /\ total * Part(h) = COMPETITION_BPS * scores[h]
      <3> SUFFICES ASSUME NEW h \in Competitors
                   PROVE  Part(h) \in Nat /\ total * Part(h) = COMPETITION_BPS * scores[h]
        OBVIOUS
      <3> DEFINE a == COMPETITION_BPS * scores[h]
      <3>1. total > 0
        BY <1>3, <1>5
      <3>2. a \in Nat
        BY <1>2, <1>3
      <3>3. a % total = 0
        BY <3>1, EmissionsAssumption
      <3> HIDE DEF a, total
      <3>4. a \div total \in Nat /\ total * (a \div total) = a
        BY <1>3, <1>5, <3>2, <3>3, ExactPart
      <3> QED
        BY <3>4 DEF a
    <2>0. \A u \in others : p[u] = IF hotkeys[u] # Empty_ THEN paid[hotkeys[u]] ELSE 0
      <3>1. total > 0
        BY <1>3, <1>5
      <3> HIDE DEF p, paid, total
      <3> QED
        BY <1>1, <3>1
    <2> HIDE DEF total, Part
    <2>2. Numbers(parts, Competitors) /\ \A h \in Competitors : total * parts[h] = COMPETITION_BPS * scores[h]
      BY <2>1 DEF Numbers
    \* All parts make the budget.
    <2>3. SumFunctionOnSet(parts, Competitors) = COMPETITION_BPS
      <3>1. total * SumFunctionOnSet(parts, Competitors) = COMPETITION_BPS * SumFunctionOnSet(scores, Competitors)
        <4> HIDE DEF parts
        <4>1. /\ IsFiniteSet(Competitors) /\ Numbers(parts, Competitors) /\ Numbers(scores, Competitors)
              /\ total \in Nat /\ COMPETITION_BPS \in Nat
              /\ \A h \in Competitors : total * parts[h] = COMPETITION_BPS * scores[h]
          BY <1>2, <1>3, <2>2
        <4> QED
          BY ONLY <4>1, SumScaled
      <3>2. SumFunctionOnSet(parts, Competitors) \in Nat
        <4> HIDE DEF parts
        <4> QED
          BY <1>2, <2>2, SumIsANumber
      <3>3. total * SumFunctionOnSet(parts, Competitors) = COMPETITION_BPS * total
        BY <1>3, <3>1
      <3> DEFINE s == SumFunctionOnSet(parts, Competitors)
      <3> HIDE DEF s
      <3> QED
        BY <1>2, <1>3, <1>5, <3>2, <3>3, SameFactor DEF s
    \* Those with a uid and those without one.
    <2>4. /\ SumFunctionOnSet(paid, Held) \in Nat /\ SumFunctionOnSet(rest, Competitors \ Held) \in Nat
          /\ SumFunctionOnSet(paid, Held) + SumFunctionOnSet(rest, Competitors \ Held) = COMPETITION_BPS
      <3>1. IsFiniteSet(Held) /\ IsFiniteSet(Competitors \ Held)
        BY <1>2, FS_Subset
      <3>2. /\ Numbers(parts, Held) /\ Numbers(parts, Competitors \ Held)
            /\ Numbers(paid, Held) /\ Numbers(rest, Competitors \ Held)
        BY <1>2, <2>1 DEF Numbers
      <3>3. /\ \A h \in Held : paid[h] = parts[h]
            /\ \A h \in Competitors \ Held : rest[h] = parts[h]
        BY <1>2
      <3>4. /\ Held \cup (Competitors \ Held) = Competitors /\ Held \cap (Competitors \ Held) = {}
        BY <1>2
      <3> HIDE DEF paid, rest, parts, Held
      <3>5. /\ SumFunctionOnSet(paid, Held) = SumFunctionOnSet(parts, Held)
            /\ SumFunctionOnSet(rest, Competitors \ Held) = SumFunctionOnSet(parts, Competitors \ Held)
        BY <3>1, <3>2, <3>3, SumAgrees
      <3>6. SumFunctionOnSet(parts, Competitors)
              = SumFunctionOnSet(parts, Held) + SumFunctionOnSet(parts, Competitors \ Held)
        <4>1. Numbers(parts, Held \cup (Competitors \ Held))
          BY <2>2, <3>4
        <4>2. SumFunctionOnSet(parts, Held \cup (Competitors \ Held))
                = SumFunctionOnSet(parts, Held) + SumFunctionOnSet(parts, Competitors \ Held)
          BY <3>1, <3>4, <4>1, SumOfBoth
        <4> QED
          BY <3>4, <4>2
      <3>7. SumFunctionOnSet(paid, Held) \in Nat /\ SumFunctionOnSet(rest, Competitors \ Held) \in Nat
        BY <3>1, <3>2, SumIsANumber
      <3> QED
        BY <2>3, <3>5, <3>6, <3>7
    <2>5. unallocated = SumFunctionOnSet(rest, Competitors \ Held)
      <3>1. DOMAIN rest = Competitors \ Held
        OBVIOUS
      <3> HIDE DEF rest
      <3> QED
        BY <1>5, <3>1, TotalIs
    \* The uids that are held are to the competitors that have one as one to one.
    <2> DEFINE filled == {u \in others : hotkeys[u] # Empty_}
               vacant == others \ filled
    <2>6. SumFunctionOnSet(p, filled) = SumFunctionOnSet(paid, Held)
      <3>1. IsFiniteSet(filled) /\ OneToOne(hotkeys, filled)
        BY <1>2, FS_Subset DEF OneToOne, HotkeysOK
      <3>2. ImageOf(hotkeys, filled) = Held
        BY <1>2 DEF ImageOf, HotkeysOK
      <3>3. Numbers(paid, Held)
        BY <1>2, <2>1 DEF Numbers
      <3>4. \A u \in filled : p[u] = paid[hotkeys[u]]
        BY <2>0
      <3> HIDE DEF p, paid, Held, filled
      <3> QED
        BY <3>1, <3>2, <3>3, <3>4, SumOverImage
    <2>7. SumFunctionOnSet(p, vacant) = 0
      <3>1. IsFiniteSet(vacant) /\ \A u \in vacant : p[u] = 0
        BY <1>2, <2>0, FS_Subset
      <3> HIDE DEF p, vacant
      <3> QED
        BY <3>1, SumOfZeros
    <2>8. p \in Vectors /\ p[TREASURY_UID] = TREASURY_BPS + SumFunctionOnSet(rest, Competitors \ Held)
      <3>1. p[TREASURY_UID] = TREASURY_BPS + SumFunctionOnSet(rest, Competitors \ Held)
        BY <1>1, <1>2, <2>5
      <3>2. p[TREASURY_UID] \in Nat
        BY <1>2, <2>4, <3>1
      <3>3. \A u \in others : p[u] \in Nat
        <4> SUFFICES ASSUME NEW u \in others PROVE p[u] \in Nat
          OBVIOUS
        <4>1. CASE hotkeys[u] # Empty_
          <5>1. u \in Slots /\ hotkeys[u] \in Competitors
            BY <4>1 DEF HotkeysOK
          <5>2. hotkeys[u] \in Held
            BY <5>1
          <5>3. p[u] = paid[hotkeys[u]]
            BY <2>0, <4>1
          <5>4. paid[hotkeys[u]] = Part(hotkeys[u])
            BY <5>2
          <5> DEFINE key == hotkeys[u]
          <5>5. Part(key) \in Nat
            <6>1. key \in Competitors
              BY <5>1
            <6> HIDE DEF key
            <6> QED
              BY <2>1, <6>1
          <5> HIDE DEF p, paid
          <5> QED
            BY <5>3, <5>4, <5>5
        <4>2. CASE hotkeys[u] = Empty_
          <5>1. p[u] = 0
            BY <2>0, <4>2
          <5> HIDE DEF p
          <5> QED
            BY <5>1
        <4> QED
          BY <4>1, <4>2
      <3> HIDE DEF p
      <3> QED
        BY <1>1, <3>1, <3>2, <3>3 DEF Vectors
    <2>9. SumFunctionOnSet(p, others) = SumFunctionOnSet(paid, Held)
      <3>1. IsFiniteSet(filled) /\ IsFiniteSet(vacant) /\ filled \cap vacant = {} /\ filled \cup vacant = others
        BY <1>2, FS_Subset
      <3>2. Numbers(p, others)
        BY <2>8 DEF Numbers, Vectors
      <3>3. Numbers(p, filled \cup vacant)
        BY <3>1, <3>2
      <3> HIDE DEF filled, vacant, p, others
      <3>4. SumFunctionOnSet(p, filled \cup vacant) = SumFunctionOnSet(p, filled) + SumFunctionOnSet(p, vacant)
        BY ONLY <3>1, <3>3, SumOfBoth
      <3> HIDE DEF paid, Held
      <3>5. SumFunctionOnSet(p, others) = SumFunctionOnSet(paid, Held) + 0
        BY <2>6, <2>7, <3>1, <3>4
      <3> QED
        BY <2>4, <3>5
    <2> HIDE DEF p, rest, paid, Held
    <2> DEFINE n == SumFunctionOnSet(paid, Held)
               m == SumFunctionOnSet(rest, Competitors \ Held)
    <2>10. p[TREASURY_UID] >= TREASURY_BPS /\ p[TREASURY_UID] + n = BASIS_POINTS /\ n \in Nat
      <3>1. n \in Nat /\ m \in Nat /\ n + m = COMPETITION_BPS /\ p[TREASURY_UID] = TREASURY_BPS + m
        BY <2>4, <2>8
      <3> HIDE DEF n, m
      <3> QED
        BY <1>2, <3>1 DEF BASIS_POINTS
    <2>11. WholeVector(p)
      BY <2>8, <2>9, <2>10, WholeIf
    <2> QED
      BY <2>11 DEF p
  <1> QED
    BY <1>4, <1>5

LEMMA PlansAreWhole ==
  ASSUME EmissionTypes, NEW p \in Plans
  PROVE  WholeVector(p)
  BY TreasuryOnlyIsWhole, CombinedIsWhole DEF Plans, EmissionTypes

LEMMA EmissionsStart ==
  ASSUME EmissionsInit
  PROVE  EmissionsIInv
  BY DEF EmissionsInit, EmissionsIInv, EmissionTypes, HotkeysOK, Planners, PlanInv, Silent, EpochsArePaidOnce,
         EmissionIsWhole, RetryChangesNothing, EpochIsServed

LEMMA WhichPlanner ==
  ASSUME EmissionTypes
  PROVE  /\ planner.done \in Nat
         /\ planner.at = "submitting" => /\ planner.epoch \in Nat /\ planner.plan \in Vectors
         /\ planner.at = "waiting" => planner = [at |-> "waiting", done |-> planner.done]
  BY DEF EmissionTypes, Planners

\* The plan is included: it is the only vector of its epoch, and whole.
LEMMA IncludedOnce ==
  ASSUME EmissionsIInv, planner.at = "submitting", Include(planner.plan),
         \/ planner' = [at |-> "waiting", done |-> planner.epoch]
         \/ planner' = planner,
         UNCHANGED <<epoch, hotkeys, published>>
  PROVE  EmissionsIInv'
  <1>1. /\ planner.epoch \in Nat /\ planner.plan \in Vectors /\ planner.done \in Nat
        /\ planner.epoch > planner.done /\ WholeVector(planner.plan)
    BY WhichPlanner DEF EmissionsIInv, PlanInv
  <1> DEFINE new == [epoch |-> planner.epoch, weights |-> planner.plan]
  <1>2. onchain' = onchain \cup {new} /\ new \in [epoch : Nat, weights : Vectors]
    BY <1>1 DEF Include
  <1>3. \A v \in onchain : /\ v \in [epoch : Nat, weights : Vectors] /\ WholeVector(v.weights)
                           /\ v.epoch = planner.epoch => v = new
                           /\ v.epoch <= planner.epoch
    <2> SUFFICES ASSUME NEW v \in onchain
                 PROVE  /\ v \in [epoch : Nat, weights : Vectors] /\ WholeVector(v.weights)
                        /\ v.epoch = planner.epoch => v = new
                        /\ v.epoch <= planner.epoch
      OBVIOUS
    <2>1. /\ v \in [epoch : Nat, weights : Vectors] /\ WholeVector(v.weights) /\ v.epoch \in Nat
          /\ v = [epoch |-> v.epoch, weights |-> v.weights]
          /\ \/ v.epoch <= planner.done
             \/ v.epoch = planner.epoch /\ v.weights = planner.plan
      BY DEF EmissionsIInv, EmissionTypes, PlanInv
    <2> QED
      BY <1>1, <2>1
  <1>4. EmissionTypes'
    <2>1. planner' \in Planners
      BY <1>1 DEF EmissionsIInv, EmissionTypes, Planners
    <2> HIDE DEF new
    <2> QED
      BY <1>2, <2>1 DEF EmissionsIInv, EmissionTypes, HotkeysOK
  <1>5. /\ planner'.at = "submitting" => planner' = planner
        /\ planner'.at = "waiting" => planner'.done = planner.epoch
        /\ planner'.at \in {"waiting", "submitting"}
    OBVIOUS
  <1>6. \A v \in onchain' : /\ WholeVector(v.weights) /\ v.epoch <= planner.epoch
                            /\ v.epoch = planner.epoch => v = new
    BY <1>1, <1>2, <1>3
  <1>7. PlanInv'
    <2>1. \A v \in onchain' : v.epoch <= planner'.done
                              \/ (planner'.at = "submitting" /\ v.epoch = planner'.epoch /\ v.weights = planner'.plan)
      <3>1. CASE planner'.at = "waiting"
        BY <1>5, <1>6, <3>1
      <3>2. CASE planner' = planner
        <4>1. \A v \in onchain : v.epoch <= planner.done
                              \/ (v.epoch = planner.epoch /\ v.weights = planner.plan)
          BY DEF EmissionsIInv, PlanInv
        <4> QED
          BY <1>2, <3>2, <4>1
      <3> QED
        BY <3>1, <3>2
    <2> QED
      BY <1>1, <1>5, <1>6, <2>1 DEF PlanInv, WholeVector
  <1>8. EmissionIsWhole'
    BY <1>6 DEF EmissionIsWhole, WholeVector
  <1>9. RetryChangesNothing'
    <2> SUFFICES ASSUME NEW v \in onchain', NEW w \in onchain', v.epoch = w.epoch PROVE v = w
      BY DEF RetryChangesNothing
    <2>1. CASE v.epoch = planner.epoch
      <3>1. v = new /\ w = new
        BY <1>6, <2>1
      <3> QED
        BY <3>1
    <2>2. CASE v.epoch # planner.epoch
      <3>1. v \in onchain /\ w \in onchain
        BY <1>2, <2>2
      <3> QED
        BY <3>1 DEF EmissionsIInv, EpochsArePaidOnce, RetryChangesNothing
    <2> QED
      BY <2>1, <2>2
  <1>10. EpochIsServed'
    <2>1. CASE planner'.at = "waiting"
      <3>1. new \in onchain' /\ new.epoch = planner'.done
        BY <1>2, <1>5, <2>1
      <3> HIDE DEF new
      <3> QED
        BY <3>1 DEF EpochIsServed
    <2>2. CASE planner' = planner
      BY <1>2, <2>2 DEF EpochIsServed, EmissionsIInv, EpochsArePaidOnce
    <2> QED
      BY <2>1, <2>2
  <1> QED
    BY <1>4, <1>7, <1>8, <1>9, <1>10 DEF EmissionsIInv, EpochsArePaidOnce

LEMMA EmissionsStep ==
  ASSUME EmissionsIInv, [EmissionsNext]_emissionsVars
  PROVE  EmissionsIInv'
  <1> USE DEF EmissionsIInv
  \* Only types change.
  <1>1. ASSUME UNCHANGED <<planner, onchain>>, EmissionTypes' PROVE EmissionsIInv'
    BY <1>1 DEF PlanInv, EpochsArePaidOnce, EmissionIsWhole, RetryChangesNothing, EpochIsServed, WholeVector
  <1>2. CASE wait_for_epoch
    <2>1. PICK p \in Plans : planner' = [at |-> "submitting", epoch |-> epoch, plan |-> p, done |-> planner.done]
      BY <1>2 DEF wait_for_epoch
    <2>2. WholeVector(p) /\ p \in Vectors
      BY PlansAreWhole DEF WholeVector
    <2>3. planner.done \in Nat /\ epoch \in Nat /\ epoch > planner.done /\ planner.at = "waiting"
      BY <1>2, WhichPlanner DEF wait_for_epoch, EmissionTypes
    <2>4. planner' \in Planners
      BY <2>1, <2>2, <2>3 DEF Planners
    <2>5. EmissionTypes'
      BY <1>2, <2>4 DEF wait_for_epoch, EmissionTypes, HotkeysOK
    <2>6. PlanInv'
      <3>1. planner'.epoch > planner'.done /\ WholeVector(planner'.plan) /\ planner'.done = planner.done
        BY <2>1, <2>2, <2>3
      <3>2. \A v \in onchain' : WholeVector(v.weights) /\ v.epoch <= planner'.done
        BY <1>2, <2>3, <3>1 DEF PlanInv, wait_for_epoch
      <3> QED
        BY <3>1, <3>2 DEF PlanInv, WholeVector
    <2>7. EpochsArePaidOnce'
      BY <1>2, <2>1 DEF wait_for_epoch, EpochsArePaidOnce, EmissionIsWhole, RetryChangesNothing, EpochIsServed
    <2> QED
      BY <2>5, <2>6, <2>7
  <1>3. CASE submit
    <2>1. CASE Include(planner.plan)
      <3>1. \/ planner' = [at |-> "waiting", done |-> planner.epoch]
            \/ planner' = planner
        BY <1>3 DEF submit
      <3> QED
        BY <1>3, <2>1, <3>1, IncludedOnce DEF submit
    <2>2. CASE UNCHANGED <<onchain, planner>>
      <3>1. EmissionTypes'
        BY <1>3, <2>2 DEF submit, EmissionTypes, HotkeysOK
      <3> QED
        BY <1>1, <2>2, <3>1
    <2> QED
      BY <1>3, <2>1, <2>2 DEF submit
  <1>4. CASE NewEpoch
    <2>1. EmissionTypes'
      BY <1>4 DEF NewEpoch, EmissionTypes, HotkeysOK
    <2> QED
      BY <1>1, <1>4, <2>1 DEF NewEpoch
  <1>5. ASSUME NEW a \in {x \in Answers : x.why = "fresh"} \cup {Silent}, Publish(a) PROVE EmissionsIInv'
    <2>1. a.why = "fresh" => a.scores \in [Competitors -> Scores]
      BY DEF Answers, Silent
    <2>2. EmissionTypes'
      BY <1>5, <2>1 DEF Publish, EmissionTypes, HotkeysOK
    <2> QED
      BY <1>1, <1>5, <2>2 DEF Publish
  <1>6. ASSUME NEW u \in Slots, NEW h \in Competitors, Reassign(u, h) PROVE EmissionsIInv'
    <2>1. HotkeysOK'
      BY <1>6, EmissionsAssumption DEF Reassign, HotkeysOK, EmissionTypes
    <2>2. EmissionTypes'
      BY <1>6, <2>1 DEF Reassign, EmissionTypes
    <2> QED
      BY <1>1, <1>6, <2>2 DEF Reassign
  <1>7. CASE UNCHANGED emissionsVars
    <2>1. EmissionTypes'
      BY <1>7 DEF emissionsVars, EmissionTypes, HotkeysOK
    <2> QED
      BY <1>1, <1>7, <2>1 DEF emissionsVars
  <1> QED
    BY <1>2, <1>3, <1>4, <1>5, <1>6, <1>7 DEF EmissionsNext, run_epoch

\* The worker's plan, the hotkeys and what is on the chain.
THEOREM EmissionsInductive == EmissionsSpec => []EmissionsIInv
  <1>1. EmissionsInit => EmissionsIInv
    BY EmissionsStart
  <1>2. EmissionsIInv /\ [EmissionsNext]_emissionsVars => EmissionsIInv'
    BY EmissionsStep
  <1> QED
    BY <1>1, <1>2, PTL DEF EmissionsSpec

\* Every epoch the worker leaves behind has one vector, and that hands out the whole emission.
THEOREM EmissionsPayOnce == EmissionsSpec => []EpochsArePaidOnce
  <1>1. EmissionsIInv => EpochsArePaidOnce
    BY DEF EmissionsIInv
  <1> QED
    BY <1>1, EmissionsInductive, PTL

----------------------------------------------------------------------------
(* The mirror of the contributions.                                        *)

\* What the mirror holds is what is served, and that is the corpus of its commit.
MirrorIInv ==
    /\ DOMAIN mirror = {"targets", "unreadable", "pending", "head_etag", "pending_etag", "blocked_until"}
    /\ mirror = [m \in DOMAIN mirror |-> mirror[m]]
    /\ mirror.targets = snap.targets /\ mirror.unreadable = snap.unreadable
    /\ SnapshotIsOneCommit

LEMMA MirrorIsSafe == MirrorIInv => SnapshotIsOneCommit /\ NothingDropped
  <1> SUFFICES ASSUME MirrorIInv, snap.head # NoneYet PROVE NothingDropped
    BY DEF MirrorIInv, NothingDropped
  <1>1. snap.targets = In(snap.head, {"index", "page"}) /\ snap.unreadable = In(snap.head, {"bad", "bad with page"})
    BY DEF MirrorIInv, SnapshotIsOneCommit, _read_archive
  <1> QED
    BY <1>1 DEF NothingDropped, In

LEMMA MirrorStart == ContributionsInit => MirrorIInv
  BY DEF ContributionsInit, MirrorIInv, Fresh, EmptySnapshot, SnapshotIsOneCommit

LEMMA MirrorStep ==
  ASSUME MirrorIInv, [ContributionsNext]_contributionVars
  PROVE  MirrorIInv'
  \* A step that serves what was served.
  <1>1. ASSUME UNCHANGED snap, DOMAIN mirror' = DOMAIN mirror, mirror' = [m \in DOMAIN mirror' |-> mirror'[m]],
               mirror'.targets = mirror.targets, mirror'.unreadable = mirror.unreadable
        PROVE  MirrorIInv'
    BY <1>1 DEF MirrorIInv, SnapshotIsOneCommit
  <1>2. CASE UNCHANGED <<mirror, snap>>
    BY <1>1, <1>2 DEF MirrorIInv
  <1>3. CASE _open_pull_requests \/ nothing_moved \/ _raise_for_rate_limit
    <2>1. UNCHANGED snap
      BY <1>3 DEF _open_pull_requests, nothing_moved, _raise_for_rate_limit
    <2>2. \/ mirror' = mirror
          \/ \E x : mirror' = [mirror EXCEPT !.pending = x]
          \/ \E x : mirror' = [mirror EXCEPT !.head_etag = x]
          \/ \E x : mirror' = [mirror EXCEPT !.blocked_until = x]
      BY <1>3 DEF _open_pull_requests, nothing_moved, _raise_for_rate_limit
    <2>3. CASE mirror' = mirror
      BY <1>1, <2>1, <2>3 DEF MirrorIInv
    <2>4. CASE \E x : mirror' = [mirror EXCEPT !.pending = x]
      BY <1>1, <2>1, <2>4 DEF MirrorIInv
    <2>5. CASE \E x : mirror' = [mirror EXCEPT !.head_etag = x]
      BY <1>1, <2>1, <2>5 DEF MirrorIInv
    <2>6. CASE \E x : mirror' = [mirror EXCEPT !.blocked_until = x]
      BY <1>1, <2>1, <2>6 DEF MirrorIInv
    <2> QED
      BY <2>2, <2>3, <2>4, <2>5, <2>6
  <1>4. CASE ReplicaRestarts
    BY <1>4 DEF ReplicaRestarts, MirrorIInv, Fresh, EmptySnapshot, SnapshotIsOneCommit
  <1>5. CASE build
    <2> DEFINE got == IF archive_needed THEN _read_archive(poll.head)
                      ELSE [targets |-> mirror.targets, unreadable |-> mirror.unreadable]
    <2>1. /\ mirror' = [mirror EXCEPT !.targets = got.targets, !.unreadable = got.unreadable,
                                      !.head_etag = poll.etag, !.pending_etag = poll.pulls_etag]
          /\ snap' = [head |-> poll.head, targets |-> got.targets, unreadable |-> got.unreadable,
                      pending |-> mirror.pending]
      BY <1>5 DEF build
    <2>2. poll.head # NoneYet => got.targets = _read_archive(poll.head).targets
                                 /\ got.unreadable = _read_archive(poll.head).unreadable
      BY DEF archive_needed, MirrorIInv, SnapshotIsOneCommit
    <2> HIDE DEF got
    <2> DEFINE a == got.targets  b == got.unreadable  c == poll.etag  d == poll.pulls_etag
               m1 == [mirror EXCEPT !.targets = a]
               m2 == [m1 EXCEPT !.unreadable = b]
               m3 == [m2 EXCEPT !.head_etag = c]
               m4 == [m3 EXCEPT !.pending_etag = d]
    <2>3. mirror' = m4
      BY <2>1, Zenon
    <2>4. DOMAIN mirror = {"targets", "unreadable", "pending", "head_etag", "pending_etag", "blocked_until"}
      BY DEF MirrorIInv
    <2> HIDE DEF a, b, c, d
    <2>5. m1.targets = a /\ DOMAIN m1 = DOMAIN mirror
      BY <2>4
    <2> HIDE DEF m1
    <2>6. m2.targets = a /\ m2.unreadable = b /\ DOMAIN m2 = DOMAIN mirror
      BY <2>4, <2>5
    <2> HIDE DEF m2
    <2>7. m3.targets = a /\ m3.unreadable = b /\ DOMAIN m3 = DOMAIN mirror
      BY <2>4, <2>6
    <2> HIDE DEF m3
    <2>8. m4.targets = a /\ m4.unreadable = b /\ DOMAIN m4 = DOMAIN mirror /\ m4 = [m \in DOMAIN m4 |-> m4[m]]
      BY <2>4, <2>7
    <2> HIDE DEF m4
    <2>9. snap'.head = poll.head /\ snap'.targets = a /\ snap'.unreadable = b
      BY <2>1 DEF a, b
    <2>10. poll.head # NoneYet => a = _read_archive(poll.head).targets /\ b = _read_archive(poll.head).unreadable
      BY <2>2 DEF a, b
    <2> QED
      BY <2>3, <2>4, <2>8, <2>9, <2>10 DEF MirrorIInv, SnapshotIsOneCommit
  <1> QED
    BY <1>2, <1>3, <1>4, <1>5
       DEF ContributionsNext, refresh, _head_commit, archive_refused, poll_fails, Push, TimeGoesOn, MovePulls, contributionVars

----------------------------------------------------------------------------
(* The telemetry queue.                                                    *)

Drainers == [at : {"waiting", "taken", "draining", "collected", "last", "ended"}, item : {"none", "event", "shutdown"}]
Counts == [sent : Nat, dropped : Nat, failed : Nat]
Closers == [at : {"open", "stopping", "joining", "closed"}, before : Nat]

LineTypes ==
    /\ line \in Seq(Nat) /\ pending \in Seq(Int)
    /\ drainer \in Drainers /\ counts \in Counts /\ closer \in Closers
    /\ reported \in Nat /\ told \in Nat /\ untold \in Nat /\ logged \in Nat /\ beats \in Nat

\* What a heartbeat has not reported yet is not negative.
BeatsInv == reported <= Missing

\* The daemon stops because it was asked to, and a call that comes later has a later number.
CloseInv ==
    /\ closer.at # "open" => closer.before <= logged
    /\ drainer.item = "shutdown" \/ drainer.at \in {"draining", "last", "ended"} \/ (\E i \in DOMAIN line : line[i] = Shutdown)
          => closer.at # "open"
    /\ drainer.at \in {"last", "ended"} => \A i \in Offered(line) : line[i] > closer.before
    /\ drainer.at = "ended" => pending = <<>>

TelemetryIInv == LineTypes /\ EveryEventIsCounted /\ MissingIsToldOnce /\ BeatsInv /\ CloseInv

\* What an item reports as missing.
Reports(e) == IF IsBeat(e) THEN -1 - e ELSE 0

LEMMA ReportsANumber ==
  ASSUME NEW e \in Int
  PROVE  Reports(e) \in Nat
  BY DEF Reports, IsBeat

LEMMA ReportsOfAll ==
  ASSUME NEW s \in Seq(Int)
  PROVE  /\ ReportedBy(s) = SumFunctionOnSet([i \in 1 .. Len(s) |-> Reports(s[i])], 1 .. Len(s))
         /\ ReportedBy(s) \in Nat
  <1> DEFINE f == [i \in 1 .. Len(s) |-> Reports(s[i])]
  <1>1. DOMAIN s = 1 .. Len(s) /\ Len(s) \in Nat /\ IsFiniteSet(1 .. Len(s))
    BY FS_Interval
  <1>2. ReportedBy(s) = SumFunction(f)
    BY <1>1 DEF ReportedBy, Reports
  <1>3. SumFunction(f) = SumFunctionOnSet(f, 1 .. Len(s))
    BY DEF SumFunction, SumFunctionOnSet, FoldFunction, FoldFunctionOnSet
  <1>4. Numbers(f, 1 .. Len(s))
    BY <1>1, ReportsANumber DEF Numbers
  <1> QED
    BY <1>1, <1>2, <1>3, <1>4, SumIsANumber

LEMMA ReportsOfNone == ReportedBy(<<>>) = 0
  <1>1. <<>> \in Seq(Int) /\ 1 .. Len(<<>>) = {}
    OBVIOUS
  <1> QED
    BY <1>1, ReportsOfAll, SumOfNothing

LEMMA ReportsOfOneMore ==
  ASSUME NEW s \in Seq(Int), NEW e \in Int
  PROVE  ReportedBy(Append(s, e)) = ReportedBy(s) + Reports(e)
  <1> DEFINE n == Len(s)
             t == Append(s, e)
             f == [i \in 1 .. n |-> Reports(s[i])]
             g == [i \in 1 .. n + 1 |-> Reports(t[i])]
  <1>1. /\ n \in Nat /\ t \in Seq(Int) /\ Len(t) = n + 1
        /\ \A i \in 1 .. n : t[i] = s[i] /\ s[i] \in Int
        /\ t[n + 1] = e
    OBVIOUS
  <1>2. ReportedBy(t) = SumFunctionOnSet(g, 1 .. n + 1) /\ ReportedBy(s) = SumFunctionOnSet(f, 1 .. n)
    BY <1>1, ReportsOfAll
  <1> HIDE DEF n, t
  <1>3. 1 .. n + 1 = (1 .. n) \cup {n + 1} /\ n + 1 \notin 1 .. n /\ IsFiniteSet(1 .. n)
    <2>1. n \in Nat
      BY <1>1
    <2>2. 1 .. n + 1 = (1 .. n) \cup {n + 1} /\ n + 1 \notin 1 .. n
      BY ONLY <2>1
    <2>3. IsFiniteSet(1 .. n)
      BY <2>1, FS_Interval
    <2> QED
      BY <2>2, <2>3
  <1>4. g[n + 1] = Reports(e) /\ \A i \in 1 .. n : g[i] = Reports(s[i]) /\ f[i] = Reports(s[i])
    BY <1>1, <1>3
  <1>5. Numbers(g, (1 .. n) \cup {n + 1}) /\ Numbers(f, 1 .. n)
    BY <1>1, <1>4, ReportsANumber DEF Numbers
  <1> HIDE DEF f, g
  <1>6. SumFunctionOnSet(g, 1 .. n + 1) = g[n + 1] + SumFunctionOnSet(g, 1 .. n)
    BY <1>3, <1>5, SumWith
  <1>7. SumFunctionOnSet(f, 1 .. n) = SumFunctionOnSet(g, 1 .. n)
    BY <1>3, <1>4, <1>5, SumAgrees
  <1>8. SumFunctionOnSet(f, 1 .. n) \in Nat /\ Reports(e) \in Nat
    BY <1>3, <1>5, SumIsANumber, ReportsANumber
  <1> QED
    BY <1>2, <1>4, <1>6, <1>7, <1>8 DEF t

LEMMA OfferedFinite ==
  ASSUME NEW s \in Seq(Nat)
  PROVE  /\ DOMAIN s = 1 .. Len(s) /\ Len(s) \in Nat
         /\ Offered(s) \in SUBSET (1 .. Len(s)) /\ IsFiniteSet(Offered(s)) /\ Cardinality(Offered(s)) \in Nat
  <1>1. DOMAIN s = 1 .. Len(s) /\ Len(s) \in Nat /\ IsFiniteSet(1 .. Len(s))
    BY FS_Interval
  <1>2. Offered(s) \in SUBSET (1 .. Len(s))
    BY <1>1 DEF Offered
  <1> QED
    BY <1>1, <1>2, FS_Subset, FS_CardinalityType

LEMMA OfferedOneMore ==
  ASSUME NEW s \in Seq(Nat), NEW e \in Nat
  PROVE  /\ Cardinality(Offered(Append(s, e))) = Cardinality(Offered(s)) + (IF e = Shutdown THEN 0 ELSE 1)
         /\ \A i \in Offered(Append(s, e)) : \/ i \in Offered(s) /\ Append(s, e)[i] = s[i]
                                             \/ Append(s, e)[i] = e
         /\ \A i \in DOMAIN Append(s, e) : Append(s, e)[i] = e \/ (i \in DOMAIN s /\ Append(s, e)[i] = s[i])
         /\ \A i \in DOMAIN s : i \in DOMAIN Append(s, e) /\ Append(s, e)[i] = s[i]
  <1> DEFINE t == Append(s, e)  n == Len(s)
  <1>1. /\ n \in Nat /\ DOMAIN s = 1 .. n /\ DOMAIN t = 1 .. n + 1
        /\ \A i \in 1 .. n : t[i] = s[i]
        /\ t[n + 1] = e
    OBVIOUS
  <1> HIDE DEF t, n
  <1>2. Offered(t) = IF e = Shutdown THEN Offered(s) ELSE Offered(s) \cup {n + 1}
    BY <1>1 DEF Offered
  <1>3. n + 1 \notin Offered(s) /\ IsFiniteSet(Offered(s)) /\ Cardinality(Offered(s)) \in Nat
    BY <1>1, OfferedFinite DEF Offered
  <1>4. Cardinality(Offered(s) \cup {n + 1}) = Cardinality(Offered(s)) + 1
    BY <1>3, FS_AddElement
  <1>5. \A i \in 1 .. n + 1 : i \in 1 .. n \/ i = n + 1
    BY <1>1
  <1>6. /\ Cardinality(Offered(t)) = Cardinality(Offered(s)) + (IF e = Shutdown THEN 0 ELSE 1)
        /\ \A i \in DOMAIN t : t[i] = e \/ (i \in DOMAIN s /\ t[i] = s[i])
        /\ \A i \in DOMAIN s : i \in DOMAIN t /\ t[i] = s[i]
    BY <1>1, <1>2, <1>3, <1>4, <1>5
  <1>7. \A i \in Offered(t) : (i \in Offered(s) /\ t[i] = s[i]) \/ t[i] = e
    BY <1>6 DEF Offered
  <1> QED
    BY <1>6, <1>7 DEF t

LEMMA OfferedWithoutFirst ==
  ASSUME NEW s \in Seq(Nat), s # <<>>
  PROVE  /\ Cardinality(Offered(Tail(s))) = Cardinality(Offered(s)) - (IF Head(s) = Shutdown THEN 0 ELSE 1)
         /\ Tail(s) \in Seq(Nat) /\ Head(s) \in Nat /\ 1 \in DOMAIN s /\ s[1] = Head(s)
         /\ \A i \in DOMAIN Tail(s) : i + 1 \in DOMAIN s /\ Tail(s)[i] = s[i + 1]
  <1> DEFINE t == Tail(s)  n == Len(s)
  <1>1. /\ n \in Nat \ {0} /\ DOMAIN s = 1 .. n /\ DOMAIN t = 1 .. n - 1 /\ t \in Seq(Nat)
        /\ \A i \in 1 .. n - 1 : t[i] = s[i + 1] /\ i + 1 \in 1 .. n
        /\ 1 \in 1 .. n /\ s[1] = Head(s) /\ Head(s) \in Nat
    OBVIOUS
  <1> DEFINE S == Offered(t)  T == Offered(s) \ {1}
             f == [i \in S |-> i + 1]
  <1> HIDE DEF t, n
  <1>2. IsFiniteSet(S) /\ Cardinality(S) \in Nat /\ S \in SUBSET (1 .. n - 1) /\ IsFiniteSet(Offered(s))
        /\ Cardinality(Offered(s)) \in Nat
    BY <1>1, OfferedFinite DEF Offered
  <1>3. f \in Bijection(S, T)
    <2>1. \A i \in S : i \in Int /\ i + 1 \in T /\ i + 1 # 1
      BY <1>1, <1>2 DEF Offered
    <2>2. \A k \in T : k \in Int /\ k - 1 \in S /\ (k - 1) + 1 = k
      <3> SUFFICES ASSUME NEW k \in T PROVE k \in Int /\ k - 1 \in S /\ (k - 1) + 1 = k
        OBVIOUS
      <3>1. k \in 2 .. n /\ s[k] # Shutdown
        BY <1>1 DEF Offered
      <3>2. k - 1 \in 1 .. n - 1 /\ (k - 1) + 1 = k
        BY <1>1, <3>1
      <3>3. t[k - 1] = s[k]
        BY <1>1, <3>2
      <3> QED
        BY <1>1, <3>1, <3>2, <3>3 DEF Offered
    <2> HIDE DEF S, T
    <2>3. f \in [S -> T] /\ \A i \in S : f[i] = i + 1
      BY <2>1
    <2>4. \A i, j \in S : f[i] = f[j] => i = j
      BY <2>1, <2>3
    <2>5. \A k \in T : \E i \in S : f[i] = k
      BY <2>2, <2>3
    <2> HIDE DEF f
    <2> QED
      BY <2>3, <2>4, <2>5 DEF Bijection, Injection, Surjection, IsInjective
  <1>4. Cardinality(T) = Cardinality(S)
    BY <1>2, <1>3, FS_Bijection DEF ExistsBijection
  <1>5. Cardinality(T) = IF 1 \in Offered(s) THEN Cardinality(Offered(s)) - 1 ELSE Cardinality(Offered(s))
    BY <1>2, FS_RemoveElement
  <1>6. 1 \in Offered(s) <=> Head(s) # Shutdown
    BY <1>1 DEF Offered
  <1> QED
    BY <1>1, <1>2, <1>4, <1>5, <1>6 DEF t, S

LEMMA TelemetryStart ==
  ASSUME TelemetryInit
  PROVE  TelemetryIInv
  <1> USE TelemetryBounds DEF TelemetryInit
  <1>1. LineTypes
    <2>1. line \in Seq(Nat) /\ pending \in Seq(Int)
      OBVIOUS
    <2>2. drainer \in Drainers /\ counts \in Counts /\ closer \in Closers
      BY DEF Drainers, Counts, Closers
    <2> QED
      BY <2>1, <2>2 DEF LineTypes
  <1>2. Len(line) = 0 /\ Len(pending) = 0 /\ DOMAIN line = {}
    OBVIOUS
  <1>3. Offered(line) = {} /\ Cardinality(Offered(line)) = 0
    BY <1>2, FS_EmptySet DEF Offered
  <1>4. EveryEventIsCounted
    BY <1>2, <1>3 DEF EveryEventIsCounted
  <1>5. MissingIsToldOnce /\ BeatsInv
    BY ReportsOfNone DEF MissingIsToldOnce, BeatsInv, Missing
  <1>6. CloseInv
    BY <1>2, <1>3 DEF CloseInv
  <1> QED
    BY <1>1, <1>4, <1>5, <1>6 DEF TelemetryIInv

LEMMA IngestStep ==
  ASSUME TelemetryIInv, ingest
  PROVE  TelemetryIInv'
  <1> USE DEF ingest
  <1>0. LineTypes /\ EveryEventIsCounted /\ MissingIsToldOnce /\ BeatsInv /\ CloseInv
    BY DEF TelemetryIInv
  <1>1. /\ line \in Seq(Nat) /\ logged \in Nat /\ logged' = logged + 1 /\ logged + 1 # Shutdown
        /\ beats \in Nat /\ Len(pending) \in Nat /\ Cardinality(Offered(line)) \in Nat
        /\ counts.sent \in Nat /\ counts.dropped \in Nat /\ counts.failed \in Nat /\ reported \in Nat
    BY <1>0, OfferedFinite DEF LineTypes, Shutdown, Counts
  <1> DEFINE s == Append(line, logged + 1)
  <1>2. \/ line' = s /\ counts' = counts
        \/ line' = line /\ counts' = [counts EXCEPT !.dropped = @ + 1]
    OBVIOUS
  <1>3. /\ s \in Seq(Nat) /\ Cardinality(Offered(s)) = Cardinality(Offered(line)) + 1
        /\ \A i \in Offered(s) : (i \in Offered(line) /\ s[i] = line[i]) \/ s[i] = logged + 1
        /\ \A i \in DOMAIN s : s[i] = logged + 1 \/ (i \in DOMAIN line /\ s[i] = line[i])
    <2> DEFINE e == logged + 1
    <2>1. line \in Seq(Nat) /\ e \in Nat /\ e # Shutdown
      BY <1>1
    <2> HIDE DEF e
    <2>2. Append(line, e) \in Seq(Nat)
      BY ONLY <2>1
    <2>3. /\ Cardinality(Offered(Append(line, e))) = Cardinality(Offered(line)) + (IF e = Shutdown THEN 0 ELSE 1)
          /\ \A i \in Offered(Append(line, e)) : \/ i \in Offered(line) /\ Append(line, e)[i] = line[i]
                                                \/ Append(line, e)[i] = e
          /\ \A i \in DOMAIN Append(line, e) :
                Append(line, e)[i] = e \/ (i \in DOMAIN line /\ Append(line, e)[i] = line[i])
      BY ONLY <2>1, OfferedOneMore
    <2> QED
      BY <2>1, <2>2, <2>3 DEF e
  <1> HIDE DEF s
  <1>4. /\ counts' \in Counts /\ counts'.sent = counts.sent /\ counts'.failed = counts.failed
        /\ \/ line' = s /\ counts'.dropped = counts.dropped
           \/ line' = line /\ counts'.dropped = counts.dropped + 1
    BY <1>0, <1>1, <1>2 DEF LineTypes, Counts
  <1>5. LineTypes'
    <2>1. line' \in Seq(Nat) /\ logged' \in Nat
      BY <1>1, <1>2, <1>3
    <2> QED
      BY <1>0, <1>4, <2>1 DEF LineTypes
  <1>6. EveryEventIsCounted'
    <2>1. line' = line => Cardinality(Offered(line))' = Cardinality(Offered(line))
      BY DEF Offered
    <2>2. line' = s => Cardinality(Offered(line))' = Cardinality(Offered(line)) + 1
      BY <1>3 DEF Offered
    <2>3. beats' = beats /\ Len(pending)' = Len(pending)
      OBVIOUS
    <2> DEFINE c == Cardinality(Offered(line))  p == Len(pending)
               k == counts.sent + counts.failed + counts.dropped  a == logged + beats
    <2>4. a = k + c + p /\ c \in Nat /\ p \in Nat /\ p' = p
      BY <1>0, <1>1, <2>3 DEF EveryEventIsCounted
    <2>5. \/ c' = c /\ counts'.dropped = counts.dropped + 1
          \/ c' = c + 1 /\ counts'.dropped = counts.dropped
      BY <1>4, <2>1, <2>2
    <2>6. k \in Nat /\ (counts'.dropped = counts.dropped + 1 => k' = k + 1) /\ (counts'.dropped = counts.dropped => k' = k)
      <3> DEFINE x == counts.sent  y == counts.failed  z == counts.dropped
      <3>1. x \in Nat /\ y \in Nat /\ z \in Nat /\ x' = x /\ y' = y
        BY ONLY <1>1, <1>4
      <3> HIDE DEF x, y, z
      <3>2. x + y + z \in Nat /\ (z' = z + 1 => x' + y' + z' = (x + y + z) + 1) /\ (z' = z => x' + y' + z' = x + y + z)
        BY ONLY <3>1
      <3>3. k = x + y + z
        BY ONLY <3>1 DEF x, y, z
      <3>4. k' = x' + y' + z'
        BY ONLY <3>1 DEF x, y, z
      <3> HIDE DEF k
      <3> QED
        BY ONLY <3>2, <3>3, <3>4 DEF z
    <2>7. a \in Nat /\ a' = a + 1
      BY ONLY <1>1, <2>3
    <2> HIDE DEF a, c, k, p
    <2>8. a' = k' + c' + p'
      BY ONLY <2>4, <2>5, <2>6, <2>7
    <2> QED
      BY <2>8 DEF EveryEventIsCounted, a, c, k, p
  <1>7. MissingIsToldOnce' /\ BeatsInv'
    BY <1>0, <1>1, <1>4 DEF MissingIsToldOnce, BeatsInv, Missing, ReportedBy
  <1>8. CloseInv'
    <2>1. closer \in Closers /\ closer.before \in Nat /\ closer' = closer /\ drainer' = drainer /\ pending' = pending
      BY <1>0 DEF LineTypes, Closers
    <2>2. closer.at # "open" => closer.before < logged + 1
      BY <1>0, <1>1, <2>1 DEF CloseInv
    <2>3. (\E i \in DOMAIN line : line[i] = Shutdown)' => \E i \in DOMAIN line : line[i] = Shutdown
      BY <1>1, <1>2, <1>3
    <2>4. ASSUME drainer.at \in {"last", "ended"}, NEW i \in Offered(line)'
          PROVE  line'[i] > closer.before
      BY <1>0, <1>1, <1>2, <1>3, <2>2, <2>4 DEF CloseInv, Offered
    <2> QED
      BY <1>0, <1>1, <2>1, <2>2, <2>3, <2>4 DEF CloseInv
  <1> QED
    BY <1>5, <1>6, <1>7, <1>8 DEF TelemetryIInv

LEMMA CloserStep ==
  ASSUME TelemetryIInv, close \/ wake \/ join
  PROVE  TelemetryIInv'
  <1>0. LineTypes /\ EveryEventIsCounted /\ MissingIsToldOnce /\ BeatsInv /\ CloseInv
    BY DEF TelemetryIInv
  <1>1. /\ UNCHANGED <<pending, drainer, counts, reported, told, untold, logged, beats>>
        /\ \/ closer' = [at |-> "stopping", before |-> logged] /\ closer.at = "open"
           \/ closer' = [closer EXCEPT !.at = "joining"] /\ closer.at # "open"
           \/ closer' = [closer EXCEPT !.at = "closed"] /\ closer.at # "open"
        /\ \/ line' = line
           \/ line' = Append(line, Shutdown) /\ closer.at # "open"
    BY DEF close, wake, join
  <1>2. /\ line \in Seq(Nat) /\ Shutdown \in Nat /\ logged \in Nat /\ closer \in Closers /\ closer.before \in Nat
    BY <1>0 DEF LineTypes, Shutdown, Closers
  <1>3. /\ closer' \in Closers /\ closer'.at # "open"
        /\ closer'.before = IF closer.at = "open" THEN logged ELSE closer.before
    BY <1>1, <1>2 DEF Closers
  <1> DEFINE s == Append(line, Shutdown)
  <1>4. /\ s \in Seq(Nat) /\ Cardinality(Offered(s)) = Cardinality(Offered(line)) + 0
        /\ \A i \in Offered(s) : (i \in Offered(line) /\ s[i] = line[i]) \/ s[i] = Shutdown
    <2>1. Append(line, Shutdown) \in Seq(Nat)
      BY ONLY <1>2
    <2>2. /\ Cardinality(Offered(Append(line, Shutdown)))
             = Cardinality(Offered(line)) + (IF Shutdown = Shutdown THEN 0 ELSE 1)
          /\ \A i \in Offered(Append(line, Shutdown)) :
                \/ i \in Offered(line) /\ Append(line, Shutdown)[i] = line[i]
                \/ Append(line, Shutdown)[i] = Shutdown
      BY ONLY <1>2, OfferedOneMore
    <2> QED
      BY <2>1, <2>2
  <1>5. Cardinality(Offered(line)) \in Nat
    BY <1>2, OfferedFinite
  <1> HIDE DEF s
  <1>6. /\ line' \in Seq(Nat) /\ Cardinality(Offered(line)') = Cardinality(Offered(line))
        /\ \A i \in Offered(line)' : i \in Offered(line) /\ line'[i] = line[i]
    <2>1. CASE line' = line
      BY <1>2, <2>1 DEF Offered
    <2>2. CASE line' = s
      BY <1>2, <1>4, <1>5, <2>2 DEF Offered
    <2> QED
      BY <1>1, <2>1, <2>2 DEF s
  <1>7. LineTypes'
    BY <1>0, <1>1, <1>3, <1>6 DEF LineTypes
  <1>8. EveryEventIsCounted' /\ MissingIsToldOnce' /\ BeatsInv'
    BY <1>0, <1>1, <1>6 DEF EveryEventIsCounted, MissingIsToldOnce, BeatsInv, Missing, ReportedBy
  <1>9. CloseInv'
    <2>1. closer.at = "open" => drainer.at \notin {"last", "ended"}
      BY <1>0 DEF CloseInv
    <2>2. (closer.before <= logged)'
      BY <1>0, <1>1, <1>2, <1>3 DEF CloseInv
    <2>3. ASSUME drainer.at \in {"last", "ended"}, NEW i \in Offered(line)'
          PROVE  line'[i] > closer'.before
      BY <1>0, <1>3, <1>6, <2>1, <2>3 DEF CloseInv
    <2> QED
      BY <1>0, <1>1, <1>3, <2>2, <2>3 DEF CloseInv
  <1> QED
    BY <1>7, <1>8, <1>9 DEF TelemetryIInv

LEMMA TakeStep ==
  ASSUME TelemetryIInv, get \/ drain
  PROVE  TelemetryIInv'
  <1>0. LineTypes /\ EveryEventIsCounted /\ MissingIsToldOnce /\ BeatsInv /\ CloseInv
    BY DEF TelemetryIInv
  <1>1. /\ line \in Seq(Nat) /\ pending \in Seq(Int) /\ Len(pending) \in Nat /\ logged \in Nat /\ beats \in Nat
        /\ counts \in Counts /\ counts.sent \in Nat /\ counts.failed \in Nat /\ counts.dropped \in Nat
        /\ drainer \in Drainers /\ Cardinality(Offered(line)) \in Nat /\ closer \in Closers
    BY <1>0, OfferedFinite DEF LineTypes, Counts
  <1>2. UNCHANGED <<counts, reported, told, untold, logged, beats, closer>>
    BY DEF get, drain
  <1>3. /\ drainer' \in Drainers
        /\ drainer'.item = "shutdown" => drainer.item = "shutdown" \/ (line # <<>> /\ Head(line) = Shutdown)
        /\ drainer'.at = "taken" \/ drainer.at = "draining"
        /\ drainer'.at # "ended"
        /\ drainer'.at = "last" => line' = <<>>
    <2>1. CASE get
      BY <1>1, <2>1 DEF get, Drainers
    <2>2. CASE drain
      BY <1>1, <2>2 DEF drain, Drainers
    <2> QED
      BY <2>1, <2>2
  <1>4. CASE UNCHANGED <<line, pending>>
    <2>1. LineTypes'
      BY <1>0, <1>2, <1>3, <1>4 DEF LineTypes
    <2>2. EveryEventIsCounted' /\ MissingIsToldOnce' /\ BeatsInv'
      BY <1>0, <1>2, <1>4 DEF EveryEventIsCounted, MissingIsToldOnce, BeatsInv, Missing, ReportedBy, Offered
    <2>3. line # <<>> => 1 \in DOMAIN line /\ line[1] = Head(line)
      BY <1>1
    <2>4. drainer'.at \in {"draining", "last", "ended"} => drainer.at = "draining"
      BY <1>3
    <2>5. drainer'.at \in {"last", "ended"} => Offered(line)' = {}
      BY <1>3 DEF Offered
    <2> QED
      BY <1>0, <1>2, <1>3, <1>4, <2>1, <2>2, <2>3, <2>4, <2>5 DEF TelemetryIInv, CloseInv
  <1>5. CASE line # <<>> /\ pending' = Collected(Head(line)) /\ line' = Tail(line)
    <2>1. /\ Cardinality(Offered(Tail(line))) = Cardinality(Offered(line)) - (IF Head(line) = Shutdown THEN 0 ELSE 1)
          /\ Tail(line) \in Seq(Nat) /\ Head(line) \in Nat /\ 1 \in DOMAIN line /\ line[1] = Head(line)
          /\ \A i \in DOMAIN Tail(line) : i + 1 \in DOMAIN line /\ Tail(line)[i] = line[i + 1]
      BY <1>1, <1>5, OfferedWithoutFirst
    <2>2. /\ pending' \in Seq(Int)
          /\ Len(pending') = Len(pending) + (IF Head(line) = Shutdown THEN 0 ELSE 1)
      BY <1>1, <1>5, <2>1 DEF Collected
    <2>3. ReportedBy(pending') = ReportedBy(pending)
      <3>1. CASE Head(line) = Shutdown
        BY <1>5, <3>1 DEF Collected
      <3>2. CASE Head(line) # Shutdown
        <4>1. Head(line) \in Int /\ Reports(Head(line)) = 0
          BY <2>1 DEF Reports, IsBeat
        <4>2. ReportedBy(Append(pending, Head(line))) = ReportedBy(pending) + 0
          BY <1>1, <4>1, ReportsOfOneMore
        <4>3. ReportedBy(pending) \in Nat
          BY <1>1, ReportsOfAll
        <4> QED
          BY <1>5, <3>2, <4>2, <4>3 DEF Collected
      <3> QED
        BY <3>1, <3>2
    <2>4. LineTypes'
      BY <1>0, <1>2, <1>3, <1>5, <2>1, <2>2 DEF LineTypes
    <2>5. EveryEventIsCounted'
      <3> DEFINE c == Cardinality(Offered(line))  p == Len(pending)
                 k == IF Head(line) = Shutdown THEN 0 ELSE 1
      <3>1. Cardinality(Offered(line))' = Cardinality(Offered(Tail(line)))
        BY <1>5 DEF Offered
      <3>2. /\ logged + beats = counts.sent + counts.failed + counts.dropped + c + p /\ c \in Nat /\ p \in Nat
            /\ c' = c - k /\ p' = p + k /\ k \in Nat
        BY <1>0, <1>1, <2>1, <2>2, <3>1 DEF EveryEventIsCounted
      <3> HIDE DEF c, p, k
      <3>3. logged' + beats' = counts'.sent + counts'.failed + counts'.dropped + c' + p'
        BY ONLY <1>1, <1>2, <3>2
      <3> QED
        BY <3>3 DEF EveryEventIsCounted, c, p
    <2>6. MissingIsToldOnce' /\ BeatsInv'
      <3>1. ReportedBy(pending)' = ReportedBy(pending')
        BY DEF ReportedBy
      <3> QED
        BY <1>0, <1>2, <2>3, <3>1 DEF MissingIsToldOnce, BeatsInv, Missing
    <2>7. (\E i \in DOMAIN line : line[i] = Shutdown)' => \E i \in DOMAIN line : line[i] = Shutdown
      BY <1>5, <2>1
    <2>8. drainer'.at \in {"draining", "last", "ended"} => drainer.at = "draining"
      BY <1>3
    <2>9. drainer'.at \in {"last", "ended"} => Offered(line)' = {}
      BY <1>3 DEF Offered
    <2>10. CloseInv'
      BY <1>0, <1>2, <1>3, <2>1, <2>7, <2>8, <2>9 DEF CloseInv
    <2> QED
      BY <2>4, <2>5, <2>6, <2>10 DEF TelemetryIInv
  <1> QED
    BY <1>4, <1>5 DEF get, drain

LEMMA LookStep ==
  ASSUME TelemetryIInv, look_at_item
  PROVE  TelemetryIInv'
  <1> USE DEF look_at_item
  <1>0. LineTypes /\ EveryEventIsCounted /\ MissingIsToldOnce /\ BeatsInv /\ CloseInv
    BY DEF TelemetryIInv
  <1>1. /\ pending \in Seq(Int) /\ Len(pending) \in Nat /\ beats \in Nat /\ reported \in Nat
        /\ Missing \in Nat /\ reported <= Missing /\ drainer \in Drainers /\ logged \in Nat
        /\ counts.sent \in Nat /\ counts.failed \in Nat /\ counts.dropped \in Nat
        /\ Cardinality(Offered(line)) \in Nat /\ told \in Nat /\ untold \in Nat
    BY <1>0, OfferedFinite DEF LineTypes, Counts, Missing, BeatsInv
  <1>2. /\ UNCHANGED <<line, counts, told, untold, logged, closer>>
        /\ drainer' \in Drainers /\ drainer'.item = drainer.item /\ drainer'.at \in {"draining", "collected"}
        /\ drainer'.at = "draining" => drainer.item = "shutdown" \/ closer.at # "open"
    BY <1>1 DEF Drainers, Stopping
  <1>3. CloseInv'
    BY <1>0, <1>2 DEF CloseInv
  <1>4. Missing' = Missing
    BY <1>2 DEF Missing
  <1>5. CASE UNCHANGED <<beats, reported, pending>>
    <2>1. LineTypes'
      BY <1>0, <1>2, <1>5 DEF LineTypes
    <2>2. EveryEventIsCounted' /\ MissingIsToldOnce' /\ BeatsInv'
      BY <1>0, <1>2, <1>4, <1>5 DEF EveryEventIsCounted, MissingIsToldOnce, BeatsInv, ReportedBy, Offered
    <2> QED
      BY <1>3, <2>1, <2>2 DEF TelemetryIInv
  <1>6. CASE /\ beats' = beats + 1 /\ reported' = Missing
             /\ pending' = Append(pending, Beat(Missing - reported))
    <2> DEFINE e == Beat(Missing - reported)
    <2>1. e \in Int /\ Reports(e) = Missing - reported
      BY <1>1 DEF Beat, Reports, IsBeat
    <2> HIDE DEF e
    <2>2. pending' = Append(pending, e)
      BY <1>6 DEF e
    <2>3. pending' \in Seq(Int) /\ Len(pending') = Len(pending) + 1
      BY <1>1, <2>1, <2>2
    <2>4. ReportedBy(pending') = ReportedBy(pending) + (Missing - reported) /\ ReportedBy(pending) \in Nat
      BY <1>1, <2>1, <2>2, ReportsOfOneMore, ReportsOfAll
    <2>5. LineTypes'
      BY <1>0, <1>1, <1>2, <1>6, <2>3 DEF LineTypes
    <2>6. EveryEventIsCounted'
      <3>1. Cardinality(Offered(line))' = Cardinality(Offered(line)) /\ Len(pending)' = Len(pending) + 1
        BY <1>2, <2>3 DEF Offered
      <3> DEFINE c == Cardinality(Offered(line))  p == Len(pending)
                 k == counts.sent + counts.failed + counts.dropped  a == logged + beats
      <3>2. a = k + c + p /\ c \in Nat /\ p \in Nat /\ c' = c /\ p' = p + 1
        BY <1>0, <1>1, <3>1 DEF EveryEventIsCounted
      <3>3. a \in Nat /\ k \in Nat /\ a' = a + 1 /\ k' = k
        BY ONLY <1>1, <1>2, <1>6
      <3> HIDE DEF a, c, k, p
      <3>4. a' = k' + c' + p'
        BY ONLY <3>2, <3>3
      <3> QED
        BY <3>4 DEF EveryEventIsCounted, a, c, k, p
    <2>7. MissingIsToldOnce'
      <3>1. ReportedBy(pending)' = ReportedBy(pending')
        BY DEF ReportedBy
      <3> QED
        BY <1>0, <1>1, <1>2, <1>6, <2>4, <3>1 DEF MissingIsToldOnce
    <2>8. BeatsInv'
      BY <1>1, <1>4, <1>6 DEF BeatsInv
    <2> QED
      BY <1>3, <2>5, <2>6, <2>7, <2>8 DEF TelemetryIInv
  <1> QED
    BY <1>5, <1>6 DEF _heartbeat

LEMMA PostStep ==
  ASSUME TelemetryIInv, _post
  PROVE  TelemetryIInv'
  <1> USE DEF _post
  <1>0. LineTypes /\ EveryEventIsCounted /\ MissingIsToldOnce /\ BeatsInv /\ CloseInv
    BY DEF TelemetryIInv
  <1> DEFINE n == Len(pending)  r == ReportedBy(pending)
  <1>1. /\ n \in Nat /\ r \in Nat /\ beats \in Nat /\ logged \in Nat /\ reported \in Nat /\ told \in Nat /\ untold \in Nat
        /\ counts \in Counts /\ counts.sent \in Nat /\ counts.failed \in Nat /\ counts.dropped \in Nat
        /\ Cardinality(Offered(line)) \in Nat /\ drainer \in Drainers
    <2>1. line \in Seq(Nat) /\ pending \in Seq(Int)
      BY <1>0 DEF LineTypes
    <2>2. Cardinality(Offered(line)) \in Nat
      BY ONLY <2>1, OfferedFinite
    <2>3. r \in Nat
      BY ONLY <2>1, ReportsOfAll
    <2>4. n \in Nat
      BY ONLY <2>1
    <2> HIDE DEF n, r
    <2> QED
      BY <1>0, <2>2, <2>3, <2>4 DEF LineTypes, Counts
  <1> HIDE DEF n, r
  <1>2. /\ UNCHANGED <<line, reported, logged, beats, closer>> /\ pending' = <<>>
        /\ \/ counts' = [counts EXCEPT !.sent = @ + n] /\ told' = told + r /\ untold' = untold
           \/ counts' = [counts EXCEPT !.failed = @ + n] /\ untold' = untold + r /\ told' = told
    BY DEF n, r
  <1>3. /\ counts' \in Counts /\ counts'.dropped = counts.dropped
        /\ \/ counts'.sent = counts.sent + n /\ counts'.failed = counts.failed
           \/ counts'.sent = counts.sent /\ counts'.failed = counts.failed + n
    <2>1. counts \in Counts /\ n \in Nat
      BY ONLY <1>1
    <2>2. CASE counts' = [counts EXCEPT !.sent = @ + n]
      BY ONLY <2>1, <2>2 DEF Counts
    <2>3. CASE counts' = [counts EXCEPT !.failed = @ + n]
      BY ONLY <2>1, <2>3 DEF Counts
    <2> QED
      BY ONLY <1>2, <2>2, <2>3
  <1>4. told' + untold' = told + untold + r /\ told' \in Nat /\ untold' \in Nat
    BY <1>1, <1>2
  <1>5. /\ drainer' \in Drainers /\ drainer'.item = drainer.item
        /\ drainer'.at \in {"waiting", "ended"} /\ (drainer'.at = "ended" => drainer.at = "last")
    BY <1>1 DEF Onwards, Drainers
  <1>6. LineTypes'
    <2>1. pending' \in Seq(Int)
      BY <1>2
    <2> QED
      BY <1>0, <1>2, <1>3, <1>4, <1>5, <2>1 DEF LineTypes
  <1>7. EveryEventIsCounted'
    <2>1. Cardinality(Offered(line))' = Cardinality(Offered(line)) /\ Len(pending)' = 0
      BY <1>2 DEF Offered
    <2> DEFINE c == Cardinality(Offered(line))  p == Len(pending)
               k == counts.sent + counts.failed + counts.dropped  a == logged + beats
    <2>2. a = k + c + n /\ c \in Nat /\ c' = c /\ p' = 0
      BY <1>0, <1>1, <2>1 DEF EveryEventIsCounted, n
    <2>3. a \in Nat /\ k \in Nat /\ a' = a
      <3>1. a \in Nat /\ k \in Nat
        BY ONLY <1>1
      <3>2. logged' = logged /\ beats' = beats
        BY ONLY <1>2
      <3> QED
        BY ONLY <3>1, <3>2
    <2>4. k' = k + n
      <3> DEFINE x == counts.sent  y == counts.failed  z == counts.dropped
      <3>1. /\ x \in Nat /\ y \in Nat /\ z \in Nat /\ n \in Nat /\ z' = z
            /\ (x' = x + n /\ y' = y) \/ (x' = x /\ y' = y + n)
        BY ONLY <1>1, <1>3
      <3> HIDE DEF x, y, z
      <3>2. x' + y' + z' = (x + y + z) + n
        BY ONLY <3>1
      <3>3. k = x + y + z
        BY ONLY <3>1 DEF x, y, z
      <3>4. k' = x' + y' + z'
        BY ONLY <3>1 DEF x, y, z
      <3> HIDE DEF k
      <3> QED
        BY ONLY <3>2, <3>3, <3>4
    <2> HIDE DEF a, c, k, p
    <2>5. a' = k' + c' + p'
      BY ONLY <1>1, <2>2, <2>3, <2>4
    <2> QED
      BY <2>5 DEF EveryEventIsCounted, a, c, k, p
  <1>8. MissingIsToldOnce'
    <2>1. ReportedBy(pending)' = 0
      BY <1>2, ReportsOfNone DEF ReportedBy
    <2> QED
      BY <1>0, <1>1, <1>2, <1>4, <2>1 DEF MissingIsToldOnce, r
  <1>9. BeatsInv'
    BY <1>0, <1>1, <1>2, <1>3 DEF BeatsInv, Missing
  <1>10. CloseInv'
    BY <1>0, <1>2, <1>5 DEF CloseInv, Offered
  <1> QED
    BY <1>6, <1>7, <1>8, <1>9, <1>10 DEF TelemetryIInv

LEMMA KeepStep ==
  ASSUME TelemetryIInv, keep_collecting
  PROVE  TelemetryIInv'
  <1> USE DEF keep_collecting
  <1>0. LineTypes /\ EveryEventIsCounted /\ MissingIsToldOnce /\ BeatsInv /\ CloseInv
    BY DEF TelemetryIInv
  <1>1. /\ UNCHANGED <<line, pending, counts, reported, told, untold, logged, beats, closer>>
        /\ drainer' \in Drainers /\ drainer'.item = drainer.item
        /\ drainer'.at \in {"waiting", "ended"}
        /\ drainer'.at = "ended" => drainer.at = "last" /\ pending = <<>>
    BY <1>0 DEF Onwards, Drainers, LineTypes, Flushes
  <1>2. LineTypes'
    BY <1>0, <1>1 DEF LineTypes
  <1>3. EveryEventIsCounted' /\ MissingIsToldOnce' /\ BeatsInv'
    BY <1>0, <1>1 DEF EveryEventIsCounted, MissingIsToldOnce, BeatsInv, Missing, ReportedBy, Offered
  <1>4. CloseInv'
    BY <1>0, <1>1 DEF CloseInv, Offered
  <1> QED
    BY <1>2, <1>3, <1>4 DEF TelemetryIInv

LEMMA TelemetryStep ==
  ASSUME TelemetryIInv, [TelemetryNext]_telemetryVars
  PROVE  TelemetryIInv'
  <1>1. CASE UNCHANGED telemetryVars
    BY <1>1 DEF telemetryVars, TelemetryIInv, LineTypes, EveryEventIsCounted, MissingIsToldOnce, BeatsInv, CloseInv,
                Missing, ReportedBy, Offered
  <1>2. CASE TelemetryNext
    BY <1>2, IngestStep, CloserStep, TakeStep, LookStep, PostStep, KeepStep DEF TelemetryNext, _drain
  <1> QED
    BY <1>1, <1>2

LEMMA TelemetryIsSafe ==
  ASSUME TelemetryIInv
  PROVE  EveryEventIsCounted /\ MissingIsToldOnce /\ ShutdownFlushes
  BY DEF TelemetryIInv, CloseInv, ShutdownFlushes

-----------------------------------------------------------------------------
(* The workers together, as the run checks them.                           *)

LoggedIInv == MirrorIInv /\ TelemetryIInv

LEMMA LoggedStart == WorkersInit => LoggedIInv
  <1>1. WorkersInit => ContributionsInit /\ TelemetryInit
    BY DEF WorkersInit
  <1> QED
    BY <1>1, MirrorStart, TelemetryStart DEF LoggedIInv

LEMMA LoggedStep == LoggedIInv /\ [WorkersNext]_workersVars => LoggedIInv'
  <1> SUFFICES ASSUME LoggedIInv, [WorkersNext]_workersVars PROVE LoggedIInv'
    OBVIOUS
  <1>1. [ContributionsNext]_contributionVars
    BY DEF WorkersNext, workersVars, VerifierPipelineRuns, CompetitionQueueRuns, CompetitionIntakeRuns, EmissionsRuns,
           ContributionMirrorRuns, ChainReadsRuns, TelemetryQueueRuns
  <1>2. [TelemetryNext]_telemetryVars
    BY DEF WorkersNext, workersVars, VerifierPipelineRuns, CompetitionQueueRuns, CompetitionIntakeRuns, EmissionsRuns,
           ContributionMirrorRuns, ChainReadsRuns, TelemetryQueueRuns
  <1> QED
    BY <1>1, <1>2, MirrorStep, TelemetryStep DEF LoggedIInv

\* What the mirror serves and what the process logs, in every behaviour of the workers.
THEOREM LoggedInductive == WorkersSpec => []LoggedIInv
  BY LoggedStart, LoggedStep, PTL DEF WorkersSpec

\* What a worker could not deliver it counts or asks for again: a listing is one whole commit, and
\* every event is sent, failed, dropped or on its way, and told once (github.py, axiom/client.py).
THEOREM SilenceLosesNothing == WorkersSpec => []NothingIsLostInSilence
  <1>1. LoggedIInv => NothingIsLostInSilence
    BY MirrorIsSafe, TelemetryIsSafe DEF LoggedIInv, MirrorIInv, NothingIsLostInSilence
  <1> QED
    BY <1>1, LoggedInductive, PTL
=============================================================================

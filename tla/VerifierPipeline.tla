--------------------------- MODULE VerifierPipeline ---------------------------
(***************************************************************************)
(* One verification of one proof, from the bundle the API admits to the    *)
(* verdict the worker records: admission (verifier/bundle.py), the stages  *)
(* of verify() inside the container (verifier/verification.py, workspace,  *)
(* process, comparator), and the host's side of the run                    *)
(* (verification_worker/runner.py).                                        *)
(*                                                                         *)
(* What the stages find out is fixed before they run: `world` holds the    *)
(* set of things that are wrong with this bundle, task, machine and proof, *)
(* and how the child processes behave (they finish, crash, never end, or   *)
(* leave a descendant that keeps their output open).  The words of the     *)
(* comparator's output that the host reads a reason from include whatever  *)
(* the solution's own build printed (`noise`).                             *)
(***************************************************************************)
EXTENDS Naturals, FiniteSets

CONSTANT MaxDefects        \* bound: how many things are wrong at once

VARIABLES world,           \* the facts the stages discover; fixed
          stage,           \* where verify() stands
          checks,          \* the checks it has recorded as true
          workspace,       \* the temporary workspace: none, or open
          report,          \* the report written to standard output
          host             \* where the worker stands, and what it concluded

pipelineVars == <<world, stage, checks, workspace, report, host>>

\* What can be wrong, in the order the code looks at it.
BundleFacts    == {"archive", "manifest", "digest", "signer"}
TaskFacts      == {"bundle", "commitment", "production", "pins", "environment", "provenance"}
ProofFacts     == {"policy", "builds", "statement", "axioms", "nanoda", "kernel"}
MachineFacts   == {"sandbox", "disk", "tools", "challenge", "closure", "sourceType",
                   "targetType", "eligible"}
Facts          == BundleFacts \cup TaskFacts \cup ProofFacts \cup MachineFacts

\* How a child process ends if nothing stops it.
Ends == {"exits", "crashes", "hangs", "holds"}

NoReport == [accepted |-> FALSE, reason |-> "none", checks |-> {}, exit |-> 0]

PipelineInit ==
    /\ world \in [wrong : {D \in SUBSET Facts : Cardinality(D) <= MaxDefects},
                  v2 : BOOLEAN, production : BOOLEAN, insecure : BOOLEAN,
                  challengeEnds : Ends \ {"crashes"}, comparatorEnds : Ends,
                  noise : SUBSET {"exporting", "axiom", "kernel"}]
    /\ world.production => ~world.insecure
    /\ stage = "none" /\ checks = {} /\ workspace = "none"
    /\ report = NoReport /\ host = "admission"

Wrong(f) == f \in world.wrong

----------------------------------------------------------------------------
(* Admission at the API: nothing reaches the queue that it refused.         *)

\* The archive is parsed by hand: one manifest, one proof, no overlap, sizes
\* within the caps, and a digest that matches the proof.
load_proof_bundle == ~Wrong("archive") /\ ~Wrong("manifest") /\ ~Wrong("digest")

\* The manifest names the task, its committed digest and the authenticated
\* signer; the proof passes the static policy.
admit_proof_bundle ==
    /\ host = "admission"
    /\ host' = IF load_proof_bundle /\ ~Wrong("signer") /\ ~Wrong("policy")
                 THEN "admitted" ELSE "refused"
    /\ UNCHANGED <<world, stage, checks, workspace, report>>

----------------------------------------------------------------------------
(* Inside the container: the stages of verify().                            *)

\* Every early return builds a report from the checks so far; the finally
\* clause still has to remove the workspace.
rejectedWith(reason, found, exit) ==
    /\ report' = [accepted |-> FALSE, reason |-> reason, checks |-> found, exit |-> exit]
    /\ stage' = "cleanup"
    /\ checks' = found

rejected(reason) == rejectedWith(reason, checks, 0)

Passed(next, found) ==
    /\ stage' = next
    /\ checks' = checks \cup found
    /\ UNCHANGED report

\* A task bundle that does not load is an exception, not a report: the CLI
\* prints an error document instead.
load_task_bundle ==
    /\ stage = "load_task"
    /\ IF Wrong("bundle")
         THEN stage' = "error" /\ UNCHANGED <<checks, report>>
         ELSE Passed("commitment", {"manifest_valid"}
                       \cup (IF Wrong("production") THEN {} ELSE {"production_task"}))
    /\ UNCHANGED <<world, workspace, host>>

\* The committed digest, the pinned checkout, and for a version-2 task the
\* environment's identity.
assert_dependency_pins ==
    LET committed == checks \cup {"task_commitment_valid"} IN
    /\ stage = "commitment"
    /\ IF Wrong("commitment") THEN rejected("TASK_COMMITMENT_MISMATCH")
       ELSE IF Wrong("production") THEN rejectedWith("INELIGIBLE_TASK", committed, 0)
       ELSE IF Wrong("pins") THEN rejectedWith("REPOSITORY_COMMIT_MISMATCH", committed, 0)
       ELSE IF world.v2 /\ Wrong("environment")
              THEN rejectedWith("ENVIRONMENT_MISMATCH", committed, 0)
       ELSE Passed("load_submission", {"task_commitment_valid", "trusted_hashes_valid"})
    /\ UNCHANGED <<world, workspace, host>>

check_submission ==
    /\ stage = "load_submission"
    /\ IF Wrong("policy") THEN rejected("SUBMISSION_POLICY_VIOLATION")
       ELSE Passed("sandbox", {"submission_policy_valid"})
    /\ UNCHANGED <<world, workspace, host>>

\* The probe runs the real launcher; a development machine may go on without.
production_sandbox_available ==
    /\ stage = "sandbox"
    /\ LET live == ~Wrong("sandbox") /\ ~world.insecure
       IN  IF ~live /\ ~world.insecure THEN rejected("INSECURE_SANDBOX")
           ELSE Passed("workspace", IF live THEN {"production_sandbox"} ELSE {})
    /\ UNCHANGED <<world, workspace, host>>

\* A workspace that cannot be completed is removed again where it was made.
create_workspace ==
    /\ stage = "workspace"
    /\ IF Wrong("disk") THEN rejected("WORKSPACE_ERROR") /\ workspace' = "none"
       ELSE Passed("build_challenge", {}) /\ workspace' = "open"
    /\ UNCHANGED <<world, host>>

\* What run_process reports: a child that ends, and closes its output, before
\* its timeout; one that is killed at the timeout; one that exits but whose
\* descendant keeps the output open counts as timed out too.  A child that
\* would have ended may still be too slow.
run_process(ends) ==
    [hangs |-> {"timeout"}, holds |-> {"timeout"}, exits |-> {"exit", "timeout"},
     crashes |-> {"crash", "timeout"}][ends]

\* The trusted challenge builds before any byte of the proof is in the
\* workspace.
build_challenge ==
    /\ stage = "build_challenge"
    /\ \E result \in run_process(world.challengeEnds) :
         IF result = "timeout" THEN rejected("TIMEOUT")
         ELSE IF Wrong("challenge") THEN rejected("CHALLENGE_BUILD_FAILED")
         ELSE Passed("inspect", {"challenge_built"})
    /\ UNCHANGED <<world, workspace, host>>

\* The inspector derives the closure and the types from the compiled
\* challenge; a version-2 task must have the dependency identity its ID
\* commits to, and the environment the provenance its snapshot records.
check_inspected_closure ==
    /\ stage = "inspect"
    /\ \/ rejected("TIMEOUT")
       \/ IF world.v2 /\ Wrong("closure") THEN rejected("DEPENDENCY_IDENTITY_MISMATCH")
          ELSE IF world.v2 /\ Wrong("provenance") THEN rejected("ENVIRONMENT_MISMATCH")
          ELSE Passed("types", {})
    /\ UNCHANGED <<world, workspace, host>>

inspect_generated_target ==
    /\ stage = "types"
    /\ IF Wrong("sourceType") THEN rejected("SOURCE_TYPE_CHANGED")
       ELSE IF Wrong("targetType")
              THEN rejectedWith("STATEMENT_MISMATCH",
                                checks \cup {"source_type_hash_valid"}, 0)
       ELSE IF Wrong("eligible")
              THEN rejectedWith("INELIGIBLE_TASK",
                                checks \cup {"source_type_hash_valid"}, 0)
       ELSE Passed("package", {"source_type_hash_valid"})
    /\ UNCHANGED <<world, workspace, host>>

package_solution ==
    /\ stage = "package"
    /\ \/ Passed("comparator", {})
       \/ rejected("WORKSPACE_ERROR")       \* the disk may fill up by now
    /\ UNCHANGED <<world, workspace, host>>

\* The comparator (a vendored tool): it builds and exports the solution, then
\* compares statements, checks axioms, and asks the two kernels.  It stops at
\* the first thing it does not like and says so in its own words, after
\* whatever the build printed.
Verdict ==
    LET steps == <<"builds", "statement", "axioms", "nanoda", "kernel">>
        failing == {i \in 1..5 : Wrong(steps[i])}
    IN  IF failing = {} THEN "fine"
        ELSE steps[CHOOSE i \in failing : \A j \in failing : i <= j]

\* The words of its output.  A failed build stops after "building solution",
\* unless the build itself printed the later word.
Words ==
    world.noise \cup
      CASE Verdict = "builds"    -> {"building"}
        [] Verdict = "statement" -> {"exported", "different"}
        [] Verdict = "axioms"    -> {"exported", "axiom"}
        [] Verdict = "nanoda"    -> {"exported", "nanoda"}
        [] Verdict = "kernel"    -> {"exported", "kernel"}
        [] OTHER                 -> {"exported"}

\* The words before the crash.
reason_from_words_first(result) ==
    IF result = "timeout" THEN "TIMEOUT"
    ELSE IF Wrong("tools") THEN "INTERNAL_ERROR"
    ELSE IF "axiom" \in Words THEN "UNPERMITTED_AXIOM"
    ELSE IF "kernel" \in Words THEN "LEAN_KERNEL_REJECTED"
    ELSE "COMPARATOR_TOOL_CRASHED"

\* The order in which the host reads them: what stopped the tools first, then
\* the words.  A crashed child is recognised by the very last line only.
rejection_reason(result) ==
    IF result = "timeout" THEN "TIMEOUT"
    ELSE IF Wrong("tools") THEN "INTERNAL_ERROR"
    ELSE IF result = "crash" THEN "COMPARATOR_TOOL_CRASHED"
    ELSE IF "exported" \notin Words /\ "exporting" \notin Words THEN "SOLUTION_BUILD_FAILED"
    ELSE IF "axiom" \in Words THEN "UNPERMITTED_AXIOM"
    ELSE IF "different" \in Words THEN "STATEMENT_MISMATCH"
    ELSE IF "nanoda" \in Words THEN "NANODA_REJECTED"
    ELSE IF "kernel" \in Words THEN "LEAN_KERNEL_REJECTED"
    ELSE "COMPARATOR_REJECTED"

\* The checks a rejection implies, in the order the comparator works.
_failed_comparator_checks(reason) ==
    LET kernel == {"LEAN_KERNEL_REJECTED"}
        nanoda == kernel \cup {"NANODA_REJECTED"}
        axioms == nanoda \cup {"UNPERMITTED_AXIOM"}
        built  == axioms \cup {"STATEMENT_MISMATCH"}
    IN  (IF reason \in built  THEN {"solution_built"}   ELSE {}) \cup
        (IF reason \in axioms THEN {"same_statement"}   ELSE {}) \cup
        (IF reason \in nanoda THEN {"axioms_permitted"} ELSE {}) \cup
        (IF reason \in kernel THEN {"nanoda_passed"}    ELSE {})

ComparatorChecks == {"solution_built", "same_statement", "axioms_permitted",
                     "lean_kernel_passed", "nanoda_passed"}

\* Exit code 0 and only that is an acceptance.
run_comparator ==
    /\ stage = "comparator"
    /\ \E result \in IF Wrong("tools") THEN {"missing"} ELSE run_process(world.comparatorEnds) :
         IF result = "exit" /\ Verdict = "fine"
           THEN /\ checks' = checks \cup ComparatorChecks
                /\ report' = [accepted |-> TRUE, reason |-> "VERIFIED",
                              checks |-> checks', exit |-> 0]
                /\ stage' = "cleanup"
           ELSE LET reason == rejection_reason(result)
                IN  rejectedWith(reason, checks \cup _failed_comparator_checks(reason), 1)
    /\ UNCHANGED <<world, workspace, host>>

\* The finally clause runs whatever the return was.
cleanup_workspace ==
    /\ stage = "cleanup"
    /\ workspace' = IF workspace = "open" THEN "none" ELSE workspace
    /\ stage' = "reported"
    /\ UNCHANGED <<world, checks, report, host>>

verify ==
    \/ load_task_bundle \/ assert_dependency_pins \/ check_submission
    \/ production_sandbox_available \/ create_workspace \/ build_challenge
    \/ check_inspected_closure \/ inspect_generated_target \/ package_solution
    \/ run_comparator \/ cleanup_workspace

----------------------------------------------------------------------------
(* The host's side.                                                         *)

\* A runner that cannot be built (image missing, another digest, preflight
\* failed, in-process in production) ends the worker before it claims work.
build_runner ==
    /\ host = "admitted"
    /\ host' \in {"ready", "refused"}
    /\ UNCHANGED <<world, stage, checks, workspace, report>>

start ==
    /\ host = "ready"
    /\ \/ stage' = "load_task" /\ host' = "waiting"
       \/ UNCHANGED stage /\ host' = "failure"         \* docker did not start
    /\ UNCHANGED <<world, checks, workspace, report>>

\* What the production host requires of an accepted report, whatever wrote it.
AcceptanceChecks ==
    {"manifest_valid", "production_task", "task_commitment_valid", "trusted_hashes_valid",
     "submission_policy_valid", "production_sandbox", "challenge_built",
     "source_type_hash_valid"} \cup (ComparatorChecks \ {"nanoda_passed"})

assert_production_report ==
    report.accepted =>
        /\ report.reason = "VERIFIED" /\ report.exit = 0
        /\ AcceptanceChecks \cup {"nanoda_passed"} \subseteq report.checks

\* The container ended: its standard output is the report, or an error
\* document, or more bytes than the host takes.
_communicate ==
    /\ host = "waiting"
    /\ stage \in {"reported", "error", "killed"}
    /\ host' \in {"failure"} \cup
                 IF stage # "reported" \/ (world.production /\ ~assert_production_report)
                   THEN {}
                   ELSE {IF report.accepted THEN "accepted" ELSE "rejected"}
    /\ UNCHANGED <<world, stage, checks, workspace, report>>

\* The outer bound runs out.  Only a container can be killed; the in-process
\* runner ignores the bound.
outer_bound ==
    /\ host = "waiting" /\ world.production
    /\ host' = "killing"
    /\ UNCHANGED <<world, stage, checks, workspace, report>>

\* docker kill may itself fail or take too long; the run is a failure either
\* way, and what is left of the container runs into its own deadline.
_kill ==
    /\ host = "killing"
    /\ host' = "failure"
    /\ \/ /\ stage \notin {"reported", "error"}
          /\ stage' = "killed" /\ workspace' = "none"    \* its tmpfs is gone
       \/ UNCHANGED <<stage, workspace>>
    /\ UNCHANGED <<world, checks, report>>

PipelineNext ==
    \/ admit_proof_bundle \/ build_runner \/ start \/ _communicate \/ outer_bound \/ _kill
    \/ verify

PipelineSpec == PipelineInit /\ [][PipelineNext]_pipelineVars /\ WF_pipelineVars(PipelineNext)

----------------------------------------------------------------------------

Finished ==
    /\ host \in {"refused", "accepted", "rejected", "failure"}
    /\ stage \in {"none", "reported", "error", "killed"}

PipelineTypeOK ==
    /\ world.wrong \subseteq Facts
    /\ stage \in {"none", "load_task", "commitment", "load_submission", "sandbox", "workspace",
                  "build_challenge", "inspect", "types", "package", "comparator", "cleanup",
                  "reported", "error", "killed"}
    /\ checks \subseteq AcceptanceChecks \cup {"nanoda_passed"}
    /\ workspace \in {"none", "open"}
    /\ host \in {"admission", "admitted", "ready", "waiting", "killing", "refused",
                 "accepted", "rejected", "failure"}

\* A production run is accepted only when nothing at all was wrong: the bundle
\* was its signer's, the task was the committed one in its own environment,
\* the statement was compared, both kernels agreed, and the comparator ended
\* and closed its output in time.
AcceptedWasChecked ==
    (host = "accepted" /\ world.production) =>
        /\ world.wrong \subseteq (IF world.v2 THEN {}
                                  ELSE {"environment", "closure", "provenance"})
        /\ world.comparatorEnds = "exits"

\* A tool that crashed, hung or was missing has not judged the proof, and
\* whatever its output says the reason is never one that judges it.
UnjudgedIsNotRejected ==
    (report.reason \in {"SOLUTION_BUILD_FAILED", "STATEMENT_MISMATCH", "UNPERMITTED_AXIOM",
                        "NANODA_REJECTED", "LEAN_KERNEL_REJECTED", "COMPARATOR_REJECTED"}
       /\ stage \in {"cleanup", "reported"} /\ "challenge_built" \in report.checks
       /\ ~Wrong("targetType"))
    => world.comparatorEnds = "exits" /\ ~Wrong("tools")

\* However the verification ended, nothing of the proof is left on disk.
NothingLeftBehind == Finished => workspace = "none"

\* Every run that was handed in ends with a verdict or a failure, and the container ends too,
\* even when docker could not kill it.
RunEnds == []<>(host = "admission" \/ Finished)

\* What a verdict keeps: an accept passed every gate, a rejection was judged, and no end of a run
\* leaves the proof on disk (verify, rejection_reason, cleanup_workspace).
VerdictsAreEarned == PipelineTypeOK /\ AcceptedWasChecked /\ UnjudgedIsNotRejected /\ NothingLeftBehind
=============================================================================

----------------------------- MODULE Emissions -----------------------------
(***************************************************************************)
(* The emissions worker (emissions_worker): once per epoch it plans a      *)
(* weight vector from the competition's published scores and the subnet's  *)
(* current hotkeys, and submits it until the chain reports success.  A     *)
(* submission that fails from the worker's side may still be included.     *)
(***************************************************************************)
EXTENDS Integers, FiniteSets, Functions

CONSTANTS Slots,           \* the subnet's uids, the treasury's among them
          TREASURY_UID,
          Competitors,     \* hotkeys of miners
          Scores,          \* the scores a competition can publish for a hotkey
          TREASURY_BPS, COMPETITION_BPS,
          MaxEpochs,       \* bound: epochs of the chain
          MaxUpsets        \* bound: failed submissions and hotkeys that move

BASIS_POINTS == TREASURY_BPS + COMPETITION_BPS
Empty_ == "empty"

Total(f) == SumFunction(f)

(* allocation.py asserts that the shares are the whole.  vector.py divides *)
(* floats, whose rounding is left out: here parts are counted in a unit so *)
(* fine that each competitor's is a whole number of it.                    *)
ASSUME EmissionsAssumption ==
    /\ IsFiniteSet(Slots) /\ TREASURY_UID \in Slots
    /\ IsFiniteSet(Competitors) /\ Empty_ \notin Competitors
    /\ TREASURY_BPS \in Nat /\ COMPETITION_BPS \in Nat
    /\ Scores \subseteq Nat
    /\ \A scores \in [Competitors -> Scores] : \A h \in Competitors :
          Total(scores) > 0 => (COMPETITION_BPS * scores[h]) % Total(scores) = 0

VARIABLES epoch,      \* the chain's epoch
          hotkeys,    \* hotkeys[u]: who holds uid u
          published,  \* what the score endpoint answers: scores, or why there are none
          planner,    \* the worker: waiting, or submitting its plan for an epoch
          onchain,    \* history: vectors included, with their epoch
          upsets

emissionsVars == <<epoch, hotkeys, published, planner, onchain, upsets>>

(* The endpoint's answers; unreachable, malformed and too old are alike    *)
(* unusable.                                                               *)
Answers == [why : {"fresh", "unusable"}, scores : [Competitors -> Scores]]
Silent == [why |-> "unusable", scores |-> [h \in Competitors |-> 0]]

EmissionsInit ==
    /\ epoch = 0
    /\ hotkeys \in {h \in [Slots -> Competitors \cup {Empty_}] :
                       /\ h[TREASURY_UID] = Empty_
                       /\ \A u, v \in Slots : h[u] = h[v] => u = v \/ h[u] = Empty_}
    /\ published = Silent
    /\ planner = [at |-> "waiting", done |-> 0]
    /\ onchain = {}
    /\ upsets = 0

treasury_only == [u \in Slots |-> IF u = TREASURY_UID THEN BASIS_POINTS ELSE 0]

(* combine: each competitor's part of the budget goes to the uid its       *)
(* hotkey holds now; what has no uid, and the budget of a competition      *)
(* without scores, goes to the treasury.                                   *)
combine(scores) ==
    LET total == Total(scores)
        Part(h) == (COMPETITION_BPS * scores[h]) \div total
        Held == {h \in Competitors : \E u \in Slots : hotkeys[u] = h}
        paid == [h \in Held |-> Part(h)]
        unallocated == IF total = 0 THEN COMPETITION_BPS
                       ELSE Total([h \in Competitors \ Held |-> Part(h)])
    IN  [u \in Slots |-> IF u = TREASURY_UID THEN TREASURY_BPS + unallocated
                         ELSE IF hotkeys[u] # Empty_ /\ total > 0 THEN paid[hotkeys[u]] ELSE 0]

(* plan: anything missing or wrong on the competition's side falls back to *)
(* the treasury alone; so does a metagraph that cannot be read.            *)
Plans == {treasury_only} \cup (IF published.why = "fresh" THEN {combine(published.scores)} ELSE {})

(* scores of HttpVectorSource: the endpoint's answer changes, ages out or  *)
(* goes away.                                                              *)
Publish(answer) ==
    /\ planner.at = "waiting"
    /\ published' = answer
    /\ UNCHANGED <<epoch, hotkeys, planner, onchain, upsets>>

NewEpoch ==
    /\ epoch < MaxEpochs
    /\ epoch' = epoch + 1
    /\ UNCHANGED <<hotkeys, published, planner, onchain, upsets>>

(* A uid is given to another hotkey.                                       *)
Reassign(u, h) ==
    /\ upsets < MaxUpsets /\ u # TREASURY_UID
    /\ \A v \in Slots : hotkeys[v] # h
    /\ hotkeys' = [hotkeys EXCEPT ![u] = h]
    /\ upsets' = upsets + 1
    /\ UNCHANGED <<epoch, published, planner, onchain>>

(* run_epoch, up to its loop: wait for a new epoch, then plan once.        *)
wait_for_epoch ==
    /\ planner.at = "waiting" /\ epoch > planner.done
    /\ \E p \in Plans : planner' = [at |-> "submitting", epoch |-> epoch, plan |-> p, done |-> planner.done]
    /\ UNCHANGED <<epoch, hotkeys, published, onchain, upsets>>

Include(vector) == onchain' = onchain \cup {[epoch |-> planner.epoch, weights |-> vector]}

(* Each attempt plans anew.                                                *)
submit_replanned ==
    /\ planner.at = "submitting"
    /\ \E p \in Plans :
          \/ /\ Include(p)
             /\ planner' = [at |-> "waiting", done |-> planner.epoch]
             /\ UNCHANGED upsets
          \/ /\ upsets < MaxUpsets /\ upsets' = upsets + 1
             /\ Include(p)
             /\ UNCHANGED planner
    /\ UNCHANGED <<epoch, hotkeys, published>>

(* submit: the chain includes the vector and says so; or the worker sees a *)
(* failure, whether the vector was included or not, and tries again with   *)
(* the same plan.                                                          *)
submit ==
    /\ planner.at = "submitting"
    /\ \/ /\ Include(planner.plan)
          /\ planner' = [at |-> "waiting", done |-> planner.epoch]
          /\ UNCHANGED upsets
       \/ /\ upsets < MaxUpsets /\ upsets' = upsets + 1
          /\ Include(planner.plan) \/ UNCHANGED onchain
          /\ UNCHANGED planner
    /\ UNCHANGED <<epoch, hotkeys, published>>

run_epoch == wait_for_epoch \/ submit

EmissionsNext ==
    \/ run_epoch
    \/ NewEpoch
    \/ \E a \in {x \in Answers : x.why = "fresh"} \cup {Silent} : Publish(a)
    \/ \E u \in Slots, h \in Competitors : Reassign(u, h)

EmissionsSpec == EmissionsInit /\ [][EmissionsNext]_emissionsVars /\ WF_emissionsVars(run_epoch)

-----------------------------------------------------------------------------
(* Every vector on the chain hands out the whole emission, whichever       *)
(* competitors have left the subnet or scored nothing, and never less than *)
(* its share to the treasury.                                              *)
EmissionIsWhole ==
    \A v \in onchain :
        /\ Total(v.weights) = BASIS_POINTS
        /\ v.weights[TREASURY_UID] >= TREASURY_BPS

(* A retry of a submission that was included after all changes nothing:    *)
(* the vectors included for one epoch are the same vector, although scores *)
(* and hotkeys may have moved between the attempts.                        *)
RetryChangesNothing ==
    \A v, w \in onchain : v.epoch = w.epoch => v = w

(* An epoch the worker has left behind has its vector on the chain.        *)
EpochIsServed ==
    planner.done > 0 => \E v \in onchain : v.epoch = planner.done

(* The worker comes back to waiting: an epoch's attempts end.              *)
AttemptsEnd == []<>(planner.at = "waiting")

(* What an epoch keeps: one whole vector, however often it was submitted.  *)
EpochsArePaidOnce == EmissionIsWhole /\ RetryChangesNothing /\ EpochIsServed
=============================================================================

---------------------- MODULE MCPayoutReconciliation ----------------------
(* Small instances of PayoutReconciliation.  Its safety is checked in two      *)
(* settings at once: the two submissions have reward targets of their own, as  *)
(* TargetOf says, or both attack one target.  The other runs have the setting  *)
(* their configuration gives.                                                  *)
EXTENDS PayoutReconciliation, TLC

CONSTANTS s1, s2, t1, t2

\* Two obligations to one coldkey for one amount: any transfer pays either.
AllPay == Transfers \X Subs
\* t2 leaves the treasury for a reason of its own.
OnlyFirst == {<<t1, s1>>}

TwoTargets == s1 :> "A" @@ s2 :> "B"
OneTarget == [s \in Subs |-> "A"]
NoneReserved == {}
OneReserved == {t2}
\* Sound with AllPay: transfers are interchangeable, and so are submissions whose
\* targets are only compared with each other.
Interchangeable == Permutations({s1, s2}) \cup Permutations({t1, t2})

VARIABLE targets  \* which of the two a behaviour is about

One == INSTANCE PayoutReconciliation WITH TargetOf <- OneTarget, MaxHeight <- 2

TwoTargetsNext == targets = "two" /\ Next /\ UNCHANGED targets
OneTargetNext == targets = "one" /\ One!Next /\ UNCHANGED targets

SafetySpec ==
    targets \in {"two", "one"} /\ Init /\ [][TwoTargetsNext \/ OneTargetNext]_<<vars, targets>>

\* Safety.  TargetPaidOnce where it matters: the submissions share their target.
OneTargetPaidOnce == targets = "one" => One!TargetPaidOnce

\* As configured, with the fairness of FairSpec.
AsConfigured == targets = "cfg" /\ Init /\ [][Next /\ UNCHANGED targets]_<<vars, targets>>
FairAsConfigured ==
    /\ AsConfigured
    /\ WF_vars(ChainStep /\ fin' > fin)
    /\ WF_vars(Watch) /\ WF_vars(PassFails /\ failures' = failures)
===========================================================================

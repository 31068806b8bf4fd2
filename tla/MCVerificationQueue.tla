------------------------ MODULE MCVerificationQueue ------------------------
(* Small instances of VerificationQueue: a conjecture attempted in both modes  *)
(* (one reward target), and a submission that needs a human.                   *)
EXTENDS VerificationQueue

MCCreatedAt == [s \in Subs |-> CASE s = "proof" -> 1 [] s = "refutation" -> 2 [] OTHER -> 3]
MCProblemOf == [s \in Subs |-> IF s = "reviewed" THEN "q" ELSE "p"]
MCModeOf == [s \in Subs |-> IF s = "refutation" THEN "REFUTE" ELSE "PROVE"]
MCTargetOf == [s \in Subs |-> IF s = "reviewed" THEN "tq" ELSE "tp"]
MCReviewRequired == Subs \cap {"reviewed"}
AllServed == [w \in Workers |-> Subs]
\* One worker's task pool no longer resolves the refutation it serves.
OneMisroutes == [w \in Workers |-> IF w = "w1" THEN Subs \ {"refutation"} ELSE Subs]
=============================================================================

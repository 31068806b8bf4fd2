----------------------------- MODULE PaymentOnce -----------------------------
(***************************************************************************)
(* What every way of paying promises, whatever process sees the payment     *)
(* and how often it is told: a payment buys one thing, and what it bought   *)
(* never changes.  TreasuryFunding implements it.                           *)
(***************************************************************************)
CONSTANT Payments
VARIABLE use

Uses == {"Credits", "Submission"}

Init == use = [p \in Payments |-> "Nothing"]

Buy(p) ==
    /\ use[p] = "Nothing"
    /\ \E u \in Uses : use' = [use EXCEPT ![p] = u]

Next == \E p \in Payments : Buy(p)

Spec == Init /\ [][Next]_use
=============================================================================

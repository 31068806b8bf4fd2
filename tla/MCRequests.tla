----------------------------- MODULE MCRequests -----------------------------
(***************************************************************************)
(* Small instances of the modules of the requests that move money or open  *)
(* a session: what one request read before it came to wait for another is  *)
(* what these runs are about.  The modules share no variable, so a         *)
(* behaviour is about one of them and one run checks their sum.            *)
(***************************************************************************)
EXTENDS TreasuryFunding, TmcPayOrders, CreditAccounts, SignIn

\* The component a behaviour is about: the others stand still in it.
CONSTANT Scenarios
VARIABLE scenario

\* Two transfers of one sender, cited by two requests and one claim, and one of the treasury itself.
FundingBlock == [t \in Transfers |-> IF t = "t2" THEN 2 ELSE 1]
FundingAmount == [t \in Transfers |-> IF t = "t3" THEN 3 ELSE 2]
FundingSender == [t \in Transfers |-> IF t = "t3" THEN "treasury" ELSE "k1"]
FundingCites == [r \in Requests |-> "t1"]
FundingSigner == [r \in Requests |-> "k1"]
FundingKey == [r \in Requests |-> r]
FundingRef == [c \in Claims |-> "t1"]
FundingBy == [c \in Claims |-> "k1"]

\* Two proofs race for one intent, one confirmation signs the other, and two web calls share a key.
UploadToV == [u \in Uploads |-> "i1"]
UploadProofV == [u \in Uploads |-> IF u = "u1" THEN "p1" ELSE "p2"]
ConfirmOfV == [c \in Confirms |-> IF c = "c2" THEN "i2" ELSE "i1"]
SignedProofV == [c \in Confirms |-> IF c = "c2" THEN "p2" ELSE "p1"]
WebProofV == [w \in WebCalls |-> IF w = "w1" THEN "p1" ELSE "p4"]
WebKeyV == [w \in WebCalls |-> "k"]

\* Requests for every way in: two with one link, and logins with the password from before and from after a reset.
Asked(kind, e, k, g, c, p) ==
    [kind |-> kind, email |-> e, key |-> k, subject |-> g, link |-> c, password |-> p]
AskV == [r \in SignInRequests |->
    CASE r \in {"link1", "link2"} -> Asked("EmailLink", Nil, Nil, Nil, "c1", Nil)
      [] r = "reset" -> Asked("Reset", Nil, Nil, Nil, "c1", "p1")
      [] r = "signup" -> Asked("Signup", Nil, Nil, Nil, "c2", Nil)
      [] r = "loginOld" -> Asked("Login", "e1", Nil, Nil, Nil, "p0")
      [] r = "loginNew" -> Asked("Login", "e1", Nil, Nil, Nil, "p1")
      [] r = "wallet1" -> Asked("Wallet", Nil, "k1", Nil, "c1", Nil)
      [] OTHER -> Asked("Google", "e2", Nil, "g1", Nil, Nil)]

Runs(component) == scenario = component

Init ==
    /\ scenario \in Scenarios
    /\ FundingInit /\ OrdersInit /\ CreditInit /\ SignInInit

TreasuryFundingRuns ==
    /\ Runs("funding") /\ FundingNext
    /\ UNCHANGED <<scenario, orderVars, creditVars, signInVars>>

TmcPayOrdersRuns ==
    /\ Runs("orders") /\ OrdersNext
    /\ UNCHANGED <<scenario, fundingVars, creditVars, signInVars>>

CreditAccountsRuns ==
    /\ Runs("credits") /\ CreditNext
    /\ UNCHANGED <<scenario, fundingVars, orderVars, signInVars>>

SignInRuns ==
    /\ Runs("signin") /\ SignInNext
    /\ UNCHANGED <<scenario, fundingVars, orderVars, creditVars>>

Next ==
    \/ TreasuryFundingRuns \/ TmcPayOrdersRuns \/ CreditAccountsRuns \/ SignInRuns

\* The fairness of each component's own specification, while it is the one that runs.
Spec ==
    /\ Init /\ [][Next]_<<scenario, fundingVars, orderVars, creditVars, signInVars>>
    /\ WF_fundingVars(Runs("funding") /\ FundingGoesOn)
    /\ \A p \in Readers : /\ SF_orderVars(Runs("orders") /\ ApplyAnswer(p))
                         /\ WF_orderVars(Runs("orders") /\ \E o \in Orders : refresh_order(p, o))
    /\ WF_creditVars(Runs("credits") /\ CallsGoOn)
    /\ WF_signInVars(Runs("signin") /\ RequestsGoOn)

-----------------------------------------------------------------------------
\* Whatever these components have begun ends: an arrival is decided, a paid order is resolved, and no
\* call or sign-in waits for ever (deposit watcher, reconcile_tmc_pay, confirm_intent, _sign_in).
RequestsEnd == ArrivalIsDecided /\ PaidOrderIsResolved /\ CallsEnd /\ SignInsEnd
=============================================================================

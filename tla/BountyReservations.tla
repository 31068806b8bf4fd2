------------------------- MODULE BountyReservations -------------------------
(***************************************************************************)
(* What the treasury has promised (conjectures_subnet/bounty.py, with the  *)
(* reservations of submission_api/trajectory_fulfillment.py): a submission *)
(* keeps the amount quoted when it was accepted, the share of a target     *)
(* grows with its age, and a new amount is a share of the balance that is  *)
(* left.  The balance is read from the finalized chain and cached; a       *)
(* payout leaves the chain, is finalized and is recorded at three          *)
(* different times.                                                        *)
(***************************************************************************)
EXTENDS Integers, FiniteSets, FiniteSetsExt, Functions

CONSTANTS RewardTargets,  \* configured reward targets
          Proofs,         \* submissions that may be sent
          ForTarget,      \* ForTarget[s]: the reward target of submission s
          StartBalance,   \* the treasury at first
          BonusAmount,    \* a chat-log bonus, in the treasury's units
          StartShare, MaxShare,   \* <<numerator, denominator>>
          RampTicks,      \* ramp_seconds
          CacheTicks,     \* bounty_balance_cache_seconds, also the grace of a confirmed payout
          MinuteTicks,    \* quotes use a clock cut to the minute
          FinalityLag,    \* from a block's timestamp to its finalization
          MaxTicks,       \* bound: clock
          MaxTopUps       \* bound: payments into the treasury

ASSUME BountyConstants ==
    /\ IsFiniteSet(RewardTargets) /\ IsFiniteSet(Proofs)
    /\ {"bonus", "free"} \cap Proofs = {}
    /\ ForTarget \in [Proofs -> RewardTargets] /\ {StartBalance, BonusAmount} \subseteq Nat
    /\ {RampTicks, CacheTicks, MinuteTicks} \subseteq Nat \ {0} /\ {FinalityLag, MaxTicks, MaxTopUps} \subseteq Nat
    /\ StartShare \in (Nat \ {0}) \X (Nat \ {0}) /\ MaxShare \in (Nat \ {0}) \X (Nat \ {0})
    /\ MaxShare[1] <= MaxShare[2] /\ StartShare[1] * MaxShare[2] <= MaxShare[1] * StartShare[2]

Bonus == "bonus"
Obligations == Proofs \cup {Bonus}

VARIABLES now, topUps,
          treasury,       \* the balance at the finalized head
          balanceCache,   \* CachedBalanceReader: amount and expiry
          opened,         \* bounty_tasks.opened_at of each target, 0 before its first quote
          obligations,    \* locked submissions and the bonus
          bountyLock,      \* who holds the reservation lock
          quoting         \* the quotes being made

bountyVars == <<now, topUps, treasury, balanceCache, opened, obligations, bountyLock, quoting>>

NoObligation == [st |-> "none", amount |-> 0, paid |-> "no", sent_at |-> 0, confirmed_at |-> 0]
NotQuoting == [at |-> "idle"]

BountyInit ==
    /\ now = MinuteTicks /\ topUps = 0 /\ treasury = StartBalance
    /\ balanceCache = [amount |-> 0, expires |-> 0]
    /\ opened = [t \in RewardTargets |-> 0]
    /\ obligations = [o \in Obligations |-> NoObligation]
    /\ bountyLock = "free" /\ quoting = [o \in Obligations |-> NotQuoting]

-----------------------------------------------------------------------------
(* Pricing.                                                                *)

(* The quote's clock, cut to the minute.                                   *)
Minute(t) == t - (t % MinuteTicks)

(* calculate_bounty_rao: the share grows with the age, one floor at the    *)
(* end.                                                                    *)
calculate_bounty_rao(balance, age) ==
    LET start == StartShare[1] * MaxShare[2]
        maximum == MaxShare[1] * StartShare[2]
        elapsed == IF age < RampTicks THEN age ELSE RampTicks
    IN  (balance * (start * RampTicks + (maximum - start) * elapsed)) \div (StartShare[2] * MaxShare[2] * RampTicks)

(* States of a submission that hold or block its target.                   *)
Holder(t) == {s \in Proofs : ForTarget[s] = t /\ obligations[s].st = "approved"}
documentation_pending(t) == {s \in Proofs : ForTarget[s] = t /\ obligations[s].st \in {"confirmed", "undocumented"}}

(* settled_payout: confirmed at least the grace period ago.                *)
settled_payout(o, asOf) ==
    obligations[o].paid = "confirmed" /\ obligations[o].confirmed_at <= asOf - CacheTicks

(* A submission whose exposure counts: locked, not rejected, not settled.  *)
Reserves(o, asOf) == obligations[o].st \in {"pending", "confirmed", "approved"} /\ ~settled_payout(o, asOf)

Largest(S) == IF S = {} THEN 0 ELSE Max(S)

(* committed: each target's largest live amount, and the bonus.            *)
committed(asOf) ==
    SumFunctionOnSet([t \in RewardTargets |-> Largest({obligations[s].amount : s \in {p \in Proofs : ForTarget[p] = t /\ Reserves(p, asOf)}})],
                     RewardTargets)
    + (IF Reserves(Bonus, asOf) THEN obligations[Bonus].amount ELSE 0)

Available(gross, asOf) == IF gross > committed(asOf) THEN gross - committed(asOf) ELSE 0

-----------------------------------------------------------------------------
(* A quote under the reservation lock.                                     *)

(* The clock and the targets are read without the lock.                    *)
lock_no_quote(o) ==
    /\ quoting[o] = NotQuoting /\ obligations[o].st = "none"
    /\ quoting' = [quoting EXCEPT ![o] = [at |-> "balance", as_of |-> Minute(now)]]
    /\ UNCHANGED <<now, topUps, treasury, balanceCache, opened, obligations, bountyLock>>

(* lock_quote: the lock first, then the clock.                             *)
lock_quote(o) ==
    /\ bountyLock = "free" /\ quoting[o] = NotQuoting /\ obligations[o].st = "none"
    /\ bountyLock' = o
    /\ quoting' = [quoting EXCEPT ![o] = [at |-> "balance", as_of |-> Minute(now)]]
    /\ UNCHANGED <<now, topUps, treasury, balanceCache, opened, obligations>>

(* CachedBalanceReader.balance_rao: the cached amount while it lasts.      *)
treasury_balance_rao(o) ==
    /\ quoting[o].at = "balance"
    /\ balanceCache' = IF now < balanceCache.expires THEN balanceCache
                       ELSE [amount |-> treasury, expires |-> now + CacheTicks]
    /\ quoting' = [quoting EXCEPT ![o] = [at |-> "quote", as_of |-> quoting[o].as_of, gross |-> balanceCache'.amount]]
    /\ UNCHANGED <<now, topUps, treasury, opened, obligations, bountyLock>>

(* The targets nobody quoted before open now, the others keep their time.  *)
Opened(asOf) == [t \in RewardTargets |-> IF opened[t] = 0 THEN asOf ELSE opened[t]]
EndQuote(o) == /\ quoting' = [quoting EXCEPT ![o] = NotQuoting]
               /\ bountyLock' = IF bountyLock = o THEN "free" ELSE bountyLock

Left(o) == Available(quoting[o].gross, quoting[o].as_of)

(* A target that opened after the quote read the clock has no age.         *)
Age(o) == LET age == quoting[o].as_of - Opened(quoting[o].as_of)[ForTarget[o]] IN IF age < 0 THEN 0 ELSE age

(* The quoted amount of an open target, nothing for any other; a bonus     *)
(* has its amount, if the balance that is left covers it.                  *)
Quoted(o) ==
    IF o = Bonus THEN (IF BonusAmount <= Left(o) THEN BonusAmount ELSE 0)
    ELSE IF Holder(ForTarget[o]) # {} \/ documentation_pending(ForTarget[o]) # {} THEN 0
    ELSE calculate_bounty_rao(Left(o), Age(o))

(* quote_many: the reservations, and the amount they leave.                *)
quote_many(o) ==
    /\ quoting[o].at = "quote"
    /\ IF Quoted(o) = 0 THEN EndQuote(o)
       ELSE /\ quoting' = [quoting EXCEPT ![o] = [at |-> "insert", as_of |-> quoting[o].as_of, amount |-> Quoted(o)]]
            /\ UNCHANGED bountyLock
    /\ UNCHANGED <<now, topUps, treasury, balanceCache, opened, obligations>>

(* The submission, or prepare_payment's bonus, is inserted with its        *)
(* amount, and the lock released.                                          *)
InsertObligation(o) ==
    /\ quoting[o].at = "insert"
    /\ obligations' = [obligations EXCEPT ![o].st = IF o = Bonus THEN "approved" ELSE "pending",
                                          ![o].amount = quoting[o].amount]
    /\ opened' = Opened(quoting[o].as_of) /\ EndQuote(o)
    /\ UNCHANGED <<now, topUps, treasury, balanceCache>>

(* The payment, the logs or the claim is refused after the quote.          *)
RefuseAfterQuote(o) ==
    /\ quoting[o].at = "insert" /\ EndQuote(o)
    /\ UNCHANGED <<now, topUps, treasury, balanceCache, opened, obligations>>

(* A catalog read opens the targets too, without the lock.                 *)
read_catalog ==
    /\ opened' = Opened(Minute(now))
    /\ UNCHANGED <<now, topUps, treasury, balanceCache, obligations, bountyLock, quoting>>

-----------------------------------------------------------------------------
(* Decisions, payouts, and time.                                           *)

Becomes(o, from, to) == /\ obligations[o].st \in from /\ obligations[o].paid = "no"
                        /\ obligations' = [obligations EXCEPT ![o].st = to]
                        /\ UNCHANGED <<now, topUps, treasury, balanceCache, opened, bountyLock, quoting>>

(* A decision, or its correction, which takes no reservation lock.         *)
Decide(s) ==
    \/ Becomes(s, {"pending"}, "confirmed")
    \/ Holder(ForTarget[s]) = {} /\ Becomes(s, {"pending", "confirmed", "undocumented", "rejected"}, "approved")
    \/ Becomes(s, {"pending", "approved"}, "rejected")
    \/ Becomes(s, {"confirmed"}, "undocumented")

(* A cancelled bonus.                                                      *)
cancel_payment == Becomes(Bonus, {"approved"}, "cancelled")

(* The transfer is in a block, which is not final yet.                     *)
InFlight == {o \in Obligations : obligations[o].paid = "sent"}
SendPayout(o) == /\ obligations[o].st = "approved" /\ obligations[o].paid = "no"
                 /\ obligations[o].amount <= treasury - MapThenSumSet(LAMBDA p : obligations[p].amount, InFlight)
                 /\ obligations' = [obligations EXCEPT ![o].paid = "sent", ![o].sent_at = now]
                 /\ UNCHANGED <<now, topUps, treasury, balanceCache, opened, bountyLock, quoting>>
FinalizePayout(o) == /\ obligations[o].paid = "sent" /\ now >= obligations[o].sent_at + FinalityLag
                     /\ obligations' = [obligations EXCEPT ![o].paid = "final"]
                     /\ treasury' = treasury - obligations[o].amount
                     /\ UNCHANGED <<now, topUps, balanceCache, opened, bountyLock, quoting>>

(* The watcher confirms a payout at its block's timestamp, an operator a   *)
(* bonus at the time of its completion.                                    *)
_settle_quote(o) == /\ obligations[o].paid = "final"
              /\ obligations' = [obligations EXCEPT ![o].paid = "confirmed",
                                     ![o].confirmed_at = IF o = Bonus THEN now ELSE obligations[o].sent_at]
              /\ UNCHANGED <<now, topUps, treasury, balanceCache, opened, bountyLock, quoting>>

TopUp == /\ topUps < MaxTopUps /\ topUps' = topUps + 1 /\ treasury' = treasury + 1
         /\ UNCHANGED <<now, balanceCache, opened, obligations, bountyLock, quoting>>
Elapse == /\ now < MaxTicks /\ now' = now + 1
          /\ \A o \in InFlight : now < obligations[o].sent_at + FinalityLag
          /\ UNCHANGED <<topUps, treasury, balanceCache, opened, obligations, bountyLock, quoting>>

BountyNext ==
    \/ \E o \in Obligations : lock_quote(o) \/ treasury_balance_rao(o) \/ quote_many(o) \/ InsertObligation(o) \/ RefuseAfterQuote(o)
                              \/ SendPayout(o) \/ FinalizePayout(o) \/ _settle_quote(o)
    \/ \E s \in Proofs : Decide(s)
    \/ cancel_payment \/ read_catalog \/ TopUp \/ Elapse

BountySpec == BountyInit /\ [][BountyNext]_bountyVars

-----------------------------------------------------------------------------
(* Properties.                                                             *)

(* What is still to leave the treasury: of each unpaid target the largest  *)
(* amount that is live or about to be inserted, and an unpaid bonus.       *)
Promised(o) == IF quoting[o].at = "insert" THEN quoting[o].amount
               ELSE IF obligations[o].st \in {"pending", "confirmed", "approved"} /\ obligations[o].paid \in {"no", "sent"}
               THEN obligations[o].amount ELSE 0
PaidTarget(t) == \E s \in Proofs : ForTarget[s] = t /\ obligations[s].paid \in {"final", "confirmed"}
ExposureOf(t) == IF PaidTarget(t) THEN 0 ELSE Largest({Promised(s) : s \in {p \in Proofs : ForTarget[p] = t}})
Exposure == Promised(Bonus) + SumFunctionOnSet([t \in RewardTargets |-> ExposureOf(t)], RewardTargets)

\* "Keep the commitment until any cached pre-transfer chain balance has expired": an amount
\* is promised only if the treasury's balance covers it on top of everything promised
\* before and not yet paid, although the balance is cached and payouts are on their way.
LockIsCovered ==
    \A o \in Obligations : quoting[o].at = "quote" /\ quoting'[o].at = "insert" => Exposure' <= treasury'

\* A target's age is counted from its first quote, whatever other quotes were in flight:
\* its price never falls back to that of a younger target.
AgeNeverResets == \A t \in RewardTargets : opened[t] # 0 => opened'[t] = opened[t]

\* A promise is within the policy's bounds for the balance it was computed from: at least
\* the starting share, at most the maximum share, at every age and balance.
SharesStayInBounds ==
    \A o \in Obligations : quoting[o].at = "quote" =>
        \A age \in 0 .. RampTicks + 1 :
            /\ calculate_bounty_rao(Left(o), age) * MaxShare[2] <= Left(o) * MaxShare[1]
            /\ (calculate_bounty_rao(Left(o), age) + 1) * StartShare[2] > Left(o) * StartShare[1]
            /\ calculate_bounty_rao(Left(o), age) <= calculate_bounty_rao(Left(o), age + 1)
=============================================================================

--------------------- MODULE PayoutReconciliationProofs ---------------------
(***************************************************************************)
(* Proofs about PayoutReconciliation, for any set of submissions and       *)
(* transfers and any length of the chain.                                  *)
(*                                                                         *)
(* The argument: heights up to `fin` never change (FinalizedIsStable), the *)
(* ledger holds only transfers of those heights, and a block the cursor    *)
(* passes has had each of its transfers recorded first (PassInv).          *)
(***************************************************************************)
EXTENDS PayoutReconciliation, SequenceTheorems, TLAPS

Recorded(r) == ledger[r] # "Absent"

\* The cursor and the head of a pass are finalized heights, and nothing above the
\* head of the running pass is in the ledger.
CursorInv ==
    /\ cursor <= fin
    /\ start = 0 => cursor = 0 /\ phase = "Idle"
    /\ phase # "Idle" => /\ head <= fin
                         /\ \A r \in Refs : Recorded(r) => r[1] <= head

\* The scan is in the block after the cursor and has recorded what it passed in it;
\* the tail is above the head.
PassInv ==
    /\ phase \in {"Idle", "Revert"} => step = "Next"
    /\ phase = "Scan" => /\ cur[1] = cursor + 1 /\ cur[1] <= last /\ last <= head /\ cur[2] >= 1
                         /\ \A r \in Refs : r[1] = cur[1] /\ r[2] < cur[2] => Recorded(r)
    /\ phase \in {"Scan", "Retry"} /\ step # "Next" => cur \in Refs /\ Recorded(cur)
    /\ phase = "Retry" => \A r \in retry : Recorded(r)
    /\ phase = "Tail" => cur[1] > head /\ (cur[2] > 0 => cur[1] <= tip)
    /\ phase = "Tail" /\ step # "Next" => cur \in Refs

\* Between the match and the write the payout's row is locked, and it is a payout of
\* the matched obligation.
MatchInv ==
    step = "Apply" =>
        /\ match \in Subs
        /\ phase # "Tail" => ledger[cur] = "UNCLAIMED" /\ <<TransferAt(cur), match>> \in Pays

\* An obligation names a transfer exactly while it has chain history.
ReferenceInv ==
    \A s \in Subs : IF event[s] \in {"SUBMITTED", "CONFIRMED"} THEN ref[s] \in Refs ELSE ref[s] = NoRef

RewardFollowsReview ==
    \A s \in Subs : /\ reward[s] # "INELIGIBLE" <=> review[s] = "APPROVED"
                    /\ review[s] = "UNREVIEWED" => event[s] = "None"

\* One approved submission a reward target.
OneHolder ==
    \A s, t \in Subs :
        TargetOf[s] = TargetOf[t] /\ reward[s] # "INELIGIBLE" /\ reward[t] # "INELIGIBLE" => s = t

ObligationInv == ReferenceInv /\ RewardFollowsReview /\ OneHolder /\ NoPayoutWithoutApproval
LedgerInv == CursorSkipsNothing /\ SettledOneToOne
WatcherInv == CursorInv /\ PassInv /\ MatchInv

IInv == TypeOK /\ ObligationInv /\ LedgerInv /\ WatcherInv

-----------------------------------------------------------------------------
(* The parts of the type invariant, and of a step that leaves them alone.  *)

ObligationTypeOK ==
    /\ review \in [Subs -> {"UNREVIEWED", "APPROVED", "REJECTED"}]
    /\ reward \in [Subs -> {"INELIGIBLE", "ELIGIBLE", "REWARDED"}]
    /\ event \in [Subs -> {"None", "PENDING", "SUBMITTED", "CONFIRMED"}]
    /\ ref \in [Subs -> Refs \cup {NoRef}]
    /\ bornAt \in [Subs -> 0..MaxNow]
    /\ cancelled \in [Subs -> BOOLEAN]

LedgerTypeOK ==
    /\ ledger \in [Refs -> {"Absent", "UNCLAIMED", "CLAIMED", "DISREGARDED"}]
    /\ paidFor \in [Refs -> Subs \cup {NoSub}]

CursorTypeOK == cursor \in 0..MaxHeight /\ start \in 0..MaxHeight

PassTypeOK ==
    /\ phase \in {"Idle", "Scan", "Retry", "Tail", "Revert"}
    /\ step \in {"Next", "Match", "Apply"}
    /\ head \in 0..MaxHeight /\ last \in 0..MaxHeight /\ tip \in 0..MaxHeight
    /\ cur \in (0..(MaxHeight + 1)) \X (0..(MaxPerBlock + 1))
    /\ read \in Blocks
    /\ match \in Subs \cup {NoSub}
    /\ seen \subseteq Refs /\ retry \subseteq Refs
    /\ gone \subseteq Subs \X Refs

LEMMA TypeParts ==
  TypeOK <=> /\ ChainTypeOK /\ ObligationTypeOK /\ LedgerTypeOK /\ CursorTypeOK /\ PassTypeOK
             /\ failures \in 0..MaxFailures
  BY DEF TypeOK, ObligationTypeOK, LedgerTypeOK, CursorTypeOK, PassTypeOK

\* What a block carries is a sequence of at most MaxPerBlock transfers.
LEMMA LenPays ==
  ASSUME NEW b \in Blocks
  PROVE  Len(b.pays) \in 0..MaxPerBlock
  <1>1. PICK k \in 0..MaxPerBlock : b.pays \in [1..k -> Transfers]
    BY DEF Blocks
  <1>2. b.pays \in Seq(Transfers)
    BY <1>1, ChainConstants, SeqDef
  <1>3. DOMAIN b.pays = 1..k /\ DOMAIN b.pays = 1..Len(b.pays) /\ Len(b.pays) \in Nat
    BY <1>1, <1>2, LenProperties
  <1> QED
    BY <1>3, ChainConstants

LEMMA EmptyBlockIsABlock == EmptyBlock \in Blocks
  <1>1. <<>> \in [1..0 -> Transfers]
    OBVIOUS
  <1> QED
    BY <1>1, ChainConstants DEF EmptyBlock, Blocks

LEMMA BlocksOfTheChain ==
  ASSUME ChainTypeOK
  PROVE  /\ Len(best) \in 0..MaxHeight /\ fin \in 0..Len(best)
         /\ \A n \in 1..Len(best) : best[n] \in Blocks /\ Len(best[n].pays) \in 0..MaxPerBlock
  <1>1. Len(best) \in Nat /\ best \in Seq(Blocks)
    BY LenProperties DEF ChainTypeOK
  <1>2. \A n \in 1..Len(best) : best[n] \in Blocks
    BY <1>1, ElementOfSeq
  <1> QED
    BY <1>1, <1>2, LenPays, ChainConstants DEF ChainTypeOK

LEMMA RefsAreReferences ==
  ASSUME NEW r \in Refs
  PROVE  /\ r[1] \in 1..MaxHeight /\ r[2] \in 1..MaxPerBlock /\ r = <<r[1], r[2]>>
  BY DEF Refs, Heights

LEMMA ExtantIsARef ==
  ASSUME ChainTypeOK, NEW r \in Int \X Int, Extant(r)
  PROVE  r \in Refs
  <1>1. r = <<r[1], r[2]>>
    OBVIOUS
  <1> QED
    BY <1>1, BlocksOfTheChain, ChainConstants DEF Extant, Refs, Heights
-----------------------------------------------------------------------------
(* The chain.                                                              *)

\* No step of the chain changes a height up to the finalized head.
LEMMA FinalizedIsStable ==
  ASSUME ChainTypeOK, NewBlock \/ Reorg \/ Finalize
  PROVE  /\ ChainTypeOK' /\ fin' >= fin
         /\ \A r \in Refs : r[1] <= fin => /\ Extant(r)' <=> Extant(r)
                                           /\ TransferAt(r)' = TransferAt(r)
  <1>0. /\ best \in Seq(Blocks) /\ Len(best) \in Nat /\ Len(best) <= MaxHeight
        /\ fin \in 0..Len(best) /\ now \in 0..MaxNow
    BY BlocksOfTheChain DEF ChainTypeOK
  <1> SUFFICES /\ ChainTypeOK' /\ fin' >= fin /\ Len(best') >= fin
               /\ \A n \in 1..fin : best'[n] = best[n]
    BY <1>0 DEF Extant, TransferAt, Refs, Heights
  <1>1. CASE NewBlock
    <2>0. PICK k \in 0..MaxPerBlock : \E pays \in [1..k -> {t \in Transfers : ~OnChain(t)}] :
            best' = Append(best, [at |-> now + 1, pays |-> pays])
      BY <1>1 DEF NewBlock
    <2>1. PICK pays \in [1..k -> {t \in Transfers : ~OnChain(t)}] :
            best' = Append(best, [at |-> now + 1, pays |-> pays])
      BY <2>0
    <2> DEFINE b == [at |-> now + 1, pays |-> pays]
    <2>2. b \in Blocks
      <3>1. pays \in [1..k -> Transfers]
        OBVIOUS
      <3>2. now + 1 \in 0..MaxNow
        BY <1>0, <1>1, ChainConstants DEF NewBlock
      <3> QED
        BY <3>1, <3>2 DEF Blocks
    <2>3. /\ best' \in Seq(Blocks) /\ Len(best') = Len(best) + 1
          /\ \A n \in 1..Len(best) : best'[n] = best[n]
      BY <2>1, <2>2, <1>0, AppendProperties
    <2>4. Len(best') <= MaxHeight /\ now' \in 0..MaxNow /\ fin' = fin
      BY <2>3, <1>0, <1>1, ChainConstants DEF NewBlock
    <2> QED
      BY <2>3, <2>4, <1>0 DEF ChainTypeOK
  <1>2. CASE Reorg
    <2>1. PICK n \in fin..(Len(best) - 1) : best' = SubSeq(best, 1, n)
      BY <1>2 DEF Reorg
    <2>2. \A i \in 1..n : best[i] \in Blocks
      BY BlocksOfTheChain, <1>0
    <2>3. n \in Nat /\ fin <= n /\ n <= Len(best)
      BY <1>0
    <2>4. /\ best' \in Seq(Blocks) /\ Len(best') = n
          /\ \A i \in 1..n : best'[i] = best[i]
      BY <2>1, <2>2, <2>3, SubSeqProperties
    <2> QED
      BY <2>3, <2>4, <1>0, <1>2, ChainConstants DEF ChainTypeOK, Reorg
  <1>3. CASE Finalize
    BY <1>0, <1>3 DEF ChainTypeOK, Finalize
  <1> QED
    BY <1>1, <1>2, <1>3

LEMMA ChainStepKeeps ==
  ASSUME IInv, ChainStep
  PROVE  IInv'
  <1>0. /\ ChainTypeOK /\ ChainTypeOK' /\ fin' >= fin /\ fin \in Nat /\ fin' \in Nat
        /\ \A r \in Refs : r[1] <= fin => /\ Extant(r)' <=> Extant(r)
                                          /\ TransferAt(r)' = TransferAt(r)
    BY FinalizedIsStable, BlocksOfTheChain DEF IInv, TypeOK, ChainStep, ChainTypeOK
  <1> USE DEF ChainStep, subVars, eventVars, ledgerVars, cursorVars, passVars
  <1>1. TypeOK'
    BY <1>0 DEF IInv, TypeOK
  <1>2. ObligationInv'
    BY DEF IInv, ObligationInv, ReferenceInv, RewardFollowsReview, OneHolder,
           NoPayoutWithoutApproval, Unsigned
  <1>3. \A r \in Refs : Recorded(r) => /\ r[1] <= fin /\ Finalized(r) /\ Finalized(r)'
                                       /\ TransferAt(r)' = TransferAt(r)
    BY <1>0, RefsAreReferences DEF IInv, LedgerInv, CursorSkipsNothing, Finalized, Recorded
  <1>4. CursorSkipsNothing'
    <2>1. ASSUME NEW r \in Refs, start # 0, r[1] \in start..cursor, Extant(r)'
          PROVE  ledger[r] # "Absent"
      BY <2>1, <1>0, RefsAreReferences
         DEF IInv, WatcherInv, CursorInv, LedgerInv, CursorSkipsNothing, TypeOK
    <2> QED
      BY <2>1, <1>3 DEF CursorSkipsNothing, Recorded
  <1>5. SettledOneToOne'
    BY <1>3 DEF IInv, LedgerInv, SettledOneToOne, Recorded
  <1>6. CursorInv' /\ PassInv'
    BY <1>0 DEF IInv, WatcherInv, CursorInv, PassInv, TypeOK, Recorded
  <1>7. MatchInv'
    BY <1>3 DEF IInv, WatcherInv, PassInv, MatchInv, TypeOK
  <1> QED
    BY <1>1, <1>2, <1>4, <1>5, <1>6, <1>7 DEF IInv, LedgerInv, WatcherInv
-----------------------------------------------------------------------------
(* Reviewers, the notifier and the operator.                               *)

\* A step that keeps the chain, the ledger, the cursor, the pass, and every
\* confirmed obligation with its reference, and confirms none, keeps what is said of them.
LEMMA OthersAreKept ==
  ASSUME LedgerInv, WatcherInv, UNCHANGED <<chainVars, ledgerVars, cursorVars, passVars>>,
         \A s \in Subs : /\ event'[s] = "CONFIRMED" <=> event[s] = "CONFIRMED"
                         /\ event[s] = "CONFIRMED" => ref'[s] = ref[s]
  PROVE  LedgerInv' /\ WatcherInv'
  <1> USE DEF chainVars, ledgerVars, cursorVars, passVars
  <1>1. CursorSkipsNothing'
    BY DEF LedgerInv, CursorSkipsNothing, Extant, Finalized
  <1>2. SettledOneToOne'
    BY DEF LedgerInv, SettledOneToOne, Extant, Finalized, TransferAt
  <1>3. CursorInv' /\ PassInv' /\ MatchInv'
    BY DEF WatcherInv, CursorInv, PassInv, MatchInv, Recorded, TransferAt
  <1> QED
    BY <1>1, <1>2, <1>3 DEF LedgerInv, WatcherInv

LEMMA FrameKeepsTypes ==
  ASSUME TypeOK, UNCHANGED <<chainVars, ledgerVars, cursorVars, passVars, failures>>,
         ObligationTypeOK'
  PROVE  TypeOK'
  BY DEF TypeOK, ObligationTypeOK, ChainTypeOK, chainVars, ledgerVars, cursorVars, passVars

\* A ruling that respects the target's holder and the obligation's history.
LEMMA RuleKeepsObligations ==
  ASSUME ObligationTypeOK, ObligationInv, UNCHANGED <<event, ref, bornAt>>, NEW s \in Subs,
         \/ /\ Rule(s, "APPROVED", "ELIGIBLE") /\ UNCHANGED cancelled
            /\ review[s] # "APPROVED" => Holders(s) = {}
         \/ /\ Rule(s, "REJECTED", "INELIGIBLE")
            /\ cancelled' \in [Subs -> BOOLEAN]
            /\ \A t \in Subs \ {s} : cancelled'[t] = cancelled[t]
            /\ event[s] # "None" => Unsigned(s) /\ cancelled'[s]
  PROVE  ObligationTypeOK' /\ ObligationInv'
  <1>1. ObligationTypeOK'
    BY DEF ObligationTypeOK, Rule
  <1>2. \A t \in Subs \ {s} : review'[t] = review[t] /\ reward'[t] = reward[t] /\ cancelled'[t] = cancelled[t]
    BY DEF ObligationTypeOK, Rule
  <1>3. \/ review'[s] = "APPROVED" /\ reward'[s] = "ELIGIBLE"
        \/ /\ review'[s] = "REJECTED" /\ reward'[s] = "INELIGIBLE"
           /\ event[s] # "None" => Unsigned(s) /\ cancelled'[s]
    BY DEF ObligationTypeOK, Rule
  <1>4. ReferenceInv'
    BY DEF ObligationInv, ReferenceInv
  <1>5. RewardFollowsReview'
    BY <1>2, <1>3 DEF ObligationInv, RewardFollowsReview
  <1>6. OneHolder'
    <2>1. ASSUME NEW t \in Subs \ {s}, TargetOf[s] = TargetOf[t], reward'[s] # "INELIGIBLE",
                 reward[t] # "INELIGIBLE"
          PROVE  FALSE
      <3>1. review[s] # "APPROVED" => Holders(s) = {}
        BY <2>1, <1>3 DEF Rule, ObligationTypeOK
      <3>2. t \in Holders(s)
        BY <2>1 DEF Holders
      <3> QED
        BY <2>1, <3>1, <3>2 DEF ObligationInv, RewardFollowsReview, OneHolder
    <2> QED
      BY <2>1, <1>2 DEF ObligationInv, OneHolder
  <1>7. NoPayoutWithoutApproval'
    BY <1>2, <1>3 DEF ObligationInv, NoPayoutWithoutApproval, Unsigned
  <1> QED
    BY <1>1, <1>4, <1>5, <1>6, <1>7 DEF ObligationInv

LEMMA PeopleKeep ==
  ASSUME IInv, NEW s \in Subs,
         Decide(s) \/ CorrectUp(s) \/ CorrectDown(s) \/ CancelAndWithdraw(s) \/ Restore(s) \/ Seed(s)
  PROVE  IInv'
  <1>0. /\ ObligationTypeOK /\ ObligationInv
        /\ UNCHANGED <<chainVars, ledgerVars, cursorVars, passVars, failures>>
    BY TypeParts DEF IInv, Decide, CorrectUp, CorrectDown, CancelAndWithdraw, Restore, Seed
  <1> SUFFICES /\ ObligationTypeOK' /\ ObligationInv'
               /\ \A t \in Subs : /\ event'[t] = "CONFIRMED" <=> event[t] = "CONFIRMED"
                                  /\ event[t] = "CONFIRMED" => ref'[t] = ref[t]
    BY <1>0, OthersAreKept, FrameKeepsTypes DEF IInv
  <1>1. CASE Decide(s) \/ CorrectUp(s) \/ CorrectDown(s) \/ CancelAndWithdraw(s)
    <2>1. UNCHANGED <<event, ref, bornAt>>
      BY <1>1 DEF Decide, CorrectUp, CorrectDown, CancelAndWithdraw, eventVars
    <2>2. \/ /\ Rule(s, "APPROVED", "ELIGIBLE") /\ UNCHANGED cancelled
             /\ review[s] # "APPROVED" => Holders(s) = {}
          \/ /\ Rule(s, "REJECTED", "INELIGIBLE")
             /\ cancelled' \in [Subs -> BOOLEAN]
             /\ \A t \in Subs \ {s} : cancelled'[t] = cancelled[t]
             /\ event[s] # "None" => Unsigned(s) /\ cancelled'[s]
      <3>1. CASE Decide(s)
        BY <3>1, <1>0 DEF Decide, eventVars, ObligationTypeOK, ObligationInv, RewardFollowsReview
      <3>2. CASE CorrectUp(s)
        BY <3>2, <1>0 DEF CorrectUp, eventVars, ObligationTypeOK
      <3>3. CASE CorrectDown(s)
        <4>1. event[s] # "None" => Unsigned(s) /\ cancelled[s]
          BY <3>3, <1>0 DEF CorrectDown, BlocksWithdrawal, ObligationInv, NoPayoutWithoutApproval,
                            ObligationTypeOK, RewardFollowsReview
        <4> QED
          BY <3>3, <4>1, <1>0 DEF CorrectDown, eventVars, ObligationTypeOK
      <3>4. CASE CancelAndWithdraw(s)
        BY <3>4, <1>0 DEF CancelAndWithdraw, Changeable, ObligationTypeOK
      <3> QED
        BY <1>1, <3>1, <3>2, <3>3, <3>4
    <2> QED
      BY <2>1, <2>2, <1>0, RuleKeepsObligations
  <1>2. CASE Restore(s)
    <2>1. UNCHANGED <<review, reward, event, ref, bornAt>> /\ review[s] = "APPROVED" /\ reward[s] = "ELIGIBLE"
      BY <1>2 DEF Restore, Changeable, subVars
    <2>2. cancelled' \in [Subs -> BOOLEAN] /\ \A t \in Subs \ {s} : cancelled'[t] = cancelled[t]
      BY <1>2, <1>0 DEF Restore, ObligationTypeOK
    <2> QED
      BY <2>1, <2>2, <1>0 DEF ObligationTypeOK, ObligationInv, ReferenceInv, RewardFollowsReview,
                              OneHolder, NoPayoutWithoutApproval, Unsigned
  <1>3. CASE Seed(s)
    <2>1. /\ UNCHANGED <<review, reward, ref, cancelled>> /\ reward[s] = "ELIGIBLE" /\ event[s] = "None"
          /\ event' = [event EXCEPT ![s] = "PENDING"] /\ bornAt' = [bornAt EXCEPT ![s] = now]
      BY <1>3 DEF Seed, subVars
    <2>2. now \in 0..MaxNow
      BY DEF IInv, TypeOK, ChainTypeOK
    <2>3. ObligationTypeOK'
      BY <2>1, <2>2, <1>0 DEF ObligationTypeOK
    <2>4. event'[s] = "PENDING" /\ \A t \in Subs \ {s} : event'[t] = event[t]
      BY <2>1, <1>0 DEF ObligationTypeOK
    <2>5. ObligationInv'
      BY <2>1, <2>4, <1>0 DEF ObligationInv, ReferenceInv, RewardFollowsReview,
                              OneHolder, NoPayoutWithoutApproval, Unsigned
    <2> QED
      BY <2>1, <2>3, <2>4, <2>5
  <1> QED
    BY <1>1, <1>2, <1>3
-----------------------------------------------------------------------------
(* Settling.                                                               *)

\* An obligation that can be settled with an unclaimed payout is not confirmed yet:
\* otherwise the payout that confirmed it would hold the unique index.
LEMMA SettleableIsUnconfirmed ==
  ASSUME SettledOneToOne, NEW s \in Subs, NEW r \in Refs, Settleable(s, r), ledger[r] = "UNCLAIMED"
  PROVE  event[s] # "CONFIRMED"
  BY DEF SettledOneToOne, Settleable, IndexesAdmit

LEMMA SettleKeeps ==
  ASSUME TypeOK, ObligationInv, LedgerInv, NEW s \in Subs, NEW r \in Refs,
         Settle(s, r), Settleable(s, r), UNCHANGED <<chainVars, cursorVars>>,
         ledger[r] = "UNCLAIMED", event[s] # "None", <<TransferAt(r), s>> \in Pays
  PROVE  /\ ObligationTypeOK' /\ LedgerTypeOK' /\ ObligationInv' /\ LedgerInv'
         /\ \A q \in Refs : Recorded(q)' <=> Recorded(q)
         /\ \A q \in Refs \ {r} : ledger'[q] = ledger[q]
         /\ \A t \in Subs : event[t] = "CONFIRMED" => event'[t] = "CONFIRMED" /\ ref'[t] = ref[t]
  <1>0. ObligationTypeOK /\ LedgerTypeOK /\ SettledOneToOne
    BY TypeParts DEF LedgerInv
  <1>1. event[s] # "CONFIRMED"
    BY <1>0, SettleableIsUnconfirmed
  <1>2. /\ ledger' = [ledger EXCEPT ![r] = "CLAIMED"] /\ paidFor' = [paidFor EXCEPT ![r] = s]
        /\ event' = [event EXCEPT ![s] = "CONFIRMED"] /\ ref' = [ref EXCEPT ![s] = r]
        /\ reward' = [reward EXCEPT ![s] = "REWARDED"] /\ UNCHANGED <<review, bornAt, cancelled>>
    BY <1>1 DEF Settle
  <1>3. ObligationTypeOK' /\ LedgerTypeOK'
    BY <1>0, <1>2 DEF ObligationTypeOK, LedgerTypeOK
  <1>4. /\ ledger'[r] = "CLAIMED" /\ paidFor'[r] = s
        /\ \A q \in Refs \ {r} : ledger'[q] = ledger[q] /\ paidFor'[q] = paidFor[q]
        /\ event'[s] = "CONFIRMED" /\ ref'[s] = r /\ reward'[s] = "REWARDED"
        /\ \A t \in Subs \ {s} : event'[t] = event[t] /\ ref'[t] = ref[t] /\ reward'[t] = reward[t]
    BY <1>0, <1>2 DEF ObligationTypeOK, LedgerTypeOK
  <1>5. review[s] = "APPROVED" /\ reward[s] # "INELIGIBLE"
    BY DEF Settleable, ObligationInv, RewardFollowsReview
  <1>6. ObligationInv'
    <2>1. ReferenceInv'
      BY <1>4 DEF ObligationInv, ReferenceInv
    <2>2. RewardFollowsReview' /\ OneHolder'
      BY <1>2, <1>4, <1>5 DEF ObligationInv, RewardFollowsReview, OneHolder
    <2>3. NoPayoutWithoutApproval'
      BY <1>2, <1>4, <1>5 DEF ObligationInv, NoPayoutWithoutApproval, Unsigned
    <2> QED
      BY <2>1, <2>2, <2>3 DEF ObligationInv
  <1>7. \A q \in Refs : Recorded(q)' <=> Recorded(q)
    BY <1>4 DEF Recorded
  <1>8. CursorSkipsNothing'
    BY <1>7 DEF LedgerInv, CursorSkipsNothing, Recorded, chainVars, cursorVars, Extant, Finalized
  <1>9. SettledOneToOne'
    <2>1. Finalized(r)
      BY DEF LedgerInv, CursorSkipsNothing
    <2>2. \A q \in Refs : Finalized(q)' = Finalized(q) /\ TransferAt(q)' = TransferAt(q)
      BY DEF chainVars, Finalized, Extant, TransferAt
    <2>3. ASSUME NEW t \in Subs, event'[t] = "CONFIRMED"
          PROVE  ref'[t] \in Refs /\ ledger'[ref'[t]] = "CLAIMED" /\ paidFor'[ref'[t]] = t
      BY <2>3, <1>0, <1>4 DEF SettledOneToOne
    <2>4. ASSUME NEW q \in Refs \ {r}, ledger'[q] = "CLAIMED"
          PROVE  /\ paidFor'[q] \in Subs /\ ref'[paidFor'[q]] = q /\ event'[paidFor'[q]] = "CONFIRMED"
                 /\ Finalized(q)' /\ <<TransferAt(q)', paidFor'[q]>> \in Pays
      <3>0. ledger[q] = "CLAIMED" /\ paidFor[q] # s
        BY <2>4, <1>4 DEF Settleable, IndexesAdmit
      <3>1. paidFor[q] \in Subs \ {s}
        BY <3>0, <1>0 DEF SettledOneToOne
      <3> QED
        BY <2>2, <2>4, <3>1, <1>0, <1>4 DEF SettledOneToOne
    <2>5. /\ paidFor'[r] \in Subs /\ ref'[paidFor'[r]] = r /\ event'[paidFor'[r]] = "CONFIRMED"
          /\ Finalized(r)' /\ <<TransferAt(r)', paidFor'[r]>> \in Pays
      BY <2>1, <2>2, <1>4
    <2>6. \A q \in Refs : ledger'[q] = "CLAIMED" =>
            /\ paidFor'[q] \in Subs /\ ref'[paidFor'[q]] = q /\ event'[paidFor'[q]] = "CONFIRMED"
            /\ Finalized(q)' /\ <<TransferAt(q)', paidFor'[q]>> \in Pays
      BY <2>4, <2>5
    <2> QED
      BY <2>3, <2>6 DEF SettledOneToOne
  <1> QED
    BY <1>1, <1>3, <1>4, <1>6, <1>7, <1>8, <1>9 DEF LedgerInv

LEMMA BindPayoutKeeps ==
  ASSUME IInv, NEW r \in Refs, NEW s \in Subs, BindPayout(r, s)
  PROVE  IInv'
  <1>1. /\ ledger[r] = "UNCLAIMED" /\ ~LedgerRowLocked(r)
        /\ UNCHANGED <<chainVars, cursorVars, passVars, failures>>
        /\ ObligationTypeOK' /\ LedgerTypeOK' /\ ObligationInv' /\ LedgerInv'
        /\ \A q \in Refs : Recorded(q)' <=> Recorded(q)
        /\ \A q \in Refs \ {r} : ledger'[q] = ledger[q]
    BY SettleKeeps DEF IInv, BindPayout
  <1> USE DEF chainVars, cursorVars, passVars
  <1>2. TypeOK'
    BY <1>1 DEF IInv, TypeOK, ChainTypeOK, ObligationTypeOK, LedgerTypeOK
  <1>3. CursorInv' /\ PassInv'
    BY <1>1 DEF IInv, WatcherInv, CursorInv, PassInv, TypeOK
  <1>4. MatchInv'
    BY <1>1 DEF IInv, WatcherInv, MatchInv, PassInv, LedgerRowLocked, TypeOK, TransferAt
  <1> QED
    BY <1>1, <1>2, <1>3, <1>4 DEF IInv, WatcherInv

LEMMA DisregardPayoutKeeps ==
  ASSUME IInv, NEW r \in Refs, DisregardPayout(r)
  PROVE  IInv'
  <1> USE DEF chainVars, subVars, eventVars, cursorVars, passVars
  <1>1. /\ ledger[r] = "UNCLAIMED" /\ ~LedgerRowLocked(r)
        /\ UNCHANGED <<chainVars, subVars, eventVars, paidFor, cursorVars, passVars, failures>>
        /\ ledger'[r] = "DISREGARDED" /\ \A q \in Refs \ {r} : ledger'[q] = ledger[q]
        /\ ledger' \in [Refs -> {"Absent", "UNCLAIMED", "CLAIMED", "DISREGARDED"}]
    BY DEF IInv, TypeOK, DisregardPayout
  <1>2. TypeOK'
    BY <1>1 DEF IInv, TypeOK, ChainTypeOK
  <1>3. ObligationInv'
    BY <1>1 DEF IInv, ObligationInv, ReferenceInv, RewardFollowsReview, OneHolder,
                NoPayoutWithoutApproval, Unsigned
  <1>4. LedgerInv'
    BY <1>1 DEF IInv, LedgerInv, CursorSkipsNothing, SettledOneToOne, Extant, Finalized, TransferAt
  <1>5. CursorInv' /\ PassInv'
    BY <1>1 DEF IInv, WatcherInv, CursorInv, PassInv, TypeOK, Recorded
  <1>6. MatchInv'
    BY <1>1 DEF IInv, WatcherInv, MatchInv, PassInv, LedgerRowLocked, TypeOK, TransferAt
  <1> QED
    BY <1>2, <1>3, <1>4, <1>5, <1>6 DEF IInv, WatcherInv
-----------------------------------------------------------------------------
(* The watcher's pass.                                                     *)

\* A step that keeps the chain and the database but for the cursor and the pass.
LEMMA ReadingKeeps ==
  ASSUME TypeOK, ObligationInv, SettledOneToOne, CursorTypeOK', PassTypeOK', failures' \in 0..MaxFailures,
         UNCHANGED <<chainVars, subVars, eventVars, ledgerVars>>
  PROVE  TypeOK' /\ ObligationInv' /\ SettledOneToOne'
  <1> USE DEF chainVars, subVars, eventVars, ledgerVars
  <1>1. TypeOK'
    BY DEF TypeOK, CursorTypeOK, PassTypeOK, ChainTypeOK
  <1>2. ObligationInv'
    BY DEF ObligationInv, ReferenceInv, RewardFollowsReview, OneHolder, NoPayoutWithoutApproval, Unsigned
  <1>3. SettledOneToOne'
    BY DEF SettledOneToOne, Extant, Finalized, TransferAt
  <1> QED
    BY <1>1, <1>2, <1>3

LEMMA SameCursorSkipsNothing ==
  ASSUME CursorSkipsNothing, UNCHANGED <<chainVars, ledgerVars, cursorVars>>
  PROVE  CursorSkipsNothing'
  BY DEF CursorSkipsNothing, chainVars, ledgerVars, cursorVars, Extant, Finalized

\* Between two passes nothing is said of the pass.
LEMMA EndPassKeeps ==
  ASSUME TypeOK, CursorInv, EndPass, cursor' <= fin', start' = 0 => cursor' = 0
  PROVE  PassTypeOK' /\ WatcherInv'
  <1>1. PassTypeOK'
    BY EmptyBlockIsABlock, ChainConstants DEF EndPass, PassTypeOK
  <1>2. WatcherInv'
    BY DEF EndPass, WatcherInv, CursorInv, PassInv, MatchInv
  <1> QED
    BY <1>1, <1>2

\* The pass goes on to its second part with a finalized head.
LEMMA LeaveScanKeeps ==
  ASSUME TypeOK, CursorInv, CursorSkipsNothing, NEW h \in 0..MaxHeight, NEW l \in 0..MaxHeight,
         LeaveScan(h, l), h <= fin, \A r \in Refs : Recorded(r) => r[1] <= h,
         UNCHANGED <<chainVars, ledgerVars, start>>, start # 0, cursor' <= fin
  PROVE  PassTypeOK' /\ WatcherInv'
  <1> USE DEF chainVars, ledgerVars
  <1>1. CASE l >= h
    <2>1. /\ phase' = "Retry" /\ step' = "Next" /\ head' = h /\ last' = l /\ retry' = Recent
          /\ cur' = <<0, 0>> /\ match' = NoSub /\ UNCHANGED <<tip, read, seen, gone>>
      BY <1>1 DEF LeaveScan
    <2>2. PassTypeOK'
      BY <2>1, ChainConstants DEF TypeOK, PassTypeOK, Recent
    <2>3. CursorInv'
      BY <2>1 DEF CursorInv, Recorded
    <2>4. PassInv' /\ MatchInv'
      BY <2>1 DEF PassInv, MatchInv, Recent, Recorded
    <2> QED
      BY <2>2, <2>3, <2>4 DEF WatcherInv
  <1>2. CASE ~(l >= h)
    BY <1>2, EndPassKeeps DEF LeaveScan
  <1> QED
    BY <1>1, <1>2

LEMMA OpenCursorKeeps ==
  ASSUME IInv, OpenCursor
  PROVE  IInv'
  <1>1. PICK n \in 1..fin : start' = n /\ cursor' = n - 1
    BY DEF OpenCursor
  <1>2. n \in 1..MaxHeight /\ n <= fin /\ fin \in Nat
    BY <1>1, BlocksOfTheChain, ChainConstants DEF IInv, TypeOK
  <1>3. /\ phase = "Idle" /\ failures' = failures
        /\ UNCHANGED <<chainVars, subVars, eventVars, ledgerVars, passVars>>
    BY DEF OpenCursor
  <1>4. CursorTypeOK' /\ PassTypeOK'
    BY <1>1, <1>2, <1>3, ChainConstants DEF IInv, TypeOK, CursorTypeOK, PassTypeOK, passVars
  <1>5. TypeOK' /\ ObligationInv' /\ SettledOneToOne'
    BY <1>3, <1>4, ReadingKeeps DEF IInv, LedgerInv, TypeOK
  <1>6. CursorSkipsNothing'
    BY <1>1, <1>2, <1>3, RefsAreReferences
       DEF IInv, LedgerInv, CursorSkipsNothing, chainVars, ledgerVars, Extant, Finalized
  <1>7. WatcherInv'
    BY <1>1, <1>2, <1>3 DEF IInv, WatcherInv, CursorInv, PassInv, MatchInv, passVars, chainVars
  <1> QED
    BY <1>5, <1>6, <1>7 DEF IInv, LedgerInv

LEMMA BeginPassKeeps ==
  ASSUME IInv, BeginPass
  PROVE  IInv'
  <1> DEFINE upto == IF fin < cursor + Batch THEN fin ELSE cursor + Batch
  <1>1. /\ phase = "Idle" /\ start # 0 /\ failures' = failures
        /\ UNCHANGED <<chainVars, subVars, eventVars, ledgerVars, cursorVars>>
    BY DEF BeginPass
  <1>2. /\ fin \in 0..MaxHeight /\ cursor \in 0..MaxHeight /\ cursor <= fin
        /\ upto \in 0..MaxHeight /\ upto <= fin
    BY BlocksOfTheChain, ChainConstants, PayoutConstants
       DEF IInv, TypeOK, WatcherInv, CursorInv
  <1>3. \A r \in Refs : Recorded(r) => r[1] <= fin
    BY DEF IInv, LedgerInv, CursorSkipsNothing, Finalized, Recorded
  <1>4. PassTypeOK' /\ WatcherInv'
    <2>1. CASE cursor < upto
      <3>1. /\ phase' = "Scan" /\ step' = "Next" /\ head' = fin /\ last' = upto
            /\ cur' = <<cursor + 1, 1>> /\ UNCHANGED <<tip, read, match, seen, retry, gone>>
        BY <2>1 DEF BeginPass
      <3>2. PassTypeOK'
        BY <3>1, <1>2, <2>1, ChainConstants DEF IInv, TypeOK, PassTypeOK
      <3>3. CursorInv'
        BY <3>1, <1>1, <1>2, <1>3 DEF CursorInv, Recorded, chainVars, ledgerVars, cursorVars
      <3>4. PassInv' /\ MatchInv'
        BY <3>1, <1>1, <1>2, <2>1, RefsAreReferences DEF PassInv, MatchInv, cursorVars
      <3> QED
        BY <3>2, <3>3, <3>4 DEF WatcherInv
    <2>2. CASE ~(cursor < upto)
      <3>1. LeaveScan(fin, upto)
        BY <2>2 DEF BeginPass
      <3> QED
        BY <3>1, <1>1, <1>2, <1>3, LeaveScanKeeps
           DEF IInv, LedgerInv, WatcherInv, cursorVars
    <2> QED
      BY <2>1, <2>2
  <1>5. CursorTypeOK' /\ failures' \in 0..MaxFailures
    BY <1>1 DEF IInv, TypeOK, CursorTypeOK, cursorVars
  <1>6. TypeOK' /\ ObligationInv' /\ SettledOneToOne' /\ CursorSkipsNothing'
    BY <1>1, <1>4, <1>5, ReadingKeeps, SameCursorSkipsNothing DEF IInv, LedgerInv
  <1> QED
    BY <1>4, <1>6 DEF IInv, LedgerInv

LEMMA RecordPayoutKeeps ==
  ASSUME IInv, RecordPayout
  PROVE  IInv'
  <1> USE DEF chainVars, subVars, eventVars, cursorVars
  <1>1. /\ phase = "Scan" /\ step = "Next" /\ Extant(cur) /\ step' = "Match"
        /\ UNCHANGED <<chainVars, subVars, eventVars, paidFor, cursorVars, failures,
                       phase, head, last, tip, cur, read, match, seen, retry, gone>>
    BY DEF RecordPayout
  <1>2. cur \in Refs
    BY <1>1, ExtantIsARef, ChainConstants DEF IInv, TypeOK
  <1>3. /\ ledger' \in [Refs -> {"Absent", "UNCLAIMED", "CLAIMED", "DISREGARDED"}]
        /\ \A r \in Refs : IF r = cur /\ ledger[r] = "Absent" THEN ledger'[r] = "UNCLAIMED"
                                                            ELSE ledger'[r] = ledger[r]
    BY <1>2 DEF RecordPayout, IInv, TypeOK
  <1>4. cur[1] <= head /\ head <= fin
    BY <1>1, <1>2, BlocksOfTheChain, RefsAreReferences, ChainConstants
       DEF IInv, WatcherInv, CursorInv, PassInv, TypeOK
  <1>5. Finalized(cur)
    BY <1>1, <1>2, <1>4, BlocksOfTheChain, RefsAreReferences, ChainConstants DEF Finalized, IInv, TypeOK
  <1>6. TypeOK'
    BY <1>1, <1>3 DEF IInv, TypeOK, ChainTypeOK
  <1>7. ObligationInv'
    BY <1>1 DEF IInv, ObligationInv, ReferenceInv, RewardFollowsReview, OneHolder,
                NoPayoutWithoutApproval, Unsigned
  <1>8. CursorSkipsNothing'
    BY <1>1, <1>3, <1>5 DEF IInv, LedgerInv, CursorSkipsNothing, Extant, Finalized
  <1>9. SettledOneToOne'
    BY <1>1, <1>3 DEF IInv, LedgerInv, SettledOneToOne, Extant, Finalized, TransferAt
  <1>10. CursorInv'
    BY <1>1, <1>3, <1>4 DEF IInv, WatcherInv, CursorInv, Recorded
  <1>11. PassInv' /\ MatchInv'
    BY <1>1, <1>2, <1>3 DEF IInv, WatcherInv, PassInv, MatchInv, Recorded
  <1> QED
    BY <1>6, <1>7, <1>8, <1>9, <1>10, <1>11 DEF IInv, LedgerInv, WatcherInv

\* The cursor moves over a block whose every transfer is recorded.
LEMMA AdvanceCursorKeeps ==
  ASSUME IInv, AdvanceCursor
  PROVE  IInv'
  <1> USE DEF chainVars, subVars, eventVars, ledgerVars
  <1>1. /\ phase = "Scan" /\ step = "Next" /\ ~Extant(cur)
        /\ UNCHANGED <<chainVars, subVars, eventVars, ledgerVars, start, failures>>
    BY DEF AdvanceCursor
  <1>2. /\ cur[1] = cursor + 1 /\ cur[1] <= last /\ last <= head /\ head <= fin /\ cur[2] >= 1
        /\ start # 0
        /\ \A r \in Refs : r[1] = cur[1] /\ r[2] < cur[2] => Recorded(r)
        /\ \A r \in Refs : Recorded(r) => r[1] <= head
    BY <1>1 DEF IInv, WatcherInv, CursorInv, PassInv
  <1>3. /\ cursor \in 0..MaxHeight /\ start \in 0..MaxHeight /\ last \in 0..MaxHeight /\ head \in 0..MaxHeight
        /\ cur[1] \in 0..(MaxHeight + 1) /\ cur[2] \in 0..(MaxPerBlock + 1)
        /\ fin \in 0..Len(best) /\ Len(best) \in 0..MaxHeight
        /\ \A n \in 1..Len(best) : Len(best[n].pays) \in 0..MaxPerBlock
    BY BlocksOfTheChain DEF IInv, TypeOK
  <1>4. cursor' = cur[1] /\ cursor' = cursor + 1 /\ cursor' \in 1..MaxHeight /\ cursor' <= fin
    BY <1>2, <1>3, ChainConstants DEF AdvanceCursor
  <1>5. cur[2] > Len(best[cur[1]].pays)
    BY <1>1, <1>2, <1>3, ChainConstants DEF Extant
  <1>6. CursorSkipsNothing'
    <2>1. ASSUME NEW r \in Refs, r[1] \in start..cursor', Extant(r)
          PROVE  Recorded(r)
      <3>1. CASE r[1] = cur[1]
        <4>1. r[2] \in 1..Len(best[cur[1]].pays) /\ r[1] \in 1..Len(best)
          BY <3>1, <2>1 DEF Extant
        <4>2. r[2] < cur[2]
          BY <4>1, <1>3, <1>5, <3>1
        <4> QED
          BY <3>1, <4>2, <1>2
      <3>2. CASE r[1] # cur[1]
        <4>1. r[1] \in start..cursor
          <5>1. r[1] \in 1..MaxHeight /\ start <= r[1] /\ r[1] <= cursor + 1 /\ r[1] # cursor + 1
            BY <3>2, <2>1, <1>2, <1>3, <1>4, RefsAreReferences, ChainConstants
          <5> QED
            BY <5>1, <1>3, ChainConstants
        <4> QED
          BY <4>1, <2>1, <1>2 DEF IInv, LedgerInv, CursorSkipsNothing, Recorded
      <3> QED
        BY <3>1, <3>2
    <2> QED
      BY <2>1, <1>1 DEF IInv, LedgerInv, CursorSkipsNothing, Extant, Finalized, Recorded
  <1>7. PassTypeOK' /\ WatcherInv'
    <2>1. CASE cur[1] < last
      <3>1. /\ cur' = <<cur[1] + 1, 1>>
            /\ UNCHANGED <<phase, step, head, last, tip, read, match, seen, retry, gone>>
        BY <2>1 DEF AdvanceCursor
      <3>2. PassTypeOK'
        BY <3>1, <2>1, <1>3, ChainConstants DEF IInv, TypeOK, PassTypeOK
      <3>3. CursorInv'
        BY <3>1, <1>1, <1>2, <1>4 DEF IInv, WatcherInv, CursorInv, Recorded
      <3>4. \A r \in Refs : ~(r[1] = cur'[1] /\ r[2] < cur'[2])
        BY <3>1, RefsAreReferences
      <3>5. /\ phase' = "Scan" /\ step' = "Next" /\ cur'[1] = cursor' + 1 /\ cur'[2] = 1
            /\ cur'[1] <= last' /\ last' <= head'
        BY <3>1, <2>1, <1>1, <1>2, <1>3, <1>4, ChainConstants
      <3>6. PassInv' /\ MatchInv'
        BY <3>4, <3>5 DEF PassInv, MatchInv
      <3> QED
        BY <3>2, <3>3, <3>6 DEF WatcherInv
    <2>2. CASE ~(cur[1] < last)
      <3>1. LeaveScan(head, last)
        BY <2>2 DEF AdvanceCursor
      <3> QED
        BY <3>1, <1>1, <1>2, <1>3, <1>4, LeaveScanKeeps DEF IInv, LedgerInv, WatcherInv
    <2> QED
      BY <2>1, <2>2
  <1>8. CursorTypeOK' /\ failures' \in 0..MaxFailures
    BY <1>1, <1>4, ChainConstants DEF IInv, TypeOK, CursorTypeOK
  <1>9. TypeOK' /\ ObligationInv' /\ SettledOneToOne'
    BY <1>1, <1>7, <1>8, ReadingKeeps DEF IInv, LedgerInv
  <1> QED
    BY <1>6, <1>7, <1>9 DEF IInv, LedgerInv

\* A step that only moves the pass on.
LEMMA PassStepKeeps ==
  ASSUME IInv, PassTypeOK', WatcherInv', failures' \in 0..MaxFailures,
         UNCHANGED <<chainVars, subVars, eventVars, ledgerVars, cursorVars>>
  PROVE  IInv'
  <1>1. CursorTypeOK'
    BY DEF IInv, TypeOK, CursorTypeOK, cursorVars
  <1>2. TypeOK' /\ ObligationInv' /\ SettledOneToOne' /\ CursorSkipsNothing'
    BY <1>1, ReadingKeeps, SameCursorSkipsNothing DEF IInv, LedgerInv
  <1> QED
    BY <1>2 DEF IInv, LedgerInv

\* A pass ends: for FinishPass, PassFails, a conflict and a settlement that raises.
LEMMA PassEndKeeps ==
  ASSUME IInv, EndPass, failures' \in 0..MaxFailures,
         UNCHANGED <<chainVars, subVars, eventVars, ledgerVars, cursorVars>>
  PROVE  IInv'
  <1>1. PassTypeOK' /\ WatcherInv'
    BY EndPassKeeps DEF IInv, WatcherInv, CursorInv, chainVars, cursorVars
  <1> QED
    BY <1>1, PassStepKeeps

LEMMA RetryNextKeeps ==
  ASSUME IInv, RetryNext
  PROVE  IInv'
  <1>1. PICK r \in retry : cur' = r /\ retry' = retry \ {r}
    BY DEF RetryNext
  <1>2. /\ phase = "Retry" /\ step' = "Match"
        /\ UNCHANGED <<chainVars, subVars, eventVars, ledgerVars, cursorVars, failures,
                       phase, head, last, tip, read, match, seen, gone>>
    BY DEF RetryNext
  <1>3. r \in Refs /\ Recorded(r)
    BY <1>2 DEF IInv, TypeOK, WatcherInv, PassInv
  <1>4. PassTypeOK'
    BY <1>1, <1>2, <1>3, RefsAreReferences, ChainConstants DEF IInv, TypeOK, PassTypeOK
  <1>5. WatcherInv'
    BY <1>1, <1>2, <1>3 DEF IInv, WatcherInv, CursorInv, PassInv, MatchInv, Recorded,
                            chainVars, ledgerVars, cursorVars
  <1>6. failures' \in 0..MaxFailures
    BY <1>2 DEF IInv, TypeOK
  <1> QED
    BY <1>2, <1>4, <1>5, <1>6, PassStepKeeps

\* The tail's four steps.
LEMMA TailKeeps ==
  ASSUME IInv, BeginTail \/ ReadTailBlock \/ TailNext \/ EndTail
  PROVE  IInv'
  <1>1. /\ UNCHANGED <<chainVars, subVars, eventVars, ledgerVars, cursorVars, failures, head, last, match>>
        /\ phase \in {"Retry", "Tail"} /\ step = "Next"
    BY DEF BeginTail, ReadTailBlock, TailNext, EndTail
  <1>2. /\ Len(best) \in 0..MaxHeight /\ head \in 0..MaxHeight /\ tip \in 0..MaxHeight
        /\ cur[1] \in 0..(MaxHeight + 1) /\ cur[2] \in 0..(MaxPerBlock + 1) /\ cur = <<cur[1], cur[2]>>
        /\ \A n \in 1..Len(best) : best[n] \in Blocks
        /\ Len(read.pays) \in 0..MaxPerBlock
    BY BlocksOfTheChain, LenPays DEF IInv, TypeOK
  <1>3. phase = "Tail" => cur[1] > head /\ (cur[2] > 0 => cur[1] <= tip)
    BY DEF IInv, WatcherInv, PassInv
  <1> SUFFICES /\ PassTypeOK' /\ PassInv'
               /\ phase' # "Idle" /\ step' # "Apply"
    <2>1. CursorInv'
      BY <1>1 DEF IInv, WatcherInv, CursorInv, Recorded, chainVars, ledgerVars, cursorVars
    <2>2. MatchInv' /\ failures' \in 0..MaxFailures
      BY <1>1 DEF MatchInv, IInv, TypeOK
    <2> QED
      BY <1>1, <2>1, <2>2, PassStepKeeps DEF WatcherInv
  <1>4. CASE BeginTail
    <2>1. /\ phase' = "Tail" /\ step' = "Next" /\ cur' = <<head + 1, 0>>
          /\ tip' \in 0..MaxHeight /\ UNCHANGED <<read, seen, retry, gone>>
      BY <1>2, <1>4, <1>1 DEF BeginTail
    <2>2. cur' \in (0..(MaxHeight + 1)) \X (0..(MaxPerBlock + 1))
      BY <2>1, <1>2, ChainConstants
    <2>3. PassTypeOK'
      BY <2>1, <2>2, <1>1 DEF IInv, TypeOK, PassTypeOK
    <2> QED
      BY <2>1, <2>3, <1>1, <1>2 DEF PassInv
  <1>5. CASE ReadTailBlock
    <2>1. /\ phase = "Tail" /\ phase' = "Tail" /\ step' = "Next" /\ cur[1] <= tip /\ cur[1] <= Len(best)
          /\ cur' = <<cur[1], 1>> /\ read' = best[cur[1]] /\ UNCHANGED <<tip, seen, retry, gone>>
      BY <1>5, <1>1 DEF ReadTailBlock
    <2>2. read' \in Blocks
      BY <2>1, <1>2, <1>3
    <2>3. PassTypeOK'
      BY <2>1, <2>2, <1>1, <1>2, ChainConstants DEF IInv, TypeOK, PassTypeOK
    <2> QED
      BY <2>1, <2>3, <1>1, <1>3 DEF PassInv
  <1>6. CASE TailNext
    <2>1. /\ phase = "Tail" /\ phase' = "Tail" /\ cur[2] > 0 /\ UNCHANGED <<tip, retry, gone>>
      BY <1>6 DEF TailNext
    <2>2. CASE cur[2] <= Len(read.pays)
      <3>1. /\ seen' = seen \cup {cur} /\ step' = "Match" /\ UNCHANGED <<cur, read>>
        BY <2>2, <1>6 DEF TailNext
      <3>2. cur[1] \in 1..MaxHeight /\ cur[2] \in 1..MaxPerBlock
        BY <2>1, <2>2, <1>2, <1>3, ChainConstants
      <3>3. cur \in Refs
        BY <3>2, <1>2 DEF Refs, Heights
      <3>4. PassTypeOK'
        BY <2>1, <3>1, <3>3, <1>1 DEF IInv, TypeOK, PassTypeOK
      <3> QED
        BY <2>1, <3>1, <3>3, <3>4, <1>1, <1>3 DEF PassInv
    <2>3. CASE ~(cur[2] <= Len(read.pays))
      <3>1. /\ cur' = <<cur[1] + 1, 0>> /\ read' = EmptyBlock /\ UNCHANGED <<seen, step>>
        BY <2>3, <1>6 DEF TailNext
      <3>2. cur[1] + 1 \in 0..(MaxHeight + 1) /\ cur[1] + 1 > head
        BY <2>1, <1>2, <1>3, ChainConstants
      <3>3. PassTypeOK'
        BY <2>1, <3>1, <3>2, <1>1, EmptyBlockIsABlock, ChainConstants DEF IInv, TypeOK, PassTypeOK
      <3> QED
        BY <2>1, <3>1, <3>2, <3>3, <1>1 DEF PassInv
    <2> QED
      BY <2>2, <2>3
  <1>7. CASE EndTail
    <2>1. /\ phase' = "Revert" /\ step' = "Next" /\ UNCHANGED <<tip, cur, read, seen, retry>>
      BY <1>7, <1>1 DEF EndTail
    <2>2. gone' \subseteq Subs \X Refs
      BY <1>7 DEF EndTail, IInv, ObligationInv, ReferenceInv
    <2>3. PassTypeOK'
      BY <2>1, <2>2, <1>1 DEF IInv, TypeOK, PassTypeOK
    <2> QED
      BY <2>1, <2>3 DEF PassInv
  <1> QED
    BY <1>4, <1>5, <1>6, <1>7

\* A revert takes back a mark, never a confirmation.
LEMMA RevertKeeps ==
  ASSUME IInv, Revert
  PROVE  IInv'
  <1> USE DEF chainVars, subVars, ledgerVars, cursorVars
  <1>1. PICK g \in gone :
          /\ gone' = gone \ {g}
          /\ IF event[g[1]] = "SUBMITTED" /\ ref[g[1]] = g[2]
             THEN /\ event' = [event EXCEPT ![g[1]] = "PENDING"]
                  /\ ref' = [ref EXCEPT ![g[1]] = NoRef]
             ELSE UNCHANGED <<event, ref>>
    BY DEF Revert
  <1>2. /\ phase = "Revert" /\ g[1] \in Subs
        /\ UNCHANGED <<chainVars, subVars, bornAt, cancelled, ledgerVars, cursorVars, failures,
                       phase, step, head, last, tip, cur, read, match, seen, retry>>
    BY DEF Revert, IInv, TypeOK
  <1>3. \A s \in Subs \ {g[1]} : event'[s] = event[s] /\ ref'[s] = ref[s]
    BY <1>1, <1>2 DEF IInv, TypeOK
  <1>4. \/ event'[g[1]] = event[g[1]] /\ ref'[g[1]] = ref[g[1]]
        \/ event[g[1]] = "SUBMITTED" /\ event'[g[1]] = "PENDING" /\ ref'[g[1]] = NoRef
    BY <1>1, <1>2 DEF IInv, TypeOK
  <1>5. TypeOK'
    BY <1>1, <1>2 DEF IInv, TypeOK, ChainTypeOK
  <1>6. ObligationInv'
    BY <1>2, <1>3, <1>4 DEF IInv, ObligationInv, ReferenceInv, RewardFollowsReview, OneHolder,
                            NoPayoutWithoutApproval, Unsigned
  <1>7. LedgerInv'
    <2>1. CursorSkipsNothing'
      BY <1>2 DEF IInv, LedgerInv, CursorSkipsNothing, Extant, Finalized
    <2>2. SettledOneToOne'
      BY <1>2, <1>3, <1>4 DEF IInv, LedgerInv, SettledOneToOne, Extant, Finalized, TransferAt
    <2> QED
      BY <2>1, <2>2 DEF LedgerInv
  <1>8. WatcherInv'
    BY <1>2 DEF IInv, WatcherInv, CursorInv, PassInv, MatchInv, Recorded, TransferAt
  <1> QED
    BY <1>5, <1>6, <1>7, <1>8 DEF IInv

\* Back to the loop: a scan has dealt with one more transfer of its block.
LEMMA ResumeKeeps ==
  ASSUME TypeOK, PassInv, CursorInv, Resume, step # "Next", UNCHANGED cursorVars, fin' = fin,
         \A r \in Refs : Recorded(r)' <=> Recorded(r)
  PROVE  PassTypeOK' /\ WatcherInv'
  <1> USE DEF cursorVars
  <1>1. /\ step' = "Next" /\ match' = NoSub
        /\ cur' = IF phase = "Retry" THEN <<0, 0>> ELSE <<cur[1], cur[2] + 1>>
        /\ UNCHANGED <<phase, head, last, tip, read, seen, retry, gone>>
    BY DEF Resume
  <1>2. cur \in Refs /\ phase \in {"Scan", "Retry", "Tail"}
    BY DEF TypeOK, PassInv
  <1>3. /\ cur[1] \in 1..MaxHeight /\ cur[2] \in 1..MaxPerBlock /\ cur = <<cur[1], cur[2]>>
    BY <1>2, RefsAreReferences
  <1>4. PassTypeOK'
    <2>1. cur' \in (0..(MaxHeight + 1)) \X (0..(MaxPerBlock + 1))
      BY <1>1, <1>3, ChainConstants
    <2> QED
      BY <1>1, <2>1 DEF TypeOK, PassTypeOK
  <1>5. CursorInv'
    BY <1>1 DEF CursorInv
  <1>6. PassInv'
    <2>1. CASE phase = "Scan"
      <3>1. cur' = <<cur[1], cur[2] + 1>>
        BY <1>1, <2>1
      <3>2. ASSUME NEW r \in Refs, r[1] = cur[1], r[2] < cur[2] + 1
            PROVE  Recorded(r)
        <4>1. r[2] \in Int /\ r = <<r[1], r[2]>>
          BY RefsAreReferences
        <4>2. r[2] < cur[2] \/ r = cur
          BY <3>2, <4>1, <1>3
        <4> QED
          BY <3>2, <4>2, <2>1 DEF PassInv
      <3>3. /\ cur'[1] = cursor' + 1 /\ cur'[1] <= last' /\ last' <= head' /\ cur'[2] >= 1
            /\ \A r \in Refs : r[1] = cur'[1] /\ r[2] < cur'[2] => Recorded(r)'
        BY <3>1, <3>2, <1>1, <1>3, <2>1 DEF PassInv
      <3> QED
        BY <3>3, <1>1, <2>1 DEF PassInv
    <2>2. CASE phase = "Retry"
      BY <2>2, <1>1 DEF PassInv, TypeOK
    <2>3. CASE phase = "Tail"
      <3>1. cur[1] > head /\ cur[1] <= tip
        BY <2>3, <1>3 DEF PassInv
      <3> QED
        BY <3>1, <2>3, <1>1 DEF PassInv
    <2> QED
      BY <1>2, <2>1, <2>2, <2>3
  <1>7. MatchInv'
    BY <1>1 DEF MatchInv
  <1> QED
    BY <1>4, <1>5, <1>6, <1>7 DEF WatcherInv

LEMMA MatchEventKeeps ==
  ASSUME IInv, MatchEvent
  PROVE  IInv'
  <1>1. /\ step = "Match" /\ UNCHANGED <<chainVars, subVars, eventVars, ledgerVars, cursorVars, failures>>
    BY DEF MatchEvent
  <1>2. failures' \in 0..MaxFailures
    BY <1>1 DEF IInv, TypeOK
  <1>3. CASE Passed /\ Resume
    <2>1. PassTypeOK' /\ WatcherInv'
      BY <1>1, <1>3, ResumeKeeps DEF IInv, WatcherInv, chainVars, ledgerVars, Recorded
    <2> QED
      BY <1>1, <1>2, <2>1, PassStepKeeps
  <1>4. CASE Conflicting /\ EndPass
    BY <1>1, <1>2, <1>4, PassEndKeeps
  <1>5. CASE /\ ~Passed /\ ~Conflicting
             /\ \E s \in IF ByReference # {} THEN ByReference ELSE Candidates :
                  /\ ByReference = {} => \A t \in Candidates : bornAt[s] <= bornAt[t]
                  /\ match' = s
             /\ step' = "Apply"
             /\ UNCHANGED <<phase, head, last, tip, cur, read, seen, retry, gone>>
    <2>1. match' \in IF ByReference # {} THEN ByReference ELSE Candidates
      BY <1>5
    <2>2. match' \in Subs /\ <<Paid, match'>> \in Pays
      BY <1>5, <2>1 DEF ByReference, Candidates, Conflicting, Fits
    <2>3. phase # "Tail" => ledger[cur] = "UNCLAIMED" /\ Paid = TransferAt(cur)
      BY <1>5 DEF Passed, Paid, Observed, TransferAt
    <2>4. PassTypeOK'
      BY <1>5, <2>2 DEF IInv, TypeOK, PassTypeOK
    <2>5. CursorInv' /\ PassInv'
      BY <1>1, <1>5 DEF IInv, WatcherInv, CursorInv, PassInv, Recorded, chainVars, ledgerVars, cursorVars
    <2>6. MatchInv'
      BY <1>1, <1>5, <2>2, <2>3 DEF MatchInv, TransferAt, chainVars, ledgerVars
    <2> QED
      BY <1>1, <1>2, <2>4, <2>5, <2>6, PassStepKeeps DEF WatcherInv
  <1> QED
    BY <1>3, <1>4, <1>5 DEF MatchEvent

LEMMA ApplyClaimKeeps ==
  ASSUME IInv, ApplyClaim
  PROVE  IInv'
  <1>1. /\ phase \in {"Scan", "Retry"} /\ step = "Apply" /\ UNCHANGED <<chainVars, cursorVars, failures>>
    BY DEF ApplyClaim
  <1>2. /\ cur \in Refs /\ match \in Subs /\ ledger[cur] = "UNCLAIMED" /\ <<TransferAt(cur), match>> \in Pays
        /\ failures' \in 0..MaxFailures
    BY <1>1 DEF IInv, WatcherInv, PassInv, MatchInv, TypeOK
  <1>3. CASE ~StillThere /\ Resume /\ UNCHANGED <<subVars, eventVars, ledgerVars>>
    <2>1. PassTypeOK' /\ WatcherInv'
      BY <1>1, <1>3, ResumeKeeps DEF IInv, WatcherInv, chainVars, ledgerVars, Recorded
    <2> QED
      BY <1>1, <1>2, <1>3, <2>1, PassStepKeeps
  <1>4. CASE EndPass /\ UNCHANGED <<subVars, eventVars, ledgerVars>>
    BY <1>1, <1>2, <1>4, PassEndKeeps
  <1>5. CASE StillThere /\ Settleable(match, cur) /\ Settle(match, cur) /\ Resume
    <2>1. event[match] # "None"
      BY <1>2, <1>5, PayoutConstants DEF StillThere, Open, IInv, ObligationInv, ReferenceInv
    <2>2. /\ ObligationTypeOK' /\ LedgerTypeOK' /\ ObligationInv' /\ LedgerInv'
          /\ \A q \in Refs : Recorded(q)' <=> Recorded(q)
      BY <1>1, <1>2, <1>5, <2>1, SettleKeeps DEF IInv
    <2>3. PassTypeOK' /\ WatcherInv'
      BY <1>1, <1>5, <2>2, ResumeKeeps DEF IInv, WatcherInv, chainVars
    <2>4. TypeOK'
      BY <1>1, <2>2, <2>3 DEF IInv, TypeOK, ObligationTypeOK, LedgerTypeOK, PassTypeOK, ChainTypeOK,
                              chainVars, cursorVars
    <2> QED
      BY <2>2, <2>3, <2>4 DEF IInv
  <1> QED
    BY <1>3, <1>4, <1>5 DEF ApplyClaim

\* A mark names a height above every recorded payout, so what it marks is not confirmed.
LEMMA MarkedIsUnconfirmed ==
  ASSUME IInv, phase = "Tail", step = "Apply", StillThere
  PROVE  event[match] # "CONFIRMED"
  <1>1. cur \in Refs /\ match \in Subs
    BY DEF IInv, WatcherInv, PassInv, MatchInv
  <1>2. ~Recorded(cur)
    BY <1>1, RefsAreReferences, ChainConstants DEF IInv, WatcherInv, CursorInv, PassInv, TypeOK
  <1> QED
    BY <1>1, <1>2 DEF StillThere, Open, IInv, LedgerInv, SettledOneToOne, Recorded

LEMMA ApplyMarkKeeps ==
  ASSUME IInv, ApplyMark
  PROVE  IInv'
  <1> USE DEF chainVars, subVars, ledgerVars, cursorVars
  <1>1. /\ phase = "Tail" /\ step = "Apply"
        /\ UNCHANGED <<chainVars, subVars, bornAt, cancelled, ledgerVars, cursorVars, failures>>
    BY DEF ApplyMark
  <1>2. cur \in Refs /\ match \in Subs /\ failures' \in 0..MaxFailures
    BY <1>1 DEF IInv, WatcherInv, PassInv, MatchInv, TypeOK
  <1>3. CASE Resume /\ UNCHANGED <<event, ref>>
    <2>1. PassTypeOK' /\ WatcherInv'
      BY <1>1, <1>3, ResumeKeeps DEF IInv, WatcherInv, Recorded
    <2> QED
      BY <1>1, <1>2, <1>3, <2>1, PassStepKeeps DEF eventVars
  <1>4. CASE EndPass /\ UNCHANGED <<event, ref>>
    BY <1>1, <1>2, <1>4, PassEndKeeps DEF eventVars
  <1>5. CASE /\ StillThere /\ reward[match] = "ELIGIBLE"
             /\ event' = [event EXCEPT ![match] = "SUBMITTED"]
             /\ ref' = [ref EXCEPT ![match] = cur]
             /\ Resume
    <2>1. event[match] # "CONFIRMED"
      BY <1>1, <1>5, MarkedIsUnconfirmed
    <2>2. /\ event'[match] = "SUBMITTED" /\ ref'[match] = cur
          /\ \A s \in Subs \ {match} : event'[s] = event[s] /\ ref'[s] = ref[s]
      BY <1>2, <1>5 DEF IInv, TypeOK
    <2>3. PassTypeOK' /\ WatcherInv'
      BY <1>1, <1>5, ResumeKeeps DEF IInv, WatcherInv, Recorded
    <2>4. TypeOK'
      BY <1>1, <1>2, <1>5, <2>3 DEF IInv, TypeOK, PassTypeOK, ChainTypeOK
    <2>5. review[match] = "APPROVED" /\ reward[match] # "INELIGIBLE"
      BY <1>2, <1>5 DEF IInv, ObligationInv, RewardFollowsReview
    <2>6. ObligationInv'
      BY <1>1, <1>2, <2>2, <2>5 DEF IInv, ObligationInv, ReferenceInv, RewardFollowsReview, OneHolder,
                                    NoPayoutWithoutApproval, Unsigned
    <2>7. CursorSkipsNothing'
      BY <1>1 DEF IInv, LedgerInv, CursorSkipsNothing, Extant, Finalized
    <2>8. SettledOneToOne'
      BY <1>1, <1>2, <2>1, <2>2 DEF IInv, LedgerInv, SettledOneToOne, Extant, Finalized, TransferAt
    <2> QED
      BY <2>3, <2>4, <2>6, <2>7, <2>8 DEF IInv, LedgerInv
  <1> QED
    BY <1>3, <1>4, <1>5 DEF ApplyMark
-----------------------------------------------------------------------------
(* The theorems.                                                           *)

LEMMA InitHolds == Init => IInv
  <1> SUFFICES ASSUME Init PROVE IInv
    OBVIOUS
  <1> USE ChainConstants, PayoutConstants DEF Init, ChainInit
  <1>1. TypeOK
    <2>1. ChainTypeOK
      BY EmptySeq DEF ChainTypeOK
    <2> QED
      BY <2>1, EmptyBlockIsABlock DEF TypeOK
  <1>2. ObligationInv
    BY DEF ObligationInv, ReferenceInv, RewardFollowsReview, OneHolder, NoPayoutWithoutApproval
  <1>3. LedgerInv
    BY DEF LedgerInv, CursorSkipsNothing, SettledOneToOne
  <1>4. WatcherInv
    BY DEF WatcherInv, CursorInv, PassInv, MatchInv
  <1> QED
    BY <1>1, <1>2, <1>3, <1>4 DEF IInv

LEMMA StutterKeeps ==
  ASSUME IInv, UNCHANGED vars
  PROVE  IInv'
  <1>1. PassTypeOK' /\ WatcherInv' /\ failures' \in 0..MaxFailures
    BY DEF IInv, TypeOK, PassTypeOK, WatcherInv, CursorInv, PassInv, MatchInv, Recorded, TransferAt,
           vars, chainVars, ledgerVars, cursorVars, passVars
  <1> QED
    BY <1>1, PassStepKeeps DEF vars

LEMMA StepKeeps ==
  ASSUME IInv, [Next]_vars
  PROVE  IInv'
  <1>1. CASE ChainStep
    BY <1>1, ChainStepKeeps
  <1>2. CASE People \/ \E s \in Subs : Seed(s)
    <2>1. ASSUME NEW s \in Subs,
                 \/ Decide(s) \/ CorrectUp(s) \/ CorrectDown(s) \/ CancelAndWithdraw(s) \/ Restore(s)
                 \/ Seed(s)
          PROVE  IInv'
      BY <2>1, PeopleKeep
    <2>2. ASSUME NEW r \in Refs, DisregardPayout(r) \/ \E s \in Subs : BindPayout(r, s)
          PROVE  IInv'
      BY <2>2, DisregardPayoutKeeps, BindPayoutKeeps
    <2> QED
      BY <1>2, <2>1, <2>2 DEF People
  <1>3. CASE OpenCursor \/ BeginPass \/ RecordPayout \/ AdvanceCursor
    BY <1>3, OpenCursorKeeps, BeginPassKeeps, RecordPayoutKeeps, AdvanceCursorKeeps
  <1>4. CASE RetryNext \/ BeginTail \/ ReadTailBlock \/ TailNext \/ EndTail \/ Revert
    BY <1>4, RetryNextKeeps, TailKeeps, RevertKeeps
  <1>5. CASE FinishPass \/ PassFails
    <2>1. EndPass /\ UNCHANGED <<chainVars, subVars, eventVars, ledgerVars, cursorVars>>
      BY <1>5 DEF FinishPass, PassFails
    <2>2. failures' \in 0..MaxFailures
      BY <1>5, PayoutConstants DEF FinishPass, PassFails, IInv, TypeOK
    <2> QED
      BY <2>1, <2>2, PassEndKeeps
  <1>6. CASE MatchEvent \/ ApplyClaim \/ ApplyMark
    BY <1>6, MatchEventKeeps, ApplyClaimKeeps, ApplyMarkKeeps
  <1>7. CASE UNCHANGED vars
    BY <1>7, StutterKeeps
  <1> QED
    BY <1>1, <1>2, <1>3, <1>4, <1>5, <1>6, <1>7 DEF Next, Watch

THEOREM PayoutInductive == Spec => []IInv
  BY InitHolds, StepKeeps, PTL DEF Spec

\* Type correctness of every state.
THEOREM PayoutTypeOK == Spec => []TypeOK
  BY PayoutInductive, PTL DEF IInv

\* No payout is skipped: the cursor passes a block after record_payout has committed
\* each of its transfers, and neither a failed pass nor a replaced block undoes that.
THEOREM PayoutCursorSkipsNothing == Spec => []CursorSkipsNothing
  BY PayoutInductive, PTL DEF IInv, LedgerInv

\* Claims, marks and an operator's bindings settle one obligation with one transfer.
THEOREM PayoutSettledOneToOne == Spec => []SettledOneToOne
  BY PayoutInductive, PTL DEF IInv, LedgerInv

\* An approval is never withdrawn under a payout: change_instruction and
\* _reward_event_exists guard every way down.
THEOREM PayoutNoneWithoutApproval == Spec => []NoPayoutWithoutApproval
  BY PayoutInductive, PTL DEF IInv, ObligationInv

\* One reward target never pays twice: the unique index on the holders of a target
\* and the guards of a withdrawal together.
THEOREM PayoutTargetPaidOnce == Spec => []TargetPaidOnce
  <1>1. IInv => TargetPaidOnce
    BY DEF IInv, ObligationInv, NoPayoutWithoutApproval, OneHolder, TargetPaidOnce, Unsigned
  <1> QED
    BY <1>1, PayoutInductive, PTL

\* Finality is final: a stale list of reverts, a late mark and a second binding all
\* pass a confirmed obligation by.
THEOREM PayoutConfirmedIsForever == Spec => ConfirmedIsForever
  <1> DEFINE Kept == \A s \in Subs : event[s] = "CONFIRMED" => event'[s] = "CONFIRMED" /\ ref'[s] = ref[s]
  <1>1. ASSUME IInv, Next PROVE Kept
    <2> SUFFICES ASSUME NEW s \in Subs, event[s] = "CONFIRMED"
                 PROVE  event'[s] = "CONFIRMED" /\ ref'[s] = ref[s]
      OBVIOUS
    <2>0. event \in [Subs -> {"None", "PENDING", "SUBMITTED", "CONFIRMED"}] /\ ref \in [Subs -> Refs \cup {NoRef}]
      BY <1>1 DEF IInv, TypeOK
    <2>1. CASE UNCHANGED <<event, ref>>
      BY <2>1
    <2>2. CASE \E t \in Subs : Seed(t)
      BY <2>0, <2>2 DEF Seed
    <2>3. CASE \E r \in Refs, t \in Subs : BindPayout(r, t)
      BY <1>1, <2>3, SettleKeeps DEF BindPayout, IInv
    <2>4. CASE Revert
      BY <2>0, <2>4 DEF Revert
    <2>5. CASE ApplyClaim
      <3>1. cur \in Refs /\ match \in Subs /\ ledger[cur] = "UNCLAIMED"
        BY <1>1, <2>5 DEF ApplyClaim, IInv, WatcherInv, PassInv, MatchInv
      <3>2. CASE StillThere /\ Settleable(match, cur) /\ Settle(match, cur)
        <4>1. event[match] # "CONFIRMED"
          BY <1>1, <3>1, <3>2, SettleableIsUnconfirmed DEF IInv, LedgerInv
        <4> QED
          BY <2>0, <3>1, <3>2, <4>1 DEF Settle
      <3> QED
        BY <2>5, <2>1, <3>2 DEF ApplyClaim, eventVars
    <2>6. CASE ApplyMark
      <3>1. \/ event' = event /\ ref' = ref
            \/ StillThere /\ event' = [event EXCEPT ![match] = "SUBMITTED"] /\ ref' = [ref EXCEPT ![match] = cur]
        BY <2>6 DEF ApplyMark
      <3>2. match \in Subs /\ phase = "Tail" /\ step = "Apply"
        BY <1>1, <2>6 DEF ApplyMark, IInv, WatcherInv, MatchInv
      <3> QED
        BY <1>1, <2>0, <3>1, <3>2, MarkedIsUnconfirmed
    <2>7. Next => \/ UNCHANGED <<event, ref>> \/ \E t \in Subs : Seed(t)
                  \/ \E r \in Refs, t \in Subs : BindPayout(r, t)
                  \/ Revert \/ ApplyClaim \/ ApplyMark
      BY DEF Next, People, Watch, ChainStep, Decide, CorrectUp, CorrectDown, CancelAndWithdraw, Restore,
             DisregardPayout, OpenCursor, BeginPass, RecordPayout, AdvanceCursor, RetryNext, BeginTail,
             ReadTailBlock, TailNext, EndTail, FinishPass, MatchEvent, PassFails, eventVars
    <2> QED
      BY <1>1, <2>1, <2>2, <2>3, <2>4, <2>5, <2>6, <2>7
  <1>2. ASSUME IInv, [Next]_vars PROVE [Kept]_vars
    BY <1>1, <1>2
  <1> QED
    BY <1>2, PayoutInductive, PTL DEF Spec, ConfirmedIsForever
=============================================================================

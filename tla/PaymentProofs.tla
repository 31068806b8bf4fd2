---------------------------- MODULE PaymentProofs ---------------------------
(***************************************************************************)
(* Proofs about what is paid for: TreasuryFunding, for any chain, any      *)
(* prices, and any number of watchers, requests, claims and declared       *)
(* deposits, and TmcPayOrders, for any number of orders, quotes, webhooks  *)
(* and readers.                                                            *)
(*                                                                         *)
(* TreasuryFunding.  The API decides on a status it read before it locked  *)
(* the row.  What makes that safe is not the status: pricing's advisory    *)
(* lock keeps other submissions out (RequestInv), and a row that was       *)
(* credited meanwhile carries credits (CreditedGrants), which the          *)
(* database's check refuses.                                               *)
(*                                                                         *)
(* TmcPayOrders.  A handler and a reader decide on the order they loaded   *)
(* and on an invoice they were told of.  Both may be old, and neither goes *)
(* back: credits are not taken away and a confirmed invoice stays          *)
(* confirmed, so what was true when it was read is true when it is used.   *)
(***************************************************************************)
EXTENDS TreasuryFunding, TmcPayOrders,
        FiniteSetTheorems, SequenceTheorems, WellFoundedInduction, TLAPS

----------------------------------------------------------------------------
(* Transfers to the treasury.                                              *)

Deposit == [owner : Senders, amount : Nat \cup {n * Price : n \in Packages},
            status : {"AWAITING_TRANSFER", "SEEN_UNFINALIZED", "CREDITED"},
            ref : Transfers \cup {NoRef}, entry : BOOLEAN]

WatcherState == [pc : {"Idle", "Block", "Settle", "Note"}, at : 0..MaxBlock, last : 0..MaxBlock,
                 todo : SUBSET Transfers, cur : Transfers \cup {NoRef}]

ProcessTypes ==
    /\ deposits \in Seq(Deposit)
    /\ watch \in [Watchers -> WatcherState]
    /\ req \in [Requests -> [pc : {"New", "Verified", "Recorded", "Created", "Refused", "Replayed"},
                             saw : {"None", "UNATTRIBUTED", "CREDITED", "IGNORED"}]]

\* A watcher has recorded every arrival of the blocks before its own, and of its own
\* those it has done with.
WatchInv ==
    \A w \in Watchers : watch[w].pc # "Idle" =>
        /\ watch[w].at >= 1
        /\ \A t \in Transfers : \/ BlockOf[t] < watch[w].at
                                \/ BlockOf[t] = watch[w].at /\ t \notin watch[w].todo
                                => row[t].status # "None"
        /\ watch[w].pc \in {"Settle", "Note"} =>
             watch[w].cur \in Transfers /\ row[watch[w].cur].status # "None"

\* A request that is about to lock the transfer's row holds pricing's lock; its payment
\* was confirmed, and no submission has used it.
RequestInv ==
    \A r \in Requests : req[r].pc = "Recorded" =>
        /\ quoteLock = r
        /\ AmountOf[Cites[r]] = Price /\ SenderOf[Cites[r]] = SignerOf[r]
        /\ PaymentUnused(r)

\* A credited row carries what was granted for it.
CreditedGrants ==
    \A t \in Transfers : row[t].status = "CREDITED" => row[t].granted = AmountOf[t] \div CreditPrice

\* A transfer that bought a submission is taken out of the watcher's hands.
BoughtIsIgnored == \A r \in bought : row[Cites[r]].status = "IGNORED"

WithEntry == {i \in DOMAIN deposits : deposits[i].entry}
WithLedger == {t \in Transfers : entries[t].dep > 0}

CreditsInv ==
    /\ IsFiniteSet(WithEntry) /\ IsFiniteSet(WithLedger)
    /\ Cardinality(WithEntry) = Cardinality(WithLedger)

IInv ==
    /\ FundingTypeOK /\ ProcessTypes
    /\ LedgerAgreesWithRow /\ DepositsSkipNothing /\ CreditsInv
    /\ WatchInv /\ RequestInv /\ CreditedGrants /\ BoughtIsIgnored
-----------------------------------------------------------------------------
(* Facts about numbers.                                                    *)

LEMMA LeastOf ==
  ASSUME NEW S \in SUBSET Nat, S # {}
  PROVE  \E i \in S : \A j \in S : i <= j
  <1>1. IsWellFoundedOn(OpToRel(<, Nat), Nat)
    BY NatLessThanWellFounded
  <1>2. PICK i \in S : \A j \in S : ~ (<<j, i>> \in OpToRel(<, Nat))
    BY <1>1, WFMin
  <1>3. ASSUME NEW j \in S, j < i PROVE FALSE
    BY <1>2, <1>3 DEF OpToRel
  <1> QED
    BY <1>3

\* A transfer of the price buys at least one credit.
LEMMA CreditsOfATransfer ==
  ASSUME NEW x \in Nat
  PROVE  /\ x \div CreditPrice \in Nat
         /\ x = Price => x \div CreditPrice > 0
  BY FundingConstants
-----------------------------------------------------------------------------
(* Pieces of steps.                                                        *)

\* What is said of rows and watchers survives when watchers stand still and rows only
\* gain a status.
LEMMA RowsGrow ==
  ASSUME DepositsSkipNothing, WatchInv, UNCHANGED <<cursor, watch>>,
         \A t \in Transfers : row[t].status # "None" => row'[t].status # "None"
  PROVE  DepositsSkipNothing' /\ WatchInv'
  BY DEF DepositsSkipNothing, WatchInv

\* A step that keeps rows, entries and submissions, and what requests have locked.
LEMMA RowsKept ==
  ASSUME LedgerAgreesWithRow, CreditedGrants, BoughtIsIgnored, RequestInv,
         UNCHANGED <<row, entries, bought, req, quoteLock>>
  PROVE  LedgerAgreesWithRow' /\ CreditedGrants' /\ BoughtIsIgnored' /\ RequestInv'
  BY DEF LedgerAgreesWithRow, CreditedGrants, BoughtIsIgnored, RequestInv, PaymentUnused

LEMMA CreditsKept ==
  ASSUME CreditsInv, UNCHANGED entries, DOMAIN deposits' \subseteq Nat,
         \A i \in Nat : i \in DOMAIN deposits' /\ deposits'[i].entry
                       <=> i \in DOMAIN deposits /\ deposits[i].entry,
         DOMAIN deposits \subseteq Nat
  PROVE  CreditsInv'
  <1>1. WithEntry' = WithEntry /\ WithLedger' = WithLedger
    BY DEF WithEntry, WithLedger
  <1> QED
    BY <1>1 DEF CreditsInv

LEMMA DepositsAreASequence ==
  ASSUME ProcessTypes
  PROVE  /\ Len(deposits) \in Nat /\ DOMAIN deposits = 1..Len(deposits)
         /\ \A i \in DOMAIN deposits : deposits[i] \in Deposit
         /\ deposits \in [1..Len(deposits) -> Deposit]
  BY LenProperties, ElementOfSeq DEF ProcessTypes

\* Changing a deposit in its place.
LEMMA DepositChanged ==
  ASSUME ProcessTypes, NEW i, NEW f, f \in [DOMAIN deposits -> Deposit],
         \A j \in DOMAIN deposits : j # i => f[j] = deposits[j]
  PROVE  f \in Seq(Deposit) /\ DOMAIN f = DOMAIN deposits
  BY DepositsAreASequence, SeqDef
-----------------------------------------------------------------------------
(* The chain, the accounts and their deposits.                             *)

LEMMA WorldKeeps ==
  ASSUME IInv, FinalizeBlock \/ open_cursor \/ \E k \in Senders : LinkSender(k)
  PROVE  IInv'
  <1> USE DEF watcherVars, requestVars
  <1>1. /\ UNCHANGED <<row, entries, bought, req, quoteLock, watch, deposits, claim, inserting, failures>>
        /\ final' \in 0..MaxBlock /\ linked' \subseteq Senders
        /\ cursor' = cursor \/ cursor' = 0
    BY FundingConstants DEF FinalizeBlock, open_cursor, LinkSender, IInv, FundingTypeOK
  <1>2. FundingTypeOK' /\ ProcessTypes'
    BY <1>1, FundingConstants DEF IInv, FundingTypeOK, ProcessTypes
  <1>3. DepositsSkipNothing'
    BY <1>1, FundingConstants DEF IInv, DepositsSkipNothing
  <1>4. WatchInv' /\ CreditsInv'
    BY <1>1 DEF IInv, WatchInv, CreditsInv, WithEntry, WithLedger
  <1> QED
    BY <1>1, <1>2, <1>3, <1>4, RowsKept DEF IInv

LEMMA DepositsKeep ==
  ASSUME IInv,
         \/ \E k \in Senders, n \in Packages \cup {1} : create_deposit(k, n)
         \/ \E c \in Claims : claim_deposit(c) \/ mark_seen(c)
  PROVE  IInv'
  <1> USE DEF watcherVars, requestVars
  <1>1. UNCHANGED <<final, linked, row, entries, bought, req, quoteLock, watch, cursor, inserting, failures>>
    BY DEF create_deposit, claim_deposit, mark_seen
  <1>2. ProcessTypes /\ DOMAIN deposits = 1..Len(deposits) /\ Len(deposits) \in Nat
    BY DepositsAreASequence DEF IInv
  <1> SUFFICES /\ deposits' \in Seq(Deposit)
               /\ \A i \in Nat : i \in DOMAIN deposits' /\ deposits'[i].entry
                                 <=> i \in DOMAIN deposits /\ deposits[i].entry
    <2>1. DOMAIN deposits' = 1..Len(deposits') /\ \A i \in DOMAIN deposits' : deposits'[i] \in Deposit
      BY LenProperties, ElementOfSeq
    <2>2. FundingTypeOK'
      BY <1>1, <2>1 DEF IInv, FundingTypeOK, Deposit
    <2>3. ProcessTypes'
      BY <1>1, <1>2 DEF ProcessTypes
    <2>4. CreditsInv'
      BY <1>1, <1>2, <2>1, CreditsKept DEF IInv
    <2>5. DepositsSkipNothing' /\ WatchInv'
      BY <1>1, RowsGrow DEF IInv
    <2> QED
      BY <1>1, <2>2, <2>3, <2>4, <2>5, RowsKept DEF IInv
  <1>3. ASSUME NEW k \in Senders, NEW n \in Packages \cup {1}, create_deposit(k, n)
        PROVE  /\ deposits' \in Seq(Deposit)
               /\ \A i \in Nat : i \in DOMAIN deposits' /\ deposits'[i].entry
                                 <=> i \in DOMAIN deposits /\ deposits[i].entry
    <2>1. NewDeposit(k, n * Price) \in Deposit /\ ~NewDeposit(k, n * Price).entry
      BY FundingConstants DEF NewDeposit, Deposit
    <2>2. deposits' = Append(deposits, NewDeposit(k, n * Price))
      BY <1>3 DEF create_deposit
    <2>3. /\ deposits' \in Seq(Deposit) /\ Len(deposits') = Len(deposits) + 1
          /\ \A i \in 1..Len(deposits) : deposits'[i] = deposits[i]
          /\ deposits'[Len(deposits) + 1] = NewDeposit(k, n * Price)
      BY <1>2, <2>1, <2>2, AppendProperties DEF ProcessTypes
    <2>4. DOMAIN deposits' = 1..(Len(deposits) + 1)
      BY <2>3, LenProperties
    <2> QED
      BY <1>2, <2>1, <2>2, <2>3, <2>4
  <1>4. ASSUME NEW c \in Claims, claim_deposit(c)
        PROVE  deposits' = deposits
    BY <1>4 DEF claim_deposit
  <1>5. ASSUME NEW c \in Claims, mark_seen(c)
        PROVE  /\ deposits' \in Seq(Deposit)
               /\ \A i \in Nat : i \in DOMAIN deposits' /\ deposits'[i].entry
                                 <=> i \in DOMAIN deposits /\ deposits[i].entry
    <2>1. CASE deposits' = deposits
      BY <2>1, <1>2 DEF ProcessTypes
    <2>2. CASE deposits' = [deposits EXCEPT ![claim[c].dep].status = "SEEN_UNFINALIZED",
                                            ![claim[c].dep].ref = ClaimRef[c]]
      <3>1. /\ deposits' \in [DOMAIN deposits -> Deposit]
            /\ \A j \in DOMAIN deposits : deposits'[j].entry = deposits[j].entry
            /\ \A j \in DOMAIN deposits : j # claim[c].dep => deposits'[j] = deposits[j]
        <4>1. \A j \in DOMAIN deposits : deposits[j] \in Deposit
          BY <1>2, DepositsAreASequence
        <4> DEFINE i == claim[c].dep
                   seen == [deposits EXCEPT ![i].status = "SEEN_UNFINALIZED"]
        <4>2. /\ seen \in [DOMAIN deposits -> Deposit]
              /\ \A j \in DOMAIN deposits : seen[j].entry = deposits[j].entry
              /\ \A j \in DOMAIN deposits : j # i => seen[j] = deposits[j]
          BY <4>1 DEF Deposit
        <4>3. deposits' = [seen EXCEPT ![i].ref = ClaimRef[c]]
          BY <2>2, Zenon
        <4>4. ClaimRef[c] \in Transfers
          BY FundingConstants
        <4> HIDE DEF seen
        <4>5. /\ deposits' \in [DOMAIN deposits -> Deposit]
              /\ \A j \in DOMAIN deposits : deposits'[j].entry = seen[j].entry
              /\ \A j \in DOMAIN deposits : j # i => deposits'[j] = seen[j]
          BY <4>2, <4>3, <4>4 DEF Deposit
        <4> QED
          BY <4>2, <4>5
      <3> QED
        BY <3>1, <1>2, DepositChanged
    <2> QED
      BY <1>5, <2>1, <2>2 DEF mark_seen
  <1> QED
    BY <1>2, <1>3, <1>4, <1>5 DEF ProcessTypes
-----------------------------------------------------------------------------
(* The watcher.                                                            *)

RowType == [status : {"None", "UNATTRIBUTED", "CREDITED", "IGNORED"}, granted : Nat,
            note : {"None", "UnknownSender", "SelfTransfer", "Conflict", "FundedSubmission"}]

HasRow(t) == row[t].status # "None"

\* One watcher goes to a state that has done what it should; rows only gain a status.
LEMMA WatcherMoved ==
  ASSUME IInv, NEW w \in Watchers, NEW ws \in WatcherState, WatchBecomes(w, ws),
         \A t \in Transfers : HasRow(t) => HasRow(t)',
         ws.pc # "Idle" =>
            /\ ws.at >= 1
            /\ \A t \in Transfers : \/ BlockOf[t] < ws.at
                                    \/ BlockOf[t] = ws.at /\ t \notin ws.todo
                                    => HasRow(t)'
            /\ ws.pc \in {"Settle", "Note"} => ws.cur \in Transfers /\ HasRow(ws.cur)'
  PROVE  WatchInv' /\ watch' \in [Watchers -> WatcherState]
  <1>1. watch \in [Watchers -> WatcherState] /\ WatchInv
    BY DEF IInv, ProcessTypes
  <1>2. /\ watch' \in [Watchers -> WatcherState] /\ watch'[w] = ws
        /\ \A v \in Watchers : v # w => watch'[v] = watch[v]
    BY <1>1 DEF WatchBecomes
  <1>3. ASSUME NEW v \in Watchers, watch'[v].pc # "Idle"
        PROVE  /\ watch'[v].at >= 1
               /\ \A t \in Transfers : \/ BlockOf[t] < watch'[v].at
                                       \/ BlockOf[t] = watch'[v].at /\ t \notin watch'[v].todo
                                       => row'[t].status # "None"
               /\ watch'[v].pc \in {"Settle", "Note"} =>
                    watch'[v].cur \in Transfers /\ row'[watch'[v].cur].status # "None"
    <2>1. CASE v = w
      BY <2>1, <1>2, <1>3 DEF HasRow
    <2>2. CASE v # w
      BY <2>2, <1>1, <1>2, <1>3 DEF WatchInv, HasRow
    <2> QED
      BY <2>1, <2>2
  <1> QED
    BY <1>2, <1>3 DEF WatchInv

\* The arrival a watcher had in hand is done with.
LEMMA WatcherSettled ==
  ASSUME IInv, NEW w \in Watchers, watch[w].pc \in {"Settle", "Note"}, Settled(w, watch[w].cur),
         \A t \in Transfers : HasRow(t) => HasRow(t)'
  PROVE  WatchInv' /\ watch' \in [Watchers -> WatcherState]
  <1> DEFINE ws == [watch[w] EXCEPT !.pc = "Block", !.todo = @ \ {watch[w].cur}, !.cur = NoRef]
  <1>1. watch[w] \in WatcherState
    BY DEF IInv, ProcessTypes
  <1>2. /\ ws \in WatcherState /\ ws.pc = "Block" /\ ws.at = watch[w].at
        /\ ws.todo = watch[w].todo \ {watch[w].cur}
    BY <1>1 DEF WatcherState
  <1>3. /\ watch[w].at >= 1 /\ watch[w].cur \in Transfers /\ HasRow(watch[w].cur)
        /\ \A t \in Transfers : \/ BlockOf[t] < watch[w].at
                                \/ BlockOf[t] = watch[w].at /\ t \notin watch[w].todo
                                => HasRow(t)
    BY DEF IInv, WatchInv, HasRow
  <1>4. WatchBecomes(w, ws)
    BY DEF Settled
  <1> HIDE DEF ws
  <1> QED
    BY <1>2, <1>3, <1>4, WatcherMoved

\* A watcher's step that writes no more of a row than that it exists, or a note.
LEMMA RowsNoted ==
  ASSUME IInv, row' \in [Transfers -> RowType],
         \A t \in Transfers : /\ row'[t].granted = row[t].granted
                              /\ \/ row'[t].status = row[t].status
                                 \/ row[t].status = "None" /\ row'[t].status = "UNATTRIBUTED",
         UNCHANGED <<final, linked, deposits, entries, bought, req, quoteLock, inserting>>,
         cursor' \in 0..MaxBlock \cup {NoRef}, failures' \in 0..MaxFailures,
         watch' \in [Watchers -> WatcherState], WatchInv', DepositsSkipNothing'
  PROVE  IInv'
  <1>1. FundingTypeOK'
    BY DEF IInv, FundingTypeOK, RowType, WatcherState
  <1>2. ProcessTypes'
    BY DEF IInv, ProcessTypes
  <1>3. CreditsInv'
    BY DEF IInv, CreditsInv, WithEntry, WithLedger
  <1>4. LedgerAgreesWithRow' /\ CreditedGrants' /\ BoughtIsIgnored'
    <2>1. \A r \in bought : Cites[r] \in Transfers
      BY FundingConstants DEF IInv, FundingTypeOK
    <2> QED
      BY <2>1 DEF IInv, LedgerAgreesWithRow, CreditedGrants, BoughtIsIgnored
  <1>5. RequestInv'
    BY DEF IInv, RequestInv, PaymentUnused
  <1> QED
    BY <1>1, <1>2, <1>3, <1>4, <1>5 DEF IInv

LEMMA WatcherKeeps ==
  ASSUME IInv, NEW w \in Watchers,
         scan_once(w) \/ leave_unattributed(w) \/ advance_cursor(w) \/ PassFails(w)
            \/ \E t \in Transfers : record(w, t)
  PROVE  IInv'
  <1> USE DEF watcherVars, requestVars
  <1>1. /\ watch[w] \in WatcherState /\ row \in [Transfers -> RowType]
        /\ cursor \in 0..MaxBlock \cup {NoRef} /\ final \in 0..MaxBlock /\ failures \in 0..MaxFailures
        /\ BlockOf \in [Transfers -> 1..MaxBlock] /\ MaxBlock \in Nat /\ Batch \in Nat \ {0}
        /\ MaxFailures \in Nat
    BY FundingConstants DEF IInv, ProcessTypes, FundingTypeOK, RowType
  <1>2. UNCHANGED <<final, linked, deposits, entries, bought, req, quoteLock, inserting>>
    BY DEF scan_once, leave_unattributed, advance_cursor, PassFails, record
  <1>3. CASE scan_once(w)
    <2> DEFINE end == cursor + Batch
               ws == [pc |-> "Block", at |-> cursor + 1, todo |-> Arrivals(cursor + 1),
                      last |-> IF end < final THEN end ELSE final, cur |-> NoRef]
    <2>1. cursor \in 0..MaxBlock /\ cursor < final /\ WatchBecomes(w, ws) /\ UNCHANGED <<row, cursor, failures>>
      BY <1>1, <1>3 DEF scan_once
    <2>2. ws \in WatcherState
      BY <1>1, <2>1 DEF WatcherState, Arrivals
    <2>3. \A t \in Transfers : \/ BlockOf[t] < ws.at
                               \/ BlockOf[t] = ws.at /\ t \notin ws.todo
                               => HasRow(t)
      <3> SUFFICES ASSUME NEW t \in Transfers, BlockOf[t] < cursor + 1 PROVE HasRow(t)
        BY DEF Arrivals
      <3>1. cursor # NoRef /\ BlockOf[t] <= cursor
        BY <1>1, <1>3, <2>1 DEF scan_once
      <3> QED
        BY <3>1 DEF IInv, DepositsSkipNothing, HasRow
    <2>4. ws.pc = "Block" /\ ws.at >= 1
      BY <2>1
    <2>5. \A t \in Transfers : HasRow(t)' = HasRow(t)
      BY <2>1 DEF HasRow
    <2> HIDE DEF ws
    <2>6. WatchInv' /\ watch' \in [Watchers -> WatcherState]
      BY <2>1, <2>2, <2>3, <2>4, <2>5, WatcherMoved
    <2>7. DepositsSkipNothing'
      BY <2>1 DEF IInv, DepositsSkipNothing
    <2> QED
      BY <1>1, <1>2, <2>1, <2>6, <2>7, RowsNoted
  <1>4. CASE leave_unattributed(w)
    <2> DEFINE t == watch[w].cur
    <2>1. /\ watch[w].pc = "Note" /\ Settled(w, t) /\ UNCHANGED <<cursor, failures>>
          /\ row' = [row EXCEPT ![t].note = "Conflict"]
      BY <1>4 DEF leave_unattributed
    <2>2. /\ row' \in [Transfers -> RowType]
          /\ \A u \in Transfers : row'[u].granted = row[u].granted /\ row'[u].status = row[u].status
      BY <1>1, <2>1 DEF RowType
    <2>3. WatchInv' /\ watch' \in [Watchers -> WatcherState]
      BY <2>1, <2>2, WatcherSettled DEF HasRow
    <2>4. DepositsSkipNothing'
      BY <2>1, <2>2 DEF IInv, DepositsSkipNothing
    <2> QED
      BY <1>1, <1>2, <2>1, <2>2, <2>3, <2>4, RowsNoted
  <1>5. CASE advance_cursor(w)
    <2> DEFINE next == watch[w].at + 1
               ws == IF next > watch[w].last THEN IdleWatch
                     ELSE [watch[w] EXCEPT !.at = next, !.todo = Arrivals(next)]
    <2>1. /\ watch[w].pc = "Block" /\ watch[w].todo = {} /\ WatchBecomes(w, ws) /\ UNCHANGED <<row, failures>>
          /\ cursor' = watch[w].at \/ cursor' = cursor
      BY <1>5 DEF advance_cursor
    <2>2. watch[w].at \in 0..MaxBlock /\ watch[w].last \in 0..MaxBlock
      BY <1>1 DEF WatcherState
    <2>3. watch[w].at >= 1 /\ \A t \in Transfers : BlockOf[t] <= watch[w].at => HasRow(t)
      BY <1>1, <2>1, <2>2 DEF IInv, WatchInv, HasRow
    <2>4. ws \in WatcherState
      <3>1. CASE next > watch[w].last
        BY <3>1, <1>1 DEF WatcherState, IdleWatch
      <3>2. CASE ~(next > watch[w].last)
        <4>1. next \in 0..MaxBlock /\ Arrivals(next) \in SUBSET Transfers
          BY <3>2, <1>1, <2>2 DEF Arrivals
        <4>2. ws = [watch[w] EXCEPT !.at = next, !.todo = Arrivals(next)]
          BY <3>2
        <4> HIDE DEF next
        <4> QED
          BY <4>1, <4>2, <1>1 DEF WatcherState
      <3> QED
        BY <3>1, <3>2
    <2>5. ws.pc # "Idle" => ws.pc = "Block" /\ ws.at = next /\ ws.todo = Arrivals(next)
      BY <1>1, <2>1 DEF IdleWatch, WatcherState
    <2>6. ws.pc # "Idle" => /\ ws.at >= 1 /\ ws.pc = "Block"
                            /\ \A t \in Transfers : \/ BlockOf[t] < ws.at
                                                    \/ BlockOf[t] = ws.at /\ t \notin ws.todo
                                                    => HasRow(t)
      BY <1>1, <2>2, <2>3, <2>5 DEF Arrivals
    <2>7. \A t \in Transfers : HasRow(t)' = HasRow(t)
      BY <2>1 DEF HasRow
    <2> HIDE DEF ws
    <2>8. WatchInv' /\ watch' \in [Watchers -> WatcherState]
      BY <2>1, <2>4, <2>6, <2>7, WatcherMoved
    <2>9. DepositsSkipNothing'
      BY <2>1, <2>3 DEF IInv, DepositsSkipNothing, HasRow
    <2> QED
      BY <1>1, <1>2, <2>1, <2>2, <2>8, <2>9, RowsNoted
  <1>6. CASE PassFails(w)
    <2>1. WatchBecomes(w, IdleWatch) /\ failures' = failures + 1 /\ failures < MaxFailures /\ UNCHANGED <<row, cursor>>
      BY <1>6 DEF PassFails
    <2>2. IdleWatch \in WatcherState /\ IdleWatch.pc = "Idle"
      BY <1>1 DEF WatcherState, IdleWatch
    <2>3. WatchInv' /\ watch' \in [Watchers -> WatcherState]
      BY <2>1, <2>2, WatcherMoved DEF HasRow
    <2>4. DepositsSkipNothing'
      BY <2>1 DEF IInv, DepositsSkipNothing
    <2> QED
      BY <1>1, <1>2, <2>1, <2>3, <2>4, RowsNoted
  <1>7. ASSUME NEW t \in Transfers, record(w, t)
        PROVE  IInv'
    <2> DEFINE ws == IF row'[t].status = "UNATTRIBUTED"
                     THEN [watch[w] EXCEPT !.pc = "Settle", !.cur = t]
                     ELSE [watch[w] EXCEPT !.todo = @ \ {t}]
    <2>1. /\ watch[w].pc = "Block" /\ row' = Recorded(t) /\ WatchBecomes(w, ws) /\ UNCHANGED <<cursor, failures>>
      BY <1>7 DEF record
    <2>2. /\ row' \in [Transfers -> RowType] /\ HasRow(t)'
          /\ \A u \in Transfers : /\ row'[u].granted = row[u].granted
                                  /\ \/ row'[u].status = row[u].status
                                     \/ row[u].status = "None" /\ row'[u].status = "UNATTRIBUTED"
      BY <1>1, <2>1 DEF Recorded, RowType, HasRow
    <2>3. /\ ws \in WatcherState /\ ws.at = watch[w].at
          /\ \/ ws.pc = "Settle" /\ ws.cur = t /\ ws.todo = watch[w].todo
             \/ ws.pc = "Block" /\ ws.todo = watch[w].todo \ {t}
      BY <1>1, <2>1 DEF WatcherState
    <2>4. /\ watch[w].at >= 1
          /\ \A u \in Transfers : \/ BlockOf[u] < watch[w].at
                                  \/ BlockOf[u] = watch[w].at /\ u \notin watch[w].todo
                                  => HasRow(u)
      BY <2>1 DEF IInv, WatchInv, HasRow
    <2>5. \A u \in Transfers : HasRow(u) => HasRow(u)'
      BY <2>2 DEF HasRow
    <2> HIDE DEF ws
    <2>6. WatchInv' /\ watch' \in [Watchers -> WatcherState]
      BY <2>1, <2>2, <2>3, <2>4, <2>5, WatcherMoved
    <2>7. DepositsSkipNothing'
      BY <2>1, <2>2 DEF IInv, DepositsSkipNothing
    <2> QED
      BY <1>1, <1>2, <2>1, <2>2, <2>6, <2>7, RowsNoted
  <1> QED
    BY <1>3, <1>4, <1>5, <1>6, <1>7
-----------------------------------------------------------------------------
(* Settling an arrival.                                                    *)

\* What credit chooses among the open deposits is one of them, and has no entry yet.
LEMMA MatchingDeposit ==
  ASSUME ProcessTypes, NEW a, NEW x, NEW i, _matching_open_deposit(a, x, i)
  PROVE  i = Len(deposits) + 1 \/ (i \in DOMAIN deposits /\ ~deposits[i].entry)
  <1>1. PICK skipped \in SUBSET {j \in Matching(a, x) : BeingClaimed(j)} :
           LET open == Matching(a, x) \ skipped
           IN  i = IF open = {} THEN Len(deposits) + 1 ELSE Oldest(open)
    BY DEF _matching_open_deposit
  <1> DEFINE open == Matching(a, x) \ skipped
  <1>2. CASE open = {}
    BY <1>1, <1>2
  <1>3. CASE open # {}
    <2>1. open \subseteq DOMAIN deposits /\ open \in SUBSET Nat
      BY DepositsAreASequence DEF Matching
    <2>2. \E j \in open : \A k \in open : j <= k
      BY <1>3, <2>1, LeastOf
    <2>3. Oldest(open) \in open
      BY <2>2 DEF Oldest
    <2>4. i = Oldest(open)
      BY <1>1, <1>3
    <2> QED
      BY <2>1, <2>3, <2>4 DEF Matching
  <1> QED
    BY <1>2, <1>3

\* The deposit it settles, old or new, is one more with an entry.
LEMMA DepositCredited ==
  ASSUME ProcessTypes, NEW i, NEW done \in Deposit, done.entry,
         i = Len(deposits) + 1 \/ (i \in DOMAIN deposits /\ ~deposits[i].entry),
         deposits' = IF i \in DOMAIN deposits THEN [deposits EXCEPT ![i] = done]
                     ELSE Append(deposits, done)
  PROVE  /\ deposits' \in Seq(Deposit)
         /\ i \notin WithEntry /\ WithEntry' = WithEntry \cup {i}
  <1>1. /\ Len(deposits) \in Nat /\ DOMAIN deposits = 1..Len(deposits) /\ deposits \in Seq(Deposit)
        /\ \A j \in DOMAIN deposits : deposits[j] \in Deposit
    BY DepositsAreASequence DEF ProcessTypes
  <1>2. CASE i \in DOMAIN deposits
    <2>1. /\ deposits' \in [DOMAIN deposits -> Deposit] /\ deposits'[i] = done
          /\ \A j \in DOMAIN deposits : j # i => deposits'[j] = deposits[j]
      BY <1>1, <1>2
    <2>2. deposits' \in Seq(Deposit) /\ DOMAIN deposits' = DOMAIN deposits
      BY <2>1, DepositChanged
    <2> QED
      BY <1>1, <1>2, <2>1, <2>2 DEF WithEntry
  <1>3. CASE i = Len(deposits) + 1
    <2>1. i \notin DOMAIN deposits
      BY <1>1, <1>3
    <2>2. deposits' = Append(deposits, done)
      BY <2>1
    <2> DEFINE longer == Append(deposits, done)
    <2>a. deposits \in Seq(Deposit) /\ done \in Deposit
      BY <1>1
    <2>3. /\ longer \in Seq(Deposit) /\ Len(longer) = Len(deposits) + 1
          /\ \A j \in 1..Len(deposits) : longer[j] = deposits[j]
          /\ longer[Len(deposits) + 1] = done
      BY ONLY <2>a, AppendProperties
    <2> HIDE DEF longer
    <2>4. DOMAIN longer = 1..(Len(deposits) + 1)
      BY <1>1, <2>3, LenProperties
    <2>5. deposits' = longer
      BY <2>2 DEF longer
    <2>6. deposits' \in Seq(Deposit) /\ i \notin WithEntry
      BY <2>1, <2>3, <2>5 DEF WithEntry
    <2>7. \A j : j \in DOMAIN deposits' /\ deposits'[j].entry
                 <=> (j \in DOMAIN deposits /\ deposits[j].entry) \/ j = i
      <3>1. \A j : j \in DOMAIN longer <=> j \in DOMAIN deposits \/ j = i
        BY <1>1, <1>3, <2>4
      <3>2. longer[i].entry /\ \A j \in DOMAIN deposits : longer[j] = deposits[j]
        BY <1>1, <1>3, <2>3
      <3> QED
        BY <2>1, <2>5, <3>1, <3>2
    <2> QED
      BY <2>6, <2>7 DEF WithEntry
  <1> QED
    BY <1>2, <1>3

\* A row's status and note are written, and nothing else.
RowWritten(t, s, n) ==
    /\ row' \in [Transfers -> RowType]
    /\ \A u \in Transfers : u # t => row'[u] = row[u]
    /\ row'[t].status = s /\ row'[t].note = n /\ row'[t].granted = row[t].granted

LEMMA StatusAndNote ==
  ASSUME row \in [Transfers -> RowType], NEW t \in Transfers,
         NEW s \in {"None", "UNATTRIBUTED", "CREDITED", "IGNORED"},
         NEW n \in {"None", "UnknownSender", "SelfTransfer", "Conflict", "FundedSubmission"},
         row' = [row EXCEPT ![t].status = s, ![t].note = n]
  PROVE  RowWritten(t, s, n)
  <1> DEFINE half == [row EXCEPT ![t].status = s]
  <1>1. row' = [half EXCEPT ![t].note = n]
    BY Zenon
  <1>2. /\ half \in [Transfers -> RowType] /\ half[t].status = s /\ half[t].granted = row[t].granted
        /\ \A u \in Transfers : u # t => half[u] = row[u]
    BY DEF RowType
  <1> HIDE DEF half
  <1>3. half[t] \in RowType /\ [half[t] EXCEPT !.note = n] \in RowType
    <2>1. half[t] \in RowType
      BY <1>2
    <2> QED
      BY ONLY <2>1, n \in {"None", "UnknownSender", "SelfTransfer", "Conflict", "FundedSubmission"} DEF RowType
  <1>4. row'[t] = [half[t] EXCEPT !.note = n] /\ \A u \in Transfers : u # t => row'[u] = half[u]
    BY <1>1, <1>2
  <1>5. row' \in [Transfers -> RowType]
    BY <1>1, <1>2, <1>3
  <1>6. row'[t].status = s /\ row'[t].note = n /\ row'[t].granted = row[t].granted
    BY <1>2, <1>3, <1>4 DEF RowType
  <1> QED
    BY <1>2, <1>4, <1>5, <1>6 DEF RowWritten

\* The transfer's credits: one entry, perhaps a bonus, a credited row and a deposit.
Credited(t) ==
    /\ deposits' \in Seq(Deposit)
    /\ \E i : i \notin WithEntry /\ WithEntry' = WithEntry \cup {i}
    /\ entries' \in [Transfers -> [dep : Nat, bonus : Nat]]
    /\ \A u \in Transfers : u # t => entries'[u] = entries[u]
    /\ entries[t].dep = 0 /\ entries'[t].dep = 1 /\ entries'[t].bonus <= 1
    /\ row' = [row EXCEPT ![t] = [status |-> "CREDITED", note |-> "None",
                                  granted |-> AmountOf[t] \div CreditPrice]]

LEMMA CreditEffect ==
  ASSUME IInv, NEW w \in Watchers, NEW t \in Transfers, NEW a \in Senders, credit(w, t, a),
         row[t].status = "UNATTRIBUTED"
  PROVE  \/ UNCHANGED <<row, deposits, entries>> /\ WatchBecomes(w, [watch[w] EXCEPT !.pc = "Note"])
         \/ Settled(w, t) /\ Credited(t)
  <1>1. PICK i \in 1..Len(deposits) + 1 :
          /\ _matching_open_deposit(a, AmountOf[t], i)
          /\ IF ReferenceFree(t, i)
             THEN /\ deposits' =
                       LET d == IF i \in DOMAIN deposits THEN deposits[i]
                                ELSE NewDeposit(a, AmountOf[t])
                           done == [d EXCEPT !.status = "CREDITED", !.ref = t, !.entry = TRUE]
                       IN  IF i \in DOMAIN deposits THEN [deposits EXCEPT ![i] = done]
                           ELSE Append(deposits, done)
                  /\ entries' = [entries EXCEPT ![t].dep = @ + 1,
                                                ![t].bonus = @ + IF EarnsBonus(t) THEN 1 ELSE 0]
                  /\ row' = [row EXCEPT ![t] = [status |-> "CREDITED", note |-> "None",
                                                granted |-> AmountOf[t] \div CreditPrice]]
                  /\ Settled(w, t)
             ELSE /\ WatchBecomes(w, [watch[w] EXCEPT !.pc = "Note"])
                  /\ UNCHANGED <<row, deposits, entries>>
    BY Zenon DEF credit
  <1>2. CASE ~ReferenceFree(t, i)
    BY <1>1, <1>2
  <1>3. CASE ReferenceFree(t, i)
    <2> DEFINE d == IF i \in DOMAIN deposits THEN deposits[i] ELSE NewDeposit(a, AmountOf[t])
               done == [d EXCEPT !.status = "CREDITED", !.ref = t, !.entry = TRUE]
               b == IF EarnsBonus(t) THEN 1 ELSE 0
               counted == [entries EXCEPT ![t].dep = entries[t].dep + 1]
    <2>1. ProcessTypes /\ AmountOf[t] \in Nat /\ entries \in [Transfers -> [dep : Nat, bonus : Nat]]
      BY FundingConstants DEF IInv, FundingTypeOK
    <2>2. i = Len(deposits) + 1 \/ (i \in DOMAIN deposits /\ ~deposits[i].entry)
      BY <1>1, <2>1, MatchingDeposit
    <2>3. deposits' = IF i \in DOMAIN deposits THEN [deposits EXCEPT ![i] = done]
                      ELSE Append(deposits, done)
      BY <1>1, <1>3, Zenon
    <2>4. d \in Deposit
      BY <2>1, DepositsAreASequence DEF NewDeposit, Deposit
    <2>5. done \in Deposit /\ done.entry
      <3> HIDE DEF d
      <3> QED
        BY <2>4 DEF Deposit
    <2> HIDE DEF done
    <2>6. deposits' \in Seq(Deposit) /\ i \notin WithEntry /\ WithEntry' = WithEntry \cup {i}
      BY <2>1, <2>2, <2>3, <2>5, DepositCredited
    <2>7. entries[t].dep = 0 /\ entries[t].bonus <= 0
      BY <2>1 DEF IInv, LedgerAgreesWithRow
    <2>8. entries' = [counted EXCEPT ![t].bonus = entries[t].bonus + b]
      BY <1>1, <1>3, Zenon
    <2>9. /\ counted \in [Transfers -> [dep : Nat, bonus : Nat]]
          /\ counted[t].dep = 1
          /\ \A u \in Transfers : u # t => counted[u] = entries[u]
      BY <2>1, <2>7
    <2>10. b \in {0, 1} /\ entries[t].bonus + b \in Nat /\ entries[t].bonus + b <= 1
      BY <2>1, <2>7
    <2> HIDE DEF b, counted
    <2>11. /\ entries' \in [Transfers -> [dep : Nat, bonus : Nat]]
           /\ \A u \in Transfers : u # t => entries'[u] = entries[u]
           /\ entries'[t].dep = 1 /\ entries'[t].bonus <= 1
      BY <2>8, <2>9, <2>10
    <2> QED
      BY <1>1, <1>3, <2>6, <2>7, <2>11 DEF Credited
  <1> QED
    BY <1>2, <1>3

\* What _settle can do to an arrival: nothing, a word of it on the row, or credits for it.
LEMMA SettleEffect ==
  ASSUME IInv, NEW w \in Watchers, _settle(w)
  PROVE  LET t == watch[w].cur
         IN  /\ t \in Transfers /\ watch[w].pc = "Settle"
             /\ \/ /\ UNCHANGED <<row, deposits, entries>>
                   /\ Settled(w, t) \/ WatchBecomes(w, [watch[w] EXCEPT !.pc = "Note"])
                \/ /\ row[t].status = "UNATTRIBUTED" /\ Settled(w, t) /\ UNCHANGED <<deposits, entries>>
                   /\ RowWritten(t, "IGNORED", "SelfTransfer") \/ RowWritten(t, "UNATTRIBUTED", "UnknownSender")
                \/ row[t].status = "UNATTRIBUTED" /\ Settled(w, t) /\ Credited(t)
  <1> DEFINE t == watch[w].cur
             a == account_for_coldkey(SenderOf[t])
  <1>1. watch[w].pc = "Settle" /\ t \in Transfers
    BY DEF _settle, IInv, WatchInv
  <1>2. row \in [Transfers -> RowType] /\ linked \subseteq Senders
    BY DEF IInv, FundingTypeOK, RowType
  <1>3. \/ Settled(w, t) /\ UNCHANGED <<row, deposits, entries>>
        \/ /\ row[t].status = "UNATTRIBUTED" /\ row' = [row EXCEPT ![t].status = "IGNORED", ![t].note = "SelfTransfer"]
           /\ Settled(w, t) /\ UNCHANGED <<deposits, entries>>
        \/ /\ row[t].status = "UNATTRIBUTED" /\ row' = [row EXCEPT ![t].note = "UnknownSender"]
           /\ Settled(w, t) /\ UNCHANGED <<deposits, entries>>
        \/ row[t].status = "UNATTRIBUTED" /\ a # Nobody /\ credit(w, t, a)
    BY Zenon DEF _settle
  <1>4. ASSUME row[t].status = "UNATTRIBUTED", row' = [row EXCEPT ![t].note = "UnknownSender"]
        PROVE  RowWritten(t, "UNATTRIBUTED", "UnknownSender")
    BY <1>1, <1>2, <1>4 DEF RowType, RowWritten
  <1>5. a # Nobody => a \in Senders
    BY <1>1, <1>2 DEF account_for_coldkey
  <1> HIDE DEF t, a
  <1>6. t \in Transfers /\ watch[w].pc = "Settle" /\ t = watch[w].cur
    BY <1>1 DEF t
  <1> QED
    BY <1>2, <1>3, <1>4, <1>5, <1>6, StatusAndNote, CreditEffect, Zenon

LEMMA SettleKeeps ==
  ASSUME IInv, NEW w \in Watchers, _settle(w)
  PROVE  IInv'
  <1> USE DEF watcherVars, requestVars
  <1> DEFINE t == watch[w].cur
  <1>1. UNCHANGED <<final, linked, claim, cursor, failures, inserting, bought, req, quoteLock>>
    BY DEF _settle
  <1>2. /\ t \in Transfers /\ watch[w].pc = "Settle" /\ watch[w] \in WatcherState
        /\ row \in [Transfers -> RowType] /\ deposits \in Seq(Deposit)
        /\ entries \in [Transfers -> [dep : Nat, bonus : Nat]]
        /\ \A r \in bought : Cites[r] \in Transfers /\ row[Cites[r]].status = "IGNORED"
    BY SettleEffect, FundingConstants
       DEF IInv, FundingTypeOK, ProcessTypes, RowType, BoughtIsIgnored
  <1>3. RequestInv'
    BY <1>1 DEF IInv, RequestInv, PaymentUnused
  <1> SUFFICES /\ row' \in [Transfers -> RowType] /\ deposits' \in Seq(Deposit)
               /\ entries' \in [Transfers -> [dep : Nat, bonus : Nat]]
               /\ WatchInv' /\ watch' \in [Watchers -> WatcherState]
               /\ LedgerAgreesWithRow' /\ CreditedGrants' /\ BoughtIsIgnored' /\ CreditsInv'
               /\ \A u \in Transfers : HasRow(u) => HasRow(u)'
    <2>1. DOMAIN deposits' = 1..Len(deposits') /\ \A i \in DOMAIN deposits' : deposits'[i] \in Deposit
      BY LenProperties, ElementOfSeq
    <2>2. FundingTypeOK'
      BY <1>1, <2>1 DEF IInv, FundingTypeOK, RowType, Deposit, WatcherState
    <2>3. ProcessTypes'
      BY <1>1 DEF IInv, ProcessTypes
    <2>4. DepositsSkipNothing'
      BY <1>1 DEF IInv, DepositsSkipNothing, HasRow
    <2> QED
      BY <1>3, <2>2, <2>3, <2>4 DEF IInv
  <1>4. CASE UNCHANGED <<row, deposits, entries>>
             /\ (Settled(w, t) \/ WatchBecomes(w, [watch[w] EXCEPT !.pc = "Note"]))
    <2>1. \A u \in Transfers : HasRow(u)' = HasRow(u)
      BY <1>4 DEF HasRow
    <2>2. LedgerAgreesWithRow' /\ CreditedGrants' /\ BoughtIsIgnored' /\ CreditsInv'
      BY <1>1, <1>4 DEF IInv, LedgerAgreesWithRow, CreditedGrants, BoughtIsIgnored, CreditsInv, WithEntry, WithLedger
    <2>3. ASSUME Settled(w, t)
          PROVE  WatchInv' /\ watch' \in [Watchers -> WatcherState]
      BY <1>2, <2>1, <2>3, WatcherSettled
    <2>4. ASSUME WatchBecomes(w, [watch[w] EXCEPT !.pc = "Note"])
          PROVE  WatchInv' /\ watch' \in [Watchers -> WatcherState]
      <3> DEFINE ws == [watch[w] EXCEPT !.pc = "Note"]
      <3>1. /\ ws \in WatcherState /\ ws.at = watch[w].at /\ ws.todo = watch[w].todo /\ ws.cur = t
            /\ ws.pc = "Note"
        BY <1>2 DEF WatcherState
      <3>2. /\ watch[w].at >= 1 /\ HasRow(t)
            /\ \A u \in Transfers : \/ BlockOf[u] < watch[w].at
                                    \/ BlockOf[u] = watch[w].at /\ u \notin watch[w].todo
                                    => HasRow(u)
        BY <1>2 DEF IInv, WatchInv, HasRow
      <3>3. WatchBecomes(w, ws)
        BY <2>4
      <3> HIDE DEF ws
      <3> QED
        BY <1>2, <2>1, <3>1, <3>2, <3>3, WatcherMoved
    <2> QED
      BY <1>2, <1>4, <2>1, <2>2, <2>3, <2>4
  <1>5. CASE /\ row[t].status = "UNATTRIBUTED" /\ Settled(w, t) /\ UNCHANGED <<deposits, entries>>
             /\ RowWritten(t, "IGNORED", "SelfTransfer") \/ RowWritten(t, "UNATTRIBUTED", "UnknownSender")
    <2>1. /\ row' \in [Transfers -> RowType] /\ row'[t].status \in {"IGNORED", "UNATTRIBUTED"}
          /\ \A u \in Transfers : u # t => row'[u] = row[u]
      BY <1>5 DEF RowWritten
    <2>2. \A u \in Transfers : HasRow(u) => HasRow(u)'
      BY <1>2, <2>1 DEF HasRow
    <2>3. WatchInv' /\ watch' \in [Watchers -> WatcherState]
      BY <1>2, <1>5, <2>2, WatcherSettled
    <2>4. LedgerAgreesWithRow' /\ CreditedGrants'
      BY <1>2, <1>5, <2>1 DEF IInv, LedgerAgreesWithRow, CreditedGrants
    <2>5. BoughtIsIgnored'
      BY <1>1, <1>2, <1>5, <2>1 DEF BoughtIsIgnored
    <2>6. CreditsInv'
      BY <1>5 DEF IInv, CreditsInv, WithEntry, WithLedger
    <2> QED
      BY <1>2, <1>5, <2>1, <2>2, <2>3, <2>4, <2>5, <2>6
  <1>6. CASE row[t].status = "UNATTRIBUTED" /\ Settled(w, t) /\ Credited(t)
    <2> DEFINE done == [status |-> "CREDITED", note |-> "None", granted |-> AmountOf[t] \div CreditPrice]
    <2>1. done \in RowType /\ done.status = "CREDITED" /\ done.granted = AmountOf[t] \div CreditPrice
      BY <1>2, CreditsOfATransfer, FundingConstants DEF RowType
    <2>2. row' = [row EXCEPT ![t] = done]
      BY <1>6, Zenon DEF Credited
    <2> HIDE DEF done
    <2>3. /\ row' \in [Transfers -> RowType] /\ row'[t] = done
          /\ \A u \in Transfers : u # t => row'[u] = row[u]
      BY <1>2, <2>1, <2>2
    <2>4. /\ entries' \in [Transfers -> [dep : Nat, bonus : Nat]] /\ deposits' \in Seq(Deposit)
          /\ \A u \in Transfers : u # t => entries'[u] = entries[u]
          /\ entries[t].dep = 0 /\ entries'[t].dep = 1 /\ entries'[t].bonus <= 1
      BY <1>6, Zenon DEF Credited
    <2>5. \A u \in Transfers : HasRow(u) => HasRow(u)'
      BY <2>1, <2>3 DEF HasRow
    <2>6. WatchInv' /\ watch' \in [Watchers -> WatcherState]
      BY <1>2, <1>6, <2>5, WatcherSettled
    <2>7. LedgerAgreesWithRow' /\ CreditedGrants'
      BY <1>2, <2>1, <2>3, <2>4 DEF IInv, LedgerAgreesWithRow, CreditedGrants
    <2>8. BoughtIsIgnored'
      BY <1>1, <1>2, <1>6, <2>3 DEF BoughtIsIgnored
    <2>9. CreditsInv'
      <3>1. PICK i : i \notin WithEntry /\ WithEntry' = WithEntry \cup {i}
        BY <1>6, Zenon DEF Credited
      <3>2. t \notin WithLedger /\ WithLedger' = WithLedger \cup {t}
        BY <1>2, <2>4 DEF WithLedger
      <3>3. /\ IsFiniteSet(WithEntry) /\ IsFiniteSet(WithLedger)
            /\ Cardinality(WithEntry) = Cardinality(WithLedger)
        BY DEF IInv, CreditsInv
      <3>4. /\ IsFiniteSet(WithEntry') /\ Cardinality(WithEntry') = Cardinality(WithEntry) + 1
            /\ IsFiniteSet(WithLedger') /\ Cardinality(WithLedger') = Cardinality(WithLedger) + 1
        BY <3>1, <3>2, <3>3, FS_AddElement
      <3> QED
        BY <3>3, <3>4 DEF CreditsInv
    <2> QED
      BY <2>3, <2>4, <2>5, <2>6, <2>7, <2>8, <2>9
  <1> QED
    BY <1>4, <1>5, <1>6, SettleEffect
-----------------------------------------------------------------------------
(* Requests.                                                               *)

\* A request's step that leaves rows and submissions alone; at most its own lock is taken or given back.
LEMMA RequestMoved ==
  ASSUME IInv, UNCHANGED <<final, linked, row, deposits, entries, cursor, watch, bought>>,
         failures' \in 0..MaxFailures, inserting' \in [Transfers -> Requests \cup {Nobody}],
         quoteLock' \in Requests \cup {Nobody},
         req' \in [Requests -> [pc : {"New", "Verified", "Recorded", "Created", "Refused", "Replayed"},
                                saw : {"None", "UNATTRIBUTED", "CREDITED", "IGNORED"}]],
         RequestInv'
  PROVE  IInv'
  <1>1. FundingTypeOK' /\ ProcessTypes'
    BY DEF IInv, FundingTypeOK, ProcessTypes
  <1>2. LedgerAgreesWithRow' /\ DepositsSkipNothing' /\ CreditsInv'
    BY DEF IInv, LedgerAgreesWithRow, DepositsSkipNothing, CreditsInv, WithEntry, WithLedger
  <1>3. WatchInv' /\ CreditedGrants' /\ BoughtIsIgnored'
    BY DEF IInv, WatchInv, CreditedGrants, BoughtIsIgnored
  <1> QED
    BY <1>1, <1>2, <1>3 DEF IInv

\* Only one request at a time is past pricing's lock.
LEMMA OneIsRecorded ==
  ASSUME IInv, NEW r \in Requests, req[r].pc = "Recorded"
  PROVE  \A q \in Requests : req[q].pc = "Recorded" => q = r
  BY DEF IInv, RequestInv

LEMMA RequestKeeps ==
  ASSUME IInv, NEW r \in Requests,
         create_submission(r) \/ InsertSubmission(r) \/ RequestFails(r) \/ Resend(r)
  PROVE  IInv'
  <1> USE DEF watcherVars, requestVars
  <1> DEFINE Reqs == [pc : {"New", "Verified", "Recorded", "Created", "Refused", "Replayed"},
                      saw : {"None", "UNATTRIBUTED", "CREDITED", "IGNORED"}]
  <1>1. /\ req \in [Requests -> Reqs] /\ row \in [Transfers -> RowType]
        /\ inserting \in [Transfers -> Requests \cup {Nobody}] /\ quoteLock \in Requests \cup {Nobody}
        /\ failures \in 0..MaxFailures /\ MaxFailures \in Nat /\ Nobody \notin Requests
        /\ Cites \in [Requests -> Transfers]
    BY FundingConstants DEF IInv, ProcessTypes, FundingTypeOK, RowType
  <1>2. UNCHANGED <<final, linked, row, deposits, entries, cursor, watch, bought>>
    BY DEF create_submission, InsertSubmission, RequestFails, Resend
  \* A request that moves on without the lock.
  <1>3. ASSUME NEW pc \in {"New", "Verified", "Created", "Refused", "Replayed"}, RequestBecomes(r, pc),
               \/ UNCHANGED quoteLock /\ req[r].pc # "Recorded"
               \/ req[r].pc = "Recorded"
        PROVE  req' \in [Requests -> Reqs] /\ RequestInv'
    <2>1. /\ req' \in [Requests -> Reqs] /\ req'[r].pc = pc
          /\ \A q \in Requests : q # r => req'[q] = req[q]
      BY <1>1, <1>3 DEF RequestBecomes
    <2>2. CASE req[r].pc = "Recorded"
      <3>1. \A q \in Requests : req'[q].pc # "Recorded"
        BY <2>1, <2>2, OneIsRecorded
      <3> QED
        BY <2>1, <3>1 DEF RequestInv
    <2>3. CASE UNCHANGED quoteLock
      BY <1>2, <2>1, <2>3 DEF IInv, RequestInv, PaymentUnused
    <2> QED
      BY <1>3, <2>2, <2>3
  <1>4. ASSUME Replay(r)
        PROVE  \E pc \in {"Replayed", "Refused"} : RequestBecomes(r, pc)
    BY <1>4 DEF Replay
  <1>5. CASE create_submission(r)
    <2>1. /\ UNCHANGED <<inserting, quoteLock, failures>> /\ req[r].pc = "New"
          /\ \E pc \in {"Verified", "Replayed", "Refused"} : RequestBecomes(r, pc)
      BY <1>4, <1>5 DEF create_submission
    <2>2. req' \in [Requests -> Reqs] /\ RequestInv'
      BY <1>3, <2>1
    <2> QED
      BY <1>1, <1>2, <2>1, <2>2, RequestMoved
  <1>6. CASE RequestFails(r)
    <2>1. /\ RequestBecomes(r, "Refused") /\ UNCHANGED failures
          /\ \/ req[r].pc = "Verified" /\ UNCHANGED <<inserting, quoteLock>>
             \/ req[r].pc = "Recorded" /\ Release(r)
      BY <1>6 DEF RequestFails
    <2>2. req' \in [Requests -> Reqs] /\ RequestInv'
      BY <1>3, <2>1
    <2>3. inserting' \in [Transfers -> Requests \cup {Nobody}] /\ quoteLock' \in Requests \cup {Nobody}
      BY <1>1, <2>1 DEF Release
    <2> QED
      BY <1>1, <1>2, <2>1, <2>2, <2>3, RequestMoved
  <1>7. CASE Resend(r)
    <2>1. /\ RequestBecomes(r, "New") /\ failures' = failures + 1 /\ failures < MaxFailures
          /\ UNCHANGED <<inserting, quoteLock>> /\ req[r].pc # "Recorded"
      BY <1>7 DEF Resend
    <2>2. req' \in [Requests -> Reqs] /\ RequestInv'
      BY <1>3, <2>1
    <2> QED
      BY <1>1, <1>2, <2>1, <2>2, RequestMoved
  <1>8. CASE InsertSubmission(r)
    <2> DEFINE t == Cites[r]
    <2>1. UNCHANGED failures /\ req[r].pc = "Verified" /\ quoteLock = Nobody /\ t \in Transfers
      BY <1>1, <1>8 DEF InsertSubmission
    <2>2. CASE UNCHANGED <<inserting, quoteLock>> /\ \E pc \in {"Replayed", "Refused"} : RequestBecomes(r, pc)
      <3>1. req' \in [Requests -> Reqs] /\ RequestInv'
        BY <1>3, <2>1, <2>2
      <3> QED
        BY <1>1, <1>2, <2>1, <2>2, <3>1, RequestMoved
    <2>3. CASE /\ confirm(r) /\ PaymentUnused(r) /\ quoteLock' = r
               /\ req' = [req EXCEPT ![r] = [pc |-> "Recorded", saw |-> Recorded(t)[t].status]]
               /\ inserting' = [inserting EXCEPT ![t] = IF row[t].status = "None" THEN r ELSE @]
      <3>1. Recorded(t)[t].status \in {"None", "UNATTRIBUTED", "CREDITED", "IGNORED"}
        BY <1>1, <2>1 DEF Recorded, RowType
      <3>2. /\ req' \in [Requests -> Reqs] /\ \A q \in Requests : q # r => req'[q] = req[q]
        BY <1>1, <2>3, <3>1
      <3>3. inserting' \in [Transfers -> Requests \cup {Nobody}]
        BY <1>1, <2>1, <2>3
      <3>4. \A q \in Requests : req[q].pc # "Recorded"
        BY <1>1, <2>1 DEF IInv, RequestInv
      <3>5. \A q \in Requests : req'[q].pc = "Recorded" => q = r
        BY <3>2, <3>4
      <3>6. AmountOf[t] = Price /\ SenderOf[t] = SignerOf[r] /\ PaymentUnused(r)'
        BY <1>2, <2>3 DEF confirm, PaymentUnused
      <3>7. RequestInv'
        BY <2>3, <3>5, <3>6 DEF RequestInv
      <3> QED
        BY <1>1, <1>2, <2>1, <2>3, <3>2, <3>3, <3>7, RequestMoved
    <2> QED
      BY <1>4, <1>8, <2>2, <2>3 DEF InsertSubmission
  <1> QED
    BY <1>5, <1>6, <1>7, <1>8

\* spend: the row cannot have been credited meanwhile, for then it would carry credits.
LEMMA SpendEffect ==
  ASSUME IInv, NEW r \in Requests, claim_for_submission(r), bought' # bought
  PROVE  LET t == Cites[r]
         IN  /\ t \in Transfers /\ entries[t].dep = 0 /\ bought' = bought \cup {r}
             /\ \A q \in bought : Cites[q] # t
             /\ RowWritten(t, "IGNORED", "FundedSubmission")
  <1> DEFINE t == Cites[r]
  <1>1. /\ t \in Transfers /\ row \in [Transfers -> RowType] /\ AmountOf[t] \in Nat
        /\ entries \in [Transfers -> [dep : Nat, bonus : Nat]]
    BY FundingConstants DEF IInv, FundingTypeOK, RowType
  <1>2. /\ req[r].pc = "Recorded" /\ row[t].granted = 0 /\ bought' = bought \cup {r}
        /\ row' = [row EXCEPT ![t].status = "IGNORED", ![t].note = "FundedSubmission"]
    <2>1. transfer_uncredited_grants_nothing("IGNORED", row[t].granted) => row[t].granted = 0
      BY DEF transfer_uncredited_grants_nothing
    <2> QED
      BY <2>1 DEF claim_for_submission
  <1>3. AmountOf[t] = Price /\ PaymentUnused(r)
    BY <1>2 DEF IInv, RequestInv
  <1>4. row[t].status # "CREDITED"
    BY <1>1, <1>2, <1>3, CreditsOfATransfer DEF IInv, CreditedGrants
  <1>5. entries[t].dep = 0
    BY <1>1, <1>4 DEF IInv, LedgerAgreesWithRow
  <1>6. RowWritten(t, "IGNORED", "FundedSubmission")
    BY <1>1, <1>2, StatusAndNote
  <1> QED
    BY <1>1, <1>2, <1>3, <1>5, <1>6 DEF PaymentUnused

LEMMA SpendKeeps ==
  ASSUME IInv, NEW r \in Requests, claim_for_submission(r)
  PROVE  IInv'
  <1> USE DEF watcherVars, requestVars
  <1> DEFINE t == Cites[r]
             Reqs == [pc : {"New", "Verified", "Recorded", "Created", "Refused", "Replayed"},
                      saw : {"None", "UNATTRIBUTED", "CREDITED", "IGNORED"}]
  <1>1. /\ req[r].pc = "Recorded" /\ Release(r)
        /\ UNCHANGED <<final, linked, deposits, entries, claim, cursor, watch, failures>>
        /\ RequestBecomes(r, "Created") \/ RequestBecomes(r, "Refused")
        /\ bought' = bought => UNCHANGED row \/ r \in bought
    BY DEF claim_for_submission
  <1>2. /\ req \in [Requests -> Reqs] /\ row \in [Transfers -> RowType] /\ bought \subseteq Requests
        /\ inserting \in [Transfers -> Requests \cup {Nobody}]
        /\ failures \in 0..MaxFailures /\ t \in Transfers
    BY FundingConstants DEF IInv, ProcessTypes, FundingTypeOK, RowType
  <1>3. r \notin bought
    BY <1>1 DEF IInv, RequestInv, PaymentUnused
  <1>4. /\ req' \in [Requests -> Reqs] /\ \A q \in Requests : req'[q].pc # "Recorded"
    BY <1>1, <1>2, OneIsRecorded DEF RequestBecomes
  <1>5. inserting' \in [Transfers -> Requests \cup {Nobody}] /\ quoteLock' \in Requests \cup {Nobody}
    BY <1>1, <1>2 DEF Release
  <1>6. RequestInv'
    BY <1>4 DEF RequestInv
  <1>7. CASE bought' = bought
    BY <1>1, <1>2, <1>3, <1>4, <1>5, <1>6, <1>7, RequestMoved
  <1>8. CASE bought' # bought
    <2>1. /\ entries[t].dep = 0 /\ bought' = bought \cup {r}
          /\ row' \in [Transfers -> RowType] /\ row'[t].status = "IGNORED"
          /\ \A u \in Transfers : u # t => row'[u] = row[u]
      BY <1>8, SpendEffect DEF RowWritten
    <2>2. FundingTypeOK' /\ ProcessTypes'
      BY <1>1, <1>2, <1>4, <1>5, <2>1 DEF IInv, FundingTypeOK, ProcessTypes, RowType
    <2>3. LedgerAgreesWithRow' /\ CreditedGrants'
      BY <1>1, <1>2, <2>1 DEF IInv, LedgerAgreesWithRow, CreditedGrants
    <2>4. BoughtIsIgnored'
      BY <1>2, <2>1, FundingConstants DEF IInv, BoughtIsIgnored
    <2>5. CreditsInv'
      BY <1>1 DEF IInv, CreditsInv, WithEntry, WithLedger
    <2>6. DepositsSkipNothing' /\ WatchInv'
      <3>1. \A u \in Transfers : row[u].status # "None" => row'[u].status # "None"
        BY <1>2, <2>1
      <3> QED
        BY <1>1, <3>1, RowsGrow DEF IInv
    <2> QED
      BY <1>6, <2>2, <2>3, <2>4, <2>5, <2>6 DEF IInv
  <1> QED
    BY <1>7, <1>8
-----------------------------------------------------------------------------
(* The theorems.                                                           *)

LEMMA InitHolds == FundingInit => IInv
  <1> SUFFICES ASSUME FundingInit PROVE IInv
    OBVIOUS
  <1> USE FundingConstants DEF FundingInit
  <1>1. deposits = <<>> /\ deposits \in Seq(Deposit) /\ DOMAIN deposits = {}
    OBVIOUS
  <1>2. FundingTypeOK
    BY <1>1 DEF FundingTypeOK, NoRow, IdleWatch
  <1>3. ProcessTypes
    BY <1>1 DEF ProcessTypes, WatcherState, IdleWatch
  <1>4. LedgerAgreesWithRow /\ DepositsSkipNothing /\ CreditedGrants /\ BoughtIsIgnored
    BY DEF LedgerAgreesWithRow, DepositsSkipNothing, CreditedGrants, BoughtIsIgnored, NoRow
  <1>5. WatchInv /\ RequestInv
    BY DEF WatchInv, RequestInv, IdleWatch
  <1>6. CreditsInv
    <2>1. WithEntry = {} /\ WithLedger = {}
      BY <1>1 DEF WithEntry, WithLedger
    <2> QED
      BY <2>1, FS_EmptySet DEF CreditsInv
  <1> QED
    BY <1>2, <1>3, <1>4, <1>5, <1>6 DEF IInv

LEMMA StepKeeps == IInv /\ [FundingNext]_fundingVars => IInv'
  <1> SUFFICES ASSUME IInv, [FundingNext]_fundingVars PROVE IInv'
    OBVIOUS
  <1>1. CASE FinalizeBlock \/ open_cursor \/ \E k \in Senders : LinkSender(k)
    BY <1>1, WorldKeeps
  <1>2. CASE \/ \E k \in Senders, n \in Packages \cup {1} : create_deposit(k, n)
             \/ \E c \in Claims : claim_deposit(c) \/ mark_seen(c)
    BY <1>2, DepositsKeep
  <1>3. ASSUME NEW w \in Watchers, WatcherStep(w) \/ PassFails(w)
        PROVE  IInv'
    BY <1>3, WatcherKeeps, SettleKeeps DEF WatcherStep
  <1>4. ASSUME NEW r \in Requests, RequestStep(r) \/ RequestFails(r) \/ Resend(r)
        PROVE  IInv'
    BY <1>4, RequestKeeps, SpendKeeps DEF RequestStep
  <1>5. CASE UNCHANGED fundingVars
    BY <1>5 DEF fundingVars, watcherVars, requestVars, IInv, FundingTypeOK, ProcessTypes,
       LedgerAgreesWithRow, DepositsSkipNothing, CreditsInv, WithEntry, WithLedger, WatchInv,
       RequestInv, PaymentUnused, CreditedGrants, BoughtIsIgnored
  <1> QED
    BY <1>1, <1>2, <1>3, <1>4, <1>5 DEF FundingNext

THEOREM FundingInductive == FundingSpec => []IInv
  BY InitHolds, StepKeeps, PTL DEF FundingSpec

\* Every arrival the watcher has passed has its row, a credited row has exactly one entry in
\* the ledger and every entry one deposit: FundingIsKept, for any number of watchers, requests
\* and claims (deposit_watcher/watcher.py, db/transfers.py, db/credits.py).
THEOREM FundingKept == FundingSpec => []FundingIsKept
  <1>1. IInv => FundingIsKept
    BY DEF IInv, FundingIsKept, CreditsHaveTheirDeposit, CreditsInv, WithEntry, WithLedger
  <1> QED
    BY <1>1, FundingInductive, PTL

LEMMA UseWas ==
  ASSUME UNCHANGED <<entries, bought>>
  PROVE  UNCHANGED Use
  BY DEF Use

LEMMA UseBecomes ==
  ASSUME NEW t \in Transfers, NEW v, Use'[t] = v,
         \A u \in Transfers : u # t => Use'[u] = Use[u]
  PROVE  Use' = [Use EXCEPT ![t] = v]
  <1> DEFINE before(u) == IF entries[u].dep > 0 THEN "Credits"
                          ELSE IF \E r \in bought : Cites[r] = u THEN "Submission" ELSE "Nothing"
             after(u) == IF entries'[u].dep > 0 THEN "Credits"
                         ELSE IF \E r \in bought' : Cites[r] = u THEN "Submission" ELSE "Nothing"
  <1>1. Use = [u \in Transfers |-> before(u)] /\ Use' = [u \in Transfers |-> after(u)]
    BY DEF Use
  <1>2. after(t) = v /\ \A u \in Transfers : u # t => after(u) = before(u)
    <2> HIDE DEF before, after
    <2> QED
      BY <1>1
  <1> HIDE DEF before, after
  <1> QED
    BY <1>1, <1>2

LEMMA StepPaysOnce ==
  ASSUME IInv, [FundingNext]_fundingVars
  PROVE  [FundingOnce!Next]_Use
  <1> USE DEF watcherVars, requestVars
  <1>1. ASSUME \/ FinalizeBlock \/ open_cursor \/ \E k \in Senders : LinkSender(k)
               \/ \E k \in Senders, n \in Packages \cup {1} : create_deposit(k, n)
               \/ \E c \in Claims : claim_deposit(c) \/ mark_seen(c)
        PROVE  UNCHANGED Use
    BY <1>1, UseWas DEF FinalizeBlock, open_cursor, LinkSender, create_deposit, claim_deposit, mark_seen
  <1>2. ASSUME NEW w \in Watchers,
               \/ scan_once(w) \/ leave_unattributed(w) \/ advance_cursor(w) \/ PassFails(w)
               \/ \E t \in Transfers : record(w, t)
        PROVE  UNCHANGED Use
    BY <1>2, UseWas DEF scan_once, leave_unattributed, advance_cursor, PassFails, record
  <1>3. ASSUME NEW r \in Requests,
               create_submission(r) \/ InsertSubmission(r) \/ RequestFails(r) \/ Resend(r)
        PROVE  UNCHANGED Use
    BY <1>3, UseWas DEF create_submission, InsertSubmission, RequestFails, Resend
  <1>4. ASSUME NEW w \in Watchers, _settle(w)
        PROVE  [FundingOnce!Next]_Use
    <2> DEFINE t == watch[w].cur
    <2>1. bought' = bought /\ t \in Transfers
      BY <1>4, SettleEffect DEF _settle
    <2>2. CASE UNCHANGED entries
      BY <2>1, <2>2, UseWas
    <2>3. CASE row[t].status = "UNATTRIBUTED" /\ Credited(t)
      <3>1. /\ entries[t].dep = 0 /\ entries'[t].dep = 1
            /\ \A u \in Transfers : u # t => entries'[u] = entries[u]
        BY <2>3, Zenon DEF Credited
      <3>2. \A r \in bought : Cites[r] # t
        BY <2>3 DEF IInv, BoughtIsIgnored
      <3>3. Use[t] = "Nothing"
        BY <2>1, <3>1, <3>2 DEF Use
      <3>4. Use' = [Use EXCEPT ![t] = "Credits"]
        <4>1. bought' = bought /\ entries'[t].dep > 0 /\ \A u \in Transfers : u # t => entries'[u] = entries[u]
          BY <2>1, <3>1
        <4> HIDE DEF t
        <4>2. Use'[t] = "Credits" /\ \A u \in Transfers : u # t => Use'[u] = Use[u]
          BY <2>1, <4>1 DEF Use
        <4> QED
          BY <2>1, <4>2, UseBecomes
      <3> QED
        BY <2>1, <3>3, <3>4 DEF FundingOnce!Next, FundingOnce!Buy, FundingOnce!Uses
    <2> QED
      BY <1>4, <2>2, <2>3, SettleEffect
  <1>5. ASSUME NEW r \in Requests, claim_for_submission(r)
        PROVE  [FundingOnce!Next]_Use
    <2> DEFINE t == Cites[r]
    <2>1. entries' = entries
      BY <1>5 DEF claim_for_submission
    <2>2. CASE bought' = bought
      BY <2>1, <2>2, UseWas
    <2>3. CASE bought' # bought
      <3>1. /\ t \in Transfers /\ entries[t].dep = 0 /\ bought' = bought \cup {r}
            /\ \A q \in bought : Cites[q] # t
        BY <1>5, <2>3, SpendEffect
      <3>2. Use[t] = "Nothing"
        BY <3>1 DEF Use
      <3>3. Use' = [Use EXCEPT ![t] = "Submission"]
        <4>1. Use'[t] = "Submission" /\ \A u \in Transfers : u # t => Use'[u] = Use[u]
          BY <2>1, <3>1 DEF Use
        <4> QED
          BY <2>1, <3>1, <4>1, UseBecomes
      <3> QED
        BY <3>1, <3>2, <3>3 DEF FundingOnce!Next, FundingOnce!Buy, FundingOnce!Uses
    <2> QED
      BY <2>2, <2>3
  <1>6. ASSUME UNCHANGED fundingVars
        PROVE  UNCHANGED Use
    BY <1>6, UseWas DEF fundingVars
  <1> QED
    BY <1>1, <1>2, <1>3, <1>4, <1>5, <1>6 DEF FundingNext, WatcherStep, RequestStep

\* A transfer buys one thing, credits or a submission, and what it bought never changes: the
\* two services that spend transfers implement PaymentOnce (claim_for_submission, _settle).
THEOREM FundingPaysForOneThing == FundingSpec => FundingPaysOnce
  <1>1. FundingInit => FundingOnce!Init
    BY DEF FundingInit, FundingOnce!Init, Use
  <1>2. IInv /\ [FundingNext]_fundingVars => [FundingOnce!Next]_Use
    BY StepPaysOnce
  <1> QED
    BY <1>1, <1>2, FundingInductive, PTL DEF FundingSpec, FundingPaysOnce, FundingOnce!Spec

----------------------------------------------------------------------------
(* Orders of credits, paid through the processor.                          *)

InvoiceStatus == {"none", "created", "pending", "underpaid", "confirmed", "expired", "cancelled"}
InvoiceRec == [kind : Kinds \cup {"none"}, status : InvoiceStatus, lapsed : BOOLEAN, late : BOOLEAN]
EventRec == [of : Orders \cup {"none"}, attempt : 0..MaxAttempts, status : InvoiceStatus, late : BOOLEAN]
OrderRec == [status : Open \cup Paid \cup {"None", "FAILED", "EXPIRED", "CANCELLED"},
             invoice : 0..MaxAttempts, credited : BOOLEAN, review : BOOLEAN]
BuyerRec == [pc : {"Start", "Checked", "Quote", "Answered", "Failing", "Shown", "Failed"}, attempt : OrderAttempts]
Outcomes == {"None", "IGNORED", "UNKNOWN", "SUPERSEDED", "FAILED", "CREDITED", "RECORDED"}

InvoicesType == [Orders -> [OrderAttempts -> InvoiceRec]]
HandlersType == [Webhooks -> [pc : {"Idle", "Loaded"}, seen : OrderRec]]
ReadersType == [Readers -> [pc : {"Idle", "Answered"}, of : Orders \cup {"none"}, seen : OrderRec, answer : InvoiceRec]]

OrderTypes ==
    /\ order \in [Orders -> OrderRec] /\ orderEntries \in [Orders -> [dep : Nat, bonus : Nat]]
    /\ buyer \in [Orders -> BuyerRec] /\ invoice \in InvoicesType
    /\ event \in [Webhooks -> EventRec] /\ delivery \in [Webhooks -> Outcomes]
    /\ handler \in HandlersType /\ reader \in ReadersType /\ redelivered \in 0..MaxRedelivered

\* A quote is asked for once under its number.
BuyerInv ==
    \A o \in Orders, k \in OrderAttempts :
        (k > buyer[o].attempt \/ (k = buyer[o].attempt /\ buyer[o].pc \in {"Start", "Checked", "Quote"}))
            => invoice[o][k] = NoInvoice

LateIsPaid == \A o \in Orders, k \in OrderAttempts : invoice[o][k].late => invoice[o][k].status = "confirmed"

\* What a webhook says was so when it was sent, and nothing was done about one that was not sent.
EventInv ==
    \A e \in Webhooks :
        IF event[e] = NoEvent THEN delivery[e] = "None" /\ handler[e].pc = "Idle"
        ELSE /\ event[e].of \in Orders /\ event[e].attempt \in OrderAttempts
             /\ event[e].late => event[e].status = "confirmed"
             /\ event[e].status = "confirmed" => invoice[event[e].of][event[e].attempt].status = "confirmed"

\* Credits that a session has seen are there, and so is a payment it was told of.
HandlerInv ==
    \A e \in Webhooks : handler[e].pc = "Loaded" => (handler[e].seen.credited => order[event[e].of].credited)

PaidOnce(o) == \E k \in OrderAttempts : invoice[o][k].status = "confirmed"

ReaderInv ==
    \A p \in Readers : reader[p].pc = "Answered" =>
        /\ reader[p].of \in Orders
        /\ reader[p].seen.credited => order[reader[p].of].credited
        /\ reader[p].answer.late => reader[p].answer.status = "confirmed"
        /\ reader[p].answer.status = "confirmed" => PaidOnce(reader[p].of)

OrderIInv ==
    /\ OrderTypes /\ BuyerInv /\ LateIsPaid /\ EventInv /\ HandlerInv /\ ReaderInv
    /\ OrderCreditedOnce /\ PaidReportIsKept /\ CreditedWasPaid

Entries == [Orders -> [dep : Nat, bonus : Nat]]
Confirmed(o, k) == invoice[o][k].status = "confirmed"

\* A webhook is sent about an invoice, which is as it says.
Announced(o, k, status, late) ==
    /\ Send(o, k, status, late)
    /\ late => status = "confirmed"
    /\ status = "confirmed" => invoice'[o][k].status = "confirmed"

\* Nobody takes credits or a request for a review away.
OrdersGoOn ==
    \A o \in Orders : /\ order[o].credited => order'[o].credited
                      /\ order[o].review => order'[o].review
-----------------------------------------------------------------------------
(* What a step may change.                                                 *)

\* The request moves its order on, and no session credits anything.
LEMMA QuietOrders ==
  ASSUME OrderIInv, order' \in [Orders -> OrderRec], buyer' \in [Orders -> BuyerRec], BuyerInv', OrdersGoOn,
         \A o \in Orders : order'[o].credited = order[o].credited,
         UNCHANGED <<orderEntries, invoice, event, delivery, handler, reader, redelivered>>
  PROVE  OrderIInv'
  <1>1. OrderTypes'
    BY DEF OrderIInv, OrderTypes, InvoicesType, HandlersType, ReadersType
  <1>2. LateIsPaid' /\ EventInv'
    BY DEF OrderIInv, LateIsPaid, EventInv
  <1>3. HandlerInv'
    BY DEF OrderIInv, HandlerInv, EventInv, OrdersGoOn, OrderTypes, HandlersType
  <1>4. ReaderInv'
    BY DEF OrderIInv, ReaderInv, OrdersGoOn, PaidOnce
  <1>5. OrderCreditedOnce' /\ CreditedWasPaid'
    BY DEF OrderIInv, OrderCreditedOnce, CreditedWasPaid
  <1>6. PaidReportIsKept'
    BY DEF OrderIInv, PaidReportIsKept, EventInv, OrdersGoOn
  <1> QED
    BY <1>1, <1>2, <1>3, <1>4, <1>5, <1>6 DEF OrderIInv

\* The processor's invoices change, and a webhook may be sent.
LEMMA InvoicesChange ==
  ASSUME OrderIInv, invoice' \in InvoicesType, LateIsPaid', buyer' \in [Orders -> BuyerRec], BuyerInv',
         \A o \in Orders, k \in OrderAttempts : Confirmed(o, k) => Confirmed(o, k)',
         \/ event' = event
         \/ \E o \in Orders, k \in OrderAttempts, status \in InvoiceStatus, late \in BOOLEAN :
               Announced(o, k, status, late),
         UNCHANGED <<order, orderEntries, delivery, handler, reader, redelivered>>
  PROVE  OrderIInv'
  <1>1. /\ event' \in [Webhooks -> EventRec]
        /\ \A e \in Webhooks : \/ event'[e] = event[e]
                               \/ /\ event[e] = NoEvent /\ event'[e].of \in Orders
                                  /\ event'[e].attempt \in OrderAttempts
                                  /\ event'[e].late => event'[e].status = "confirmed"
                                  /\ event'[e].status = "confirmed" => invoice'[event'[e].of][event'[e].attempt].status = "confirmed"
    <2>1. event \in [Webhooks -> EventRec]
      BY DEF OrderIInv, OrderTypes
    <2>2. CASE event' = event
      BY <2>1, <2>2
    <2>3. ASSUME NEW o \in Orders, NEW k \in OrderAttempts, NEW status \in InvoiceStatus, NEW late \in BOOLEAN,
                 Announced(o, k, status, late)
          PROVE  <1>1!1 /\ <1>1!2
      <3> DEFINE sent == [of |-> o, attempt |-> k, status |-> status, late |-> late]
      <3>1. sent \in EventRec /\ sent.of = o /\ sent.attempt = k /\ sent.status = status /\ sent.late = late
        BY OrderConstants DEF EventRec, OrderAttempts
      <3>2. PICK e \in Webhooks : event[e] = NoEvent /\ event' = [event EXCEPT ![e] = sent]
        BY <2>3 DEF Send, Announced
      <3> HIDE DEF sent
      <3>3. event' \in [Webhooks -> EventRec]
        BY ONLY <2>1, <3>1, <3>2
      <3>4. event'[e] = sent /\ \A f \in Webhooks : f # e => event'[f] = event[f]
        BY ONLY <2>1, <3>2
      <3>5. sent.status = "confirmed" => invoice'[sent.of][sent.attempt].status = "confirmed"
        BY <2>3, <3>1 DEF Announced
      <3> QED
        BY <2>3, <3>1, <3>2, <3>3, <3>4, <3>5 DEF Announced
    <2> QED
      BY <2>2, <2>3
  <1>2. OrderTypes'
    BY <1>1 DEF OrderIInv, OrderTypes, HandlersType, ReadersType
  <1>3. EventInv'
    <2> SUFFICES ASSUME NEW e \in Webhooks
                 PROVE  IF event'[e] = NoEvent THEN delivery[e] = "None" /\ handler[e].pc = "Idle"
                        ELSE /\ event'[e].of \in Orders /\ event'[e].attempt \in OrderAttempts
                             /\ event'[e].late => event'[e].status = "confirmed"
                             /\ event'[e].status = "confirmed" => invoice'[event'[e].of][event'[e].attempt].status = "confirmed"
      BY DEF EventInv, NoEvent
    <2>1. CASE event'[e] = event[e]
      BY <2>1 DEF OrderIInv, EventInv, Confirmed
    <2>2. CASE event'[e] # event[e]
      BY <1>1, <2>2 DEF OrderIInv, EventInv
    <2> QED
      BY <2>1, <2>2
  <1>4. \A e \in Webhooks : delivery[e] # "None" \/ handler[e].pc = "Loaded" => event'[e] = event[e]
    BY <1>1 DEF OrderIInv, EventInv
  <1>5. HandlerInv' /\ PaidReportIsKept'
    BY <1>4 DEF OrderIInv, HandlerInv, PaidReportIsKept
  <1>6. ReaderInv' /\ CreditedWasPaid'
    BY DEF OrderIInv, ReaderInv, CreditedWasPaid, PaidOnce, Confirmed
  <1>7. OrderCreditedOnce'
    BY DEF OrderIInv, OrderCreditedOnce
  <1> QED
    BY <1>2, <1>3, <1>5, <1>6, <1>7 DEF OrderIInv

\* A handler of a webhook writes what it knows and answers.
LEMMA WebhookAnswered ==
  ASSUME OrderIInv, NEW e \in Webhooks, event[e] # NoEvent,
         order' \in [Orders -> OrderRec], orderEntries' \in Entries, OrdersGoOn,
         OrderCreditedOnce', CreditedWasPaid',
         delivery' \in [Webhooks -> Outcomes], handler' \in HandlersType,
         \A f \in Webhooks : f # e => delivery'[f] = delivery[f] /\ handler'[f] = handler[f],
         handler'[e].pc = "Loaded" /\ handler'[e].seen.credited => order'[event[e].of].credited,
         delivery'[e] \in {"RECORDED", "SUPERSEDED", "CREDITED", "FAILED"} /\ event[e].status = "confirmed"
             => order'[event[e].of].credited \/ order'[event[e].of].review,
         redelivered' \in 0..MaxRedelivered, UNCHANGED <<buyer, invoice, event, reader>>
  PROVE  OrderIInv'
  <1>1. OrderTypes'
    BY DEF OrderIInv, OrderTypes, Entries, InvoicesType, ReadersType
  <1>2. BuyerInv' /\ LateIsPaid'
    BY DEF OrderIInv, BuyerInv, LateIsPaid
  <1>3. EventInv'
    BY DEF OrderIInv, EventInv
  <1>4. HandlerInv'
    BY DEF OrderIInv, HandlerInv, EventInv, OrdersGoOn
  <1>5. ReaderInv'
    BY DEF OrderIInv, ReaderInv, OrdersGoOn, PaidOnce
  <1>6. PaidReportIsKept'
    <2> SUFFICES ASSUME NEW f \in Webhooks,
                        delivery'[f] \in {"RECORDED", "SUPERSEDED", "CREDITED", "FAILED"},
                        event[f].status = "confirmed"
                 PROVE  order'[event[f].of].credited \/ order'[event[f].of].review
      BY DEF PaidReportIsKept
    <2>1. CASE f = e
      BY <2>1
    <2>2. CASE f # e
      BY <2>2 DEF OrderIInv, PaidReportIsKept, EventInv, OrdersGoOn
    <2> QED
      BY <2>1, <2>2
  <1> QED
    BY <1>1, <1>2, <1>3, <1>4, <1>5, <1>6 DEF OrderIInv

\* A reader asks, or applies what it was answered.
LEMMA ReaderMoves ==
  ASSUME OrderIInv, NEW p \in Readers,
         order' \in [Orders -> OrderRec], orderEntries' \in Entries, OrdersGoOn,
         OrderCreditedOnce', CreditedWasPaid', reader' \in ReadersType,
         \A q \in Readers : q # p => reader'[q] = reader[q],
         reader'[p].pc = "Answered" =>
             /\ reader'[p].of \in Orders
             /\ reader'[p].seen.credited => order'[reader'[p].of].credited
             /\ reader'[p].answer.late => reader'[p].answer.status = "confirmed"
             /\ reader'[p].answer.status = "confirmed" => PaidOnce(reader'[p].of),
         UNCHANGED <<buyer, invoice, event, delivery, handler, redelivered>>
  PROVE  OrderIInv'
  <1>1. OrderTypes'
    BY DEF OrderIInv, OrderTypes, Entries, InvoicesType, HandlersType
  <1>2. BuyerInv' /\ LateIsPaid' /\ EventInv'
    BY DEF OrderIInv, BuyerInv, LateIsPaid, EventInv
  <1>3. HandlerInv' /\ PaidReportIsKept'
    BY DEF OrderIInv, HandlerInv, PaidReportIsKept, EventInv, OrdersGoOn, OrderTypes, HandlersType
  <1>4. ReaderInv'
    BY DEF OrderIInv, ReaderInv, OrdersGoOn, PaidOnce
  <1> QED
    BY <1>1, <1>2, <1>3, <1>4 DEF OrderIInv
-----------------------------------------------------------------------------
(* apply_invoice.                                                          *)

\* Credited is only what nobody had credited, and a payment that is not credited asks for a review.
LEMMA ApplyKeeps ==
  ASSUME OrderIInv, NEW o \in Orders, NEW seen \in OrderRec, NEW stored \in OrderRec,
         NEW status \in InvoiceStatus, NEW late \in BOOLEAN,
         stored.credited = order[o].credited, order[o].review => stored.review,
         seen.credited => order[o].credited,
         late => status = "confirmed", status = "confirmed" => PaidOnce(o),
         apply_invoice(o, seen, stored, status, late), UNCHANGED invoice
  PROVE  /\ order' \in [Orders -> OrderRec] /\ orderEntries' \in Entries /\ OrdersGoOn
         /\ OrderCreditedOnce' /\ CreditedWasPaid'
         /\ status = "confirmed" =>
               \/ order'[o].credited \/ order'[o].review
               \/ /\ credits_are_earned(status, late) /\ ~seen.credited /\ ~Settles(o, seen)
                  /\ UNCHANGED <<order, orderEntries>>
  <1> DEFINE earned == credits_are_earned(status, late)
             st == State(status, late)
             review == NeedsReview(status, late)
             written == Write(stored, seen, st, review)
             recorded == record_status(stored, seen, st, review)
             credits == [dep |-> orderEntries[o].dep + 1,
                         bonus |-> orderEntries[o].bonus + IF o \in PackageOrders THEN 1 ELSE 0]
  <1>1. /\ order \in [Orders -> OrderRec] /\ orderEntries \in Entries
        /\ order[o] \in OrderRec /\ orderEntries[o].dep \in Nat /\ orderEntries[o].bonus \in Nat
    BY DEF OrderIInv, OrderTypes, Entries
  <1>2. st \in Open \cup Paid \cup {"EXPIRED", "CANCELLED"} /\ review \in BOOLEAN
    BY DEF State, NeedsReview, Open, Paid, InvoiceStatus
  <1>3. /\ written \in OrderRec /\ written.credited = stored.credited
        /\ (stored.review \/ review) => written.review
    BY <1>2 DEF Write, OrderRec
  <1>4. /\ recorded \in OrderRec /\ recorded.credited = stored.credited
        /\ stored.review => recorded.review
        /\ seen.credited \/ (review => recorded.review)
    BY <1>3 DEF record_status, OrderRec
  <1>5. CASE earned /\ ~seen.credited /\ Settles(o, seen)
    <2> DEFINE paid == [written EXCEPT !.credited = TRUE]
    <2>1. /\ orderEntries' = [orderEntries EXCEPT ![o] = credits]
          /\ order' = [order EXCEPT ![o] = paid]
      BY <1>5 DEF apply_invoice
    <2>2. /\ paid \in OrderRec /\ paid.credited /\ (stored.review => paid.review)
      BY <1>3 DEF OrderRec
    <2>3. credits \in [dep : Nat, bonus : Nat] /\ credits.dep = orderEntries[o].dep + 1
          /\ credits.bonus = orderEntries[o].bonus + IF o \in PackageOrders THEN 1 ELSE 0
      BY <1>1
    <2>4. orderEntries[o].dep = 0
      BY <1>5 DEF Settles, EntryFree
    <2>5. status = "confirmed"
      BY <1>5 DEF credits_are_earned
    <2> HIDE DEF paid, credits
    <2>6. /\ order'[o] = paid /\ \A q \in Orders : q # o => order'[q] = order[q]
          /\ orderEntries'[o] = credits /\ \A q \in Orders : q # o => orderEntries'[q] = orderEntries[q]
          /\ order' \in [Orders -> OrderRec] /\ orderEntries' \in Entries
      BY ONLY <1>1, <2>1, <2>2, <2>3 DEF Entries
    <2>7. OrderCreditedOnce'
      BY <2>2, <2>3, <2>4, <2>6 DEF OrderIInv, OrderCreditedOnce
    <2>8. CreditedWasPaid'
      BY <2>5, <2>6 DEF OrderIInv, CreditedWasPaid, PaidOnce
    <2> QED
      BY <2>2, <2>6, <2>7, <2>8 DEF OrdersGoOn
  <1>6. CASE earned /\ ~seen.credited /\ ~Settles(o, seen)
    <2>1. UNCHANGED <<order, orderEntries>>
      BY <1>6 DEF apply_invoice
    <2> QED
      BY <1>1, <1>6, <2>1 DEF OrderIInv, OrderCreditedOnce, CreditedWasPaid, OrdersGoOn
  <1>7. CASE ~earned \/ seen.credited
    <2>1. order' = [order EXCEPT ![o] = recorded] /\ UNCHANGED orderEntries
      BY <1>7 DEF apply_invoice
    <2>2. status = "confirmed" => recorded.credited \/ recorded.review
      <3>1. CASE seen.credited
        BY <1>4, <3>1
      <3>2. CASE ~seen.credited /\ status = "confirmed"
        BY <1>4, <1>7, <3>2 DEF credits_are_earned, NeedsReview
      <3> QED
        BY <3>1, <3>2
    <2> HIDE DEF recorded
    <2>3. /\ order'[o] = recorded /\ \A q \in Orders : q # o => order'[q] = order[q]
          /\ order' \in [Orders -> OrderRec]
      BY ONLY <1>1, <1>4, <2>1
    <2>4. OrderCreditedOnce'
      BY <1>4, <2>1, <2>3 DEF OrderIInv, OrderCreditedOnce
    <2>5. CreditedWasPaid'
      BY <1>4, <2>3 DEF OrderIInv, CreditedWasPaid
    <2> QED
      BY <1>1, <1>4, <2>1, <2>2, <2>3, <2>4, <2>5 DEF OrdersGoOn
  <1> QED
    BY <1>5, <1>6, <1>7
-----------------------------------------------------------------------------
(* The steps.                                                              *)

LEMMA OrdersInitHolds == OrdersInit => OrderIInv
  <1> SUFFICES ASSUME OrdersInit PROVE OrderIInv
    OBVIOUS
  <1>1. OrderTypes
    BY OrderConstants DEF OrdersInit, OrderTypes, OrderRec, BuyerRec, InvoicesType, InvoiceRec, InvoiceStatus, EventRec,
       HandlersType, ReadersType, Outcomes, NoInvoice, NoEvent, NoOrder, IdleHandler, IdleReader, OrderAttempts
  <1>2. BuyerInv /\ LateIsPaid
    BY DEF OrdersInit, BuyerInv, LateIsPaid, NoInvoice
  <1>3. EventInv /\ HandlerInv /\ ReaderInv
    BY DEF OrdersInit, EventInv, HandlerInv, ReaderInv, IdleHandler, IdleReader
  <1>4. OrderCreditedOnce /\ PaidReportIsKept /\ CreditedWasPaid
    BY DEF OrdersInit, OrderCreditedOnce, PaidReportIsKept, CreditedWasPaid, NoOrder
  <1> QED
    BY <1>1, <1>2, <1>3, <1>4 DEF OrderIInv

\* The request without the processor.
LEMMA BuyerKeeps ==
  ASSUME OrderIInv, NEW o \in Orders,
         \/ CheckPurchase(o) \/ create_order(o) \/ attach_invoice(o) \/ Reprice(o)
         \/ \E unexpected \in BOOLEAN : fail_order(o, unexpected)
  PROVE  OrderIInv'
  <1>1. /\ order \in [Orders -> OrderRec] /\ buyer \in [Orders -> BuyerRec] /\ order[o] \in OrderRec
        /\ buyer[o] \in BuyerRec /\ buyer[o].attempt \in OrderAttempts /\ buyer[o].attempt \in 1..MaxAttempts
    BY DEF OrderIInv, OrderTypes, BuyerRec, OrderAttempts
  <1>2. /\ order' \in [Orders -> OrderRec]
        /\ \A q \in Orders : order'[q].credited = order[q].credited /\ order'[q].review = order[q].review
    <2>1. CASE CheckPurchase(o) \/ Reprice(o)
      BY <1>1, <2>1 DEF CheckPurchase, Reprice
    <2>2. CASE create_order(o)
      BY <1>1, <2>2 DEF create_order, OrderRec, Open
    <2>3. ASSUME NEW unexpected \in BOOLEAN, fail_order(o, unexpected) PROVE <1>2
      BY <1>1, <2>3 DEF fail_order, OrderRec
    <2>4. CASE attach_invoice(o)
      <3> DEFINE half == [order EXCEPT ![o].invoice = buyer[o].attempt]
      <3>1. order' = [half EXCEPT ![o].status = "CREATED"]
        BY <2>4, Zenon DEF attach_invoice
      <3>2. buyer[o].attempt \in 0..MaxAttempts
        BY <1>1, OrderConstants
      <3>3. /\ half \in [Orders -> OrderRec]
            /\ \A q \in Orders : half[q].credited = order[q].credited /\ half[q].review = order[q].review
        BY <1>1, <3>2 DEF OrderRec
      <3> HIDE DEF half
      <3> QED
        BY <3>1, <3>3 DEF OrderRec, Open
    <2> QED
      BY <2>1, <2>2, <2>3, <2>4
  <1>3. /\ buyer' \in [Orders -> BuyerRec]
        /\ \A q \in Orders : q # o => buyer'[q] = buyer[q]
        /\ buyer'[o].attempt \in OrderAttempts /\ buyer'[o].attempt >= buyer[o].attempt
        /\ buyer'[o].pc \in {"Start", "Checked", "Quote"} =>
               buyer'[o].attempt > buyer[o].attempt \/ buyer[o].pc \in {"Start", "Checked", "Quote"}
    <2>1. CASE CheckPurchase(o)
      BY <1>1, <2>1 DEF CheckPurchase, BuyerRec, OrderAttempts
    <2>2. CASE create_order(o)
      BY <1>1, <2>2 DEF create_order, BuyerRec, OrderAttempts
    <2>3. ASSUME NEW unexpected \in BOOLEAN, fail_order(o, unexpected) PROVE <1>3
      BY <1>1, <2>3 DEF fail_order, BuyerRec, OrderAttempts
    <2>4. CASE attach_invoice(o)
      BY <1>1, <2>4 DEF attach_invoice, BuyerRec, OrderAttempts
    <2>5. CASE Reprice(o)
      BY <1>1, <2>5, OrderConstants DEF Reprice, BuyerRec, OrderAttempts
    <2> QED
      BY <2>1, <2>2, <2>3, <2>4, <2>5
  <1>4. UNCHANGED <<orderEntries, invoice, event, delivery, handler, reader, redelivered>>
    BY DEF CheckPurchase, create_order, attach_invoice, Reprice, fail_order
  <1>5. BuyerInv'
    <2>1. \A k \in OrderAttempts : k \in Nat
      BY DEF OrderAttempts
    <2> QED
      BY <1>1, <1>3, <1>4, <2>1 DEF OrderIInv, BuyerInv
  <1> QED
    BY <1>2, <1>3, <1>4, <1>5, QuietOrders DEF OrdersGoOn
LEMMA InvoiceStepKeeps ==
  ASSUME OrderIInv, NEW o \in Orders, NEW k \in OrderAttempts,
         \/ create_invoice(o) \/ Lapse(o, k) \/ CreatedEvent(o, k)
         \/ \E s \in {"pending", "underpaid", "confirmed", "expired", "cancelled"} : InvoiceMoves(o, k, s)
  PROVE  OrderIInv'
  <1>1. /\ invoice \in InvoicesType /\ buyer \in [Orders -> BuyerRec] /\ buyer[o] \in BuyerRec
        /\ invoice[o] \in [OrderAttempts -> InvoiceRec] /\ invoice[o][k] \in InvoiceRec
        /\ buyer[o].attempt \in OrderAttempts
    BY DEF OrderIInv, OrderTypes, BuyerRec, InvoicesType
  <1>2. ASSUME NEW j \in OrderAttempts, NEW new \in InvoiceRec, invoice' = [invoice EXCEPT ![o][j] = new]
        PROVE  /\ invoice' \in InvoicesType /\ invoice'[o][j] = new
               /\ \A q \in Orders, i \in OrderAttempts : q # o \/ i # j => invoice'[q][i] = invoice[q][i]
    BY ONLY <1>1, <1>2 DEF InvoicesType
  <1>3. CASE create_invoice(o)
    <2> DEFINE j == buyer[o].attempt
    <2>1. PICK pc \in {"Answered", "Failing"} : buyer' = [buyer EXCEPT ![o].pc = pc]
      BY <1>3 DEF create_invoice
    <2>2. /\ buyer' \in [Orders -> BuyerRec] /\ buyer'[o].attempt = j /\ buyer'[o].pc = pc
          /\ \A q \in Orders : q # o => buyer'[q] = buyer[q]
      BY <1>1, <2>1 DEF BuyerRec
    <2>3. UNCHANGED <<order, orderEntries, event, delivery, handler, reader, redelivered>>
      BY <1>3 DEF create_invoice
    <2>4. invoice[o][j] = NoInvoice
      BY <1>1, <1>3 DEF create_invoice, OrderIInv, BuyerInv
    <2>5. /\ invoice' \in InvoicesType
          /\ \A q \in Orders, i \in OrderAttempts : q # o \/ i # j => invoice'[q][i] = invoice[q][i]
          /\ ~invoice'[o][j].late
      <3>1. CASE invoice' = invoice
        BY <1>1, <2>4, <3>1 DEF NoInvoice
      <3>2. CASE invoice' # invoice
        <4>1. PICK kind \in Kinds : invoice' = [invoice EXCEPT ![o][j] = [kind |-> kind, status |-> "created",
                                                                      lapsed |-> FALSE, late |-> FALSE]]
          BY <1>3, <3>2 DEF create_invoice
        <4> DEFINE new == [kind |-> kind, status |-> "created", lapsed |-> FALSE, late |-> FALSE]
        <4>2. new \in InvoiceRec /\ ~new.late
          BY DEF InvoiceRec, InvoiceStatus
        <4> HIDE DEF new, j
        <4> QED
          BY <1>1, <1>2, <4>1, <4>2 DEF new, j
      <3> QED
        BY <3>1, <3>2
    <2>6. \A q \in Orders, i \in OrderAttempts : Confirmed(q, i) => Confirmed(q, i)'
      BY <2>4, <2>5 DEF Confirmed, NoInvoice
    <2>7. LateIsPaid'
      BY <2>5 DEF OrderIInv, LateIsPaid
    <2>8. BuyerInv'
      <3>1. \A i \in OrderAttempts : i \in Nat
        BY DEF OrderAttempts
      <3> QED
        BY <1>1, <2>2, <2>5, <3>1 DEF OrderIInv, BuyerInv
    <2> QED
      BY <2>2, <2>3, <2>5, <2>6, <2>7, <2>8, InvoicesChange
  <1>4. CASE CreatedEvent(o, k)
    <2>1. /\ Send(o, k, "created", FALSE)
          /\ UNCHANGED <<order, orderEntries, buyer, invoice, delivery, handler, reader, redelivered>>
      BY <1>4 DEF CreatedEvent
    <2>2. BuyerInv' /\ LateIsPaid'
      BY <2>1 DEF OrderIInv, BuyerInv, LateIsPaid
    <2>3. Announced(o, k, "created", FALSE) /\ "created" \in InvoiceStatus
      BY <2>1 DEF InvoiceStatus, Announced
    <2>4. /\ invoice' \in InvoicesType /\ buyer' \in [Orders -> BuyerRec]
          /\ \A p \in Orders, i \in OrderAttempts : Confirmed(p, i) => Confirmed(p, i)'
      BY <1>1, <2>1 DEF Confirmed
    <2>5. UNCHANGED <<order, orderEntries, delivery, handler, reader, redelivered>>
      BY <2>1
    <2> QED
      BY ONLY OrderIInv, <2>2, <2>3, <2>4, <2>5, InvoicesChange
  <1>5. CASE Lapse(o, k)
    <2> DEFINE new == [invoice[o][k] EXCEPT !.lapsed = TRUE]
    <2>1. /\ invoice' = [invoice EXCEPT ![o][k] = new] /\ invoice[o][k] # NoInvoice
          /\ UNCHANGED <<order, orderEntries, buyer, event, delivery, handler, reader, redelivered>>
      BY <1>5, Zenon DEF Lapse
    <2>2. new \in InvoiceRec /\ new.status = invoice[o][k].status /\ new.late = invoice[o][k].late
      BY <1>1 DEF InvoiceRec
    <2> HIDE DEF new
    <2>3. /\ invoice' \in InvoicesType /\ invoice'[o][k] = new
          /\ \A q \in Orders, i \in OrderAttempts : q # o \/ i # k => invoice'[q][i] = invoice[q][i]
      BY <1>2, <2>1, <2>2
    <2>4. BuyerInv'
      BY <2>1, <2>3 DEF OrderIInv, BuyerInv
    <2>5. LateIsPaid' /\ \A q \in Orders, i \in OrderAttempts : Confirmed(q, i) => Confirmed(q, i)'
      BY <2>2, <2>3 DEF OrderIInv, LateIsPaid, Confirmed
    <2> QED
      BY <1>1, <2>1, <2>3, <2>4, <2>5, InvoicesChange
  <1>6. ASSUME NEW s \in {"pending", "underpaid", "confirmed", "expired", "cancelled"}, InvoiceMoves(o, k, s)
        PROVE  OrderIInv'
    <2> DEFINE isLate == (s = "confirmed" /\ invoice[o][k].lapsed)
    <2>1. /\ s \in Moves(invoice[o][k])
          /\ UNCHANGED <<order, orderEntries, buyer, delivery, handler, reader, redelivered>>
          /\ Send(o, k, s, isLate) \/ event' = event
      BY <1>6 DEF InvoiceMoves
    <2>3. invoice[o][k].status \notin {"none", "confirmed"}
      BY <2>1 DEF Moves
    <2>4. isLate \in BOOLEAN /\ (isLate => s = "confirmed") /\ s \in InvoiceStatus
      BY DEF InvoiceStatus
    <2>6. /\ invoice' \in InvoicesType /\ invoice'[o][k].status = s /\ invoice'[o][k].late = isLate
          /\ \A q \in Orders, i \in OrderAttempts : q # o \/ i # k => invoice'[q][i] = invoice[q][i]
      <3> DEFINE half == [invoice EXCEPT ![o][k].status = s]
      <3>1. invoice' = [half EXCEPT ![o][k].late = isLate]
        BY <1>6, Zenon DEF InvoiceMoves
      <3>2. /\ half \in InvoicesType /\ half[o][k].status = s
            /\ \A q \in Orders, i \in OrderAttempts : q # o \/ i # k => half[q][i] = invoice[q][i]
        BY <1>1, <2>4 DEF InvoicesType, InvoiceRec
      <3> HIDE DEF half, isLate
      <3>3. half[o] \in [OrderAttempts -> InvoiceRec] /\ half[o][k] \in InvoiceRec
        BY <3>2 DEF InvoicesType
      <3> DEFINE new == [half[o][k] EXCEPT !.late = isLate]
      <3>4. new \in InvoiceRec /\ new.status = s /\ new.late = isLate
        BY <2>4, <3>2, <3>3 DEF InvoiceRec
      <3>5. invoice' = [half EXCEPT ![o][k] = new]
        BY <3>1, Zenon
      <3> HIDE DEF new
      <3>6. /\ invoice' \in InvoicesType /\ invoice'[o][k] = new
            /\ \A q \in Orders, i \in OrderAttempts : q # o \/ i # k => invoice'[q][i] = half[q][i]
        BY ONLY <3>2, <3>3, <3>4, <3>5 DEF InvoicesType
      <3> QED
        BY <3>2, <3>4, <3>6
    <2> HIDE DEF isLate
    <2>7. BuyerInv'
      BY <2>1, <2>3, <2>6 DEF OrderIInv, BuyerInv, NoInvoice
    <2>8. LateIsPaid' /\ \A q \in Orders, i \in OrderAttempts : Confirmed(q, i) => Confirmed(q, i)'
      BY <2>3, <2>4, <2>6 DEF OrderIInv, LateIsPaid, Confirmed
    <2>9. Announced(o, k, s, isLate) \/ event' = event
      BY <2>1, <2>4, <2>6 DEF Announced
    <2> QED
      BY <1>1, <2>1, <2>4, <2>6, <2>7, <2>8, <2>9, InvoicesChange
  <1> QED
    BY <1>3, <1>4, <1>5, <1>6
LEMMA HandlerDone ==
  ASSUME NEW e \in Webhooks, NEW d \in Outcomes, Done(e, d),
         handler \in HandlersType, delivery \in [Webhooks -> Outcomes]
  PROVE  /\ delivery' \in [Webhooks -> Outcomes] /\ handler' \in HandlersType
         /\ \A f \in Webhooks : f # e => delivery'[f] = delivery[f] /\ handler'[f] = handler[f]
         /\ delivery'[e] = d /\ handler'[e] = IdleHandler /\ IdleHandler.pc # "Loaded"
  <1>1. NoOrder \in OrderRec
    BY OrderConstants DEF NoOrder, OrderRec
  <1>2. IdleHandler \in [pc : {"Idle", "Loaded"}, seen : OrderRec] /\ IdleHandler.pc # "Loaded"
    BY <1>1 DEF IdleHandler
  <1>3. delivery' = [delivery EXCEPT ![e] = d] /\ handler' = [handler EXCEPT ![e] = IdleHandler]
    BY DEF Done
  <1> QED
    BY <1>2, <1>3 DEF HandlersType

\* A handler decides on the order it loaded and on what its webhook says.
LEMMA ReceiveKeeps ==
  ASSUME OrderIInv, NEW e \in Webhooks, receive_webhook(e)
  PROVE  OrderIInv'
  <1> DEFINE o == event[e].of
             k == event[e].attempt
             seen == handler[e].seen
             attached == [seen EXCEPT !.invoice = k, !.status = State(event[e].status, FALSE)]
             stored == [order[o] EXCEPT !.invoice = k, !.status = attached.status]
             outcome == delivery'[e]
             kept == event[e].status = "confirmed" => order'[o].credited \/ order'[o].review
  <1>1. /\ handler[e].pc = "Loaded" /\ UNCHANGED <<buyer, invoice, event, reader, redelivered>>
        /\ handler \in HandlersType /\ delivery \in [Webhooks -> Outcomes]
        /\ seen \in OrderRec /\ event[e] \in EventRec /\ order \in [Orders -> OrderRec]
        /\ orderEntries \in Entries /\ redelivered \in 0..MaxRedelivered
    BY DEF receive_webhook, OrderIInv, OrderTypes, HandlersType, Entries
  <1>2. /\ event[e] # NoEvent /\ o \in Orders /\ k \in OrderAttempts /\ order[o] \in OrderRec
        /\ event[e].status \in InvoiceStatus /\ event[e].late \in BOOLEAN
        /\ event[e].late => event[e].status = "confirmed"
        /\ event[e].status = "confirmed" => PaidOnce(o)
        /\ seen.credited => order[o].credited
    BY <1>1 DEF OrderIInv, EventInv, HandlerInv, EventRec, PaidOnce
  <1>3. CASE _superseded(e)
    <2>1. /\ order' = [order EXCEPT ![o].review = @ \/ event[e].status \notin {"created", "expired", "cancelled"}]
          /\ UNCHANGED orderEntries /\ Done(e, "SUPERSEDED")
      BY <1>3 DEF _superseded
    <2>2. /\ order' \in [Orders -> OrderRec] /\ order'[o].credited = order[o].credited
          /\ \A q \in Orders : q # o => order'[q] = order[q]
          /\ order[o].review => order'[o].review
          /\ event[e].status = "confirmed" => order'[o].review
      BY <1>1, <1>2, <2>1 DEF OrderRec
    <2>3. OrderCreditedOnce' /\ CreditedWasPaid' /\ OrdersGoOn
      BY <1>1, <2>1, <2>2 DEF OrderIInv, OrderCreditedOnce, CreditedWasPaid, OrdersGoOn
    <2>4. "SUPERSEDED" \in Outcomes
      BY DEF Outcomes
    <2> HIDE DEF o, k, seen, attached, stored
    <2> QED
      BY <1>1, <1>2, <2>1, <2>2, <2>3, <2>4, HandlerDone, WebhookAnswered DEF o
  <1>4. CASE /\ apply_invoice(o, attached, stored, event[e].status, event[e].late)
             /\ Done(e, IF order' = order THEN "None"
                        ELSE IF orderEntries' # orderEntries THEN "CREDITED" ELSE "RECORDED")
    <2>1. State(event[e].status, FALSE) \in Open \cup Paid \cup {"EXPIRED", "CANCELLED"} /\ k \in 0..MaxAttempts
      BY <1>2, OrderConstants DEF State, Open, Paid, OrderAttempts
    <2>2. attached \in OrderRec /\ attached.credited = seen.credited /\ attached.status \in Open \cup Paid \cup {"EXPIRED", "CANCELLED"}
      BY <1>1, <2>1 DEF OrderRec
    <2>3. stored \in OrderRec /\ stored.credited = order[o].credited /\ stored.review = order[o].review
      BY <1>2, <2>1, <2>2 DEF OrderRec
    <2> HIDE DEF o, k, seen, attached, stored
    <2>4. /\ order' \in [Orders -> OrderRec] /\ orderEntries' \in Entries /\ OrdersGoOn
          /\ OrderCreditedOnce' /\ CreditedWasPaid'
          /\ event[e].status = "confirmed" => order'[o].credited \/ order'[o].review \/ UNCHANGED order
      BY <1>1, <1>2, <1>4, <2>2, <2>3, ApplyKeeps
    <2>5. PICK d \in {"None", "CREDITED", "RECORDED"} : Done(e, d) /\ (UNCHANGED order => d = "None")
      BY <1>4
    <2>6. d \in Outcomes
      BY DEF Outcomes
    <2> QED
      BY <1>1, <1>2, <2>4, <2>5, <2>6, HandlerDone, WebhookAnswered DEF o
  <1>5. CASE /\ apply_invoice(o, seen, order[o], event[e].status, event[e].late)
             /\ Done(e, IF credits_are_earned(event[e].status, event[e].late) /\ ~seen.credited
                        THEN IF Settles(o, seen) THEN "CREDITED" ELSE "None"
                        ELSE "RECORDED")
    <2> HIDE DEF o, k, seen, attached, stored
    <2>1. /\ order' \in [Orders -> OrderRec] /\ orderEntries' \in Entries /\ OrdersGoOn
          /\ OrderCreditedOnce' /\ CreditedWasPaid'
          /\ event[e].status = "confirmed" =>
                \/ order'[o].credited \/ order'[o].review
                \/ credits_are_earned(event[e].status, event[e].late) /\ ~seen.credited /\ ~Settles(o, seen)
      BY <1>1, <1>2, <1>5, ApplyKeeps
    <2>2. PICK d \in {"None", "CREDITED", "RECORDED"} :
             /\ Done(e, d)
             /\ credits_are_earned(event[e].status, event[e].late) /\ ~seen.credited /\ ~Settles(o, seen) => d = "None"
      BY <1>5
    <2>3. d \in Outcomes
      BY DEF Outcomes
    <2> QED
      BY <1>1, <1>2, <2>1, <2>2, <2>3, HandlerDone, WebhookAnswered DEF o
  <1> QED
    BY <1>3, <1>4, <1>5 DEF receive_webhook

LEMMA WebhookKeeps ==
  ASSUME OrderIInv, NEW e \in Webhooks, claim_delivery(e) \/ Redeliver(e) \/ _failed(e)
  PROVE  OrderIInv'
  <1>1. /\ handler \in HandlersType /\ delivery \in [Webhooks -> Outcomes] /\ handler[e].pc \in {"Idle", "Loaded"}
        /\ event[e] \in EventRec /\ order \in [Orders -> OrderRec] /\ orderEntries \in Entries
        /\ redelivered \in 0..MaxRedelivered
    BY DEF OrderIInv, OrderTypes, HandlersType, Entries
  <1>2. event[e] # NoEvent => event[e].of \in Orders /\ order[event[e].of] \in OrderRec
    BY <1>1 DEF OrderIInv, EventInv
  <1>3. ASSUME order' = order, orderEntries' = orderEntries, invoice' = invoice
        PROVE  /\ order' \in [Orders -> OrderRec] /\ orderEntries' \in Entries /\ OrdersGoOn
               /\ OrderCreditedOnce' /\ CreditedWasPaid'
    BY <1>1, <1>3 DEF OrderIInv, OrderCreditedOnce, CreditedWasPaid, OrdersGoOn
  <1>4. CASE claim_delivery(e)
    <2>1. /\ event[e] # NoEvent /\ handler[e].pc = "Idle"
          /\ UNCHANGED <<order, orderEntries, buyer, invoice, event, reader, redelivered>>
      BY <1>4 DEF claim_delivery
    <2>2. CASE UNCHANGED handler /\ \E d \in {"IGNORED", "UNKNOWN"} : delivery' = [delivery EXCEPT ![e] = d]
      <3>1. /\ delivery' \in [Webhooks -> Outcomes] /\ delivery'[e] \in {"IGNORED", "UNKNOWN"}
            /\ \A f \in Webhooks : f # e => delivery'[f] = delivery[f]
        BY <1>1, <2>2 DEF Outcomes
      <3> QED
        BY <1>1, <1>3, <2>1, <2>2, <3>1, WebhookAnswered
    <2>3. CASE UNCHANGED delivery /\ handler' = [handler EXCEPT ![e] = [pc |-> "Loaded", seen |-> order[event[e].of]]]
      <3>1. /\ handler' \in HandlersType /\ handler'[e].seen = order[event[e].of]
            /\ \A f \in Webhooks : f # e => handler'[f] = handler[f]
        BY <1>1, <1>2, <2>1, <2>3 DEF HandlersType
      <3>2. delivery[e] \in {"None", "FAILED"} /\ delivery'[e] = delivery[e]
        BY <1>4, <2>3 DEF claim_delivery
      <3>3. delivery'[e] \in {"RECORDED", "SUPERSEDED", "CREDITED", "FAILED"} /\ event[e].status = "confirmed"
               => order'[event[e].of].credited \/ order'[event[e].of].review
        BY <2>1, <3>2 DEF OrderIInv, PaidReportIsKept
      <3> QED
        BY <1>1, <1>3, <2>1, <2>3, <3>1, <3>3, WebhookAnswered
    <2> QED
      BY <1>4, <2>2, <2>3 DEF claim_delivery
  <1>5. CASE Redeliver(e)
    <2>1. /\ UNCHANGED <<order, orderEntries, buyer, invoice, event, delivery, handler, reader>>
          /\ delivery[e] \notin {"None", "FAILED"} /\ redelivered' = redelivered + 1 /\ redelivered < MaxRedelivered
      BY <1>5 DEF Redeliver
    <2>2. event[e] # NoEvent /\ redelivered' \in 0..MaxRedelivered
      BY <1>1, <2>1, OrderConstants DEF OrderIInv, EventInv
    <2>3. handler'[e].pc = "Loaded" /\ handler'[e].seen.credited => order'[event[e].of].credited
      BY <2>1 DEF OrderIInv, HandlerInv
    <2>4. delivery'[e] \in {"RECORDED", "SUPERSEDED", "CREDITED", "FAILED"} /\ event[e].status = "confirmed"
             => order'[event[e].of].credited \/ order'[event[e].of].review
      BY <2>1 DEF OrderIInv, PaidReportIsKept
    <2> QED
      BY <1>1, <1>3, <2>1, <2>2, <2>3, <2>4, WebhookAnswered
  <1>6. CASE _failed(e)
    <2>1. /\ handler[e].pc = "Loaded" /\ order' = [order EXCEPT ![event[e].of].review = TRUE]
          /\ Done(e, "FAILED") /\ redelivered < MaxRedelivered /\ redelivered' = redelivered + 1
          /\ UNCHANGED <<orderEntries, buyer, invoice, event, reader>>
      BY <1>6 DEF _failed
    <2>2. event[e] # NoEvent /\ redelivered' \in 0..MaxRedelivered
      BY <1>1, <2>1, OrderConstants DEF OrderIInv, EventInv
    <2>3. /\ order' \in [Orders -> OrderRec] /\ order'[event[e].of].review
          /\ order'[event[e].of].credited = order[event[e].of].credited
          /\ \A q \in Orders : q # event[e].of => order'[q] = order[q]
      BY <1>1, <1>2, <2>1, <2>2 DEF OrderRec
    <2>4. OrderCreditedOnce' /\ CreditedWasPaid' /\ OrdersGoOn /\ orderEntries' \in Entries
      BY <1>1, <2>1, <2>3 DEF OrderIInv, OrderCreditedOnce, CreditedWasPaid, OrdersGoOn
    <2>5. /\ delivery' \in [Webhooks -> Outcomes] /\ handler' \in HandlersType /\ handler'[e].pc # "Loaded"
          /\ \A f \in Webhooks : f # e => delivery'[f] = delivery[f] /\ handler'[f] = handler[f]
      BY <1>1, <2>1, HandlerDone DEF Outcomes, IdleHandler
    <2> QED
      BY <2>1, <2>2, <2>3, <2>4, <2>5, WebhookAnswered
  <1> QED
    BY <1>4, <1>5, <1>6
LEMMA ReaderKeeps ==
  ASSUME OrderIInv, NEW p \in Readers,
         ApplyAnswer(p) \/ ReadFails(p) \/ \E o \in Orders : refresh_order(p, o)
  PROVE  OrderIInv'
  <1> DEFINE ReaderRec == [pc : {"Idle", "Answered"}, of : Orders \cup {"none"}, seen : OrderRec, answer : InvoiceRec]
  <1>1. /\ reader \in [Readers -> ReaderRec] /\ reader[p] \in ReaderRec /\ ReadersType = [Readers -> ReaderRec]
        /\ order \in [Orders -> OrderRec] /\ orderEntries \in Entries /\ invoice \in InvoicesType
    BY DEF OrderIInv, OrderTypes, ReadersType, Entries
  <1>2. IdleReader \in ReaderRec /\ IdleReader.pc # "Answered"
    BY OrderConstants DEF IdleReader, NoOrder, OrderRec, NoInvoice, InvoiceRec, InvoiceStatus
  <1>3. ASSUME order' = order, orderEntries' = orderEntries, invoice' = invoice
        PROVE  /\ order' \in [Orders -> OrderRec] /\ orderEntries' \in Entries /\ OrdersGoOn
               /\ OrderCreditedOnce' /\ CreditedWasPaid'
    BY <1>1, <1>3 DEF OrderIInv, OrderCreditedOnce, CreditedWasPaid, OrdersGoOn
  <1>4. ASSUME reader' = [reader EXCEPT ![p] = IdleReader]
        PROVE  /\ reader' \in ReadersType /\ reader'[p].pc # "Answered"
               /\ \A q \in Readers : q # p => reader'[q] = reader[q]
    BY ONLY <1>1, <1>2, <1>4
  <1>5. CASE ReadFails(p)
    <2>1. /\ reader' = [reader EXCEPT ![p] = IdleReader]
          /\ UNCHANGED <<order, orderEntries, buyer, invoice, event, delivery, handler, redelivered>>
      BY <1>5 DEF ReadFails
    <2> QED
      BY <1>3, <1>4, <2>1, ReaderMoves
  <1>6. CASE ApplyAnswer(p)
    <2> DEFINE r == reader[p]
    <2>1. /\ r.pc = "Answered" /\ apply_invoice(r.of, r.seen, order[r.of], r.answer.status, r.answer.late)
          /\ reader' = [reader EXCEPT ![p] = IdleReader]
          /\ UNCHANGED <<buyer, invoice, event, delivery, handler, redelivered>>
      BY <1>6 DEF ApplyAnswer
    <2>2. /\ r.of \in Orders /\ r.seen \in OrderRec /\ order[r.of] \in OrderRec
          /\ r.answer.status \in InvoiceStatus /\ r.answer.late \in BOOLEAN
          /\ r.seen.credited => order[r.of].credited
          /\ r.answer.late => r.answer.status = "confirmed"
          /\ r.answer.status = "confirmed" => PaidOnce(r.of)
      BY <1>1, <2>1 DEF OrderIInv, ReaderInv, InvoiceRec
    <2> HIDE DEF r
    <2>3. /\ order' \in [Orders -> OrderRec] /\ orderEntries' \in Entries /\ OrdersGoOn
          /\ OrderCreditedOnce' /\ CreditedWasPaid'
      BY <2>1, <2>2, ApplyKeeps
    <2> QED
      BY <1>4, <2>1, <2>3, ReaderMoves
  <1>7. ASSUME NEW o \in Orders, refresh_order(p, o)
        PROVE  OrderIInv'
    <2> DEFINE k == order[o].invoice
               asked == [pc |-> "Answered", of |-> o, seen |-> order[o], answer |-> invoice[o][k]]
    <2>1. /\ reader' = [reader EXCEPT ![p] = asked] /\ k # 0
          /\ UNCHANGED <<order, orderEntries, buyer, invoice, event, delivery, handler, redelivered>>
      BY <1>7 DEF refresh_order, _should_refresh
    <2>2. order[o] \in OrderRec /\ k \in OrderAttempts /\ invoice[o][k] \in InvoiceRec
      BY <1>1, <2>1, OrderConstants DEF OrderRec, OrderAttempts, InvoicesType
    <2>3. /\ asked \in ReaderRec /\ asked.of = o /\ asked.seen = order[o] /\ asked.answer = invoice[o][k]
      BY <2>2
    <2>4. /\ invoice[o][k].late => invoice[o][k].status = "confirmed"
          /\ invoice[o][k].status = "confirmed" => PaidOnce(o)
      BY <2>2 DEF OrderIInv, LateIsPaid, PaidOnce
    <2> HIDE DEF asked, k, ReaderRec
    <2>5. /\ reader' \in ReadersType /\ reader'[p] = asked
          /\ \A q \in Readers : q # p => reader'[q] = reader[q]
      BY ONLY <1>1, <2>1, <2>3
    <2>6. /\ reader'[p].of \in Orders
          /\ reader'[p].seen.credited => order'[reader'[p].of].credited
          /\ reader'[p].answer.late => reader'[p].answer.status = "confirmed"
          /\ reader'[p].answer.status = "confirmed" => PaidOnce(reader'[p].of)
      BY <2>1, <2>3, <2>4, <2>5
    <2> QED
      BY <1>3, <2>1, <2>5, <2>6, ReaderMoves
  <1> QED
    BY <1>5, <1>6, <1>7

LEMMA ExpireKeeps ==
  ASSUME OrderIInv, expire_lapsed
  PROVE  OrderIInv'
  <1>1. /\ order \in [Orders -> OrderRec] /\ buyer \in [Orders -> BuyerRec]
        /\ UNCHANGED <<orderEntries, buyer, invoice, event, delivery, handler, reader, redelivered>>
    BY DEF OrderIInv, OrderTypes, expire_lapsed
  <1>2. \A o \in Orders : /\ order[o] \in OrderRec /\ [order[o] EXCEPT !.status = "EXPIRED"] \in OrderRec
                          /\ [order[o] EXCEPT !.status = "EXPIRED"].credited = order[o].credited
                          /\ [order[o] EXCEPT !.status = "EXPIRED"].review = order[o].review
    BY <1>1 DEF OrderRec
  <1>3. /\ order' = [o \in Orders |-> order'[o]]
        /\ \A o \in Orders : order'[o] = order[o] \/ order'[o] = [order[o] EXCEPT !.status = "EXPIRED"]
    BY DEF expire_lapsed
  <1>4. /\ order' \in [Orders -> OrderRec] /\ OrdersGoOn
        /\ \A o \in Orders : order'[o].credited = order[o].credited
    <2>1. \A o \in Orders : /\ order'[o] \in OrderRec /\ order'[o].credited = order[o].credited
                            /\ order'[o].review = order[o].review
      BY <1>2, <1>3
    <2> QED
      BY <1>3, <2>1 DEF OrdersGoOn
  <1>5. BuyerInv'
    BY <1>1 DEF OrderIInv, BuyerInv
  <1> QED
    BY <1>1, <1>4, <1>5, QuietOrders

LEMMA OrdersStepKeeps == OrderIInv /\ [OrdersNext]_orderVars => OrderIInv'
  <1> SUFFICES ASSUME OrderIInv, [OrdersNext]_orderVars PROVE OrderIInv'
    OBVIOUS
  <1>1. ASSUME NEW o \in Orders, BuyerStep(o) PROVE OrderIInv'
    <2>1. CASE create_invoice(o)
      <3>1. 1 \in OrderAttempts
        BY OrderConstants DEF OrderAttempts
      <3> QED
        BY <2>1, <3>1, InvoiceStepKeeps
    <2>2. CASE ~create_invoice(o)
      BY <1>1, <2>2, BuyerKeeps DEF BuyerStep
    <2> QED
      BY <2>1, <2>2
  <1>2. ASSUME NEW o \in Orders, NEW k \in OrderAttempts,
               \/ Lapse(o, k) \/ CreatedEvent(o, k)
               \/ \E s \in {"pending", "underpaid", "confirmed", "expired", "cancelled"} : InvoiceMoves(o, k, s)
        PROVE  OrderIInv'
    BY <1>2, InvoiceStepKeeps
  <1>3. ASSUME NEW e \in Webhooks, WebhookStep(e) \/ Redeliver(e) \/ _failed(e) PROVE OrderIInv'
    BY <1>3, WebhookKeeps, ReceiveKeeps DEF WebhookStep
  <1>4. ASSUME NEW p \in Readers, ReaderStep(p) \/ ReadFails(p) PROVE OrderIInv'
    BY <1>4, ReaderKeeps DEF ReaderStep
  <1>5. CASE expire_lapsed
    BY <1>5, ExpireKeeps
  <1>6. CASE UNCHANGED orderVars
    <2>1. UNCHANGED <<order, orderEntries, buyer, invoice, event, delivery, handler, reader, redelivered>>
      BY <1>6 DEF orderVars
    <2>2. /\ order' \in [Orders -> OrderRec] /\ buyer' \in [Orders -> BuyerRec] /\ BuyerInv' /\ OrdersGoOn
      BY <2>1 DEF OrderIInv, OrderTypes, BuyerInv, OrdersGoOn
    <2> QED
      BY <2>1, <2>2, QuietOrders
  <1> QED
    BY <1>1, <1>2, <1>3, <1>4, <1>5, <1>6 DEF OrdersNext

\* What handlers and readers remember of orders and invoices is so in every reachable state.
THEOREM OrdersInductive == OrdersSpec => []OrderIInv
  BY OrdersInitHolds, OrdersStepKeeps, PTL DEF OrdersSpec

\* Safety.  An order is credited at most once, with its bonus, only for an invoice that was paid, and a report of a
\* payment that was answered has credited it or asks for a review, for any number of orders, quotes, webhooks and
\* readers (settle, apply_invoice, receive_webhook).
THEOREM OrdersSettledOnce == OrdersSpec => []OrdersAreSettledOnce
  <1>1. OrderIInv => OrdersTypeOK
    BY DEF OrderIInv, OrderTypes, OrdersTypeOK, OrderRec, BuyerRec, Outcomes
  <1>2. OrderIInv => OrdersAreSettledOnce
    BY <1>1 DEF OrderIInv, OrdersAreSettledOnce
  <1> QED
    BY <1>2, OrdersInductive, PTL
=============================================================================

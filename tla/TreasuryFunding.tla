--------------------------- MODULE TreasuryFunding ---------------------------
(***************************************************************************)
(* Transfers into the treasury and the two things one of them can buy: a    *)
(* submission that cites it (POST /v1/submissions) or credits, given by the *)
(* deposit watcher.  chain_transfers arbitrates between them.  A request    *)
(* reads the transfer's row into its ORM session before it locks the row,   *)
(* and the locked read does not refresh what the session already holds, so  *)
(* what the request decides on may be stale.                                *)
(***************************************************************************)
EXTENDS Integers, Sequences, FiniteSets

CONSTANTS
    Transfers,      \* transfers into the watched address
    BlockOf,        \* [Transfers -> Nat]: where the chain has them
    AmountOf,       \* [Transfers -> Nat]: what they moved
    SenderOf,       \* [Transfers -> Senders \cup {Treasury}]
    Senders,        \* coldkeys; the account that links one has its name
    Treasury,       \* the watched address itself
    Price,          \* payment_amount_rao of the API: a submission, a declared credit
    CreditPrice,    \* credit_price_rao of the deposit watcher
    Packages,       \* numbers of credits that earn a bonus
    Requests,       \* direct submissions
    Cites,          \* [Requests -> Transfers]: X-Conjectures-Payment-Ref
    SignerOf,       \* [Requests -> Senders]
    KeyOf,          \* [Requests -> idempotency keys]
    Watchers,       \* deposit-watcher processes: one, or one and its restart
    Claims,         \* POST /deposits/claim requests
    ClaimRef,       \* [Claims -> Transfers]
    ClaimBy,        \* [Claims -> Senders]
    Nobody, NoRef,
    MaxBlock,       \* bound: blocks the chain finalizes
    Batch,          \* batch_blocks
    MaxDeclared,    \* bound: deposits when one is declared
    MaxFailures     \* bound: failed passes, dead processes and requests sent again

\* One price on both sides: the watcher's is not above the API's.
ASSUME FundingConstants ==
    /\ Price \in Nat \ {0} /\ CreditPrice \in 1..Price /\ Batch \in Nat \ {0}
    /\ BlockOf \in [Transfers -> 1..MaxBlock] /\ AmountOf \in [Transfers -> Nat \ {0}]
    /\ SenderOf \in [Transfers -> Senders \cup {Treasury}] /\ Treasury \notin Senders
    /\ Cites \in [Requests -> Transfers] /\ SignerOf \in [Requests -> Senders]
    /\ ClaimRef \in [Claims -> Transfers] /\ ClaimBy \in [Claims -> Senders]
    /\ Nobody \notin Senders \cup Requests /\ NoRef \notin Transfers
    /\ MaxBlock \in Nat /\ MaxDeclared \in Nat /\ MaxFailures \in Nat

VARIABLES
    final,      \* finalized head
    linked,     \* coldkeys that belong to an account
    row,        \* chain_transfers: [status, granted, note] by reference
    inserting,  \* request whose uncommitted insert holds the row
    deposits,   \* deposits in the order they were created
    entries,    \* credit_ledger: [dep, bonus] entries written for a transfer
    bought,     \* requests whose submission committed
    cursor,     \* last_scanned_block; NoRef before the cursor row exists
    watch,      \* watchers: [pc, at, last, todo, cur]
    req,        \* direct requests: [pc, saw]
    claim,      \* claims: [pc, dep]
    quoteLock,  \* the request that holds pricing's advisory lock
    failures    \* failures so far

watcherVars == <<cursor, watch, failures>>
requestVars == <<inserting, bought, req, quoteLock>>
fundingVars == <<final, linked, row, deposits, entries, claim, watcherVars, requestVars>>

NoRow == [status |-> "None", granted |-> 0, note |-> "None"]
IdleWatch == [pc |-> "Idle", at |-> 0, last |-> 0, todo |-> {}, cur |-> NoRef]
NewDeposit(a, x) ==
    [owner |-> a, amount |-> x, status |-> "AWAITING_TRANSFER", ref |-> NoRef, entry |-> FALSE]

FundingInit ==
    /\ final = 0 /\ linked = {} /\ cursor = NoRef /\ quoteLock = Nobody /\ failures = 0
    /\ row = [t \in Transfers |-> NoRow]
    /\ inserting = [t \in Transfers |-> Nobody]
    /\ deposits = <<>> /\ bought = {}
    /\ entries = [t \in Transfers |-> [dep |-> 0, bonus |-> 0]]
    /\ watch = [w \in Watchers |-> IdleWatch]
    /\ req = [r \in Requests |-> [pc |-> "New", saw |-> "None"]]
    /\ claim = [c \in Claims |-> [pc |-> "New", dep |-> 0]]
-----------------------------------------------------------------------------
(* The chain and the accounts. *)

FinalizeBlock ==
    /\ final < MaxBlock
    /\ final' = final + 1
    /\ UNCHANGED <<linked, row, deposits, entries, claim, watcherVars, requestVars>>

LinkSender(k) ==
    /\ k \notin linked
    /\ linked' = linked \cup {k}
    /\ UNCHANGED <<final, row, deposits, entries, claim, watcherVars, requestVars>>

\* A proved wallet, or else the only account that is paid there.
account_for_coldkey(k) == IF k \in linked THEN k ELSE Nobody
-----------------------------------------------------------------------------
(* The deposit watcher. *)

WatchBecomes(w, ws) == watch' = [watch EXCEPT ![w] = ws]
Arrivals(b) == {t \in Transfers : BlockOf[t] = b}

\* start_block is the first block: nothing has been read.
open_cursor ==
    /\ cursor = NoRef
    /\ cursor' = 0
    /\ UNCHANGED <<final, linked, row, deposits, entries, claim, watch, failures, requestVars>>

\* Up to batch_blocks at a time, and only what is finalized.
scan_once(w) ==
    /\ watch[w].pc = "Idle" /\ cursor # NoRef /\ cursor < final
    /\ LET first == cursor + 1
           end == cursor + Batch
       IN  WatchBecomes(w, [pc |-> "Block", at |-> first, todo |-> Arrivals(first),
                            last |-> IF end < final THEN end ELSE final, cur |-> NoRef])
    /\ UNCHANGED <<final, linked, row, deposits, entries, claim, cursor, failures, requestVars>>

\* A block that is read again starts its rows anew.
RecordedOver(t) == [row EXCEPT ![t].status = "UNATTRIBUTED"]

\* record: the insert is the check.
Recorded(t) == [row EXCEPT ![t].status = IF @ = "None" THEN "UNATTRIBUTED" ELSE @]

\* The arrival's own transaction; an uncommitted insert of the same row is waited for.
record(w, t) ==
    /\ watch[w].pc = "Block" /\ t \in watch[w].todo /\ inserting[t] = Nobody
    /\ row' = Recorded(t)
    /\ WatchBecomes(w, IF row'[t].status = "UNATTRIBUTED"
                       THEN [watch[w] EXCEPT !.pc = "Settle", !.cur = t]
                       ELSE [watch[w] EXCEPT !.todo = @ \ {t}])
    /\ UNCHANGED <<final, linked, deposits, entries, claim, cursor, failures, requestVars>>

Settled(w, t) == WatchBecomes(w, [watch[w] EXCEPT !.pc = "Block", !.todo = @ \ {t}, !.cur = NoRef])

\* By status alone.
MatchingByStatus(a, x) ==
    {i \in DOMAIN deposits : /\ deposits[i].owner = a /\ deposits[i].amount = x
                             /\ deposits[i].status \in {"AWAITING_TRANSFER", "SEEN_UNFINALIZED"}}

\* Open deposits the arrival settles.  One that a claim is writing may be locked and is skipped.
Matching(a, x) ==
    {i \in DOMAIN deposits : /\ deposits[i].owner = a /\ deposits[i].amount = x
                             /\ deposits[i].status \in {"AWAITING_TRANSFER", "SEEN_UNFINALIZED"}
                             /\ ~deposits[i].entry}
BeingClaimed(i) == \E c \in Claims : claim[c].pc = "Loaded" /\ claim[c].dep = i
Oldest(S) == CHOOSE i \in S : \A j \in S : i <= j

\* The deposit credit settles: the oldest that matches, or a new one for an undeclared arrival.
_matching_open_deposit(a, x, i) ==
    \E skipped \in SUBSET {j \in Matching(a, x) : BeingClaimed(j)} :
        LET open == Matching(a, x) \ skipped
        IN  i = IF open = {} THEN Len(deposits) + 1 ELSE Oldest(open)

EarnsBonus(t) == AmountOf[t] % CreditPrice = 0 /\ AmountOf[t] \div CreditPrice \in Packages

\* deposits_extrinsic_idx: no other deposit names the transfer.
ReferenceFree(t, i) == \A j \in DOMAIN deposits \ {i} : deposits[j].ref # t

credit(w, t, a) ==
    \E i \in 1..Len(deposits) + 1 :
        /\ _matching_open_deposit(a, AmountOf[t], i)
        /\ IF ReferenceFree(t, i)
           THEN /\ deposits' =
                     LET d == IF i \in DOMAIN deposits THEN deposits[i]
                              ELSE NewDeposit(a, AmountOf[t])
                         done == [d EXCEPT !.status = "CREDITED", !.ref = t, !.entry = TRUE]
                     IN  IF i \in DOMAIN deposits THEN [deposits EXCEPT ![i] = done]
                         ELSE Append(deposits, done)
                /\ entries' = [entries EXCEPT ![t].dep = @ + 1,
                                              ![t].bonus = @ + IF EarnsBonus(t) THEN 1 ELSE 0]
                /\ row' = [row EXCEPT ![t] = [status |-> "CREDITED", note |-> "None",
                                              granted |-> AmountOf[t] \div CreditPrice]]
                /\ Settled(w, t)
           ELSE /\ WatchBecomes(w, [watch[w] EXCEPT !.pc = "Note"])
                /\ UNCHANGED <<row, deposits, entries>>

\* A second transaction, which reads the row FOR UPDATE and looks again.
_settle(w) ==
    LET t == watch[w].cur
        a == account_for_coldkey(SenderOf[t])
    IN  /\ watch[w].pc = "Settle"
        /\ \/ /\ row[t].status # "UNATTRIBUTED"
              /\ Settled(w, t)
              /\ UNCHANGED <<row, deposits, entries>>
           \/ /\ row[t].status = "UNATTRIBUTED" /\ SenderOf[t] = Treasury
              /\ row' = [row EXCEPT ![t].status = "IGNORED", ![t].note = "SelfTransfer"]
              /\ Settled(w, t)
              /\ UNCHANGED <<deposits, entries>>
           \/ /\ row[t].status = "UNATTRIBUTED" /\ SenderOf[t] # Treasury /\ a = Nobody
              /\ row' = [row EXCEPT ![t].note = "UnknownSender"]
              /\ Settled(w, t)
              /\ UNCHANGED <<deposits, entries>>
           \/ /\ row[t].status = "UNATTRIBUTED" /\ SenderOf[t] # Treasury /\ a # Nobody
              /\ credit(w, t, a)
        /\ UNCHANGED <<final, linked, claim, cursor, failures, requestVars>>

\* A settlement that conflicted has been rolled back; the reason goes on the row, whatever it is now.
leave_unattributed(w) ==
    /\ watch[w].pc = "Note"
    /\ row' = [row EXCEPT ![watch[w].cur].note = "Conflict"]
    /\ Settled(w, watch[w].cur)
    /\ UNCHANGED <<final, linked, deposits, entries, claim, cursor, failures, requestVars>>

\* The block is marked read once all its arrivals are recorded; the mark never moves back.
advance_cursor(w) ==
    /\ watch[w].pc = "Block" /\ watch[w].todo = {}
    /\ cursor' = IF watch[w].at > cursor THEN watch[w].at ELSE cursor
    /\ LET next == watch[w].at + 1
       IN  WatchBecomes(w, IF next > watch[w].last THEN IdleWatch
                           ELSE [watch[w] EXCEPT !.at = next, !.todo = Arrivals(next)])
    /\ UNCHANGED <<final, linked, row, deposits, entries, claim, failures, requestVars>>

\* A chain read fails, or the process dies: the open transaction is rolled back.
PassFails(w) ==
    /\ watch[w].pc # "Idle" /\ failures < MaxFailures
    /\ WatchBecomes(w, IdleWatch)
    /\ failures' = failures + 1
    /\ UNCHANGED <<final, linked, row, deposits, entries, claim, cursor, requestVars>>
-----------------------------------------------------------------------------
(* Direct submissions. *)

RequestBecomes(r, pc) == req' = [req EXCEPT ![r].pc = pc]
SameKey(q, r) == KeyOf[q] = KeyOf[r] /\ SignerOf[q] = SignerOf[r]
Earlier(r) == {q \in bought : SameKey(q, r)}

\* find_by_idempotency_key: the stored answer, if the digest is the stored one.
Replay(r) ==
    \E q \in Earlier(r) : RequestBecomes(r, IF Cites[q] = Cites[r] THEN "Replayed" ELSE "Refused")

\* Everything before lock_quote: the replay, the early quote, the bundle, the signature, the nonce.
create_submission(r) ==
    /\ req[r].pc = "New"
    /\ IF Earlier(r) # {} THEN Replay(r) ELSE RequestBecomes(r, "Verified")
    /\ UNCHANGED <<final, linked, row, deposits, entries, claim, watcherVars, inserting, bought, quoteLock>>

\* payments.confirm: finalized, the exact price, and sent by the key that signed.
confirm(r) ==
    LET t == Cites[r]
    IN  BlockOf[t] <= final /\ AmountOf[t] = Price /\ SenderOf[t] = SignerOf[r]

\* submissions.payment_reference is unique, and so are a signer's idempotency keys.
PaymentUnused(r) == \A q \in bought : Cites[q] # Cites[r]

\* From the advisory lock to the transfer's row: confirm, insert the submission, record.
InsertSubmission(r) ==
    LET t == Cites[r]
    IN  /\ req[r].pc = "Verified" /\ quoteLock = Nobody
        /\ IF confirm(r) /\ Earlier(r) = {} /\ PaymentUnused(r)
           THEN /\ quoteLock' = r
                /\ req' = [req EXCEPT ![r] = [pc |-> "Recorded", saw |-> Recorded(t)[t].status]]
                /\ inserting' = [inserting EXCEPT ![t] = IF row[t].status = "None" THEN r ELSE @]
           ELSE /\ IF confirm(r) /\ Earlier(r) # {} THEN Replay(r) ELSE RequestBecomes(r, "Refused")
                /\ UNCHANGED <<inserting, quoteLock>>
        /\ UNCHANGED <<final, linked, row, deposits, entries, claim, watcherVars, bought>>

\* chain_transfers: only a credited row may carry granted credits.
transfer_uncredited_grants_nothing(status, granted) == status = "CREDITED" \/ granted = 0

Release(r) ==
    /\ quoteLock' = Nobody
    /\ inserting' = [t \in Transfers |-> IF inserting[t] = r THEN Nobody ELSE inserting[t]]

\* spend: decided on the status the session loaded before the lock, then checked by the database.
claim_for_submission(r) ==
    LET t == Cites[r]
    IN  /\ req[r].pc = "Recorded"
        /\ IF /\ req[r].saw = "UNATTRIBUTED"
              /\ transfer_uncredited_grants_nothing("IGNORED", row[t].granted)
           THEN /\ row' = [row EXCEPT ![t].status = "IGNORED", ![t].note = "FundedSubmission"]
                /\ bought' = bought \cup {r}
                /\ RequestBecomes(r, "Created")
           ELSE /\ RequestBecomes(r, "Refused")
                /\ UNCHANGED <<row, bought>>
        /\ Release(r)
        /\ UNCHANGED <<final, linked, deposits, entries, claim, watcherVars>>

\* Any other refusal, a lost connection, a process that dies: nothing of the request stays.
RequestFails(r) ==
    /\ req[r].pc \in {"Verified", "Recorded"}
    /\ RequestBecomes(r, "Refused")
    /\ IF req[r].pc = "Recorded" THEN Release(r) ELSE UNCHANGED <<inserting, quoteLock>>
    /\ UNCHANGED <<final, linked, row, deposits, entries, claim, watcherVars, bought>>

\* The client sends the request again, whether or not it saw the answer.
Resend(r) ==
    /\ req[r].pc \in {"Created", "Refused"} /\ failures < MaxFailures
    /\ RequestBecomes(r, "New")
    /\ failures' = failures + 1
    /\ UNCHANGED <<final, linked, row, deposits, entries, claim, cursor, watch, inserting, bought, quoteLock>>
-----------------------------------------------------------------------------
(* Deposits an account declares and claims. *)

\* A package of n credits, declared before it is sent.
create_deposit(a, n) ==
    /\ Len(deposits) < MaxDeclared
    /\ deposits' = Append(deposits, NewDeposit(a, n * Price))
    /\ UNCHANGED <<final, linked, row, entries, claim, watcherVars, requestVars>>

\* The newest open deposit of the account that proved the coldkey, read without a lock.
claim_deposit(c) ==
    LET mine == {i \in DOMAIN deposits : /\ deposits[i].owner = ClaimBy[c]
                                         /\ deposits[i].status = "AWAITING_TRANSFER"}
    IN  /\ claim[c].pc = "New" /\ ClaimBy[c] \in linked
        /\ claim' = [claim EXCEPT ![c] =
                       IF mine = {} THEN [pc |-> "Refused", dep |-> 0]
                       ELSE [pc |-> "Loaded", dep |-> CHOOSE i \in mine : \A j \in mine : j <= i]]
        /\ UNCHANGED <<final, linked, row, deposits, entries, watcherVars, requestVars>>

\* The write names the columns it changes, not the status it read.
mark_seen(c) ==
    LET i == claim[c].dep
    IN  /\ claim[c].pc = "Loaded"
        /\ deposits' = IF ReferenceFree(ClaimRef[c], i)
                       THEN [deposits EXCEPT ![i].status = "SEEN_UNFINALIZED", ![i].ref = ClaimRef[c]]
                       ELSE deposits
        /\ claim' = [claim EXCEPT ![c].pc = IF ReferenceFree(ClaimRef[c], i) THEN "Seen" ELSE "Refused"]
        /\ UNCHANGED <<final, linked, row, entries, watcherVars, requestVars>>
-----------------------------------------------------------------------------
WatcherStep(w) ==
    \/ scan_once(w) \/ _settle(w) \/ leave_unattributed(w) \/ advance_cursor(w)
    \/ \E t \in Transfers : record(w, t)

RequestStep(r) == create_submission(r) \/ InsertSubmission(r) \/ claim_for_submission(r)

\* What goes on by itself: blocks, the watcher's loop, requests being served.
FundingGoesOn ==
    \/ FinalizeBlock \/ open_cursor
    \/ \E w \in Watchers : WatcherStep(w)
    \/ \E r \in Requests : RequestStep(r)

FundingNext ==
    \/ FinalizeBlock \/ open_cursor
    \/ \E k \in Senders : LinkSender(k) \/ \E n \in Packages \cup {1} : create_deposit(k, n)
    \/ \E w \in Watchers : WatcherStep(w) \/ PassFails(w)
    \/ \E r \in Requests : RequestStep(r) \/ RequestFails(r) \/ Resend(r)
    \/ \E c \in Claims : claim_deposit(c) \/ mark_seen(c)

FundingSpec == FundingInit /\ [][FundingNext]_fundingVars /\ WF_fundingVars(FundingGoesOn)

-----------------------------------------------------------------------------
FundingTypeOK ==
    /\ final \in 0..MaxBlock /\ linked \subseteq Senders /\ cursor \in 0..MaxBlock \cup {NoRef}
    /\ row \in [Transfers -> [status : {"None", "UNATTRIBUTED", "CREDITED", "IGNORED"}, granted : Nat,
                              note : {"None", "UnknownSender", "SelfTransfer", "Conflict", "FundedSubmission"}]]
    /\ inserting \in [Transfers -> Requests \cup {Nobody}] /\ quoteLock \in Requests \cup {Nobody}
    /\ bought \subseteq Requests /\ failures \in 0..MaxFailures
    /\ \A i \in DOMAIN deposits : deposits[i].ref \in Transfers \cup {NoRef}
    /\ entries \in [Transfers -> [dep : Nat, bonus : Nat]]
    /\ \A w \in Watchers : watch[w].todo \subseteq Transfers /\ watch[w].cur \in Transfers \cup {NoRef}

\* The transfer buys one thing, credits or a submission, and what it bought never changes,
\* although the API and the watcher decide in transactions of their own and the API decides on
\* a status it read before it locked the row (claim_for_submission, _settle).
Use == [t \in Transfers |-> IF entries[t].dep > 0 THEN "Credits"
                            ELSE IF \E r \in bought : Cites[r] = t THEN "Submission" ELSE "Nothing"]
FundingOnce == INSTANCE PaymentOnce WITH Payments <- Transfers, use <- Use
FundingPaysOnce == FundingOnce!Spec

\* The row says CREDITED exactly when the ledger has the transfer's one DEPOSIT entry; a bonus
\* never comes without it, however often blocks are read again (store.credit, store.record).
LedgerAgreesWithRow ==
    \A t \in Transfers : /\ entries[t].dep = IF row[t].status = "CREDITED" THEN 1 ELSE 0
                         /\ entries[t].bonus <= entries[t].dep

\* No block is marked read before every arrival in it has a row, whatever process dies where
\* (_scan_block: the cursor advances last).
DepositsSkipNothing ==
    cursor # NoRef => \A t \in Transfers : BlockOf[t] <= cursor => row[t].status # "None"

\* Every credited transfer has a deposit of its own that points at the ledger entry: a claim that
\* overwrites a credited deposit with what it read earlier cannot get it credited again
\* (mark_seen against _matching_open_deposit).
CreditsHaveTheirDeposit ==
    Cardinality({i \in DOMAIN deposits : deposits[i].entry})
        = Cardinality({t \in Transfers : entries[t].dep > 0})

\* Every finalized arrival is decided or left for an operator with the reason on it, through
\* failed passes and the requests and claims that compete for it (_admit, run_forever).
ArrivalIsDecided ==
    []<>(\A t \in Transfers : BlockOf[t] <= final =>
            row[t].status \in {"CREDITED", "IGNORED"} \/ row[t].note # "None")

\* What the funding of credits keeps: every arrival has its row, every credit its deposit and its
\* one entry, through races of the API with the watcher and deaths of the watcher (watcher.py, credits.py).
FundingIsKept == FundingTypeOK /\ LedgerAgreesWithRow /\ DepositsSkipNothing /\ CreditsHaveTheirDeposit
=============================================================================

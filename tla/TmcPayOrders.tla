----------------------------- MODULE TmcPayOrders -----------------------------
(***************************************************************************)
(* Credits bought through the payment processor TMC PAY.  A request opens   *)
(* an order and quotes invoices for it; the processor reports what happens  *)
(* to an invoice by webhooks that may be lost, repeated or late; the        *)
(* account's page and the reconciler read invoices back.  Every handler     *)
(* loads the order, works, and writes the columns it changed: the order may *)
(* have moved on in between.                                                *)
(***************************************************************************)
EXTENDS Naturals, FiniteSets

CONSTANTS
    Orders,         \* purchases of one account
    Kinds,          \* invoices the processor can answer: good, short, dear, foreign
    MaxAttempts,    \* tmc_pay_quote_attempts
    MaxOpenOrders,  \* tmc_pay_max_open_orders
    PackageOrders,  \* orders whose credits are a package with a bonus
    CreditLate,     \* tmc_pay_credit_late_payments
    MaxEvents,      \* bound: webhooks the processor sends
    Readers,        \* page reads and reconciler passes under way at once
    MaxRedelivered, \* bound: deliveries that are repeated
    MaxMoves        \* bound: changes of the processor's invoices

ASSUME OrderConstants ==
    /\ MaxAttempts \in Nat \ {0} /\ MaxOpenOrders \in Nat \ {0} /\ MaxRedelivered \in Nat
    /\ Kinds \subseteq {"good", "short", "dear", "foreign"} /\ PackageOrders \subseteq Orders
    /\ CreditLate \in BOOLEAN /\ MaxEvents \in Nat /\ MaxMoves \in Nat

VARIABLES
    order,        \* tmc_pay_orders: [status, invoice, credited, review]
    orderEntries, \* credit_ledger: [dep, bonus] entries of an order
    buyer,        \* the request that opens the order: [pc, attempt]
    invoice,      \* the processor's invoices, by order and attempt
    event,        \* webhooks sent: [of, attempt, status, late] or NoEvent
    delivery,     \* tmc_pay_webhook_deliveries: outcome by webhook id
    handler,      \* webhook handlers: [pc, seen]
    reader,       \* readers: [pc, of, seen, answer]
    redelivered,  \* deliveries repeated so far
    moves         \* changes the processor's invoices went through

orderVars == <<order, orderEntries, buyer, invoice, event, delivery, handler, reader, redelivered, moves>>

OrderAttempts == 1..MaxAttempts
Webhooks == 1..MaxEvents     \* webhook ids
Open == {"NEW", "CREATED", "PENDING", "UNDERPAID"}
Paid == {"CONFIRMED", "LATE_PAYMENT"}
NoInvoice == [kind |-> "none", status |-> "none", lapsed |-> FALSE, late |-> FALSE]
NoEvent == [of |-> "none", attempt |-> 0, status |-> "none", late |-> FALSE]
NoOrder == [status |-> "None", invoice |-> 0, credited |-> FALSE, review |-> FALSE]
IdleHandler == [pc |-> "Idle", seen |-> NoOrder]
IdleReader == [pc |-> "Idle", of |-> "none", seen |-> NoOrder, answer |-> NoInvoice]

OrdersInit ==
    /\ order = [o \in Orders |-> NoOrder]
    /\ orderEntries = [o \in Orders |-> [dep |-> 0, bonus |-> 0]]
    /\ buyer = [o \in Orders |-> [pc |-> "Start", attempt |-> 1]]
    /\ invoice = [o \in Orders |-> [k \in OrderAttempts |-> NoInvoice]]
    /\ event = [e \in Webhooks |-> NoEvent]
    /\ delivery = [e \in Webhooks |-> "None"]
    /\ handler = [e \in Webhooks |-> IdleHandler]
    /\ reader = [p \in Readers |-> IdleReader]
    /\ redelivered = 0 /\ moves = 0
-----------------------------------------------------------------------------
(* Opening an order. *)

\* count_live_orders: what the limit is compared with.
LiveOrders == {o \in Orders : /\ order[o].status \in Open
                              /\ order[o].invoice = 0 \/ ~invoice[o][order[o].invoice].lapsed}

\* _resolve_pair: TAO unless the currency and its network are both listed and allowed.
ResolvesPair(named, listed, allowed) == ~named \/ (listed /\ allowed)

\* _seed_rate: the last locked rate while it is fresh, then the market, then what is stale.
SeedRate(last, market, sameFiat, tao) ==
    IF last = "fresh" THEN "invoice"
    ELSE IF market /\ sameFiat THEN "market"
    ELSE IF ~tao THEN "refused"
    ELSE IF last = "stale" THEN "invoice-stale"
    ELSE IF market THEN "market-mismatch" ELSE "refused"

\* The checks read the database and the market; the row is written afterwards.
CheckPurchase(o) ==
    /\ buyer[o].pc = "Start" /\ Cardinality(LiveOrders) < MaxOpenOrders
    /\ \E named, listed, allowed \in BOOLEAN : ResolvesPair(named, listed, allowed)
    /\ \E last \in {"none", "stale", "fresh"}, market, sameFiat, tao \in BOOLEAN :
           SeedRate(last, market, sameFiat, tao) # "refused"
    /\ buyer' = [buyer EXCEPT ![o].pc = "Checked"]
    /\ UNCHANGED <<order, orderEntries, invoice, event, delivery, handler, reader, redelivered, moves>>

create_order(o) ==
    /\ buyer[o].pc = "Checked"
    /\ order' = [order EXCEPT ![o].status = "NEW"]
    /\ buyer' = [buyer EXCEPT ![o].pc = "Quote"]
    /\ UNCHANGED <<orderEntries, invoice, event, delivery, handler, reader, redelivered, moves>>

\* create_invoice: the processor may make the invoice and the answer be lost, or refuse.
create_invoice(o) ==
    LET k == buyer[o].attempt
        made(kind) == [invoice EXCEPT ![o][k] = [kind |-> kind, status |-> "created",
                                                 lapsed |-> FALSE, late |-> FALSE]]
    IN  /\ buyer[o].pc = "Quote"
        /\ \/ \E kind \in Kinds, pc \in {"Answered", "Failing"} :
                  invoice' = made(kind) /\ buyer' = [buyer EXCEPT ![o].pc = pc]
           \/ invoice' = invoice /\ buyer' = [buyer EXCEPT ![o].pc = "Failing"]
        /\ UNCHANGED <<order, orderEntries, event, delivery, handler, reader, redelivered, moves>>

\* attach_invoice refuses a TAO invoice that does not cover the credits.
Attachable(o, k) == invoice[o][k].kind # "short"

\* _invoice_problem: what is wrong, and whether another quote may put it right.
_invoice_problem(kind) ==
    CASE kind = "good" -> "none" [] kind \in {"short", "dear"} -> "reprice" [] OTHER -> "refuse"

\* The request writes what it was answered: the columns of the row it read when it was NEW.
attach_invoice(o) ==
    LET k == buyer[o].attempt
    IN  /\ buyer[o].pc = "Answered" /\ _invoice_problem(invoice[o][k].kind) = "none"
        /\ order' = [order EXCEPT ![o].invoice = k, ![o].status = "CREATED"]
        /\ buyer' = [buyer EXCEPT ![o].pc = "Shown"]
        /\ UNCHANGED <<orderEntries, invoice, event, delivery, handler, reader, redelivered, moves>>

\* Another attempt at the rate the invoice locked, unless the rate is unusable or none is left.
Reprice(o) ==
    LET problem == _invoice_problem(invoice[o][buyer[o].attempt].kind)
    IN  /\ buyer[o].pc = "Answered" /\ problem # "none"
        /\ \/ /\ problem = "reprice" /\ buyer[o].attempt < MaxAttempts
              /\ buyer' = [buyer EXCEPT ![o] = [pc |-> "Quote", attempt |-> @.attempt + 1]]
           \/ buyer' = [buyer EXCEPT ![o].pc = "Failing"]
        /\ UNCHANGED <<order, orderEntries, invoice, event, delivery, handler, reader, redelivered, moves>>

\* _fail closes the order it holds; an unexpected error closes it by id, and only while NEW.
fail_order(o, unexpected) ==
    /\ buyer[o].pc = "Failing"
    /\ order' = [order EXCEPT ![o].status =
                   IF unexpected /\ @ # "NEW" THEN @ ELSE "FAILED"]
    /\ buyer' = [buyer EXCEPT ![o].pc = "Failed"]
    /\ UNCHANGED <<orderEntries, invoice, event, delivery, handler, reader, redelivered, moves>>
-----------------------------------------------------------------------------
(* The processor. *)

\* Statuses an invoice moves to; "confirmed" stands for overpaid, "pending" for confirming,
\* and a status may be passed through between two reports.
Moves(i) ==
    CASE i.status = "created" -> {"pending", "confirmed", "cancelled"} \cup (IF i.lapsed THEN {"expired"} ELSE {})
      [] i.status = "pending" -> {"underpaid", "confirmed"}
      [] i.status \in {"underpaid", "expired"} -> {"confirmed"}
      [] OTHER -> {}

Send(o, k, status, late) ==
    \E e \in Webhooks : /\ event[e] = NoEvent /\ \A d \in 1..e-1 : event[d] # NoEvent
                        /\ event' = [event EXCEPT ![e] = [of |-> o, attempt |-> k,
                                                          status |-> status, late |-> late]]

\* An invoice changes and the webhook for it is sent, or never sent.
InvoiceMoves(o, k, status) ==
    LET i == invoice[o][k]
        late == status = "confirmed" /\ i.lapsed
    IN  /\ status \in Moves(i) /\ moves < MaxMoves
        /\ moves' = moves + 1
        /\ invoice' = [invoice EXCEPT ![o][k].status = status, ![o][k].late = late]
        /\ Send(o, k, status, late) \/ event' = event
        /\ UNCHANGED <<order, orderEntries, buyer, delivery, handler, reader, redelivered>>

\* The webhook that says an invoice exists may also be on its way.
CreatedEvent(o, k) ==
    /\ invoice[o][k].status = "created"
    /\ Send(o, k, "created", FALSE)
    /\ UNCHANGED <<order, orderEntries, buyer, invoice, delivery, handler, reader, redelivered, moves>>

\* The invoice's time runs out.
Lapse(o, k) ==
    /\ invoice[o][k] # NoInvoice /\ ~invoice[o][k].lapsed /\ moves < MaxMoves
    /\ invoice' = [invoice EXCEPT ![o][k].lapsed = TRUE]
    /\ moves' = moves + 1
    /\ UNCHANGED <<order, orderEntries, buyer, event, delivery, handler, reader, redelivered>>
-----------------------------------------------------------------------------
(* What a status means. *)

State(status, late) ==
    IF late THEN "LATE_PAYMENT"
    ELSE CASE status = "created" -> "CREATED" [] status = "pending" -> "PENDING"
           [] status = "underpaid" -> "UNDERPAID" [] status = "confirmed" -> "CONFIRMED"
           [] status = "expired" -> "EXPIRED" [] OTHER -> "CANCELLED"

credits_are_earned(status, late) == IF late THEN CreditLate ELSE status = "confirmed"
NeedsReview(status, late) == late \/ status = "underpaid"

\* A session writes the columns that differ from what it loaded.
Write(row, seen, status, review) ==
    [row EXCEPT !.status = IF status = seen.status THEN @ ELSE status, !.review = @ \/ review]

\* record_status: a session that knows of the credits keeps the paid status and asks for a review.
record_status(row, seen, status, review) ==
    IF seen.credited /\ status \notin Paid THEN [row EXCEPT !.review = TRUE]
    ELSE Write(row, seen, status, review)

\* credit_ledger_tmc_pay_idx: one entry may name the order.
EntryFree(o) == orderEntries[o].dep = 0

\* settle: refused for what the session knows to be credited, and by the index.
Settles(o, seen) == ~seen.credited /\ EntryFree(o)

\* apply_invoice for an order loaded as `seen`; `row` has what this transaction wrote already.
apply_invoice(o, seen, row, status, late) ==
    IF credits_are_earned(status, late) /\ ~seen.credited
    THEN IF Settles(o, seen)
         THEN /\ orderEntries' = [orderEntries EXCEPT ![o] =
                    [dep |-> @.dep + 1, bonus |-> @.bonus + IF o \in PackageOrders THEN 1 ELSE 0]]
              /\ order' = [order EXCEPT ![o] =
                    [Write(row, seen, State(status, late), NeedsReview(status, late)) EXCEPT !.credited = TRUE]]
         ELSE UNCHANGED <<order, orderEntries>>   \* rolled back: another session credited it
    ELSE /\ order' = [order EXCEPT ![o] =
                record_status(row, seen, State(status, late), NeedsReview(status, late))]
         /\ UNCHANGED orderEntries
-----------------------------------------------------------------------------
(* Webhooks. *)

\* find_by_invoice, then by the external id, which only the first attempt carries unchanged.
Matches(e) ==
    LET o == event[e].of IN
    /\ order[o].status # "None"
    /\ order[o].invoice = event[e].attempt \/ event[e].attempt = 1

Foreign(e) == invoice[event[e].of][event[e].attempt].kind = "foreign"

\* The delivery id is claimed, and the order loaded, in a transaction that stays open.
claim_delivery(e) ==
    /\ event[e] # NoEvent /\ handler[e].pc = "Idle" /\ delivery[e] \in {"None", "FAILED"}
    /\ \/ /\ Foreign(e) \/ ~Matches(e)
          /\ delivery' = [delivery EXCEPT ![e] = IF Foreign(e) THEN "IGNORED" ELSE "UNKNOWN"]
          /\ UNCHANGED handler
       \/ /\ ~Foreign(e) /\ Matches(e)
          /\ handler' = [handler EXCEPT ![e] = [pc |-> "Loaded", seen |-> order[event[e].of]]]
          /\ UNCHANGED delivery
    /\ UNCHANGED <<order, orderEntries, buyer, invoice, event, reader, redelivered, moves>>

\* A repeated delivery of an id that was applied is answered as a duplicate.
Redeliver(e) ==
    /\ delivery[e] \notin {"None", "FAILED"} /\ redelivered < MaxRedelivered
    /\ redelivered' = redelivered + 1
    /\ UNCHANGED <<order, orderEntries, buyer, invoice, event, delivery, handler, reader, moves>>

Done(e, outcome) ==
    /\ delivery' = [delivery EXCEPT ![e] = outcome]
    /\ handler' = [handler EXCEPT ![e] = IdleHandler]

\* Superseded and forgotten.
superseded_unflagged(e) == UNCHANGED <<order, orderEntries>> /\ Done(e, "SUPERSEDED")

\* _superseded: the event is about an invoice the order does not sell, or cannot.
_superseded(e) ==
    /\ order' = [order EXCEPT ![event[e].of].review =
                   @ \/ event[e].status \notin {"created", "expired", "cancelled"}]
    /\ UNCHANGED orderEntries
    /\ Done(e, "SUPERSEDED")

receive_webhook(e) ==
    LET o == event[e].of
        k == event[e].attempt
        seen == handler[e].seen
        attached == [seen EXCEPT !.invoice = k, !.status = State(event[e].status, FALSE)]
        row == [order[o] EXCEPT !.invoice = k, !.status = attached.status]
    IN  /\ handler[e].pc = "Loaded"
        /\ \/ /\ (seen.invoice \notin {0, k}) \/ (seen.invoice = 0 /\ ~Attachable(o, k))
              /\ _superseded(e)
           \/ /\ seen.invoice = 0 /\ Attachable(o, k)
              /\ apply_invoice(o, attached, row, event[e].status, event[e].late)
              /\ Done(e, IF order' = order THEN "None"
                         ELSE IF orderEntries' # orderEntries THEN "CREDITED" ELSE "RECORDED")
           \/ /\ seen.invoice = k
              /\ apply_invoice(o, seen, order[o], event[e].status, event[e].late)
              /\ Done(e, IF credits_are_earned(event[e].status, event[e].late) /\ ~seen.credited
                         THEN IF Settles(o, seen) THEN "CREDITED" ELSE "None"
                         ELSE "RECORDED")
        /\ UNCHANGED <<buyer, invoice, event, reader, redelivered, moves>>

\* _failed: the rollback took the claim; the failure is recorded and the order flagged.
_failed(e) ==
    /\ handler[e].pc = "Loaded" /\ redelivered < MaxRedelivered
    /\ order' = [order EXCEPT ![event[e].of].review = TRUE]
    /\ Done(e, "FAILED")
    /\ redelivered' = redelivered + 1
    /\ UNCHANGED <<orderEntries, buyer, invoice, event, reader, moves>>
-----------------------------------------------------------------------------
(* Reading the processor back: the account's page and the reconciler. *)

\* Only what a webhook has already moved.
refresh_only_moved(o) == order[o].status \in {"UNDERPAID"} /\ order[o].invoice # 0

\* read_order and the reconciler's pass: only open orders that have an invoice are read.
_should_refresh(o) == order[o].status \in Open /\ order[o].invoice # 0

\* The order is loaded and then the processor asked; the answer is a snapshot.
refresh_order(p, o) ==
    /\ reader[p].pc = "Idle" /\ _should_refresh(o)
    /\ reader' = [reader EXCEPT ![p] = [pc |-> "Answered", of |-> o, seen |-> order[o],
                                        answer |-> invoice[o][order[o].invoice]]]
    /\ UNCHANGED <<order, orderEntries, buyer, invoice, event, delivery, handler, redelivered, moves>>

ApplyAnswer(p) ==
    LET r == reader[p]
    IN  /\ r.pc = "Answered"
        /\ apply_invoice(r.of, r.seen, order[r.of], r.answer.status, r.answer.late)
        /\ reader' = [reader EXCEPT ![p] = IdleReader]
        /\ UNCHANGED <<buyer, invoice, event, delivery, handler, redelivered, moves>>

\* The processor cannot be reached: nothing is written.
ReadFails(p) ==
    /\ reader[p].pc = "Answered"
    /\ reader' = [reader EXCEPT ![p] = IdleReader]
    /\ UNCHANGED <<order, orderEntries, buyer, invoice, event, delivery, handler, redelivered, moves>>

\* After the reads of a pass: orders whose invoice lapsed with nothing seen are closed.
expire_lapsed ==
    LET lapsed == {o \in Orders : /\ order[o].status \in {"NEW", "CREATED"} /\ order[o].invoice # 0
                                  /\ invoice[o][order[o].invoice].lapsed}
    IN  /\ lapsed # {}
        /\ order' = [o \in Orders |-> IF o \in lapsed THEN [order[o] EXCEPT !.status = "EXPIRED"]
                                      ELSE order[o]]
        /\ UNCHANGED <<orderEntries, buyer, invoice, event, delivery, handler, reader, redelivered, moves>>
-----------------------------------------------------------------------------
BuyerStep(o) ==
    \/ CheckPurchase(o) \/ create_order(o) \/ create_invoice(o) \/ attach_invoice(o) \/ Reprice(o)
    \/ \E unexpected \in BOOLEAN : fail_order(o, unexpected)
ReaderStep(p) == ApplyAnswer(p) \/ \E o \in Orders : refresh_order(p, o)
WebhookStep(e) == claim_delivery(e) \/ receive_webhook(e)

OrdersNext ==
    \/ \E o \in Orders : BuyerStep(o)
    \/ \E o \in Orders, k \in OrderAttempts :
           \/ Lapse(o, k) \/ CreatedEvent(o, k)
           \/ \E s \in {"pending", "underpaid", "confirmed", "expired", "cancelled"} : InvoiceMoves(o, k, s)
    \/ \E e \in Webhooks : WebhookStep(e) \/ Redeliver(e) \/ _failed(e)
    \/ \E p \in Readers : ReaderStep(p) \/ ReadFails(p)
    \/ expire_lapsed

\* A reader (the poller, a buyer's page) keeps asking for the orders that are open and ends up
\* applying an answer, however often the service fails it in between.
OrdersSpec ==
    /\ OrdersInit /\ [][OrdersNext]_orderVars
    /\ \A p \in Readers : /\ SF_orderVars(ApplyAnswer(p))
                         /\ WF_orderVars(\E o \in Orders : refresh_order(p, o))

-----------------------------------------------------------------------------
OrdersTypeOK ==
    /\ order \in [Orders -> [status : Open \cup Paid \cup {"None", "FAILED", "EXPIRED", "CANCELLED"},
                             invoice : 0..MaxAttempts, credited : BOOLEAN, review : BOOLEAN]]
    /\ orderEntries \in [Orders -> [dep : Nat, bonus : Nat]]
    /\ \A o \in Orders : buyer[o].attempt \in OrderAttempts
    /\ \A e \in Webhooks : delivery[e] \in {"None", "IGNORED", "UNKNOWN", "SUPERSEDED", "FAILED",
                                            "CREDITED", "RECORDED"}
    /\ redelivered \in 0..MaxRedelivered

\* An order is credited once however webhooks, page reads and reconciler passes interleave, the
\* bonus with it, and it says so exactly then (settle, credit_ledger_tmc_pay_idx).
OrderCreditedOnce ==
    \A o \in Orders : /\ orderEntries[o].dep = IF order[o].credited THEN 1 ELSE 0
                      /\ orderEntries[o].bonus = IF o \in PackageOrders THEN orderEntries[o].dep ELSE 0

\* No report of money is lost: once a delivery that says an invoice was paid has been answered, the
\* order is credited or waits for a person, or the delivery is filed as unmatched (receive_webhook,
\* _superseded, _failed).
PaidReportIsKept ==
    \A e \in Webhooks :
        (delivery[e] \in {"RECORDED", "SUPERSEDED", "CREDITED", "FAILED"} /\ event[e].status = "confirmed")
            => order[event[e].of].credited \/ order[event[e].of].review

\* Credits are given only for an invoice the processor says is paid (apply_invoice).
CreditedWasPaid ==
    \A o \in Orders : order[o].credited => \E k \in OrderAttempts : invoice[o][k].status = "confirmed"

\* An open order whose invoice was paid in time does not stay open, even if every webhook is lost:
\* the reads of the page or the reconciler resolve it (reconcile_tmc_pay._pass, apply_invoice).
PaidAndOpen(o, k) ==
    /\ order[o].invoice = k /\ order[o].status \in Open
    /\ invoice[o][k].status = "confirmed" /\ ~invoice[o][k].late
PaidOrderIsResolved == []<>(\A o \in Orders : \A k \in OrderAttempts : ~PaidAndOpen(o, k))

\* What an order keeps, whoever reports on it and whatever it was repriced to: one credit for an
\* invoice that was paid, and no report of money without an effect (settle, apply_invoice, receive_webhook).
OrdersAreSettledOnce == OrdersTypeOK /\ OrderCreditedOnce /\ PaidReportIsKept /\ CreditedWasPaid
=============================================================================

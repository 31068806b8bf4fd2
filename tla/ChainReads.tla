----------------------------- MODULE ChainReads -----------------------------
(***************************************************************************)
(* Reading Subtensor through one BittensorTransferSource                   *)
(* (src/conjectures_subnet/transfers.py): callers take turns on a lock,    *)
(* a connection per network is opened on demand and dropped after any      *)
(* failure, and every wait is bounded although the cancelled operation may *)
(* live on.  Two programs run on it: the watchers' search for the first    *)
(* block of the watch (first_block_at_or_after), in a watcher process, and *)
(* the resolution of cited payments (finalized_transfer), in the API.      *)
(*                                                                         *)
(* Heights start at 1.  The contents of one block, PaidBlock, matter: its  *)
(* events are records of the fields the decoder looks at, and until it is  *)
(* final a reorganisation may replace them.                                *)
(***************************************************************************)
EXTENDS Integers, Sequences, FiniteSets, Functions

CONSTANTS
    Payers,       \* requests of an API process that cite a payment
    Searcher,     \* the watcher that looks for its first block
    StartHeads,   \* finalized heads the process may find
    TimeOf,       \* height -> timestamp of the block, increasing
    Whens,        \* configured watch_from values
    StepBlocks,   \* BLOCKS_PER_DAY
    PaidBlock,    \* the height whose events are read
    Contents,     \* event lists the block may have
    Citations,    \* references a request may cite: [extrinsic, event]
    MaxReadTroubles   \* bound: reads that fail, time out or are cancelled

NoClient == 0
Unnamed == -1                       \* the event index of a two-part reference
ReadCallers == Payers \cup {Searcher}
Networks == {"head", "archive"}
Tip == Len(TimeOf)

ASSUME ChainReadsBounds ==
    /\ Searcher \notin Payers /\ StepBlocks \in Nat \ {0} /\ MaxReadTroubles \in Nat
    /\ PaidBlock \in 1 .. Tip /\ StartHeads \subseteq 1 .. Tip
    /\ TimeOf \in Seq(Int) /\ Whens \subseteq Int
    /\ \A i, j \in 1 .. Tip : i < j => TimeOf[i] < TimeOf[j]
    /\ \A when \in Whens : TimeOf[1] < when      \* "any timestamp a deployment would configure"
    /\ Contents \subseteq Seq([kind : STRING, extrinsic : Int, amount : Int])
    /\ \A c \in Citations : c \in Nat \X (Nat \cup {Unnamed})

VARIABLES
    finalHead,      \* the finalized head
    content,    \* the events of PaidBlock
    lockTurns,      \* the lock's holder, then its waiters, first come first served
    phase,      \* where each caller is in _read
    using,      \* the client a caller reads on or drops
    current,    \* _clients
    clientsMade,       \* clients made so far
    left,       \* _pending_cleanup: <<what, client>> cancelled but not finished
    shut,       \* clients whose close() was called
    search,     \* the state of first_block_at_or_after
    payment,    \* the state of each finalized_transfer
    readTroubles

sourceVars == <<lockTurns, phase, using, current, clientsMade, left, shut, readTroubles>>
chainReadsVars == <<finalHead, content, search, payment, sourceVars>>

SearchIdle == [stage |-> "head", when |-> 0, top |-> 0, low |-> 1, high |-> 0, step |-> StepBlocks]
PaymentIdle == [stage |-> "unasked", cited |-> <<0, Unnamed>>, found |-> <<>>]

ChainReadsInit ==
    /\ finalHead \in StartHeads /\ content \in Contents
    /\ lockTurns = <<>> /\ phase = [r \in ReadCallers |-> "idle"]
    /\ using = [r \in ReadCallers |-> NoClient]
    /\ current = [n \in Networks |-> NoClient]
    /\ clientsMade = 0 /\ left = {} /\ shut = {} /\ readTroubles = 0
    /\ payment = [p \in Payers |-> PaymentIdle]
    /\ \/ search = [SearchIdle EXCEPT !.stage = "off"]                       \* an API process
       \/ \E when \in Whens : search = [SearchIdle EXCEPT !.when = when]      \* a watcher

(* The chain grows and, above its finalized head, changes its mind.        *)
finalize == finalHead < Tip /\ finalHead' = finalHead + 1 /\ UNCHANGED <<content, search, payment, sourceVars>>

reorganize ==
    /\ finalHead < PaidBlock
    /\ content' \in Contents
    /\ UNCHANGED <<finalHead, search, payment, sourceVars>>

----------------------------------------------------------------------------
(* first_block_at_or_after: double backwards from the head, then bisect.   *)

Probe ==
    CASE search.stage = "tip" -> search.top
      [] search.stage = "back" -> search.top - search.step
      [] OTHER -> IF search.low + 1 < search.high
                  THEN (search.low + search.high) \div 2
                  ELSE search.high

(* The doubling stops before it reaches the chain's earliest history.      *)
Back(s) == [s EXCEPT !.stage = IF s.top - s.step <= 1 THEN "bisect" ELSE "back"]

(* One bisection step between a height too early and one late enough.      *)
Halve(early) ==
    IF early THEN [search EXCEPT !.low = Probe] ELSE [search EXCEPT !.high = Probe]

(* What the search makes of the timestamp at the height it probed.         *)
Learn(early) ==
    CASE search.stage = "tip" ->
           IF early THEN [search EXCEPT !.stage = "future"]
           ELSE Back([search EXCEPT !.low = 1, !.high = search.top, !.step = StepBlocks])
      [] search.stage = "back" ->
           IF early THEN [search EXCEPT !.low = Probe, !.stage = "bisect"]
           ELSE Back([search EXCEPT !.high = Probe, !.step = 2 * @])
      [] search.stage = "bisect" /\ search.low + 1 < search.high -> Halve(early)
      [] OTHER -> [search EXCEPT !.stage = "found"]

search_goes_on ==
    /\ search' = IF search.stage = "head"
                 THEN [search EXCEPT !.stage = "tip", !.top = finalHead]
                 ELSE Learn(TimeOf[Probe] < search.when)
    /\ UNCHANGED payment

----------------------------------------------------------------------------
(* finalized_transfer: the finalized head, the block's events, its time.   *)

(* An event without an extrinsic index is filed under index 0.             *)
ExtrinsicOf(event) == IF event.extrinsic = Unnamed THEN 0 ELSE event.extrinsic

(* The positive balance transfers of a block, by (extrinsic, event).       *)
transfers_in_events(events) ==
    {<<ExtrinsicOf(events[i]), i>> :
        i \in {j \in DOMAIN events : events[j].kind = "transfer" /\ events[j].amount > 0}}

InExtrinsic(p) == {t \in transfers_in_events(content) : t[1] = payment[p].cited[1]}

Cited(p) == {t \in InExtrinsic(p) : payment[p].cited[2] \in {Unnamed, t[2]}}

(* The check that the cited block is final.                                *)
final_or_refused(p) ==
    [payment[p] EXCEPT !.stage = IF PaidBlock > finalHead THEN "refused" ELSE "events"]

(* Events, then the timestamp if there was any transfer; then the answer.  *)
resolved(p) ==
    IF Cited(p) = {} THEN [payment[p] EXCEPT !.stage = "refused"]
    ELSE IF Cardinality(Cited(p)) > 1 THEN [payment[p] EXCEPT !.stage = "ambiguous"]
    ELSE [payment[p] EXCEPT !.stage = "stamp", !.found = CHOOSE t \in Cited(p) : TRUE]

payment_goes_on(p) ==
    /\ payment' = [payment EXCEPT ![p] =
                     CASE @.stage = "head" -> final_or_refused(p)
                       [] @.stage = "events" -> resolved(p)
                       [] OTHER -> [@ EXCEPT !.stage = "resolved"]]
    /\ UNCHANGED search

----------------------------------------------------------------------------
(* Which read a caller's program wants next, and on which network.         *)

Reading(r) == IF r = Searcher THEN search.stage \in {"head", "tip", "back", "bisect"}
              ELSE payment[r].stage \in {"head", "events", "stamp"}

NetworkOf(r) == IF r = Searcher /\ search.stage # "head" THEN "archive" ELSE "head"

(* A request arrives with a reference: parse_reference.                    *)
cite(p) ==
    /\ search.stage = "off" /\ payment[p].stage = "unasked"
    /\ \E c \in Citations : payment' = [payment EXCEPT ![p].stage = "head", ![p].cited = c]
    /\ UNCHANGED <<finalHead, content, search, sourceVars>>

(* The watcher tries again in its next pass, from the head of that moment. *)
search_again ==
    /\ search.stage = "future" /\ search.top < finalHead
    /\ search' = [SearchIdle EXCEPT !.when = search.when]
    /\ UNCHANGED <<finalHead, content, payment, sourceVars>>

(* `async with self._lock`: a caller gets in line.                         *)
ask(r) ==
    /\ phase[r] = "idle" /\ Reading(r)
    /\ lockTurns' = Append(lockTurns, r)
    /\ phase' = [phase EXCEPT ![r] = "waiting"]
    /\ UNCHANGED <<finalHead, content, search, payment, using, current, clientsMade, left, shut, readTroubles>>

(* A caller that is cancelled in the line leaves it.                       *)
leave_line(p) ==
    /\ phase[p] = "waiting"
    /\ \E i \in DOMAIN lockTurns :
          /\ lockTurns[i] = p
          /\ lockTurns' = SubSeq(lockTurns, 1, i - 1) \o SubSeq(lockTurns, i + 1, Len(lockTurns))
    /\ phase' = [phase EXCEPT ![p] = "idle"]
    /\ payment' = [payment EXCEPT ![p].stage = "unavailable"]
    /\ UNCHANGED <<finalHead, content, search, using, current, clientsMade, left, shut, readTroubles>>

(* The held connection, or a new one that is remembered before it is open. *)
_connect(r) ==
    /\ phase[r] = "waiting" /\ Head(lockTurns) = r
    /\ IF current[NetworkOf(r)] = NoClient
       THEN /\ clientsMade' = clientsMade + 1
            /\ current' = [current EXCEPT ![NetworkOf(r)] = clientsMade + 1]
       ELSE UNCHANGED <<clientsMade, current>>
    /\ using' = [using EXCEPT ![r] = current'[NetworkOf(r)]]
    /\ phase' = [phase EXCEPT ![r] = "reading"]
    /\ UNCHANGED <<finalHead, content, search, payment, lockTurns, left, shut, readTroubles>>

Leave(r) ==
    /\ lockTurns' = Tail(lockTurns)
    /\ phase' = [phase EXCEPT ![r] = "idle"]
    /\ using' = [using EXCEPT ![r] = NoClient]

answered(r) ==
    /\ phase[r] = "reading"
    /\ Leave(r)
    /\ IF r = Searcher THEN search_goes_on ELSE payment_goes_on(r)
    /\ UNCHANGED <<finalHead, content, current, clientsMade, left, shut, readTroubles>>

(* What the caller is told: the watcher starts over, a request is refused  *)
(* as unavailable.                                                         *)
ChainUnavailable(r) ==
    IF r = Searcher
    THEN search' = [SearchIdle EXCEPT !.when = search.when] /\ UNCHANGED payment
    ELSE payment' = [payment EXCEPT ![r].stage = "unavailable"] /\ UNCHANGED search

(* A timed-out read that keeps the connection for the next caller.         *)
keep_connection(r) == UNCHANGED <<current, shut>>

(* _drop: the connection is forgotten first, then closed.                  *)
_drop(r) ==
    /\ current' = [n \in Networks |-> IF current[n] = using[r] THEN NoClient ELSE current[n]]
    /\ shut' = shut \cup {using[r]}

(* A read raises, or its time runs out, or its caller goes away: in the    *)
(* last two the operation is cancelled and may still be running.           *)
goes_wrong(r) ==
    /\ phase[r] = "reading" /\ readTroubles < MaxReadTroubles
    /\ readTroubles' = readTroubles + 1
    /\ _drop(r)
    /\ left' \in {left, left \cup {<<"read", using[r]>>}}
    /\ phase' = [phase EXCEPT ![r] = "dropping"]
    /\ ChainUnavailable(r)
    /\ UNCHANGED <<finalHead, content, lockTurns, using, clientsMade>>

(* close() ends or is given up like any other operation.                   *)
close_is_bounded(r) == left' \in {left, left \cup {<<"close", using[r]>>}}

dropped(r) ==
    /\ phase[r] = "dropping"
    /\ close_is_bounded(r)
    /\ Leave(r)
    /\ UNCHANGED <<finalHead, content, search, payment, current, clientsMade, shut, readTroubles>>

(* A cancelled operation ends after all.                                   *)
_cleanup_finished ==
    /\ \E t \in left : left' = left \ {t}
    /\ UNCHANGED <<finalHead, content, search, payment, lockTurns, phase, using, current, clientsMade, shut, readTroubles>>

_read(r) == _connect(r) \/ answered(r) \/ goes_wrong(r) \/ dropped(r)

ChainReadsNext ==
    \/ finalize \/ reorganize \/ search_again \/ _cleanup_finished
    \/ \E p \in Payers : cite(p) \/ leave_line(p)
    \/ \E r \in ReadCallers : ask(r) \/ _read(r)

(* asyncio runs the callers, and every operation a caller waits for has a  *)
(* timer; nothing makes a cancelled operation end.                         *)
ChainReadsSpec ==
    /\ ChainReadsInit /\ [][ChainReadsNext]_chainReadsVars
    /\ \A r \in ReadCallers : WF_chainReadsVars(_read(r))

----------------------------------------------------------------------------
(* A connection in use is driven by one operation: no cancelled read or    *)
(* close that is still running has hold of a client that _connect hands    *)
(* out ("the underlying client is not safe to drive concurrently").        *)
ClientIsDrivenAlone ==
    /\ \A t \in left : t[2] \notin Range(current)
    /\ Cardinality({r \in ReadCallers : phase[r] \in {"reading", "dropping"}}) <= 1

(* No websocket is lost track of: every client ever made is the held one   *)
(* of its network or had close() called on it, which also wakes whatever   *)
(* was left running on it.                                                 *)
ConnectionsAreClosed == \A c \in 1 .. clientsMade : c \in Range(current) \/ c \in shut

(* Whatever heads the passes saw and whichever reads failed in between,    *)
(* the search ends at the earliest block at or after the configured time:  *)
(* a later one would never credit the transfers in between.                *)
SearchFindsTheFirst ==
    search.stage = "found" =>
        /\ TimeOf[search.high] >= search.when
        /\ \A b \in 1 .. Tip : TimeOf[b] >= search.when => search.high <= b

(* A payment that was confirmed stays on the chain, and it is the only one *)
(* its reference can mean.                                                 *)
ResolvedIsTheCited ==
    \A p \in Payers : payment[p].stage \in {"stamp", "resolved"} =>
        Cited(p) = {payment[p].found}

(* Nobody waits for ever on the lock or on the chain: a read, its timeout  *)
(* and the close after it all end although the node answers nothing.       *)
CallsReturn == \A r \in ReadCallers : []<>(phase[r] = "idle")

(* What the reader of the chain keeps: one operation per client, no client *)
(* lost, and answers about the block and the payment that were asked for.  *)
ReadsAreSound == ClientIsDrivenAlone /\ ConnectionsAreClosed /\ SearchFindsTheFirst /\ ResolvedIsTheCited
=============================================================================

--------------------------- MODULE TelemetryQueue ---------------------------
(***************************************************************************)
(* Shipping events to Axiom (src/conjectures_subnet/axiom): every thread   *)
(* of a process puts events on a bounded queue and goes on; one daemon     *)
(* thread takes them off, adds its own heartbeats, and posts batches that  *)
(* may fail; close() asks that thread to flush, and waits for it for a     *)
(* bounded time while other threads may still be logging.                  *)
(*                                                                         *)
(* An event is the number of the call that made it.  A heartbeat carries   *)
(* the number of events it reports as dropped or failed.                   *)
(***************************************************************************)
EXTENDS Integers, Sequences, FiniteSets, Functions

CONSTANTS
    QueueSize,     \* queue_size
    BatchEvents,   \* batch_events
    MaxLogged,     \* bound: calls of ingest
    MaxBeats       \* bound: heartbeats that fall due

ASSUME TelemetryBounds == /\ QueueSize \in Nat \ {0} /\ BatchEvents \in Nat \ {0}
                          /\ MaxLogged \in Nat /\ MaxBeats \in Nat

VARIABLES
    line,      \* _queue
    pending,   \* the batch _drain is collecting
    drainer,   \* where the daemon thread is, and the item it last took
    counts,    \* _sent, _dropped, _failed
    reported,  \* dropped + failed as of the last heartbeat: _reported
    told,      \* what the heartbeats in the dataset say is missing
    untold,    \* what the heartbeats say that were lost with their batch
    logged,      \* calls of ingest so far
    beats,     \* heartbeats so far
    closer     \* close(): where it is, and how many calls came before it

telemetryVars == <<line, pending, drainer, counts, reported, told, untold, logged, beats, closer>>

Shutdown == 0                       \* _SHUTDOWN
Beat(n) == -1 - n                   \* telemetry_heartbeat, reporting n missing events
IsBeat(e) == e < 0
Missing == counts.dropped + counts.failed
ReportedBy(events) == SumFunction([i \in DOMAIN events |-> IF IsBeat(events[i]) THEN -1 - events[i] ELSE 0])

TelemetryInit ==
    /\ line = <<>> /\ pending = <<>>
    /\ drainer = [at |-> "waiting", item |-> "none"]
    /\ counts = [sent |-> 0, dropped |-> 0, failed |-> 0]
    /\ reported = 0 /\ told = 0 /\ untold = 0
    /\ logged = 0 /\ beats = 0
    /\ closer = [at |-> "open", before |-> MaxLogged]

----------------------------------------------------------------------------
(* A logging call or an explicit event, from any thread at any time.      *)

ingest ==
    /\ logged < MaxLogged
    /\ logged' = logged + 1
    /\ IF Len(line) < QueueSize
       THEN line' = Append(line, logged + 1) /\ UNCHANGED counts
       ELSE counts' = [counts EXCEPT !.dropped = @ + 1] /\ UNCHANGED line
    /\ UNCHANGED <<pending, drainer, reported, told, untold, beats, closer>>

(* close(): the flag first, then the sentinel if there is room for it,    *)
(* then a wait for the thread that may give up.                           *)
close ==
    /\ closer.at = "open"
    /\ closer' = [at |-> "stopping", before |-> logged]
    /\ UNCHANGED <<line, pending, drainer, counts, reported, told, untold, logged, beats>>

wake ==
    /\ closer.at = "stopping"
    /\ closer' = [closer EXCEPT !.at = "joining"]
    /\ line' = IF Len(line) < QueueSize THEN Append(line, Shutdown) ELSE line
    /\ UNCHANGED <<pending, drainer, counts, reported, told, untold, logged, beats>>

join ==
    /\ closer.at = "joining"
    /\ closer' = [closer EXCEPT !.at = "closed"]
    /\ UNCHANGED <<line, pending, drainer, counts, reported, told, untold, logged, beats>>

----------------------------------------------------------------------------
(* The daemon thread.  get() returns the oldest item, or nothing once the *)
(* queue has been empty for the flush interval.                           *)

Collected(item) == IF item = Shutdown THEN pending ELSE Append(pending, item)

get ==
    /\ drainer.at = "waiting"
    /\ \/ /\ line # <<>>
          /\ drainer' = [at |-> "taken", item |-> IF Head(line) = Shutdown THEN "shutdown" ELSE "event"]
          /\ pending' = Collected(Head(line)) /\ line' = Tail(line)
       \/ /\ line = <<>>
          /\ drainer' = [at |-> "taken", item |-> "none"] /\ UNCHANGED <<line, pending>>
    /\ UNCHANGED <<counts, reported, told, untold, logged, beats, closer>>

(* A heartbeat reports what went missing since the last one.              *)
_heartbeat ==
    \/ /\ beats < MaxBeats
       /\ beats' = beats + 1 /\ reported' = Missing
       /\ pending' = Append(pending, Beat(Missing - reported))
    \/ UNCHANGED <<beats, reported, pending>>

Stopping == drainer.item = "shutdown" \/ closer.at # "open"

look_at_item ==
    /\ drainer.at = "taken"
    /\ _heartbeat
    /\ drainer' = [drainer EXCEPT !.at = IF Stopping THEN "draining" ELSE "collected"]
    /\ UNCHANGED <<line, counts, told, untold, logged, closer>>

(* get_nowait() until the queue is empty; others may still be adding.     *)
drain ==
    /\ drainer.at = "draining"
    /\ IF line # <<>>
       THEN pending' = Collected(Head(line)) /\ line' = Tail(line) /\ UNCHANGED drainer
       ELSE drainer' = [drainer EXCEPT !.at = "last"] /\ UNCHANGED <<line, pending>>
    /\ UNCHANGED <<counts, reported, told, untold, logged, beats, closer>>

Flushes == pending # <<>> /\ (drainer.at = "last" \/ drainer.item = "none" \/ Len(pending) >= BatchEvents)
Onwards == drainer' = [drainer EXCEPT !.at = IF @ = "last" THEN "ended" ELSE "waiting"]

(* One request for the whole batch, never retried.                        *)
_post ==
    /\ drainer.at \in {"collected", "last"} /\ Flushes
    /\ \/ /\ counts' = [counts EXCEPT !.sent = @ + Len(pending)]
          /\ told' = told + ReportedBy(pending) /\ UNCHANGED untold
       \/ /\ counts' = [counts EXCEPT !.failed = @ + Len(pending)]
          /\ untold' = untold + ReportedBy(pending) /\ UNCHANGED told
    /\ pending' = <<>> /\ Onwards
    /\ UNCHANGED <<line, reported, logged, beats, closer>>

keep_collecting ==
    /\ drainer.at \in {"collected", "last"} /\ ~Flushes
    /\ Onwards
    /\ UNCHANGED <<line, pending, counts, reported, told, untold, logged, beats, closer>>

_drain == get \/ look_at_item \/ drain \/ _post \/ keep_collecting

TelemetryNext == ingest \/ close \/ wake \/ join \/ _drain

TelemetrySpec == TelemetryInit /\ [][TelemetryNext]_telemetryVars /\ WF_telemetryVars(_drain)

----------------------------------------------------------------------------
Offered(items) == {i \in DOMAIN items : items[i] # Shutdown}

(* Nothing is lost in silence: every event a thread offered and every     *)
(* heartbeat is sent, failed, dropped, or still on its way.               *)
EveryEventIsCounted ==
    logged + beats = counts.sent + counts.failed + counts.dropped + Cardinality(Offered(line)) + Len(pending)

(* What went missing is put into exactly one heartbeat: the heartbeats    *)
(* made so far add up to the totals as of the last one.                   *)
MissingIsToldOnce == told + untold + ReportedBy(pending) = reported

(* "A clean shutdown loses nothing that was accepted before close() was   *)
(* called": when the thread has ended, whatever is left on the queue was  *)
(* offered after close().                                                 *)
ShutdownFlushes == drainer.at = "ended" =>
    /\ pending = <<>>
    /\ \A i \in Offered(line) : line[i] > closer.before

(* A quiet process still reports promptly: the queue and the batch run    *)
(* empty again and again, or the thread has ended.                        *)
BatchesAreFlushed == []<>(drainer.at = "ended" \/ (line = <<>> /\ pending = <<>>))
=============================================================================

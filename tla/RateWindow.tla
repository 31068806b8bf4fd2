----------------------------- MODULE RateWindow -----------------------------
(***************************************************************************)
(* The in-process sliding windows of the API (src/submission_api/          *)
(* ratelimit.py) as its two users drive them: the middleware charges every *)
(* request, password_login looks first and charges a failed guess after    *)
(* the password has been checked, with the clock it read at the start.     *)
(*                                                                         *)
(* A limiter is an ordered dictionary: a sequence of entries, the one      *)
(* checked last at the end, that is cut down to max_clients by dropping    *)
(* idle entries from the front.                                            *)
(***************************************************************************)
EXTENDS Integers, Sequences, SequencesExt, FiniteSetsExt

CONSTANTS
    Clients,      \* addresses that send requests
    Mailboxes,    \* addresses whose password is guessed
    Guesses,      \* sign-in attempts that may be under way at once
    HitLimit,     \* limit
    WindowTicks,  \* window_seconds
    MaxKeys,      \* max_clients
    MaxSeconds,   \* bound: time that passes
    MaxHits       \* bound: requests admitted, and guesses that fail

ASSUME RateBounds == /\ HitLimit \in Nat \ {0} /\ WindowTicks \in Nat \ {0}
                     /\ MaxKeys \in Nat \ {0} /\ MaxSeconds \in Nat /\ MaxHits \in Nat
                     /\ IsFiniteSet(Guesses) /\ Guesses # {} /\ IsFiniteSet(Mailboxes)

VARIABLES
    requests_,  \* the request limiter's _hits
    failures_,  \* password_failures' _hits
    second,     \* the monotonic clock
    attempt,    \* what each sign-in attempt is doing
    admitted,   \* when each caller's requests were admitted
    missed,     \* when each mailbox's failed attempts began
    retry       \* when a refused caller was told to come back, 0 if it was not

rateVars == <<requests_, failures_, second, attempt, admitted, missed, retry>>

NoAttempt == [on |-> "", clock |-> 0]

RateInit ==
    /\ requests_ = <<>> /\ failures_ = <<>>
    /\ second = 1
    /\ attempt = [g \in Guesses |-> NoAttempt]
    /\ admitted = [c \in Clients |-> <<>>]
    /\ missed = [k \in Mailboxes |-> <<>>]
    /\ retry = [c \in Clients |-> 0]

----------------------------------------------------------------------------
(* SlidingWindowLimiter.                                                  *)

Tracked(table, key) == \E i \in DOMAIN table : table[i].key = key
Place(table, key) == CHOOSE i \in DOMAIN table : table[i].key = key
Times(table, key) == IF Tracked(table, key) THEN table[Place(table, key)].times ELSE <<>>

(* Only the front is looked at: a hit behind a younger one stays.         *)
_prune(times, at) ==
    LET young == {i \in DOMAIN times : times[i] > at - WindowTicks}
    IN  IF young = {} THEN <<>> ELSE SubSeq(times, Min(young), Len(times))

IdleEntry(e, at) == e.times = <<>> \/ Last(e.times) <= at - WindowTicks

(* The coldest entry is dropped whether or not it is idle. *)
evict_the_coldest(table, at) ==
    IF Len(table) > MaxKeys THEN SubSeq(table, 1 + Len(table) - MaxKeys, Len(table)) ELSE table

_evict(table, at) ==
    LET busy == {i \in DOMAIN table : ~IdleEntry(table[i], at)}
        idle == IF busy = {} THEN Len(table) ELSE Min(busy) - 1
        over == IF Len(table) > MaxKeys THEN Len(table) - MaxKeys ELSE 0
    IN  SubSeq(table, Min({idle, over}) + 1, Len(table))

MovedToEnd(table, key, times) ==
    Append(IF Tracked(table, key) THEN RemoveAt(table, Place(table, key)) ELSE table, [key |-> key, times |-> times])

peek(table, key, at) == Len(_prune(Times(table, key), at)) < HitLimit

Refusal(table, key, times) == [allowed |-> FALSE, table |-> MovedToEnd(table, key, times)]

check(table, key, at) ==
    LET times == _prune(Times(table, key), at)
    IN  IF Len(times) >= HitLimit
        THEN Refusal(table, key, times)
        ELSE [allowed |-> TRUE, table |-> _evict(MovedToEnd(table, key, Append(times, at)), at)]

reset_seconds(table, key) == Head(Times(table, key)) + WindowTicks

----------------------------------------------------------------------------
(* RateLimitMiddleware: a request is charged, or told when to come back.  *)

request(c) ==
    LET decision == check(requests_, c, second)
    IN  /\ requests_' = decision.table
        /\ IF decision.allowed
           THEN /\ Len(admitted[c]) < MaxHits
                /\ admitted' = [admitted EXCEPT ![c] = Append(@, second)]
                /\ retry' = [retry EXCEPT ![c] = 0]
           ELSE /\ retry' = [retry EXCEPT ![c] = reset_seconds(decision.table, c)]
                /\ UNCHANGED admitted
        /\ UNCHANGED <<failures_, second, attempt, missed>>

(* password_login: peek, which prunes what it looks at, then a derivation *)
(* off the event loop, then the charge if the password was wrong.         *)
Pruned(table, key, at) ==
    [i \in DOMAIN table |-> IF table[i].key = key THEN [table[i] EXCEPT !.times = _prune(@, at)] ELSE table[i]]

guess_password(g, k) ==
    /\ attempt[g] = NoAttempt
    /\ failures_' = Pruned(failures_, k, second)
    /\ attempt' = [attempt EXCEPT ![g] = IF peek(failures_, k, second) THEN [on |-> k, clock |-> second] ELSE NoAttempt]
    /\ UNCHANGED <<requests_, second, admitted, missed, retry>>

password_wrong(g) ==
    /\ attempt[g] # NoAttempt /\ Len(missed[attempt[g].on]) < MaxHits
    /\ failures_' = check(failures_, attempt[g].on, attempt[g].clock).table
    /\ missed' = [missed EXCEPT ![attempt[g].on] = Append(@, attempt[g].clock)]
    /\ attempt' = [attempt EXCEPT ![g] = NoAttempt]
    /\ UNCHANGED <<requests_, second, admitted, retry>>

password_right(g) ==
    /\ attempt[g] # NoAttempt
    /\ attempt' = [attempt EXCEPT ![g] = NoAttempt]
    /\ UNCHANGED <<requests_, failures_, second, admitted, missed, retry>>

second_passes == second < MaxSeconds /\ second' = second + 1
                 /\ UNCHANGED <<requests_, failures_, attempt, admitted, missed, retry>>

RequestsNext == \/ \E c \in Clients : request(c)
                \/ second_passes
GuessesNext == \/ \E g \in Guesses : (\E k \in Mailboxes : guess_password(g, k)) \/ password_wrong(g) \/ password_right(g)
               \/ second_passes

RateSpec == RateInit /\ [][RequestsNext \/ GuessesNext]_rateVars

----------------------------------------------------------------------------
Within(times, at) == Cardinality({i \in DOMAIN times : times[i] > at - WindowTicks /\ times[i] <= at})

(* Sliding, not fixed: no caller has more than the limit admitted in any  *)
(* stretch of one window, and being dropped from the table while others   *)
(* crowd it does not give a caller its budget back.                       *)
WindowHolds == \A c \in Clients, at \in 1..MaxSeconds : Within(admitted[c], at) <= HitLimit

(* Retry-After is kept: while a caller only waits and is refused, the     *)
(* moment it was told to come back does not move.                         *)
RetryAfterIsKept == \A c \in Clients : retry[c] # 0 /\ retry'[c] # 0 => retry'[c] = retry[c]

(* Guessing is bounded although the charge comes after the look and a     *)
(* refused charge is not recorded: a failure that is recorded lets         *)
(* through uncounted only what was under way at that moment, and what was  *)
(* under way when the window began may do the same once more.  This is     *)
(* while the table has room for every mailbox that is guessed at.          *)
Together == Cardinality(Guesses) - 1

GuessesAreBounded == Cardinality(Mailboxes) <= MaxKeys =>
    \A k \in Mailboxes, at \in 1..MaxSeconds :
        Within(missed[k], at) <= HitLimit + HitLimit * Together + Together * Together

=============================================================================

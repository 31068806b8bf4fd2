----------------------------- MODULE PriceFeeds -----------------------------
(***************************************************************************)
(* The TAO/USD price an invoice is sized with (submission_api/rates.py,    *)
(* taostats.py): three sources tried in order, each behind a cache of its  *)
(* own with a lock around its request.  The market's price at a tick is    *)
(* the tick itself, so that a price shows its age.                         *)
(***************************************************************************)
EXTENDS Integers, FiniteSets

CONSTANTS Callers,        \* purchases that ask for the price
          RatesTtl,       \* RATES_CACHE_SECONDS
          CandlePeriod,   \* CANDLE_PERIOD_SECONDS
          MaxCandleAge,   \* MAX_CANDLE_AGE_SECONDS
          MaxStale,       \* MAX_STALE_SECONDS
          StatsTtl,       \* taostats_price_cache_seconds
          MaxMinutes,     \* bound: clock
          MaxFetchFailures     \* bound: times a source goes down or a candle is missing

ASSUME PriceConstants == {RatesTtl, CandlePeriod, StatsTtl} \subseteq Nat \ {0}
                         /\ {MaxCandleAge, MaxStale, MaxMinutes, MaxFetchFailures} \subseteq Nat
                         \* A minute and five minutes of cache, an hour of staleness.
                         /\ RatesTtl <= MaxStale + 1 /\ CandlePeriod <= MaxStale + 1

(* The order of build_tao_usd_reader.                                      *)
Sources == {"tmc", "candles", "taostats"}
NextSource == [tmc |-> "candles", candles |-> "taostats", taostats |-> "none"]
NoPrice == -1

VARIABLES minute,         \* the clock
          answers,        \* whether each source answers
          candle,         \* the newest candle's timestamp
          fetchFaults,         \* counter for the bound
          kept,           \* each reader's cache
          asking,         \* who holds each reader's lock
          calls,          \* the calls of tao_usd in progress
          lastGood        \* history: when each source last answered with a price

priceVars == <<minute, answers, candle, fetchFaults, kept, asking, calls, lastGood>>

NothingKept == [price |-> NoPrice, at |-> NoPrice, expires |-> 0]
NoCall == [at |-> "idle", src |-> "tmc", got |-> NoPrice, failed |-> {}, unpriced |-> {}]

PricesInit ==
    /\ minute = 0 /\ answers = [s \in Sources |-> TRUE] /\ candle = 0 /\ fetchFaults = 0
    /\ kept = [s \in Sources |-> NothingKept]
    /\ asking = [s \in Sources |-> "free"] /\ calls = [c \in Callers |-> NoCall]
    /\ lastGood = [s \in Sources |-> NoPrice]

-----------------------------------------------------------------------------
floor_to_period(m) == m - (m % CandlePeriod)
next_boundary(m) == floor_to_period(m) + CandlePeriod

(* newest_candle: a feed with a gap is no answer.                          *)
newest_candle == IF minute - candle > MaxCandleAge THEN NoPrice ELSE candle

(* What a request to the source comes back with.                           *)
_fetch(s) == IF ~answers[s] THEN NoPrice ELSE IF s = "candles" THEN newest_candle ELSE minute

Expiry(s) == CASE s = "tmc" -> minute + RatesTtl
               [] s = "candles" -> next_boundary(minute)
               [] s = "taostats" -> minute + StatsTtl

(* Only TaoStats keeps a failure; what it keeps it answers with.           *)
Cached(s) == minute < kept[s].expires /\ (s = "taostats" \/ kept[s].price # NoPrice)

(* _still_usable: the last good price, for MaxStale.                       *)
_still_usable(s) == IF kept[s].at = NoPrice \/ minute - kept[s].at > MaxStale THEN NoPrice ELSE kept[s].price

CallBecomes(c, r) == calls' = [calls EXCEPT ![c] = r]

(* FallbackTaoUsdPriceReader: the first quote, else the next reader.       *)
Answer(c, price, failed) ==
    LET s == calls[c].src
        done == price # NoPrice \/ NextSource[s] = "none"
    IN  CallBecomes(c, [at |-> IF done THEN "answered" ELSE "asks", src |-> IF done THEN s ELSE NextSource[s],
                        got |-> price, failed |-> calls[c].failed \cup failed,
                        unpriced |-> calls[c].unpriced \cup {f \in failed : lastGood[f] = NoPrice \/ minute - lastGood[f] > MaxStale}])

tao_usd(c) == /\ calls[c].at = "idle" /\ CallBecomes(c, [NoCall EXCEPT !.at = "asks"])
              /\ UNCHANGED <<minute, answers, candle, fetchFaults, kept, asking, lastGood>>

(* The cached price, before the lock or for who waited on it.              *)
ReadCache(c) ==
    LET s == calls[c].src
    IN  /\ calls[c].at \in {"asks", "waits"} /\ Cached(s) /\ (calls[c].at = "waits" => asking[s] = "free")
        /\ Answer(c, kept[s].price, IF kept[s].price = NoPrice THEN {s} ELSE {})
        /\ UNCHANGED <<minute, answers, candle, fetchFaults, kept, asking, lastGood>>

WaitForLock(c) ==
    /\ calls[c].at = "asks" /\ ~Cached(calls[c].src)
    /\ CallBecomes(c, [calls[c] EXCEPT !.at = "waits"])
    /\ UNCHANGED <<minute, answers, candle, fetchFaults, kept, asking, lastGood>>

(* Under the lock the cache is looked at again.                            *)
AskSource(c) ==
    LET s == calls[c].src
    IN  /\ calls[c].at = "waits" /\ asking[s] = "free" /\ ~Cached(s)
        /\ asking' = [asking EXCEPT ![s] = c] /\ CallBecomes(c, [calls[c] EXCEPT !.at = "fetching"])
        /\ UNCHANGED <<minute, answers, candle, fetchFaults, kept, lastGood>>

(* A failed refresh leaves the cache alone, except TaoStats'.              *)
Keeps(s, got) == IF got # NoPrice \/ s = "taostats" THEN [price |-> got, at |-> minute, expires |-> Expiry(s)]
                 ELSE kept[s]

Fetched(c) ==
    LET s == calls[c].src
        got == _fetch(s)
    IN  /\ calls[c].at = "fetching"
        /\ kept' = [kept EXCEPT ![s] = Keeps(s, got)]
        /\ asking' = [asking EXCEPT ![s] = "free"]
        /\ Answer(c, IF got = NoPrice /\ s # "taostats" THEN _still_usable(s) ELSE got, IF got = NoPrice THEN {s} ELSE {})
        /\ lastGood' = IF got = NoPrice THEN lastGood ELSE [lastGood EXCEPT ![s] = minute]
        /\ UNCHANGED <<minute, answers, candle, fetchFaults>>

(* The purchase goes on with the quote, or is refused.                     *)
CallReturns(c) == /\ calls[c].at = "answered" /\ CallBecomes(c, NoCall)
                  /\ UNCHANGED <<minute, answers, candle, fetchFaults, kept, asking, lastGood>>

-----------------------------------------------------------------------------
(* The sources and the clock.  A request lasts seconds, a tick a minute.   *)

SourceChanges(s) == /\ answers[s] => fetchFaults < MaxFetchFailures
                    /\ fetchFaults' = fetchFaults + (IF answers[s] THEN 1 ELSE 0)
                    /\ answers' = [answers EXCEPT ![s] = ~answers[s]]
                    /\ UNCHANGED <<minute, candle, kept, asking, calls, lastGood>>
MinutePasses(gap) ==
    /\ minute < MaxMinutes /\ \A c \in Callers : calls[c].at = "idle"
    /\ gap => fetchFaults < MaxFetchFailures
    /\ minute' = minute + 1 /\ fetchFaults' = fetchFaults + (IF gap THEN 1 ELSE 0)
    /\ candle' = IF gap THEN candle ELSE floor_to_period(minute + 1)
    /\ UNCHANGED <<answers, kept, asking, calls, lastGood>>

PricesNext ==
    \/ \E c \in Callers : tao_usd(c) \/ ReadCache(c) \/ WaitForLock(c) \/ AskSource(c) \/ Fetched(c) \/ CallReturns(c)
    \/ \E s \in Sources : SourceChanges(s)
    \/ \E gap \in BOOLEAN : MinutePasses(gap)

PricesSpec == PricesInit /\ [][PricesNext]_priceVars

-----------------------------------------------------------------------------
(* Properties.                                                             *)

\* "Bounded all the same": no purchase is sized with a price older than its source's
\* limit, through any chain of outages, gaps and fallbacks.
OldestOf(s) == CASE s = "tmc" -> MaxStale [] s = "candles" -> MaxStale + MaxCandleAge [] s = "taostats" -> StatsTtl
PriceIsRecent ==
    \A c \in Callers : calls[c].at = "answered" /\ calls[c].got # NoPrice => minute - calls[c].got <= OldestOf(calls[c].src)

\* "Never cache a failure": a sale is refused only if each of the two preferred sources
\* failed this very call, not an earlier one, and neither had a price to fall back on.
RefusedOnlyInOutage ==
    \A c \in Callers : calls[c].at = "answered" /\ calls[c].got = NoPrice => {"tmc", "candles"} \subseteq calls[c].unpriced

\* "One outbound pair per process and cache window even when a page of bounties arrives
\* concurrently": nobody asks a source whose cache is current.
OneRequestPerWindow == \A s \in Sources : asking[s] = "free" /\ asking'[s] # "free" => ~Cached(s)
=============================================================================

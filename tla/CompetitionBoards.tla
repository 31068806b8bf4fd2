------------------------- MODULE CompetitionBoards -------------------------
(***************************************************************************)
(* What the competitions show.                                             *)
(*                                                                         *)
(* The compression competition (routers/competition_reads.py,              *)
(* compression_store.py, compression_views.py): listings read page by page *)
(* with a cursor that pins a scoring pass, a cache of parsed passes shared *)
(* by the requests of one process, and sources, which stay private while   *)
(* they are or may be the best.                                            *)
(*                                                                         *)
(* The king-of-the-hill competitions: FloatLib (floatlib_store.py,         *)
(* routers/floatlib.py), whose pages are put together from statements of   *)
(* different moments, and TorchLean (torchlean_reads.py,                   *)
(* routers/torchlean_public.py), whose pages are one REPEATABLE READ       *)
(* snapshot.                                                               *)
(*                                                                         *)
(* The tables are written by the competitions' own coordinators, verifiers *)
(* and scorers.                                                            *)
(***************************************************************************)
EXTENDS Integers, FiniteSets, FiniteSetsExt, Sequences, SequencesExt

CONSTANTS Entries,       \* submission ids
          Miner,         \* Miner[e]: the hotkey of e, a number; 0 for a published baseline
          SubmittedAt,   \* SubmittedAt[e]: when the transaction that inserts e began
          Metric,        \* Metric[e]: the measured value of e, lower is better
          Lookers,       \* requests for a source
          PassesKept,    \* _SNAPSHOTS_KEPT
          RowsPerPage,
          MaxPasses,     \* bound: scoring passes
          MaxRuns        \* bound: MaxRuns[e], the benchmark runs of e

ASSUME CompressionAssumption ==
    /\ Entries \subseteq Nat /\ PassesKept \in Nat \ {0} /\ RowsPerPage \in Nat \ {0}

VARIABLES boardEntries,    \* entries[e]: the submissions table, at = 0 before its commit
          passes,     \* weight_sets with their score_snapshots, by id
          parsed,     \* _SNAPSHOTS, oldest first
          lookers,    \* lookers[c]: a request for a source
          pager       \* a client that reads one listing to its end

compressionVars == <<boardEntries, passes, parsed, lookers, pager>>

NoEntry == [at |-> 0, state |-> "queued", aggregation |-> 0, check_of |-> 0]
NoLook == [at |-> "none"]
NoPager == [kind |-> "none"]

(* The baselines are in place from the start.                              *)
CompressionInit ==
    /\ boardEntries = [e \in Entries |-> IF Miner[e] # 0 THEN NoEntry
                                    ELSE [at |-> SubmittedAt[e], state |-> "accepted", aggregation |-> 1, check_of |-> 1]]
    /\ passes = <<>> /\ parsed = <<>>
    /\ lookers = [c \in Lookers |-> NoLook]
    /\ pager = NoPager

-----------------------------------------------------------------------------
(* What the statements and the views select.                               *)

Public == {e \in Entries : boardEntries[e].at > 0}

GATE == [queued |-> "queued", verifying |-> "running", accepted |-> "passed", rejected |-> "failed", error |-> "error"]

(* PUBLISHED: a skipped epoch stores JSON null, which is no snapshot.      *)
IsPublished == {p \in DOMAIN passes : passes[p].published}
Newest == IF IsPublished = {} THEN 0 ELSE Max(IsPublished)

(* items: the scored submissions of a pass; 0 is no pass.                  *)
items(p) == IF p = 0 THEN {} ELSE passes[p].scored
OnFrontier(p) == IF p = 0 THEN {} ELSE passes[p].frontier

(* evidence: the selected aggregation, and the admission decision when it  *)
(* was made for that aggregation.                                          *)
evidence(e) ==
    [aggregation |-> boardEntries[e].aggregation,
     decision |-> IF boardEntries[e].state = "accepted" /\ boardEntries[e].check_of = boardEntries[e].aggregation
                  THEN boardEntries[e].check_of ELSE 0]

(* The view's admission, and the decision it renders: it names the         *)
(* submission's run as the candidate.                                      *)
admission(e) == IF evidence(e).decision > 0 THEN "recorded" ELSE "pending"
decision(e) == [shown |-> admission(e) = "recorded", candidate_aggregation_id |-> boardEntries[e].aggregation]

Before(e, f) == \/ boardEntries[e].at < boardEntries[f].at
                \/ boardEntries[e].at = boardEntries[f].at /\ e < f
NewestEntriesFirst(S) == SetToSortSeq(S, LAMBDA e, f : Before(f, e))
OldestEntriesFirst(S) == SetToSortSeq(S, Before)

(* _sort_value and _ranked: the rows the pinned pass has a value for, in   *)
(* its order, equal values newest first; then the others, newest first.    *)
_sort_value(e, p) == IF e \in items(p) THEN Metric[e] ELSE 0
_ranked(p) ==
    SetToSortSeq({e \in Public : _sort_value(e, p) > 0},
                 LAMBDA e, f : Metric[e] < Metric[f] \/ (Metric[e] = Metric[f] /\ Before(f, e)))
    \o NewestEntriesFirst({e \in Public : _sort_value(e, p) = 0})

(* The points of the plot, and the hotkeys by what they are paid.          *)
pareto_points(p) == SetToSortSeq(items(p), <)
Payable(p, h) == Cardinality({e \in OnFrontier(p) : Miner[e] = h})
rankings(p) ==
    SetToSortSeq({Miner[e] : e \in items(p)} \ {0},
                 LAMBDA h, k : Payable(p, h) > Payable(p, k) \/ (Payable(p, h) = Payable(p, k) /\ h < k))

(* The filters of the feed; frontier membership is the pinned pass's.      *)
MatchingEntries(filter, p) ==
    CASE filter = "passed" -> {e \in Public : GATE[boardEntries[e].state] = "passed"}
      [] filter = "frontier" -> Public \cap OnFrontier(p)
      [] OTHER -> Public

-----------------------------------------------------------------------------
(* The verifier and the scorer.                                            *)

(* A client keeps count of the rows that matched all the time it read.     *)
StillMatching ==
    pager' = IF pager.kind \in {"newest", "oldest"}
             THEN [pager EXCEPT !.steady = @ \cap {e \in Entries : \E f \in {pager.filter}, p \in {pager.pass} : e \in MatchingEntries(f, p)'}]
             ELSE pager

(* The entry is seen from its commit on, which is not in the order of the  *)
(* times.                                                                  *)
Enter(e) ==
    /\ boardEntries[e].at = 0
    /\ boardEntries' = [boardEntries EXCEPT ![e].at = SubmittedAt[e]]
    /\ UNCHANGED <<passes, parsed, lookers>> /\ StillMatching

Gate(e) ==
    /\ boardEntries[e].at > 0 /\ boardEntries[e].state = "queued"
    /\ \E ok \in BOOLEAN : boardEntries' = [boardEntries EXCEPT ![e].state = IF ok THEN "accepted" ELSE "rejected",
                                                      ![e].aggregation = IF ok THEN 1 ELSE 0]
    /\ UNCHANGED <<passes, parsed, lookers>> /\ StillMatching

(* A new benchmark run is selected; its admission is decided afterwards.   *)
Rerun(e) ==
    /\ boardEntries[e].aggregation \in 1..(MaxRuns[e] - 1)
    /\ boardEntries' = [boardEntries EXCEPT ![e].aggregation = @ + 1]
    /\ UNCHANGED <<passes, parsed, lookers>> /\ StillMatching

Admit(e) ==
    /\ boardEntries[e].aggregation > boardEntries[e].check_of
    /\ boardEntries' = [boardEntries EXCEPT ![e].check_of = boardEntries[e].aggregation]
    /\ UNCHANGED <<passes, parsed, lookers>> /\ StillMatching

(* A scoring pass, in one transaction: skipped, or the submissions with    *)
(* current evidence and a frontier among them.                             *)
Pass ==
    /\ Len(passes) < MaxPasses
    /\ LET scored == {e \in Public : evidence(e).decision > 0}
       IN  \/ passes' = Append(passes, [published |-> FALSE, scored |-> {}, frontier |-> {}, accepted |-> FALSE])
           \/ \E best \in SUBSET scored :
                 /\ scored # {} => best # {}
                 /\ passes' = Append(passes, [published |-> TRUE, scored |-> scored, frontier |-> best, accepted |-> FALSE])
    /\ UNCHANGED <<boardEntries, parsed, lookers, pager>>

(* The chain took the weights of the last pass: an UPDATE of its row, which *)
(* moves its xmin.                                                         *)
TakenByChain(p) ==
    /\ p = Len(passes) /\ passes[p].published /\ ~passes[p].accepted
    /\ passes' = [passes EXCEPT ![p].accepted = TRUE]
    /\ UNCHANGED <<boardEntries, parsed, lookers, pager>>

-----------------------------------------------------------------------------
(* Sources, and the cache of parsed passes.  Requests for a source change  *)
(* only the cache, listings nothing: they need not be mixed.               *)

(* The key: everything a reload could answer differently for.              *)
snapshot_key(p) == <<p, passes[p].accepted>>

Look(c, look) == /\ lookers' = [lookers EXCEPT ![c] = look]
                 /\ UNCHANGED <<boardEntries, passes, pager>>

(* snapshot's first statement, and the look into the cache that follows it *)
(* without giving way.                                                     *)
snapshot(c, e) ==
    /\ lookers[c].at = "none" /\ e \in Public /\ pager.kind = "none"
    /\ LET p == Newest
           found == SelectSeq(parsed, LAMBDA kept : kept.key = snapshot_key(p))
       IN  Look(c, IF p = 0 THEN [at |-> "loaded", entry |-> e, pass |-> 0, taken |-> FALSE]
                   ELSE IF found = <<>> THEN [at |-> "head", entry |-> e, pass |-> p, key |-> snapshot_key(p), head |-> passes[p].accepted]
                   ELSE [at |-> "loaded", entry |-> e, pass |-> p, head |-> passes[p].accepted, taken |-> found[1].taken])
    /\ UNCHANGED parsed

(* _load_snapshot, and its entry in the cache: the oldest ones make room.  *)
_load_snapshot(c) ==
    /\ lookers[c].at = "head"
    /\ LET look == lookers[c]
           entry == [key |-> look.key, taken |-> passes[look.pass].accepted]
           others == SelectSeq(parsed, LAMBDA kept : kept.key # look.key)
           room == SubSeq(others, Max({1, Len(others) - PassesKept + 2}), Len(others))
       IN  /\ parsed' = Append(room, entry)
           /\ Look(c, [at |-> "loaded", entry |-> look.entry, pass |-> look.pass, head |-> look.head, taken |-> entry.taken])

(* withhold: baselines are public; otherwise a source that the pass has    *)
(* not placed, or placed on the frontier, is withheld.                     *)
withhold(e, p) == Miner[e] # 0 /\ (e \notin items(p) \/ e \in OnFrontier(p))

(* sources: the row, its state, its place, its files.                      *)
sources(c) ==
    /\ lookers[c].at = "loaded"
    /\ LET look == lookers[c]
           e == look.entry
       IN  Look(c, [look EXCEPT !.at = IF boardEntries[e].state # "accepted" \/ withhold(e, look.pass) THEN "refused" ELSE "served"])
    /\ UNCHANGED parsed

AnsweredLook(c) ==
    /\ lookers[c].at \in {"served", "refused"}
    /\ Look(c, NoLook) /\ UNCHANGED parsed

-----------------------------------------------------------------------------
(* Listings.                                                               *)

Listings == {"newest", "oldest", "ranked", "pareto", "leaderboard"}

(* The first request names no cursor: the newest pass is pinned.  Ranked   *)
(* and frontier listings need one.                                         *)
open_listing(kind, filter) ==
    /\ pager.kind = "none" /\ \A c \in Lookers : lookers[c].at = "none"
    /\ filter # "all" => kind \in {"newest", "oldest"}
    /\ kind = "ranked" \/ filter = "frontier" => Newest > 0
    /\ pager' = [kind |-> kind, filter |-> filter, pass |-> Newest, after |-> 0, offset |-> 0, seen |-> <<>>, open |-> TRUE,
                 steady |-> MatchingEntries(filter, Newest)]
    /\ UNCHANGED <<boardEntries, passes, parsed, lookers>>

(* page_state: a cursor names the pass its listing began with.             *)
page_state(cursor) == cursor.pass

(* feed, by submitted_at: the rows beyond the cursor's row, one more than  *)
(* the page needs.                                                         *)
feed ==
    /\ pager.kind \in {"newest", "oldest"} /\ pager.open
    /\ LET all == MatchingEntries(pager.filter, page_state(pager))
           beyond == {e \in all : \/ pager.after = 0
                                  \/ pager.kind = "newest" /\ Before(e, pager.after)
                                  \/ pager.kind = "oldest" /\ Before(pager.after, e)}
           rows == IF pager.kind = "newest" THEN NewestEntriesFirst(beyond) ELSE OldestEntriesFirst(beyond)
           page == SubSeq(rows, 1, Min({Len(rows), RowsPerPage}))
       IN  pager' = IF Len(rows) > RowsPerPage THEN [pager EXCEPT !.seen = @ \o page, !.after = Last(page)]
                    ELSE [pager EXCEPT !.seen = @ \o page, !.open = FALSE]
    /\ UNCHANGED <<boardEntries, passes, parsed, lookers>>

(* The listings cut at an offset: the ranked feed from the live rows in    *)
(* the pinned pass's order, the plot and the ranking from the pass alone.  *)
OffsetRows(kind, p) ==
    CASE kind = "ranked" -> _ranked(p)
      [] kind = "pareto" -> pareto_points(p)
      [] OTHER -> rankings(p)

offset_page ==
    /\ pager.kind \in {"ranked", "pareto", "leaderboard"} /\ pager.open
    /\ LET p == page_state(pager)
           rows == OffsetRows(pager.kind, p)
           end == pager.offset + RowsPerPage
       IN  pager' = [pager EXCEPT !.seen = @ \o SubSeq(rows, pager.offset + 1, Min({Len(rows), end})),
                                  !.offset = end, !.open = end < Len(rows)]
    /\ UNCHANGED <<boardEntries, passes, parsed, lookers>>

close_listing ==
    /\ pager.kind # "none" /\ ~pager.open /\ pager' = NoPager
    /\ UNCHANGED <<boardEntries, passes, parsed, lookers>>

CompressionNext ==
    \/ \E e \in Entries : Enter(e) \/ Gate(e) \/ Rerun(e) \/ Admit(e)
    \/ Pass \/ \E p \in DOMAIN passes : TakenByChain(p)
    \/ \E c \in Lookers : (\E e \in Entries : snapshot(c, e)) \/ _load_snapshot(c) \/ sources(c) \/ AnsweredLook(c)
    \/ \E kind \in Listings, filter \in {"all", "passed", "frontier"} : open_listing(kind, filter)
    \/ feed \/ offset_page \/ close_listing

CompressionSpec == CompressionInit /\ [][CompressionNext]_compressionVars

-----------------------------------------------------------------------------
(* Properties.                                                             *)

\* A listing read to its end shows one pass: the plot and the ranking are exactly the
\* pinned pass's, each line once, although passes come between the pages; a feed by
\* time shows no row twice and misses no row that matched all the while; and the ranked
\* feed misses none that was there when it began, though it may repeat some.
ListingsAreWhole ==
    pager.kind # "none" /\ ~pager.open =>
        CASE pager.kind \in {"pareto", "leaderboard"} -> pager.seen = OffsetRows(pager.kind, pager.pass)
          [] pager.kind = "ranked" -> pager.steady \subseteq ToSet(pager.seen)
          [] OTHER -> IsInjective(pager.seen) /\ pager.steady \subseteq ToSet(pager.seen)

\* A source goes out only when the newest pass of the moment the request came had
\* placed it, and off the frontier; a skipped epoch or an entry nobody scored yet
\* publishes nothing.
FrontierSourceIsPrivate ==
    \A c \in Lookers : lookers[c].at = "served" /\ Miner[lookers[c].entry] # 0 =>
        LET p == lookers[c].pass
        IN  p # 0 /\ passes[p].published /\ lookers[c].entry \in passes[p].scored \ passes[p].frontier

\* A parsed pass served from the cache is never older than the row its request had
\* just read, and the cache keeps its bound while requests load at the same time.
CacheIsCurrent ==
    /\ Len(parsed) <= PassesKept
    /\ \A c \in Lookers : lookers[c].at = "loaded" /\ lookers[c].pass > 0 => (lookers[c].head => lookers[c].taken)

\* A decision that is shown names the benchmark run it was made for as its candidate,
\* also between the selection of a new run and that run's own decision.
DecisionIsOfTheRun ==
    \A e \in Entries : decision(e).shown => decision(e).candidate_aggregation_id = boardEntries[e].check_of

(***************************************************************************)
(* FloatLib and TorchLean.                                                 *)
(***************************************************************************)
CONSTANTS Boards,       \* boards of one competition
          Kernels,      \* source hashes; 0 is the shipped one
          Gains,        \* what a challenger gains: ratio = 1 / 2^gain
          MaxSuite,     \* bound: benchmark versions
          Shares,       \* rank_shares, in percent, newest champion first
          MaxPromotions \* bound

ASSUME HillAssumption == Kernels \subseteq Nat \ {0} /\ Gains \subseteq Nat

VARIABLES promotions,   \* the promotions table, by id
          suite,        \* the benchmark challengers are timed on now
          kings,        \* kings[b]: the published kings of b
          page          \* a FloatLib leaderboard under way

hillVars == <<promotions, suite, kings, page>>

NoPage == [at |-> "none"]

HillInit ==
    /\ promotions = <<>>
    /\ suite = 1
    /\ kings = [b \in Boards |-> {}]
    /\ page = NoPage

-----------------------------------------------------------------------------
(* promotions and history: a board's promotions; the greater id is newer.  *)
history(b) == {i \in DOMAIN promotions : promotions[i].board = b}

(* standing, and TorchLean's current: the newest that is not demoted.      *)
Undemoted(b) == {i \in history(b) : ~promotions[i].demoted}
standing(b) == IF Undemoted(b) = {} THEN 0 ELSE Max(Undemoted(b))

(* The code a board is measured against: with every promotion demoted, the *)
(* shipped one.                                                            *)
champion_sha256(b) == IF standing(b) = 0 THEN 0 ELSE promotions[standing(b)].kernel

Unknown == -1

(* speedups: a promotion's parent is the latest earlier one of the code it *)
(* was timed against, on the same benchmark.  Ratios are powers of a half  *)
(* and their product is the sum of the exponents.                          *)
speedups(b) ==
    LET Known[i \in history(b)] ==
            LET p == promotions[i]
                earlier == {k \in history(b) : k < i /\ promotions[k].kernel = p.timed_against}
                parent == Max(earlier)
            IN  IF p.timed_against = 0 THEN p.gain
                ELSE IF earlier = {} THEN Unknown
                ELSE IF promotions[parent].suite # p.suite \/ Known[parent] = Unknown THEN Unknown
                ELSE Known[parent] + p.gain
    IN  Known

(* visible_sources: promoted once, and not the current champion of any     *)
(* board.                                                                  *)
visible_sources(b) ==
    {promotions[i].kernel : i \in history(b)} \ {champion_sha256(c) : c \in Boards}

(* A promotion's place among the given ones, the newest first.             *)
RankIn(ids, i) == 1 + Cardinality({j \in ids : j > i})

(* A published king is paid whatever became of it.                         *)
paid_as_published(b, i) == i \in kings[b] /\ RankIn(kings[b], i) <= Len(Shares)

(* champions (TorchLean): the published rank pays, unless the champion was *)
(* disqualified since.                                                     *)
paid(b, i) == ~promotions[i].demoted /\ i \in kings[b] /\ RankIn(kings[b], i) <= Len(Shares)
fraction(b) == [i \in {j \in history(b) : paid(b, j)} |-> Shares[RankIn(kings[b], i)]]

(* champions (FloatLib): the live ranks of the newest that stand.          *)
ranks(b) == [i \in {j \in Undemoted(b) : RankIn(Undemoted(b), j) <= Len(Shares)} |-> RankIn(Undemoted(b), i)]

-----------------------------------------------------------------------------
(* The coordinators.                                                       *)

(* A challenger is timed against the board's champion and takes over.  A   *)
(* kernel may come back after its demotion.                                *)
Promote(b, k, g) ==
    /\ Len(promotions) < MaxPromotions /\ k # champion_sha256(b)
    /\ promotions' = Append(promotions, [board |-> b, kernel |-> k, timed_against |-> champion_sha256(b), gain |-> g,
                                         suite |-> suite, demoted |-> FALSE])
    /\ UNCHANGED <<suite, kings, page>>

(* A demotion, or the disqualification of a source.                        *)
Demote(i) ==
    /\ ~promotions[i].demoted
    /\ promotions' = [promotions EXCEPT ![i].demoted = TRUE]
    /\ UNCHANGED <<suite, kings, page>>

NewSuite == /\ suite < MaxSuite /\ suite' = suite + 1 /\ UNCHANGED <<promotions, kings, page>>

(* What no leaderboard reads.                                              *)
PublishKings(b) ==
    /\ page.at = "none" /\ kings[b] # Undemoted(b)
    /\ kings' = [kings EXCEPT ![b] = Undemoted(b)]
    /\ UNCHANGED <<promotions, suite, page>>

-----------------------------------------------------------------------------
(* FloatLib's leaderboard: the history, then the rows, then the published  *)
(* scoring, by statements of their own.                                    *)

(* leaderboard: the code of the leader its history named.                  *)
measured_against(b, leader) == IF leader = 0 THEN champion_sha256(b) ELSE promotions[leader].kernel

open_board(b) ==
    /\ page.at = "none"
    /\ page' = [at |-> "history", board |-> b, leader |-> standing(b)]
    /\ UNCHANGED <<promotions, suite, kings>>

(* board: the accepted rows timed against that code; here, the challengers *)
(* that were promoted from it.                                             *)
board ==
    /\ page.at = "history"
    /\ LET sha == measured_against(page.board, page.leader)
       IN  page' = [at |-> "rows", board |-> page.board, leader |-> page.leader, champion |-> sha,
                    rows |-> {i \in history(page.board) : promotions[i].timed_against = sha /\ i # page.leader}]
    /\ UNCHANGED <<promotions, suite, kings>>

close_board == /\ page.at = "rows" /\ page' = NoPage /\ UNCHANGED <<promotions, suite, kings>>

HillNext ==
    \/ \E b \in Boards : (\E k \in Kernels, g \in Gains : Promote(b, k, g)) \/ PublishKings(b) \/ open_board(b)
    \/ \E i \in DOMAIN promotions : Demote(i)
    \/ NewSuite \/ board \/ close_board

HillSpec == HillInit /\ [][HillNext]_hillVars

-----------------------------------------------------------------------------
(* Properties.                                                             *)

\* A speed-up, once shown, is the product along a chain of code that was really timed
\* one against the other: no later promotion, demotion or benchmark changes it.
SpeedupsAreFinal ==
    \A b \in Boards : \A i \in history(b) : speedups(b)'[i] = speedups(b)[i]

\* A champion of any board keeps its source to itself while it leads, also when the
\* same code lost another board or is back after a demotion.
ChampionSourceIsHidden == \A b, c \in Boards : champion_sha256(c) \notin visible_sources(b)

\* Between a disqualification and the next publication nobody disqualified is paid, no
\* rank is paid twice, and the fractions never exceed the shares.
RanksArePaidOnce ==
    \A b \in Boards :
        /\ \A i \in DOMAIN fraction(b) : ~promotions[i].demoted
        /\ \A i, j \in DOMAIN fraction(b) : i # j => RankIn(kings[b], i) # RankIn(kings[b], j)
        /\ standing(b) # 0 /\ Shares # <<>> => standing(b) \in DOMAIN ranks(b) /\ ranks(b)[standing(b)] = 1

\* A leaderboard compares like with like: the code it says it is measured against is
\* the leader's, and every row was timed against it, although the champion may change
\* between the statements.
BoardIsComparable ==
    page.at = "rows" =>
        /\ page.leader # 0 => page.champion = promotions[page.leader].kernel
        /\ \A i \in page.rows : promotions[i].timed_against = page.champion
=============================================================================

---------------------------- MODULE PublicReads ----------------------------
(***************************************************************************)
(* What the public sees (db/public.py, routers/results.py and catalog.py): *)
(* feeds read page by page while submissions are created, verified,        *)
(* decided, corrected and paid; rows put together from several statements  *)
(* (READ COMMITTED: each sees its own moment); totals, and the facts of a  *)
(* target.  Submissions are numbers: their order is the order of their     *)
(* ids, which is not the order of their creation.                          *)
(***************************************************************************)
EXTENDS Integers, FiniteSets, FiniteSetsExt, Functions, Sequences, SequencesExt

CONSTANTS Results,   \* submission ids
          Target,         \* Target[s]: the reward target of s
          PageSize,
          Bounty,         \* what an instruction pays; a split has two parts
          MaxClock,       \* bound: distinct creation times
          MaxRulings      \* bound: binding decisions

ASSUME PublicReadsAssumption ==
    /\ Results \subseteq Nat /\ PageSize \in Nat \ {0} /\ Bounty \in Nat /\ Bounty % 2 = 0

VARIABLES resultRows,      \* rows[s]: the submissions table, at = 0 before its commit
          rulings,   \* review_decisions, binding ones, in the order of their ids
          rewardEvents,   \* reward_events, in the order of their ids
          clock,
          resultReader,    \* a client reading a feed to its end
          looker     \* a client looking at one result

publicVars == <<resultRows, rulings, rewardEvents, clock, resultReader, looker>>

Feeds == {"certified", "in_review", "all", "activity"}
NoResultRow == [at |-> 0, verified |-> "UNVERIFIED", review |-> "UNREVIEWED", reward |-> "INELIGIBLE"]
NoReader == [at |-> "none", feed |-> "all", after |-> <<MaxClock + 1, 0>>, seen |-> <<>>, steady |-> {}]
NoLooker == [at |-> "none"]

PublicInit ==
    /\ resultRows = [s \in Results |-> NoResultRow]
    /\ rulings = <<>> /\ rewardEvents = <<>>
    /\ clock = 1
    /\ resultReader = NoReader /\ looker = NoLooker

-----------------------------------------------------------------------------
(* What the statements select.                                             *)

ChainConfirmed(s) == {i \in DOMAIN rewardEvents : rewardEvents[i].sub = s /\ rewardEvents[i].status = "CONFIRMED"}

CERTIFIED(s) == /\ resultRows[s].reward = "REWARDED" /\ ChainConfirmed(s) # {}
                /\ resultRows[s].review = "APPROVED" /\ resultRows[s].verified = "VERIFIED"
IN_REVIEW(s) == resultRows[s].verified = "VERIFIED" /\ resultRows[s].review = "UNREVIEWED"
ACCEPTED(s) == resultRows[s].verified = "VERIFIED" /\ resultRows[s].review = "APPROVED"
PUBLISHED(s) == resultRows[s].verified = "VERIFIED"

(* The rows a feed selects; an activity feed is one target's.              *)
MatchingRows(feed) ==
    {s \in Results : /\ resultRows[s].at > 0
                          /\ CASE feed = "certified" -> CERTIFIED(s)
                               [] feed = "in_review" -> IN_REVIEW(s)
                               [] feed = "activity" -> Target[s] = Target[1]
                               [] OTHER -> TRUE}

(* tuple_(created_at, id): the order of every feed, newest first.          *)
Place(s) == <<resultRows[s].at, s>>
Below(p, q) == p[1] < q[1] \/ (p[1] = q[1] /\ p[2] < q[2])
NewestFirst(S) == SetToSortSeq(S, LAMBDA s, t : Below(Place(t), Place(s)))

(* _page with limit + 1: the rows below the cursor.                        *)
_page(feed, after) ==
    LET all == NewestFirst({s \in MatchingRows(feed) : Below(Place(s), after)})
    IN  SubSeq(all, 1, Min({Len(all), PageSize + 1}))

(* activity: the same order, read at an offset.                            *)
activity(target, offset) ==
    LET all == NewestFirst({s \in Results : resultRows[s].at > 0 /\ Target[s] = target})
    IN  SubSeq(all, offset + 1, Min({Len(all), offset + PageSize + 1}))

(* The binding decision of a submission that has the greatest id.          *)
_latest_reviews(s) ==
    LET of == {i \in DOMAIN rulings : rulings[i].sub = s}
    IN  IF of = {} THEN "none" ELSE rulings[Max(of)].decision

(* _PAYOUT: the instruction a part belongs to.                             *)
PayoutOf(i) == IF rewardEvents[i].split_of = 0 THEN i ELSE rewardEvents[i].split_of

(* _payouts: events of the given states, grouped by instruction.           *)
_payouts(s, statuses) ==
    LET of == {i \in DOMAIN rewardEvents : rewardEvents[i].sub = s /\ rewardEvents[i].status \in statuses}
    IN  {{i \in of : PayoutOf(i) = p} : p \in {PayoutOf(j) : j \in of}}

SumOver(f) == FoldFunction(LAMBDA x, y : x + y, 0, f)
Amount(group) == SumOver([i \in group |-> rewardEvents[i].amount])
LatestOf(groups) == IF groups = {} THEN {} ELSE CHOOSE g \in groups : \A h \in groups : Max(g) >= Max(h)

_confirmed_payouts(s) == LatestOf(_payouts(s, {"CONFIRMED"}))
_current_payouts(s) == LatestOf(_payouts(s, {"PENDING", "CONFIRMED"}))

(* result_stats: what certified submissions were paid, each by the latest  *)
(* of its confirmed payouts.                                               *)
result_stats ==
    [certified |-> Cardinality({s \in Results : CERTIFIED(s)}),
     paid_out_rao |-> SumOver([s \in {r \in Results : CERTIFIED(r)} |-> Amount(_confirmed_payouts(s))])]

(* target_facts: the decisions on the target's submissions that are not    *)
(* INELIGIBLE, in the order of their ids; an approval starts the clock     *)
(* unless it runs, a rejection stops it.  0: not solved.                   *)
target_facts(t) ==
    LET of == SelectSeq([i \in DOMAIN rulings |-> [id |-> i, sub |-> rulings[i].sub, decision |-> rulings[i].decision]],
                        LAMBDA d : Target[d.sub] = t /\ resultRows[d.sub].reward # "INELIGIBLE")
    IN  FoldLeft(LAMBDA started, d : IF d.decision = "REJECTED" THEN 0 ELSE IF started > 0 THEN started ELSE d.id,
                 0, of)

(* The submission a pricer's ALREADY_SOLVED is about.                      *)
reward_target_holder(t) == {s \in Results : Target[s] = t /\ resultRows[s].reward # "INELIGIBLE"}

-----------------------------------------------------------------------------
(* The writers.                                                            *)

(* A reader keeps count of the rows that matched all the time it read.     *)
Watched == resultReader' = [resultReader EXCEPT !.steady = {s \in resultReader.steady : \E f \in Feeds : f = resultReader.feed /\ s \in MatchingRows(f)'}]
Ruled(s, decision) == rulings' = Append(rulings, [sub |-> s, decision |-> decision])

(* create_submission: created_at is the time its transaction began.        *)
submit_result(s) ==
    /\ resultRows[s].at = 0
    /\ \E at \in 1..clock : resultRows' = [resultRows EXCEPT ![s].at = at]
    /\ UNCHANGED <<rulings, rewardEvents, clock, looker>> /\ Watched

TimePasses == /\ clock < MaxClock /\ clock' = clock + 1
         /\ UNCHANGED <<resultRows, rulings, rewardEvents, resultReader, looker>>

record_verification_result(s, accepted) ==
    /\ resultRows[s].at > 0 /\ resultRows[s].verified = "UNVERIFIED"
    /\ resultRows' = [resultRows EXCEPT ![s].verified = IF accepted THEN "VERIFIED" ELSE "REJECTED"]
    /\ UNCHANGED <<rulings, rewardEvents, clock, looker>> /\ Watched

(* record_human_decision, and approve_automatically's approval: once, of a *)
(* verified submission whose target nobody holds.                          *)
record_human_decision(s, decision) ==
    /\ resultRows[s].verified = "VERIFIED" /\ resultRows[s].review = "UNREVIEWED" /\ resultRows[s].reward = "INELIGIBLE"
    /\ Len(rulings) < MaxRulings
    /\ decision = "APPROVED" => reward_target_holder(Target[s]) = {}
    /\ Ruled(s, decision)
    /\ resultRows' = [resultRows EXCEPT ![s].review = decision, ![s].reward = IF decision = "APPROVED" THEN "ELIGIBLE" ELSE @]
    /\ UNCHANGED <<rewardEvents, clock, looker>> /\ Watched

(* correct_human_decision: an approval cannot be withdrawn once there is   *)
(* money, a rejection cannot become an approval of a held target.  Both    *)
(* status columns follow from the new decision alone.                      *)
correct_human_decision(s, decision) ==
    /\ resultRows[s].verified = "VERIFIED" /\ _latest_reviews(s) # "none"
    /\ Len(rulings) < MaxRulings
    /\ _latest_reviews(s) = "APPROVED" /\ decision = "REJECTED" =>
          resultRows[s].reward # "REWARDED" /\ _current_payouts(s) = {}
    /\ _latest_reviews(s) = "REJECTED" /\ decision = "APPROVED" => reward_target_holder(Target[s]) \ {s} = {}
    /\ Ruled(s, decision)
    /\ resultRows' = [resultRows EXCEPT ![s].review = decision,
                            ![s].reward = IF decision = "APPROVED" THEN "ELIGIBLE" ELSE "INELIGIBLE"]
    /\ UNCHANGED <<rewardEvents, clock, looker>> /\ Watched

(* The payout notifier's instruction for an eligible submission.           *)
Instruct(s) ==
    /\ resultRows[s].reward = "ELIGIBLE" /\ _payouts(s, {"PENDING", "CONFIRMED", "CANCELLED"}) = {}
    /\ rewardEvents' = Append(rewardEvents, [sub |-> s, amount |-> Bounty, status |-> "PENDING", split_of |-> 0])
    /\ UNCHANGED <<resultRows, rulings, clock, resultReader, looker>>

(* An operator cancels an instruction and pays it in two parts.            *)
Split(i) ==
    /\ rewardEvents[i].status = "PENDING" /\ rewardEvents[i].split_of = 0
    /\ LET part == [rewardEvents[i] EXCEPT !.amount = Bounty \div 2, !.split_of = i]
       IN  rewardEvents' = Append(Append([rewardEvents EXCEPT ![i].status = "CANCELLED"], part), part)
    /\ UNCHANGED <<resultRows, rulings, clock, resultReader, looker>>

(* The watcher confirms a payout the chain finalized.                      *)
Confirm(i) ==
    /\ rewardEvents[i].status = "PENDING" /\ resultRows[rewardEvents[i].sub].reward \in {"ELIGIBLE", "REWARDED"}
    /\ rewardEvents' = [rewardEvents EXCEPT ![i].status = "CONFIRMED"]
    /\ resultRows' = [resultRows EXCEPT ![rewardEvents[i].sub].reward = "REWARDED"]
    /\ UNCHANGED <<rulings, clock, looker>> /\ Watched

-----------------------------------------------------------------------------
(* The readers.  They change nothing, so one at a time is enough.          *)

open_feed(feed) ==
    /\ resultReader.at = "none" /\ looker.at = "none"
    /\ resultReader' = [NoReader EXCEPT !.at = "reading", !.feed = feed, !.steady = MatchingRows(feed)]
    /\ UNCHANGED <<resultRows, rulings, rewardEvents, clock, looker>>

(* _feed: limit + 1 rows, the first limit of them are the page, and the    *)
(* cursor names the page's last row.                                       *)
_feed ==
    /\ resultReader.at = "reading" /\ resultReader.feed # "activity"
    /\ LET got == _page(resultReader.feed, resultReader.after)
           page == SubSeq(got, 1, Min({Len(got), PageSize}))
       IN  resultReader' = IF Len(got) > PageSize
                     THEN [resultReader EXCEPT !.seen = @ \o page, !.after = Place(Last(page))]
                     ELSE [resultReader EXCEPT !.seen = @ \o page, !.at = "read"]
    /\ UNCHANGED <<resultRows, rulings, rewardEvents, clock, looker>>

(* read_activity: next_offset counts pages.                                *)
read_activity ==
    /\ resultReader.at = "reading" /\ resultReader.feed = "activity"
    /\ LET offset == Len(resultReader.seen)
           got == activity(Target[1], offset)
           page == SubSeq(got, 1, Min({Len(got), PageSize}))
       IN  resultReader' = IF Len(got) > PageSize THEN [resultReader EXCEPT !.seen = @ \o page]
                     ELSE [resultReader EXCEPT !.seen = @ \o page, !.at = "read"]
    /\ UNCHANGED <<resultRows, rulings, rewardEvents, clock, looker>>

close_feed == /\ resultReader.at = "read" /\ resultReader' = NoReader
              /\ UNCHANGED <<resultRows, rulings, rewardEvents, clock, looker>>

(* public_result, its first statement: the submission.                     *)
public_result(s) ==
    /\ looker.at = "none" /\ resultReader.at = "none" /\ resultRows[s].at > 0 /\ PUBLISHED(s)
    /\ looker' = [at |-> "row", sub |-> s, row |-> resultRows[s]]
    /\ UNCHANGED <<resultRows, rulings, rewardEvents, clock, resultReader>>

(* _decorate, in its order: the current payout, the confirmed one, and the *)
(* decision, each by a statement of its own.  A payout is shown for a row  *)
(* that was REWARDED.                                                      *)
decorate_payout ==
    /\ looker.at = "row"
    /\ looker' = [at |-> "payout", sub |-> looker.sub, row |-> looker.row,
                  paid |-> IF looker.row.reward = "REWARDED" THEN _confirmed_payouts(looker.sub) ELSE {}]
    /\ UNCHANGED <<resultRows, rulings, rewardEvents, clock, resultReader>>

decorate_review ==
    /\ looker.at = "payout"
    /\ looker' = [at |-> "shown", sub |-> looker.sub, row |-> looker.row, paid |-> looker.paid,
                  decision |-> _latest_reviews(looker.sub)]
    /\ UNCHANGED <<resultRows, rulings, rewardEvents, clock, resultReader>>

(* read_conjecture: the quote, and then the facts of the target.           *)
read_quote(t) ==
    /\ looker.at = "none" /\ resultReader.at = "none"
    /\ \E reason \in IF reward_target_holder(t) # {} THEN {"ALREADY_SOLVED"} ELSE {"AVAILABLE", "TREASURY_RESERVED"} :
          looker' = [at |-> "quoted", target |-> t, reason |-> reason]
    /\ UNCHANGED <<resultRows, rulings, rewardEvents, clock, resultReader>>

(* live_display_status, with submissions open and without chat logs.       *)
live_display_status(reason, in_review) ==
    CASE reason = "ALREADY_SOLVED" -> "solved"
      [] reason # "ALREADY_SOLVED" /\ in_review -> "in_review"
      [] reason = "TREASURY_RESERVED" /\ ~in_review -> "unfunded"
      [] OTHER -> "open"

(* The page shows the date its facts name.                                 *)
solved_at_of_the_facts(status, facts) == facts

_solved_at(status, facts) == IF status = "solved" THEN facts ELSE 0

read_conjecture ==
    /\ looker.at = "quoted"
    /\ LET status == live_display_status(looker.reason,
                                         \E s \in Results : resultRows[s].at > 0 /\ Target[s] = looker.target /\ IN_REVIEW(s))
       IN  looker' = [at |-> "page", accepting_submissions |-> looker.reason = "AVAILABLE",
                      solved_at |-> _solved_at(status, target_facts(looker.target))]
    /\ UNCHANGED <<resultRows, rulings, rewardEvents, clock, resultReader>>

done_looking == /\ looker.at \in {"shown", "page"} /\ looker' = NoLooker
                /\ UNCHANGED <<resultRows, rulings, rewardEvents, clock, resultReader>>

Writes ==
    \/ TimePasses
    \/ \E s \in Results : submit_result(s) \/ Instruct(s)
    \/ \E s \in Results, ok \in BOOLEAN : record_verification_result(s, ok)
    \/ \E s \in Results, d \in {"APPROVED", "REJECTED"} :
          record_human_decision(s, d) \/ correct_human_decision(s, d)
    \/ \E i \in DOMAIN rewardEvents : Split(i) \/ Confirm(i)

Reads ==
    \/ \E feed \in Feeds : open_feed(feed)
    \/ _feed \/ read_activity \/ close_feed
    \/ \E s \in Results : public_result(s)
    \/ \E s \in Results : read_quote(Target[s])
    \/ decorate_payout \/ decorate_review \/ read_conjecture \/ done_looking

PublicNext == Writes \/ Reads

PublicSpec == PublicInit /\ [][PublicNext]_publicVars

-----------------------------------------------------------------------------
(* Properties.                                                             *)

\* A client that reads a feed to its end has met every row that matched the feed the
\* whole time it read, whatever was inserted, decided or paid between its pages; and a
\* feed read by cursor shows no row twice.  pagination.py promises this of its cursor;
\* the activity feed, read by offset, may repeat rows but misses none, since attempts
\* are never deleted and newer ones come first.
FeedMissesNothing ==
    /\ resultReader.at = "read" => \A s \in resultReader.steady : s \in ToSet(resultReader.seen)
    /\ resultReader.feed # "activity" => IsInjective(resultReader.seen)

\* target_facts and the pricer agree on whether a target is solved, and solved_at is
\* the start of the holder's current run of approvals: a rejected and re-approved
\* submission starts anew, a corrected reason does not move it.
SolvedSinceTheRunBegan ==
    \A t \in {Target[s] : s \in Results} :
        LET holders == reward_target_holder(t)
            Run(s) == {i \in DOMAIN rulings :
                          /\ rulings[i].sub = s
                          /\ \A j \in i..Len(rulings) : rulings[j].sub = s => rulings[j].decision = "APPROVED"}
        IN  IF holders = {} THEN target_facts(t) = 0
            ELSE \E s \in holders : Run(s) # {} /\ target_facts(t) = Min(Run(s))

\* What a row says can be fetched can be fetched: solution_available asks for the
\* approval alone, the endpoint that serves the proof for the verdict too.
SolutionFlagIsTrue == \A s \in Results : resultRows[s].review = "APPROVED" => ACCEPTED(s)

\* The headline sum is the sum of the payouts its certified rows show, and no target
\* is paid out more than its bounty, also while an instruction is paid in parts.
StatsAddUp ==
    /\ result_stats.paid_out_rao <= Bounty * result_stats.certified
    /\ \A s \in Results : CERTIFIED(s) /\ (\A i \in ChainConfirmed(s) : rewardEvents[i].split_of = 0)
          => Amount(_confirmed_payouts(s)) = Bounty
    /\ \A s \in Results : Cardinality(_payouts(s, {"PENDING", "CONFIRMED"})) <= 1

\* A result shown with a payout is shown with an approval, although the row, the
\* payout and the decision are read at three moments.
PaidIsShownApproved == looker.at = "shown" /\ looker.paid # {} => looker.decision = "APPROVED"

\* A conjecture's page does not invite submissions and name the day it was solved, even
\* when the deciding approval came between the quote and the facts.
PageDoesNotContradict == looker.at = "page" => ~(looker.accepting_submissions /\ looker.solved_at > 0)
=============================================================================

------------------------- MODULE ContributionMirror -------------------------
(***************************************************************************)
(* The mirror of the contribution repository (submission_api/github.py,    *)
(* contributions.py): a background task polls GitHub with conditional      *)
(* requests for the head commit and the open pull requests, reads the      *)
(* archive when the head moved, and replaces the snapshot the endpoints    *)
(* (routers/contributions.py) answer from.  A commit is its number, which  *)
(* is also the ETag of its page; a list of pull requests is a value, which *)
(* is its own ETag.                                                        *)
(***************************************************************************)
EXTENDS Integers, FiniteSets

CONSTANTS Commits,        \* the branch's commits, 1 first
          Directories,    \* target directories
          Layout,         \* Layout[c][d]: what commit c has in directory d
          PullLists,      \* lists of open pull requests
          MaxMirrorTime,        \* bound: ticks
          MaxPullMoves,      \* bound: times the pull requests change
          MaxOutages      \* bound: failed requests, refusals and restarts

ASSUME ContributionConstants ==
    /\ Commits \subseteq Nat \ {0} /\ 1 \in Commits
    /\ Layout \in [Commits -> [Directories -> {"index", "bad", "bad with page", "page", "none"}]]
    /\ PullLists # {}

NoneYet == 0

VARIABLES branchHead, openPulls,  \* GitHub: the branch's head, the open pull requests
          mirror,         \* the mirror's attributes
          poll,           \* the refresh in progress
          snap,           \* the snapshot served
          time,           \* the clock
          outages, pullMoves  \* counters for the bounds

contributionVars == <<branchHead, openPulls, mirror, poll, snap, time, outages, pullMoves>>

Sleeping == [at |-> "sleeping"]
EmptySnapshot == [head |-> NoneYet, targets |-> {}, unreadable |-> {}, pending |-> NoneYet]
Fresh == [targets |-> {}, unreadable |-> {}, pending |-> NoneYet,
          head_etag |-> NoneYet, pending_etag |-> NoneYet, blocked_until |-> 0]

ContributionsInit ==
    /\ branchHead = 1 /\ openPulls \in PullLists
    /\ mirror = Fresh /\ poll = Sleeping /\ snap = EmptySnapshot
    /\ time = 0 /\ outages = 0 /\ pullMoves = 0

-----------------------------------------------------------------------------
(* Reading an archive.                                                     *)

In(c, kinds) == {d \in Directories : Layout[c][d] \in kinds}

(* _read_archive: the indexes that parse, and the pages of directories     *)
(* that have no index; an index that does not parse is unreadable whether  *)
(* or not there is a page.                                                 *)
_read_archive(c) ==
    [targets |-> In(c, {"index", "page"}), unreadable |-> In(c, {"bad", "bad with page"}),
     empty |-> In(c, {"page"})]

(* An archive without target directories is refused as a wrong one.        *)
WrongArchive(c) == In(c, {"index", "page", "bad", "bad with page"}) = {}

-----------------------------------------------------------------------------
(* GitHub and the clock.                                                   *)

Push == /\ branchHead + 1 \in Commits /\ branchHead' = branchHead + 1
        /\ UNCHANGED <<openPulls, mirror, poll, snap, time, outages, pullMoves>>
MovePulls(p) == /\ pullMoves < MaxPullMoves /\ p # openPulls /\ openPulls' = p /\ pullMoves' = pullMoves + 1
                /\ UNCHANGED <<branchHead, mirror, poll, snap, time, outages>>
TimeGoesOn == /\ time < MaxMirrorTime /\ poll = Sleeping /\ time' = time + 1
              /\ UNCHANGED <<branchHead, openPulls, mirror, poll, snap, outages, pullMoves>>

-----------------------------------------------------------------------------
(* One poll: refresh, under its lock.                                      *)

(* _head_commit: conditional, unless nothing is loaded.                    *)
_head_commit ==
    /\ poll = Sleeping /\ time >= mirror.blocked_until
    /\ LET unchanged == mirror.targets # {} /\ mirror.head_etag = branchHead
       IN  poll' = [at |-> "pulls", head |-> IF unchanged THEN snap.head ELSE branchHead, etag |-> branchHead]
    /\ UNCHANGED <<branchHead, openPulls, mirror, snap, time, outages, pullMoves>>

(* _open_pull_requests: 304 when they are as the kept validator says.      *)
_open_pull_requests ==
    /\ poll.at = "pulls"
    /\ LET moved == mirror.pending_etag # openPulls
       IN  /\ mirror' = IF moved THEN [mirror EXCEPT !.pending = openPulls] ELSE mirror
           /\ poll' = [at |-> "decide", head |-> poll.head, etag |-> poll.etag, moved |-> moved, pulls_etag |-> openPulls]
    /\ UNCHANGED <<branchHead, openPulls, snap, time, outages, pullMoves>>

(* The corpus is read again only while nothing is loaded.                  *)
archive_needed_once == mirror.targets = {}
archive_needed == poll.head # snap.head \/ mirror.targets = {}

(* Nothing moved: the poll ends without a new snapshot.                    *)
nothing_moved ==
    /\ poll.at = "decide" /\ ~archive_needed /\ ~poll.moved
    /\ mirror' = [mirror EXCEPT !.head_etag = poll.etag]
    /\ poll' = Sleeping
    /\ UNCHANGED <<branchHead, openPulls, snap, time, outages, pullMoves>>

(* ContributionSnapshot.build, and the validators of this poll.            *)
build ==
    /\ poll.at = "decide" /\ (archive_needed \/ poll.moved)
    /\ archive_needed => ~WrongArchive(poll.head)
    /\ LET got == IF archive_needed THEN _read_archive(poll.head)
                  ELSE [targets |-> mirror.targets, unreadable |-> mirror.unreadable]
       IN  /\ mirror' = [mirror EXCEPT !.targets = got.targets, !.unreadable = got.unreadable,
                                       !.head_etag = poll.etag, !.pending_etag = poll.pulls_etag]
           /\ snap' = [head |-> poll.head, targets |-> got.targets, unreadable |-> got.unreadable,
                       pending |-> mirror.pending]
    /\ poll' = Sleeping
    /\ UNCHANGED <<branchHead, openPulls, time, outages, pullMoves>>

(* A wrong archive, as any failure, ends the poll and changes nothing.     *)
archive_refused ==
    /\ poll.at = "decide" /\ archive_needed /\ WrongArchive(poll.head)
    /\ poll' = Sleeping
    /\ UNCHANGED <<branchHead, openPulls, mirror, snap, time, outages, pullMoves>>

(* A network error, a cancelled task or a body that does not parse.        *)
poll_fails ==
    /\ poll # Sleeping /\ outages < MaxOutages
    /\ outages' = outages + 1 /\ poll' = Sleeping
    /\ UNCHANGED <<branchHead, openPulls, mirror, snap, time, pullMoves>>

(* _RateLimited: no polls until the time GitHub named.                     *)
_raise_for_rate_limit ==
    /\ poll # Sleeping /\ outages < MaxOutages
    /\ outages' = outages + 1 /\ poll' = Sleeping
    /\ mirror' = [mirror EXCEPT !.blocked_until = IF time < MaxMirrorTime THEN time + 1 ELSE time]
    /\ UNCHANGED <<branchHead, openPulls, snap, time, pullMoves>>

(* The replica restarts with nothing in memory.                            *)
ReplicaRestarts ==
    /\ outages < MaxOutages /\ outages' = outages + 1
    /\ mirror' = Fresh /\ poll' = Sleeping /\ snap' = EmptySnapshot
    /\ UNCHANGED <<branchHead, openPulls, time, pullMoves>>

(* ContributionRefresher: polls go on.                                     *)
refresh == _head_commit \/ _open_pull_requests \/ nothing_moved \/ build \/ archive_refused

ContributionsNext ==
    \/ refresh \/ poll_fails \/ _raise_for_rate_limit \/ ReplicaRestarts
    \/ Push \/ TimeGoesOn \/ \E p \in PullLists : MovePulls(p)

ContributionsSpec ==
    /\ ContributionsInit /\ [][ContributionsNext]_contributionVars
    /\ WF_contributionVars(refresh) /\ WF_contributionVars(TimeGoesOn)

-----------------------------------------------------------------------------
(* Properties.                                                             *)

\* "The parse either produces a complete snapshot at that commit or leaves the previous
\* one in place": what is served is the corpus of the commit it names, whatever failed
\* or moved between the requests of a poll.
SnapshotIsOneCommit ==
    snap.head # NoneYet => /\ snap.targets = _read_archive(snap.head).targets
                           /\ snap.unreadable = _read_archive(snap.head).unreadable

\* A short listing is never read as a complete one: every directory of the commit is
\* listed or counted as unreadable, and none whose index could not be read is shown
\* as a target without contributions.
NothingDropped ==
    snap.head # NoneYet =>
        /\ snap.targets \cup snap.unreadable = In(snap.head, {"index", "page", "bad", "bad with page"})
        /\ snap.targets \cap In(snap.head, {"bad", "bad with page"}) = {}

\* A moved head is served in the end, although any poll may fail half way: a commit
\* whose archive failed is not answered 304 for ever.
CorpusCatchesUp == []<>(time = 0 \/ WrongArchive(branchHead) \/ snap.head = branchHead)
=============================================================================

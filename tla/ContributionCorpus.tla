------------------------- MODULE ContributionCorpus -------------------------
(***************************************************************************)
(* The queries over the mirrored contributions (submission_api/            *)
(* contributions.py, conditional.py, routers/contributions.py): the        *)
(* indexes a snapshot is built with, the filters, orders and pages of a    *)
(* listing, and the revalidation of an answer a client holds.  Snapshots   *)
(* replace each other as ContributionMirror says; a name, an identifier, a *)
(* truncation and a key are values, and PrefixOf says which truncation an  *)
(* identifier begins with.                                                 *)
(***************************************************************************)
EXTENDS Integers, FiniteSets, Sequences, SequencesExt

CONSTANTS Corpora,        \* a sequence of sets of target rows, one per refresh
          SlugFor,        \* the conjecture slug of each reward target (slugs.slug_for)
          PrefixOf,       \* the truncation of each contribution id
          Rank,           \* the order of names and identifiers
          PageLimit,      \* limit of a listing's pages
          MaxRotations    \* bound: times the live pool changes

ASSUME CorpusConstants ==
    /\ Corpora \in Seq(SUBSET [target : DOMAIN Rank, reward : DOMAIN SlugFor \cup {"none"},
                               problem : DOMAIN Rank \cup {"none"}, items : SUBSET [id : DOMAIN PrefixOf,
                               author : DOMAIN Rank, coldkey : DOMAIN Rank \cup {"none"}, added : Nat]])
    /\ Len(Corpora) > 0 /\ PageLimit \in Nat \ {0} /\ MaxRotations \in Nat

VARIABLES served,         \* which snapshot the mirror serves
          livePool,           \* conjecture slugs the live catalog offers
          rotations,      \* counter for the bound
          listing,        \* a client that pages through a listing
          held            \* an answer a client holds, with its ETag

corpusVars == <<served, livePool, rotations, listing, held>>

-----------------------------------------------------------------------------
(* A snapshot and its indexes.                                             *)

Rows(s) == Corpora[s]

(* _conjecture_slug: derived from the reward target and nothing else.      *)
_conjecture_slug(row) == IF row.reward = "none" THEN "none" ELSE SlugFor[row.reward]

(* A contribution as the snapshot lists it, with its target's names.       *)
Contribution(row, i) == [id |-> i.id, target |-> row.target, slug |-> _conjecture_slug(row),
                         author |-> i.author, coldkey |-> i.coldkey, added |-> i.added]
Contributions(s) == UNION {{Contribution(row, i) : i \in row.items} : row \in Rows(s)}

aliases(row) == {_conjecture_slug(row), row.reward, row.problem} \ {"none"}

(* The first row, in the order of target slugs, that claims the alias.     *)
FirstOf(rows) == CHOOSE row \in rows : \A other \in rows : Rank[row.target] <= Rank[other.target]

NoTarget == [target |-> "none"]
by_target(s, name) == {row \in Rows(s) : row.target = name}
by_alias(s, name) == {row \in Rows(s) : name \in aliases(row) /\ by_target(s, name) = {}}

(* ContributionSnapshot.target: by the slug, else by any of its aliases.   *)
target(s, name) ==
    IF by_target(s, name) # {} THEN FirstOf(by_target(s, name))
    ELSE IF by_alias(s, name) # {} THEN FirstOf(by_alias(s, name)) ELSE NoTarget

(* _by_id: of two targets that list one id, the row listed last, that is   *)
(* the oldest one, is kept.                                                *)
by_id(s, id) == {c \in Contributions(s) : c.id = id /\ \A d \in Contributions(s) : d.id = id => c.added <= d.added}

(* ContributionSnapshot.contribution: the exact id, or the only one that   *)
(* begins with what was asked.                                             *)
contribution(s, asked) ==
    LET present == {id \in DOMAIN PrefixOf : by_id(s, id) # {}}
        matched == {id \in present : PrefixOf[id] = asked}
    IN  IF asked \in present THEN {asked}
        ELSE IF Cardinality(matched) = 1 THEN matched ELSE {}

Authors(s) == {c.author : c \in Contributions(s)}
ColdkeysOf(s, a) == {c.coldkey : c \in {d \in Contributions(s) : d.author = a}} \ {"none"}

(* _authors: whether another author key is paid into one of its coldkeys.  *)
shared_coldkey(s, a) ==
    \E k \in ColdkeysOf(s, a) : Cardinality({b \in Authors(s) : k \in ColdkeysOf(s, b)}) > 1

-----------------------------------------------------------------------------
(* Listings and pages.                                                     *)

(* _exact, _prefixed and _contains: a filter that is not given admits all. *)
_exact(values, wanted) == wanted = {} \/ values \cap wanted # {}

(* _filter: filters AND together, the values of one are ORed.              *)
_filter(s, wanted) ==
    {c \in Contributions(s) : /\ _exact({c.target}, wanted.targets)
                              /\ _exact({c.slug} \ {"none"}, wanted.conjectures)
                              /\ _exact({c.author}, wanted.authors)}

(* _sorted by "added": the identifier decides between equal days.          *)
_sorted(order, c, d) ==
    LET after == c.added > d.added \/ (c.added = d.added /\ Rank[c.id] >= Rank[d.id])
        before == c.added < d.added \/ (c.added = d.added /\ Rank[c.id] <= Rank[d.id])
    IN  IF order = "asc" THEN before ELSE after

Listing(s, ask) == SetToSortSeq(_filter(s, ask.wanted), LAMBDA c, d : _sorted(ask.order, c, d))

(* window: the slice from offset on.                                       *)
window(rows, offset) == SubSeq(rows, offset + 1, IF offset + PageLimit < Len(rows) THEN offset + PageLimit ELSE Len(rows))

NoListing == [at |-> "none"]
Asks == [order : {"asc", "desc"},
         wanted : [targets : {{}} \cup {{row.target} : row \in Rows(1)}, conjectures : {{}}, authors : {{}}]
                    \cup [targets : {{}}, conjectures : {{SlugFor[r]} : r \in DOMAIN SlugFor}, authors : {{}}]
                    \cup [targets : {{}}, conjectures : {{}}, authors : {Authors(1)}]]

(* list_contributions: one page, and the number of rows there are.         *)
PageAt(ask, before, began, moved) ==
    LET rows == Listing(served, ask)
        page == window(rows, Len(before))
    IN  listing' = [at |-> "paging", ask |-> ask, total |-> Len(rows), items |-> before \o page,
                    began |-> began, moved |-> moved, ended |-> Len(before) + Len(page) >= Len(rows) \/ page = <<>>]

list_contributions(ask) == /\ listing = NoListing /\ PageAt(ask, <<>>, served, FALSE)
                           /\ UNCHANGED <<served, livePool, rotations, held>>
NextPage == /\ listing.at = "paging" /\ ~listing.ended
            /\ PageAt(listing.ask, listing.items, listing.began, listing.moved \/ served # listing.began)
            /\ UNCHANGED <<served, livePool, rotations, held>>
CloseListing == /\ listing.at = "paging" /\ listing.ended /\ listing' = NoListing
                /\ UNCHANGED <<served, livePool, rotations, held>>

-----------------------------------------------------------------------------
(* Answers and their validators.                                           *)

(* _in_pool: resolved against the live catalog as the answer is rendered.  *)
_in_pool(slug) == slug # "none" /\ slug \in livePool

(* _item: the contribution and whether its conjecture is offered now.      *)
_item(s, id) == {[row |-> c, in_pool |-> _in_pool(c.slug)] : c \in by_id(s, id)}

(* etag_for: a digest of the whole answer.                                 *)
etag_for(id) == _item(served, id)

(* read_contribution, unconditional.                                       *)
read_contribution(asked) ==
    \E id \in contribution(served, asked) :
        /\ held' = [id |-> id, body |-> _item(served, id), etag |-> etag_for(id), checked |-> TRUE]
        /\ UNCHANGED <<served, livePool, rotations, listing>>

(* _answer to If-None-Match: 304 leaves the client with what it holds.     *)
_answer ==
    /\ held.id # "none" /\ ~held.checked /\ by_id(served, held.id) # {}
    /\ held' = IF etag_for(held.id) = held.etag THEN [held EXCEPT !.checked = TRUE]
               ELSE [id |-> held.id, body |-> _item(served, held.id), etag |-> etag_for(held.id), checked |-> TRUE]
    /\ UNCHANGED <<served, livePool, rotations, listing>>

(* A refresh lands, or a request reaches a replica that is one behind.     *)
SnapshotMoves(s) == /\ s # served /\ served' = s /\ held' = [held EXCEPT !.checked = FALSE]
                    /\ UNCHANGED <<livePool, rotations, listing>>
(* The live catalog takes on or gives up a conjecture.                     *)
PoolRotates(slug) == /\ rotations < MaxRotations /\ rotations' = rotations + 1
                     /\ livePool' = IF slug \in livePool THEN livePool \ {slug} ELSE livePool \cup {slug}
                     /\ held' = [held EXCEPT !.checked = FALSE]
                     /\ UNCHANGED <<served, listing>>

CorpusInit ==
    /\ served = 1 /\ livePool = {} /\ rotations = 0 /\ listing = NoListing
    /\ held = [id |-> "none", body |-> {}, etag |-> {}, checked |-> FALSE]

CorpusNext ==
    \/ \E ask \in Asks : list_contributions(ask)
    \/ NextPage \/ CloseListing \/ _answer
    \/ \E id \in DOMAIN PrefixOf : read_contribution(id) \/ read_contribution(PrefixOf[id])
    \/ \E s \in DOMAIN Corpora : SnapshotMoves(s)
    \/ \E r \in DOMAIN SlugFor : PoolRotates(SlugFor[r])

CorpusSpec == CorpusInit /\ [][CorpusNext]_corpusVars

-----------------------------------------------------------------------------
(* Properties.                                                             *)

\* "All four resolve": whatever a target is called, by its slug or by an alias, the name
\* finds a target that goes by it, and a slug finds the target whose directory it is,
\* although the slugs and the aliases are two naming schemes that may collide.
EveryNameResolves ==
    \A row \in Rows(served) :
        /\ target(served, row.target) = row
        /\ \A name \in aliases(row) : /\ target(served, name) # NoTarget
                                      /\ name \in aliases(target(served, name)) \cup {target(served, name).target}

\* No row is served under another's name: what a truncation finds is the only id it can
\* mean, and a full id finds itself even where another id begins the same way.
PrefixIsUnambiguous ==
    \A c \in Contributions(served) :
        /\ contribution(served, c.id) = {c.id}
        /\ contribution(served, PrefixOf[c.id]) # {} =>
               {d.id : d \in {e \in Contributions(served) : PrefixOf[e.id] = PrefixOf[c.id]}} = {c.id}

\* The Sybil flag is mutual: an author is flagged only if some other author is flagged for
\* the same coldkey, however many contributions each has.
SharedColdkeyIsMutual ==
    \A a \in Authors(served) : shared_coldkey(served, a) <=>
        \E b \in Authors(served) \ {a} : ColdkeysOf(served, a) \cap ColdkeysOf(served, b) # {} /\ shared_coldkey(served, b)

\* A listing whose pages all came from one snapshot shows every matching contribution once.
ListingIsWhole ==
    listing.at = "paging" /\ listing.ended /\ ~listing.moved =>
        /\ ToSet(listing.items) = _filter(listing.began, listing.ask.wanted)
        /\ Len(listing.items) = Cardinality(ToSet(listing.items))

\* A client whose copy was just revalidated holds what the server would answer, although
\* the snapshot and the live pool, which the answer reads too, move separately.
RevalidatedIsCurrent == held.checked /\ held.id # "none" => held.body = _item(served, held.id)
=============================================================================

---------------------------- MODULE CatalogIndex ----------------------------
(***************************************************************************)
(* The public catalogue over the audited task pool (src/submission_api/    *)
(* conjectures.py, retired.py, slugs.py and routers/catalog.py): releases  *)
(* move theorems into the pool, out of it onto the retired list, or on     *)
(* hold; the process that starts on a release groups its tasks, refuses a  *)
(* pool that contradicts itself, and serves filters, facets, families and  *)
(* the links of earlier releases from memory.                              *)
(*                                                                         *)
(* A task id names a theorem (by a fragment), a mode and the release that  *)
(* issued it: every release issues new ids.                                *)
(***************************************************************************)
EXTENDS Naturals, FiniteSets, FiniteSetsExt

CONSTANTS
    Theorems,     \* what may be in the pool; the number of one is its rank by slug
    SlugOf,       \* [Theorems -> slugs]: slug_for
    FragmentOf,   \* [Theorems -> fragments]: task_slug, what a task id embeds
    RootOf,       \* [Theorems -> Theorems]: root_theorem
    CategoryOf,   \* [Theorems -> categories]
    Modes,        \* task modes
    MaxCatalogReleases   \* bound: releases

ASSUME CatalogBounds == /\ Theorems \subseteq Nat /\ MaxCatalogReleases \in Nat
                        /\ RootOf \in [Theorems -> Theorems]

VARIABLES
    pool,      \* the modes each theorem is offered in, by the checkout on disk
    closed,    \* the theorems on its retired list: "retired" or "held", "" if on neither
    issuedAt,  \* the release that last issued a theorem's task ids
    issued,    \* every task id ever issued
    number,    \* how many releases there were
    index      \* what the running process serves: "none" until one started

catalogVars == <<pool, closed, issuedAt, issued, number, index>>

TaskId(t, mode, release) == [theorem |-> t, mode |-> mode, release |-> release]
NoIndex == [up |-> FALSE]

CatalogInit ==
    /\ pool = [t \in Theorems |-> {}]
    /\ closed = [t \in Theorems |-> ""]
    /\ issuedAt = [t \in Theorems |-> 0]
    /\ issued = {}
    /\ number = 0
    /\ index = NoIndex

----------------------------------------------------------------------------
(* A release: every theorem is live in some modes, retired, held or gone. *)
(* What was never live cannot be retired, and a retired target keeps the  *)
(* ids it had; a mistaken release may list a live theorem as retired too. *)

Releases ==
    {r \in [Theorems -> {"live", "both", "retired", "held", "gone"}] :
        \A t \in Theorems : r[t] \in {"retired", "held", "both"} => issuedAt[t] # 0}

release(r) ==
    /\ number < MaxCatalogReleases
    /\ number' = number + 1
    /\ \E modes \in {Modes} \union {{m} : m \in Modes} :
         /\ pool' = [t \in Theorems |-> IF r[t] \in {"live", "both"} THEN modes ELSE {}]
         /\ issued' = issued \union {TaskId(t, m, number + 1) : t \in {u \in Theorems : pool'[u] # {}}, m \in modes}
    /\ closed' = [t \in Theorems |-> CASE r[t] \in {"retired", "both"} -> "retired" [] r[t] = "held" -> "held" [] OTHER -> ""]
    /\ issuedAt' = [t \in Theorems |-> IF pool'[t] # {} THEN number + 1 ELSE issuedAt[t]]
    /\ index' = NoIndex

----------------------------------------------------------------------------
(* Starting on the checkout: ConjectureIndex.build and RetiredIndex.load. *)

LiveOnes == {t \in Theorems : pool[t] # {}}
ClosedOnes == {t \in Theorems : closed[t] # ""}
Distinct(ts) == \A t, u \in ts : SlugOf[t] = SlugOf[u] => t = u

_grouped == Distinct(LiveOnes)
load == Distinct(ClosedOnes)
collisions == {SlugOf[t] : t \in LiveOnes} \intersect {SlugOf[t] : t \in ClosedOnes}

build_index ==
    /\ index = NoIndex /\ number > 0
    /\ _grouped /\ load /\ collisions = {}
    /\ index' = [up |-> TRUE, live |-> LiveOnes, closed |-> ClosedOnes,
                 ids |-> {id \in issued : id.theorem \in LiveOnes /\ id.release = number}
                           \union {id \in issued : id.theorem \in ClosedOnes /\ id.release = issuedAt[id.theorem]}]
    /\ UNCHANGED <<pool, closed, issuedAt, issued, number>>

CatalogNext == (\E r \in Releases : release(r)) \/ build_index

CatalogSpec == CatalogInit /\ [][CatalogNext]_catalogVars

----------------------------------------------------------------------------
(* Links: a slug is looked up; a task id redirects by an exact match, or  *)
(* by the theorem fragment in it when exactly one theorem has it.         *)

Listed == index.live \union index.closed

Embedding(fragment) == {t \in Listed : FragmentOf[t] = fragment}

resolve_legacy(id) ==
    IF id \in index.ids THEN {SlugOf[id.theorem]}
    ELSE IF Cardinality(Embedding(FragmentOf[id.theorem])) = 1
         THEN {SlugOf[t] : t \in Embedding(FragmentOf[id.theorem])}
    ELSE {}

----------------------------------------------------------------------------
(* Filters and facets.  A filter is a set of wanted values per field, the *)
(* empty set for no filter.                                               *)

Fields == {"category", "task_mode"}
Values(field, t) == IF field = "category" THEN {CategoryOf[t]} ELSE pool[t]
AllValues(field) == IF field = "category" THEN {CategoryOf[t] : t \in Theorems} ELSE Modes
Filters == {f \in [Fields -> SUBSET (Modes \union {CategoryOf[t] : t \in Theorems})] :
              \A field \in Fields : f[field] \subseteq AllValues(field)}

_predicates(f, field, t) == f[field] = {} \/ f[field] \intersect Values(field, t) # {}

_matching(f, ignoring) ==
    {t \in index.live : \A field \in Fields \ {ignoring} : _predicates(f, field, t)}

query(f) == _matching(f, "")
facet(f, field, value) == Cardinality({t \in _matching(f, field) : value \in Values(field, t)})

----------------------------------------------------------------------------
(* Families: one entry per root theorem, headed by the member of the      *)
(* lowest precedence: the root itself, then the live, then the first.     *)

_precedence(t) ==
    (IF t # RootOf[t] THEN 2 ELSE 0) + (IF t \in index.closed THEN 1 ELSE 0)

Family(root) == {t \in Listed : RootOf[t] = root}
representative(root) ==
    CHOOSE t \in Family(root) : \A u \in Family(root) :
        _precedence(t) < _precedence(u) \/ (_precedence(t) = _precedence(u) /\ t <= u)

families == {[head |-> representative(root), variants |-> Family(root) \ {representative(root)}] :
               root \in {RootOf[t] : t \in Listed}}

----------------------------------------------------------------------------
(* A link to a task that is or was in the pool leads to its own theorem   *)
(* or nowhere, as long as that theorem is listed, live or closed.         *)
LegacyNeverMisleads == index.up =>
    \A id \in issued : id.theorem \in Listed => resolve_legacy(id) \subseteq {SlugOf[id.theorem]}

(* The ids of the current pool, and those the retired targets last had,   *)
(* always resolve, however many theorems share a fragment.                *)
CurrentLinksResolve == index.up => \A t \in Listed, m \in Modes :
    TaskId(t, m, issuedAt[t]) \in issued => resolve_legacy(TaskId(t, m, issuedAt[t])) = {SlugOf[t]}

(* A facet's count is what selecting that value would give: the results   *)
(* of the same filters with that one field set to the value.              *)
FacetsSayWhatSelectingGives == index.up =>
    \A f \in Filters, field \in Fields : \A value \in AllValues(field) :
        facet(f, field, value) = Cardinality(query([f EXCEPT ![field] = {value}]))

(* The index page agrees with the pages it links to: every listed theorem *)
(* appears once, under its problem, and the problem's own theorem heads   *)
(* it when the catalogue has it, retired or not.                          *)
FamiliesCoverThePool == index.up =>
    \A t \in Listed :
        /\ Cardinality({e \in families : t = e.head \/ t \in e.variants}) = 1
        /\ t = RootOf[t] => \E e \in families : e.head = t

(* One page per slug: no slug is served for two theorems.                 *)
SlugNamesOne == index.up => \A t, u \in Listed : SlugOf[t] = SlugOf[u] => t = u

=============================================================================

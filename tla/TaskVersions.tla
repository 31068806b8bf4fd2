---------------------------- MODULE TaskVersions ----------------------------
(***************************************************************************)
(* The registry of task versions and the releases that append to it.  A     *)
(* version's ID commits to its target, environment, dependencies and        *)
(* header; an instance is one source commit built in one environment.  A    *)
(* release plans a version for every selected target, reuses or builds it,  *)
(* admits it in the instance and closes what left the selection.  Intake    *)
(* takes submissions for the open versions, and every instance goes on      *)
(* verifying what it accepted itself.  An ID stands for the pair of its     *)
(* modes (proof and counterexample), which are always planned together.     *)
(*                                                                         *)
(* And the index that tells a target's identity, derived from a working    *)
(* tree that others may edit and rebuild meanwhile: stamp every source and *)
(* artifact, let Lake check the build, extract the compiled closure, read  *)
(* the sources and artifacts it names, and stamp everything again.         *)
(***************************************************************************)
EXTENDS Naturals, Sequences, FiniteSets, SequencesExt

CONSTANTS
    Targets, Instances,
    CommitOf, EnvOf,   \* of an instance
    DepOf,             \* [Instances -> [Targets -> dependency identity]]: from derive_dependency_index
    NoDep,             \* the target is not in that source's catalog
    TypeOf,            \* the type of a target's statement, by instance
    Reviewed,          \* targets whose status evidence covers that source, by instance
    Erdos, MinErdos,   \* MINIMUM_ERDOS_TASKS
    Headers,           \* adapter versions
    MaxReleases, MaxTaken, MaxOrphans \* bounds: releases, submissions, bundles of failed releases

ASSUME VersionConstants ==
    /\ Headers \subseteq Nat /\ 1 \in Headers /\ {MaxReleases, MaxTaken, MaxOrphans} \subseteq Nat
    /\ \A i, j \in Instances : CommitOf[i] = CommitOf[j] /\ EnvOf[i] = EnvOf[j] => i = j

VARIABLES
    publications, \* the registry: [instance, allowed], oldest first
    versions,     \* ID -> [state, admissions], admissions being [instance, first]
    bundles,      \* what the store holds
    taken,        \* the keys of the submissions intake accepted: [id, problem, by]
    refused       \* a release failed its own checks

versionVars == <<publications, versions, bundles, taken, refused>>

ExitStates == {"retired", "held"}

VersionsInit ==
    /\ publications = <<>> /\ versions = <<>> /\ bundles = {}
    /\ taken = {} /\ refused = FALSE

admission_at(record, i) == {k \in DOMAIN record.admissions : record.admissions[k].instance = i}
Active(vs) == {id \in DOMAIN vs : vs[id].state = "active"}

-----------------------------------------------------------------------------
(* The audited selection *)

Metadata == [targets : SUBSET Targets, retired : SUBSET Targets, held : SUBSET Targets]

\* Every selected target has an eligible review of the very statement the catalog holds.
load_selection_audit(i, md) == md.targets \subseteq Reviewed[i]

load_task_targets(md) == md.targets # {}

\* A hold or retirement closes the statement, under whatever name it is selected.
closed_types(i, md) == {TypeOf[i][t] : t \in md.held \cup md.retired}

select_task_declarations(i, md) ==
    /\ md.held \cap md.retired = {}
    /\ \A t \in md.targets : DepOf[i][t] # NoDep /\ TypeOf[i][t] \notin closed_types(i, md)
    /\ \A t, u \in md.targets : TypeOf[i][t] = TypeOf[i][u] => t = u
    /\ Cardinality(md.targets \cap Erdos) >= MinErdos

exit_states(md) ==
    [t \in Targets |-> IF t \in md.held THEN "held" ELSE IF t \in md.retired THEN "retired" ELSE "none"]

-----------------------------------------------------------------------------
(* Planning *)

v2_task_id(i, t, h) == [target |-> t, env |-> EnvOf[i], dep |-> DepOf[i][t], header |-> h]

\* A target keeps the header of its active version unless the release asks for another.
header_of(t, upgrade) ==
    IF upgrade # 0 THEN upgrade
    ELSE IF \E id \in Active(versions) : id.target = t
    THEN (CHOOSE id \in Active(versions) : id.target = t).header
    ELSE 1

plan_release(i, selected, upgrade) == {v2_task_id(i, t, header_of(t, upgrade)) : t \in selected}

-----------------------------------------------------------------------------
(* RegistryBuilder *)

admit(vs, id, i, state, n) ==
    LET new == <<[instance |-> i, first |-> n]>>
    IN  [x \in DOMAIN vs \cup {id} |->
            IF x # id THEN vs[x]
            ELSE [state |-> state,
                  admissions |-> IF id \notin DOMAIN vs THEN new
                                 ELSE IF admission_at(vs[id], i) # {} THEN vs[id].admissions
                                 ELSE vs[id].admissions \o new]]

set_state(vs, id, state) == [vs EXCEPT ![id].state = state]

\* Mutant: a version that the release replaces stays active.
OnlyLeavers(plans, selected) == {id \in Active(versions) \ plans : id.target \notin selected}

\* The versions that stop being open: replaced by another of their target, or out of the selection.
Closing(plans, selected) == Active(versions) \ plans

closing_state(id, selected, exits) == IF id.target \in selected THEN "superseded" ELSE exits[id.target]

\* Closed to intake but unchanged in this instance: it may verify the version too.
retained(id, i, state) ==
    state \in ExitStates /\ id.env = EnvOf[i] /\ DepOf[i][id.target] = id.dep

Admitted(plans, i, n) ==
    LET AdmitOne(vs, id) == admit(vs, id, i, "active", n)
    IN  FoldLeft(AdmitOne, versions, SetToSeq(plans))

Closed(vs, plans, selected, exits, i, n) ==
    LET CloseOne(ws, id) ==
            LET state == closing_state(id, selected, exits)
                set == set_state(ws, id, state)
            IN  IF retained(id, i, state) THEN admit(set, id, i, state, n) ELSE set
    IN  FoldLeft(CloseOne, vs, SetToSeq(Closing(plans, selected)))

-----------------------------------------------------------------------------
(* The checks a release passes before it is written *)

\* The strict loader: every admission once, in order, in the version's own environment.
from_bytes(pubs, vs) ==
    \A id \in DOMAIN vs :
        LET as == vs[id].admissions
        IN  /\ as # <<>>
            /\ \A k \in DOMAIN as :
                  /\ as[k].first \in 1 .. Len(pubs) /\ EnvOf[as[k].instance] = id.env
                  /\ \E p \in DOMAIN pubs : pubs[p].instance = as[k].instance
            /\ \A k, l \in DOMAIN as : k < l => as[k].first <= as[l].first /\ as[k].instance # as[l].instance

_check_current(vs, current) ==
    \A id \in Active(vs) :
        /\ admission_at(vs[id], current) # {}
        /\ \A other \in Active(vs) : other.target = id.target => other = id

assert_append_only(old, new, boundary) ==
    /\ DOMAIN old \subseteq DOMAIN new
    /\ \A id \in DOMAIN new :
          LET before == IF id \in DOMAIN old THEN old[id].admissions ELSE <<>>
          IN  /\ IsPrefix(before, new[id].admissions)
              /\ \A k \in DOMAIN new[id].admissions : k > Len(before) => new[id].admissions[k].first > boundary

\* TaskPoolRegistry: one task for every source and no statement twice.
allowlist_from_bytes(i, allowed) ==
    /\ allowed # {}
    /\ \A a, b \in allowed : TypeOf[i][a.target] = TypeOf[i][b.target] => a = b

assert_matches_allowlist_bytes(vs, current, allowed) ==
    {id \in Active(vs) : admission_at(vs[id], current) # {}} = allowed

-----------------------------------------------------------------------------
(* publish_release *)

\* The metadata must be coherent and the store must have every open version.
CanPlan(i, md, upgrade) ==
    /\ load_selection_audit(i, md) /\ load_task_targets(md) /\ select_task_declarations(i, md)
    /\ \A id \in Active(versions) : id \in bundles /\ (upgrade # 0 => upgrade >= id.header)

\* Versions published before are reused, the others are built and stored one by one; a build may fail.
_build_all(plans) == bundles' = bundles \cup plans

BuildFails(i, md, upgrade) ==
    /\ Len(publications) < MaxReleases
    /\ CanPlan(i, md, upgrade)
    /\ Cardinality(bundles \ DOMAIN versions) < MaxOrphans
    /\ \E id \in plan_release(i, md.targets, upgrade) \ (DOMAIN versions \cup bundles) : bundles' = bundles \cup {id}
    /\ UNCHANGED <<publications, versions, taken, refused>>

\* The allowlist of a release: the active versions of its plan, for the one instance it is built from.
build_task_allowlist(i, plans) == [instance |-> i, allowed |-> plans]

publish_release(i, md, upgrade) ==
    LET selected == md.targets
        exits == exit_states(md)
        plans == plan_release(i, selected, upgrade)
        n == Len(publications) + 1
        pubs == Append(publications, build_task_allowlist(i, plans))
        vs == Closed(Admitted(plans, i, n), plans, selected, exits, i, n)
    IN  /\ n <= MaxReleases
        /\ CanPlan(i, md, upgrade)
        /\ plans \cap DOMAIN versions \subseteq bundles
        /\ \A id \in Closing(plans, selected) : closing_state(id, selected, exits) # "none"
        /\ _build_all(plans)
        /\ IF /\ from_bytes(pubs, vs) /\ _check_current(vs, i)
              /\ publications # <<>> => assert_append_only(versions, vs, n - 1)
              /\ allowlist_from_bytes(i, plans) /\ assert_matches_allowlist_bytes(vs, i, plans)
           THEN publications' = pubs /\ versions' = vs /\ UNCHANGED refused
           ELSE refused' = TRUE /\ UNCHANGED <<publications, versions>>
        /\ UNCHANGED taken

-----------------------------------------------------------------------------
(* Intake and routing *)

problem_id(i, t) == <<CommitOf[i], t>>

\* The API serves the publication it loaded, which need not be the last one.
resolve(n, id) ==
    /\ id \in publications[n].allowed /\ Cardinality(taken) < MaxTaken
    /\ taken' = taken \cup {[id |-> id, problem |-> problem_id(publications[n].instance, id.target),
                             by |-> publications[n].instance]}
    /\ UNCHANGED <<publications, versions, bundles, refused>>

served_keys(i) ==
    {[id |-> id, problem |-> problem_id(i, id.target)] :
        id \in {x \in DOMAIN versions : admission_at(versions[x], i) # {}}}

VersionsNext ==
    \/ \E i \in Instances, md \in Metadata, upgrade \in Headers \cup {0} :
          publish_release(i, md, upgrade) \/ BuildFails(i, md, upgrade)
    \/ \E n \in DOMAIN publications : \E id \in publications[n].allowed : resolve(n, id)

VersionsSpec == VersionsInit /\ [][VersionsNext]_versionVars

-----------------------------------------------------------------------------
VersionsTypeOK ==
    /\ \A n \in DOMAIN publications : publications[n].instance \in Instances
    /\ \A id \in DOMAIN versions :
          id.target \in Targets /\ id.header \in Headers /\ versions[id].state \in {"active", "superseded"} \cup ExitStates
    /\ DOMAIN versions \subseteq bundles

\* A release built from legal inputs passes every check the loader will make of it: nothing stops publication.
LegalReleaseIsBuilt == ~refused

\* Every accepted submission is served for ever by the instance that accepted it, and by no other.
OneInstanceServes ==
    \A k \in taken : {i \in Instances : [id |-> k.id, problem |-> k.problem] \in served_keys(i)} = {k.by}

-----------------------------------------------------------------------------
(* The dependency index *)

CONSTANTS
    Modules, IndexedTarget,   \* the local Lean modules and the one of the indexed statement
    Imports,           \* [Modules -> SUBSET Modules], acyclic
    Texts,             \* what a source file may hold
    MaxWrites          \* bound on edits and rebuilds

ASSUME IndexConstants == IndexedTarget \in Modules /\ Imports \in [Modules -> SUBSET Modules] /\ MaxWrites \in Nat

VARIABLES
    source,   \* [text, stamp] by module
    olean,    \* [of, stamp] by module: the texts of the closure it was compiled from
    writes,   \* also the clock of the stamps
    indexStep, todo, \* of derive_dependency_index: where it is, the files it has left to visit
    before, after, \* local_tree_snapshot: <<file kind, module>> -> stamp
    indexReport,   \* the extractor's closure: the texts each loaded module was compiled from
    snapshotRead      \* build_provenance: [text, of] by module

indexVars == <<source, olean, writes, indexStep, todo, before, after, indexReport, snapshotRead>>

Files == {"source", "olean"} \X Modules
Stamp(f) == IF f[1] = "source" THEN source[f[2]].stamp ELSE olean[f[2]].stamp

\* Everything a module imports, directly or not, and itself.
_compute_module_closure(m) ==
    LET Grow(S) == S \cup UNION {Imports[x] : x \in S}
        closure[n \in 0 .. Cardinality(Modules)] == IF n = 0 THEN {m} ELSE Grow(closure[n - 1])
    IN  closure[Cardinality(Modules)]

IndexInit ==
    /\ source \in [Modules -> [text : Texts, stamp : {0}]]
    /\ olean = [m \in Modules |-> [of |-> [x \in _compute_module_closure(m) |-> source[x].text], stamp |-> 0]]
    /\ writes = 0 /\ indexStep = "Idle" /\ todo = {}
    /\ before = [f \in Files |-> 0] /\ after = before
    /\ indexReport = [m \in Modules |-> olean[m].of]
    /\ snapshotRead = [m \in Modules |-> [text |-> source[m].text, of |-> olean[m].of]]

-----------------------------------------------------------------------------
(* Whoever else works in the tree *)

Edit(m, text) ==
    /\ writes < MaxWrites /\ writes' = writes + 1
    /\ source' = [source EXCEPT ![m] = [text |-> text, stamp |-> writes + 1]]
    /\ UNCHANGED <<olean, indexStep, todo, before, after, indexReport, snapshotRead>>

UpToDate(m) == olean[m].of = [x \in _compute_module_closure(m) |-> source[x].text]

\* lake build compiles a module once what it imports is up to date.
Rebuild(m) ==
    /\ writes < MaxWrites /\ writes' = writes + 1
    /\ \A x \in Imports[m] : UpToDate(x)
    /\ olean' = [olean EXCEPT ![m] = [of |-> [x \in _compute_module_closure(m) |-> source[x].text],
                                      stamp |-> writes + 1]]
    /\ UNCHANGED <<source, indexStep, todo, before, after, indexReport, snapshotRead>>

-----------------------------------------------------------------------------
(* derive_dependency_index *)

Proceeds(next, files) == indexStep' = next /\ todo' = files
Fails == Proceeds("Idle", {}) /\ UNCHANGED <<source, olean, writes, before, after, indexReport, snapshotRead>>

derive_dependency_index ==
    /\ indexStep = "Idle" /\ Proceeds("Before", Files)
    /\ UNCHANGED <<source, olean, writes, before, after, indexReport, snapshotRead>>

\* The walk stamps the files one after another.
local_tree_snapshot(f) ==
    /\ f \in todo
    /\ \/ indexStep = "Before" /\ before' = [before EXCEPT ![f] = Stamp(f)] /\ UNCHANGED after
          /\ Proceeds(IF todo = {f} THEN "Lake" ELSE indexStep, todo \ {f})
       \/ indexStep = "After" /\ after' = [after EXCEPT ![f] = Stamp(f)] /\ UNCHANGED before
          /\ Proceeds(IF todo = {f} THEN "Compare" ELSE indexStep, todo \ {f})
    /\ UNCHANGED <<source, olean, writes, indexReport, snapshotRead>>

\* lake build --no-build: nothing that the target imports would be rebuilt.
assert_coherent_build ==
    /\ indexStep = "Lake"
    /\ IF \A m \in _compute_module_closure(IndexedTarget) : UpToDate(m)
       THEN Proceeds("Extract", {"olean"} \X _compute_module_closure(IndexedTarget))
            /\ UNCHANGED <<source, olean, writes, before, after, indexReport, snapshotRead>>
       ELSE Fails

\* The extractor loads the artifacts of the closure.
parse_closure_report(f) ==
    /\ indexStep = "Extract" /\ f \in todo
    /\ indexReport' = [indexReport EXCEPT ![f[2]] = olean[f[2]].of]
    /\ IF todo = {f} THEN Proceeds("Read", Files \cap ({"source", "olean"} \X _compute_module_closure(IndexedTarget)))
       ELSE Proceeds(indexStep, todo \ {f})
    /\ UNCHANGED <<source, olean, writes, before, after, snapshotRead>>

\* Every local module of the closure: its source text and the artifact that Lean loaded.
build_provenance(f) ==
    /\ indexStep = "Read" /\ f \in todo
    /\ snapshotRead' = [snapshotRead EXCEPT ![f[2]] = IF f[1] = "source" THEN [@ EXCEPT !.text = source[f[2]].text]
                                      ELSE [@ EXCEPT !.of = olean[f[2]].of]]
    /\ IF todo = {f} THEN Proceeds("After", Files) ELSE Proceeds(indexStep, todo \ {f})
    /\ UNCHANGED <<source, olean, writes, before, after, indexReport>>

CompareSnapshots ==
    /\ indexStep = "Compare"
    /\ IF after = before
       THEN Proceeds("Done", {}) /\ UNCHANGED <<source, olean, writes, before, after, indexReport, snapshotRead>>
       ELSE Fails

DeriveStep ==
    \/ derive_dependency_index \/ assert_coherent_build \/ CompareSnapshots
    \/ \E f \in todo : local_tree_snapshot(f) \/ parse_closure_report(f) \/ build_provenance(f)

IndexNext ==
    \/ \E m \in Modules : (\E text \in Texts : Edit(m, text)) \/ Rebuild(m)
    \/ DeriveStep

IndexSpec == IndexInit /\ [][IndexNext]_indexVars

-----------------------------------------------------------------------------
\* What the index commits a target to: its closure as compiled, and as written.
dependency_identity == [m \in _compute_module_closure(IndexedTarget) |-> indexReport[m]]

\* An index never pairs a compiled closure with another source text or another artifact, whoever
\* edits or rebuilds the tree while it is derived.
IndexIsCoherent ==
    indexStep = "Done" =>
        \A m \in _compute_module_closure(IndexedTarget) :
            /\ dependency_identity[m] = snapshotRead[m].of
            /\ snapshotRead[m].of = [x \in _compute_module_closure(m) |-> snapshotRead[x].text]
=============================================================================

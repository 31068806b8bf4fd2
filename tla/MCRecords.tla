----------------------------- MODULE MCRecords -----------------------------
(***************************************************************************)
(* Small instances of the modules of what is published and read: tasks     *)
(* and their versions, competition boards, results, contributions and the  *)
(* chat logs of proofs.  The modules share no variable, so a behaviour is  *)
(* about one of them.                                                      *)
(***************************************************************************)
EXTENDS TaskPublication, TaskVersions, CatalogIndex, CompetitionBoards,
        PublicReads, ContributionCorpus, ChatLogClaims

\* The component a behaviour is about: the others stand still in it.
CONSTANT Scenarios
VARIABLE scenario

\* The first and the third release share a bundle.
BundleOfV == [n \in 1..MaxPublications |-> IF n = 2 THEN "b2" ELSE "b1"]

\* Three builds of two targets: the second changes a statement, the third the environment.
CommitOfV == [i \in Instances |-> IF i = "i1" THEN "c1" ELSE "c2"]
EnvOfV == [i \in Instances |-> IF i = "i3" THEN "e2" ELSE "e1"]
DepOfV == [i \in Instances |-> [t \in Targets |->
             IF t = "t1" THEN (IF i = "i1" THEN "d1" ELSE "d2") ELSE IF i = "i3" THEN NoDep ELSE "d1"]]
TypeOfV == [i \in Instances |-> [t \in Targets |-> IF i = "i2" THEN "t1" ELSE t]]
ReviewedV == [i \in Instances |-> Targets]

ImportsV == [m1 |-> {"m2"}, m2 |-> {}]

\* Two variants of one problem whose fragments are cut to the same text, a problem of its own,
\* and one whose slug is the same as that one's.
SlugOfV == <<"a", "b", "c", "c">>
FragmentOfV == <<"x", "x", "y", "z">>
RootOfV == <<2, 2, 3, 4>>
CategoryOfV == <<"open", "solved", "open", "open">>

\* A tie in time that the metric breaks.
MinerV == <<1, 2>>
MetricV == <<2, 1>>
SubmittedAtV == <<1, 1>>
MaxRunsV == <<1, 1>>

SharesV == <<60, 40>>

TargetV == [s \in Results |-> 1]

\* Nothing fetched yet, then two corpora: two ids with one prefix, a target that goes, an id that two rows name, a shared coldkey.
Contributed(i, a, k, d) == [id |-> i, author |-> a, coldkey |-> k, added |-> d]
TargetPage(t, r, q, found) == [target |-> t, reward |-> r, problem |-> q, items |-> found]
SlugForV == [r1 |-> "t2", r2 |-> "s2"]
PrefixOfV == [i1 |-> "p1", i2 |-> "p1", i3 |-> "p3"]
RankV == [t1 |-> 1, t2 |-> 2, t3 |-> 3, i1 |-> 1, i2 |-> 2, i3 |-> 3, a |-> 1, b |-> 2, k |-> 1, q |-> 1]
CorporaV ==
    <<{},
      {TargetPage("t1", "r1", "q", {Contributed("i1", "a", "k", 1)}), TargetPage("t2", "r2", "none", {Contributed("i2", "a", "none", 1)}),
       TargetPage("t3", "r2", "q", {})},
      {TargetPage("t1", "none", "q", {Contributed("i1", "a", "k", 1), Contributed("i3", "b", "k", 2)}),
       TargetPage("t2", "r2", "none", {Contributed("i3", "a", "none", 1)})}>>

\* What a package holds is only ever compared.
LogSymmetry == Permutations(Logs)

Runs(component) == scenario = component

Init ==
    /\ scenario \in Scenarios
    /\ Runs("index") \/ (source = [m \in Modules |-> [text |-> 0, stamp |-> 0]])
    /\ PublicationInit /\ VersionsInit /\ IndexInit /\ CatalogInit /\ CompressionInit
    /\ HillInit /\ PublicInit /\ CorpusInit /\ ClaimsInit

TaskPublicationRuns ==
    /\ Runs("publication") /\ PublicationNext
    /\ UNCHANGED <<scenario, versionVars, indexVars, catalogVars, compressionVars, hillVars,
                   publicVars, corpusVars, claimVars>>

TaskVersionsRuns ==
    /\ Runs("versions") /\ VersionsNext
    /\ UNCHANGED <<scenario, publicationVars, indexVars, catalogVars, compressionVars, hillVars,
                   publicVars, corpusVars, claimVars>>

DependencyIndexRuns ==
    /\ Runs("index") /\ IndexNext
    /\ UNCHANGED <<scenario, publicationVars, versionVars, catalogVars, compressionVars, hillVars,
                   publicVars, corpusVars, claimVars>>

CatalogIndexRuns ==
    /\ Runs("catalog") /\ CatalogNext
    /\ UNCHANGED <<scenario, publicationVars, versionVars, indexVars, compressionVars, hillVars,
                   publicVars, corpusVars, claimVars>>

CompressionRuns ==
    /\ Runs("compression") /\ CompressionNext
    /\ UNCHANGED <<scenario, publicationVars, versionVars, indexVars, catalogVars, hillVars,
                   publicVars, corpusVars, claimVars>>

HillRuns ==
    /\ Runs("hill") /\ HillNext
    /\ UNCHANGED <<scenario, publicationVars, versionVars, indexVars, catalogVars, compressionVars,
                   publicVars, corpusVars, claimVars>>

PublicReadsRuns ==
    /\ Runs("results") /\ PublicNext
    /\ UNCHANGED <<scenario, publicationVars, versionVars, indexVars, catalogVars, compressionVars,
                   hillVars, corpusVars, claimVars>>

ContributionCorpusRuns ==
    /\ Runs("corpus") /\ CorpusNext
    /\ UNCHANGED <<scenario, publicationVars, versionVars, indexVars, catalogVars, compressionVars,
                   hillVars, publicVars, claimVars>>

ChatLogClaimsRuns ==
    /\ Runs("claims") /\ ClaimsNext
    /\ UNCHANGED <<scenario, publicationVars, versionVars, indexVars, catalogVars, compressionVars,
                   hillVars, publicVars, corpusVars>>

Next ==
    \/ TaskPublicationRuns \/ TaskVersionsRuns \/ DependencyIndexRuns \/ CatalogIndexRuns
    \/ CompressionRuns \/ HillRuns \/ PublicReadsRuns \/ ContributionCorpusRuns
    \/ ChatLogClaimsRuns

\* The fairness of each component's own specification, while it is the one that runs.
Spec ==
    /\ Init /\ [][Next]_<<scenario, publicationVars, versionVars, indexVars, catalogVars,
                        compressionVars, hillVars, publicVars, corpusVars, claimVars>>

-----------------------------------------------------------------------------
\* A release that the tools accept is served as it was built: legal releases build, one instance serves
\* each accepted submission, and an index describes one tree (incremental.py, task_versions.py).
ReleasesAreCoherent ==
    /\ Runs("versions") => VersionsTypeOK /\ LegalReleaseIsBuilt /\ OneInstanceServes
    /\ Runs("index") => IndexIsCoherent

\* A board shows one measurement at a time, pays a rank once, and keeps a leader's source to itself,
\* although passes, champions and demotions come between its statements (compression_store.py,
\* competition_reads.py, floatlib_store.py, torchlean_reads.py).
BoardsAreTrue ==
    /\ Runs("compression") =>
         ListingsAreWhole /\ FrontierSourceIsPrivate /\ CacheIsCurrent /\ DecisionIsOfTheRun
    /\ Runs("hill") => ChampionSourceIsHidden /\ RanksArePaidOnce /\ BoardIsComparable

\* A public page says what is so although it reads at several moments: results, sums, links, facets,
\* families and contributions agree with one another (public.py, catalog.py, contributions.py).
PagesAreTrue ==
    /\ Runs("results") =>
         /\ FeedMissesNothing /\ SolvedSinceTheRunBegan /\ SolutionFlagIsTrue /\ StatsAddUp
         /\ PaidIsShownApproved /\ PageDoesNotContradict
    /\ Runs("catalog") =>
         /\ LegacyNeverMisleads /\ CurrentLinksResolve /\ FacetsSayWhatSelectingGives
         /\ FamiliesCoverThePool /\ SlugNamesOne
    /\ Runs("corpus") =>
         /\ EveryNameResolves /\ PrefixIsUnambiguous /\ SharedColdkeyIsMutual /\ ListingIsWhole
         /\ RevalidatedIsCurrent

\* What was published or ended stays so: a speed-up that was shown, a delivery that was over, and a bounty
\* that was given up with its logs (speedups, effective_status, forfeit_bounty).
RecordsStand ==
    [][SpeedupsAreFinal /\ EndedDeliveryStaysEnded /\ ForfeitedHoldsNothing]_<<hillVars, claimVars>>
=============================================================================

----------------------------- MODULE MCWorkers -----------------------------
(***************************************************************************)
(* Small instances of the modules of what runs by itself: the verifier,    *)
(* the competition and its watchers, the emissions, the mirror of the      *)
(* contributions, the reads of the chain and the telemetry.  The modules   *)
(* share no variable, so a behaviour is about one of them.                 *)
(***************************************************************************)
EXTENDS VerifierPipeline, CompetitionQueue, CompetitionIntake, Emissions, ContributionMirror,
        ChainReads, TelemetryQueue

\* The component a behaviour is about: the others stand still in it.
CONSTANT Scenarios
VARIABLE scenario

\* Two submissions of one hotkey and one without content of another, one registration each.
HotkeyOfV == <<"h1", "h1", "h2">>
RegisteredToV == <<"h1", "h2">>

\* Commits that fill a directory, empty both, and fill them again with another layout.
LayoutV == <<[a |-> "index", b |-> "bad with page"], [a |-> "none", b |-> "none"], [a |-> "page", b |-> "index"]>>

\* Blocks with one transfer, with two of one extrinsic, and with an event that has no extrinsic.
TransferEvent(e, a) == [kind |-> "transfer", extrinsic |-> e, amount |-> a]
OtherEvent(e) == [kind |-> "other", extrinsic |-> e, amount |-> 0]
ContentsV == {<<TransferEvent(1, 1)>>, <<OtherEvent(1), TransferEvent(1, 1), TransferEvent(1, 0)>>,
              <<TransferEvent(1, 1), TransferEvent(1, 1), TransferEvent(2, 1)>>,
              <<TransferEvent(-1, 1), TransferEvent(0, 1)>>}
CitationsV == {<<1, -1>>, <<1, 2>>, <<0, -1>>, <<0, 1>>}
TimeOfV == <<1, 3, 4, 6, 7, 9, 10>>

workersVars == <<scenario, pipelineVars, competitionVars, intakeAll, emissionsVars, contributionVars,
                 chainReadsVars, telemetryVars>>

Runs(component) == scenario = component

WorkersInit ==
    /\ scenario \in Scenarios
    /\ Runs("pipeline") \/ (world = [wrong |-> {}, v2 |-> FALSE, production |-> FALSE, insecure |-> FALSE,
                              challengeEnds |-> "exits", comparatorEnds |-> "exits", noise |-> {}])
    /\ Runs("emissions") \/ (hotkeys = [u \in Slots |-> Empty_])
    /\ Runs("mirror") \/ (openPulls = 11)
    /\ Runs("chain") \/ (finalHead = 4 /\ content = <<TransferEvent(1, 1)>> /\ search = [SearchIdle EXCEPT !.stage = "off"])
    /\ PipelineInit /\ CompetitionInit /\ IntakeInit /\ EmissionsInit /\ ContributionsInit
    /\ ChainReadsInit /\ TelemetryInit

VerifierPipelineRuns ==
    /\ Runs("pipeline") /\ PipelineNext
    /\ UNCHANGED <<scenario, competitionVars, intakeAll, emissionsVars, contributionVars,
                   chainReadsVars, telemetryVars>>

CompetitionQueueRuns ==
    /\ Runs("competition") /\ CompetitionNext
    /\ UNCHANGED <<scenario, pipelineVars, intakeAll, emissionsVars, contributionVars,
                   chainReadsVars, telemetryVars>>

CompetitionIntakeRuns ==
    /\ Runs("intake") /\ IntakeNext
    /\ UNCHANGED <<scenario, pipelineVars, competitionVars, emissionsVars, contributionVars,
                   chainReadsVars, telemetryVars>>

EmissionsRuns ==
    /\ Runs("emissions") /\ EmissionsNext
    /\ UNCHANGED <<scenario, pipelineVars, competitionVars, intakeAll, contributionVars,
                   chainReadsVars, telemetryVars>>

ContributionMirrorRuns ==
    /\ Runs("mirror") /\ ContributionsNext
    /\ UNCHANGED <<scenario, pipelineVars, competitionVars, intakeAll, emissionsVars,
                   chainReadsVars, telemetryVars>>

ChainReadsRuns ==
    /\ Runs("chain") /\ ChainReadsNext
    /\ UNCHANGED <<scenario, pipelineVars, competitionVars, intakeAll, emissionsVars,
                   contributionVars, telemetryVars>>

TelemetryQueueRuns ==
    /\ Runs("telemetry") /\ TelemetryNext
    /\ UNCHANGED <<scenario, pipelineVars, competitionVars, intakeAll, emissionsVars,
                   contributionVars, chainReadsVars>>

WorkersNext ==
    \/ VerifierPipelineRuns \/ CompetitionQueueRuns \/ CompetitionIntakeRuns
    \/ EmissionsRuns \/ ContributionMirrorRuns \/ ChainReadsRuns \/ TelemetryQueueRuns

\* The fairness of each component's own specification, while it is the one that runs.
WorkersSpec ==
    /\ WorkersInit /\ [][WorkersNext]_workersVars
    /\ WF_pipelineVars(Runs("pipeline") /\ PipelineNext)
    /\ WF_competitionVars(Runs("competition") /\ run_forever)
    /\ WF_intakeAll(Runs("intake") /\ \E w \in RegistrationWatchers : step(w))
    /\ WF_emissionsVars(Runs("emissions") /\ run_epoch)
    /\ WF_contributionVars(Runs("mirror") /\ refresh)
    /\ WF_contributionVars(Runs("mirror") /\ TimeGoesOn)
    /\ \A r \in ReadCallers : WF_chainReadsVars(Runs("chain") /\ _read(r))
    /\ WF_telemetryVars(Runs("telemetry") /\ _drain)

-----------------------------------------------------------------------------
\* What a worker could not deliver it counts or asks for again: a listing is one whole commit, and
\* every event is sent, failed, dropped or on its way, and told once (github.py, axiom/client.py).
NothingIsLostInSilence ==
    SnapshotIsOneCommit /\ NothingDropped /\ EveryEventIsCounted /\ MissingIsToldOnce /\ ShutdownFlushes

\* Every worker comes to the end of what it is doing, through crashes, refusals, timeouts and processes
\* that hang (run_process, run_forever, step, run_epoch, refresh, _read, _drain).
WorkersGoOn ==
    /\ RunEnds /\ QueueDrains /\ WatcherCatchesUp /\ AttemptsEnd
    /\ CorpusCatchesUp /\ CallsReturn /\ BatchesAreFlushed
=============================================================================

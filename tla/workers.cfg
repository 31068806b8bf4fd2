SPECIFICATION WorkersSpec
CONSTANTS
    Scenarios = {"pipeline", "competition", "intake", "emissions", "mirror", "chain", "telemetry"}
    MaxDefects = 1
    Submissions = {1, 2, 3}
    Hollow = {3}
    Registrations = {1, 2}
    HotkeyOf <- HotkeyOfV
    RegisteredTo <- RegisteredToV
    Runners = {"w1", "w2"}
    max_attempts = 2
    BackoffTurns = 1
    MaxBreaks = 1
    MaxDeaths = 1
    MaxRequeues = 1
    Uids = {1, 2}
    Miners = {"h1", "h2"}
    Digests = {"d1", "d2"}
    Calls = {1, 2}
    RegistrationWatchers = {"w1"}
    Cutoff = 2
    MaxHeight = 3
    MaxFaults = 1
    Slots = {0, 1, 2}
    TREASURY_UID = 0
    Competitors = {"k1", "k2"}
    Scores = {0, 1, 2}
    TREASURY_BPS = 48
    COMPETITION_BPS = 12
    MaxEpochs = 2
    MaxUpsets = 2
    Commits = {1, 2, 3}
    Directories = {"a", "b"}
    Layout <- LayoutV
    PullLists = {11, 12}
    MaxMirrorTime = 2
    MaxPullMoves = 2
    MaxOutages = 2
    Payers = {"p", "q"}
    Searcher = "w"
    TimeOf <- TimeOfV
    Whens = {2, 3, 5, 10}
    StepBlocks = 1
    PaidBlock = 5
    StartHeads = {4, 7}
    Contents <- ContentsV
    Citations <- CitationsV
    MaxReadTroubles = 1
    QueueSize = 2
    BatchEvents = 2
    MaxLogged = 3
    MaxBeats = 2
INVARIANTS
    
    ChargesMatch
    RegistrationsAreSpentOnce
    EpochsArePaidOnce
    ReadsAreSound
    NothingIsLostInSilence
PROPERTIES
    WorkersGoOn
CHECK_DEADLOCK FALSE

SPECIFICATION Spec
CONSTANTS
    Scenarios = {"publication", "versions", "index", "catalog", "compression", "hill", "results", "corpus", "claims"}
    Publishers = {"p1", "p2"}
    CheckoutReaders = {"r1"}
    Bundles = {"b1", "b2"}
    BundleOf <- BundleOfV
    ReadAttempts = 2
    MaxPublications = 2
    MaxPublishFailures = 2
    NoFile = NoFile
    NoPublisher = NoPublisher
    Targets = {"t1", "t2"}
    Instances = {"i1", "i2", "i3"}
    CommitOf <- CommitOfV
    EnvOf <- EnvOfV
    DepOf <- DepOfV
    NoDep = NoDep
    TypeOf <- TypeOfV
    Reviewed <- ReviewedV
    Erdos = {"t1", "t2"}
    MinErdos = 1
    Headers = {1, 2}
    MaxReleases = 3
    MaxTaken = 1
    MaxOrphans = 1
    Modules = {"m1", "m2"}
    IndexedTarget = "m1"
    Imports <- ImportsV
    Texts = {0, 1}
    MaxWrites = 2
    Theorems = {1, 2, 3, 4}
    SlugOf <- SlugOfV
    FragmentOf <- FragmentOfV
    RootOf <- RootOfV
    CategoryOf <- CategoryOfV
    Modes = {"prove", "refute"}
    MaxCatalogReleases = 2
    Entries = {1, 2}
    Miner <- MinerV
    SubmittedAt <- SubmittedAtV
    Metric <- MetricV
    Lookers = {"c1"}
    PassesKept = 1
    RowsPerPage = 1
    MaxPasses = 2
    MaxRuns <- MaxRunsV
    Boards = {"a", "b"}
    Kernels = {1, 2}
    Gains = {1}
    MaxSuite = 2
    Shares <- SharesV
    MaxPromotions = 3
    Results = {1, 2}
    Target <- TargetV
    PageSize = 1
    Bounty = 2
    MaxClock = 2
    MaxRulings = 2
    Corpora <- CorporaV
    SlugFor <- SlugForV
    PrefixOf <- PrefixOfV
    Rank <- RankV
    PageLimit = 1
    MaxRotations = 1
    LogProofs = {1, 2}
    BonusProofs = {2}
    Logs = {p, q}
    LogReaders = {"r"}
    Deliveries = {1}
    MaxRevisions = 2
    MaxLogRulings = 3
    MaxLogChanges = 8
SYMMETRY LogSymmetry
INVARIANTS
    PublicationIsDurable
    ReleasesAreCoherent
    
    
    LicencesAreSound

    
CHECK_DEADLOCK FALSE

SPECIFICATION Spec
CONSTANTS
    NoneV = NoneV
    m = m
    a1 = a1
    a2 = a2
    s1 = s1
    NoCapV = NoCapV
    None <- NoneV
    NoCap <- NoCapV
    NoFile <- NoneV
    Partitions <- PartitionsV
    IndexOf <- IndexOfV
    PartOf <- PartOfV
    Stagings <- StagingsV
    Offers <- OffersV
    NoPrice <- NoCapV
    MaxBuilds = 3
    BulkSize = 1
    MaxRuns = 2
    MaxLosses = 1
    Calls <- CallsV
    Requests <- RequestsV
    Scopes <- ScopesV
    Skus <- SkusV
    Ships <- ShipsV
    TopN = 2
    TopK = 1
    FilteredLimit = 1
    MaxFaults = 2
    Main = "main"
    Lanes <- LanesV
    LaneOf <- LaneOfV
    Fixed <- FixedV
    Platform <- PlatformV
    Few = 1
    MaxSearches = 3
    Queries = 3
    WarmQueries = 1
    Needs <- NeedsV
    Exacting = {1, 2}
    Production = TRUE
    Target = 1
    Cumulative = 1
    StallAfter = 2
    MaxTrigger = 2
    Repeats = 2
    Absent <- NoneV
    MaxDirs = 3
    MaxKills = 1
    MaxStray = 1
    Suite <- SuiteV
    DependsOn <- DependsV
    Profile <- ProfileV
    TurnsOf <- TurnsV
    BindsOrder <- BindsV
    Boundary = "steal"
    Family <- FamilyV
    Points <- PointsV
    Required <- RequiredV
    P0 = 1
    P1 = 1
    UseCases <- UseCasesV
    Unset <- NoneV
    MaxCreated = 2
    t1 = t1
    t2 = t2
    t3 = t3
    Turns = {t1, t2, t3}
    Earlier = {0, 3}
    Topics = {"follow", "probe"}
    Hinted = {t2}
    Tools = {"search"}
    HotTurns = 1
    KeepRecent = 2
    RecentLimit = 2
    MinRecent = 0
    SegmentSize = 2
    FixedSize = 1
    Available = 14
    SoftLimit = 6
    MaxAfter = 6
    HardLimit = 4
    NoStage = NoStage
    MaxMishaps = 1
VIEW BackstageView
SYMMETRY BackstageSymmetry
INVARIANTS
    NothingLost
    FrozenStaysTrue
    NeverBlocked
    SummaryIsTrue
    SurvivesCrashes
    AnswersAreTrue
    DispatchAnswersItself
    EvidenceIsTrue
    ResumeIsTrue
    BatchIsTrue
CHECK_DEADLOCK FALSE

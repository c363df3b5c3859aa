CONSTANTS
    t1 = t1 t2 = t2 t3 = t3 t4 = t4
    Turns = {t1, t2}
    Earlier = {0}
    Topics = {"start"}
    Hinted = {}
    Tools = {"search"}
    HotTurns = 1
    KeepRecent = 0
    RecentLimit = 0
    MinRecent = 0
    SegmentSize = 2
    FixedSize = 1
    Available = 14
    SoftLimit = 2
    MaxAfter = 8
    HardLimit = 4
    NoStage = NoStage
    MaxMishaps = 1
SYMMETRY TurnSymmetry
SPECIFICATION FreezeSpec
INVARIANTS
    FailureNeverBlocks
CHECK_DEADLOCK FALSE

CONSTANTS
    t1 = t1 t2 = t2 t3 = t3 t4 = t4
    Turns = {t1, t2, t3, t4}
    Earlier = {0}
    Topics = {"start", "probe"}
    Hinted = {}
    Tools = {}
    HotTurns = 1
    KeepRecent = 0
    RecentLimit = 0
    MinRecent = 0
    SegmentSize = 2
    FixedSize = 1
    Available = 14
    SoftLimit = 2
    MaxAfter = 8
    HardLimit = 4
    NoStage = NoStage
    MaxMishaps = 0
SYMMETRY TurnSymmetry
SPECIFICATION FreezeSpec
INVARIANTS
    NumbersAreOriginal
CHECK_DEADLOCK FALSE

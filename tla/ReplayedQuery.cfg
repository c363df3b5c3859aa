SPECIFICATION ResumeSpec
CONSTANTS
    Queries = 3
    WarmQueries = 1
    Needs <- NeedsV
    Exacting = {1, 2}
    Production = TRUE
    Target = 1
    Cumulative = 1
    StallAfter = 2
    MaxTrigger = 2
    Repeats = 2
    Absent = Absent
    MaxDirs = 2
    MaxKills = 1
    MaxStray = 0
INVARIANTS
    InterruptionNeverReplays
CHECK_DEADLOCK FALSE

\* Up to three levels of up to four users, in every mode; and one of none.
CONSTANTS
    LevelLists <- LevelListsMC
    Modes = {"burst", "ramp", "batched"}
    Replies = {"result", "empty"}
    Latencies = {1, 2}
    Percents = {50, 95, 100}
SPECIFICATION GenFairSpec
CHECK_DEADLOCK FALSE
INVARIANTS
    GenTypeOK
    BurstTogether
    LevelsApart
    ExitTellsTruth
    NobodyLeftBehind
    PercentileIsQuantile
PROPERTY
    ProgramEnds

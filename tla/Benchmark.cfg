\* One or two workers; GETs may fail, declare any count whatever landed, and have their answers lost.
CONSTANTS
    Sizes <- TwoSizes
    Options <- SomeOptions
    Outcomes = {"ok", "claimed", "error", "lost"}
    MaxIters = 2
SPECIFICATION FairSpec
INVARIANTS LateOnlyAfterFailure ReportOfFinishedWork
PROPERTY BenchmarkEnds
CHECK_DEADLOCK FALSE

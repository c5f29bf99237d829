SPECIFICATION FairSpec
CONSTANTS
    Requests = {r1, r2, r3}
    Tasks = {t1, t2}
    NoTask = NoTask
    MaxClock = 2
    MaxFailures = 1
    MaxCrashes = 1
INVARIANTS OneTaskRuns ConfirmedHasProblem
PROPERTIES ExtractionEnds
CHECK_DEADLOCK FALSE

SPECIFICATION Spec
CONSTANTS
    NumItems = 2
    ShortItems <- MCShortItems
    a1 = a1
    a2 = a2
    Answers = {a1}
    RightAnswer <- MCRightAnswer
    NoAnswer = NoAnswer
    Workers = {w1}
    NoWorker = NoWorker
    r1 = r1
    r2 = r2
    r3 = r3
    r4 = r4
    Requests = {r1, r2, r3, r4}
    RequestKinds <- MCSaveSubmitReport
    MaxFaults = 1
SYMMETRY Symmetry
INVARIANTS SelfReportCountsOnce
CHECK_DEADLOCK FALSE

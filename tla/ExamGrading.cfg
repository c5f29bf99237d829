SPECIFICATION FairSpec
CONSTANTS
    NumItems = 2
    ShortItems <- MCShortItems
    a1 = a1
    a2 = a2
    Answers = {a1}
    RightAnswer <- MCRightAnswer
    NoAnswer = NoAnswer
    Workers = {w1, w2}
    NoWorker = NoWorker
    r1 = r1
    r2 = r2
    r3 = r3
    r4 = r4
    Requests = {r1, r2, r3, r4}
    RequestKinds <- MCOneOfEach
    MaxFaults = 1
INVARIANTS TypeOK GradesMatchAnswers SummaryMatchesItems TrackingMatchesGrading ReportedItemsCounted
PROPERTIES AnswersFrozen SettledItemsStay DiscardIsFinal GradingEnds
CHECK_DEADLOCK FALSE

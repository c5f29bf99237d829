SPECIFICATION FairSpec
CONSTANTS
    Problems = {p1, p2}
    Stored = {p1}
    max_retries = 1
    Requests = {r1, r2}
    RequestKinds = {"create", "regenerate"}
    MaxCrashes = 1
INVARIANTS RetriesBounded
PROPERTIES FailedStaysFailed StoredProblemsCovered TasksSettle
CHECK_DEADLOCK FALSE

SPECIFICATION Spec
CONSTANTS
    Problems = {p1}
    Stored = {}
    max_retries = 1
    Requests = {r1, r2}
    RequestKinds = {"create", "regenerate"}
    MaxCrashes = 0
INVARIANTS ReadyTasksHaveSolutions
CHECK_DEADLOCK FALSE

SPECIFICATION Spec
CONSTANTS
    NumItems = 1
    p1 = p1
    p2 = p2
    Images = {p1, p2}
    ImageOf <- MCOneImage
    Workers = {w1}
    NoWorker = NoWorker
    Requests = {r1, r2}
    NoRequest = NoRequest
    RequestKinds = {"submit", "delete-image"}
    MaxCrashes = 0
    MaxStalls = 0
INVARIANTS LostReservationLeavesNoProblem
CHECK_DEADLOCK FALSE

SPECIFICATION Spec
CONSTANTS
    NumItems = 2
    p1 = p1
    p2 = p2
    Images = {p1, p2}
    ImageOf <- MCTwoImages
    Workers = {w1}
    NoWorker = NoWorker
    Requests = {r1, r2, r3}
    NoRequest = NoRequest
    RequestKinds = {"edit", "delete", "undo", "retry", "delete-image", "submit"}
    MaxCrashes = 1
    MaxStalls = 0
SYMMETRY Symmetry
INVARIANTS TypeOK AdmittedOnce
PROPERTIES ReservationProtects
CHECK_DEADLOCK FALSE

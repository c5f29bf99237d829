SPECIFICATION Spec
CONSTANTS
    Validators = {v1, v2}
    Sources = {s1, s2}
    RejectedSources = {s2}
    Starters = {g1}
    Submits = {r1, r2}
    NoSubmit = NoSubmit
    Tasks = {t1, t2}
    MaxRevision = 2
    MaxFaults = 2
INVARIANTS TypeOK ApprovalIsBacked AdmittedOnceAsReviewed
PROPERTIES ReservationProtects CandidateKept ImplementsReview
SYMMETRY Symmetry
CHECK_DEADLOCK FALSE

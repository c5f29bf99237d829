SPECIFICATION FairSpec
CONSTANTS
    Validators = {v1}
    Sources = {s1, s2}
    RejectedSources = {s2}
    Workers = {w1, w2}
    NoWorker = NoWorker
    Undos = {u1}
    Submits = {r1, r2}
    MaxRevision = 2
    MaxFaults = 1
INVARIANTS TypeOK ApprovalIsBacked AdmittedOnceAndWhole
PROPERTIES CheckpointKept ImplementsReview VariationSettles
CHECK_DEADLOCK FALSE

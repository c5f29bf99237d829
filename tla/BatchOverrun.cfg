SPECIFICATION FairSpec
CONSTANTS
    NumItems = 1
    p1 = p1
    p2 = p2
    Images = {p1, p2}
    ImageOf <- MCOneImage
    Workers = {w1, w2}
    NoWorker = NoWorker
    Requests = {r1, r2}
    NoRequest = NoRequest
    RequestKinds = {"edit", "delete", "undo", "retry", "delete-image", "submit"}
    MaxCrashes = 2
    MaxStalls = 2
PROPERTIES SubmissionIsFinal DeletedUnlessUndone ReviewedDraftKept ExtractionEnds
CHECK_DEADLOCK FALSE

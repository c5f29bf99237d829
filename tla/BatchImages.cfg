SPECIFICATION Spec
CONSTANTS
    Images = {i1, i2, i3}
    MaxImages = 2
    MaxPages = 2
    detected = detected
    drawn = drawn
    Detections = {detected}
    Drawings = {drawn}
    NoBoxes = NoBoxes
    Size <- MCSize
    Requests = {r1, r2, r3, r4, r5}
    RequestKinds = {"upload", "detect", "boxes", "delete", "commit", "delete-item", "undo-item"}
SYMMETRY Symmetry
INVARIANTS TypeOK CommittedItemsMatchBoxes
PROPERTIES UserBoxesKept AppendedInOrder DeletedImagesStayDeleted
CHECK_DEADLOCK FALSE

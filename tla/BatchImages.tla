---------------------------- MODULE BatchImages ----------------------------
(***************************************************************************)
(* The images of one bulk-ingestion batch, from their upload to the items  *)
(* their boxes become: upload, detection, box edits, deletion and commit,  *)
(* with the deletion and restoration of items as far as they decide which  *)
(* orders a commit hands out.  The batch is active throughout; what then   *)
(* happens to the items is in BatchItems.                                  *)
(*                                                                         *)
(* Every write of the repository is one conditional update of the batch    *)
(* document.  A handler that decides on what it read earlier is split into *)
(* the read and the write; a commit reads, computes and writes again until *)
(* the document's revision is the one it read.                             *)
(***************************************************************************)
EXTENDS Integers, Sequences, FiniteSets, FiniteSetsExt

CONSTANTS
    Images,        \* the image ids new_image_id may hand out
    MaxImages,     \* settings.bulk_ingestion_max_images
    MaxPages,      \* bound on the pages of one upload
    Detections,    \* the box lists the detection model may answer
    Drawings,      \* the box lists a learner may draw
    NoBoxes,       \* the box list of an image never detected nor drawn on
    Size,          \* the number of boxes in each of those lists
    Requests,      \* the API requests; each runs once
    RequestKinds   \* which endpoints are called in this instance

Kinds == {"upload", "detect", "boxes", "delete", "commit", "delete-item", "undo-item"}
BoxLists == Detections \union Drawings \union {NoBoxes}

ASSUME ImagesAssumption == IsFiniteSet(Images) /\ Images # {}
ASSUME LimitsAssumption == MaxImages \in Nat \ {0} /\ MaxPages \in Nat \ {0}
ASSUME BoxesAssumption ==
    /\ Detections \cap Drawings = {} /\ NoBoxes \notin Detections \union Drawings
    /\ Size \in [BoxLists -> Nat] /\ Size[NoBoxes] = 0
ASSUME RequestKindsAssumption == RequestKinds \subseteq Kinds

VARIABLES
    image,      \* batch.images: status, order and boxes of each image
    items,      \* batch.items, in the order they were pushed
    revision,   \* batch.revision
    req         \* what each request holds in its local variables

vars == <<image, items, revision, req>>
batchVars == <<image, items, revision>>

-----------------------------------------------------------------------------
(* The batch document *)

ImageState == {"uploaded", "detecting", "detect-failed", "ready", "committed", "deleted"}
ImageRecords ==
    [status : ImageState \union {"absent"}, order : Nat, boxes : BoxLists]

Uploaded == {i \in Images : image[i].status # "absent"}
Live == {k \in DOMAIN items : items[k].status # "deleted"}

\* An item is "open" in any status but deleted; a deleted one has previousStatus
\* if it was deleted by itself.
ItemRecords ==
    [image : Images, boxes : BoxLists, place : Nat, order : Nat,
     status : {"open", "deleted"}, hasPrevious : BOOLEAN]

build_image_document(order) == [status |-> "uploaded", order |-> order, boxes |-> NoBoxes]
build_item_document(i, boxes, place, order) ==
    [image |-> i, boxes |-> boxes, place |-> place, order |-> order,
     status |-> "open", hasPrevious |-> FALSE]

\* The order after that of every item not deleted.
NextOrder == Max({items[k].order : k \in Live} \union {-1}) + 1

\* One queued item per box, in the order of the boxes.
NewItems(i, boxes, next) ==
    [n \in 1 .. Size[boxes] |-> build_item_document(i, boxes, n, next + n - 1)]

IdleRequest ==
    [pc |-> "idle", image |-> CHOOSE i \in Images : TRUE, count |-> 0, pages |-> 0,
     revision |-> 0, next |-> 0, boxes |-> NoBoxes]

Init ==
    /\ image = [i \in Images |-> [status |-> "absent", order |-> 0, boxes |-> NoBoxes]]
    /\ items = <<>>
    /\ revision = 0
    /\ req = [r \in Requests |-> IdleRequest]

\* Every writer of the batch advances its revision.
Write(newImage, newItems) ==
    /\ image' = newImage
    /\ items' = newItems
    /\ revision' = revision + 1

SetImage(i, status, boxes) ==
    Write([image EXCEPT ![i] = [@ EXCEPT !.status = status, !.boxes = boxes]], items)

Starts(r, kind) == kind \in RequestKinds /\ req[r].pc = "idle"
Goto(r, pc) == req' = [req EXCEPT ![r] = [@ EXCEPT !.pc = pc]]
Open(r, pc, i) == req' = [req EXCEPT ![r] = [@ EXCEPT !.pc = pc, !.image = i]]
Finish(r) == req' = [req EXCEPT ![r] = [IdleRequest EXCEPT !.pc = "done"]]

-----------------------------------------------------------------------------
(* Upload: the count is read once, then each page is stored and pushed *)

UploadRead(r) ==
    /\ Starts(r, "upload")
    /\ \E n \in 1 .. MaxPages :
          /\ Cardinality(Uploaded) + n <= MaxImages
          /\ req' = [req EXCEPT ![r] = [@ EXCEPT !.pc = "upload", !.pages = n,
                                                 !.count = Cardinality(Uploaded)]]
    /\ UNCHANGED batchVars

\* The count grows by one per page: existing_count + offset.
add_source_image(r) ==
    /\ req[r].pc = "upload"
    /\ \E i \in Images \ Uploaded :
          Write([image EXCEPT ![i] = build_image_document(req[r].count)], items)
    /\ req' = [req EXCEPT ![r] =
                  IF req[r].pages = 1 THEN [IdleRequest EXCEPT !.pc = "done"]
                  ELSE [req[r] EXCEPT !.count = req[r].count + 1,
                                      !.pages = req[r].pages - 1]]

\* Storing a page, or the process, fails between two pages.
UploadFails(r) ==
    /\ req[r].pc = "upload"
    /\ Finish(r)
    /\ UNCHANGED batchVars

-----------------------------------------------------------------------------
(* Detection *)

Detectable(status) == status \in {"uploaded", "detect-failed"}

DetectRead(r) ==
    /\ Starts(r, "detect")
    /\ \E i \in Uploaded : Detectable(image[i].status) /\ Open(r, "start", i)
    /\ UNCHANGED batchVars

\* A lost race is a silent no-op, and the handler asks the model all the same.
start_image_detection(r) ==
    /\ req[r].pc = "start"
    /\ Goto(r, "detect")
    /\ LET i == req[r].image
       IN  IF Detectable(image[i].status)
           THEN SetImage(i, "detecting", image[i].boxes)
           ELSE UNCHANGED batchVars

\* Mutant: a result lands on any image that is neither committed nor deleted.
LandsUnlessTerminal(status) == status \notin {"committed", "deleted"}

\* A result lands only on an image in detection.
DetectionLands(status) == status = "detecting"

save_image_detection_success(r) ==
    /\ req[r].pc = "detect"
    /\ Finish(r)
    /\ LET i == req[r].image
       IN  IF DetectionLands(image[i].status)
           THEN \E b \in Detections : SetImage(i, "ready", b)
           ELSE UNCHANGED batchVars

\* The image could not be read, or the model failed.
save_image_detection_failure(r) ==
    /\ req[r].pc = "detect"
    /\ Finish(r)
    /\ LET i == req[r].image
       IN  IF DetectionLands(image[i].status)
           THEN SetImage(i, "detect-failed", image[i].boxes)
           ELSE UNCHANGED batchVars

\* The process stops while the model is working: the image stays in detection.
DetectCrash(r) ==
    /\ req[r].pc = "detect"
    /\ Finish(r)
    /\ UNCHANGED batchVars

-----------------------------------------------------------------------------
(* Box edits and deletion *)

\* Mutants: boxes of committed, or of deleted, images may be stored.
EditableUnlessDeleted(status) == status # "deleted"
EditableUnlessCommitted(status) == status # "committed"

\* The test of the handler, and again the predicate of its update.
Editable(status) == status \notin {"committed", "deleted"}

BoxesRead(r) ==
    /\ Starts(r, "boxes")
    /\ \E i \in Uploaded : Editable(image[i].status) /\ Open(r, "boxes", i)
    /\ UNCHANGED batchVars

save_image_boxes_and_subject(r) ==
    /\ req[r].pc = "boxes"
    /\ Finish(r)
    /\ LET i == req[r].image
       IN  IF Editable(image[i].status)
           THEN \E b \in Drawings : SetImage(i, "ready", b)
           ELSE UNCHANGED batchVars

\* The image in whatever status, and all its items, in one update.
delete_batch_image(r) ==
    /\ Starts(r, "delete")
    /\ \E i \in Uploaded :
          Write([image EXCEPT ![i] = [@ EXCEPT !.status = "deleted"]],
                [k \in DOMAIN items |->
                    IF items[k].image = i THEN [items[k] EXCEPT !.status = "deleted"]
                    ELSE items[k]])
    /\ Finish(r)

-----------------------------------------------------------------------------
(* Commit *)

\* A committed image is answered at once, and one that is not ready refused.
CommitRead(r) ==
    /\ Starts(r, "commit")
    /\ \E i \in Uploaded : image[i].status = "ready" /\ Open(r, "commit", i)
    /\ UNCHANGED batchVars

\* The read of commit_image_boxes, and of each of its retries.
CommitLoad(r) ==
    /\ req[r].pc = "commit"
    /\ LET i == req[r].image
       IN  req' = [req EXCEPT ![r] =
                      IF image[i].status # "ready" THEN [IdleRequest EXCEPT !.pc = "done"]
                      ELSE [@ EXCEPT !.pc = "append", !.revision = revision,
                                     !.next = NextOrder, !.boxes = image[i].boxes]]
    /\ UNCHANGED batchVars

\* Mutant: the update does not look at the revision.
AnyRevision(r) == TRUE

_revision_guard(r) == revision = req[r].revision

\* The items are appended to the version that was read; otherwise it is read
\* again, or given up once _MAX_OCC_ATTEMPTS updates were lost.
commit_image_boxes(r) ==
    /\ req[r].pc = "append"
    /\ LET i == req[r].image
       IN  IF _revision_guard(r) /\ image[i].status = "ready"
           THEN /\ Write([image EXCEPT ![i] = [@ EXCEPT !.status = "committed"]],
                         items \o NewItems(i, req[r].boxes, req[r].next))
                /\ Finish(r)
           ELSE /\ Goto(r, "commit") \/ Finish(r)
                /\ UNCHANGED batchVars

-----------------------------------------------------------------------------
(* Items, as far as they decide the next order *)

mark_item_deleted(r) ==
    /\ Starts(r, "delete-item")
    /\ \E k \in Live :
          Write(image, [items EXCEPT ![k] = [@ EXCEPT !.status = "deleted",
                                                      !.hasPrevious = TRUE]])
    /\ Finish(r)

\* Mutant: a restored item keeps its previousStatus.
KeepsPrevious(it) == [it EXCEPT !.status = "open"]

Restored(it) == [it EXCEPT !.status = "open", !.hasPrevious = FALSE]

undo_item_deletion(r) ==
    /\ Starts(r, "undo-item")
    /\ \E k \in (DOMAIN items) \ Live :
          /\ items[k].hasPrevious
          /\ Write(image, [items EXCEPT ![k] = Restored(@)])
    /\ Finish(r)

-----------------------------------------------------------------------------
Step(r) ==
    \/ UploadRead(r) \/ add_source_image(r) \/ UploadFails(r)
    \/ DetectRead(r) \/ start_image_detection(r)
    \/ save_image_detection_success(r) \/ save_image_detection_failure(r) \/ DetectCrash(r)
    \/ BoxesRead(r) \/ save_image_boxes_and_subject(r) \/ delete_batch_image(r)
    \/ CommitRead(r) \/ CommitLoad(r) \/ commit_image_boxes(r)
    \/ mark_item_deleted(r) \/ undo_item_deletion(r)

Next == \E r \in Requests : Step(r)

Spec == Init /\ [][Next]_vars

-----------------------------------------------------------------------------
(* Properties *)

RequestPcs == {"idle", "upload", "start", "detect", "boxes", "commit", "append", "done"}
RequestLocals ==
    [pc : RequestPcs,
     image : Images, count : Nat, pages : Nat, revision : Nat, next : Nat,
     boxes : BoxLists]

\* Every variable holds a value the code could have stored there; only deleted
\* items remember a previous status, and no commit is ahead of the batch.
TypeOK ==
    /\ image \in [Images -> ImageRecords]
    /\ items \in Seq(ItemRecords)
    /\ revision \in Nat
    /\ req \in [Requests -> RequestLocals]
    /\ \A k \in DOMAIN items : items[k].hasPrevious => items[k].status = "deleted"
    /\ \A r \in Requests : req[r].revision <= revision

ItemsOf(i) == {k \in DOMAIN items : items[k].image = i}

\* A committed image has exactly one item for each of the boxes it shows, and an
\* image not yet committed has none: overlapping commits, late detections and
\* late box edits never leave items of other boxes or a box twice.
CommittedItemsMatchBoxes ==
    \A i \in Images :
        /\ image[i].status = "committed" =>
              /\ \A k \in ItemsOf(i) : items[k].boxes = image[i].boxes
              /\ {items[k].place : k \in ItemsOf(i)} = 1 .. Size[image[i].boxes]
              /\ Cardinality(ItemsOf(i)) = Size[image[i].boxes]
        /\ image[i].status \notin {"committed", "deleted"} => ItemsOf(i) = {}

\* What the learner drew is never replaced by a detection, however late it
\* answers, but only by what the learner draws next.
UserBoxesKept ==
    [][\A i \in Images :
          image[i].boxes \in Drawings => image'[i].boxes \in Drawings]_vars

\* The items a commit appends come after every item that is not deleted, one
\* after the other, also when commits of two images overlap.
AppendedInOrder ==
    [][\A k \in (DOMAIN items') \ (DOMAIN items) :
          /\ \A j \in Live : items'[k].order > items[j].order
          /\ \A j \in (DOMAIN items') \ (DOMAIN items) :
                j < k => items'[j].order < items'[k].order]_vars

\* A deleted image stays deleted and gets no items, whatever detection, edit or
\* commit was under way when it was deleted.
DeletedImagesStayDeleted ==
    [][\A i \in Images :
          image[i].status = "deleted" =>
              /\ image'[i].status = "deleted"
              /\ \A k \in (DOMAIN items') \ (DOMAIN items) : items'[k].image # i]_vars

=============================================================================

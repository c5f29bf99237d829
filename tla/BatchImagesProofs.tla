------------------------- MODULE BatchImagesProofs -------------------------
(* Theorems about BatchImages, for every value of its constants. *)
EXTENDS BatchImages, FiniteSetTheorems, SequenceTheorems, WellFoundedInduction, TLAPS

-----------------------------------------------------------------------------
(* The next order *)

\* Every finite, nonempty set of integers has a largest element: a smallest
\* counterexample would stay one without any of its elements.
LEMMA FiniteMax ==
  ASSUME NEW S \in SUBSET Int, IsFiniteSet(S), S # {}
  PROVE  Max(S) \in S /\ \A y \in S : y <= Max(S)
<1> DEFINE HasMax(T) == \E x \in T : \A y \in T : y <= x
           Bad == {n \in Nat : \E T \in SUBSET Int :
                      IsFiniteSet(T) /\ T # {} /\ Cardinality(T) = n /\ ~HasMax(T)}
<1>1. Bad = {}
  <2> SUFFICES ASSUME Bad # {} PROVE FALSE
    OBVIOUS
  <2>1. PICK n \in Bad : \A m \in Bad : ~(<<m, n>> \in OpToRel(<, Nat))
    <3>1. Bad \subseteq Nat
      OBVIOUS
    <3> HIDE DEF Bad
    <3> QED BY <3>1, NatLessThanWellFounded, WFMin
  <2>2. \A m \in Bad : ~(m < n)
    BY <2>1 DEF OpToRel
  <2>3. PICK T \in SUBSET Int : IsFiniteSet(T) /\ T # {} /\ Cardinality(T) = n /\ ~HasMax(T)
    BY <2>1
  <2>4. PICK x \in T : TRUE
    BY <2>3
  <2>5. /\ IsFiniteSet(T \ {x})
        /\ Cardinality(T \ {x}) = n - 1
    BY <2>3, <2>4, FS_RemoveElement
  <2>6. n - 1 \in Nat
    BY <2>5, FS_CardinalityType
  <2>7. CASE T \ {x} = {}
    <3>1. \A y \in T : y <= x
      BY <2>7
    <3> QED BY <3>1, <2>3, <2>4
  <2>8. CASE T \ {x} # {}
    <3>1. HasMax(T \ {x})
      <4>1. n - 1 \notin Bad
        BY <2>2, <2>6
      <4> QED BY <4>1, <2>3, <2>5, <2>6, <2>8
    <3>2. PICK z \in T \ {x} : \A y \in T \ {x} : y <= z
      BY <3>1
    <3>3. CASE x <= z
      BY <3>2, <3>3, <2>3
    <3>4. CASE ~(x <= z)
      BY <3>2, <3>4, <2>3
    <3> QED BY <3>3, <3>4
  <2> QED BY <2>7, <2>8
<1>2. Cardinality(S) \in Nat
  BY FS_CardinalityType
<1>3. HasMax(S)
  BY <1>1, <1>2
<1>4. \E x \in S : \A y \in S : x >= y
  BY <1>3
<1> QED BY <1>4 DEF Max

\* The sequence of items, position by position.
LEMMA ItemsByPosition ==
  ASSUME items \in Seq(ItemRecords)
  PROVE  /\ Len(items) \in Nat /\ DOMAIN items = 1 .. Len(items)
         /\ items \in [1 .. Len(items) -> ItemRecords]
         /\ \A k \in DOMAIN items :
               /\ items[k] \in ItemRecords
               /\ items[k].order \in Nat /\ items[k].place \in Nat
               /\ items[k].image \in Images /\ items[k].boxes \in BoxLists
               /\ items[k].status \in {"open", "deleted"}
               /\ items[k].hasPrevious \in BOOLEAN
<1>1. /\ Len(items) \in Nat /\ DOMAIN items = 1 .. Len(items)
      /\ items \in [1 .. Len(items) -> ItemRecords]
  BY LenProperties
<1>2. \A k \in DOMAIN items : items[k] \in ItemRecords
  BY <1>1
<1> QED BY <1>1, <1>2 DEF ItemRecords

\* NextOrder comes after the order of every item that is not deleted.
LEMMA NextOrderBounds ==
  ASSUME items \in Seq(ItemRecords)
  PROVE  NextOrder \in Nat /\ \A k \in Live : items[k].order < NextOrder
<1> DEFINE Orders == {items[k].order : k \in Live}
           f == [k \in Live |-> items[k].order]
<1>1. IsFiniteSet(Live)
  <2>1. Live \in SUBSET (1 .. Len(items)) /\ Len(items) \in Nat
    BY ItemsByPosition DEF Live
  <2>2. IsFiniteSet(1 .. Len(items))
    BY <2>1, FS_Interval
  <2> QED BY <2>1, <2>2, FS_Subset
<1>2. f \in Surjection(Live, Orders)
  BY DEF Surjection
<1>3. IsFiniteSet(Orders)
  <2> HIDE DEF f, Orders
  <2> QED BY <1>1, <1>2, FS_Surjection
<1>4. Orders \subseteq Nat
  BY ItemsByPosition DEF Live
<1>5. IsFiniteSet(Orders \union {-1}) /\ Orders \union {-1} \in SUBSET Int
  BY <1>3, <1>4, FS_AddElement
<1> DEFINE top == Max(Orders \union {-1})
<1>6. top \in Orders \union {-1} /\ \A y \in Orders \union {-1} : y <= top
  <2> HIDE DEF Orders
  <2> QED BY <1>5, FiniteMax
<1>7. NextOrder = top + 1
  BY DEF NextOrder
<1>8. \A k \in Live : items[k].order \in Orders
  OBVIOUS
<1> HIDE DEF top, Orders
<1>9. NextOrder \in Nat
  BY <1>4, <1>6, <1>7
<1>10. ASSUME NEW k \in Live PROVE items[k].order < NextOrder
  <2>1. items[k].order \in Orders \union {-1}
    BY <1>8
  <2>2. items[k].order \in Int /\ top \in Int
    BY <1>5, <1>6, <2>1
  <2>3. items[k].order <= top
    BY <1>6, <2>1
  <2> HIDE DEF NextOrder
  <2> QED BY <1>7, <2>2, <2>3
<1> QED BY <1>9, <1>10

-----------------------------------------------------------------------------
(* Type correctness *)

\* A pending upload has a page to store.
Typed ==
    /\ TypeOK
    /\ \A r \in Requests : req[r].pc = "upload" => req[r].pages >= 1

Done == [IdleRequest EXCEPT !.pc = "done"]

\* The request a step moves on to, and the batch a write leaves, are well formed.
GoodLocals(rec) ==
    /\ rec \in RequestLocals
    /\ rec.revision <= revision
    /\ rec.pc = "upload" => rec.pages >= 1

GoodItems(its) ==
    /\ its \in Seq(ItemRecords)
    /\ \A k \in DOMAIN its : its[k].hasPrevious => its[k].status = "deleted"

LEMMA IdleType ==
  /\ IdleRequest \in RequestLocals /\ IdleRequest.revision = 0 /\ IdleRequest.pc = "idle"
  /\ Done \in RequestLocals /\ Done.revision = 0 /\ Done.pc = "done"
<1>1. (CHOOSE i \in Images : TRUE) \in Images
  BY ImagesAssumption
<1>2. NoBoxes \in BoxLists
  BY DEF BoxLists
<1> QED BY <1>1, <1>2 DEF IdleRequest, Done, RequestLocals, RequestPcs

LEMMA RequestRecords ==
  ASSUME Typed, NEW r \in Requests
  PROVE  /\ GoodLocals(Done) /\ GoodLocals(req[r])
         /\ req[r] \in RequestLocals
         /\ revision \in Nat
         /\ \A pc \in RequestPcs \ {"upload"} : GoodLocals([req[r] EXCEPT !.pc = pc])
         /\ \A pc \in RequestPcs \ {"upload"}, i \in Images :
               GoodLocals([req[r] EXCEPT !.pc = pc, !.image = i])
<1>1. /\ req[r] \in RequestLocals /\ req[r].revision <= revision /\ revision \in Nat
      /\ req[r].pc = "upload" => req[r].pages >= 1
  BY DEF Typed, TypeOK
<1>2. ASSUME NEW pc \in RequestPcs \ {"upload"} PROVE GoodLocals([req[r] EXCEPT !.pc = pc])
  BY <1>1 DEF RequestLocals, GoodLocals
<1>3. ASSUME NEW pc \in RequestPcs \ {"upload"}, NEW i \in Images
      PROVE GoodLocals([req[r] EXCEPT !.pc = pc, !.image = i])
  BY <1>1 DEF RequestLocals, GoodLocals
<1>4. GoodLocals(Done) /\ GoodLocals(req[r])
  BY <1>1, IdleType DEF GoodLocals
<1> QED BY <1>1, <1>2, <1>3, <1>4

\* A step that only reads, and a step that writes the batch, keep the types.
LEMMA ReadTyped ==
  ASSUME Typed, UNCHANGED batchVars,
         NEW r \in Requests, NEW rec, GoodLocals(rec), req' = [req EXCEPT ![r] = rec]
  PROVE  Typed'
<1>1. UNCHANGED <<image, items, revision>>
  BY DEF batchVars
<1>2. req' \in [Requests -> RequestLocals]
  BY DEF Typed, TypeOK, GoodLocals
<1>3. \A q \in Requests : /\ req'[q].revision <= revision'
                          /\ req'[q].pc = "upload" => req'[q].pages >= 1
  BY <1>1 DEF Typed, TypeOK, GoodLocals
<1> QED BY <1>1, <1>2, <1>3 DEF Typed, TypeOK

LEMMA WriteTyped ==
  ASSUME Typed, NEW im \in [Images -> ImageRecords], NEW its, GoodItems(its), Write(im, its),
         NEW r \in Requests, NEW rec, GoodLocals(rec), req' = [req EXCEPT ![r] = rec]
  PROVE  Typed'
<1>1. image' = im /\ items' = its /\ revision' = revision + 1 /\ revision \in Nat
  BY DEF Typed, TypeOK, Write
<1>2. req' \in [Requests -> RequestLocals]
  BY DEF Typed, TypeOK, GoodLocals
<1>3. \A q \in Requests : req'[q] = IF q = r THEN rec ELSE req[q]
  BY DEF Typed, TypeOK
<1>4. ASSUME NEW q \in Requests
      PROVE /\ req'[q].revision <= revision'
            /\ req'[q].pc = "upload" => req'[q].pages >= 1
  <2>1. rec.revision \in Nat /\ req[q].revision \in Nat /\ req[q].revision <= revision
    BY DEF Typed, TypeOK, GoodLocals, RequestLocals
  <2> QED BY <1>1, <1>3, <2>1 DEF Typed, GoodLocals
<1> QED BY <1>1, <1>2, <1>4 DEF Typed, TypeOK, GoodItems

\* The status and boxes of one image change.
LEMMA ImageUpdate ==
  ASSUME Typed, NEW i \in Images, NEW status \in ImageState, NEW b \in BoxLists
  PROVE  [image EXCEPT ![i] = [@ EXCEPT !.status = status, !.boxes = b]]
             \in [Images -> ImageRecords]
<1>1. image \in [Images -> ImageRecords]
  BY DEF Typed, TypeOK
<1>2. [image[i] EXCEPT !.status = status, !.boxes = b] \in ImageRecords
  BY <1>1 DEF ImageRecords
<1> QED BY <1>1, <1>2

\* A function on 1 .. n is a sequence.
LEMMA FunctionIsSeq ==
  ASSUME NEW S, NEW n \in Nat, NEW f \in [1 .. n -> S]
  PROVE  f \in Seq(S) /\ Len(f) = n /\ DOMAIN f = 1 .. n
OBVIOUS

\* The items of a commit are well formed, and so is the sequence they extend.
LEMMA CommittedItems ==
  ASSUME Typed, NEW i \in Images, NEW b \in BoxLists, NEW next \in Nat
  PROVE  /\ NewItems(i, b, next) \in Seq(ItemRecords)
         /\ Len(NewItems(i, b, next)) = Size[b] /\ Size[b] \in Nat
         /\ \A n \in 1 .. Size[b] :
               NewItems(i, b, next)[n] = build_item_document(i, b, n, next + n - 1)
         /\ GoodItems(items \o NewItems(i, b, next))
<1> DEFINE new == NewItems(i, b, next)
<1>1. Size[b] \in Nat
  BY BoxesAssumption
<1>2. \A n \in 1 .. Size[b] : next + n - 1 \in Nat
  BY <1>1
<1>3. \A n \in 1 .. Size[b] : build_item_document(i, b, n, next + n - 1) \in ItemRecords
  BY <1>1, <1>2 DEF build_item_document, ItemRecords
<1>4. new \in [1 .. Size[b] -> ItemRecords]
  BY <1>3 DEF NewItems
<1>5. new \in Seq(ItemRecords) /\ Len(new) = Size[b] /\ DOMAIN new = 1 .. Size[b]
  <2> HIDE DEF new
  <2> QED BY <1>1, <1>4, FunctionIsSeq
<1>6. \A n \in 1 .. Size[b] : new[n] = build_item_document(i, b, n, next + n - 1)
  BY DEF NewItems
<1>7. \A n \in 1 .. Size[b] : new[n].hasPrevious = FALSE
  <2>1. \A n \in 1 .. Size[b] : build_item_document(i, b, n, next + n - 1).hasPrevious = FALSE
    BY DEF build_item_document
  <2> HIDE DEF new
  <2> QED BY <1>6, <2>1
<1>8. GoodItems(items \o new)
  <2> HIDE DEF new
  <2>1. items \in Seq(ItemRecords) /\ \A k \in DOMAIN items : items[k].hasPrevious => items[k].status = "deleted"
    BY DEF Typed, TypeOK
  <2>2. /\ items \o new \in Seq(ItemRecords)
        /\ Len(items \o new) = Len(items) + Size[b]
        /\ \A k \in 1 .. Len(items) + Size[b] :
              (items \o new)[k] = IF k <= Len(items) THEN items[k] ELSE new[k - Len(items)]
    BY <2>1, <1>5, ConcatProperties
  <2>3. /\ DOMAIN (items \o new) = 1 .. Len(items) + Size[b]
        /\ Len(items) \in Nat /\ DOMAIN items = 1 .. Len(items)
    BY <2>1, <2>2, LenProperties
  <2>4. ASSUME NEW k \in DOMAIN (items \o new), (items \o new)[k].hasPrevious
        PROVE (items \o new)[k].status = "deleted"
    <3>1. CASE k <= Len(items)
      BY <3>1, <2>1, <2>2, <2>3, <2>4
    <3>2. CASE ~(k <= Len(items))
      <4>1. k - Len(items) \in 1 .. Size[b]
        BY <3>2, <2>3, <1>1
      <4> QED BY <3>2, <4>1, <2>2, <2>3, <2>4, <1>7
    <3> QED BY <3>1, <3>2
  <2> QED BY <2>2, <2>4 DEF GoodItems
<1> QED BY <1>1, <1>5, <1>6, <1>8

\* Deleting an image's items, deleting one item and restoring one.
LEMMA ItemUpdates ==
  ASSUME Typed
  PROVE  /\ \A i \in Images :
               GoodItems([k \in DOMAIN items |->
                             IF items[k].image = i THEN [items[k] EXCEPT !.status = "deleted"]
                             ELSE items[k]])
         /\ \A k \in DOMAIN items :
               /\ GoodItems([items EXCEPT ![k] = [@ EXCEPT !.status = "deleted",
                                                           !.hasPrevious = TRUE]])
               /\ GoodItems([items EXCEPT ![k] = Restored(@)])
<1>1. items \in Seq(ItemRecords) /\ \A k \in DOMAIN items : items[k].hasPrevious => items[k].status = "deleted"
  BY DEF Typed, TypeOK
<1>2. Len(items) \in Nat /\ DOMAIN items = 1 .. Len(items) /\ \A k \in DOMAIN items : items[k] \in ItemRecords
  BY <1>1, ItemsByPosition
<1>3. \A k \in DOMAIN items :
         /\ [items[k] EXCEPT !.status = "deleted"] \in ItemRecords
         /\ [items[k] EXCEPT !.status = "deleted"].status = "deleted"
         /\ [items[k] EXCEPT !.status = "deleted", !.hasPrevious = TRUE] \in ItemRecords
         /\ [items[k] EXCEPT !.status = "deleted", !.hasPrevious = TRUE].status = "deleted"
         /\ Restored(items[k]) \in ItemRecords
         /\ Restored(items[k]).hasPrevious = FALSE
  BY <1>2 DEF ItemRecords, Restored
<1>4. ASSUME NEW its \in [1 .. Len(items) -> ItemRecords],
             \A k \in DOMAIN items : its[k].hasPrevious => its[k].status = "deleted"
      PROVE  GoodItems(its)
  <2>1. its \in Seq(ItemRecords) /\ DOMAIN its = 1 .. Len(items)
    BY <1>2, FunctionIsSeq
  <2> QED BY <2>1, <1>2, <1>4 DEF GoodItems
<1>5. ASSUME NEW i \in Images
      PROVE GoodItems([k \in DOMAIN items |->
                          IF items[k].image = i THEN [items[k] EXCEPT !.status = "deleted"]
                          ELSE items[k]])
  <2> DEFINE its == [k \in DOMAIN items |->
                          IF items[k].image = i THEN [items[k] EXCEPT !.status = "deleted"]
                          ELSE items[k]]
  <2>1. its \in [1 .. Len(items) -> ItemRecords]
    BY <1>2, <1>3
  <2>2. \A k \in DOMAIN items : its[k].hasPrevious => its[k].status = "deleted"
    BY <1>1, <1>3
  <2> HIDE DEF its
  <2>3. GoodItems(its)
    BY <2>1, <2>2, <1>4
  <2> QED BY <2>3 DEF its
<1>6. ASSUME NEW k \in DOMAIN items, NEW new \in ItemRecords, new.hasPrevious => new.status = "deleted"
      PROVE  GoodItems([items EXCEPT ![k] = new])
  <2> DEFINE its == [items EXCEPT ![k] = new]
  <2>0. items \in [1 .. Len(items) -> ItemRecords]
    BY <1>1, LenProperties
  <2>1. its \in [1 .. Len(items) -> ItemRecords]
    BY <1>2, <2>0
  <2>2. \A j \in DOMAIN items : its[j].hasPrevious => its[j].status = "deleted"
    BY <1>1, <1>2, <1>6
  <2> HIDE DEF its
  <2>3. GoodItems(its)
    BY <2>1, <2>2, <1>4
  <2> QED BY <2>3 DEF its
<1>7. ASSUME NEW k \in DOMAIN items
      PROVE  /\ GoodItems([items EXCEPT ![k] = [@ EXCEPT !.status = "deleted", !.hasPrevious = TRUE]])
             /\ GoodItems([items EXCEPT ![k] = Restored(@)])
  BY <1>3, <1>6
<1> QED BY <1>5, <1>7

\* Changing one image's status and boxes, as detection and box edits do.
LEMMA SetImageTyped ==
  ASSUME Typed, NEW i \in Images, NEW status \in ImageState, NEW b \in BoxLists,
         SetImage(i, status, b),
         NEW r \in Requests, NEW rec, GoodLocals(rec), req' = [req EXCEPT ![r] = rec]
  PROVE  Typed'
<1>1. GoodItems(items)
  BY DEF Typed, TypeOK, GoodItems
<1> DEFINE im == [image EXCEPT ![i] = [@ EXCEPT !.status = status, !.boxes = b]]
<1>2. im \in [Images -> ImageRecords]
  BY ImageUpdate
<1>3. Write(im, items)
  BY DEF SetImage
<1> HIDE DEF im
<1> QED BY <1>1, <1>2, <1>3, WriteTyped

\* The states images and lists that steps name are those of the constants.
LEMMA Members ==
  /\ {"uploaded", "detecting", "detect-failed", "ready", "committed", "deleted"} \subseteq ImageState
  /\ Detections \subseteq BoxLists /\ Drawings \subseteq BoxLists
BY DEF ImageState, BoxLists

LEMMA TypeStep == Typed /\ [Next]_vars => Typed'
<1> SUFFICES ASSUME Typed, [Next]_vars PROVE Typed'
  OBVIOUS
<1>0. CASE UNCHANGED vars
  BY <1>0 DEF vars, Typed, TypeOK
<1>1. ASSUME NEW r \in Requests, Step(r) PROVE Typed'
  <2> DEFINE i == req[r].image
  <2>0. /\ req[r] \in RequestLocals /\ i \in Images /\ revision \in Nat
        /\ image[i].boxes \in BoxLists /\ req[r].boxes \in BoxLists
        /\ req[r].next \in Nat /\ req[r].count \in Nat /\ req[r].pages \in Nat
        /\ req[r].pc = "upload" => req[r].pages >= 1
        /\ image \in [Images -> ImageRecords]
        /\ GoodItems(items)
    <3>1. req[r] \in RequestLocals /\ image \in [Images -> ImageRecords]
      BY DEF Typed, TypeOK
    <3> QED BY <3>1 DEF Typed, TypeOK, RequestLocals, ImageRecords, GoodItems
  <2>00. GoodLocals(Done)
    BY RequestRecords
  <2>F. Finish(r) => req' = [req EXCEPT ![r] = Done]
    BY DEF Finish, Done
  <2> HIDE DEF i
  <2>1. CASE UploadRead(r)
    <3>1. PICK n \in 1 .. MaxPages :
             req' = [req EXCEPT ![r] = [@ EXCEPT !.pc = "upload", !.pages = n,
                                                 !.count = Cardinality(Uploaded)]]
      BY <2>1 DEF UploadRead
    <3>2. Cardinality(Uploaded) \in Nat
      BY ImagesAssumption, FS_Subset, FS_CardinalityType DEF Uploaded
    <3>3. n \in Nat /\ n >= 1
      BY LimitsAssumption
    <3>4. GoodLocals([req[r] EXCEPT !.pc = "upload", !.pages = n, !.count = Cardinality(Uploaded)])
      BY <2>0, <3>2, <3>3, RequestRecords DEF GoodLocals, RequestLocals, RequestPcs
    <3> QED BY <2>1, <3>1, <3>4, ReadTyped DEF UploadRead
  <2>2. CASE add_source_image(r)
    <3>1. PICK j \in Images \ Uploaded :
             Write([image EXCEPT ![j] = build_image_document(req[r].count)], items)
      BY <2>2 DEF add_source_image
    <3>2. [image EXCEPT ![j] = build_image_document(req[r].count)] \in [Images -> ImageRecords]
      BY <2>0 DEF build_image_document, ImageRecords, ImageState, BoxLists
    <3> DEFINE rec == IF req[r].pages = 1 THEN [IdleRequest EXCEPT !.pc = "done"]
                      ELSE [req[r] EXCEPT !.count = req[r].count + 1,
                                          !.pages = req[r].pages - 1]
    <3>3. req' = [req EXCEPT ![r] = rec]
      BY <2>2 DEF add_source_image
    <3>4. GoodLocals(rec)
      <4>1. CASE req[r].pages = 1
        BY <4>1, <2>00 DEF Done
      <4>2. CASE req[r].pages # 1
        <5>1. req[r].pages - 1 \in Nat /\ req[r].pages - 1 >= 1 /\ req[r].count + 1 \in Nat
          BY <2>0, <2>2, <4>2 DEF add_source_image
        <5>2. GoodLocals([req[r] EXCEPT !.count = req[r].count + 1, !.pages = req[r].pages - 1])
          BY <2>0, <5>1, RequestRecords DEF GoodLocals, RequestLocals
        <5> QED BY <4>2, <5>2
      <4> QED BY <4>1, <4>2
    <3> HIDE DEF rec
    <3> QED BY <2>0, <3>1, <3>2, <3>3, <3>4, WriteTyped
  <2>3. CASE UploadFails(r) \/ DetectCrash(r)
    BY <2>3, <2>00, <2>F, ReadTyped DEF UploadFails, DetectCrash
  <2>4. CASE DetectRead(r) \/ BoxesRead(r) \/ CommitRead(r)
    <3>1. PICK j \in Images, pc \in {"start", "boxes", "commit"} :
             req' = [req EXCEPT ![r] = [@ EXCEPT !.pc = pc, !.image = j]]
      BY <2>4 DEF DetectRead, BoxesRead, CommitRead, Open, Uploaded
    <3>2. GoodLocals([req[r] EXCEPT !.pc = pc, !.image = j])
      BY RequestRecords DEF RequestPcs
    <3>3. UNCHANGED batchVars
      BY <2>4 DEF DetectRead, BoxesRead, CommitRead
    <3> QED BY <3>1, <3>2, <3>3, ReadTyped
  <2>5. CASE start_image_detection(r)
    <3>1. req' = [req EXCEPT ![r] = [req[r] EXCEPT !.pc = "detect"]]
      BY <2>5 DEF start_image_detection, Goto
    <3>2. GoodLocals([req[r] EXCEPT !.pc = "detect"])
      BY RequestRecords DEF RequestPcs
    <3>3. SetImage(i, "detecting", image[i].boxes) \/ UNCHANGED batchVars
      BY <2>5 DEF start_image_detection, i
    <3> QED BY <2>0, <3>1, <3>2, <3>3, Members, SetImageTyped, ReadTyped
  <2>6. CASE save_image_detection_success(r)
    <3>1. \/ \E b \in Detections : SetImage(i, "ready", b)
          \/ UNCHANGED batchVars
      BY <2>6 DEF save_image_detection_success, i
    <3>2. Finish(r)
      BY <2>6 DEF save_image_detection_success
    <3> QED BY <2>0, <2>00, <2>F, <3>1, <3>2, Members, SetImageTyped, ReadTyped
  <2>7. CASE save_image_detection_failure(r)
    <3>1. SetImage(i, "detect-failed", image[i].boxes) \/ UNCHANGED batchVars
      BY <2>7 DEF save_image_detection_failure, i
    <3>2. Finish(r)
      BY <2>7 DEF save_image_detection_failure
    <3> QED BY <2>0, <2>00, <2>F, <3>1, <3>2, Members, SetImageTyped, ReadTyped
  <2>8. CASE save_image_boxes_and_subject(r)
    <3>1. \/ \E b \in Drawings : SetImage(i, "ready", b)
          \/ UNCHANGED batchVars
      BY <2>8 DEF save_image_boxes_and_subject, i
    <3>2. Finish(r)
      BY <2>8 DEF save_image_boxes_and_subject
    <3> QED BY <2>0, <2>00, <2>F, <3>1, <3>2, Members, SetImageTyped, ReadTyped
  <2>9. CASE delete_batch_image(r)
    <3>1. PICK j \in Images :
             Write([image EXCEPT ![j] = [@ EXCEPT !.status = "deleted"]],
                   [k \in DOMAIN items |->
                       IF items[k].image = j THEN [items[k] EXCEPT !.status = "deleted"]
                       ELSE items[k]])
      BY <2>9 DEF delete_batch_image, Uploaded
    <3>2. [image EXCEPT ![j] = [@ EXCEPT !.status = "deleted"]] \in [Images -> ImageRecords]
      BY <2>0 DEF ImageRecords, ImageState
    <3>3. Finish(r)
      BY <2>9 DEF delete_batch_image
    <3> QED BY <2>00, <2>F, <3>1, <3>2, <3>3, ItemUpdates, WriteTyped
  <2>10. CASE CommitLoad(r)
    <3> DEFINE rec == IF image[i].status # "ready" THEN Done
                      ELSE [req[r] EXCEPT !.pc = "append", !.revision = revision,
                                          !.next = NextOrder, !.boxes = image[i].boxes]
    <3>1. req' = [req EXCEPT ![r] = rec] /\ UNCHANGED batchVars
      BY <2>10 DEF CommitLoad, Done, i
    <3>2. NextOrder \in Nat
      BY <2>0, NextOrderBounds DEF GoodItems
    <3>3. GoodLocals([req[r] EXCEPT !.pc = "append", !.revision = revision,
                                    !.next = NextOrder, !.boxes = image[i].boxes])
      <4> DEFINE load == [req[r] EXCEPT !.pc = "append", !.revision = revision,
                                        !.next = NextOrder, !.boxes = image[i].boxes]
      <4>1. load \in RequestLocals /\ load.revision = revision /\ load.pc = "append"
        <5> HIDE DEF NextOrder
        <5> QED BY <2>0, <3>2 DEF RequestLocals, RequestPcs
      <4> HIDE DEF load
      <4>2. GoodLocals(load)
        BY <2>0, <4>1 DEF GoodLocals
      <4> QED BY <4>2 DEF load
    <3>4. GoodLocals(rec)
      BY <2>00, <3>3
    <3> HIDE DEF rec
    <3> QED BY <3>1, <3>4, ReadTyped
  <2>11. CASE commit_image_boxes(r)
    <3>1. CASE UNCHANGED batchVars
      <4>1. GoodLocals([req[r] EXCEPT !.pc = "commit"])
        BY RequestRecords DEF RequestPcs
      <4>2. Finish(r) \/ req' = [req EXCEPT ![r] = [req[r] EXCEPT !.pc = "commit"]]
        BY <2>11 DEF commit_image_boxes, Goto
      <4> QED BY <3>1, <4>1, <4>2, <2>00, <2>F, ReadTyped
    <3>2. CASE /\ Write([image EXCEPT ![i] = [@ EXCEPT !.status = "committed"]],
                        items \o NewItems(i, req[r].boxes, req[r].next))
               /\ Finish(r)
      <4>1. [image EXCEPT ![i] = [@ EXCEPT !.status = "committed"]] \in [Images -> ImageRecords]
        BY <2>0 DEF ImageRecords, ImageState
      <4>2. GoodItems(items \o NewItems(i, req[r].boxes, req[r].next))
        BY <2>0, CommittedItems
      <4> QED BY <2>00, <2>F, <3>2, <4>1, <4>2, WriteTyped
    <3> QED BY <2>11, <3>1, <3>2 DEF commit_image_boxes, i
  <2>12. CASE mark_item_deleted(r)
    <3>1. PICK k \in DOMAIN items :
             Write(image, [items EXCEPT ![k] = [@ EXCEPT !.status = "deleted",
                                                         !.hasPrevious = TRUE]])
      BY <2>12 DEF mark_item_deleted, Live
    <3>2. Finish(r)
      BY <2>12 DEF mark_item_deleted
    <3> QED BY <2>0, <2>00, <2>F, <3>1, <3>2, ItemUpdates, WriteTyped
  <2>13. CASE undo_item_deletion(r)
    <3>1. PICK k \in DOMAIN items : Write(image, [items EXCEPT ![k] = Restored(@)])
      BY <2>13 DEF undo_item_deletion
    <3>2. Finish(r)
      BY <2>13 DEF undo_item_deletion
    <3> QED BY <2>0, <2>00, <2>F, <3>1, <3>2, ItemUpdates, WriteTyped
  <2> QED
    BY <1>1, <2>1, <2>2, <2>3, <2>4, <2>5, <2>6, <2>7, <2>8, <2>9, <2>10, <2>11, <2>12, <2>13
    DEF Step
<1> QED BY <1>0, <1>1 DEF Next

LEMMA TypeInit == Init => Typed
<1> SUFFICES ASSUME Init PROVE Typed
  OBVIOUS
<1>1. image \in [Images -> ImageRecords]
  BY DEF Init, ImageRecords, BoxLists
<1>2. items \in Seq(ItemRecords) /\ DOMAIN items = {}
  BY EmptySeq, LenProperties DEF Init
<1> QED BY <1>1, <1>2, IdleType DEF Init, Typed, TypeOK

\* The batch and the requests always hold well-formed values, only deleted items
\* remember a previous status, and no commit is ahead of the batch's revision.
THEOREM TypeCorrect == Spec => []TypeOK
<1>1. Spec => []Typed
  BY TypeInit, TypeStep, PTL DEF Spec
<1>2. Typed => TypeOK
  BY DEF Typed
<1> QED BY <1>1, <1>2, PTL

-----------------------------------------------------------------------------
(* Items and boxes *)

\* What a commit holds is current as long as its revision is.
CommitFits(r) ==
    req[r].pc = "append" /\ req[r].revision = revision =>
        /\ image[req[r].image].status = "ready"
        /\ req[r].boxes = image[req[r].image].boxes
        /\ req[r].next = NextOrder

\* Drawn boxes are those of an image that waits for no detection.
DrawnSettled(i) ==
    image[i].boxes \in Drawings => image[i].status \in {"ready", "committed", "deleted"}

MatchesBoxes(i) ==
    /\ image[i].status = "committed" =>
          /\ \A k \in ItemsOf(i) : items[k].boxes = image[i].boxes
          /\ {items[k].place : k \in ItemsOf(i)} = 1 .. Size[image[i].boxes]
          /\ Cardinality(ItemsOf(i)) = Size[image[i].boxes]
    /\ image[i].status \notin {"committed", "deleted"} => ItemsOf(i) = {}

ImagesInv ==
    /\ \A r \in Requests : CommitFits(r)
    /\ \A i \in Images : DrawnSettled(i) /\ MatchesBoxes(i)

\* Once the batch is written, no commit holds its revision any more.
LEMMA WriteFits ==
  ASSUME Typed, revision' = revision + 1, NEW r \in Requests, NEW rec,
         req' = [req EXCEPT ![r] = rec], rec.pc # "append"
  PROVE  \A q \in Requests : CommitFits(q)'
<1>1. \A q \in Requests : req[q].revision <= revision /\ req[q].revision \in Nat /\ revision \in Nat
  BY DEF Typed, TypeOK, RequestLocals
<1>2. \A q \in Requests : req'[q] = IF q = r THEN rec ELSE req[q]
  BY DEF Typed, TypeOK
<1>3. \A q \in Requests : ~(req'[q].pc = "append" /\ req'[q].revision = revision')
  BY <1>1, <1>2
<1> QED BY <1>3 DEF CommitFits

\* A step after which the same items show the same boxes of the same images.
LEMMA SameItems ==
  ASSUME NEW i \in Images, MatchesBoxes(i),
         DOMAIN items' = DOMAIN items,
         \A k \in DOMAIN items : /\ items'[k].image = items[k].image
                                 /\ items'[k].boxes = items[k].boxes
                                 /\ items'[k].place = items[k].place,
         image'[i].status = "committed" =>
             image[i].status = "committed" /\ image'[i].boxes = image[i].boxes,
         image'[i].status \notin {"committed", "deleted"} =>
             image[i].status \notin {"committed", "deleted"}
  PROVE  MatchesBoxes(i)'
<1>1. ItemsOf(i)' = ItemsOf(i) /\ ItemsOf(i) \subseteq DOMAIN items
  BY DEF ItemsOf
<1>2. {items'[k].place : k \in ItemsOf(i)} = {items[k].place : k \in ItemsOf(i)}
  BY <1>1
<1>3. \A k \in ItemsOf(i) : items'[k].boxes = items[k].boxes
  BY <1>1
<1> QED BY <1>1, <1>2, <1>3 DEF MatchesBoxes

\* A step that leaves the batch alone keeps the invariant if its request fits.
LEMMA ReadFits ==
  ASSUME Typed, ImagesInv, UNCHANGED batchVars, NEW r \in Requests, NEW rec,
         req' = [req EXCEPT ![r] = rec], rec.pc # "append" \/ CommitFits(r)'
  PROVE  ImagesInv'
<1>1. UNCHANGED <<image, items, revision>>
  BY DEF batchVars
<1>2. \A q \in Requests : req'[q] = IF q = r THEN rec ELSE req[q]
  BY DEF Typed, TypeOK
<1>3. NextOrder' = NextOrder
  BY <1>1 DEF NextOrder, Live
<1>4. ASSUME NEW q \in Requests PROVE CommitFits(q)'
  <2>1. CASE q = r
    BY <1>2, <2>1 DEF CommitFits
  <2>2. CASE q # r
    <3>1. CommitFits(q) /\ req'[q] = req[q]
      BY <1>2, <2>2 DEF ImagesInv
    <3> QED BY <1>1, <1>3, <3>1 DEF CommitFits
  <2> QED BY <2>1, <2>2
<1>5. ASSUME NEW i \in Images PROVE DrawnSettled(i)' /\ MatchesBoxes(i)'
  <2>1. DrawnSettled(i) /\ MatchesBoxes(i)
    BY DEF ImagesInv
  <2> QED BY <1>1, <2>1, SameItems DEF DrawnSettled
<1> QED BY <1>4, <1>5 DEF ImagesInv

\* One image gets a status and boxes: the boxes stay unless it was editable or in
\* detection, and a drawing is taken only from an image it leaves ready.
LEMMA SetImageInv ==
  ASSUME Typed, ImagesInv, NEW i \in Images, NEW status \in ImageState, NEW b \in BoxLists,
         SetImage(i, status, b), image[i].status \notin {"committed", "deleted"},
         status \notin {"committed", "deleted"},
         b \in Drawings => status = "ready",
         NEW r \in Requests, NEW rec, req' = [req EXCEPT ![r] = rec], rec.pc # "append"
  PROVE  ImagesInv'
<1>1. image \in [Images -> ImageRecords]
  BY DEF Typed, TypeOK
<1>2. items' = items /\ revision' = revision + 1
  BY DEF SetImage, Write
<1>3. \A j \in Images : j # i => image'[j] = image[j]
  BY <1>1 DEF SetImage, Write
<1>4. image'[i].status = status /\ image'[i].boxes = b
  BY <1>1 DEF SetImage, Write, ImageRecords
<1>5. \A q \in Requests : CommitFits(q)'
  BY <1>2, WriteFits
<1>6. ASSUME NEW j \in Images PROVE DrawnSettled(j)' /\ MatchesBoxes(j)'
  <2>1. DrawnSettled(j) /\ MatchesBoxes(j)
    BY DEF ImagesInv
  <2>2. CASE j = i
    <3>1. DrawnSettled(j)'
      BY <1>4, <2>2 DEF DrawnSettled
    <3> QED BY <1>2, <1>4, <2>1, <2>2, <3>1, SameItems
  <2>3. CASE j # i
    <3>1. DrawnSettled(j)'
      BY <1>3, <2>1, <2>3 DEF DrawnSettled
    <3> QED BY <1>2, <1>3, <2>1, <2>3, <3>1, SameItems
  <2> QED BY <2>2, <2>3
<1> QED BY <1>5, <1>6 DEF ImagesInv

\* The sequence its is the batch's items followed by those of a commit.
Extends(its, i, b, next) ==
    /\ Len(items) \in Nat /\ DOMAIN items = 1 .. Len(items) /\ Size[b] \in Nat
    /\ DOMAIN its = 1 .. Len(items) + Size[b]
    /\ \A k \in 1 .. Len(items) : its[k] = items[k]
    /\ \A k \in Len(items) + 1 .. Len(items) + Size[b] :
          /\ its[k].image = i /\ its[k].boxes = b
          /\ its[k].place = k - Len(items)
          /\ its[k].order = next + (k - Len(items)) - 1

LEMMA AppendedItems ==
  ASSUME Typed, NEW i \in Images, NEW b \in BoxLists, NEW next \in Nat
  PROVE  Extends(items \o NewItems(i, b, next), i, b, next)
<1> DEFINE its == items \o NewItems(i, b, next)
<1> DEFINE new == NewItems(i, b, next)
           n == Len(items)
<1>0. items \in Seq(ItemRecords)
  BY DEF Typed, TypeOK
<1>1. /\ new \in Seq(ItemRecords) /\ Len(new) = Size[b] /\ Size[b] \in Nat
      /\ \A m \in 1 .. Size[b] : new[m] = build_item_document(i, b, m, next + m - 1)
  BY CommittedItems
<1>2. \A m \in 1 .. Size[b] : /\ new[m].image = i /\ new[m].boxes = b
                              /\ new[m].place = m /\ new[m].order = next + m - 1
  <2>1. \A m \in 1 .. Size[b] :
           LET it == build_item_document(i, b, m, next + m - 1)
           IN  it.image = i /\ it.boxes = b /\ it.place = m /\ it.order = next + m - 1
    BY DEF build_item_document
  <2> HIDE DEF new
  <2> QED BY <1>1, <2>1
<1>3. its = items \o new
  OBVIOUS
<1> HIDE DEF new, its
<1>4. /\ its \in Seq(ItemRecords) /\ Len(its) = n + Size[b]
      /\ \A k \in 1 .. n + Size[b] : its[k] = IF k <= n THEN items[k] ELSE new[k - n]
  <2>1. /\ items \o new \in Seq(ItemRecords)
        /\ Len(items \o new) = Len(items) + Size[b]
        /\ \A k \in 1 .. Len(items) + Size[b] :
              (items \o new)[k] = IF k <= Len(items) THEN items[k] ELSE new[k - Len(items)]
    BY <1>0, <1>1, ConcatProperties
  <2> QED BY <1>3, <2>1
<1>5. n \in Nat /\ DOMAIN items = 1 .. n /\ DOMAIN its = 1 .. n + Size[b]
  BY <1>0, <1>4, LenProperties
<1>6. \A k \in 1 .. n : its[k] = items[k]
  BY <1>1, <1>4, <1>5
<1>7. ASSUME NEW k \in n + 1 .. n + Size[b]
      PROVE /\ its[k].image = i /\ its[k].boxes = b
            /\ its[k].place = k - n /\ its[k].order = next + (k - n) - 1
  <2>1. k \in 1 .. n + Size[b] /\ ~(k <= n) /\ k - n \in 1 .. Size[b]
    BY <1>1, <1>5
  <2> QED BY <1>2, <1>4, <2>1
<1>8. Extends(its, i, b, next)
  BY <1>1, <1>5, <1>6, <1>7 DEF Extends
<1> QED BY <1>8 DEF its

LEMMA IntervalSize ==
  ASSUME NEW n \in Nat, NEW m \in Nat
  PROVE  Cardinality(n + 1 .. n + m) = m
<1>1. n + 1 \in Int /\ n + m \in Int
  OBVIOUS
<1>2. Cardinality(n + 1 .. n + m) = IF n + 1 > n + m THEN 0 ELSE (n + m) - (n + 1) + 1
  BY <1>1, FS_Interval
<1> QED BY <1>2

\* The items of an image that is committed are those of its boxes.
LEMMA CommitInv ==
  ASSUME Typed, ImagesInv, NEW r \in Requests, NEW i, i = req[r].image,
         req[r].pc = "append", _revision_guard(r), image[i].status = "ready",
         Write([image EXCEPT ![i] = [@ EXCEPT !.status = "committed"]],
               items \o NewItems(i, req[r].boxes, req[r].next)),
         Finish(r)
  PROVE  ImagesInv'
<1> DEFINE b == req[r].boxes
           next == req[r].next
           n == Len(items)
<1>0. /\ image \in [Images -> ImageRecords] /\ i \in Images
      /\ b \in BoxLists /\ next \in Nat /\ items \in Seq(ItemRecords)
  <2>1. req[r] \in RequestLocals
    BY DEF Typed, TypeOK
  <2> QED BY <2>1 DEF Typed, TypeOK, RequestLocals
<1>1. /\ b = image[i].boxes /\ MatchesBoxes(i)
  BY <1>0 DEF ImagesInv, CommitFits, _revision_guard
<1>2. revision' = revision + 1 /\ items' = items \o NewItems(i, b, next)
  BY DEF Write
<1>3. \A q \in Requests : CommitFits(q)'
  <2>1. req' = [req EXCEPT ![r] = Done] /\ Done.pc # "append"
    BY IdleType DEF Finish, Done
  <2> QED BY <1>2, <2>1, WriteFits
<1>4. /\ \A j \in Images : j # i => image'[j] = image[j]
      /\ image'[i].status = "committed" /\ image'[i].boxes = b
  BY <1>0, <1>1 DEF Write, ImageRecords
<1> HIDE DEF b, next
<1>5. /\ n \in Nat /\ DOMAIN items = 1 .. n /\ Size[b] \in Nat
      /\ DOMAIN items' = 1 .. n + Size[b]
      /\ \A k \in 1 .. n : items'[k] = items[k]
      /\ \A k \in n + 1 .. n + Size[b] :
            /\ items'[k].image = i /\ items'[k].boxes = b /\ items'[k].place = k - n
  <2>1. Extends(items', i, b, next)
    BY <1>0, <1>2, AppendedItems
  <2> QED BY <2>1 DEF Extends
<1> HIDE DEF n
<1>6. ItemsOf(i) = {}
  BY <1>1 DEF MatchesBoxes
<1>7. ItemsOf(i)' = n + 1 .. n + Size[b]
  BY <1>5, <1>6 DEF ItemsOf
<1>8. MatchesBoxes(i)'
  <2>1. \A k \in ItemsOf(i)' : items'[k].boxes = b
    BY <1>5, <1>7
  <2>2. {items'[k].place : k \in ItemsOf(i)'} = 1 .. Size[b]
    <3>1. \A k \in n + 1 .. n + Size[b] : items'[k].place \in 1 .. Size[b]
      BY <1>5
    <3>2. \A m \in 1 .. Size[b] : n + m \in n + 1 .. n + Size[b] /\ items'[n + m].place = m
      BY <1>5
    <3> QED BY <1>7, <3>1, <3>2
  <2>3. Cardinality(ItemsOf(i)') = Size[b]
    BY <1>5, <1>7, IntervalSize
  <2> QED BY <1>4, <2>1, <2>2, <2>3 DEF MatchesBoxes
<1>9. ASSUME NEW j \in Images, j # i PROVE MatchesBoxes(j)'
  <2>1. image'[j] = image[j] /\ MatchesBoxes(j)
    BY <1>4, <1>9 DEF ImagesInv
  <2>2. ItemsOf(j)' = ItemsOf(j) /\ \A k \in ItemsOf(j) : items'[k] = items[k]
    BY <1>5, <1>9 DEF ItemsOf
  <2>3. {items'[k].place : k \in ItemsOf(j)} = {items[k].place : k \in ItemsOf(j)}
    BY <2>2
  <2> QED BY <2>1, <2>2, <2>3 DEF MatchesBoxes
<1>10. \A j \in Images : DrawnSettled(j)'
  BY <1>4 DEF ImagesInv, DrawnSettled
<1> QED BY <1>3, <1>8, <1>9, <1>10 DEF ImagesInv

LEMMA ImagesInvInit == Init => ImagesInv
<1> SUFFICES ASSUME Init PROVE ImagesInv
  OBVIOUS
<1>1. \A r \in Requests : CommitFits(r)
  BY IdleType DEF Init, CommitFits
<1>2. items = <<>> /\ DOMAIN items = {}
  BY EmptySeq, LenProperties DEF Init
<1>3. ASSUME NEW i \in Images PROVE DrawnSettled(i) /\ MatchesBoxes(i)
  <2>1. image[i].status = "absent" /\ image[i].boxes = NoBoxes
    BY DEF Init
  <2>2. ItemsOf(i) = {}
    BY <1>2 DEF ItemsOf
  <2> QED BY <2>1, <2>2, BoxesAssumption DEF DrawnSettled, MatchesBoxes
<1> QED BY <1>1, <1>3 DEF ImagesInv

\* A new image, or one that is deleted with its items, disturbs no other image.
LEMMA OneImageInv ==
  ASSUME Typed, ImagesInv, NEW i \in Images, revision' = revision + 1,
         \A j \in Images : j # i => image'[j] = image[j],
         DOMAIN items' = DOMAIN items,
         \A k \in DOMAIN items : /\ items'[k].image = items[k].image
                                 /\ items'[k].boxes = items[k].boxes
                                 /\ items'[k].place = items[k].place,
         DrawnSettled(i)', image'[i].status # "committed",
         image'[i].status # "deleted" => image[i].status \notin {"committed", "deleted"},
         NEW r \in Requests, NEW rec, req' = [req EXCEPT ![r] = rec], rec.pc # "append"
  PROVE  ImagesInv'
<1>1. \A q \in Requests : CommitFits(q)'
  BY WriteFits
<1>2. ASSUME NEW j \in Images PROVE DrawnSettled(j)' /\ MatchesBoxes(j)'
  <2>1. DrawnSettled(j) /\ MatchesBoxes(j)
    BY DEF ImagesInv
  <2>2. CASE j = i
    BY <2>1, <2>2, SameItems
  <2>3. CASE j # i
    <3>1. image'[j] = image[j]
      BY <2>3
    <3>2. DrawnSettled(j)'
      BY <2>1, <3>1 DEF DrawnSettled
    <3>3. MatchesBoxes(j)'
      BY <2>1, <3>1, SameItems
    <3> QED BY <3>2, <3>3
  <2> QED BY <2>2, <2>3
<1> QED BY <1>1, <1>2 DEF ImagesInv

\* A step that changes only the status of items.
LEMMA OneItemInv ==
  ASSUME Typed, ImagesInv, image' = image, revision' = revision + 1,
         DOMAIN items' = DOMAIN items,
         \A k \in DOMAIN items : /\ items'[k].image = items[k].image
                                 /\ items'[k].boxes = items[k].boxes
                                 /\ items'[k].place = items[k].place,
         NEW r \in Requests, NEW rec, req' = [req EXCEPT ![r] = rec], rec.pc # "append"
  PROVE  ImagesInv'
<1>1. \A q \in Requests : CommitFits(q)'
  BY WriteFits
<1>2. ASSUME NEW j \in Images PROVE DrawnSettled(j)' /\ MatchesBoxes(j)'
  <2>1. DrawnSettled(j) /\ MatchesBoxes(j)
    BY DEF ImagesInv
  <2>2. MatchesBoxes(j)'
    BY <2>1, SameItems
  <2> QED BY <2>1, <2>2 DEF DrawnSettled
<1> QED BY <1>1, <1>2 DEF ImagesInv

LEMMA ImagesInvStep == Typed /\ ImagesInv /\ [Next]_vars => ImagesInv'
<1> SUFFICES ASSUME Typed, ImagesInv, [Next]_vars PROVE ImagesInv'
  OBVIOUS
<1>0. CASE UNCHANGED vars
  <2>1. UNCHANGED <<image, items, revision, req>>
    BY <1>0 DEF vars
  <2>2. NextOrder' = NextOrder
    BY <2>1 DEF NextOrder, Live
  <2>3. ASSUME NEW q \in Requests PROVE CommitFits(q)'
    BY <2>1, <2>2 DEF ImagesInv, CommitFits
  <2>4. ASSUME NEW j \in Images PROVE DrawnSettled(j)' /\ MatchesBoxes(j)'
    <3>1. DrawnSettled(j) /\ MatchesBoxes(j)
      BY DEF ImagesInv
    <3> QED BY <2>1, <3>1, SameItems DEF DrawnSettled
  <2> QED BY <2>3, <2>4 DEF ImagesInv
<1>1. ASSUME NEW r \in Requests, Step(r) PROVE ImagesInv'
  <2> DEFINE i == req[r].image
  <2>0. /\ i \in Images /\ image \in [Images -> ImageRecords]
        /\ image[i].boxes \in BoxLists /\ DrawnSettled(i)
        /\ req[r].next \in Nat
    <3>1. req[r] \in RequestLocals /\ image \in [Images -> ImageRecords]
      BY DEF Typed, TypeOK
    <3> QED BY <3>1 DEF RequestLocals, ImageRecords, ImagesInv
  <2>F. /\ Finish(r) => req' = [req EXCEPT ![r] = Done]
        /\ Done.pc # "append"
    BY IdleType DEF Finish, Done
  <2>G. /\ req[r] \in RequestLocals
        /\ \A pc \in {"start", "detect", "boxes", "commit"} :
              /\ [req[r] EXCEPT !.pc = pc].pc # "append"
              /\ \A j \in Images : [req[r] EXCEPT !.pc = pc, !.image = j].pc # "append"
    BY DEF Typed, TypeOK, RequestLocals
  <2> HIDE DEF i
  <2>1. CASE UploadRead(r)
    <3>1. PICK n \in 1 .. MaxPages :
             req' = [req EXCEPT ![r] = [@ EXCEPT !.pc = "upload", !.pages = n,
                                                 !.count = Cardinality(Uploaded)]]
      BY <2>1 DEF UploadRead
    <3>2. [req[r] EXCEPT !.pc = "upload", !.pages = n,
                         !.count = Cardinality(Uploaded)].pc = "upload"
      BY <2>G DEF RequestLocals
    <3> QED BY <2>1, <3>1, <3>2, ReadFits DEF UploadRead
  <2>2. CASE add_source_image(r)
    <3>1. PICK j \in Images \ Uploaded :
             Write([image EXCEPT ![j] = build_image_document(req[r].count)], items)
      BY <2>2 DEF add_source_image
    <3>2. /\ \A m \in Images : m # j => image'[m] = image[m]
          /\ image'[j].status = "uploaded" /\ image'[j].boxes = NoBoxes
          /\ items' = items /\ revision' = revision + 1
      BY <2>0, <3>1 DEF Write, build_image_document
    <3>3. image[j].status = "absent"
      BY <3>1 DEF Uploaded
    <3>4. DrawnSettled(j)'
      BY <3>2, BoxesAssumption DEF DrawnSettled
    <3> DEFINE rec == IF req[r].pages = 1 THEN [IdleRequest EXCEPT !.pc = "done"]
                      ELSE [req[r] EXCEPT !.count = req[r].count + 1,
                                          !.pages = req[r].pages - 1]
    <3>5. req' = [req EXCEPT ![r] = rec] /\ req[r].pc = "upload"
      BY <2>2 DEF add_source_image
    <3>6. rec.pc # "append"
      <4>1. [req[r] EXCEPT !.count = req[r].count + 1,
                           !.pages = req[r].pages - 1].pc = req[r].pc
        BY <2>G DEF RequestLocals
      <4> QED BY <2>F, <3>5, <4>1 DEF Done
    <3> HIDE DEF rec
    <3> QED BY <3>1, <3>2, <3>3, <3>4, <3>5, <3>6, OneImageInv
  <2>3. CASE UploadFails(r) \/ DetectCrash(r)
    BY <2>3, <2>F, ReadFits DEF UploadFails, DetectCrash
  <2>4. CASE DetectRead(r) \/ BoxesRead(r) \/ CommitRead(r)
    <3>1. PICK pc \in {"start", "boxes", "commit"}, j \in Images :
             req' = [req EXCEPT ![r] = [@ EXCEPT !.pc = pc, !.image = j]]
      BY <2>4 DEF DetectRead, BoxesRead, CommitRead, Open, Uploaded
    <3>2. UNCHANGED batchVars
      BY <2>4 DEF DetectRead, BoxesRead, CommitRead
    <3> QED BY <2>G, <3>1, <3>2, ReadFits
  <2>5. CASE start_image_detection(r)
    <3>1. req' = [req EXCEPT ![r] = [req[r] EXCEPT !.pc = "detect"]]
      BY <2>5 DEF start_image_detection, Goto
    <3>2. \/ /\ image[i].status \in {"uploaded", "detect-failed"}
             /\ SetImage(i, "detecting", image[i].boxes)
          \/ UNCHANGED batchVars
      BY <2>5 DEF start_image_detection, i, Detectable
    <3>3. CASE UNCHANGED batchVars
      BY <2>G, <3>1, <3>3, ReadFits
    <3>4. CASE /\ image[i].status \in {"uploaded", "detect-failed"}
               /\ SetImage(i, "detecting", image[i].boxes)
      <4>1. image[i].boxes \notin Drawings
        BY <2>0, <3>4 DEF DrawnSettled
      <4> QED BY <2>0, <2>G, <3>1, <3>4, <4>1, Members, SetImageInv
    <3> QED BY <3>2, <3>3, <3>4
  <2>6. CASE save_image_detection_success(r)
    <3>1. Finish(r)
      BY <2>6 DEF save_image_detection_success
    <3>2. \/ image[i].status = "detecting" /\ \E b \in Detections : SetImage(i, "ready", b)
          \/ UNCHANGED batchVars
      BY <2>6 DEF save_image_detection_success, i, DetectionLands
    <3> QED BY <2>0, <2>F, <3>1, <3>2, Members, SetImageInv, ReadFits
  <2>7. CASE save_image_detection_failure(r)
    <3>1. Finish(r)
      BY <2>7 DEF save_image_detection_failure
    <3>2. \/ image[i].status = "detecting" /\ SetImage(i, "detect-failed", image[i].boxes)
          \/ UNCHANGED batchVars
      BY <2>7 DEF save_image_detection_failure, i, DetectionLands
    <3>3. CASE UNCHANGED batchVars
      BY <2>F, <3>1, <3>3, ReadFits
    <3>4. CASE image[i].status = "detecting" /\ SetImage(i, "detect-failed", image[i].boxes)
      <4>1. image[i].boxes \notin Drawings
        BY <2>0, <3>4 DEF DrawnSettled
      <4> QED BY <2>0, <2>F, <3>1, <3>4, <4>1, Members, SetImageInv
    <3> QED BY <3>2, <3>3, <3>4
  <2>8. CASE save_image_boxes_and_subject(r)
    <3>1. Finish(r)
      BY <2>8 DEF save_image_boxes_and_subject
    <3>2. \/ /\ image[i].status \notin {"committed", "deleted"}
             /\ \E b \in Drawings : SetImage(i, "ready", b)
          \/ UNCHANGED batchVars
      BY <2>8 DEF save_image_boxes_and_subject, i, Editable
    <3> QED BY <2>0, <2>F, <3>1, <3>2, Members, SetImageInv, ReadFits
  <2>9. CASE delete_batch_image(r)
    <3>1. PICK j \in Images :
             Write([image EXCEPT ![j] = [@ EXCEPT !.status = "deleted"]],
                   [k \in DOMAIN items |->
                       IF items[k].image = j THEN [items[k] EXCEPT !.status = "deleted"]
                       ELSE items[k]])
      BY <2>9 DEF delete_batch_image, Uploaded
    <3>2. Finish(r)
      BY <2>9 DEF delete_batch_image
    <3>3. /\ \A m \in Images : m # j => image'[m] = image[m]
          /\ image'[j].status = "deleted"
          /\ revision' = revision + 1
      BY <2>0, <3>1 DEF Write, ImageRecords
    <3>4. \A k \in DOMAIN items :
             LET gone == [items[k] EXCEPT !.status = "deleted"]
             IN  /\ gone.image = items[k].image /\ gone.boxes = items[k].boxes
                 /\ gone.place = items[k].place
      BY ItemsByPosition DEF Typed, TypeOK, ItemRecords
    <3>5. DOMAIN items' = DOMAIN items /\ \A k \in DOMAIN items :
             items'[k] = IF items[k].image = j THEN [items[k] EXCEPT !.status = "deleted"]
                         ELSE items[k]
      BY <3>1 DEF Write
    <3>6. \A k \in DOMAIN items : /\ items'[k].image = items[k].image
                                  /\ items'[k].boxes = items[k].boxes
                                  /\ items'[k].place = items[k].place
      BY <3>4, <3>5
    <3>7. DrawnSettled(j)'
      BY <3>3 DEF DrawnSettled
    <3> QED BY <2>F, <3>2, <3>3, <3>5, <3>6, <3>7, OneImageInv
  <2>10. CASE CommitLoad(r)
    <3> DEFINE load == [req[r] EXCEPT !.pc = "append", !.revision = revision,
                                      !.next = NextOrder, !.boxes = image[i].boxes]
    <3>1. UNCHANGED batchVars /\ UNCHANGED <<image, items, revision>>
      BY <2>10 DEF CommitLoad, batchVars
    <3>2. CASE image[i].status # "ready"
      <4>1. req' = [req EXCEPT ![r] = Done]
        BY <2>10, <3>2 DEF CommitLoad, Done, i
      <4> QED BY <2>F, <3>1, <4>1, ReadFits
    <3>3. CASE image[i].status = "ready"
      <4>1. req' = [req EXCEPT ![r] = load]
        BY <2>10, <3>3 DEF CommitLoad, i
      <4>2. NextOrder' = NextOrder
        BY <3>1 DEF NextOrder, Live
      <4>3. load.image = i /\ load.boxes = image[i].boxes /\ load.next = NextOrder
        <5> HIDE DEF NextOrder
        <5> QED BY <2>G DEF RequestLocals, i
      <4> HIDE DEF load
      <4>4. req'[r] = load
        BY <4>1 DEF Typed, TypeOK
      <4>5. CommitFits(r)'
        <5> HIDE DEF NextOrder
        <5> QED BY <3>1, <3>3, <4>2, <4>3, <4>4 DEF CommitFits
      <4> QED BY <3>1, <4>1, <4>5, ReadFits
    <3> QED BY <3>2, <3>3
  <2>11. CASE commit_image_boxes(r)
    <3>1. CASE UNCHANGED batchVars
      <4>1. Finish(r) \/ req' = [req EXCEPT ![r] = [req[r] EXCEPT !.pc = "commit"]]
        BY <2>11 DEF commit_image_boxes, Goto
      <4> QED BY <2>F, <2>G, <3>1, <4>1, ReadFits
    <3>2. CASE /\ _revision_guard(r) /\ image[i].status = "ready"
               /\ Write([image EXCEPT ![i] = [@ EXCEPT !.status = "committed"]],
                        items \o NewItems(i, req[r].boxes, req[r].next))
               /\ Finish(r)
      <4>1. req[r].pc = "append" /\ i = req[r].image
        BY <2>11 DEF commit_image_boxes, i
      <4> QED BY <3>2, <4>1, CommitInv
    <3> QED BY <2>11, <3>1, <3>2 DEF commit_image_boxes, i
  <2>12. CASE mark_item_deleted(r) \/ undo_item_deletion(r)
    <3>1. PICK k \in DOMAIN items :
             \/ Write(image, [items EXCEPT ![k] = [@ EXCEPT !.status = "deleted",
                                                            !.hasPrevious = TRUE]])
             \/ Write(image, [items EXCEPT ![k] = Restored(@)])
      BY <2>12 DEF mark_item_deleted, undo_item_deletion, Live
    <3>2. Finish(r)
      BY <2>12 DEF mark_item_deleted, undo_item_deletion
    <3>3. \A it \in ItemRecords :
             LET gone == [it EXCEPT !.status = "deleted", !.hasPrevious = TRUE]
             IN  /\ gone.image = it.image /\ gone.boxes = it.boxes /\ gone.place = it.place
                 /\ Restored(it).image = it.image /\ Restored(it).boxes = it.boxes
                 /\ Restored(it).place = it.place
      BY DEF ItemRecords, Restored
    <3>4. items[k] \in ItemRecords /\ items \in [1 .. Len(items) -> ItemRecords]
      BY ItemsByPosition DEF Typed, TypeOK
    <3>5. PICK new : /\ items' = [items EXCEPT ![k] = new]
                     /\ new.image = items[k].image /\ new.boxes = items[k].boxes
                     /\ new.place = items[k].place
      BY <3>1, <3>3, <3>4 DEF Write
    <3>6. /\ DOMAIN items' = DOMAIN items
          /\ \A m \in DOMAIN items : /\ items'[m].image = items[m].image
                                     /\ items'[m].boxes = items[m].boxes
                                     /\ items'[m].place = items[m].place
      BY <3>4, <3>5
    <3>7. image' = image /\ revision' = revision + 1
      BY <3>1 DEF Write
    <3> QED BY <2>F, <3>2, <3>6, <3>7, OneItemInv
  <2> QED
    BY <1>1, <2>1, <2>2, <2>3, <2>4, <2>5, <2>6, <2>7, <2>8, <2>9, <2>10, <2>11, <2>12
    DEF Step
<1> QED BY <1>0, <1>1 DEF Next

LEMMA ImagesInvariant == Spec => [](Typed /\ ImagesInv)
BY TypeInit, TypeStep, ImagesInvInit, ImagesInvStep, PTL DEF Spec

\* Whatever commits, detections, edits and deletions overlap, a committed image has
\* exactly one item per box, made of the boxes it shows, and an image not yet
\* committed has none.
THEOREM CommittedItemsMatch == Spec => []CommittedItemsMatchBoxes
<1>1. ImagesInv => CommittedItemsMatchBoxes
  BY DEF ImagesInv, MatchesBoxes, CommittedItemsMatchBoxes
<1> QED BY <1>1, ImagesInvariant, PTL

-----------------------------------------------------------------------------
(* What a step does to the images, and to the sequence of items *)

Kept(j) ==
    /\ image[j].boxes \in Drawings => image'[j].boxes \in Drawings
    /\ image[j].status = "deleted" => image'[j].status = "deleted"

LEMMA SetImageKeeps ==
  ASSUME Typed, NEW i \in Images, NEW status, NEW b, SetImage(i, status, b),
         image[i].status # "deleted",
         image[i].boxes \in Drawings => b \in Drawings,
         NEW j \in Images
  PROVE  Kept(j)
<1>1. image \in [Images -> ImageRecords]
  BY DEF Typed, TypeOK
<1>2. j # i => image'[j] = image[j]
  BY <1>1 DEF SetImage, Write
<1>3. image'[i].boxes = b
  BY <1>1 DEF SetImage, Write, ImageRecords
<1> QED BY <1>2, <1>3 DEF Kept

LEMMA ImageStep ==
  ASSUME Typed, ImagesInv, [Next]_vars, NEW j \in Images
  PROVE  Kept(j)
<1>0. CASE image' = image
  BY <1>0 DEF Kept
<1>1. ASSUME NEW r \in Requests, Step(r), image' # image PROVE Kept(j)
  <2> DEFINE i == req[r].image
  <2>0. i \in Images /\ image \in [Images -> ImageRecords] /\ DrawnSettled(i)
    <3>1. req[r] \in RequestLocals
      BY DEF Typed, TypeOK
    <3> QED BY <3>1 DEF Typed, TypeOK, RequestLocals, ImagesInv
  <2> HIDE DEF i
  <2>1. CASE add_source_image(r)
    <3>1. PICK m \in Images \ Uploaded :
             Write([image EXCEPT ![m] = build_image_document(req[r].count)], items)
      BY <2>1 DEF add_source_image
    <3>2. image[m].status = "absent" /\ DrawnSettled(m)
      BY <3>1 DEF Uploaded, ImagesInv
    <3>3. j # m => image'[j] = image[j]
      BY <2>0, <3>1 DEF Write
    <3> QED BY <3>2, <3>3 DEF Kept, DrawnSettled
  <2>2. CASE start_image_detection(r)
    <3>1. Detectable(image[i].status) /\ SetImage(i, "detecting", image[i].boxes)
      BY <1>1, <2>2 DEF start_image_detection, i, batchVars
    <3> QED BY <2>0, <3>1, SetImageKeeps DEF Detectable
  <2>3. CASE save_image_detection_success(r)
    <3>1. image[i].status = "detecting" /\ \E b \in Detections : SetImage(i, "ready", b)
      BY <1>1, <2>3 DEF save_image_detection_success, i, batchVars, DetectionLands
    <3> QED BY <2>0, <3>1, SetImageKeeps DEF DrawnSettled
  <2>4. CASE save_image_detection_failure(r)
    <3>1. image[i].status = "detecting" /\ SetImage(i, "detect-failed", image[i].boxes)
      BY <1>1, <2>4 DEF save_image_detection_failure, i, batchVars, DetectionLands
    <3> QED BY <2>0, <3>1, SetImageKeeps
  <2>5. CASE save_image_boxes_and_subject(r)
    <3>1. Editable(image[i].status) /\ \E b \in Drawings : SetImage(i, "ready", b)
      BY <1>1, <2>5 DEF save_image_boxes_and_subject, i, batchVars
    <3> QED BY <2>0, <3>1, SetImageKeeps DEF Editable
  <2>6. CASE delete_batch_image(r)
    <3>1. PICK m \in Images : image' = [image EXCEPT ![m] = [@ EXCEPT !.status = "deleted"]]
      BY <2>6 DEF delete_batch_image, Uploaded, Write
    <3>2. image'[m].status = "deleted" /\ image'[m].boxes = image[m].boxes
      BY <2>0, <3>1 DEF ImageRecords
    <3>3. j # m => image'[j] = image[j]
      BY <2>0, <3>1
    <3> QED BY <3>2, <3>3 DEF Kept
  <2>7. CASE commit_image_boxes(r)
    <3>1. /\ image[i].status = "ready"
          /\ image' = [image EXCEPT ![i] = [@ EXCEPT !.status = "committed"]]
      BY <1>1, <2>7 DEF commit_image_boxes, i, batchVars, Write
    <3>2. image'[i].boxes = image[i].boxes
      BY <2>0, <3>1 DEF ImageRecords
    <3>3. j # i => image'[j] = image[j]
      BY <2>0, <3>1
    <3> QED BY <3>1, <3>2, <3>3 DEF Kept
  <2>8. CASE UploadRead(r) \/ UploadFails(r) \/ DetectRead(r) \/ DetectCrash(r)
             \/ BoxesRead(r) \/ CommitRead(r) \/ CommitLoad(r)
    BY <1>1, <2>8 DEF UploadRead, UploadFails, DetectRead, DetectCrash, BoxesRead,
                      CommitRead, CommitLoad, batchVars
  <2>9. CASE mark_item_deleted(r) \/ undo_item_deletion(r)
    BY <1>1, <2>9 DEF mark_item_deleted, undo_item_deletion, Write
  <2> QED BY <1>1, <2>1, <2>2, <2>3, <2>4, <2>5, <2>6, <2>7, <2>8, <2>9 DEF Step
<1> QED BY <1>0, <1>1 DEF Next, vars

\* Only a commit of a ready image appends items, from the next order on.
LEMMA ItemsStep ==
  ASSUME Typed, ImagesInv, [Next]_vars
  PROVE  \/ DOMAIN items' = DOMAIN items
         \/ \E i \in Images, b \in BoxLists :
               image[i].status = "ready" /\ Extends(items', i, b, NextOrder)
<1>0. CASE UNCHANGED items
  BY <1>0
<1>1. ASSUME NEW r \in Requests, Step(r), items' # items, DOMAIN items' # DOMAIN items
      PROVE \E i \in Images, b \in BoxLists :
               image[i].status = "ready" /\ Extends(items', i, b, NextOrder)
  <2> DEFINE i == req[r].image
  <2>1. CASE commit_image_boxes(r)
    <3>1. /\ _revision_guard(r) /\ image[i].status = "ready" /\ req[r].pc = "append"
          /\ items' = items \o NewItems(i, req[r].boxes, req[r].next)
      BY <1>1, <2>1 DEF commit_image_boxes, batchVars, Write
    <3>2. i \in Images /\ req[r].boxes \in BoxLists /\ req[r].next \in Nat
      <4>1. req[r] \in RequestLocals
        BY DEF Typed, TypeOK
      <4> QED BY <4>1 DEF RequestLocals
    <3>3. req[r].next = NextOrder
      BY <3>1 DEF ImagesInv, CommitFits, _revision_guard
    <3>4. Extends(items', i, req[r].boxes, req[r].next)
      BY <3>1, <3>2, AppendedItems
    <3> QED BY <3>1, <3>2, <3>3, <3>4
  <2>2. CASE \/ add_source_image(r) \/ start_image_detection(r)
             \/ save_image_detection_success(r) \/ save_image_detection_failure(r)
             \/ save_image_boxes_and_subject(r)
    BY <1>1, <2>2 DEF add_source_image, start_image_detection, save_image_detection_success,
                      save_image_detection_failure, save_image_boxes_and_subject,
                      SetImage, Write, batchVars
  <2>3. CASE UploadRead(r) \/ UploadFails(r) \/ DetectRead(r) \/ DetectCrash(r)
             \/ BoxesRead(r) \/ CommitRead(r) \/ CommitLoad(r)
    BY <1>1, <2>3 DEF UploadRead, UploadFails, DetectRead, DetectCrash, BoxesRead,
                      CommitRead, CommitLoad, batchVars
  <2>4. CASE delete_batch_image(r)
    <3>1. DOMAIN items' = DOMAIN items
      BY <2>4 DEF delete_batch_image, Write
    <3> QED BY <1>1, <3>1
  <2>5. CASE mark_item_deleted(r) \/ undo_item_deletion(r)
    <3>1. DOMAIN items' = DOMAIN items
      BY <2>5 DEF mark_item_deleted, undo_item_deletion, Write
    <3> QED BY <1>1, <3>1
  <2> QED BY <1>1, <2>1, <2>2, <2>3, <2>4, <2>5 DEF Step
<1> QED BY <1>0, <1>1 DEF Next, vars

\* No detection, however late, replaces boxes the learner drew.
THEOREM UserBoxesAreKept == Spec => UserBoxesKept
<1>1. Typed /\ ImagesInv /\ [Next]_vars =>
         [\A i \in Images :
             image[i].boxes \in Drawings => image'[i].boxes \in Drawings]_vars
  BY ImageStep DEF Kept
<1> QED BY <1>1, ImagesInvariant, PTL DEF Spec, UserBoxesKept

\* A deleted image stays deleted, and a commit that was under way when it was
\* deleted appends no items to it.
THEOREM DeletedImagesAreFinal == Spec => DeletedImagesStayDeleted
<1>1. ASSUME Typed, ImagesInv, [Next]_vars, NEW i \in Images, image[i].status = "deleted",
             NEW k \in (DOMAIN items') \ (DOMAIN items)
      PROVE  items'[k].image # i
  <2>1. PICK j \in Images, b \in BoxLists :
           image[j].status = "ready" /\ Extends(items', j, b, NextOrder)
    BY <1>1, ItemsStep
  <2>2. k \in Len(items) + 1 .. Len(items) + Size[b]
    BY <2>1 DEF Extends
  <2>3. items'[k].image = j
    BY <2>1, <2>2 DEF Extends
  <2> QED BY <1>1, <2>1, <2>3
<1>2. Typed /\ ImagesInv /\ [Next]_vars =>
         [\A i \in Images :
             image[i].status = "deleted" =>
                 /\ image'[i].status = "deleted"
                 /\ \A k \in (DOMAIN items') \ (DOMAIN items) : items'[k].image # i]_vars
  BY <1>1, ImageStep DEF Kept
<1> QED BY <1>2, ImagesInvariant, PTL DEF Spec, DeletedImagesStayDeleted

\* Commits of several images that overlap still append their items after every item
\* that is not deleted, one after the other.
THEOREM CommitsAppendInOrder == Spec => AppendedInOrder
<1> DEFINE InOrder ==
             \A k \in (DOMAIN items') \ (DOMAIN items) :
                /\ \A j \in Live : items'[k].order > items[j].order
                /\ \A j \in (DOMAIN items') \ (DOMAIN items) :
                      j < k => items'[j].order < items'[k].order
<1>1. ASSUME Typed, ImagesInv, [Next]_vars PROVE InOrder
  <2>1. CASE DOMAIN items' = DOMAIN items
    BY <2>1
  <2>2. ASSUME NEW i \in Images, NEW b \in BoxLists, Extends(items', i, b, NextOrder)
        PROVE  InOrder
    <3>1. NextOrder \in Nat /\ \A j \in Live : items[j].order < NextOrder /\ items[j].order \in Nat
      BY <1>1, NextOrderBounds, ItemsByPosition DEF Typed, TypeOK, Live
    <3> HIDE DEF InOrder
    <3> DEFINE n == Len(items)
               next == NextOrder
    <3>2. /\ n \in Nat /\ Size[b] \in Nat /\ next \in Nat
          /\ (DOMAIN items') \ (DOMAIN items) = n + 1 .. n + Size[b]
          /\ \A k \in n + 1 .. n + Size[b] : items'[k].order = next + (k - n) - 1
          /\ \A j \in Live : items[j].order < next /\ items[j].order \in Nat
      BY <2>2, <3>1 DEF Extends
    <3> HIDE DEF n, next
    <3>3. ASSUME NEW k \in n + 1 .. n + Size[b], NEW j \in Live
          PROVE  items'[k].order > items[j].order
      BY <3>2, <3>3
    <3>4. ASSUME NEW k \in n + 1 .. n + Size[b], NEW j \in n + 1 .. n + Size[b], j < k
          PROVE  items'[j].order < items'[k].order
      BY <3>2, <3>4
    <3> QED BY <3>2, <3>3, <3>4 DEF InOrder
  <2> HIDE DEF InOrder
  <2> QED BY <1>1, <2>1, <2>2, ItemsStep
<1>2. Typed /\ ImagesInv /\ [Next]_vars => [InOrder]_vars
  BY <1>1
<1> QED BY <1>2, ImagesInvariant, PTL DEF Spec, AppendedInOrder

=============================================================================

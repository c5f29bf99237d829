----------------------------- MODULE BatchItems -----------------------------
(***************************************************************************)
(* The items of one ingestion batch in original mode, from the commit of   *)
(* their images to the problems they become: the extraction workers that   *)
(* lease them, the review endpoints (edit, delete, undo, retry, delete the *)
(* image) and the submission, which reserves items, creates their problems *)
(* and records the outcomes.                                               *)
(*                                                                         *)
(* Every database round trip is one step.  A reservation and a lease are   *)
(* represented by the request or worker that holds them; their deadlines   *)
(* by whether they have passed.                                            *)
(***************************************************************************)
EXTENDS Integers, FiniteSetsExt

CONSTANTS
    NumItems,       \* the committed images carry the items 1..NumItems
    Images,         \* those images
    ImageOf,        \* the image each item was cut from
    Workers,        \* concurrent extraction slots of the running processes
    NoWorker,       \* no lease
    Requests,       \* the API requests; each runs once
    NoRequest,      \* no reservation, and no problem
    RequestKinds,   \* which endpoints are called in this instance
    MaxCrashes,     \* bound on crashes and failed database calls
    MaxStalls       \* bound on deadlines that pass while their holder still runs

Items == 1 .. NumItems
Kinds == {"edit", "delete", "undo", "retry", "delete-image", "submit"}

ASSUME NumItemsAssumption == NumItems \in Nat \ {0}
ASSUME ImageOfAssumption == ImageOf \in [Items -> Images]
ASSUME NobodyAssumption == NoWorker \notin Workers /\ NoRequest \notin Requests
ASSUME RequestKindsAssumption == RequestKinds \subseteq Kinds
ASSUME BoundsAssumption == MaxCrashes \in Nat /\ MaxStalls \in Nat

VARIABLES
    batch,          \* the batch's status
    expired,        \* whether its expiresAt has passed
    deletedImages,  \* the images whose status is deleted
    item,           \* the batch's items
    problems,       \* for each item, the problems whose origin it is
    tasks,          \* the problems with a solution generation task
    worker,         \* what each extraction slot holds in its local variables
    req,            \* what each request holds in its local variables
    crashes, stalls

vars == <<batch, expired, deletedImages, item, problems, tasks, worker, req, crashes, stalls>>
batchVars == <<batch, expired, deletedImages>>
problemVars == <<problems, tasks>>
bounds == <<crashes, stalls>>

-----------------------------------------------------------------------------
(* Items, drafts, leases and reservations *)

ItemState == {"queued", "extracting", "ready", "failed", "submit-failed",
              "deleted", "submitted"}
Deadlines == {"none", "live", "passed"}

\* What the code tells apart of a draft: whether the graphDsl passes the
\* sanitizer, whether the required fields are there, and whose text it is.
ExtractedDrafts == {"extracted", "extracted-incomplete"}
EditedDrafts == {"edited", "non-compliant"}
Drafts == {"empty"} \union ExtractedDrafts \union EditedDrafts
Incomplete(d) == d \in {"empty", "extracted-incomplete"}

\* A problem is identified by its item and the request that inserted it.
ProblemIds == Requests \union {NoRequest}

\* submittedProblemId is item.problem; variation.submitReservation is
\* item.token and item.reservation; leaseUntil is item.holder and item.lease.
build_item_document ==
    [status |-> "queued", previousStatus |-> "none", draft |-> "empty",
     holder |-> NoWorker, lease |-> "none",
     token |-> NoRequest, reservation |-> "none", problem |-> NoRequest]

IdleWorker == [pc |-> "idle", todo |-> {}, item |-> 1]
DeadWorker == [IdleWorker EXCEPT !.pc = "dead"]
IdleRequest == [pc |-> "idle", item |-> 1, attempt |-> 1, todo |-> {}, reserved |-> {},
                draft |-> [i \in Items |-> "empty"], found |-> NoRequest,
                outcome |-> [i \in Items |-> "none"]]

Init ==
    /\ batch = "active"
    /\ expired = FALSE
    /\ deletedImages = {}
    /\ item = [i \in Items |-> build_item_document]
    /\ problems = [i \in Items |-> {}]
    /\ tasks = [i \in Items |-> {}]
    /\ worker = [w \in Workers |-> IdleWorker]
    /\ req = [r \in Requests |-> IdleRequest]
    /\ crashes = 0
    /\ stalls = 0

Set(i, new) == item' = [item EXCEPT ![i] = new]

-----------------------------------------------------------------------------
(* The extraction worker *)

\* Mutant: an item whose worker died is never claimed again.
ClaimsQueuedOnly(i) == item[i].status = "queued"

\* _is_item_claimable, and the element match of claim_item.
Claimable(i) ==
    \/ item[i].status = "queued"
    \/ item[i].status = "extracting" /\ item[i].lease # "live"

\* claim_next_item reads the active batches and lists their claimable items.
Scan(w) ==
    LET claimable == {i \in Items : Claimable(i)}
    IN  /\ worker[w].pc = "idle"
        /\ batch = "active"
        /\ claimable # {}
        /\ worker' = [worker EXCEPT ![w] = [@ EXCEPT !.pc = "claim", !.todo = claimable]]
        /\ UNCHANGED <<batchVars, item, problemVars, req, bounds>>

\* claim_item on the next listed item; the batch's status is not looked at again.
ClaimItem(w) ==
    LET i == Min(worker[w].todo)
        rest == worker[w].todo \ {i}
    IN  /\ worker[w].pc = "claim"
        /\ IF Claimable(i) /\ item[i].lease # "live"
           THEN /\ Set(i, [item[i] EXCEPT !.status = "extracting",
                                          !.holder = w, !.lease = "live"])
                /\ worker' = [worker EXCEPT ![w] = [pc |-> "extract", todo |-> {}, item |-> i]]
           ELSE /\ UNCHANGED item
                /\ worker' = [worker EXCEPT ![w] =
                       IF rest = {} THEN IdleWorker ELSE [@ EXCEPT !.todo = rest]]
        /\ UNCHANGED <<batchVars, problemVars, req, bounds>>

\* Mutant: the result is written to the item whatever became of it.
LandsAlways(w, i) == TRUE

\* The element match of save_item_extraction_success and _failure: the item is
\* still extracting under the lease this worker was given.
Lands(w, i) == item[i].status = "extracting" /\ item[i].holder = w

\* process_item: crop, model call and write of the result, a draft or a failure.
Extract(w) ==
    LET i == worker[w].item
    IN  /\ worker[w].pc = "extract"
        /\ worker' = [worker EXCEPT ![w] = IdleWorker]
        /\ \/ /\ Lands(w, i)
              /\ \E d \in ExtractedDrafts :
                    Set(i, [item[i] EXCEPT !.status = "ready", !.draft = d,
                                           !.holder = NoWorker, !.lease = "none"])
           \/ /\ Lands(w, i)
              /\ Set(i, [item[i] EXCEPT !.status = "failed",
                                        !.holder = NoWorker, !.lease = "none"])
           \/ ~ Lands(w, i) /\ UNCHANGED item
        /\ UNCHANGED <<batchVars, problemVars, req, bounds>>

\* claim_next_item raises: nothing catches it, so the worker's loop ends, and main
\* logs and raises it again.  Extractions under way run on, so a slot that is
\* extracting ends after that, each slot of the loop by a step of its own.
WorkerDies(w) ==
    /\ worker[w].pc \in {"idle", "claim"}
    /\ crashes < MaxCrashes
    /\ crashes' = crashes + 1
    /\ worker' = [worker EXCEPT ![w] = DeadWorker]
    /\ UNCHANGED <<batchVars, item, problemVars, req, stalls>>

\* process_item raises, or the process dies and restarts, which is also what
\* starts a loop again that has ended: nothing is written.
WorkerCrash(w) ==
    /\ worker[w].pc # "idle"
    /\ crashes < MaxCrashes
    /\ crashes' = crashes + 1
    /\ worker' = [worker EXCEPT ![w] = IdleWorker]
    /\ UNCHANGED <<batchVars, item, problemVars, req, stalls>>

Extracting(i) ==
    item[i].holder # NoWorker
    /\ worker[item[i].holder].pc = "extract" /\ worker[item[i].holder].item = i

\* leaseUntil passes after the holder died; nothing renews an extraction lease,
\* so it also passes, at most MaxStalls times, under a slow holder.
LeaseExpires(i) ==
    /\ item[i].lease = "live"
    /\ ~ Extracting(i)
    /\ Set(i, [item[i] EXCEPT !.lease = "passed"])
    /\ UNCHANGED <<batchVars, problemVars, worker, req, bounds>>

LeaseOverrun(i) ==
    /\ item[i].lease = "live"
    /\ Extracting(i)
    /\ stalls < MaxStalls
    /\ stalls' = stalls + 1
    /\ Set(i, [item[i] EXCEPT !.lease = "passed"])
    /\ UNCHANGED <<batchVars, problemVars, worker, req, crashes>>

-----------------------------------------------------------------------------
(* The review endpoints: _load_owned_batch, then one repository call *)

\* The handler has read an active, unexpired batch.
Begin(r, kind, locals) ==
    /\ kind \in RequestKinds
    /\ req[r].pc = "idle"
    /\ batch = "active"
    /\ ~ expired
    /\ req' = [req EXCEPT ![r] = locals]

Finish(r) == req' = [req EXCEPT ![r] = [IdleRequest EXCEPT !.pc = "done"]]

ReviewBegin(r) ==
    /\ \E kind \in Kinds \ {"submit"}, i \in Items :
          Begin(r, kind, [IdleRequest EXCEPT !.pc = kind, !.item = i])
    /\ UNCHANGED <<batchVars, item, problemVars, worker, bounds>>

\* update_item_draft: no condition on the item's status.
update_item_draft(r) ==
    /\ req[r].pc = "edit"
    /\ Finish(r)
    /\ \E d \in EditedDrafts : Set(req[r].item, [item[req[r].item] EXCEPT !.draft = d])
    /\ UNCHANGED <<batchVars, problemVars, worker, bounds>>

\* The statuses mark_item_deleted tries, in this order.
DeletableStatuses == <<"queued", "extracting", "ready", "failed", "submit-failed">>

\* Mutant: a reservation does not protect its item.
NotProtected(i) == FALSE

\* The negation of live_reservation_block.
Protected(i) == item[i].reservation = "live"

\* One conditional update of mark_item_deleted; the first that matches ends it.
mark_item_deleted(r) ==
    LET i == req[r].item
        n == req[r].attempt
        matches == item[i].status = DeletableStatuses[n] /\ ~ Protected(i)
    IN  /\ req[r].pc = "delete"
        /\ IF matches
           THEN Set(i, [item[i] EXCEPT !.previousStatus = item[i].status, !.status = "deleted"])
           ELSE UNCHANGED item
        /\ IF matches \/ n = 5
           THEN Finish(r)
           ELSE req' = [req EXCEPT ![r] = [@ EXCEPT !.attempt = n + 1]]
        /\ UNCHANGED <<batchVars, problemVars, worker, bounds>>

\* undo_item_deletion: its read and its conditional write test the same fields.
undo_item_deletion(r) ==
    LET i == req[r].item
    IN  /\ req[r].pc = "undo"
        /\ Finish(r)
        /\ IF item[i].status = "deleted" /\ item[i].previousStatus # "none"
           THEN Set(i, [item[i] EXCEPT !.status = item[i].previousStatus,
                                       !.previousStatus = "none"])
           ELSE UNCHANGED item
        /\ UNCHANGED <<batchVars, problemVars, worker, bounds>>

Retryable(i) ==
    \/ item[i].status \in {"failed", "submit-failed"}
    \/ item[i].status = "extracting" /\ item[i].lease = "passed"

\* reset_item_for_retry of an item that has no confirmed variant source.
reset_item_for_retry(r) ==
    LET i == req[r].item
    IN  /\ req[r].pc = "retry"
        /\ Finish(r)
        /\ IF Retryable(i)
           THEN Set(i, [item[i] EXCEPT !.status = "queued",
                                       !.holder = NoWorker, !.lease = "none"])
           ELSE UNCHANGED item
        /\ UNCHANGED <<batchVars, problemVars, worker, bounds>>

\* delete_batch_image: the image and every item of it, in one update that looks
\* at no status, no lease and no reservation.
delete_batch_image(r) ==
    LET image == ImageOf[req[r].item]
    IN  /\ req[r].pc = "delete-image"
        /\ Finish(r)
        /\ deletedImages' = deletedImages \union {image}
        /\ item' = [i \in Items |-> IF ImageOf[i] = image
                                    THEN [item[i] EXCEPT !.status = "deleted"]
                                    ELSE item[i]]
        /\ UNCHANGED <<batch, expired, problemVars, worker, bounds>>

-----------------------------------------------------------------------------
(* The submission *)

\* The locals of request r when it moves on to its next reserved item, or to
\* the recording of the outcomes when there is none.
NextItem(locals) ==
    LET rest == {i \in locals.reserved : locals.outcome[i] = "none"}
    IN  IF rest = {} THEN [locals EXCEPT !.pc = "complete"]
                     ELSE [locals EXCEPT !.pc = "renew", !.item = Min(rest)]

\* The drafts are checked before anything is created: one non-compliant draft
\* fails the request, and only the non-compliant items get an outcome.
CheckDrafts(locals) ==
    LET bad == {i \in locals.reserved : locals.draft[i] = "non-compliant"}
    IN  IF bad = {}
        THEN NextItem(locals)
        ELSE [locals EXCEPT !.pc = "complete",
                            !.outcome = [i \in Items |-> IF i \in bad THEN "failed" ELSE "none"]]

\* submit_batch up to the reservations: candidates and drafts are read here.
SubmitRead(r) ==
    LET candidates == {i \in Items : item[i].status = "ready"}
        locals == [IdleRequest EXCEPT
                      !.todo = candidates,
                      !.draft = [i \in Items |-> IF i \in candidates
                                                 THEN item[i].draft ELSE "empty"]]
    IN  /\ Begin(r, "submit", IF candidates = {}
                              THEN [locals EXCEPT !.pc = "complete"]
                              ELSE [locals EXCEPT !.pc = "reserve"])
        /\ UNCHANGED <<batchVars, item, problemVars, worker, bounds>>

\* The filter of reserve_items_for_original_submit.
Reservable(i) ==
    /\ batch = "active"
    /\ item[i].status = "ready"
    /\ item[i].reservation # "live"

\* reserve_items_for_original_submit, one item.
Reserve(r) ==
    LET i == Min(req[r].todo)
        rest == req[r].todo \ {i}
        reserved == IF Reservable(i) THEN req[r].reserved \union {i} ELSE req[r].reserved
        locals == [req[r] EXCEPT !.todo = rest, !.reserved = reserved]
    IN  /\ req[r].pc = "reserve"
        /\ IF Reservable(i)
           THEN Set(i, [item[i] EXCEPT !.token = r, !.reservation = "live"])
           ELSE UNCHANGED item
        /\ req' = [req EXCEPT ![r] = IF rest = {} THEN CheckDrafts(locals) ELSE locals]
        /\ UNCHANGED <<batchVars, problemVars, worker, bounds>>

\* The filter of renew_submit_reservation; the deadline it moves is still live.
Renewed(r) ==
    LET i == req[r].item
    IN  /\ batch = "active"
        /\ ~ expired
        /\ item[i].status # "deleted"
        /\ item[i].token = r
        /\ item[i].reservation = "live"

Goto(r, pc) == req' = [req EXCEPT ![r] = [@ EXCEPT !.pc = pc]]

\* The item gets its outcome, the problem created or "failed".
Conclude(r, outcome) ==
    req' = [req EXCEPT ![r] = NextItem([@ EXCEPT !.found = NoRequest,
                                                 !.outcome[req[r].item] = outcome])]

\* The proof of ownership before the side effect.
Renew(r) ==
    /\ req[r].pc = "renew"
    /\ IF Renewed(r) THEN Goto(r, "lookup") ELSE Conclude(r, "failed")
    /\ UNCHANGED <<batchVars, item, problemVars, worker, bounds>>

\* Mutant: the origin of existing problems is not looked at.
NoLookup(i) == {}

\* The problems _build_origin_query finds.
Existing(i) == problems[i]

\* create_problem_from_draft up to its guard: required fields, then the lookup.
Lookup(r) ==
    LET i == req[r].item
    IN  /\ req[r].pc = "lookup"
        /\ IF Incomplete(req[r].draft[i])
           THEN Conclude(r, "failed")
           ELSE \/ /\ Existing(i) = {}
                   /\ Goto(r, "guard")
                \/ \E p \in Existing(i) :
                      req' = [req EXCEPT ![r] = [@ EXCEPT !.pc = "guard", !.found = p]]
        /\ UNCHANGED <<batchVars, item, problemVars, worker, bounds>>

\* ownership_guard, awaited before any write on either path.
Guard(r) ==
    /\ req[r].pc = "guard"
    /\ IF Renewed(r)
       THEN Goto(r, IF req[r].found = NoRequest THEN "insert" ELSE "enqueue")
       ELSE Conclude(r, "failed")
    /\ UNCHANGED <<batchVars, item, problemVars, worker, bounds>>

Insert(r) ==
    LET i == req[r].item
    IN  /\ req[r].pc = "insert"
        /\ problems' = [problems EXCEPT ![i] = @ \union {r}]
        /\ req' = [req EXCEPT ![r] = [@ EXCEPT !.pc = "enqueue", !.found = r]]
        /\ UNCHANGED <<batchVars, item, tasks, worker, bounds>>

\* enqueue_solution_generation_task_for_problem, which is idempotent.
Enqueued(r, i) == tasks[i] \union {req[r].found}

Enqueue(r) ==
    LET i == req[r].item
    IN  /\ req[r].pc = "enqueue"
        /\ tasks' = [tasks EXCEPT ![i] = Enqueued(r, i)]
        /\ Goto(r, "confirm")
        /\ UNCHANGED <<batchVars, item, problems, worker, bounds>>

\* The insertion, the enqueueing or the tags of a new problem fail: the problem
\* is deleted, unless that fails too, and the item is concluded as failed.
CreateFails(r) ==
    LET i == req[r].item
    IN  /\ \/ req[r].pc = "insert"
           \/ req[r].pc \in {"enqueue", "confirm"} /\ req[r].found = r
        /\ crashes < MaxCrashes
        /\ crashes' = crashes + 1
        /\ problems' \in {problems, [problems EXCEPT ![i] = @ \ {r}]}
        /\ Conclude(r, "failed")
        /\ UNCHANGED <<batchVars, item, tasks, worker, stalls>>

\* The proof of ownership after the side effect.
Confirm(r) ==
    /\ req[r].pc = "confirm"
    /\ Conclude(r, IF Renewed(r) THEN req[r].found ELSE "failed")
    /\ UNCHANGED <<batchVars, item, problemVars, worker, bounds>>

\* Mutant: the outcome is recorded whatever the item's status.
RecordsOnAnyItem(r, i) == req[r].outcome[i] # "none"

\* The outcomes that are recorded: not on an item deleted meanwhile.
Recorded(r, i) == req[r].outcome[i] # "none" /\ item[i].status # "deleted"

\* Every item that is not deleted is submitted, and there is one.
AllSubmitted(r, items) ==
    /\ \A i \in Items : items[i].status \in {"deleted", "submitted"}
    /\ \E i \in Items : items[i].status = "submitted"

\* Mutant: every item this submission once reserved is taken for its own.
OnceReserved(r, i) == i \in req[r].reserved

\* The reservation still carries this submission's token, live or passed.
Holds(r, i) == item[i].token = r

\* Mutant: the token is cleared and the deadline is left.
KeepsDeadline(i) == [item[i] EXCEPT !.token = NoRequest]

\* variation.submitReservation set to None.
Released(i) == [item[i] EXCEPT !.token = NoRequest, !.reservation = "none"]

\* What submit_items_and_complete_batch makes of one item.
Outcome(r, i) ==
    LET submitted == req[r].outcome[i] # "failed"
    IN  IF ~ Holds(r, i) THEN item[i]
        ELSE IF ~ Recorded(r, i) THEN Released(i)
        ELSE [Released(i) EXCEPT
                 !.status = IF submitted THEN "submitted" ELSE "submit-failed",
                 !.problem = IF submitted THEN req[r].outcome[i] ELSE NoRequest]

\* submit_items_and_complete_batch: read, compute and write are one step since
\* the write only lands on the revision read, which every writer advances.
Complete(r) ==
    LET items == [i \in Items |-> Outcome(r, i)]
    IN  /\ req[r].pc = "complete"
        /\ Finish(r)
        /\ item' = items
        /\ batch' = IF AllSubmitted(r, items) THEN "completed" ELSE batch
        /\ UNCHANGED <<expired, deletedImages, problemVars, worker, bounds>>

\* A database call of the request raises, or its process dies.
RequestCrash(r) ==
    /\ req[r].pc \notin {"idle", "done"}
    /\ crashes < MaxCrashes
    /\ crashes' = crashes + 1
    /\ Finish(r)
    /\ UNCHANGED <<batchVars, item, problemVars, worker, stalls>>

-----------------------------------------------------------------------------
(* Time *)

Submitting(i) == item[i].token # NoRequest /\ req[item[i].token].pc # "done"

\* A reservation whose submission died runs out; at most MaxStalls times one
\* also runs out under a submission that takes longer than its ten minutes.
ReservationExpires(i) ==
    /\ item[i].reservation = "live"
    /\ ~ Submitting(i)
    /\ Set(i, [item[i] EXCEPT !.reservation = "passed"])
    /\ UNCHANGED <<batchVars, problemVars, worker, req, bounds>>

ReservationOverrun(i) ==
    /\ item[i].reservation = "live"
    /\ Submitting(i)
    /\ stalls < MaxStalls
    /\ stalls' = stalls + 1
    /\ Set(i, [item[i] EXCEPT !.reservation = "passed"])
    /\ UNCHANGED <<batchVars, problemVars, worker, req, crashes>>

BatchExpires ==
    /\ ~ expired
    /\ expired' = TRUE
    /\ UNCHANGED <<batch, deletedImages, item, problemVars, worker, req, bounds>>

Review(r) ==
    \/ ReviewBegin(r)
    \/ update_item_draft(r) \/ mark_item_deleted(r) \/ undo_item_deletion(r)
    \/ reset_item_for_retry(r) \/ delete_batch_image(r)

Submit(r) ==
    \/ SubmitRead(r) \/ Reserve(r) \/ Renew(r) \/ Lookup(r) \/ Guard(r)
    \/ Insert(r) \/ Enqueue(r) \/ CreateFails(r) \/ Confirm(r) \/ Complete(r)

Step(w) == Scan(w) \/ ClaimItem(w) \/ Extract(w)

Next ==
    \/ \E r \in Requests : Review(r) \/ Submit(r) \/ RequestCrash(r)
    \/ \E w \in Workers : Step(w) \/ WorkerDies(w) \/ WorkerCrash(w)
    \/ \E i \in Items : LeaseExpires(i) \/ LeaseOverrun(i)
                        \/ ReservationExpires(i) \/ ReservationOverrun(i)
    \/ BatchExpires

Spec == Init /\ [][Next]_vars

(***************************************************************************)
(* Fairness.  A polling loop that has not ended goes on and every call it  *)
(* awaits returns; an abandoned lease runs out because time passes.        *)
(* Nothing is assumed of requests, crashes or stalls, nor of the restart   *)
(* of a loop that has ended.                                               *)
(***************************************************************************)
Fairness ==
    /\ \A w \in Workers : WF_vars(Step(w))
    /\ \A i \in Items : WF_vars(LeaseExpires(i))

FairSpec == Spec /\ Fairness

-----------------------------------------------------------------------------
(* Properties *)

RequestPcs == (Kinds \ {"submit"}) \union {"idle", "reserve", "renew", "lookup", "guard",
              "insert", "enqueue", "confirm", "complete", "done"}
Outcomes == Requests \union {"none", "failed"}
ItemRecords ==
    [status : ItemState, previousStatus : ItemState \union {"none"}, draft : Drafts,
     holder : Workers \union {NoWorker}, lease : Deadlines,
     token : ProblemIds, reservation : Deadlines, problem : ProblemIds]
WorkerLocals == [pc : {"idle", "dead", "claim", "extract"}, todo : SUBSET Items, item : Items]
RequestLocals ==
    [pc : RequestPcs, item : Items, attempt : 1 .. 5, todo : SUBSET Items,
     reserved : SUBSET Items, draft : [Items -> Drafts], found : ProblemIds,
     outcome : [Items -> Outcomes]]

\* Every variable holds a value the code could have stored there; a lease has a
\* holder and a reservation a token, and a submitted item names its problem.
TypeOK ==
    /\ batch \in {"active", "completed"}
    /\ expired \in BOOLEAN
    /\ deletedImages \subseteq Images
    /\ item \in [Items -> ItemRecords]
    /\ problems \in [Items -> SUBSET Requests]
    /\ tasks \in [Items -> SUBSET Requests]
    /\ worker \in [Workers -> WorkerLocals]
    /\ req \in [Requests -> RequestLocals]
    /\ crashes \in 0 .. MaxCrashes /\ stalls \in 0 .. MaxStalls
    /\ \A i \in Items :
          /\ item[i].holder = NoWorker <=> item[i].lease = "none"
          /\ item[i].token = NoRequest <=> item[i].reservation = "none"
          /\ item[i].status = "submitted" => item[i].problem # NoRequest

\* However often an item is submitted, by overlapping requests or again after a
\* crash, it has one problem; when it is submitted that problem is stored and has
\* its solution task, also when an earlier submission created the problem and
\* died before enqueueing it, or deletes it because its own enqueueing failed.
AdmittedOnce ==
    \A i \in Items :
        /\ Cardinality(problems[i]) <= 1
        /\ item[i].status = "submitted" =>
              item[i].problem \in problems[i] /\ item[i].problem \in tasks[i]

\* A deleted item comes back only as what it was when it was deleted: neither a
\* late extraction result nor a late submission outcome revives it.
DeletedUnlessUndone ==
    [][\A i \in Items :
          item[i].status = "deleted" =>
              item'[i].status \in {"deleted", item[i].previousStatus}]_vars

\* A submitted item keeps its problem, and only the deletion of its image takes
\* it out of the submitted state: a slower submission that had read it as ready
\* does not record a failure over it.
SubmissionIsFinal ==
    [][\A i \in Items :
          item[i].status = "submitted" =>
              /\ item'[i].problem = item[i].problem
              /\ item'[i].status = "submitted" \/ ImageOf[i] \in deletedImages']_vars

\* While a submission holds a live reservation, the review endpoints cannot take
\* its item away, except by deleting the whole image.
ReservationProtects ==
    [][\A i \in Items :
          item[i].reservation = "live" /\ item'[i].status # item[i].status =>
              \/ ImageOf[i] \in deletedImages'
              \/ item'[i].status \in {"submitted", "submit-failed"}]_vars

\* What the learner edited on a ready item is what stays there: no extraction
\* result, however late, replaces it.
ReviewedDraftKept ==
    [][\A i \in Items :
          item[i].status \in {"ready", "submitted"} =>
              item'[i].draft \in {item[i].draft} \union EditedDrafts]_vars

\* As long as some worker's loop lives, every item of an active batch leaves the
\* extraction queue, despite a worker that dies with it, a loop that ended, a
\* lease that is overrun, and undone deletions.
ExtractionEnds ==
    \A i \in Items :
        (batch = "active" /\ item[i].status \in {"queued", "extracting"}) ~>
            \/ batch # "active" \/ item[i].status \notin {"queued", "extracting"}
            \/ \A w \in Workers : worker[w].pc = "dead"

-----------------------------------------------------------------------------
(* What the repository says, and the code does not do (see the README) *)

\* submit_batch: if the reservation was lost while creation ran (stall, item
\* deletion, batch expiry), nothing is written.
LostReservationLeavesNoProblem ==
    \A r \in Requests, i \in Items : req[r].outcome[i] = "failed" => r \notin problems[i]

=============================================================================

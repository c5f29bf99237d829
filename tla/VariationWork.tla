--------------------------- MODULE VariationWork ---------------------------
(***************************************************************************)
(* One item of an ingestion batch in variant mode: the learner confirms    *)
(* the extracted source, the variation workers generate a candidate and    *)
(* validate it under a lease, the learner edits, revalidates, attests,     *)
(* deletes and restores, and a submission admits the approved candidate as *)
(* a problem in one transaction.                                           *)
(*                                                                         *)
(* Every conditional update is one step, taken with the revision its       *)
(* caller last saw; workers and the requests of several steps keep what    *)
(* they read in local variables.  Items share nothing but the batch's      *)
(* status, so one is enough.  A claim token is the worker that holds it,   *)
(* leaseUntil whether it has passed.                                       *)
(***************************************************************************)
EXTENDS VariantAssessment

CONSTANTS
    Workers,        \* the concurrent slots of the running variation workers
    NoWorker,       \* no claim
    Undos, Submits, \* the undo and submit requests under way at a time
    MaxRevision,    \* bound on contentRevision
    MaxFaults       \* bound on crashes, failed extractions and database calls, and
                    \* leases that pass while their holder still runs

ASSUME NobodyAssumption == NoWorker \notin Workers
ASSUME BoundsAssumption == MaxRevision \in Nat /\ MaxFaults \in Nat

VARIABLES
    batch,          \* the batch's status, "expired" once its expiresAt has passed
    status,         \* the item's status
    previousStatus, \* what undo restores
    draft,          \* the source in the item's draft
    revision,       \* contentRevision
    variation,      \* the item's variation
    problems,       \* the problems admitted from the item
    tasks,          \* those with a solution generation task
    worker,         \* what each worker slot holds in its local variables
    undo, submit,   \* what each request holds in its local variables
    faults

itemVars == <<status, previousStatus, draft, revision>>
problemVars == <<problems, tasks>>
requests == <<undo, submit>>
vars == <<batch, itemVars, variation, problemVars, worker, requests, faults>>

NoRevision == -1
Revisions == 0 .. MaxRevision

\* The variation of a new item.
NotRequested ==
    [status |-> "not-requested", original |-> NoSource, candidate |-> NoCandidate,
     validation |-> NoValidation, validatedRevision |-> NoRevision,
     attestation |-> NoRevision, holder |-> NoWorker, lease |-> "none"]

IdleWorker == [pc |-> "idle", revision |-> 0, original |-> NoSource,
               candidate |-> NoCandidate, lost |-> FALSE]
IdleUndo == [pc |-> "idle", previous |-> "none", variation |-> NotRequested]

Init ==
    /\ batch = "active"
    /\ status = "extracting"
    /\ previousStatus = "none"
    /\ draft = NoSource
    /\ revision = 0
    /\ variation = NotRequested
    /\ problems = {}
    /\ tasks = {}
    /\ worker = [w \in Workers |-> IdleWorker]
    /\ undo = [r \in Undos |-> IdleUndo]
    /\ submit = [r \in Submits |-> "idle"]
    /\ faults = 0

-----------------------------------------------------------------------------
(* The conditions the writers share *)

\* _ITEM_ACTIONABLE_PREDICATE.
Actionable == status \notin {"deleted", "submitted"}
InFlight == variation.status \in VARIATION_IN_FLIGHT

\* $inc contentRevision.
NextRevision == revision + 1

-----------------------------------------------------------------------------
(* Extraction, of which BatchItems has the queue and the leases: here an item *)
(* being extracted, queued for it or claimed, gets a result that may land.    *)

\* save_item_extraction_success: not over a confirmed source.
Extracted ==
    /\ status = "extracting"
    /\ variation.status = "not-requested"
    /\ status' = "ready"
    /\ draft' \in Sources
    /\ UNCHANGED <<batch, previousStatus, revision, variation, problemVars,
                   worker, requests, faults>>

\* save_item_extraction_failure: over a confirmed source as well.
ExtractionFails ==
    /\ status = "extracting"
    /\ faults < MaxFaults
    /\ faults' = faults + 1
    /\ status' = "failed"
    /\ UNCHANGED <<batch, previousStatus, draft, revision, variation, problemVars,
                   worker, requests>>

-----------------------------------------------------------------------------
(* The review endpoints *)

\* _load_owned_batch: the batch is active and has not expired.
Open == batch = "active"

\* The element match on contentRevision, with the revision the learner saw.
Current(seen) == Open /\ Actionable /\ seen = revision

\* Mutant: the lease of the claim that is given up stays.
KeepsLease(v) == [v EXCEPT !.holder = NoWorker]

\* claimToken and leaseUntil set to None.
Unclaimed(v) == [v EXCEPT !.holder = NoWorker, !.lease = "none"]

\* The approval pointer and the attestation set to None.
Unapproved(v) == [v EXCEPT !.validatedRevision = NoRevision, !.attestation = NoRevision]

\* request_variation_generation: the confirmed source also becomes the draft.
\* Nothing asks whether the item is extracted.
request_variation_generation(seen) ==
    /\ Current(seen)
    /\ ~ InFlight
    /\ revision < MaxRevision
    /\ revision' = NextRevision
    /\ draft' \in Sources
    /\ variation' = [NotRequested EXCEPT !.status = "queued", !.original = draft']
    /\ UNCHANGED <<batch, status, previousStatus, problemVars, worker, requests, faults>>

\* update_item_draft_variant: a semantic change of the source (any other is
\* invisible here) discards the variation, in flight or not.
update_item_draft_variant(seen) ==
    /\ Current(seen)
    /\ revision < MaxRevision
    /\ revision' = NextRevision
    /\ draft' \in Sources \ {draft}
    /\ variation' = NotRequested
    /\ UNCHANGED <<batch, status, previousStatus, problemVars, worker, requests, faults>>

\* What an edit makes of the candidate: one made of nothing has no generator.
Edited ==
    [of : {variation.original}, written : {revision + 1},
     shape : IF variation.candidate = NoCandidate THEN {"malformed"} ELSE Shapes]

\* Mutant: an edit leaves the approval.
EditKeepsApproval(v) == [v EXCEPT !.status = "ready"]

Invalidated(v) == [Unapproved(v) EXCEPT !.status = "needs-validation"]

\* edit_variation_candidate, a semantic change: the stored report stays.
edit_variation_candidate(seen) ==
    /\ Current(seen)
    /\ variation.status \in {"ready", "needs-validation", "failed"}
    /\ revision < MaxRevision
    /\ revision' = NextRevision
    /\ \E candidate \in Edited :
          variation' = [Invalidated(variation) EXCEPT !.candidate = candidate]
    /\ UNCHANGED <<batch, status, previousStatus, draft, problemVars,
                   worker, requests, faults>>

\* request_variation_revalidation: the revision stays.
request_variation_revalidation(seen) ==
    /\ Current(seen)
    /\ variation.status = "needs-validation"
    /\ variation' = [Unclaimed(Unapproved(variation)) EXCEPT
                        !.status = "queued", !.validation = NoValidation]
    /\ UNCHANGED <<batch, itemVars, problemVars, worker, requests, faults>>

attest_variation_validation(seen) ==
    /\ Current(seen)
    /\ Attestable(variation.status, variation.validation)
    /\ variation' = [variation EXCEPT !.status = "ready", !.attestation = seen]
    /\ UNCHANGED <<batch, itemVars, problemVars, worker, requests, faults>>

\* reset_item_for_retry: a confirmed source is never extracted again.
reset_item_for_retry ==
    /\ Open
    /\ status = "failed"
    /\ variation.original = NoSource
    /\ status' = "extracting"
    /\ UNCHANGED <<batch, previousStatus, draft, revision, variation,
                   problemVars, worker, requests, faults>>

\* mark_item_deleted: the variation stays as it is.
mark_item_deleted ==
    /\ Open
    /\ Actionable
    /\ status' = "deleted"
    /\ previousStatus' = status
    /\ UNCHANGED <<batch, draft, revision, variation, problemVars, worker, requests, faults>>

\* Cancelled work is queued again, whatever its phase was, without its claim.
Requeued(v) == [Unclaimed(v) EXCEPT !.status = "queued"]

\* undo_item_deletion reads the item, and prepares the variation it will store
\* when work was in flight (NotRequested: none) ...
UndoRead(r) ==
    /\ Open
    /\ status = "deleted"
    /\ undo[r].pc = "idle"
    /\ undo' = [undo EXCEPT ![r] = [pc |-> "write", previous |-> previousStatus,
                   variation |-> IF InFlight THEN Requeued(variation) ELSE NotRequested]]
    /\ UNCHANGED <<batch, itemVars, variation, problemVars, worker, submit, faults>>

\* ... and writes it, the whole variation included.
undo_item_deletion(r) ==
    /\ undo[r].pc = "write"
    /\ undo' = [undo EXCEPT ![r] = IdleUndo]
    /\ IF status = "deleted" /\ previousStatus = undo[r].previous
       THEN /\ status' = previousStatus
            /\ previousStatus' = "none"
            /\ variation' = IF undo[r].variation = NotRequested
                            THEN variation ELSE undo[r].variation
       ELSE UNCHANGED <<status, previousStatus, variation>>
    /\ UNCHANGED <<batch, draft, revision, problemVars, worker, submit, faults>>

-----------------------------------------------------------------------------
(* The variation worker *)

\* Mutant: work whose worker died is never claimed again.
ClaimsQueuedOnly == variation.status = "queued"

\* _is_variation_claimable and the element match of claim_variation_work.
Claimable == variation.status = "queued" \/ (InFlight /\ variation.lease = "passed")

Active == batch = "active" /\ Actionable

\* Mutant: a claim always starts from the generation.
AlwaysGenerating == "generating"

\* A stored candidate is validated, not generated again.
Target == IF variation.candidate = NoCandidate THEN "generating" ELSE "validating"

\* claim_next_variation_work, whose preliminary reads only choose what the
\* conditional update of claim_variation_work tests again.
claim_variation_work(w) ==
    LET target == Target
    IN  /\ worker[w].pc = "idle"
        /\ Active
        /\ Claimable
        /\ variation' = [variation EXCEPT !.status = target, !.holder = w, !.lease = "live"]
        /\ worker' = [worker EXCEPT ![w] =
               [pc |-> IF target = "generating" THEN "generate" ELSE "renew",
                revision |-> revision, original |-> variation.original,
                candidate |-> variation.candidate, lost |-> FALSE]]
        /\ UNCHANGED <<batch, itemVars, problemVars, requests, faults>>

\* Mutant: whatever became of the claim, the write lands.
OwnedByAnyone(w) == Active

\* The filter of renew_variation_lease: a claim is owned while its lease lives.
Owned(w) ==
    /\ Active
    /\ variation.holder = w
    /\ variation.lease = "live"
    /\ variation.status \in {"generating", "validating"}

\* The filters of the checkpoint and of the result.
Fenced(w) == Owned(w) /\ worker[w].revision = revision

Leave(w) == worker' = [worker EXCEPT ![w] = IdleWorker]

\* save_variation_result: lands, or is discarded.
SaveResult(w, validation, candidatePresent) ==
    IF Fenced(w)
    THEN variation' = [Unclaimed(variation) EXCEPT
             !.status = StatusOf(validation, candidatePresent),
             !.validation = validation,
             !.validatedRevision = IF Pass(validation) THEN worker[w].revision ELSE @]
    ELSE UNCHANGED variation

\* A source that fails the preflight, or a generator that raises.
GenerateFails(w) ==
    LET rejected == source_graph_dsl_preflight(worker[w].original)
        failures == IF rejected # {} THEN rejected ELSE {"execution"}
    IN  /\ worker[w].pc = "generate"
        /\ SaveResult(w, Validation(failures, NoCandidate, FALSE), FALSE)
        /\ Leave(w)
        /\ UNCHANGED <<batch, itemVars, problemVars, requests, faults>>

\* The generator returns; a result under a lost lease is discarded.  Otherwise
\* save_variation_candidate_checkpoint stores it before anything validates it.
Checkpoint(w) ==
    LET of == worker[w].original
    IN  /\ worker[w].pc = "generate"
        /\ source_graph_dsl_preflight(of) = {}
        /\ IF Fenced(w) /\ variation.status = "generating" /\ ~ worker[w].lost
           THEN \E shape \in GeneratedShapes :
                   LET candidate == [of |-> of, written |-> worker[w].revision,
                                     shape |-> shape]
                   IN  /\ variation' = [variation EXCEPT !.status = "validating",
                                                         !.candidate = candidate]
                       /\ worker' = [worker EXCEPT ![w].pc = "renew",
                                                   ![w].candidate = candidate]
           ELSE UNCHANGED variation /\ Leave(w)
        /\ UNCHANGED <<batch, itemVars, problemVars, requests, faults>>

\* The renewals before the validators are called.
Renew(w) ==
    /\ worker[w].pc = "renew"
    /\ IF Owned(w) THEN worker' = [worker EXCEPT ![w].pc = "validate"] ELSE Leave(w)
    /\ UNCHANGED <<batch, itemVars, variation, problemVars, requests, faults>>

\* _run_with_lease_heartbeat: a renewal refused during a model call; one that
\* is granted finds the lease alive and leaves it so.
HeartbeatRefused(w) ==
    /\ worker[w].pc \in {"generate", "validate"}
    /\ ~ Owned(w)
    /\ ~ worker[w].lost
    /\ worker' = [worker EXCEPT ![w].lost = TRUE]
    /\ UNCHANGED <<batch, itemVars, variation, problemVars, requests, faults>>

\* generate_and_validate returns, or the stored candidate does not parse.
Validate(w) ==
    /\ worker[w].pc = "validate"
    /\ \E validation \in Validations(worker[w].original, worker[w].candidate) :
          IF worker[w].lost THEN UNCHANGED variation
          ELSE SaveResult(w, validation, TRUE)
    /\ Leave(w)
    /\ UNCHANGED <<batch, itemVars, problemVars, requests, faults>>

\* claim_next_variation_work raises: nothing catches it, so the worker's loop
\* ends, and main logs and raises it again.  Attempts under way run on, so a slot
\* that is busy ends after its attempt, each slot of the loop by a step of its own.
WorkerDies(w) ==
    /\ worker[w].pc = "idle"
    /\ faults < MaxFaults
    /\ faults' = faults + 1
    /\ worker' = [worker EXCEPT ![w].pc = "dead"]
    /\ UNCHANGED <<batch, itemVars, variation, problemVars, requests>>

\* A database call of the attempt raises, or the process dies and restarts,
\* which is also what starts a loop again that has ended.
WorkerCrash(w) ==
    /\ worker[w].pc # "idle"
    /\ faults < MaxFaults
    /\ faults' = faults + 1
    /\ Leave(w)
    /\ UNCHANGED <<batch, itemVars, variation, problemVars, requests>>

Busy(w) == worker[w].pc \notin {"idle", "dead"}
Working == variation.holder # NoWorker /\ Busy(variation.holder)

\* leaseUntil passes because its holder died, or although the holder still runs,
\* when its heartbeats do not get through in time.
LeaseExpires ==
    /\ variation.lease = "live"
    /\ ~ Working
    /\ variation' = [variation EXCEPT !.lease = "passed"]
    /\ UNCHANGED <<batch, itemVars, problemVars, worker, requests, faults>>

LeaseOverrun ==
    /\ variation.lease = "live"
    /\ Working
    /\ faults < MaxFaults
    /\ faults' = faults + 1
    /\ variation' = [variation EXCEPT !.lease = "passed"]
    /\ UNCHANGED <<batch, itemVars, problemVars, worker, requests>>

-----------------------------------------------------------------------------
(* The submission *)

\* _submit_variant_batch looks for admissible items in the batch it read.
SubmitRead(r) ==
    /\ Open
    /\ submit[r] = "idle"
    /\ submit' = [submit EXCEPT ![r] =
           IF status = "ready" /\ Admissible(variation, revision) THEN "admit" ELSE "complete"]
    /\ UNCHANGED <<batch, itemVars, variation, problemVars, worker, undo, faults>>

\* Mutant: the status of the item is not read again in the transaction.
AdmitsSelected == batch # "completed" /\ Admissible(variation, revision)

\* _check_admission_guards on the batch read inside the transaction; that it
\* has not expired is judged by the time the request began.
AdmissionGuards ==
    batch # "completed" /\ status = "ready" /\ Admissible(variation, revision)

\* What the transaction records in the item.
record_variant_item_submission ==
    /\ status' = "submitted"
    /\ UNCHANGED <<previousStatus, draft, revision>>

\* admit_variant_item: the problem, the item's outcome and the solution task
\* are one transaction, which only commits on the state it read.
admit_variant_item(r) ==
    /\ submit[r] = "admit"
    /\ submit' = [submit EXCEPT ![r] = "complete"]
    /\ IF AdmissionGuards /\ Freezable(variation.candidate)
       THEN /\ problems' = problems \union
               {[id |-> Cardinality(problems) + 1, content |-> variation.candidate]}
            /\ tasks' = problems'
            /\ record_variant_item_submission
       ELSE UNCHANGED <<problemVars, itemVars>>
    /\ UNCHANGED <<batch, variation, worker, undo, faults>>

\* complete_variant_batch_if_all_submitted, for the one item.
complete_variant_batch(r) ==
    /\ submit[r] = "complete"
    /\ submit' = [submit EXCEPT ![r] = "idle"]
    /\ batch' = IF status = "submitted" THEN "completed" ELSE batch
    /\ UNCHANGED <<itemVars, variation, problemVars, worker, undo, faults>>

\* A database or storage call of a submission raises, or its process dies.
SubmitCrash(r) ==
    /\ submit[r] # "idle"
    /\ faults < MaxFaults
    /\ faults' = faults + 1
    /\ submit' = [submit EXCEPT ![r] = "idle"]
    /\ UNCHANGED <<batch, itemVars, variation, problemVars, worker, undo>>

BatchExpires ==
    /\ batch = "active"
    /\ batch' = "expired"
    /\ UNCHANGED <<itemVars, variation, problemVars, worker, requests, faults>>

-----------------------------------------------------------------------------
Review(seen) ==
    \/ request_variation_generation(seen) \/ update_item_draft_variant(seen)
    \/ edit_variation_candidate(seen) \/ request_variation_revalidation(seen)
    \/ attest_variation_validation(seen)

Submission(r) == SubmitRead(r) \/ admit_variant_item(r) \/ complete_variant_batch(r)

Work(w) ==
    \/ claim_variation_work(w) \/ GenerateFails(w) \/ Checkpoint(w)
    \/ Renew(w) \/ Validate(w)

Next ==
    \/ Extracted \/ ExtractionFails \/ reset_item_for_retry \/ mark_item_deleted
    \/ \E seen \in 0 .. revision : Review(seen)
    \/ \E r \in Undos : UndoRead(r) \/ undo_item_deletion(r)
    \/ \E r \in Submits : Submission(r) \/ SubmitCrash(r)
    \/ \E w \in Workers : Work(w) \/ HeartbeatRefused(w) \/ WorkerDies(w) \/ WorkerCrash(w)
    \/ LeaseExpires \/ LeaseOverrun
    \/ BatchExpires

Spec == Init /\ [][Next]_vars

(***************************************************************************)
(* Fairness.  A run_variation_worker that has not ended keeps polling,     *)
(* every model call it awaits returns or raises, and an abandoned lease    *)
(* runs out because time passes.  Nothing is assumed of the learner, nor   *)
(* of the restart of a loop that has ended.                                *)
(***************************************************************************)
Fairness ==
    /\ WF_vars(\E w \in Workers : Work(w))
    /\ WF_vars(LeaseExpires)

FairSpec == Spec /\ Fairness

-----------------------------------------------------------------------------
(* Properties *)

Candidates == {NoCandidate} \union [of : Sources, written : Revisions, shape : Shapes]
ValidationSet == [failures : SUBSET (Kinds \union {"none"}), about : Candidates,
                  unanimous : BOOLEAN]
VariationSet ==
    [status : VariationStatus, original : Sources \union {NoSource},
     candidate : Candidates, validation : ValidationSet,
     validatedRevision : Revisions \union {NoRevision},
     attestation : Revisions \union {NoRevision},
     holder : Workers \union {NoWorker}, lease : {"none", "live", "passed"}]
ItemStatus == {"extracting", "ready", "failed", "deleted", "submitted"}
WorkerPcs == {"idle", "dead", "generate", "renew", "validate"}

\* Every variable holds a value the code could have stored there; work in flight
\* has a confirmed source and a claim a deadline.
TypeOK ==
    /\ batch \in {"active", "expired", "completed"}
    /\ status \in ItemStatus
    /\ previousStatus \in ItemStatus \union {"none"}
    /\ draft \in Sources \union {NoSource}
    /\ revision \in Revisions
    /\ variation \in VariationSet
    /\ \A p \in problems : p.content \in Candidates
    /\ worker \in [Workers -> [pc : WorkerPcs, revision : Revisions, lost : BOOLEAN,
                               original : Sources \union {NoSource}, candidate : Candidates]]
    /\ undo \in [Undos -> [pc : {"idle", "write"}, previous : ItemStatus \union {"none"},
                          variation : VariationSet]]
    /\ submit \in [Submits -> {"idle", "admit", "complete"}]
    /\ faults \in 0 .. MaxFaults
    /\ variation.status # "not-requested" <=> variation.original # NoSource
    /\ variation.holder = NoWorker <=> variation.lease = "none"

\* A ready variant is approved as it stands, in exactly one of two ways: all
\* validators found nothing in this very candidate, or the learner attested the
\* current revision over a report without verified defects.
ApprovalIsBacked ==
    variation.status = "ready" =>
        /\ variation.candidate.of = variation.original
        /\ \/ /\ variation.validatedRevision = revision
              /\ variation.attestation = NoRevision
              /\ variation.validation = Validation({}, variation.candidate, TRUE)
           \/ /\ variation.attestation = revision
              /\ variation.validatedRevision = NoRevision
              /\ variation.validation.failures \subseteq {"check", "answer"}

\* The item is submitted exactly when there is a problem of it, one, with its
\* solution task and a graph the whiteboard accepts (admit_variant_item).
AdmittedOnceAndWhole ==
    /\ status = "submitted" <=> problems # {}
    /\ Cardinality(problems) <= 1
    /\ tasks = problems
    /\ \A p \in problems : p.content.shape \notin {"rejected", "malformed"}
    /\ batch = "completed" => problems # {}

\* Once a candidate is stored, a crash, a lost lease or a retried claim resumes
\* with it: it is replaced only at a later revision, or by a restored one.
CheckpointKept ==
    [][\/ variation.candidate = NoCandidate
       \/ variation'.candidate = variation.candidate
       \/ revision' > revision
       \/ status = "deleted" /\ status' # "deleted"]_vars

\* Requested work comes to a verdict or is cancelled while the batch and the item
\* remain open and some worker's loop lives, despite workers that die with it or
\* lose their lease, and loops that end.
VariationSettles ==
    InFlight ~> \/ ~ InFlight \/ ~ Active
                \/ \A w \in Workers : worker[w].pc = "dead"

\* What the review promises, with approval the ready state.
Reviewed ==
    INSTANCE ReviewedVariant WITH
        Contents <- Candidates, Nothing <- NoCandidate, ProblemIds <- {1},
        content <- variation.candidate,
        approved <- IF variation.status = "ready" THEN variation.candidate ELSE NoCandidate,
        published <- problems,
        closed <- FALSE

\* Only what is approved as it stands becomes the problem, however edits,
\* claims, deletions and submissions interleave (ReviewedVariant).
ImplementsReview == Reviewed!Spec

=============================================================================

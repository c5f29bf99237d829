# LearnLoop: models, checks and proofs

LearnLoop keeps a learner's wrong problems and re-tests them. A learner
photographs exercises; a vision model finds the problems and drafts them; the
learner reviews and submits them; a background worker writes a solution for
each; exams and practice sessions are built from the stored problems and graded,
some answers by a model in the background.

The system is one FastAPI process over MongoDB and S3. Its state is documents.
Endpoints and workers interleave at every `await`, the process may stop between
any two writes, and the correctness of nearly everything rests on the conditions
under which one document update matches. These modules model those conditions.

This project holds the modules, their TLC configurations and TLAPS proofs.
`PROJECT.json` lists the runs and maps every definition to the lines it models.
All paths below are under `src/backend/app/` unless said otherwise.

## 1. The system

| part | state it keeps | operations | interacts with |
|---|---|---|---|
| exam lifecycle and grading (`presentation/exams.py`, `exam_grading.py`, `exam_grading_worker.py`) | an exam: state, items with answer and grading, summary; one document per exam in `exam_grading_tasks` | save answer, submit (in the request or queued), discard, self-report; worker: claim, grade, persist, finalize, release | writes `tracking` of problems in a transaction |
| bulk ingestion: images (`presentation/bulk_ingestion.py`, `infrastructure/ingestion/repository.py`) | `batch.images`: status, order, boxes | upload, detect, edit boxes, delete, commit | a commit appends queued items |
| bulk ingestion: items (same files, `extraction_worker.py`, `problem_creation.py`) | `batch.items`: status, draft, lease, submit reservation, problem | extraction worker; edit, delete, undo, retry, submit | creates problems and solution tasks |
| bulk ingestion: variants (`variation_worker.py`, `variant_client.py`, `variant_submission.py`, `domain/ingestion/variation.py`) | `items[].variation`: status, confirmed source, candidate, validation, attestation, lease; `contentRevision` of the item | request, edit, revalidate, attest, delete, undo, work, admit | generator and validator models; admits problems in a transaction |
| solutions (`solution_generation.py`, `solution_worker.py`) | `solution_generation_tasks`, `canonical_solutions` | enqueue, backfill, regenerate; worker with retries and stuck recovery | read by coaching |
| problem-variant sessions (`infrastructure/problem_variants/`, `presentation/problem_variants.py`) | a session document per problem; `_tasks`, the running generations, in memory | create, generate, revalidate, edit, attest, discard, submit with a reservation; the generation task | the same assessment and admission as variant batches; the source problem |
| previews (`presentation/ingestion.py`, `ingestion_workflow.py`) | a preview document per image; `preview_tasks` in memory | upload, extract, poll (with recovery), retry, edit, confirm | creates problems and solution tasks |
| practice, selection and scoring (`presentation/practice.py`, `domain/`) | `problems[].tracking` | choose, answer | shares tracking with exams |
| problems, folders, tags | documents | CRUD | |
| auth, coaching, model clients, graph DSL, storage | sessions; none; none; none; none | | used by the others |
| start and stop (`main.py`) | the worker tasks of the process | backfills, starts four workers, cancels them | |
| batch cleanup (`infrastructure/ingestion/cleanup.py`) | S3 objects of old batches | | scheduled by nothing |

What is hard in each:

* **Exams.** Handlers read the exam, compute for a while (a model call may take
  a minute) and write later, so a save, a submission, a discard, a self-report
  and one or two workers overlap on one document. A worker may outlive its
  lease; a process may die after grading an item and before counting it.
  Correct means: what was answered is what was graded, everything is counted
  once, nothing changes a settled exam, and grading ends.
* **Batch items.** Leases for workers, reservations for submissions, and review
  endpoints that carry neither. A submission makes several writes in four
  collections, without a transaction. Correct means: one problem per item, no
  outcome or result that lands on an item that moved on, and no item stuck.
* **Batch images.** A model call between two writes; commits that number items
  by what they read. Correct means: a late detection neither overwrites the
  learner's boxes nor revives an image, and items agree with boxes.
* **Variants.** A content revision fences results, a checkpoint survives a dead
  worker, an attestation covers one revision only. The learner edits, deletes and
  restores while workers and submissions are under way, and a validator that
  raises must not count as one that found nothing. Correct means: what is
  admitted is approved as it stands, once and with its task, and work settles.
* **Variant sessions.** The same review without leases: a generation is a task of
  the process, replaced by cancelling it, and a cancelled task's last write may
  still land. Submission holds a reservation that other endpoints know of or
  not. Correct means what it means for variants, and that a superseded task
  changes nothing.
* **Previews.** All writes but one are by id alone, decided on an older read;
  a timer, a registry of tasks and the client's polling clean up. Correct means:
  one extraction runs on, no extraction lasts, and a preview that shows as
  confirmed has its problem.
* **Solutions.** A task is claimed by setting its status: nothing identifies
  the claim. Regeneration deletes and resets without looking at the worker.
* **Creation of exams, practice.** A check and an insert that are separate
  without a unique index; a practice answer that writes the whole `tracking` it
  read, over what an exam counted in between.

## 2. Modules

| module | models | checked by | proved in |
|---|---|---|---|
| `ExamGrading` | one exam from its creation to its end | `MCExamGrading` | `ExamGradingProofs` |
| `BatchItems` | the items of one original-mode batch | `MCBatchItems` | `BatchItemsProofs` |
| `BatchImages` | the images of one batch and the items they become | `MCBatchImages` | `BatchImagesProofs` |
| `SolutionTasks` | solution tasks, their worker, enqueueing and regeneration | `MCSolutionTasks` | `SolutionTasksProofs` |
| `VariantAssessment` | the verdict on a generated variant and what follows from it | with the two below | `VariantAssessmentProofs` |
| `VariationWork` | one item of a variant-mode batch | `MCVariationWork` | `VariationWorkProofs` |
| `VariantSession` | one variant session of a problem | `MCVariantSession` | `VariantSessionProofs` |
| `ReviewedVariant` | abstract: what reviewing a variant promises | implemented by the two above | (both refinements, there) |
| `PreviewIngestion` | one ingestion preview | `MCPreviewIngestion` | `PreviewIngestionProofs` |

Conventions they share:

* A step is one database round trip, with the local computation that precedes
  it. A single-document update is atomic and a MongoDB transaction is one step;
  this is what the code relies on and not something it implements. What a
  handler has read and uses later is kept in `req[r]` or `worker[w]`.
* Each request of `Requests` runs once, as any endpoint of `RequestKinds` (in
  `ExamGrading` of those that `RequestKinds` gives it), with any input: two
  overlapping requests may come from two tabs or from a retrying client. The web
  client is thereby covered and has no model of its own.
* A call to a model or to S3 is a nondeterministic outcome.
* Time is an expiry flag: a lease or reservation is absent, live or past.
  It expires once its holder has stopped; it expires under a running holder
  only in `LeaseOverrun`/`ReservationOverrun` (bounded by `MaxStalls`) and in
  `ExamGrading`'s missed refresh (bounded by `MaxFaults`).
* A definition preceded by "Mutant" is a deliberately wrong variant used only
  to confirm that the properties are sensitive to the code's guards.

### ExamGrading

State: `state`, `answer`, `grading`, `summary` are fields of the exam document;
`tracking` the counters of its items' problems (an exam contains a problem at
most once); `task` the exam's grading task (unique by index). `SaveRead` and
`SaveWrite` are the two halves of `save_exam_answer`, which writes the whole
items array it read, under the filter `state = in-progress`. `submit_exam` is split
by whether a model is needed: `_submit_exam_synchronous` grades what it read and
compares answers within its transaction; the other path freezes the exam and
inserts the task in one transaction. `discard_exam` and `self_report_exam_item`
are a read and a later write. A worker is the loop of
`run_exam_grading_worker`: claim or reclaim a task, verify ownership, read, grade
each item, verify again, persist item and partial summary, and finalize.
`ReleaseOnError` is an exception the loop catches, `WorkerDies` one it does not: the
claim, the construction of the model client and the release stand outside its
`try`. `Crash` is a process that dies and restarts, with its worker.

### BatchItems

`item[i]` is one element of `batch.items`; the lease and its token
(`leaseUntil`) are `lease` and `holder`, the reservation
(`variation.submitReservation`) is `reservation` and `token`. `Scan`/`ClaimItem`
are `claim_next_item`, which lists items from one read and claims from that list.
An exception in that claim ends the loop (`WorkerDies`); what it extracts runs on. The
slots of a loop are the workers of the model, so each of them ends by a step of its own
once it is free, and the loop is over when all have.
`mark_item_deleted` tries one status after another, an update each, and is
modelled so (`attempt`). A submission is
`Reserve`, then per item `Renew`, `Lookup`, `Guard`, `Insert`, `Enqueue`, `Confirm`
(`create_problem_from_draft` with its ownership guard), then `Complete`, the
revision-guarded `submit_items_and_complete_batch`; any call may raise, the
compensating deletion too, and the process may stop between any two.

### BatchImages

`image[i]`, `items` and `revision` are the batch document, of which this module
keeps what images decide. A commit is `CommitRead` (the handler's check),
`CommitLoad` (the repository's read) and `commit_image_boxes`, the update under
`_revision_guard`; on a lost race it loads again or gives up. Box lists are
model values with a `Size`: detections and drawings are told apart, which is all
that the properties need. Items are `open` or `deleted` here, BatchItems has
the rest.

### SolutionTasks

`tasks` is the collection in order of `created_at`; a problem may have several,
because no index forbids it. `worker` is the one sequential loop of the process:
`RecoverStuck`, `ClaimTask`, `LoadProblem`, `SaveSolution`, `MarkReady`, or a
failure. `process_after` and the stuck threshold are the flags `due` and `stale`.
`CreateProblem` to `CreateFails` are `create_problem_from_draft` and its enqueueing,
here from the view of the task; the repeated submission of one source is a
second request for the same problem. `Crash` and `Start` are the process,
whose start runs the backfill before it serves. Problems stored before the first
start may already have a solution and no task, as those older than the
collection of tasks do.

### VariantAssessment

The deterministic code both kinds of variant share: what a validator's report
contributes (`assess_report`), disagreement between two (`category_disagreements`),
the failures of models that raised (`extra_failures`), the status a verdict leads
to (`StatusOf`), and the gates of attestation and admission. Of a candidate it
keeps the source it is of, the revision it was written at, and which gates it
passes (`Shapes`); of a report, whether its checks pass and how its answers
compare. `ValidatorRuns` is what any outcome of the configured validators amounts to.
`unanimous`, whether every validator reported and found nothing, is computed
from the outcomes and not from the failures, so that `ApprovalIsBacked` can
compare the two.

### VariationWork

The item's own `status`, `draft` and `contentRevision` beside its `variation`.
The repository's conditional updates (`request_variation_generation`,
`edit_variation_candidate`, ...) are one step each, at any revision the learner
may have seen. A worker slot claims (`claim_variation_work`: generating without a
candidate, validating with one), generates, stores a `Checkpoint`, renews its
lease and validates; its writes are fenced by claim token, lease and revision.
A heartbeat that is refused sets `lost`. An undo reads, and later writes
back, the whole variation. A submission selects from a batch it read
(`SubmitRead`), admits in a transaction that checks again (`admit_variant_item`) and
completes the batch. `BatchItems` has the extraction queue and its leases; here an
extraction under way gets a result that may land, a failure also over a confirmed
source. `WorkerDies` ends a free slot, as in `BatchItems`. Three steps are coarser than
the code: the load of the batch that precedes each review update (`Open`) is one
step with it; a submission's loop over items is over the one item; the copy
of the image to audit storage before the admission changes nothing that is
modelled.

### VariantSession

The session document and the problem it derives from. `task` is the set of asyncio
tasks, of which `_tasks` registers the one that was not cancelled. A request that
queues work and the start of its task are two steps, so that starts overlap; a
task reads, claims, generates or validates (a stored candidate is validated),
and saves, fenced by `contentRevision` alone (`Fenced`). A cancelled task is
stopped at an `await`: the call under way may still be its last. A submission is
`reserve_problem_variant_for_submit`, then the transaction, then the release if that
failed; the reservation may expire under a running submission. Discarding and
the cancellation that follows it are one step. Creation is one step, since a
partial unique index lets one of two overlapping ones through.

### ReviewedVariant

A content under review, approved or not; publishing needs approval, happens once,
and ends the review, as discarding does. `VariationWork` and `VariantSession` implement
it (`ImplementsReview`) with `approved` mapped to the candidate while the status is
`ready`: from the code's leases, fences and revisions follows that an edit takes
the approval away, that what becomes a problem is what was approved, and that
afterwards nothing changes.

### PreviewIngestion

`status`, `started` (`requestStartedAt`) and `draft` are the preview; `registered` the
entry of `preview_tasks`. `RetryRead`, `StartWrite` and `StartTask` are the
three parts of a retry; a task loads, calls the model, reads again and lands
by id. A poll that reads a stale preview cancels the registered task at once
(`GetRead`) and then stores the failure (`Recover`) or raises (`PollRaises`). One poll
is under way at a time, a bound of the model that
leaves out the recoveries of two polls that overlap.
A confirmation claims the preview in one conditional update, creates the
problem, and gives the claim back if that fails. Time is a small clock: two
starts within one tick are the same instant, as `_is_same_instant` treats them,
and an extraction from an earlier tick is past its window. Creation is one step,
because the client learns the id from its response. The status `expired` is
never set by any code and does not occur.

## 3. Checks

Passing runs, with two TLC workers:

| run | instance | shows |
|---|---|---|
| `exam` | 2 items (one short-answer), 4 requests (a save; a submission; a submission or report; a discard or report), 2 workers, 1 fault; 287 k states | `GradesMatchAnswers`, `SummaryMatchesItems`, `TrackingMatchesGrading`, `ReportedItemsCounted`; no step breaks `AnswersFrozen`, `SettledItemsStay`, `DiscardIsFinal`; `GradingEnds` |
| `items_safety` | 2 items of 2 images, 3 requests of any kind, 1 worker, 1 crash; 1.6 M states | `AdmittedOnce`, `ReservationProtects` |
| `items_overrun` | 1 item, 2 workers, 2 requests, 2 crashes, 2 stalls; 420 k states | the late holder of a lease or reservation changes nothing settled since (`SubmissionIsFinal`, `DeletedUnlessUndone`, `ReviewedDraftKept`), and `ExtractionEnds` |
| `images` | 3 images with a limit of 2, 5 requests | `CommittedItemsMatchBoxes`, `UserBoxesKept`, `AppendedInOrder`, `DeletedImagesStayDeleted` |
| `solution` | 2 problems, one stored before the start, 1 retry, 2 requests, 1 stop; 313 k states | `RetriesBounded`, `FailedStaysFailed`, `StoredProblemsCovered`, `TasksSettle` |
| `variation` | 1 item, 2 sources (one the sanitizer rejects), 1 validator, 2 worker slots, 1 undo, 2 submissions, revisions 0 to 2, 1 fault; 778 k states | `ApprovalIsBacked`, `AdmittedOnceAndWhole`, `CheckpointKept`, `ImplementsReview`, `VariationSettles` |
| `session` | 2 sources, 2 validators, 1 starting request at a time, 2 tasks, 2 submissions, revisions 0 to 2, 2 faults; 391 k states | `ApprovalIsBacked`, `AdmittedOnceAsReviewed`, `ReservationProtects`, `CandidateKept`, `ImplementsReview` |
| `previews` | 3 requests of any kind, 2 tasks, 3 instants, 1 failed creation, 1 stop; 659 k states | `OneTaskRuns`, `ConfirmedHasProblem`, `ExtractionEnds` |

Why these bounds. Exams: two items are the least at which one item's write can
undo another's and at which both grading paths occur (an exam with a short-answer
item is queued); two workers are the owner and the one that takes over. The four
requests are, in one behaviour, a save, the submission after it and two
self-reports that race, the case `ReportedItemsCounted` is about; in others a
second submission or a discard takes the place of a report. Two saves that overlap
are not in the run; the theorems of section 5 cover any number of requests of any
kind. Items: two items of different images separate what an image's deletion
touches from what it leaves alone, and let a batch be completed by one submission
while another holds the second item; three requests are two submissions and a
review operation. Overruns multiply the states, so they have a run of their own
with a single item, with two of them and two crashes so that the one that takes
over can itself be late or die, and so that both loops can end. With the one fault
of `exam` and `variation`, a worker that ended is not restarted and the other one
has to finish alone. Images: two commits, a deletion and two edits or detections
overlap on five requests; the third image exists because overlapping uploads can
exceed the limit. Solutions: every regeneration has a rival, and with one retry
each attempt may be the last or not. Variants: two revisions beyond the first let
a source be confirmed again after its candidate was edited, with a worker and a
submission that still hold either earlier one; the two sources differ in the
sanitizer's verdict; two worker slots are an owner and the one that takes over.
Sessions: two tasks are the superseded one and its replacement, two submissions
the one whose reservation expired and the next, two faults that expiry and a
death. Two validators, which can disagree, are checked in `session`, where they
cost little. Previews: three requests are a retry or an edit between two
confirmations, two tasks an extraction and the one replacing it (one that was
cancelled leaves its slot in the end), and on three instants a recovery may be
late for one start and act on the next.

`TypeOK` includes a relation or two besides types (a task being processed has an
owner; a lease has a holder; only deleted items remember a status; at most one
task of a session is not cancelled). `SolutionTasks` and `PreviewIngestion` state
the relations that matter there, on retries and on running tasks, as properties;
their type invariants are stated and proved in the proof modules.

### Fairness

`WF` of each worker's step: a loop that has not ended is scheduled by the event
loop, and each iteration ends (model calls have timeouts). No loop is assumed to
live. The claims of the exam, extraction and variation workers stand outside any
`try` (`exam_grading_worker.py:443`, `extraction_worker.py:393`,
`variation_worker.py:465`): a database exception there ends the loop,
`main.py:60-89` (for variation, `main.py:92-130`) logs it and raises, and nothing
starts another until the process restarts. `WorkerDies` is that step; a restart
(`Crash`, `WorkerCrash`) may follow and is not assumed. So `GradingEnds`,
`ExtractionEnds` and `VariationSettles` promise their end unless every worker of
the model has ended, and `TasksSettle` does unless the solution worker has, which
`main.py` treats alike. `WF` of expiry (`LeaseExpires`, `TimeoutPasses`,
`BackoffElapses`): time passes. `WF(Start)` in `SolutionTasks`:
`docker-compose.yml` restarts the backend (`restart: unless-stopped`). In
`VariationWork` it is of some slot going on, not of each: the slots claim from one
queue and any of them may get the work. In `PreviewIngestion` it is of the clock
and of each extraction task; recovery happens in the client's polling, so
`ExtractionEnds` assumes that, and states it as its premise. `VariantSession` has
none: its generations live in the memory of the process and nothing durable takes
them up again, so no liveness holds of it. Nothing is assumed of requests; a
client may go away and a handler be cancelled at any `await`, and no handler is
assumed to finish. Crashes and stalls are bounded, which is the usual assumption
that they eventually stop. Deadlock is not checked: requests run once, and with no
work left the system stops.

## 4. Where the code departs from what the repository says

Each has a run whose property states the repository's sentence; TLC's trace is
the counterexample.

* `exam_discard_race` (`OnlyListedTransitions`). `discard_exam` checks the state
  it read and updates by `_id`. Submitted in between, and its problems counted,
  an exam becomes discarded; `domain/state.py` gives submitted exams no
  transition.
* `exam_report_race` (`SelfReportCountsOnce`). Two self-reports of one item pass
  the pending-review check before either commits; the transaction rechecks only
  the exam's state. `docs/exam_grading_parity.md` says the tracking is updated
  exactly once.
* `items_lost_reservation` (`LostReservationLeavesNoProblem`). Deleting an image
  ignores reservations, so it may fall between the ownership guard and the
  insertion; the submission reports a lost reservation and the problem remains,
  which `problem_creation.py` says can never be.
* `solution_ready_lost` (`ReadyTasksHaveSolutions`). A regeneration between the
  worker's insertion of the solution and its update of the task deletes the
  solution and resets the task to pending; the worker then marks it ready, by
  `_id` alone. The problem has no solution, nothing generates one, and further
  regenerations are refused as "already pending or generating".

Three more departures, from what code and comments state, have no run of their
own; the models contain them, and no property denies them:

* Sessions. A task that is being replaced may read the session only after the
  override and claim the attempt queued for its replacement, although the comment
  above the claim (`infrastructure/problem_variants/repository.py:156`) says that a
  superseded task never does; it is then cancelled, its replacement finds
  nothing queued, and the session stays generating until the learner overrides
  it again. `ApprovalIsBacked` and `CandidateKept` show that a
  superseded task neither approves nor replaces a later candidate.
* Previews. A retry, a recovery or a late result writes by id what was decided on
  an older read, and may so overwrite `confirmed`, to which `domain/state.py:67` gives
  no successor: the preview can be confirmed again. Two confirmations that
  overlap may then both find no problem and both insert one. Or the second takes over
  the problem that the first inserted and answers its client; when the first fails
  to queue the solution, its compensating deletion removes that problem
  (`problem_creation.py:144-147`) and it gives the status back, so that an acknowledged
  confirmation has lost its problem. `ConfirmedHasProblem` is about the
  confirmation that shows, and holds.
* Variants. An undo queues work again that was generating or validating, a transition
  that the table `VARIATION_TRANSITIONS` (`problem_variation.py:90`)
  lacks; no writer consults the table.

Behaviour the models contain and no sentence of the repository rules out, so
that no run claims otherwise:

* Two self-reports of different items: the second writes the items array it read,
  and undoes the verdict of the first if that was committed in between. The first
  item is pending review again, with its count kept, and may be reported and counted
  once more.
* A worker that verified its ownership before losing its lease may persist a
  grade over one the next worker stored, as long as the exam is in grading; the
  partial summary it stores with it may be stale until finalization.
* Two concurrent saves of different items: the second writes the items array it
  read and undoes the first.
* The task of an exam discarded while grading is never completed: it is claimed
  again each time its lease expires, to no effect.
* With a submission that stalls longer than its reservation between the guard and
  the insertion, a second submission creates a second problem:
  `AdmittedOnce` holds without such stalls (`items_safety`), not with them.
* Delete an item, then its image, then undo the item: it is back, in an image that
  is deleted. `delete_batch_image` is described as taking the image and all of its
  items, but leaves `previousStatus` of those deleted before.
* A deletion undone after the batch was completed leaves an open item in a
  completed batch, from a handler that had checked the batch before; deleting an
  image deletes its submitted items too.
* Overlapping uploads exceed the image limit and give two images one order.
  Undoing a deletion after another commit gives two items one order. An image
  whose detection died stays detecting until the learner draws boxes.
* A crash between storing a solution and marking its task ready yields a second
  solution; a regeneration deletes one of them.
* Variants. A generation may be requested for an item that is still extracting or
  failed. Its confirmed source then keeps an extraction's success out, but not its
  failure, which makes the item failed; either way the item is not admitted before
  its source is edited and it is extracted again, from failed by a retry. An undo
  that was slow writes back the variation it read: if the item was restored, given
  a new source and deleted again in between, the older source returns at the newer
  revision. A candidate whose stored verdict passes from before a lost result may
  be attested and admitted without being validated again; the sanitizer still
  looks at it. A process that dies between the audit copy and the admission leaves
  a copy nothing refers to.
* Sessions. The expiry of batch and reservation is judged by the time a request
  began, so only the reservation's token protects a slow one.
* Previews. A recovery may cancel
  an attempt that was only just started. An edit may be lost to an extraction
  that lands. A process that dies between claim and creation leaves a
  confirmed preview without a problem (`ConfirmedHasProblem` excludes it).

## 5. Proofs

Every safety property the passing runs check, invariant or action property, and
both refinements, are theorems: for every value of the constants and not only for
the instances of section 3. All they assume is the named assumptions of the
modules: that the constants have their types, that the markers (`NoWorker`,
`NoTask`, ...) are none of the things they stand beside, that one or two validators
are configured, as the settings allow, and that the problems of `SolutionTasks`
and the images of `BatchImages` are finitely many. The bounds on
crashes, stalls, faults and revisions are arbitrary numbers.

Each proof has the same outline. `Typed` (or `TypeOK`) gives the types and the
shape of what requests and workers carry. It is proved first and by itself, one
case per action. The invariant of the module is added, whose conjuncts are below.
The action properties then follow from it and the shape of the steps. TLC checked
each invariant on the instances of section 3 before it was proved.

### ExamGradingProofs

`TypeCorrect`, `GradesCorrect`, `SummaryCorrect`, `TrackingCorrect`,
`ReportsAreCounted`, and the action properties `AnswersStayFrozen`,
`SettledItemsAreFinal` and `DiscardedExamsAreFinal`.

None of the invariants is inductive. What they leave out is what
requests and workers carry from an earlier read. `ExamInv` adds it:

* `PristineWhileOpen`: while the exam is open, nothing is graded or counted,
  there is no task and no worker is busy. So a save that still matches
  `in-progress` carries gradings identical to the stored ones (`SaveFits`).
* `GradesFit`: each stored grading is ungraded, reported, or one that
  `grade_item` gives for the stored answer.
* `ResultFits(w)`: the result a worker carries is one for the stored answer.
  It stays so because no answer changes once the exam is frozen.
* `SubmitFits(r)`: a synchronous submission holds answers that need no model; its
  transaction compares them with the stored ones, so the grades it computes are
  grades for the stored answers (`SynchronousGradesFit`).
* `ReportFits(r)`: the items array a self-report carries agrees with the stored one
  on every item settled on either side, and its own item is none of those.

`ReportsAreCounted` has an invariant of its own, `ReportInv`. Two self-reports that
overlap write items arrays of different age, so a verdict may return that
another report had replaced. It holds nevertheless, because the array a report
carries holds only verdicts counted before it was read (`ReportCarries`) and counts
never decrease (`TrackingGrows`).

### BatchImagesProofs

`TypeCorrect`, `CommittedItemsMatch`, and the action properties `UserBoxesAreKept`,
`DeletedImagesAreFinal` and `CommitsAppendInOrder`.

Type correctness needs `Typed`: a pending upload has a page left. The others
rest on `ImagesInv`, the argument for the optimistic commit:

* `CommitFits(r)`: as long as the batch has the revision a commit read, the image
  it read is still ready, with the boxes the commit holds, and the order it
  computed is still the next one. Every write advances the revision and no
  commit is ahead of it, so a write leaves this true of no commit that was
  under way (`WriteFits`).
* `DrawnSettled(i)`: drawn boxes belong to an image that waits for no detection.
  A detection lands only on an image in detection, so on none of these.
* `MatchesBoxes(i)`: the conjunct of `CommittedItemsMatchBoxes` for one image.

That the items of a commit come after the live ones needs what `Max` gives for
a finite set of integers (`FiniteMax`). The prover cannot be given the
induction theorem for finite sets; the lemma takes a counterexample of least
cardinality instead, which exists because `<` is well founded on the naturals.

### BatchItemsProofs

`TypeCorrect`, `AdmissionIsSingle`, and the action properties `DeletionsHold`,
`SubmissionsAreFinal`, `ReviewedDraftsAreKept` and `ReservationsProtect`.

`ItemChanges` is the lemma behind the action properties: whoever acts, an item
changes in one of a dozen ways, each with the condition its update matches under.
With `Typed` (a lease has a holder, a reservation its token, a submitted item its
problem, and an undo never restores one) the first three follow for any number of
overrun leases and reservations. `ReservationsProtect` needs `ReservedIsReady`: a
live reservation is on a ready item, unless its image was deleted, which ignores
reservations.

`AdmissionIsSingle` is `Spec => [](stalls = 0 => AdmittedOnce)`. The condition is not a
technicality: without it the statement is false, as section 4 says. It is on the
history so far and not on the bound, so it covers every behaviour up to
the first deadline that passes under its holder; the run checks the same with
`MaxStalls = 0`. The invariant, under that condition:

* `ReservedIsHeld(r)`: a submission that still works on its reserved items holds
  their live reservations. So two submissions never work on one item.
* `CreatesOne(r)`: between lookup and insertion the item has no problem unless the
  submission found it; after it, the problem it holds is stored; and at its
  confirmation so is the task.
* `OutcomesStand(r)`: the problems of outcomes not yet recorded still stand, with
  their tasks: a compensating deletion only takes what has no outcome.

### SolutionTasksProofs

`TypeCorrect`, `AttemptsAreBounded` and the action property `FailuresStand`.

Nothing identifies a claim, so a regeneration may reset the task the worker is
generating for. The invariant shows what holds all the same: a task that is pending
or generating has an attempt left (`GoodTask`), the worker's own count is one it
claimed with, the task under the worker exists and is not failed, since only
the worker fails tasks (`GoodWorker`), and the task a regeneration is about to reset
exists (`GoodRequest`).

### VariantAssessmentProofs

`SilenceIsUnanimous`: a run of the validators that yields no failure is one in which
every configured validator reported, and soundly. `ValidationVerdict`: any
validation is about the candidate it was given, and passes only unanimously. Both
are about the operators alone, cover every outcome of one or two
validators, and are what the following two modules know of a verdict.

### VariantSessionProofs

`TypeCorrect`, `ApprovalsAreBacked`, `AdmissionsAreReviewed`, the action properties
`ReservationsProtect` and `CandidatesAreKept`, and `SessionImplementsReview`. The
invariant says why fencing by `contentRevision` alone suffices:

* `OneTaskWorks`: of all tasks, cancelled ones included, one at most holds a claim
  at the present revision, and it works on the stored candidate. Each way to
  queue work again advances the revision, or finds no task at work at this one.
* `CandidateCurrent`: the stored candidate is of the session's source and was
  written at its revision. A verdict that passes the fence is therefore about
  what is stored.
* `ApprovalWithdrawn` and `CandidateStored`: only a ready session carries an approval;
  what may be attested or submitted exists.

### VariationWorkProofs

`TypeCorrect`, `ApprovalsAreBacked`, `AdmissionsAreWhole`, the action property
`CheckpointsAreKept`, and `ItemImplementsReview`. The claim token takes the place of
the revision:

* `ClaimsFit`: as long as the variation bears a worker's token, that worker holds
  the revision, source and candidate of the item. A review operation that changes
  one of these applies to a variation without a token or clears it, and the
  variation an undo writes back bears none.
* `UndosFit`: what a slow undo will write is outdated at worst, never a
  candidate of another source; its approval and claim are gone.
* `OfSource`, `CandidateStored` as above.

Both refinements are proved step by step against `ReviewedVariant`
(`StepIsReview`): every action is a `Change`, `Approve`, `Publish` or `Discard` of the
abstract review under the mapping in the module, or stutters.

### PreviewIngestionProofs

`TypeCorrect`, `RunningTaskIsRegistered` and `ConfirmedPreviewsHaveProblems`. The first
two are inductive nearly as they stand (`OnlyRegisteredRuns`, task by task). The
last needs `ClaimsRestorable`: the status a confirmation would give back was
never `confirmed`, since its claim matches `ready` and `vlm-failed` only.

### What is only model-checked

Liveness under fairness, which is beyond the prover: `GradingEnds`, `ExtractionEnds`
(of `BatchItems` and of `PreviewIngestion`), `StoredProblemsCovered`, `TasksSettle`,
`VariationSettles`. And the four counterexamples of section 4, which are runs.

## 6. Not modelled

* Creation and start of exams, practice and the pure algorithms of selection and
  scoring: planned below. Selection is weighted by random floating-point numbers, of
  which only eligibility and structure are within reach.
* Within modelled parts: the registration of tags; legacy provenance
  labels and the backfill of failure kinds at start, which touch no state
  a property reads; `renew_problem_variant_submit_reservation`, which nothing calls.
* Authentication, coaching, model clients, whiteboard DSL, media and storage
  adapters, settings and logging: no shared state, or single reads and writes
  around a library.
* Batch cleanup: no code schedules it.
* The web client and the scripts.
* The bytes of drafts, images and answers: `normalize_answer`'s verdict is a
  constant relation between an item and an answer.
* Several backend processes: the deployment runs one. `ExamGrading` and
  `BatchItems` nevertheless have several workers, since their leases are written
  for it; `SolutionTasks` has one, since its tasks carry no lease.
  `VariantSession` and `PreviewIngestion` have one, since their tasks are registered
  in its memory.

## 7. Plan

Done, in this order: `ExamGrading` with its proofs, `BatchItems`, `BatchImages`
with its proofs, `SolutionTasks`, `VariantAssessment` and `ReviewedVariant` with
`VariationWork` and `VariantSession`, `PreviewIngestion`; then the proofs of the
other six.

Next, the proofs:

1. The safe halves of the liveness properties: what keeps the last step of each
   possible (a task left generating is the worker's or is recovered, a batch with
   work left has a claimable item once leases have run out).
2. Facts the departures of section 4 leave standing, as theorems: what a discard
   or a lost reservation can leave behind at most.

Next, the model:

1. Creation and start of exams with practice: two creations under snapshot
   transactions, of which no index rejects one, and the tracking counters that
   exams increment while practice writes them whole. Properties: no answer is
   counted twice, and the counters agree with each other.
2. `ExamLife`, an abstract exam, with `ExamGrading` without its discard race shown to
   implement it.
3. Folders: the cycle check of concurrent moves. Selection and normalization as
   operators against reference definitions.

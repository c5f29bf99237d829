---------------------------- MODULE ExamGrading ----------------------------
(***************************************************************************)
(* One exam of one learner from its creation to its end: the API requests  *)
(* that act on it (save an answer, submit, discard, self-report), the      *)
(* durable grading task, and the workers that lease that task.             *)
(*                                                                         *)
(* Every database round trip is one step.  A handler that reads the exam,  *)
(* computes, and writes later is split at those points, and what it read   *)
(* is kept in its own record until it is used; a MongoDB transaction is    *)
(* one step.                                                               *)
(***************************************************************************)
EXTENDS Integers, FiniteSets

CONSTANTS
    NumItems,       \* the exam has the items 1..NumItems, in their "order"
    ShortItems,     \* the items whose problemType is short-answer
    Answers,        \* the raw answers a learner may save
    RightAnswer,    \* for each item the answer its correctAnswer matches
    NoAnswer,       \* the raw answer None
    Workers,        \* the grading workers, one per running backend process
    NoWorker,       \* no claim token
    Requests,       \* the API requests; each runs once
    RequestKinds,   \* which endpoints each request may call in this instance
    MaxFaults       \* bound on crashes, raised exceptions and missed refreshes

Items == 1 .. NumItems
Kinds == {"save", "submit", "discard", "report"}

ASSUME NumItemsAssumption == NumItems \in Nat \ {0}
ASSUME ShortItemsAssumption == ShortItems \subseteq Items
ASSUME AnswersAssumption == NoAnswer \notin Answers /\ RightAnswer \in [Items -> Answers]
ASSUME WorkersAssumption == NoWorker \notin Workers
ASSUME RequestKindsAssumption == RequestKinds \in [Requests -> SUBSET Kinds]
ASSUME MaxFaultsAssumption == MaxFaults \in Nat

VARIABLES
    state,      \* exam.state
    answer,     \* items[].answer.raw
    grading,    \* items[].grading: status and method
    summary,    \* exam.summary
    tracking,   \* problems[].tracking of the items' problems
    task,       \* the exam's document in exam_grading_tasks
    worker,     \* what each worker holds in its local variables
    req,        \* what each request holds in its local variables
    faults      \* crashes, exceptions and missed refreshes so far

vars == <<state, answer, grading, summary, tracking, task, worker, req, faults>>
examVars == <<state, answer, grading, summary>>

-----------------------------------------------------------------------------
(* Grading *)

ExamStates == {"in-progress", "grading", "submitted", "discarded"}
TERMINAL_GRADING_STATUSES == {"correct", "incorrect", "pending-review"}
Statuses == TERMINAL_GRADING_STATUSES \union {"ungraded"}
Methods == {"none", "normalized-match", "vlm", "self-report"}
RawAnswers == Answers \union {NoAnswer}

build_grading_result(status, method) == [status |-> status, method |-> method]
Ungraded == build_grading_result("ungraded", "none")
Grades == [status : Statuses, method : Methods]

\* Objective items, and a short answer that was never given, need no model.
grade_objective_item(i, a) ==
    build_grading_result(IF a = RightAnswer[i] THEN "correct" ELSE "incorrect",
                         "normalized-match")

AllTerminal(gr) == \A i \in Items : gr[i].status \in TERMINAL_GRADING_STATUSES

\* A call of the vision-language model ends in a verdict or in an error.
Replies == {"correct", "incorrect", "retryable", "fatal"}

\* One retry after a retryable error; whatever then fails is left to the learner.
grade_short_answer_item(a, first, second) ==
    LET last == IF first = "retryable" THEN second ELSE first
    IN  IF a = NoAnswer
        THEN build_grading_result("incorrect", "normalized-match")
        ELSE build_grading_result(
                 IF last \in {"correct", "incorrect"} THEN last ELSE "pending-review",
                 "vlm")

\* The gradings grade_item may produce for item i answered with a.
grade_item(i, a) ==
    IF i \in ShortItems
    THEN {grade_short_answer_item(a, first, second) : first \in Replies, second \in Replies}
    ELSE {grade_objective_item(i, a)}

\* The worker turns any exception of grade_item into a pending-review item.
WorkerGrades(i, a) ==
    grade_item(i, a) \union {build_grading_result("pending-review", "vlm")}

requires_vlm_grading(i, a) == i \in ShortItems /\ a # NoAnswer
exam_requires_vlm_grading(ans) == \E i \in Items : requires_vlm_grading(i, ans[i])

\* A submission without vlm items has exactly one possible grading per item.
grade_synchronously(ans) ==
    [i \in Items |-> IF i \in ShortItems
                     THEN grade_short_answer_item(NoAnswer, "fatal", "fatal")
                     ELSE grade_objective_item(i, ans[i])]

\* totalProblems is NumItems; gradedProblems and score follow from these counts.
build_exam_summary(ans, gr) ==
    LET Count(status) == Cardinality({i \in Items : gr[i].status = status})
    IN  [answeredProblems |-> Cardinality({i \in Items : ans[i] # NoAnswer}),
         pendingProblems  |-> Count("pending-review"),
         correctProblems  |-> Count("correct"),
         failedProblems   |-> Count("incorrect")]

NoTracking == [exposureCount |-> 0, correctCount |-> 0, failedCount |-> 0]
build_tracking_update(t, isCorrect) ==
    [exposureCount |-> t.exposureCount + 1,
     correctCount  |-> t.correctCount + (IF isCorrect THEN 1 ELSE 0),
     failedCount   |-> t.failedCount + (IF isCorrect THEN 0 ELSE 1)]

\* The loop both submission paths end with: pending-review items are skipped.
TrackGraded(gr) ==
    [i \in Items |-> IF gr[i].status = "pending-review"
                     THEN tracking[i]
                     ELSE build_tracking_update(tracking[i], gr[i].status = "correct")]

-----------------------------------------------------------------------------
(* Initial state: create_exam has just inserted the exam *)

NoTask == [status |-> "none", owner |-> NoWorker, lease |-> "none"]
IdleWorker == [pc |-> "idle", item |-> 1, result |-> Ungraded,
               summary |-> build_exam_summary([i \in Items |-> NoAnswer],
                                              [i \in Items |-> Ungraded])]
IdleRequest == [pc |-> "idle", item |-> 1, isCorrect |-> FALSE,
                answer |-> [i \in Items |-> NoAnswer],
                grading |-> [i \in Items |-> Ungraded]]

Init ==
    /\ state = "in-progress"
    /\ answer = [i \in Items |-> NoAnswer]
    /\ grading = [i \in Items |-> Ungraded]
    /\ summary = build_exam_summary(answer, grading)
    /\ tracking = [i \in Items |-> NoTracking]
    /\ task = NoTask
    /\ worker = [w \in Workers |-> IdleWorker]
    /\ req = [r \in Requests |-> IdleRequest]
    /\ faults = 0

-----------------------------------------------------------------------------
(* API requests *)

\* The handler has passed its checks and holds the exam document it read.
Start(r, kind, pc, i, ans, gr, isCorrect) ==
    /\ kind \in RequestKinds[r]
    /\ req[r].pc = "idle"
    /\ req' = [req EXCEPT ![r] = [pc |-> pc, item |-> i, isCorrect |-> isCorrect,
                                  answer |-> ans, grading |-> gr]]

Finish(r) == req' = [req EXCEPT ![r] = [IdleRequest EXCEPT !.pc = "done"]]

\* save_exam_answer up to the write: the whole items array is copied and edited.
SaveRead(r) ==
    \E i \in Items, a \in RawAnswers :
        /\ state = "in-progress"
        /\ Start(r, "save", "save", i, [answer EXCEPT ![i] = a], grading, FALSE)
        /\ UNCHANGED <<state, answer, grading, summary, tracking, task, worker, faults>>

\* Mutant: the update is matched on the exam's _id alone.
SaveMatchesAnyState == state # "discarded"

\* The filter of save_exam_answer's update.
SaveMatches == state = "in-progress"

\* The conditional update of save_exam_answer, matched on the state alone.
SaveWrite(r) ==
    /\ req[r].pc = "save"
    /\ Finish(r)
    /\ IF SaveMatches
       THEN /\ answer' = req[r].answer
            /\ grading' = req[r].grading
            /\ summary' = build_exam_summary(req[r].answer, req[r].grading)
       ELSE UNCHANGED <<answer, grading, summary>>
    /\ UNCHANGED <<state, tracking, task, worker, faults>>

\* submit_exam: the items read decide which of the two paths is taken.
SubmitRead(r) ==
    /\ state = "in-progress"
    /\ Start(r, "submit",
             IF exam_requires_vlm_grading(answer) THEN "submit-async" ELSE "submit-sync",
             1, answer, grading, FALSE)
    /\ UNCHANGED <<state, answer, grading, summary, tracking, task, worker, faults>>

\* Mutant: a save that raced with the grading is not noticed.
IgnoresModifiedAnswers(r) == TRUE

\* Otherwise ANSWERS_MODIFIED_DURING_GRADING is raised.
AnswersUnmodified(r) == answer = req[r].answer

\* The transaction of _submit_exam_synchronous; the items were graded before it.
SubmitSync(r) ==
    LET graded == grade_synchronously(req[r].answer)
    IN  /\ req[r].pc = "submit-sync"
        /\ Finish(r)
        /\ IF state = "in-progress" /\ AnswersUnmodified(r)
           THEN /\ state' = "submitted"
                /\ answer' = req[r].answer
                /\ grading' = graded
                /\ summary' = build_exam_summary(req[r].answer, graded)
                /\ tracking' = TrackGraded(graded)
           ELSE UNCHANGED <<examVars, tracking>>
        /\ UNCHANGED <<task, worker, faults>>

\* The transaction of _submit_exam_asynchronous.
SubmitAsync(r) ==
    /\ req[r].pc = "submit-async"
    /\ Finish(r)
    /\ IF state = "in-progress"
       THEN /\ state' = "grading"
            /\ task' = [status |-> "pending", owner |-> NoWorker, lease |-> "none"]
       ELSE UNCHANGED <<state, task>>
    /\ UNCHANGED <<answer, grading, summary, tracking, worker, faults>>

DiscardRead(r) ==
    /\ state \in {"in-progress", "grading"}
    /\ Start(r, "discard", "discard", 1, answer, grading, FALSE)
    /\ UNCHANGED <<state, answer, grading, summary, tracking, task, worker, faults>>

\* The update of discard_exam, matched on the exam's _id alone.
DiscardWrite(r) ==
    /\ req[r].pc = "discard"
    /\ Finish(r)
    /\ state' = "discarded"
    /\ UNCHANGED <<answer, grading, summary, tracking, task, worker, faults>>

\* Otherwise ITEM_NOT_PENDING_REVIEW is raised.
Reportable(i) == grading[i].status = "pending-review"

\* self_report_exam_item up to its transaction: the item is checked here.
ReportRead(r) ==
    \E i \in Items, isCorrect \in BOOLEAN :
        /\ state = "submitted"
        /\ Reportable(i)
        /\ LET resolved == build_grading_result(
                               IF isCorrect THEN "correct" ELSE "incorrect", "self-report")
           IN  Start(r, "report", "report", i, answer,
                     [grading EXCEPT ![i] = resolved], isCorrect)
        /\ UNCHANGED <<state, answer, grading, summary, tracking, task, worker, faults>>

\* Mutant: the item is resolved but its problem is not counted.
ReportNotTracked(r) == tracking

\* The tracking update of the same transaction.
ReportTracking(r) ==
    LET i == req[r].item
    IN  [tracking EXCEPT ![i] = build_tracking_update(tracking[i], req[r].isCorrect)]

\* The transaction of self_report_exam_item: only the exam's state is rechecked.
ReportCommit(r) ==
    /\ req[r].pc = "report"
    /\ Finish(r)
    /\ IF state = "submitted"
       THEN /\ answer' = req[r].answer
            /\ grading' = req[r].grading
            /\ summary' = build_exam_summary(req[r].answer, req[r].grading)
            /\ tracking' = ReportTracking(r)
       ELSE UNCHANGED <<answer, grading, summary, tracking>>
    /\ UNCHANGED <<state, task, worker, faults>>

Request(r) ==
    \/ SaveRead(r) \/ SaveWrite(r)
    \/ SubmitRead(r) \/ SubmitSync(r) \/ SubmitAsync(r)
    \/ DiscardRead(r) \/ DiscardWrite(r)
    \/ ReportRead(r) \/ ReportCommit(r)

-----------------------------------------------------------------------------
(* The grading worker *)

\* status is processing and claimToken is the worker's.  A worker holds one
\* token at a time, so the token is represented by the worker it was issued to.
Owns(w) == task.status = "processing" /\ task.owner = w

\* Mutant: the finalization forgets the task.
NeverCompletes(w) == task' = task

\* The guarded task update that ends both _finalize_exam and the loop.
CompleteIfOwned(w) ==
    task' = IF Owns(w) THEN [task EXCEPT !.status = "completed"] ELSE task

Goto(w, pc) == worker' = [worker EXCEPT ![w].pc = pc]
Return(w) == worker' = [worker EXCEPT ![w] = IdleWorker]

\* Whether worker w is processing a task: its loop is neither polling nor ended.
Busy(w) == worker[w].pc \notin {"idle", "dead"}

\* Mutant: a task whose worker died is not claimed again.
ClaimsPendingOnly == task.status = "pending"

\* The two filters of _claim_task.
Claimable ==
    \/ task.status = "pending"
    \/ task.status = "processing" /\ task.lease = "expired"

\* _claim_task: a pending task, or a processing one whose lease has run out.
Claim(w) ==
    /\ worker[w].pc = "idle"
    /\ Claimable
    /\ task' = [status |-> "processing", owner |-> w, lease |-> "live"]
    /\ Goto(w, "verify")
    /\ UNCHANGED <<examVars, tracking, req, faults>>

\* _verify_ownership at the head of the loop: status and token, not the lease.
Verify(w) ==
    /\ worker[w].pc = "verify"
    /\ IF Owns(w) THEN Goto(w, "read") ELSE Return(w)
    /\ UNCHANGED <<examVars, tracking, task, req, faults>>

\* The exam read of the loop and the choice it makes.
ReadExam(w) ==
    /\ worker[w].pc = "read"
    /\ \/ state = "submitted" /\ Goto(w, "complete")
       \/ state \notin {"submitted", "grading"} /\ Return(w)
       \/ /\ state = "grading"
          /\ AllTerminal(grading)
          /\ Goto(w, "finalize")
       \/ /\ state = "grading"
          /\ \E i \in Items :
                /\ grading[i].status \notin TERMINAL_GRADING_STATUSES
                /\ \A j \in Items : j < i => grading[j].status \in TERMINAL_GRADING_STATUSES
                /\ worker' = [worker EXCEPT ![w] = [@ EXCEPT !.pc = "grade", !.item = i]]
    /\ UNCHANGED <<examVars, tracking, task, req, faults>>

\* grade_item on the item read.  An exam whose task exists has frozen answers,
\* so the item's answer is the stored one.
Grade(w) ==
    /\ worker[w].pc = "grade"
    /\ \E g \in WorkerGrades(worker[w].item, answer[worker[w].item]) :
          worker' = [worker EXCEPT ![w] = [@ EXCEPT !.pc = "reverify", !.result = g]]
    /\ UNCHANGED <<examVars, tracking, task, req, faults>>

Reverify(w) ==
    /\ worker[w].pc = "reverify"
    /\ IF Owns(w) THEN Goto(w, "persist-read") ELSE Return(w)
    /\ UNCHANGED <<examVars, tracking, task, req, faults>>

\* _persist_item_result up to its update: the partial summary is computed here.
PersistRead(w) ==
    /\ worker[w].pc = "persist-read"
    /\ IF state = "grading"
       THEN LET updated == [grading EXCEPT ![worker[w].item] = worker[w].result]
            IN  worker' = [worker EXCEPT ![w] = [@ EXCEPT
                    !.pc = "persist-write",
                    !.summary = build_exam_summary(answer, updated)]]
       ELSE Goto(w, "verify")
    /\ UNCHANGED <<examVars, tracking, task, req, faults>>

\* Mutant: the update is matched on the item alone.
PersistMatchesAnyState == TRUE

\* The filter of _persist_item_result's update, beside the item's id.
PersistMatches == state = "grading"

\* The positional update of _persist_item_result, matched on item and state.
PersistWrite(w) ==
    /\ worker[w].pc = "persist-write"
    /\ Goto(w, "verify")
    /\ IF PersistMatches
       THEN /\ grading' = [grading EXCEPT ![worker[w].item] = worker[w].result]
            /\ summary' = worker[w].summary
       ELSE UNCHANGED <<grading, summary>>
    /\ UNCHANGED <<state, answer, tracking, task, req, faults>>

\* Mutants: the state is not rechecked in the transaction; the last partial
\* summary is kept.
FinalizesAnyState == state # "in-progress" /\ AllTerminal(grading)
KeepsPartialSummary == summary

Finalizable == state = "grading" /\ AllTerminal(grading)
FinalSummary == build_exam_summary(answer, grading)

\* The transaction of _finalize_exam.
Finalize(w) ==
    /\ worker[w].pc = "finalize"
    /\ Return(w)
    /\ \/ /\ state = "submitted"
          /\ CompleteIfOwned(w)
          /\ UNCHANGED <<state, summary, tracking>>
       \/ /\ Finalizable
          /\ state' = "submitted"
          /\ summary' = FinalSummary
          /\ tracking' = TrackGraded(grading)
          /\ CompleteIfOwned(w)
       \/ /\ state # "submitted"
          /\ ~ Finalizable
          /\ UNCHANGED <<state, summary, tracking, task>>
    /\ UNCHANGED <<answer, grading, req, faults>>

\* The loop found the exam submitted: its task is completed if still owned.
Complete(w) ==
    /\ worker[w].pc = "complete"
    /\ Return(w)
    /\ CompleteIfOwned(w)
    /\ UNCHANGED <<examVars, tracking, req, faults>>

\* _lease_refresher, running beside the loop.
RefreshLease(w) ==
    /\ Busy(w)
    /\ Owns(w)
    /\ task.lease = "expired"
    /\ task' = [task EXCEPT !.lease = "live"]
    /\ UNCHANGED <<examVars, tracking, worker, req, faults>>

\* Mutant: the token is cleared but the task is left processing.
ReleasedProcessing == [status |-> "processing", owner |-> NoWorker, lease |-> "none"]

\* What _release_task stores.
ReleasedTask == [status |-> "pending", owner |-> NoWorker, lease |-> "none"]

\* A database call raises: run_exam_grading_worker releases what it still owns.
ReleaseOnError(w) ==
    /\ Busy(w)
    /\ faults < MaxFaults
    /\ faults' = faults + 1
    /\ Return(w)
    /\ task' = IF Owns(w) THEN ReleasedTask ELSE task
    /\ UNCHANGED <<examVars, tracking, req>>

\* An exception outside the loop's try (the claim, building the model client,
\* the release itself) ends run_exam_grading_worker: main logs and raises it.
WorkerDies(w) ==
    /\ worker[w].pc # "dead"
    /\ faults < MaxFaults
    /\ faults' = faults + 1
    /\ worker' = [worker EXCEPT ![w] = [IdleWorker EXCEPT !.pc = "dead"]]
    /\ UNCHANGED <<examVars, tracking, task, req>>

\* The process dies, or is cancelled at shutdown, and restarts, which is also
\* what starts a worker again that has ended.
Crash(w) ==
    /\ worker[w].pc # "idle"
    /\ faults < MaxFaults
    /\ faults' = faults + 1
    /\ Return(w)
    /\ UNCHANGED <<examVars, tracking, task, req>>

\* leaseUntil passes although its owner is running: a refresh came too late.
MissRefresh ==
    /\ task.status = "processing" /\ task.lease = "live"
    /\ Busy(task.owner)
    /\ faults < MaxFaults
    /\ faults' = faults + 1
    /\ task' = [task EXCEPT !.lease = "expired"]
    /\ UNCHANGED <<examVars, tracking, worker, req>>

\* leaseUntil passes and nobody is there to refresh it.
LeaseExpires ==
    /\ task.status = "processing" /\ task.lease = "live"
    /\ ~ Busy(task.owner)
    /\ task' = [task EXCEPT !.lease = "expired"]
    /\ UNCHANGED <<examVars, tracking, worker, req, faults>>

Step(w) ==
    \/ Claim(w) \/ Verify(w) \/ ReadExam(w) \/ Grade(w) \/ Reverify(w)
    \/ PersistRead(w) \/ PersistWrite(w) \/ Finalize(w) \/ Complete(w)

Next ==
    \/ \E r \in Requests : Request(r)
    \/ \E w \in Workers : Step(w) \/ RefreshLease(w) \/ ReleaseOnError(w)
                         \/ WorkerDies(w) \/ Crash(w)
    \/ MissRefresh
    \/ LeaseExpires

Spec == Init /\ [][Next]_vars

(***************************************************************************)
(* Fairness.  A worker loop that has not ended keeps polling and every call *)
(* it awaits returns, so a worker step that stays enabled is taken; an     *)
(* abandoned lease runs out because time passes.  Nothing is assumed of    *)
(* the learner's requests, of faults, of a refresh coming in time, or of   *)
(* the restart of a worker that has ended.                                 *)
(***************************************************************************)
Fairness ==
    /\ \A w \in Workers : WF_vars(Step(w))
    /\ WF_vars(LeaseExpires)

FairSpec == Spec /\ Fairness

-----------------------------------------------------------------------------
(* Properties *)

WorkerPcs == {"idle", "dead", "verify", "read", "grade", "reverify", "persist-read",
              "persist-write", "finalize", "complete"}
RequestPcs == {"idle", "save", "submit-sync", "submit-async", "discard", "report", "done"}
Summaries == [answeredProblems : Nat, pendingProblems : Nat,
              correctProblems : Nat, failedProblems : Nat]

Trackings == [exposureCount : Nat, correctCount : Nat, failedCount : Nat]
Tasks == [status : {"none", "pending", "processing", "completed"},
          owner : Workers \union {NoWorker},
          lease : {"none", "live", "expired"}]
WorkerLocals == [pc : WorkerPcs, item : Items, result : Grades, summary : Summaries]
RequestLocals == [pc : RequestPcs, item : Items, isCorrect : BOOLEAN,
                  answer : [Items -> RawAnswers], grading : [Items -> Grades]]

\* Every variable holds a value the code could have stored there, and a task
\* being processed has an owner.
TypeOK ==
    /\ state \in ExamStates
    /\ answer \in [Items -> RawAnswers]
    /\ grading \in [Items -> Grades]
    /\ summary \in Summaries
    /\ tracking \in [Items -> Trackings]
    /\ task \in Tasks
    /\ task.status = "processing" => task.owner \in Workers
    /\ worker \in [Workers -> WorkerLocals]
    /\ req \in [Requests -> RequestLocals]
    /\ faults \in 0 .. MaxFaults

\* An item the learner has not resolved and the grader has not settled.
GraderSettled(g) == g.status \in {"correct", "incorrect"} /\ g.method # "self-report"

\* A submitted exam is completely graded, and each grading that the learner did
\* not report is one grade_item gives for the answer now stored: no save that
\* raced with the submission, and no slow worker, leaves a grade for another
\* answer (_submit_exam_synchronous, _persist_item_result, save_exam_answer).
GradesMatchAnswers ==
    state = "submitted" =>
        \A i \in Items :
            /\ grading[i].status \in TERMINAL_GRADING_STATUSES
            /\ grading[i].method # "self-report" => grading[i] \in WorkerGrades(i, answer[i])

\* The stored summary is the summary of the stored items while the learner is
\* answering and once the exam is submitted, whatever raced in between.
SummaryMatchesItems ==
    state \in {"in-progress", "submitted"} => summary = build_exam_summary(answer, grading)

\* Nothing is counted before submission, and afterwards each item the grader
\* settled has been counted exactly once, with the stored verdict: neither a
\* second submit, nor a second worker, nor a restart counts it again, and a
\* self-report never touches it (_finalize_exam, _submit_exam_synchronous).
TrackingMatchesGrading ==
    /\ state \in {"in-progress", "grading"} => \A i \in Items : tracking[i] = NoTracking
    /\ state = "submitted" =>
         \A i \in Items :
             GraderSettled(grading[i]) =>
                 tracking[i] = build_tracking_update(NoTracking, grading[i].status = "correct")

\* The tracking of an item's problem contains the verdict the learner reported
\* for it, also when another self-report of the exam races with it
\* (self_report_exam_item writes item and tracking in one transaction).
ReportedItemsCounted ==
    \A i \in Items :
        /\ grading[i] = build_grading_result("correct", "self-report")
               => tracking[i].correctCount > 0
        /\ grading[i] = build_grading_result("incorrect", "self-report")
               => tracking[i].failedCount > 0

\* Only a save of an open exam changes an answer: neither a submission, which
\* stores the items it graded, nor a request that read the exam earlier and
\* stores its whole items array, undoes one.
AnswersFrozen ==
    [][state # "in-progress" \/ state' # state => answer' = answer]_vars

\* After submission only items left for review change: a late worker or request
\* never rewrites an item the grader settled.
SettledItemsStay ==
    [][state = "submitted" =>
         \A i \in Items : GraderSettled(grading[i]) => grading'[i] = grading[i]]_vars

\* A discarded exam stays as it was: requests and workers that had read it
\* before the discard neither revive, regrade nor count it.
DiscardIsFinal ==
    [][state = "discarded" => UNCHANGED <<state, answer, grading, tracking>>]_vars

\* A frozen exam does not stay in grading as long as some worker lives: one of
\* them finishes it and its task, also when the one that finalized had lost the
\* task to another, or the learner discards it, despite crashes, released tasks,
\* expired leases and workers that ended with the task.
GradingEnds ==
    (state = "grading") ~>
        \/ state = "discarded"
        \/ state = "submitted" /\ task.status = "completed"
        \/ \A w \in Workers : worker[w].pc = "dead"

-----------------------------------------------------------------------------
(* What the repository says, and the code does not do (see the README) *)

EXAM_TRANSITIONS ==
    {<<"in-progress", "grading">>, <<"in-progress", "submitted">>,
     <<"in-progress", "discarded">>, <<"grading", "submitted">>,
     <<"grading", "discarded">>}

\* domain/state.py: the only state changes are those of EXAM_TRANSITIONS.
OnlyListedTransitions ==
    [][state' # state => <<state, state'>> \in EXAM_TRANSITIONS]_vars

\* exam_grading_parity.md: the self-report endpoint rejects items that are not
\* pending-review and updates the problem tracking exactly once.
SelfReportCountsOnce == \A i \in Items : tracking[i].exposureCount <= 1

=============================================================================

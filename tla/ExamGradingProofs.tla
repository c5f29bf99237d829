------------------------- MODULE ExamGradingProofs -------------------------
(* Theorems about ExamGrading, for every value of its constants. *)
EXTENDS ExamGrading, FiniteSetTheorems, TLAPS

USE NumItemsAssumption, ShortItemsAssumption, AnswersAssumption, WorkersAssumption,
    MaxFaultsAssumption

\* The filters and stored values that are operators of their own.
USE DEF SaveMatches, AnswersUnmodified, Reportable, ReportTracking, Claimable,
        PersistMatches, Finalizable, FinalSummary, ReleasedTask

-----------------------------------------------------------------------------
(* The operators *)

\* The items of an exam are finitely many, so every count of items is a number.
LEMMA CountIsNat == \A S \in SUBSET Items : Cardinality(S) \in Nat
<1>1. IsFiniteSet(Items)
  BY FS_Interval DEF Items
<1> QED
  BY <1>1, FS_Subset, FS_CardinalityType

\* build_exam_summary yields a summary whatever the items hold.
LEMMA SummaryType == \A ans, gr : build_exam_summary(ans, gr) \in Summaries
  BY CountIsNat DEF build_exam_summary, Summaries

\* Every grading a worker may compute is a terminal one.
LEMMA WorkerGradeType ==
  ASSUME NEW i \in Items, NEW a \in RawAnswers, NEW g \in WorkerGrades(i, a)
  PROVE  g \in Grades /\ g.status \in TERMINAL_GRADING_STATUSES /\ g.method # "self-report"
  BY DEF WorkerGrades, grade_item, grade_short_answer_item, grade_objective_item,
         build_grading_result, Grades, Statuses, Methods, TERMINAL_GRADING_STATUSES, Replies

\* The gradings of the synchronous path are gradings of the worker, none of
\* them left for review.
LEMMA SynchronousGrades ==
  ASSUME NEW ans \in [Items -> RawAnswers]
  PROVE  /\ grade_synchronously(ans) \in [Items -> Grades]
         /\ \A i \in Items : /\ grade_synchronously(ans)[i].status \in {"correct", "incorrect"}
                             /\ grade_synchronously(ans)[i].method = "normalized-match"
  BY DEF grade_synchronously, grade_short_answer_item, grade_objective_item,
         build_grading_result, Grades, Statuses, Methods, TERMINAL_GRADING_STATUSES

-----------------------------------------------------------------------------
(* Type correctness *)

LEMMA OneIsItem == 1 \in Items
  BY DEF Items

LEMMA InitialValues ==
  /\ Ungraded \in Grades
  /\ IdleWorker \in WorkerLocals
  /\ IdleRequest \in RequestLocals
  /\ [IdleRequest EXCEPT !.pc = "done"] \in RequestLocals
<1>1. Ungraded \in Grades
  BY DEF Ungraded, build_grading_result, Grades, Statuses, Methods
<1> QED
  BY <1>1, OneIsItem, SummaryType
  DEF IdleWorker, IdleRequest, WorkerPcs, RequestPcs, RawAnswers, WorkerLocals, RequestLocals

\* What the steps do to the records of one request and of one worker.
LEMMA RequestRecords ==
  ASSUME TypeOK, NEW r \in Requests
  PROVE  /\ req[r] \in RequestLocals
         /\ Finish(r) => req' \in [Requests -> RequestLocals]
         /\ \A kind, pc \in RequestPcs, i \in Items, ans \in [Items -> RawAnswers],
               gr \in [Items -> Grades], c \in BOOLEAN :
               Start(r, kind, pc, i, ans, gr, c) => req' \in [Requests -> RequestLocals]
<1>1. req \in [Requests -> RequestLocals]
  BY DEF TypeOK
<1>2. \A pc \in RequestPcs, i \in Items, ans \in [Items -> RawAnswers],
         gr \in [Items -> Grades], c \in BOOLEAN :
         [pc |-> pc, item |-> i, isCorrect |-> c, answer |-> ans, grading |-> gr]
             \in RequestLocals
  BY DEF RequestLocals
<1> QED
  BY <1>1, <1>2, InitialValues DEF Finish, Start

LEMMA WorkerRecords ==
  ASSUME TypeOK, NEW w \in Workers
  PROVE  /\ worker[w] \in WorkerLocals
         /\ Return(w) => worker' \in [Workers -> WorkerLocals]
         /\ \A pc \in WorkerPcs : Goto(w, pc) => worker' \in [Workers -> WorkerLocals]
         /\ \A pc \in WorkerPcs, i \in Items : [worker[w] EXCEPT !.pc = pc, !.item = i] \in WorkerLocals
         /\ \A pc \in WorkerPcs, g \in Grades : [worker[w] EXCEPT !.pc = pc, !.result = g] \in WorkerLocals
         /\ \A pc \in WorkerPcs, s \in Summaries : [worker[w] EXCEPT !.pc = pc, !.summary = s] \in WorkerLocals
<1>1. worker \in [Workers -> WorkerLocals]
  BY DEF TypeOK
<1>2. \A pc \in WorkerPcs : [worker[w] EXCEPT !.pc = pc] \in WorkerLocals
  BY <1>1 DEF WorkerLocals
<1>3. /\ \A pc \in WorkerPcs, i \in Items : [worker[w] EXCEPT !.pc = pc, !.item = i] \in WorkerLocals
      /\ \A pc \in WorkerPcs, g \in Grades : [worker[w] EXCEPT !.pc = pc, !.result = g] \in WorkerLocals
      /\ \A pc \in WorkerPcs, s \in Summaries : [worker[w] EXCEPT !.pc = pc, !.summary = s] \in WorkerLocals
  BY <1>1 DEF WorkerLocals
<1>4. Return(w) => worker' \in [Workers -> WorkerLocals]
  BY <1>1, InitialValues DEF Return
<1>5. \A pc \in WorkerPcs : Goto(w, pc) => worker' \in [Workers -> WorkerLocals]
  BY <1>1, <1>2 DEF Goto
<1> QED
  BY <1>1, <1>3, <1>4, <1>5

LEMMA TrackGradedType ==
  ASSUME TypeOK, NEW gr
  PROVE  TrackGraded(gr) \in [Items -> Trackings]
  BY DEF TypeOK, TrackGraded, build_tracking_update, Trackings

\* The task's record after any of the writes the worker makes to it.
LEMMA TaskRecords ==
  ASSUME TypeOK, NEW w \in Workers
  PROVE  /\ [status |-> "processing", owner |-> w, lease |-> "live"] \in Tasks
         /\ [status |-> "pending", owner |-> NoWorker, lease |-> "none"] \in Tasks
         /\ CompleteIfOwned(w) => /\ task' \in Tasks
                                  /\ task'.status = "processing" => task'.owner \in Workers
         /\ \A l \in {"live", "expired"} :
               /\ [task EXCEPT !.lease = l] \in Tasks
               /\ [task EXCEPT !.lease = l].status = task.status
               /\ [task EXCEPT !.lease = l].owner = task.owner
  BY DEF TypeOK, Tasks, CompleteIfOwned, Owns

\* Every step keeps the type invariant, one action at a time.
LEMMA TypeStep == TypeOK /\ [Next]_vars => TypeOK'
<1> SUFFICES ASSUME TypeOK, [Next]_vars PROVE TypeOK'
  OBVIOUS
<1> USE DEF examVars
<1>0. CASE UNCHANGED vars
  BY <1>0 DEF vars, TypeOK
<1>1. ASSUME NEW r \in Requests, Request(r) PROVE TypeOK'
  <2> USE RequestRecords
  <2>0. /\ req[r].item \in Items
        /\ req[r].answer \in [Items -> RawAnswers]
        /\ req[r].grading \in [Items -> Grades]
    BY DEF RequestLocals
  <2>1. CASE SaveRead(r)
    <3>1. PICK i \in Items, a \in RawAnswers :
             Start(r, "save", "save", i, [answer EXCEPT ![i] = a], grading, FALSE)
      BY <2>1 DEF SaveRead
    <3>2. [answer EXCEPT ![i] = a] \in [Items -> RawAnswers] /\ "save" \in RequestPcs
      BY DEF TypeOK, RequestPcs
    <3> QED BY <2>1, <3>1, <3>2 DEF SaveRead, TypeOK
  <2>2. CASE SaveWrite(r)
    BY <2>2, <2>0, SummaryType DEF SaveWrite, TypeOK
  <2>3. CASE SubmitRead(r)
    <3>1. "submit-async" \in RequestPcs /\ "submit-sync" \in RequestPcs
      BY DEF RequestPcs
    <3>2. \A pc \in RequestPcs :
             [pc |-> pc, item |-> 1, isCorrect |-> FALSE, answer |-> answer,
              grading |-> grading] \in RequestLocals
      BY OneIsItem DEF TypeOK, RequestLocals
    <3>3. req' \in [Requests -> RequestLocals]
      BY <2>3, <3>1, <3>2 DEF SubmitRead, Start, TypeOK
    <3> QED BY <2>3, <3>3 DEF SubmitRead, TypeOK
  <2>4. CASE SubmitSync(r)
    <3>1. grade_synchronously(req[r].answer) \in [Items -> Grades]
      BY <2>0, SynchronousGrades
    <3> QED
      BY <2>4, <2>0, <3>1, TrackGradedType, SummaryType DEF SubmitSync, ExamStates, TypeOK
  <2>5. CASE SubmitAsync(r)
    BY <2>5 DEF SubmitAsync, ExamStates, TypeOK, Tasks
  <2>6. CASE DiscardRead(r)
    <3>1. "discard" \in RequestPcs
      BY DEF RequestPcs
    <3> QED BY <2>6, <3>1, OneIsItem DEF DiscardRead, TypeOK
  <2>7. CASE DiscardWrite(r)
    BY <2>7 DEF DiscardWrite, ExamStates, TypeOK
  <2>8. CASE ReportRead(r)
    <3>1. PICK i \in Items, c \in BOOLEAN :
             LET g == build_grading_result(IF c THEN "correct" ELSE "incorrect", "self-report")
             IN  Start(r, "report", "report", i, answer, [grading EXCEPT ![i] = g], c)
      BY <2>8 DEF ReportRead
    <3>2. PICK g \in Grades :
             Start(r, "report", "report", i, answer, [grading EXCEPT ![i] = g], c)
      BY <3>1 DEF build_grading_result, Grades, Statuses, Methods, TERMINAL_GRADING_STATUSES
    <3>3. [grading EXCEPT ![i] = g] \in [Items -> Grades] /\ "report" \in RequestPcs
      BY DEF RequestPcs, TypeOK
    <3>4. [pc |-> "report", item |-> i, isCorrect |-> c, answer |-> answer,
           grading |-> [grading EXCEPT ![i] = g]] \in RequestLocals
      BY <3>3 DEF TypeOK, RequestLocals
    <3>5. req' \in [Requests -> RequestLocals]
      BY <3>2, <3>4 DEF Start, TypeOK
    <3> QED BY <2>8, <3>5 DEF ReportRead, TypeOK
  <2>9. CASE ReportCommit(r)
    <3>1. \A c : build_tracking_update(tracking[req[r].item], c) \in Trackings
      BY <2>0 DEF TypeOK, build_tracking_update, Trackings
    <3> QED BY <2>9, <2>0, <3>1, SummaryType DEF ReportCommit, TypeOK
  <2> QED
    BY <1>1, <2>1, <2>2, <2>3, <2>4, <2>5, <2>6, <2>7, <2>8, <2>9 DEF Request
<1>2. ASSUME NEW w \in Workers, Step(w) PROVE TypeOK'
  <2> USE WorkerRecords
  <2>0. worker[w].item \in Items /\ worker[w].result \in Grades /\ worker[w].summary \in Summaries
    BY DEF WorkerLocals
  <2>p. \A pc \in {"verify", "read", "complete", "finalize", "persist-read"} : pc \in WorkerPcs
    BY DEF WorkerPcs
  <2>1. CASE Claim(w)
    BY <2>1, <2>p, TaskRecords DEF Claim, TypeOK
  <2>2. CASE Verify(w)
    BY <2>2, <2>p DEF Verify, TypeOK
  <2>3. CASE ReadExam(w)
    <3>1. ASSUME NEW i \in Items,
                 worker' = [worker EXCEPT ![w] = [@ EXCEPT !.pc = "grade", !.item = i]]
          PROVE  worker' \in [Workers -> WorkerLocals]
      BY <3>1 DEF TypeOK, WorkerPcs
    <3> QED BY <2>3, <2>p, <3>1 DEF ReadExam, TypeOK
  <2>4. CASE Grade(w)
    <3>1. PICK g \in WorkerGrades(worker[w].item, answer[worker[w].item]) :
             worker' = [worker EXCEPT ![w] = [@ EXCEPT !.pc = "reverify", !.result = g]]
      BY <2>4 DEF Grade
    <3>2. g \in Grades
      BY <2>0, WorkerGradeType DEF TypeOK
    <3>3. worker' \in [Workers -> WorkerLocals]
      BY <3>1, <3>2 DEF TypeOK, WorkerPcs
    <3> QED BY <2>4, <3>3 DEF Grade, TypeOK
  <2>5. CASE Reverify(w)
    BY <2>5, <2>p DEF Reverify, TypeOK
  <2>6. CASE PersistRead(w)
    <3> DEFINE s == build_exam_summary(answer, [grading EXCEPT ![worker[w].item] = worker[w].result])
    <3>1. s \in Summaries
      BY SummaryType
    <3>2. worker' = [worker EXCEPT ![w] = [@ EXCEPT !.pc = "persist-write", !.summary = s]]
          \/ Goto(w, "verify")
      BY <2>6 DEF PersistRead
    <3> HIDE DEF s
    <3>3. worker' \in [Workers -> WorkerLocals]
      <4>1. [worker[w] EXCEPT !.pc = "persist-write", !.summary = s] \in WorkerLocals
        BY <3>1, WorkerRecords DEF WorkerPcs
      <4>2. worker \in [Workers -> WorkerLocals]
        BY DEF TypeOK
      <4>3. CASE Goto(w, "verify")
        BY <4>3, <2>p
      <4>4. CASE worker' = [worker EXCEPT ![w] = [@ EXCEPT !.pc = "persist-write", !.summary = s]]
        BY <4>1, <4>2, <4>4
      <4> QED BY <3>2, <4>3, <4>4
    <3> QED BY <2>6, <3>3 DEF PersistRead, TypeOK
  <2>7. CASE PersistWrite(w)
    BY <2>7, <2>0, <2>p DEF PersistWrite, TypeOK
  <2>8. CASE Finalize(w)
    <3>1. task' \in Tasks /\ (task'.status = "processing" => task'.owner \in Workers)
      BY <2>8, TaskRecords DEF Finalize, TypeOK
    <3>2. state' \in ExamStates /\ summary' \in Summaries /\ tracking' \in [Items -> Trackings]
      <4>1. \/ UNCHANGED <<state, summary, tracking>>
            \/ /\ state' = "submitted"
               /\ summary' = build_exam_summary(answer, grading)
               /\ tracking' = TrackGraded(grading)
        BY <2>8 DEF Finalize
      <4>2. build_exam_summary(answer, grading) \in Summaries
        BY SummaryType
      <4>3. TrackGraded(grading) \in [Items -> Trackings]
        BY TrackGradedType
      <4> QED BY <4>1, <4>2, <4>3 DEF ExamStates, TypeOK
    <3>3. worker' \in [Workers -> WorkerLocals]
      BY <2>8 DEF Finalize
    <3> QED BY <2>8, <3>1, <3>2, <3>3 DEF Finalize, TypeOK
  <2>9. CASE Complete(w)
    BY <2>9, TaskRecords DEF Complete, TypeOK
  <2> QED
    BY <1>2, <2>1, <2>2, <2>3, <2>4, <2>5, <2>6, <2>7, <2>8, <2>9 DEF Step
<1>3. ASSUME NEW w \in Workers, RefreshLease(w) PROVE TypeOK'
  BY <1>3, TaskRecords DEF RefreshLease, Owns, TypeOK
<1>4. ASSUME NEW w \in Workers, ReleaseOnError(w) PROVE TypeOK'
  <2>1. worker' \in [Workers -> WorkerLocals]
    BY <1>4, WorkerRecords DEF ReleaseOnError
  <2>2. task' \in Tasks /\ (task'.status = "processing" => task'.owner \in Workers)
    BY <1>4, TaskRecords DEF ReleaseOnError, Owns, TypeOK
  <2> QED BY <1>4, <2>1, <2>2 DEF ReleaseOnError, TypeOK
<1>5. ASSUME NEW w \in Workers, Crash(w) PROVE TypeOK'
  <2>1. worker' \in [Workers -> WorkerLocals]
    BY <1>5, WorkerRecords DEF Crash
  <2>2. faults' \in 0 .. MaxFaults
    BY <1>5 DEF Crash, TypeOK
  <2> QED BY <1>5, <2>1, <2>2 DEF Crash, TypeOK
<1>6. CASE MissRefresh
  <2>1. task' \in Tasks /\ (task'.status = "processing" => task'.owner \in Workers)
    BY <1>6, TaskRecords DEF MissRefresh, TypeOK
  <2>2. faults' \in 0 .. MaxFaults
    BY <1>6 DEF MissRefresh, TypeOK
  <2> QED BY <1>6, <2>1, <2>2 DEF MissRefresh, TypeOK
<1>7. CASE LeaseExpires
  BY <1>7, TaskRecords DEF LeaseExpires, TypeOK
<1>8. ASSUME NEW w \in Workers, WorkerDies(w) PROVE TypeOK'
  <2>1. [IdleWorker EXCEPT !.pc = "dead"] \in WorkerLocals
    BY InitialValues DEF WorkerLocals, WorkerPcs
  <2>2. worker' \in [Workers -> WorkerLocals]
    BY <1>8, <2>1 DEF WorkerDies, TypeOK
  <2>3. faults' \in 0 .. MaxFaults
    BY <1>8 DEF WorkerDies, TypeOK
  <2> QED BY <1>8, <2>2, <2>3 DEF WorkerDies, TypeOK
<1> QED
  BY <1>0, <1>1, <1>2, <1>3, <1>4, <1>5, <1>6, <1>7, <1>8 DEF Next

LEMMA TypeInit == Init => TypeOK
  BY InitialValues, SummaryType
  DEF Init, TypeOK, ExamStates, RawAnswers, NoTracking, NoTask, Trackings, Tasks

\* The exam, its task, its workers and its requests always hold well-formed values.
THEOREM TypeCorrect == Spec => []TypeOK
  BY TypeInit, TypeStep, PTL DEF Spec

-----------------------------------------------------------------------------
(* The inductive invariant behind the safety properties *)

\* Until a submission nothing is graded, no task exists and no worker holds one.
PristineWhileOpen ==
    state = "in-progress" =>
        /\ \A i \in Items : grading[i] = Ungraded
        /\ task.status = "none"
        /\ \A w \in Workers : ~ Busy(w)

\* What a grader stored for an item fits the item's frozen answer.
GradesFit ==
    state \in {"grading", "submitted"} =>
        \A i \in Items :
            grading[i] \in {Ungraded} \union WorkerGrades(i, answer[i])
                \/ grading[i].method = "self-report"

\* So does the result a worker carries to _persist_item_result.
ResultFits(w) ==
    worker[w].pc \in {"reverify", "persist-read", "persist-write"} =>
        worker[w].result \in WorkerGrades(worker[w].item, answer[worker[w].item])

\* A save carries an ungraded exam.
SaveFits(r) ==
    req[r].pc = "save" => \A i \in Items : req[r].grading[i] = Ungraded

\* The synchronous path was chosen for answers that need no vlm grading.
SubmitFits(r) ==
    req[r].pc = "submit-sync" => ~ exam_requires_vlm_grading(req[r].answer)

\* The stale items a self-report will write agree with the stored ones on
\* every item settled on either side, and its own item is not one of them.
ReportFits(r) ==
    req[r].pc = "report" =>
        /\ state \in {"submitted", "discarded"}
        /\ req[r].answer = answer
        /\ AllTerminal(req[r].grading)
        /\ req[r].grading[req[r].item].method = "self-report"
        /\ \A i \in Items :
              /\ GraderSettled(grading[i]) => req[r].grading[i] = grading[i]
              /\ GraderSettled(req[r].grading[i]) => grading[i] = req[r].grading[i]
              /\ \/ req[r].grading[i].method = "self-report"
                 \/ req[r].grading[i] \in WorkerGrades(i, answer[i])

ExamInv ==
    /\ PristineWhileOpen
    /\ GradesFit
    /\ \A w \in Workers : ResultFits(w)
    /\ \A r \in Requests : SaveFits(r) /\ SubmitFits(r) /\ ReportFits(r)
    /\ state = "submitted" => AllTerminal(grading)
    /\ SummaryMatchesItems
    /\ TrackingMatchesGrading

LEMMA SynchronousGradesFit ==
  ASSUME NEW ans \in [Items -> RawAnswers], ~ exam_requires_vlm_grading(ans), NEW i \in Items
  PROVE  grade_synchronously(ans)[i] \in WorkerGrades(i, ans[i])
<1>1. CASE i \in ShortItems
  <2>1. ans[i] = NoAnswer
    BY <1>1 DEF exam_requires_vlm_grading, requires_vlm_grading
  <2>2. grade_synchronously(ans)[i] = grade_short_answer_item(NoAnswer, "fatal", "fatal")
    BY <1>1 DEF grade_synchronously
  <2> QED BY <1>1, <2>1, <2>2 DEF WorkerGrades, grade_item, Replies
<1>2. CASE i \notin ShortItems
  BY <1>2 DEF grade_synchronously, WorkerGrades, grade_item
<1> QED BY <1>1, <1>2

\* TrackGraded counts each settled item of an uncounted exam once.
LEMMA TrackGradedOnce ==
  ASSUME NEW gr, \A i \in Items : tracking[i] = NoTracking,
         NEW i \in Items, GraderSettled(gr[i])
  PROVE  TrackGraded(gr)[i] = build_tracking_update(NoTracking, gr[i].status = "correct")
<1>1. gr[i].status # "pending-review"
  BY DEF GraderSettled
<1> QED BY <1>1 DEF TrackGraded

LEMMA ExamInvInit == Init => ExamInv
<1> SUFFICES ASSUME Init PROVE ExamInv
  OBVIOUS
<1> USE DEF Init
<1>1. PristineWhileOpen
  BY DEF PristineWhileOpen, NoTask, Busy, IdleWorker
<1>2. GradesFit /\ SummaryMatchesItems /\ TrackingMatchesGrading
  BY DEF GradesFit, SummaryMatchesItems, TrackingMatchesGrading
<1>3. \A w \in Workers : ResultFits(w)
  BY DEF ResultFits, IdleWorker
<1>4. \A r \in Requests : SaveFits(r) /\ SubmitFits(r) /\ ReportFits(r)
  BY DEF SaveFits, SubmitFits, ReportFits, IdleRequest
<1> QED BY <1>1, <1>2, <1>3, <1>4 DEF ExamInv

\* A step that only moves workers and the task keeps the invariant if no task
\* is held in an open exam after it and it keeps the results workers carry.
LEMMA WorkerStep ==
  ASSUME ExamInv, UNCHANGED <<state, answer, grading, summary, tracking, req>>,
         state # "in-progress" \/ PristineWhileOpen',
         \A w \in Workers : ResultFits(w)'
  PROVE  ExamInv'
<1>1. PristineWhileOpen' /\ GradesFit' /\ SummaryMatchesItems' /\ TrackingMatchesGrading'
  BY DEF ExamInv, PristineWhileOpen, GradesFit, SummaryMatchesItems, TrackingMatchesGrading
<1>2. \A r \in Requests : SaveFits(r)' /\ SubmitFits(r)' /\ ReportFits(r)'
  BY DEF ExamInv, SaveFits, SubmitFits, ReportFits
<1>3. state' = "submitted" => AllTerminal(grading')
  BY DEF ExamInv
<1> QED BY <1>1, <1>2, <1>3 DEF ExamInv

\* A request that only reads keeps the invariant if what it read fits.
LEMMA ReadStep ==
  ASSUME TypeOK, ExamInv, UNCHANGED <<state, answer, grading, summary, tracking, task, worker>>,
         NEW r \in Requests, NEW rec, req' = [req EXCEPT ![r] = rec],
         SaveFits(r)' /\ SubmitFits(r)' /\ ReportFits(r)'
  PROVE  ExamInv'
<1>1. PristineWhileOpen' /\ GradesFit' /\ SummaryMatchesItems' /\ TrackingMatchesGrading'
  BY DEF ExamInv, PristineWhileOpen, Busy, GradesFit, SummaryMatchesItems, TrackingMatchesGrading
<1>2. ASSUME NEW q \in Requests PROVE SaveFits(q)' /\ SubmitFits(q)' /\ ReportFits(q)'
  <2>1. CASE q = r
    BY <2>1
  <2>2. CASE q # r
    <3>1. req'[q] = req[q]
      BY <2>2 DEF TypeOK
    <3>2. SaveFits(q) /\ SubmitFits(q) /\ ReportFits(q)
      BY DEF ExamInv
    <3> QED BY <3>1, <3>2 DEF SaveFits, SubmitFits, ReportFits
  <2> QED BY <2>1, <2>2
<1>3. \A w \in Workers : ResultFits(w)'
  BY DEF ExamInv, ResultFits
<1>4. state' = "submitted" => AllTerminal(grading')
  BY DEF ExamInv
<1> QED BY <1>1, <1>2, <1>3, <1>4 DEF ExamInv

\* After its last step a request holds nothing; the others hold what they held.
LEMMA FinishedRequest ==
  ASSUME TypeOK, NEW r \in Requests, Finish(r)
  PROVE  /\ req'[r].pc = "done"
         /\ \A q \in Requests \ {r} : req'[q] = req[q]
<1>1. [IdleRequest EXCEPT !.pc = "done"].pc = "done"
  BY DEF IdleRequest
<1> QED BY <1>1 DEF Finish, TypeOK

\* The step of a request that finds the exam in a state it does not act on.
LEMMA AbandonStep ==
  ASSUME TypeOK, ExamInv, UNCHANGED <<state, answer, grading, summary, tracking, task, worker>>,
         NEW r \in Requests, Finish(r)
  PROVE  ExamInv'
<1>1. SaveFits(r)' /\ SubmitFits(r)' /\ ReportFits(r)'
  BY FinishedRequest DEF SaveFits, SubmitFits, ReportFits
<1> QED BY <1>1, ReadStep DEF Finish

LEMMA RequestStep ==
  ASSUME TypeOK, ExamInv, NEW r \in Requests, Request(r)
  PROVE  ExamInv'
<1>1. CASE SaveRead(r)
  <2>1. PICK i \in Items, a \in RawAnswers :
           Start(r, "save", "save", i, [answer EXCEPT ![i] = a], grading, FALSE)
    BY <1>1 DEF SaveRead
  <2>2. req'[r].pc = "save" /\ req'[r].grading = grading
    BY <2>1 DEF Start, TypeOK
  <2>3. SaveFits(r)' /\ SubmitFits(r)' /\ ReportFits(r)'
    BY <1>1, <2>2 DEF SaveRead, ExamInv, PristineWhileOpen, Busy, SaveFits, SubmitFits, ReportFits
  <2> QED BY <1>1, <2>1, <2>3, ReadStep DEF SaveRead, Start
<1>2. CASE SaveWrite(r)
  <2>1. CASE state = "in-progress"
    <3>1. \A i \in Items : grading'[i] = Ungraded
      BY <1>2, <2>1 DEF SaveWrite, ExamInv, SaveFits
    <3>2. summary' = build_exam_summary(answer', grading')
      BY <1>2, <2>1 DEF SaveWrite
    <3>3. UNCHANGED <<state, tracking, task, worker>>
      BY <1>2 DEF SaveWrite
    <3>4. PristineWhileOpen' /\ SummaryMatchesItems' /\ TrackingMatchesGrading' /\ GradesFit'
      BY <2>1, <3>1, <3>2, <3>3
      DEF ExamInv, PristineWhileOpen, Busy, SummaryMatchesItems, TrackingMatchesGrading, GradesFit
    <3>5. \A w \in Workers : ResultFits(w)'
      BY <2>1, <3>3 DEF ExamInv, PristineWhileOpen, Busy, ResultFits
    <3>6. ASSUME NEW q \in Requests PROVE SaveFits(q)' /\ SubmitFits(q)' /\ ReportFits(q)'
      <4>1. req[q].pc # "report"
        BY <2>1 DEF ExamInv, ReportFits
      <4>2. req'[q].pc = "done" \/ req'[q] = req[q]
        BY <1>2, FinishedRequest DEF SaveWrite
      <4> QED BY <4>1, <4>2 DEF ExamInv, SaveFits, SubmitFits, ReportFits
    <3> QED BY <2>1, <3>3, <3>4, <3>5, <3>6 DEF ExamInv
  <2>2. CASE state # "in-progress"
    BY <1>2, <2>2, AbandonStep DEF SaveWrite
  <2> QED BY <2>1, <2>2
<1>3. CASE SubmitRead(r)
  <2>1. /\ req'[r].answer = answer
        /\ req'[r].pc = IF exam_requires_vlm_grading(answer)
                        THEN "submit-async" ELSE "submit-sync"
    BY <1>3 DEF SubmitRead, Start, TypeOK
  <2>2. exam_requires_vlm_grading(req'[r].answer) = exam_requires_vlm_grading(answer)
    BY <2>1
  <2>3. SaveFits(r)' /\ ReportFits(r)'
    BY <2>1 DEF SaveFits, ReportFits
  <2>4. SubmitFits(r)'
    BY <2>1, <2>2 DEF SubmitFits, exam_requires_vlm_grading, requires_vlm_grading
  <2> QED BY <1>3, <2>3, <2>4, ReadStep DEF SubmitRead, Start
<1>4. CASE SubmitSync(r)
  <2> DEFINE graded == grade_synchronously(answer)
  <2>1. CASE state = "in-progress" /\ answer = req[r].answer
    <3>1. /\ state' = "submitted" /\ answer' = answer /\ grading' = graded
          /\ summary' = build_exam_summary(answer, graded) /\ tracking' = TrackGraded(graded)
          /\ UNCHANGED <<task, worker>>
      BY <1>4, <2>1 DEF SubmitSync
    <3>2. answer \in [Items -> RawAnswers] /\ ~ exam_requires_vlm_grading(answer)
      BY <1>4, <2>1 DEF TypeOK, ExamInv, SubmitFits, SubmitSync
    <3>3. \A i \in Items : /\ graded[i] \in WorkerGrades(i, answer[i])
                           /\ graded[i].status \in {"correct", "incorrect"}
      BY <3>2, SynchronousGrades, SynchronousGradesFit
    <3>4. \A i \in Items : tracking[i] = NoTracking
      BY <2>1 DEF ExamInv, TrackingMatchesGrading
    <3>5. \A i \in Items : GraderSettled(graded[i]) =>
             TrackGraded(graded)[i] = build_tracking_update(NoTracking, graded[i].status = "correct")
      BY <3>4, TrackGradedOnce
    <3> HIDE DEF graded
    <3>6. /\ PristineWhileOpen' /\ GradesFit' /\ SummaryMatchesItems' /\ TrackingMatchesGrading'
          /\ AllTerminal(grading')
      BY <3>1, <3>3, <3>5
      DEF PristineWhileOpen, GradesFit, SummaryMatchesItems, TrackingMatchesGrading,
          AllTerminal, TERMINAL_GRADING_STATUSES
    <3>7. \A w \in Workers : ResultFits(w)'
      BY <2>1, <3>1 DEF ExamInv, PristineWhileOpen, ResultFits
    <3>8. ASSUME NEW q \in Requests PROVE SaveFits(q)' /\ SubmitFits(q)' /\ ReportFits(q)'
      <4>1. req[q].pc # "report"
        BY <2>1 DEF ExamInv, ReportFits
      <4>2. req'[q].pc = "done" \/ req'[q] = req[q]
        BY <1>4, FinishedRequest DEF SubmitSync
      <4> QED BY <4>1, <4>2 DEF ExamInv, SaveFits, SubmitFits, ReportFits
    <3> QED BY <3>6, <3>7, <3>8 DEF ExamInv
  <2>2. CASE ~ (state = "in-progress" /\ answer = req[r].answer)
    BY <1>4, <2>2, AbandonStep DEF SubmitSync, examVars
  <2> QED BY <2>1, <2>2
<1>5. CASE SubmitAsync(r)
  <2>1. CASE state = "in-progress"
    <3>1. state' = "grading" /\ UNCHANGED <<answer, grading, summary, tracking, worker>>
      BY <1>5, <2>1 DEF SubmitAsync
    <3>2. PristineWhileOpen' /\ GradesFit' /\ SummaryMatchesItems' /\ TrackingMatchesGrading'
      BY <2>1, <3>1
      DEF ExamInv, PristineWhileOpen, GradesFit, SummaryMatchesItems, TrackingMatchesGrading
    <3>3. \A w \in Workers : ResultFits(w)'
      BY <3>1 DEF ExamInv, ResultFits
    <3>4. ASSUME NEW q \in Requests PROVE SaveFits(q)' /\ SubmitFits(q)' /\ ReportFits(q)'
      <4>1. req[q].pc # "report"
        BY <2>1 DEF ExamInv, ReportFits
      <4>2. req'[q].pc = "done" \/ req'[q] = req[q]
        BY <1>5, FinishedRequest DEF SubmitAsync
      <4> QED BY <4>1, <4>2 DEF ExamInv, SaveFits, SubmitFits, ReportFits
    <3> QED BY <3>1, <3>2, <3>3, <3>4 DEF ExamInv
  <2>2. CASE state # "in-progress"
    BY <1>5, <2>2, AbandonStep DEF SubmitAsync
  <2> QED BY <2>1, <2>2
<1>6. CASE DiscardRead(r)
  <2>1. req'[r].pc = "discard"
    BY <1>6 DEF DiscardRead, Start, TypeOK
  <2>2. SaveFits(r)' /\ SubmitFits(r)' /\ ReportFits(r)'
    BY <2>1 DEF SaveFits, SubmitFits, ReportFits
  <2> QED BY <1>6, <2>2, ReadStep DEF DiscardRead, Start
<1>7. CASE DiscardWrite(r)
  <2>1. state' = "discarded" /\ UNCHANGED <<answer, grading, summary, tracking, task, worker>>
    BY <1>7 DEF DiscardWrite
  <2>2. PristineWhileOpen' /\ GradesFit' /\ SummaryMatchesItems' /\ TrackingMatchesGrading'
    BY <2>1 DEF PristineWhileOpen, GradesFit, SummaryMatchesItems, TrackingMatchesGrading
  <2>3. \A w \in Workers : ResultFits(w)'
    BY <2>1 DEF ExamInv, ResultFits
  <2>4. ASSUME NEW q \in Requests PROVE SaveFits(q)' /\ SubmitFits(q)' /\ ReportFits(q)'
    <3>1. req'[q].pc = "done" \/ req'[q] = req[q]
      BY <1>7, FinishedRequest DEF DiscardWrite
    <3> QED BY <2>1, <3>1 DEF ExamInv, SaveFits, SubmitFits, ReportFits
  <2> QED BY <2>1, <2>2, <2>3, <2>4 DEF ExamInv
<1>8. CASE ReportRead(r)
  <2>1. PICK i \in Items, c \in BOOLEAN :
           /\ grading[i].status = "pending-review"
           /\ LET g == build_grading_result(IF c THEN "correct" ELSE "incorrect", "self-report")
              IN  Start(r, "report", "report", i, answer, [grading EXCEPT ![i] = g], c)
    BY <1>8 DEF ReportRead
  <2>2. PICK g : /\ g.method = "self-report" /\ g.status \in {"correct", "incorrect"}
                 /\ Start(r, "report", "report", i, answer, [grading EXCEPT ![i] = g], c)
    BY <2>1 DEF build_grading_result
  <2>3. /\ req'[r].pc = "report" /\ req'[r].item = i /\ req'[r].answer = answer
        /\ req'[r].grading = [grading EXCEPT ![i] = g]
    BY <2>2 DEF Start, TypeOK
  <2>4. state = "submitted" /\ state' = state /\ answer' = answer /\ grading' = grading
    BY <1>8 DEF ReportRead
  <2>5. AllTerminal(grading) /\ grading \in [Items -> Grades]
    BY <2>4 DEF ExamInv, TypeOK
  <2>6. \A j \in Items : grading[j] \in WorkerGrades(j, answer[j]) \/ grading[j].method = "self-report"
    BY <2>4, <2>5 DEF ExamInv, GradesFit, AllTerminal, Ungraded, build_grading_result,
                      TERMINAL_GRADING_STATUSES
  <2>7. ReportFits(r)'
    BY <2>1, <2>2, <2>3, <2>4, <2>5, <2>6
    DEF ReportFits, AllTerminal, GraderSettled, TERMINAL_GRADING_STATUSES
  <2>8. SaveFits(r)' /\ SubmitFits(r)'
    BY <2>3 DEF SaveFits, SubmitFits
  <2> QED BY <1>8, <2>2, <2>7, <2>8, ReadStep DEF ReportRead, Start
<1>9. CASE ReportCommit(r)
  <2>1. CASE state = "submitted"
    <3> DEFINE i == req[r].item
    <3>1. /\ state' = state /\ answer' = answer /\ grading' = req[r].grading
          /\ summary' = build_exam_summary(answer', grading')
          /\ tracking' = [tracking EXCEPT ![i] = build_tracking_update(tracking[i], req[r].isCorrect)]
          /\ UNCHANGED <<task, worker>>
      BY <1>9, <2>1 DEF ReportCommit, ExamInv, ReportFits
    <3>2. ReportFits(r) /\ req[r].pc = "report"
      BY <1>9 DEF ExamInv, ReportCommit
    <3>3. \A j \in Items : GraderSettled(grading'[j]) => grading[j] = grading'[j] /\ j # i
      BY <3>1, <3>2 DEF ReportFits, GraderSettled
    <3>4. ASSUME NEW j \in Items, GraderSettled(grading'[j])
          PROVE  tracking'[j] = build_tracking_update(NoTracking, grading'[j].status = "correct")
      <4>1. tracking'[j] = tracking[j]
        BY <3>1, <3>3, <3>4 DEF TypeOK
      <4>2. GraderSettled(grading[j]) /\ grading[j] = grading'[j]
        BY <3>3, <3>4
      <4> QED BY <2>1, <4>1, <4>2 DEF ExamInv, TrackingMatchesGrading
    <3>5. GradesFit' /\ AllTerminal(grading')
      BY <3>1, <3>2 DEF GradesFit, ReportFits
    <3>6. PristineWhileOpen' /\ SummaryMatchesItems' /\ TrackingMatchesGrading'
      BY <2>1, <3>1, <3>4 DEF PristineWhileOpen, SummaryMatchesItems, TrackingMatchesGrading
    <3>7. \A w \in Workers : ResultFits(w)'
      BY <3>1 DEF ExamInv, ResultFits
    <3>8. ASSUME NEW q \in Requests PROVE SaveFits(q)' /\ SubmitFits(q)' /\ ReportFits(q)'
      <4>1. CASE q = r
        BY <1>9, <4>1, FinishedRequest DEF ReportCommit, SaveFits, SubmitFits, ReportFits
      <4>2. CASE q # r
        <5>1. req'[q] = req[q]
          BY <1>9, <4>2, FinishedRequest DEF ReportCommit
        <5>2. SaveFits(q) /\ SubmitFits(q) /\ ReportFits(q)
          BY DEF ExamInv
        <5>3. SaveFits(q)' /\ SubmitFits(q)'
          BY <5>1, <5>2 DEF SaveFits, SubmitFits
        <5>4. \A j \in Items : GraderSettled(grading'[j]) => grading[j] = grading'[j]
          BY <3>3
        <5>5. \A j \in Items : GraderSettled(grading[j]) => grading'[j] = grading[j]
          BY <3>1, <3>2 DEF ReportFits
        <5>6. ReportFits(q)'
          BY <3>1, <5>1, <5>2, <5>4, <5>5 DEF ReportFits
        <5> QED BY <5>3, <5>6
      <4> QED BY <4>1, <4>2
    <3> QED BY <3>5, <3>6, <3>7, <3>8 DEF ExamInv
  <2>2. CASE state # "submitted"
    BY <1>9, <2>2, AbandonStep DEF ReportCommit
  <2> QED BY <2>1, <2>2
<1> QED
  BY <1>1, <1>2, <1>3, <1>4, <1>5, <1>6, <1>7, <1>8, <1>9 DEF Request

\* A worker's locals after Goto and Return.
LEMMA WorkerMoves ==
  ASSUME TypeOK, NEW w \in Workers
  PROVE  /\ \A pc : Goto(w, pc) =>
               /\ worker'[w].pc = pc /\ worker'[w].item = worker[w].item
               /\ worker'[w].result = worker[w].result
               /\ \A v \in Workers \ {w} : worker'[v] = worker[v]
         /\ Return(w) =>
               /\ worker'[w].pc = "idle"
               /\ \A v \in Workers \ {w} : worker'[v] = worker[v]
  BY DEF TypeOK, WorkerLocals, Goto, Return, IdleWorker

\* Moving to a step that carries no new result keeps every result fitting.
LEMMA ResultsKept ==
  ASSUME TypeOK, ExamInv, UNCHANGED answer, NEW w \in Workers, NEW pc,
         Goto(w, pc) \/ Return(w),
         pc \in {"persist-read", "persist-write"} => worker[w].pc \in {"reverify", "persist-read"},
         pc # "reverify"
  PROVE  \A v \in Workers : ResultFits(v)'
<1>1. ASSUME NEW v \in Workers PROVE ResultFits(v)'
  <2>1. ResultFits(v) /\ ResultFits(w)
    BY DEF ExamInv
  <2>2. CASE v # w
    <3>1. worker'[v] = worker[v]
      BY <2>2, WorkerMoves
    <3> QED BY <2>1, <3>1 DEF ResultFits
  <2>3. CASE v = w /\ Return(w)
    BY <2>3, WorkerMoves DEF ResultFits
  <2>4. CASE v = w /\ Goto(w, pc)
    <3>1. /\ worker'[w].pc = pc /\ worker'[w].item = worker[w].item
          /\ worker'[w].result = worker[w].result
      BY <2>4, WorkerMoves
    <3> QED BY <2>1, <2>4, <3>1 DEF ResultFits
  <2> QED BY <2>2, <2>3, <2>4
<1> QED BY <1>1

\* The grading workers keep the invariant.
LEMMA WorkerStepInv ==
  ASSUME TypeOK, ExamInv, NEW w \in Workers, Step(w)
  PROVE  ExamInv'
<1> USE DEF examVars
<1>0. state # "in-progress"
  BY DEF ExamInv, PristineWhileOpen, Busy, Claimable, Step, Claim, Verify, ReadExam, Grade, Reverify,
         PersistRead, PersistWrite, Finalize, Complete
<1>1. CASE Claim(w)
  <2>1. \A v \in Workers : ResultFits(v)'
    BY <1>1, ResultsKept DEF Claim
  <2> QED BY <1>0, <1>1, <2>1, WorkerStep DEF Claim
<1>2. CASE Verify(w)
  <2>1. \A v \in Workers : ResultFits(v)'
    BY <1>2, ResultsKept DEF Verify
  <2> QED BY <1>0, <1>2, <2>1, WorkerStep DEF Verify
<1>3. CASE ReadExam(w)
  <2>1. ASSUME NEW i \in Items,
               worker' = [worker EXCEPT ![w] = [@ EXCEPT !.pc = "grade", !.item = i]]
        PROVE  \A v \in Workers : ResultFits(v)'
    <3>1. worker'[w].pc = "grade" /\ \A v \in Workers \ {w} : worker'[v] = worker[v]
      BY <2>1 DEF TypeOK, WorkerLocals
    <3> QED BY <1>3, <3>1 DEF ReadExam, ExamInv, ResultFits
  <2>2. ASSUME Goto(w, "complete") \/ Goto(w, "finalize") \/ Return(w)
        PROVE  \A v \in Workers : ResultFits(v)'
    BY <1>3, <2>2, ResultsKept DEF ReadExam
  <2>3. \A v \in Workers : ResultFits(v)'
    BY <1>3, <2>1, <2>2 DEF ReadExam
  <2> QED BY <1>0, <1>3, <2>3, WorkerStep DEF ReadExam
<1>4. CASE Grade(w)
  <2>1. PICK g \in WorkerGrades(worker[w].item, answer[worker[w].item]) :
           worker' = [worker EXCEPT ![w] = [@ EXCEPT !.pc = "reverify", !.result = g]]
    BY <1>4 DEF Grade
  <2>2. /\ worker'[w].item = worker[w].item /\ worker'[w].result = g
        /\ \A v \in Workers \ {w} : worker'[v] = worker[v]
    BY <2>1 DEF TypeOK, WorkerLocals
  <2>3. \A v \in Workers : ResultFits(v)'
    BY <1>4, <2>1, <2>2 DEF Grade, ExamInv, ResultFits
  <2> QED BY <1>0, <1>4, <2>3, WorkerStep DEF Grade
<1>5. CASE Reverify(w)
  <2>1. \A v \in Workers : ResultFits(v)'
    BY <1>5, ResultsKept DEF Reverify
  <2> QED BY <1>0, <1>5, <2>1, WorkerStep DEF Reverify
<1>6. CASE PersistRead(w)
  <2> DEFINE s == build_exam_summary(answer, [grading EXCEPT ![worker[w].item] = worker[w].result])
  <2>1. CASE Goto(w, "verify")
    <3>1. \A v \in Workers : ResultFits(v)'
      BY <1>6, <2>1, ResultsKept DEF PersistRead
    <3> QED BY <1>0, <1>6, <3>1, WorkerStep DEF PersistRead
  <2>2. CASE worker' = [worker EXCEPT ![w] = [@ EXCEPT !.pc = "persist-write", !.summary = s]]
    <3> HIDE DEF s
    <3>1. /\ worker'[w].item = worker[w].item /\ worker'[w].result = worker[w].result
          /\ \A v \in Workers \ {w} : worker'[v] = worker[v]
      BY <2>2 DEF TypeOK, WorkerLocals
    <3>2. \A v \in Workers : ResultFits(v)'
      BY <1>6, <3>1 DEF PersistRead, ExamInv, ResultFits
    <3> QED BY <1>0, <1>6, <3>2, WorkerStep DEF PersistRead
  <2> QED BY <1>6, <2>1, <2>2 DEF PersistRead
<1>7. CASE PersistWrite(w)
  <2>1. \A v \in Workers : ResultFits(v)'
    BY <1>7, ResultsKept DEF PersistWrite
  <2>2. CASE state = "grading"
    <3>1. /\ grading' = [grading EXCEPT ![worker[w].item] = worker[w].result]
          /\ UNCHANGED <<state, answer, tracking, task, req>>
      BY <1>7, <2>2 DEF PersistWrite
    <3>2. worker[w].result \in WorkerGrades(worker[w].item, answer[worker[w].item])
      BY <1>7 DEF PersistWrite, ExamInv, ResultFits
    <3>3. GradesFit'
      BY <2>2, <3>1, <3>2 DEF ExamInv, GradesFit, TypeOK
    <3>4. PristineWhileOpen' /\ SummaryMatchesItems' /\ TrackingMatchesGrading'
      BY <2>2, <3>1 DEF ExamInv, PristineWhileOpen, SummaryMatchesItems, TrackingMatchesGrading
    <3>5. \A r \in Requests : SaveFits(r)' /\ SubmitFits(r)' /\ ReportFits(r)'
      BY <2>2, <3>1 DEF ExamInv, SaveFits, SubmitFits, ReportFits
    <3> QED BY <2>1, <2>2, <3>1, <3>3, <3>4, <3>5 DEF ExamInv
  <2>3. CASE state # "grading"
    BY <1>0, <1>7, <2>1, <2>3, WorkerStep DEF PersistWrite
  <2> QED BY <2>2, <2>3
<1>8. CASE Finalize(w)
  <2>1. \A v \in Workers : ResultFits(v)'
    BY <1>8, ResultsKept DEF Finalize
  <2>2. CASE UNCHANGED <<state, summary, tracking>>
    BY <1>0, <1>8, <2>1, <2>2, WorkerStep DEF Finalize
  <2>3. CASE ~ UNCHANGED <<state, summary, tracking>>
    <3>1. /\ state = "grading" /\ AllTerminal(grading) /\ state' = "submitted"
          /\ summary' = build_exam_summary(answer, grading)
          /\ tracking' = TrackGraded(grading)
          /\ UNCHANGED <<answer, grading, req>>
      BY <1>8, <2>3 DEF Finalize
    <3>2. \A i \in Items : tracking[i] = NoTracking
      BY <3>1 DEF ExamInv, TrackingMatchesGrading
    <3>3. TrackingMatchesGrading'
      BY <3>1, <3>2, TrackGradedOnce DEF TrackingMatchesGrading
    <3>4. PristineWhileOpen' /\ GradesFit' /\ SummaryMatchesItems' /\ AllTerminal(grading')
      BY <3>1 DEF ExamInv, PristineWhileOpen, GradesFit, SummaryMatchesItems
    <3>5. \A r \in Requests : SaveFits(r)' /\ SubmitFits(r)' /\ ReportFits(r)'
      BY <3>1 DEF ExamInv, SaveFits, SubmitFits, ReportFits
    <3> QED BY <2>1, <3>3, <3>4, <3>5 DEF ExamInv
  <2> QED BY <2>2, <2>3
<1>9. CASE Complete(w)
  <2>1. \A v \in Workers : ResultFits(v)'
    BY <1>9, ResultsKept DEF Complete
  <2> QED BY <1>0, <1>9, <2>1, WorkerStep DEF Complete
<1> QED
  BY <1>1, <1>2, <1>3, <1>4, <1>5, <1>6, <1>7, <1>8, <1>9 DEF Step

\* Faults and the passing of time keep it too.
LEMMA FaultStep ==
  ASSUME TypeOK, ExamInv,
         \/ \E w \in Workers : RefreshLease(w) \/ ReleaseOnError(w) \/ WorkerDies(w) \/ Crash(w)
         \/ MissRefresh
         \/ LeaseExpires
  PROVE  ExamInv'
<1> USE DEF examVars
<1>1. UNCHANGED <<state, answer, grading, summary, tracking, req>>
  BY DEF RefreshLease, ReleaseOnError, WorkerDies, Crash, MissRefresh, LeaseExpires
<1>2. ASSUME NEW w \in Workers, WorkerDies(w)
      PROVE  worker'[w].pc = "dead" /\ \A v \in Workers \ {w} : worker'[v] = worker[v]
  BY <1>2 DEF WorkerDies, TypeOK, WorkerLocals, IdleWorker
<1>3. \A v \in Workers : ResultFits(v)'
  <2>1. CASE UNCHANGED worker
    BY <1>1, <2>1 DEF ExamInv, ResultFits
  <2>2. CASE \E w \in Workers : Return(w)
    BY <1>1, <2>2, ResultsKept
  <2>3. CASE \E w \in Workers : WorkerDies(w)
    BY <1>1, <1>2, <2>3 DEF ExamInv, ResultFits
  <2> QED BY <2>1, <2>2, <2>3 DEF RefreshLease, ReleaseOnError, Crash, MissRefresh, LeaseExpires
<1>4. ASSUME state = "in-progress" PROVE PristineWhileOpen'
  <2>1. task.status = "none" /\ \A v \in Workers : ~ Busy(v)
    BY <1>4 DEF ExamInv, PristineWhileOpen
  <2>2. PICK w \in Workers : WorkerDies(w) \/ Crash(w)
    BY <2>1 DEF RefreshLease, ReleaseOnError, MissRefresh, LeaseExpires
  <2>3. worker'[w].pc \in {"idle", "dead"} /\ \A v \in Workers \ {w} : worker'[v] = worker[v]
    BY <1>2, <2>2, WorkerMoves DEF Crash
  <2>4. \A v \in Workers : ~ Busy(v)'
    BY <2>1, <2>3 DEF Busy
  <2> QED BY <1>1, <2>1, <2>2, <2>4 DEF ExamInv, PristineWhileOpen, WorkerDies, Crash
<1> QED BY <1>1, <1>3, <1>4, WorkerStep

LEMMA ExamInvStep == TypeOK /\ ExamInv /\ [Next]_vars => ExamInv'
<1> SUFFICES ASSUME TypeOK, ExamInv, [Next]_vars PROVE ExamInv'
  OBVIOUS
<1>1. CASE UNCHANGED vars
  BY <1>1 DEF vars, ExamInv, PristineWhileOpen, Busy, GradesFit, ResultFits, SaveFits, SubmitFits,
              ReportFits, SummaryMatchesItems, TrackingMatchesGrading
<1>2. CASE Next
  BY <1>2, RequestStep, WorkerStepInv, FaultStep DEF Next
<1> QED BY <1>1, <1>2

LEMMA ExamInvCorrect == Spec => [](TypeOK /\ ExamInv)
<1>1. Init => TypeOK /\ ExamInv
  BY TypeInit, ExamInvInit
<1>2. TypeOK /\ ExamInv /\ [Next]_vars => (TypeOK /\ ExamInv)'
  BY TypeStep, ExamInvStep
<1> QED BY <1>1, <1>2, PTL DEF Spec

-----------------------------------------------------------------------------
(* The safety theorems *)

\* However saves, submissions, workers and restarts interleave, a submitted
\* exam is fully graded and every grade belongs to the stored answer.
THEOREM GradesCorrect == Spec => []GradesMatchAnswers
<1>1. ExamInv => GradesMatchAnswers
  BY DEF ExamInv, GradesFit, GradesMatchAnswers, AllTerminal, Ungraded, build_grading_result,
         TERMINAL_GRADING_STATUSES
<1> QED BY <1>1, ExamInvCorrect, PTL

\* The summary is the items' summary while answering and after submission.
THEOREM SummaryCorrect == Spec => []SummaryMatchesItems
<1>1. ExamInv => SummaryMatchesItems
  BY DEF ExamInv
<1> QED BY <1>1, ExamInvCorrect, PTL

\* Grading counts every settled item exactly once, and nothing before submission.
THEOREM TrackingCorrect == Spec => []TrackingMatchesGrading
<1>1. ExamInv => TrackingMatchesGrading
  BY DEF ExamInv
<1> QED BY <1>1, ExamInvCorrect, PTL

\* What one step may do to a settled exam.
LEMMA StepContract ==
  ASSUME TypeOK, ExamInv, [Next]_vars
  PROVE  /\ state # "in-progress" \/ state' # state => answer' = answer
         /\ state = "submitted" =>
              \A i \in Items : GraderSettled(grading[i]) => grading'[i] = grading[i]
         /\ state = "discarded" => UNCHANGED <<state, answer, grading, tracking>>
<1> USE DEF examVars
<1>1. ASSUME NEW r \in Requests, Request(r), ~ ReportCommit(r)
      PROVE  /\ state # "in-progress" \/ state' # state => answer' = answer
             /\ state # "in-progress" => grading' = grading
             /\ state = "discarded" => state' = state /\ tracking' = tracking
  BY <1>1 DEF Request, SaveMatches, AnswersUnmodified, SaveRead, SaveWrite, SubmitRead, SubmitSync, SubmitAsync, DiscardRead,
              DiscardWrite, ReportRead
<1>2. ASSUME NEW r \in Requests, ReportCommit(r)
      PROVE  /\ answer' = answer
             /\ state = "submitted" =>
                  \A i \in Items : GraderSettled(grading[i]) => grading'[i] = grading[i]
             /\ state = "discarded" => UNCHANGED <<state, grading, tracking>>
  BY <1>2 DEF ReportCommit, ExamInv, ReportFits
<1>3. ASSUME NEW w \in Workers, Step(w)
      PROVE  /\ answer' = answer
             /\ state = "submitted" => grading' = grading
             /\ state = "discarded" => UNCHANGED <<state, grading, tracking>>
  BY <1>3 DEF PersistMatches, Finalizable, Step, Claim, Verify, ReadExam, Grade, Reverify, PersistRead, PersistWrite,
              Finalize, Complete
<1>4. ASSUME \/ \E w \in Workers : RefreshLease(w) \/ ReleaseOnError(w) \/ WorkerDies(w) \/ Crash(w)
             \/ MissRefresh
             \/ LeaseExpires
             \/ UNCHANGED vars
      PROVE  UNCHANGED <<state, answer, grading, tracking>>
  BY <1>4 DEF RefreshLease, ReleaseOnError, WorkerDies, Crash, MissRefresh, LeaseExpires, vars
<1> QED BY <1>1, <1>2, <1>3, <1>4 DEF Next

\* Submissions and stale whole-array writes never change an answer.
THEOREM AnswersStayFrozen == Spec => AnswersFrozen
<1>1. TypeOK /\ ExamInv /\ [Next]_vars =>
        [state # "in-progress" \/ state' # state => answer' = answer]_vars
  BY StepContract
<1> QED BY <1>1, ExamInvCorrect, PTL DEF Spec, AnswersFrozen

\* No late worker and no stale self-report rewrites a grade of a submitted exam.
THEOREM SettledItemsAreFinal == Spec => SettledItemsStay
<1>1. TypeOK /\ ExamInv /\ [Next]_vars =>
        [state = "submitted" =>
           \A i \in Items : GraderSettled(grading[i]) => grading'[i] = grading[i]]_vars
  BY StepContract
<1> QED BY <1>1, ExamInvCorrect, PTL DEF Spec, SettledItemsStay

\* Nothing that was under way when an exam was discarded acts on it any more.
THEOREM DiscardedExamsAreFinal == Spec => DiscardIsFinal
<1>1. TypeOK /\ ExamInv /\ [Next]_vars =>
        [state = "discarded" => UNCHANGED <<state, answer, grading, tracking>>]_vars
  BY StepContract
<1> QED BY <1>1, ExamInvCorrect, PTL DEF Spec, DiscardIsFinal

-----------------------------------------------------------------------------
(* Self-reports: the verdicts stored and those a request is about to store *)

\* The tracking of item i's problem contains the verdict of g, if the learner
\* reported it.
VerdictCounted(i, g) ==
    /\ g = build_grading_result("correct", "self-report") => tracking[i].correctCount > 0
    /\ g = build_grading_result("incorrect", "self-report") => tracking[i].failedCount > 0

\* The items array a self-report will write holds its own verdict, which the
\* same transaction counts, and for the other items only verdicts counted by
\* now: those stored when it read the exam.
ReportCarries(r) ==
    req[r].pc = "report" =>
        /\ req[r].grading[req[r].item] =
               build_grading_result(IF req[r].isCorrect THEN "correct" ELSE "incorrect",
                                    "self-report")
        /\ \A i \in Items \ {req[r].item} : VerdictCounted(i, req[r].grading[i])

ReportInv ==
    /\ \A i \in Items : VerdictCounted(i, grading[i])
    /\ \A r \in Requests : ReportCarries(r)

\* No step takes a count back.
TrackingGrows ==
    \A i \in Items : /\ tracking'[i].correctCount >= tracking[i].correctCount
                     /\ tracking'[i].failedCount >= tracking[i].failedCount

LEMMA UpdateGrows ==
  ASSUME NEW t \in Trackings, NEW c
  PROVE  /\ build_tracking_update(t, c).correctCount >= t.correctCount
         /\ build_tracking_update(t, c).failedCount >= t.failedCount
         /\ c => build_tracking_update(t, c).correctCount > 0
         /\ ~c => build_tracking_update(t, c).failedCount > 0
  BY DEF build_tracking_update, Trackings

LEMMA TrackGradedGrows ==
  ASSUME TypeOK, NEW gr, tracking' = TrackGraded(gr)
  PROVE  TrackingGrows
<1> SUFFICES ASSUME NEW i \in Items
             PROVE  /\ tracking'[i].correctCount >= tracking[i].correctCount
                    /\ tracking'[i].failedCount >= tracking[i].failedCount
  BY DEF TrackingGrows
<1>1. tracking[i] \in Trackings
  BY DEF TypeOK
<1>2. \/ tracking'[i] = tracking[i]
      \/ tracking'[i] = build_tracking_update(tracking[i], gr[i].status = "correct")
  BY DEF TrackGraded
<1>3. tracking[i].correctCount \in Nat /\ tracking[i].failedCount \in Nat
  BY <1>1 DEF Trackings
<1> QED BY <1>1, <1>2, <1>3, UpdateGrows

\* A verdict that was counted stays counted.
LEMMA VerdictsStayCounted ==
  ASSUME TypeOK, TypeOK', TrackingGrows, NEW i \in Items, NEW g, VerdictCounted(i, g)
  PROVE  VerdictCounted(i, g)'
<1>1. /\ tracking[i].correctCount \in Nat /\ tracking[i].failedCount \in Nat
      /\ tracking'[i].correctCount \in Nat /\ tracking'[i].failedCount \in Nat
  <2>1. tracking[i] \in Trackings /\ tracking'[i] \in Trackings
    BY DEF TypeOK
  <2> QED BY <2>1 DEF Trackings
<1> QED BY <1>1 DEF VerdictCounted, TrackingGrows

\* A step that adds no self-reported verdict, and starts no self-report, keeps
\* the invariant.
LEMMA QuietStep ==
  ASSUME TypeOK, TypeOK', ReportInv, TrackingGrows,
         \A i \in Items : grading'[i] = grading[i] \/ grading'[i].method # "self-report",
         \A r \in Requests : req'[r] = req[r] \/ req'[r].pc # "report"
  PROVE  ReportInv'
<1>1. ASSUME NEW i \in Items PROVE VerdictCounted(i, grading[i])'
  <2>1. CASE grading'[i] = grading[i]
    <3>1. VerdictCounted(i, grading[i])
      BY DEF ReportInv
    <3>2. grading[i] = grading[i]' => VerdictCounted(i, grading[i])'
      BY <1>1, <3>1, VerdictsStayCounted DEF VerdictCounted
    <3> QED BY <2>1, <3>2
  <2>2. CASE grading'[i].method # "self-report"
    BY <2>2 DEF VerdictCounted, build_grading_result
  <2> QED BY <2>1, <2>2
<1>2. ASSUME NEW r \in Requests PROVE ReportCarries(r)'
  <2>1. CASE req'[r] = req[r]
    <3>1. ReportCarries(r)
      BY DEF ReportInv
    <3> QED BY <2>1, <3>1, VerdictsStayCounted DEF ReportCarries, VerdictCounted
  <2>2. CASE req'[r].pc # "report"
    BY <2>2 DEF ReportCarries
  <2> QED BY <2>1, <2>2
<1> QED BY <1>1, <1>2 DEF ReportInv

\* The self-report of one item.  Another report that read the exam earlier
\* writes an older items array, whose other verdicts are counted all the same.
LEMMA ReportStep ==
  ASSUME TypeOK, TypeOK', ReportInv, NEW r \in Requests, ReportRead(r) \/ ReportCommit(r)
  PROVE  ReportInv'
<1>1. CASE ReportRead(r)
  <2>1. PICK i \in Items, c \in BOOLEAN :
           LET g == build_grading_result(IF c THEN "correct" ELSE "incorrect", "self-report")
           IN  Start(r, "report", "report", i, answer, [grading EXCEPT ![i] = g], c)
    BY <1>1 DEF ReportRead
  <2> DEFINE g == build_grading_result(IF c THEN "correct" ELSE "incorrect", "self-report")
             rec == [pc |-> "report", item |-> i, isCorrect |-> c, answer |-> answer,
                     grading |-> [grading EXCEPT ![i] = g]]
  <2>2. req' = [req EXCEPT ![r] = rec]
    BY <2>1 DEF Start
  <2>3. /\ rec.item = i /\ rec.isCorrect = c /\ rec.grading[i] = g
        /\ \A j \in Items \ {i} : rec.grading[j] = grading[j]
    BY DEF TypeOK
  <2> HIDE DEF rec
  <2>4. req'[r] = rec /\ \A q \in Requests \ {r} : req'[q] = req[q]
    BY <2>2 DEF TypeOK
  <2>5. grading' = grading /\ tracking' = tracking
    BY <1>1 DEF ReportRead
  <2>6. \A j \in Items : VerdictCounted(j, grading[j])'
    BY <2>5 DEF ReportInv, VerdictCounted
  <2>7. ReportCarries(r)'
    BY <2>3, <2>4, <2>5, <2>6 DEF ReportCarries, VerdictCounted
  <2>8. \A q \in Requests \ {r} : ReportCarries(q)'
    BY <2>4, <2>5 DEF ReportInv, ReportCarries, VerdictCounted
  <2> QED BY <2>6, <2>7, <2>8 DEF ReportInv
<1>2. CASE ReportCommit(r) /\ state = "submitted"
  <2>0. PICK i \in Items : i = req[r].item
    <3>1. req[r] \in RequestLocals
      BY DEF TypeOK
    <3> QED BY <3>1 DEF RequestLocals
  <2> DEFINE t == build_tracking_update(tracking[i], req[r].isCorrect)
  <2>1. /\ grading' = req[r].grading /\ tracking' = [tracking EXCEPT ![i] = t]
        /\ req[r].pc = "report" /\ Finish(r)
    BY <1>2, <2>0 DEF ReportCommit
  <2>2. tracking[i] \in Trackings
    BY DEF TypeOK
  <2>3. /\ tracking'[i] = t /\ \A j \in Items \ {i} : tracking'[j] = tracking[j]
        /\ t.correctCount >= tracking[i].correctCount
        /\ t.failedCount >= tracking[i].failedCount
        /\ req[r].isCorrect => t.correctCount > 0
        /\ ~req[r].isCorrect => t.failedCount > 0
    BY <2>1, <2>2, UpdateGrows DEF TypeOK
  <2> HIDE DEF t
  <2>4. TrackingGrows
    <3>1. ASSUME NEW j \in Items
          PROVE  tracking[j].correctCount \in Nat /\ tracking[j].failedCount \in Nat
      <4>1. tracking[j] \in Trackings
        BY DEF TypeOK
      <4> QED BY <4>1 DEF Trackings
    <3> QED BY <2>3, <3>1 DEF TrackingGrows
  <2>5. ReportCarries(r)
    BY DEF ReportInv
  <2>6. VerdictCounted(i, grading[i])'
    BY <2>0, <2>1, <2>3, <2>5 DEF ReportCarries, VerdictCounted, build_grading_result
  <2>7. ASSUME NEW j \in Items \ {i} PROVE VerdictCounted(j, grading[j])'
    BY <2>0, <2>1, <2>3, <2>5 DEF ReportCarries, VerdictCounted
  <2>8. ASSUME NEW q \in Requests PROVE ReportCarries(q)'
    <3>1. CASE q = r
      BY <2>1, <3>1, FinishedRequest DEF ReportCarries
    <3>2. CASE q # r
      <4>1. req'[q] = req[q] /\ ReportCarries(q)
        BY <2>1, <3>2, FinishedRequest DEF ReportInv
      <4> QED BY <2>4, <4>1, VerdictsStayCounted DEF ReportCarries, VerdictCounted
    <3> QED BY <3>1, <3>2
  <2> QED BY <2>6, <2>7, <2>8 DEF ReportInv
<1>3. CASE ReportCommit(r) /\ state # "submitted"
  <2>1. UNCHANGED <<grading, tracking>> /\ Finish(r)
    BY <1>3 DEF ReportCommit
  <2>2. \A i \in Items : tracking[i].correctCount \in Nat /\ tracking[i].failedCount \in Nat
    <3>1. \A i \in Items : tracking[i] \in Trackings
      BY DEF TypeOK
    <3> QED BY <3>1 DEF Trackings
  <2>3. TrackingGrows
    BY <2>1, <2>2 DEF TrackingGrows
  <2>4. \A q \in Requests : req'[q] = req[q] \/ req'[q].pc # "report"
    BY <2>1, FinishedRequest
  <2> QED BY <2>1, <2>3, <2>4, QuietStep
<1> QED BY <1>1, <1>2, <1>3

LEMMA ReportInvStep == TypeOK /\ ExamInv /\ ReportInv /\ [Next]_vars => ReportInv'
<1> SUFFICES ASSUME TypeOK, ExamInv, ReportInv, [Next]_vars PROVE ReportInv'
  OBVIOUS
<1> USE DEF examVars
<1>1. TypeOK'
  BY TypeStep
<1>2. tracking' = tracking => TrackingGrows
  <2>1. \A i \in Items : tracking[i].correctCount \in Nat /\ tracking[i].failedCount \in Nat
    <3>1. \A i \in Items : tracking[i] \in Trackings
      BY DEF TypeOK
    <3> QED BY <3>1 DEF Trackings
  <2> QED BY <2>1 DEF TrackingGrows
<1>3. ASSUME NEW r \in Requests, Request(r) PROVE ReportInv'
  <2>1. CASE ReportRead(r) \/ ReportCommit(r)
    BY <1>1, <2>1, ReportStep
  <2>2. CASE SaveRead(r) \/ SubmitRead(r) \/ DiscardRead(r)
    <3>1. UNCHANGED <<grading, tracking>>
      BY <2>2 DEF SaveRead, SubmitRead, DiscardRead
    <3>2. req'[r].pc # "report" /\ \A q \in Requests \ {r} : req'[q] = req[q]
      BY <2>2 DEF SaveRead, SubmitRead, DiscardRead, Start, TypeOK
    <3> QED BY <1>1, <1>2, <3>1, <3>2, QuietStep
  <2>3. CASE SaveWrite(r) \/ SubmitSync(r) \/ SubmitAsync(r) \/ DiscardWrite(r)
    <3>1. Finish(r)
      BY <2>3 DEF SaveWrite, SubmitSync, SubmitAsync, DiscardWrite
    <3>2. \A q \in Requests : req'[q] = req[q] \/ req'[q].pc # "report"
      BY <3>1, FinishedRequest
    <3>3. req[r].answer \in [Items -> RawAnswers]
      BY DEF TypeOK, RequestLocals
    <3>4. \A i \in Items : grading'[i] = grading[i] \/ grading'[i].method # "self-report"
      <4>1. CASE SaveWrite(r)
        <5>1. SaveFits(r) /\ req[r].pc = "save"
          BY <4>1 DEF ExamInv, SaveWrite
        <5>2. grading' = grading \/ grading' = req[r].grading
          BY <4>1 DEF SaveWrite
        <5> QED BY <5>1, <5>2 DEF SaveFits, Ungraded, build_grading_result
      <4>2. CASE SubmitSync(r)
        <5>1. grading' = grading \/ grading' = grade_synchronously(req[r].answer)
          BY <4>2 DEF SubmitSync
        <5> QED BY <3>3, <5>1, SynchronousGrades
      <4>3. CASE SubmitAsync(r) \/ DiscardWrite(r)
        BY <4>3 DEF SubmitAsync, DiscardWrite
      <4> QED BY <2>3, <4>1, <4>2, <4>3
    <3>5. TrackingGrows
      <4>1. tracking' = tracking \/ \E gr : tracking' = TrackGraded(gr)
        BY <2>3 DEF SaveWrite, SubmitSync, SubmitAsync, DiscardWrite
      <4> QED BY <1>2, <4>1, TrackGradedGrows
    <3> QED BY <1>1, <3>2, <3>4, <3>5, QuietStep
  <2> QED BY <1>3, <2>1, <2>2, <2>3 DEF Request
<1>4. ASSUME NEW w \in Workers, Step(w) PROVE ReportInv'
  <2>1. req' = req
    BY <1>4 DEF Step, Claim, Verify, ReadExam, Grade, Reverify, PersistRead, PersistWrite,
                Finalize, Complete
  <2>2. TrackingGrows
    <3>1. tracking' = tracking \/ tracking' = TrackGraded(grading)
      BY <1>4 DEF Step, Claim, Verify, ReadExam, Grade, Reverify, PersistRead, PersistWrite,
                  Finalize, Complete
    <3> QED BY <1>2, <3>1, TrackGradedGrows
  <2>3. \A i \in Items : grading'[i] = grading[i] \/ grading'[i].method # "self-report"
    <3>1. CASE grading' = grading
      BY <3>1
    <3>2. CASE /\ worker[w].pc = "persist-write"
               /\ grading' = [grading EXCEPT ![worker[w].item] = worker[w].result]
      <4>1. worker[w].item \in Items
        BY DEF TypeOK, WorkerLocals
      <4>2. worker[w].result.method # "self-report"
        <5>1. worker[w].result \in WorkerGrades(worker[w].item, answer[worker[w].item])
          BY <3>2 DEF ExamInv, ResultFits
        <5>2. answer[worker[w].item] \in RawAnswers
          BY <4>1 DEF TypeOK
        <5> QED BY <4>1, <5>1, <5>2, WorkerGradeType
      <4> QED BY <3>2, <4>1, <4>2 DEF TypeOK
    <3> QED BY <1>4, <3>1, <3>2 DEF Step, Claim, Verify, ReadExam, Grade, Reverify,
                PersistRead, PersistWrite, Finalize, Complete
  <2> QED BY <1>1, <2>1, <2>2, <2>3, QuietStep
<1>5. ASSUME \/ \E w \in Workers : RefreshLease(w) \/ ReleaseOnError(w) \/ WorkerDies(w) \/ Crash(w)
             \/ MissRefresh
             \/ LeaseExpires
             \/ UNCHANGED vars
      PROVE  ReportInv'
  <2>1. UNCHANGED <<grading, tracking, req>>
    BY <1>5 DEF RefreshLease, ReleaseOnError, WorkerDies, Crash, MissRefresh, LeaseExpires, vars
  <2> QED BY <1>1, <1>2, <2>1, QuietStep
<1> QED BY <1>3, <1>4, <1>5 DEF Next

\* A reported verdict is in its problem's counts, although a self-report stores
\* a whole items array it read earlier and another may have been committed since.
THEOREM ReportsAreCounted == Spec => []ReportedItemsCounted
<1>1. Init => ReportInv
  BY DEF Init, ReportInv, VerdictCounted, ReportCarries, IdleRequest, Ungraded,
         build_grading_result
<1>2. ReportInv => ReportedItemsCounted
  BY DEF ReportInv, VerdictCounted, ReportedItemsCounted
<1> QED BY <1>1, <1>2, ReportInvStep, ExamInvCorrect, PTL DEF Spec
=============================================================================

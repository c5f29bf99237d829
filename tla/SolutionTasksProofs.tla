-------------------------- MODULE SolutionTasksProofs --------------------------
(* Theorems about SolutionTasks, for every value of its constants: any     *)
(* finite set of problems, any number of requests and any retry limit.     *)
EXTENDS SolutionTasks, FiniteSetTheorems, SequenceTheorems, TLAPS

USE StoredAssumption, RetriesAssumption, RequestKindsAssumption, MaxCrashesAssumption
USE DEF storedVars, OnlyWorker, OnlyRequest

-----------------------------------------------------------------------------
(* The inductive invariant *)

TaskRecords ==
    [problem : Problems, status : {"pending", "generating", "ready", "failed"},
     retry_count : 0 .. max_retries + 1, due : BOOLEAN, stale : BOOLEAN]
WorkerLocals ==
    [pc : {"recover", "claim", "load", "generate", "ready", "dead"},
     task : Nat, retry_count : 0 .. max_retries]
RequestLocals ==
    [pc : {"idle", "find-task", "find-solution", "enqueue", "tags", "regenerate", "delete",
           "reset", "insert", "done"},
     problem : Problems \union {IdleRequest.problem}, mine : BOOLEAN, solved : BOOLEAN,
     task : Nat]

TypeOK ==
    /\ problems \subseteq Problems
    /\ tasks \in Seq(TaskRecords)
    /\ solutions \in [Problems -> Nat]
    /\ up \in BOOLEAN
    /\ worker \in WorkerLocals
    /\ req \in [Requests -> RequestLocals]
    /\ crashes \in 0 .. MaxCrashes

\* A task that waits or is attempted has an attempt left.
GoodTask(t) == t.status \in {"pending", "generating"} => t.retry_count <= max_retries

\* The task the worker works on exists, and only the worker fails a task.
GoodWorker ==
    worker.pc \in {"load", "generate", "ready"} =>
        worker.task \in DOMAIN tasks /\ tasks[worker.task].status # "failed"

\* A request under way has read its problem, and the task it resets exists.
GoodRequest(l, known) ==
    /\ l.pc \notin {"idle", "done"} => l.problem \in Problems
    /\ l.pc \in {"idle", "regenerate"} => l.task = 0
    /\ l.pc = "delete" => l.task \in known \union {0}
    /\ l.pc = "reset" => l.task \in known

Typed ==
    /\ TypeOK
    /\ \A k \in DOMAIN tasks : GoodTask(tasks[k])
    /\ GoodWorker
    /\ \A r \in Requests : GoodRequest(req[r], DOMAIN tasks)

LEMMA InitialValues ==
  /\ IdleWorker \in WorkerLocals /\ IdleWorker.pc = "recover"
  /\ [IdleWorker EXCEPT !.pc = "dead"] \in WorkerLocals
  /\ [IdleWorker EXCEPT !.pc = "dead"].pc = "dead"
  /\ IdleRequest \in RequestLocals /\ IdleRequest.pc = "idle" /\ IdleRequest.task = 0
  /\ [IdleRequest EXCEPT !.pc = "done"] \in RequestLocals
  /\ [IdleRequest EXCEPT !.pc = "done"].pc = "done"
<1>1. IdleWorker \in WorkerLocals /\ IdleWorker.pc = "recover"
  BY DEF IdleWorker, WorkerLocals
<1>2. /\ [IdleWorker EXCEPT !.pc = "dead"] \in WorkerLocals
      /\ [IdleWorker EXCEPT !.pc = "dead"].pc = "dead"
  BY <1>1 DEF WorkerLocals
<1>3. IdleRequest \in RequestLocals /\ IdleRequest.pc = "idle" /\ IdleRequest.task = 0
  BY DEF IdleRequest, RequestLocals
<1>4. /\ [IdleRequest EXCEPT !.pc = "done"] \in RequestLocals
      /\ [IdleRequest EXCEPT !.pc = "done"].pc = "done"
  BY <1>3 DEF RequestLocals
<1> QED BY <1>1, <1>2, <1>3, <1>4

-----------------------------------------------------------------------------
(* What the steps do to the tasks *)

\* The tasks after an update of one of them.
LEMMA SetTaskUpdates ==
  ASSUME Typed, NEW k \in DOMAIN tasks,
         NEW status \in {"pending", "generating", "ready", "failed"},
         NEW retry \in 0 .. max_retries + 1, NEW due \in BOOLEAN,
         status \in {"pending", "generating"} => retry <= max_retries,
         SetTask(k, status, retry, due)
  PROVE  /\ tasks' \in Seq(TaskRecords) /\ DOMAIN tasks' = DOMAIN tasks
         /\ \A j \in DOMAIN tasks' : GoodTask(tasks'[j])
         /\ tasks'[k].status = status
         /\ \A j \in DOMAIN tasks : j # k => tasks'[j] = tasks[j]
<1> DEFINE t == [tasks[k] EXCEPT !.status = status, !.retry_count = retry,
                                 !.due = due, !.stale = FALSE]
<1>1. tasks \in Seq(TaskRecords) /\ tasks[k] \in TaskRecords
  BY DEF Typed, TypeOK
<1>2. t \in TaskRecords /\ t.status = status /\ t.retry_count = retry
  BY <1>1 DEF TaskRecords
<1>3. tasks' = [tasks EXCEPT ![k] = t]
  BY DEF SetTask
<1> HIDE DEF t
<1>4. /\ tasks' \in Seq(TaskRecords) /\ DOMAIN tasks' = DOMAIN tasks
      /\ tasks'[k] = t /\ \A j \in DOMAIN tasks : j # k => tasks'[j] = tasks[j]
  BY <1>1, <1>2, <1>3, ExceptSeq
<1> QED BY <1>2, <1>4 DEF GoodTask, Typed

\* A task is enqueued behind the others.
LEMMA AppendUpdates ==
  ASSUME Typed, NEW p \in Problems, tasks' = Append(tasks, _build_solution_task_document(p))
  PROVE  /\ tasks' \in Seq(TaskRecords) /\ DOMAIN tasks \subseteq DOMAIN tasks'
         /\ \A j \in DOMAIN tasks' : GoodTask(tasks'[j])
         /\ \A j \in DOMAIN tasks : tasks'[j] = tasks[j]
<1> DEFINE t == _build_solution_task_document(p)
<1>1. tasks \in Seq(TaskRecords)
  BY DEF Typed, TypeOK
<1>2. t \in TaskRecords /\ GoodTask(t)
  BY DEF _build_solution_task_document, TaskRecords, GoodTask
<1> HIDE DEF t
<1>3. /\ tasks' \in Seq(TaskRecords) /\ Len(tasks') = Len(tasks) + 1
      /\ \A j \in 1 .. Len(tasks) : tasks'[j] = tasks[j]
      /\ tasks'[Len(tasks) + 1] = t
  BY <1>1, <1>2, AppendProperties DEF t
<1>4. DOMAIN tasks = 1 .. Len(tasks) /\ DOMAIN tasks' = 1 .. Len(tasks')
  BY <1>1, <1>3
<1> QED BY <1>1, <1>2, <1>3, <1>4 DEF Typed

\* The backfill enqueues tasks behind the others.
LEMMA BackfillUpdates ==
  ASSUME Typed, backfill_solution_generation_tasks
  PROVE  /\ tasks' \in Seq(TaskRecords) /\ DOMAIN tasks \subseteq DOMAIN tasks'
         /\ \A j \in DOMAIN tasks' : GoodTask(tasks'[j])
         /\ \A j \in DOMAIN tasks : tasks'[j] = tasks[j]
<1>1. tasks \in Seq(TaskRecords) /\ Missing \subseteq Problems
  BY DEF Typed, TypeOK, Missing
<1>2. Cardinality(Missing) \in Nat
  BY <1>1, FS_Subset, FS_CardinalityType
<1>3. PICK order \in [1 .. Cardinality(Missing) -> Missing] :
         tasks' = tasks \o [n \in DOMAIN order |-> _build_solution_task_document(order[n])]
  BY DEF backfill_solution_generation_tasks
<1> DEFINE s == [n \in 1 .. Cardinality(Missing) |-> _build_solution_task_document(order[n])]
<1>4. \A n \in 1 .. Cardinality(Missing) : s[n] \in TaskRecords /\ GoodTask(s[n])
  BY <1>1 DEF _build_solution_task_document, TaskRecords, GoodTask
<1>5. s \in Seq(TaskRecords) /\ Len(s) = Cardinality(Missing) /\ tasks' = tasks \o s
  BY <1>2, <1>3, <1>4
<1> HIDE DEF s
<1>6. /\ tasks' \in Seq(TaskRecords) /\ Len(tasks') = Len(tasks) + Len(s)
      /\ \A j \in 1 .. Len(tasks') :
            tasks'[j] = IF j <= Len(tasks) THEN tasks[j] ELSE s[j - Len(tasks)]
  BY <1>1, <1>5, ConcatProperties
<1>7. /\ DOMAIN tasks = 1 .. Len(tasks) /\ DOMAIN tasks' = 1 .. Len(tasks')
      /\ Len(tasks) \in Nat /\ Len(s) \in Nat
  BY <1>1, <1>5, <1>6
<1>8. ASSUME NEW j \in DOMAIN tasks' PROVE GoodTask(tasks'[j])
  <2>1. CASE j <= Len(tasks)
    BY <1>6, <1>7, <2>1 DEF Typed
  <2>2. CASE ~ (j <= Len(tasks))
    <3>1. j - Len(tasks) \in 1 .. Len(s)
      BY <1>6, <1>7, <2>2
    <3> QED BY <1>4, <1>5, <1>6, <1>7, <2>2, <3>1
  <2> QED BY <2>1, <2>2
<1> QED BY <1>6, <1>7, <1>8

\* Nothing changes a request that is left alone, tasks being only ever added.
LEMMA RequestsKept ==
  ASSUME Typed, req' = req, DOMAIN tasks \subseteq DOMAIN tasks'
  PROVE  /\ req' \in [Requests -> RequestLocals]
         /\ \A r \in Requests : GoodRequest(req'[r], DOMAIN tasks')
BY DEF Typed, TypeOK, GoodRequest

-----------------------------------------------------------------------------
(* The worker *)

\* Each step of the worker keeps the types, and revives no failed task: the
\* task it works on was not failed when it was claimed, and no one else fails it.
LEMMA WorkerTyped ==
  ASSUME Typed, WorkerStep
  PROVE  Typed' /\ \A k \in DOMAIN tasks :
                       tasks[k].status = "failed" => tasks'[k].status = "failed"
<1> USE InitialValues
<1>1. CASE RecoverStuck
  <2> DEFINE t(k) == IF Stuck(tasks[k])
                     THEN [tasks[k] EXCEPT !.status = "pending", !.due = TRUE, !.stale = FALSE]
                     ELSE tasks[k]
  <2>1. tasks \in Seq(TaskRecords) /\ tasks' = [k \in DOMAIN tasks |-> t(k)]
    BY <1>1 DEF RecoverStuck, Typed, TypeOK
  <2>2. ASSUME NEW k \in DOMAIN tasks
        PROVE  /\ t(k) \in TaskRecords /\ GoodTask(t(k))
               /\ tasks[k].status = "failed" => t(k).status = "failed"
    <3>1. tasks[k] \in TaskRecords /\ GoodTask(tasks[k])
      BY DEF Typed, TypeOK
    <3>2. CASE Stuck(tasks[k])
      <4>1. t(k) = [tasks[k] EXCEPT !.status = "pending", !.due = TRUE, !.stale = FALSE]
        BY <3>2
      <4>2. tasks[k].status \in {"pending", "generating"}
        BY <3>2 DEF Stuck
      <4> HIDE DEF t
      <4> QED BY <3>1, <4>1, <4>2 DEF TaskRecords, GoodTask
    <3>3. CASE ~Stuck(tasks[k])
      BY <3>1, <3>3
    <3> QED BY <3>2, <3>3
  <2> HIDE DEF t
  <2>3. tasks' \in Seq(TaskRecords) /\ DOMAIN tasks' = DOMAIN tasks
    BY <2>1, <2>2
  <2>4. worker' \in WorkerLocals /\ worker'.pc = "claim"
    BY <1>1 DEF RecoverStuck, WorkerGoes, WorkerLocals, Typed, TypeOK
  <2>5. /\ req' = req /\ problems' = problems /\ solutions' = solutions /\ up' = up
        /\ crashes' = crashes
    BY <1>1 DEF RecoverStuck
  <2> QED BY <2>1, <2>2, <2>3, <2>4, <2>5, RequestsKept DEF Typed, TypeOK, GoodWorker
<1>2. CASE ClaimTask
  <2>1. /\ req' = req /\ problems' = problems /\ solutions' = solutions /\ up' = up
        /\ crashes' = crashes
    BY <1>2 DEF ClaimTask
  <2>2. CASE WorkerGoes("recover") /\ UNCHANGED tasks
    <3>1. worker' \in WorkerLocals /\ worker'.pc = "recover"
      BY <2>2 DEF WorkerGoes, WorkerLocals, Typed, TypeOK
    <3> QED BY <2>1, <2>2, <3>1, RequestsKept DEF Typed, TypeOK, GoodWorker
  <2>3. CASE \E k \in Claimable :
                /\ SetTask(k, "generating", tasks[k].retry_count, TRUE)
                /\ worker' = [pc |-> "load", task |-> k, retry_count |-> tasks[k].retry_count]
    <3>1. PICK k \in Claimable :
             /\ SetTask(k, "generating", tasks[k].retry_count, TRUE)
             /\ worker' = [pc |-> "load", task |-> k, retry_count |-> tasks[k].retry_count]
      BY <2>3
    <3>2. /\ k \in DOMAIN tasks /\ tasks[k].status = "pending" /\ tasks \in Seq(TaskRecords)
          /\ tasks[k] \in TaskRecords
      BY DEF Claimable, Typed, TypeOK
    <3>3. /\ tasks[k].retry_count \in 0 .. max_retries /\ k \in Nat
          /\ tasks[k].retry_count \in 0 .. max_retries + 1
          /\ tasks[k].retry_count <= max_retries
      BY <3>2 DEF Typed, GoodTask, TaskRecords
    <3>4. /\ tasks' \in Seq(TaskRecords) /\ DOMAIN tasks' = DOMAIN tasks
          /\ \A j \in DOMAIN tasks' : GoodTask(tasks'[j])
          /\ tasks'[k].status = "generating"
          /\ \A j \in DOMAIN tasks : j # k => tasks'[j] = tasks[j]
      BY <3>1, <3>2, <3>3, SetTaskUpdates
    <3>5. worker' \in WorkerLocals /\ worker'.task = k
      BY <3>1, <3>3 DEF WorkerLocals
    <3> QED BY <2>1, <3>2, <3>4, <3>5, RequestsKept DEF Typed, TypeOK, GoodWorker
  <2> QED BY <1>2, <2>2, <2>3 DEF ClaimTask
<1>3. ASSUME NEW status \in {"failed", "pending", "ready"}, NEW retry \in 0 .. max_retries + 1,
             NEW due \in BOOLEAN, SetTask(worker.task, status, retry, due),
             worker.pc \in {"load", "generate", "ready"},
             status = "pending" => retry <= max_retries,
             worker' = IdleWorker, OnlyWorker
      PROVE  Typed' /\ \A k \in DOMAIN tasks :
                           tasks[k].status = "failed" => tasks'[k].status = "failed"
  <2>1. worker.task \in DOMAIN tasks /\ tasks[worker.task].status # "failed"
    BY <1>3 DEF Typed, GoodWorker
  <2>2. /\ tasks' \in Seq(TaskRecords) /\ DOMAIN tasks' = DOMAIN tasks
        /\ \A j \in DOMAIN tasks' : GoodTask(tasks'[j])
        /\ \A j \in DOMAIN tasks : j # worker.task => tasks'[j] = tasks[j]
    BY <1>3, <2>1, SetTaskUpdates
  <2> QED BY <1>3, <2>1, <2>2, RequestsKept DEF Typed, TypeOK, GoodWorker
<1>4. worker.pc \in {"load", "generate", "ready"} =>
         /\ worker.task \in DOMAIN tasks /\ tasks[worker.task] \in TaskRecords
         /\ tasks[worker.task].retry_count \in 0 .. max_retries + 1
         /\ tasks[worker.task].problem \in Problems
  <2>1. worker.pc \in {"load", "generate", "ready"} =>
           worker.task \in DOMAIN tasks /\ tasks[worker.task] \in TaskRecords
    BY DEF Typed, TypeOK, GoodWorker
  <2> QED BY <2>1 DEF TaskRecords
<1>5. CASE LoadProblem
  <2>1. CASE tasks[worker.task].problem \in problems
    <3>1. /\ worker' \in WorkerLocals /\ worker'.task = worker.task
          /\ worker.pc = "load" /\ tasks' = tasks
      BY <1>5, <2>1 DEF LoadProblem, WorkerAt, WorkerGoes, WorkerLocals, Typed, TypeOK
    <3> QED BY <1>5, <3>1, RequestsKept DEF LoadProblem, Typed, TypeOK, GoodWorker
  <2>2. CASE ~ (tasks[worker.task].problem \in problems)
    BY <1>3, <1>4, <1>5, <2>2 DEF LoadProblem, WorkerAt
  <2> QED BY <2>1, <2>2
<1>6. CASE SaveSolution
  <2>1. /\ worker' \in WorkerLocals /\ worker'.task = worker.task
        /\ worker.pc = "generate" /\ tasks' = tasks
    BY <1>6 DEF SaveSolution, WorkerAt, WorkerGoes, WorkerLocals, Typed, TypeOK
  <2>2. solutions' \in [Problems -> Nat]
    BY <1>4, <1>6 DEF SaveSolution, WorkerAt, Typed, TypeOK
  <2> QED BY <1>6, <2>1, <2>2, RequestsKept DEF SaveSolution, Typed, TypeOK, GoodWorker
<1>7. CASE MarkReady
  BY <1>3, <1>4, <1>7 DEF MarkReady, WorkerAt
<1>8. CASE ModelFails
  <2> DEFINE retry == worker.retry_count + 1
  <2>1. worker.pc = "generate" /\ worker' = IdleWorker /\ OnlyWorker
    BY <1>8 DEF ModelFails, WorkerAt
  <2>2. retry \in 0 .. max_retries + 1
    BY DEF Typed, TypeOK, WorkerLocals
  <2>3. \/ SetTask(worker.task, "failed", retry, TRUE)
        \/ SetTask(worker.task, "pending", retry, FALSE) /\ retry <= max_retries
    <3>1. PICK retryable \in BOOLEAN :
             IF ~retryable \/ Exhausted(retry)
             THEN SetTask(worker.task, "failed", retry, TRUE)
             ELSE SetTask(worker.task, "pending", retry, FALSE)
      BY <1>8, Zenon DEF ModelFails
    <3>2. ~Exhausted(retry) => retry <= max_retries
      BY <2>2 DEF Exhausted
    <3> HIDE DEF retry
    <3> QED BY <3>1, <3>2
  <2> HIDE DEF retry
  <2> QED BY <1>3, <2>1, <2>2, <2>3
<1>9. CASE TaskFails
  BY <1>3, <1>4, <1>9 DEF TaskFails, WorkerAt
<1> QED BY <1>1, <1>2, <1>5, <1>6, <1>7, <1>8, <1>9 DEF WorkerStep

\* Time that passes for a task changes neither its status nor its attempts.
LEMMA TimeTyped ==
  ASSUME Typed, NEW k \in DOMAIN tasks, BackoffElapses(k) \/ TimeoutPasses(k)
  PROVE  Typed' /\ \A j \in DOMAIN tasks : tasks'[j].status = tasks[j].status
<1>1. tasks \in Seq(TaskRecords) /\ tasks[k] \in TaskRecords /\ GoodTask(tasks[k])
  BY DEF Typed, TypeOK
<1>2. PICK t \in TaskRecords : /\ tasks' = [tasks EXCEPT ![k] = t]
                               /\ t.status = tasks[k].status /\ GoodTask(t)
  <2>1. CASE BackoffElapses(k)
    <3> DEFINE t == [tasks[k] EXCEPT !.due = TRUE]
    <3>1. t \in TaskRecords /\ t.status = tasks[k].status /\ GoodTask(t)
      BY <1>1 DEF TaskRecords, GoodTask
    <3>2. tasks' = [tasks EXCEPT ![k] = t]
      BY <2>1 DEF BackoffElapses
    <3> HIDE DEF t
    <3> QED BY <3>1, <3>2
  <2>2. CASE TimeoutPasses(k)
    <3> DEFINE t == [tasks[k] EXCEPT !.stale = TRUE]
    <3>1. t \in TaskRecords /\ t.status = tasks[k].status /\ GoodTask(t)
      BY <1>1 DEF TaskRecords, GoodTask
    <3>2. tasks' = [tasks EXCEPT ![k] = t]
      BY <2>2 DEF TimeoutPasses
    <3> HIDE DEF t
    <3> QED BY <3>1, <3>2
  <2> QED BY <2>1, <2>2
<1>3. /\ tasks' \in Seq(TaskRecords) /\ DOMAIN tasks' = DOMAIN tasks /\ tasks'[k] = t
      /\ \A j \in DOMAIN tasks : j # k => tasks'[j] = tasks[j]
  BY <1>1, <1>2, ExceptSeq
<1>4. /\ req' = req /\ problems' = problems /\ solutions' = solutions /\ up' = up
      /\ crashes' = crashes /\ worker' = worker
  BY DEF BackoffElapses, TimeoutPasses
<1>5. \A j \in DOMAIN tasks : tasks'[j].status = tasks[j].status /\ GoodTask(tasks'[j])
  BY <1>2, <1>3 DEF Typed
<1> QED BY <1>3, <1>4, <1>5, RequestsKept DEF Typed, TypeOK, GoodWorker

-----------------------------------------------------------------------------
(* The requests *)

\* One request changes its local variables.
LEMMA RequestGoes ==
  ASSUME Typed, NEW r \in Requests, NEW l \in RequestLocals, GoodRequest(l, DOMAIN tasks'),
         req' = [req EXCEPT ![r] = l], DOMAIN tasks \subseteq DOMAIN tasks'
  PROVE  /\ req' \in [Requests -> RequestLocals] /\ req'[r] = l
         /\ \A q \in Requests : GoodRequest(req'[q], DOMAIN tasks')
<1>1. /\ req' \in [Requests -> RequestLocals] /\ req'[r] = l
      /\ \A q \in Requests : q # r => req'[q] = req[q]
  BY DEF Typed, TypeOK
<1>2. \A q \in Requests : GoodRequest(req[q], DOMAIN tasks')
  BY DEF Typed, GoodRequest
<1> QED BY <1>1, <1>2

\* A request goes on to its next call.
LEMMA GotoTyped ==
  ASSUME Typed, NEW r \in Requests, req[r].pc \notin {"idle", "done"},
         DOMAIN tasks \subseteq DOMAIN tasks',
         NEW pc \in {"find-solution", "enqueue", "tags", "delete", "reset", "insert"},
         NEW k \in Nat, pc = "delete" => k \in DOMAIN tasks \union {0},
         pc = "reset" => k \in DOMAIN tasks,
         (Goto(r, pc) /\ k = req[r].task) \/ Take(r, pc, k)
  PROVE  /\ req' \in [Requests -> RequestLocals]
         /\ \A q \in Requests : GoodRequest(req'[q], DOMAIN tasks')
<1>1. req[r] \in RequestLocals /\ req[r].problem \in Problems
  BY DEF Typed, TypeOK, GoodRequest
<1> DEFINE l == [req[r] EXCEPT !.pc = pc, !.task = k]
<1>2. l \in RequestLocals /\ l.pc = pc /\ l.task = k /\ l.problem = req[r].problem
  BY <1>1 DEF RequestLocals
<1>3. req' = [req EXCEPT ![r] = l]
  <2>1. CASE Take(r, pc, k)
    BY <2>1 DEF Take
  <2>2. CASE Goto(r, pc) /\ k = req[r].task
    <3>1. [req[r] EXCEPT !.pc = pc] = l
      BY <1>1, <2>2 DEF RequestLocals
    <3>2. req' = [req EXCEPT ![r] = [req[r] EXCEPT !.pc = pc]]
      BY <2>2 DEF Goto
    <3> QED BY <3>1, <3>2
  <2> QED BY <2>1, <2>2
<1>4. GoodRequest(l, DOMAIN tasks')
  BY <1>1, <1>2 DEF GoodRequest
<1> HIDE DEF l
<1> QED BY <1>2, <1>3, <1>4, RequestGoes

\* A request ends.
LEMMA FinishTyped ==
  ASSUME Typed, NEW r \in Requests, DOMAIN tasks \subseteq DOMAIN tasks', Finish(r)
  PROVE  /\ req' \in [Requests -> RequestLocals] /\ req'[r].pc = "done"
         /\ \A q \in Requests : GoodRequest(req'[q], DOMAIN tasks')
<1> DEFINE l == [IdleRequest EXCEPT !.pc = "done"]
<1>1. l \in RequestLocals /\ l.pc = "done" /\ req' = [req EXCEPT ![r] = l]
  BY InitialValues DEF Finish
<1> HIDE DEF l
<1>2. GoodRequest(l, DOMAIN tasks')
  BY <1>1 DEF GoodRequest
<1> QED BY <1>1, <1>2, RequestGoes

\* A step that leaves the worker alone keeps the types, if the stored values do.
LEMMA RequestKeepsTypes ==
  ASSUME Typed, OnlyRequest,
         problems' \subseteq Problems, solutions' \in [Problems -> Nat],
         tasks' \in Seq(TaskRecords), DOMAIN tasks \subseteq DOMAIN tasks',
         \A k \in DOMAIN tasks' : GoodTask(tasks'[k]),
         \A k \in DOMAIN tasks : tasks'[k].status = "failed" => tasks[k].status = "failed",
         req' \in [Requests -> RequestLocals],
         \A q \in Requests : GoodRequest(req'[q], DOMAIN tasks')
  PROVE  Typed'
<1>1. TypeOK'
  BY DEF Typed, TypeOK
<1>2. GoodWorker'
  BY DEF Typed, GoodWorker
<1> QED BY <1>1, <1>2 DEF Typed

\* Creating a problem adds a task, and changes none.
LEMMA CreateTyped ==
  ASSUME Typed, NEW r \in Requests, Create(r)
  PROVE  Typed' /\ \A k \in DOMAIN tasks : tasks'[k] = tasks[k]
<1>1. /\ req[r] \in RequestLocals /\ req[r].task \in Nat /\ tasks \in Seq(TaskRecords)
      /\ req[r].pc \notin {"idle", "done"} => req[r].problem \in Problems
  <2>1. req[r] \in RequestLocals
    BY DEF Typed, TypeOK
  <2> QED BY <2>1 DEF Typed, TypeOK, GoodRequest, RequestLocals
<1>2. /\ problems \subseteq Problems /\ solutions \in [Problems -> Nat]
      /\ \A k \in DOMAIN tasks : GoodTask(tasks[k])
  BY DEF Typed, TypeOK
<1>3. OnlyRequest
  BY DEF Create, CreateProblem, EnqueueFindTask, EnqueueFindSolution, EnqueueInsert,
         CreateEnds, CreateFails
<1> USE RequestKeepsTypes
<1>4. CASE CreateProblem(r)
  <2>1. PICK p \in Problems :
           /\ problems' = problems \union {p}
           /\ req' = [req EXCEPT ![r] = [@ EXCEPT !.pc = "find-task", !.problem = p,
                                                  !.mine = p \notin problems]]
    BY <1>4 DEF CreateProblem
  <2> DEFINE l == [req[r] EXCEPT !.pc = "find-task", !.problem = p, !.mine = p \notin problems]
  <2>2. l \in RequestLocals /\ l.pc = "find-task" /\ l.problem = p
    BY <1>1 DEF RequestLocals
  <2>3. req' = [req EXCEPT ![r] = l]
    BY <2>1
  <2>4. GoodRequest(l, DOMAIN tasks')
    BY <2>2 DEF GoodRequest
  <2>5. tasks' = tasks /\ solutions' = solutions
    BY <1>4 DEF CreateProblem
  <2> HIDE DEF l
  <2>6. /\ req' \in [Requests -> RequestLocals]
        /\ \A q \in Requests : GoodRequest(req'[q], DOMAIN tasks')
    BY <2>2, <2>3, <2>4, <2>5, RequestGoes
  <2> QED BY <1>1, <1>2, <1>3, <2>1, <2>5, <2>6
<1>5. CASE EnqueueFindTask(r)
  <2>1. /\ Goto(r, "tags") \/ Goto(r, "find-solution")
        /\ req[r].pc = "find-task" /\ UNCHANGED storedVars
    BY <1>5 DEF EnqueueFindTask, At
  <2>2. /\ req' \in [Requests -> RequestLocals]
        /\ \A q \in Requests : GoodRequest(req'[q], DOMAIN tasks')
    BY <1>1, <2>1, GotoTyped
  <2> QED BY <1>1, <1>2, <1>3, <2>1, <2>2
<1>6. CASE EnqueueFindSolution(r)
  <2>1. /\ Goto(r, "tags") \/ Goto(r, "enqueue")
        /\ req[r].pc = "find-solution" /\ UNCHANGED storedVars
    BY <1>6 DEF EnqueueFindSolution, At
  <2>2. /\ req' \in [Requests -> RequestLocals]
        /\ \A q \in Requests : GoodRequest(req'[q], DOMAIN tasks')
    BY <1>1, <2>1, GotoTyped
  <2> QED BY <1>1, <1>2, <1>3, <2>1, <2>2
<1>7. CASE EnqueueInsert(r)
  <2>1. /\ Goto(r, "tags") /\ req[r].pc = "enqueue" /\ req[r].problem \in Problems
        /\ tasks' = Append(tasks, _build_solution_task_document(req[r].problem))
        /\ problems' = problems /\ solutions' = solutions
    BY <1>1, <1>7 DEF EnqueueInsert, At
  <2>2. /\ tasks' \in Seq(TaskRecords) /\ DOMAIN tasks \subseteq DOMAIN tasks'
        /\ \A j \in DOMAIN tasks' : GoodTask(tasks'[j])
        /\ \A j \in DOMAIN tasks : tasks'[j] = tasks[j]
    BY <2>1, AppendUpdates
  <2>3. /\ req' \in [Requests -> RequestLocals]
        /\ \A q \in Requests : GoodRequest(req'[q], DOMAIN tasks')
    BY <1>1, <2>1, <2>2, GotoTyped
  <2> QED BY <1>2, <1>3, <2>1, <2>2, <2>3
<1>8. CASE CreateEnds(r)
  <2>1. Finish(r) /\ UNCHANGED storedVars
    BY <1>8 DEF CreateEnds
  <2>2. /\ req' \in [Requests -> RequestLocals]
        /\ \A q \in Requests : GoodRequest(req'[q], DOMAIN tasks')
    BY <2>1, FinishTyped
  <2> QED BY <1>1, <1>2, <1>3, <2>1, <2>2
<1>9. CASE CreateFails(r)
  <2>1. Finish(r) /\ tasks' = tasks /\ solutions' = solutions /\ problems' \subseteq problems
    BY <1>9 DEF CreateFails
  <2>2. /\ req' \in [Requests -> RequestLocals]
        /\ \A q \in Requests : GoodRequest(req'[q], DOMAIN tasks')
    BY <2>1, FinishTyped
  <2> QED BY <1>1, <1>2, <1>3, <2>1, <2>2
<1> QED BY <1>4, <1>5, <1>6, <1>7, <1>8, <1>9 DEF Create

\* A task is failed no longer because one regeneration resets it.
Resets(r, k) == req[r].pc = "reset" /\ req[r].task = k /\ req'[r].pc = "done"

\* A regeneration changes a task by its reset only.
LEMMA RegenerateTyped ==
  ASSUME Typed, NEW r \in Requests, Regenerate(r)
  PROVE  Typed' /\ \A k \in DOMAIN tasks : tasks'[k] = tasks[k] \/ Resets(r, k)
<1>1. /\ req[r] \in RequestLocals /\ req[r].task \in Nat /\ tasks \in Seq(TaskRecords)
      /\ DOMAIN tasks \subseteq Nat
      /\ GoodRequest(req[r], DOMAIN tasks)
  <2>1. req[r] \in RequestLocals /\ GoodRequest(req[r], DOMAIN tasks)
    BY DEF Typed, TypeOK
  <2> QED BY <2>1 DEF Typed, TypeOK, RequestLocals
<1>2. /\ problems \subseteq Problems /\ solutions \in [Problems -> Nat]
      /\ \A k \in DOMAIN tasks : GoodTask(tasks[k])
  BY DEF Typed, TypeOK
<1>3. OnlyRequest
  BY DEF Regenerate, RegenerateFindSolution, RegenerateFindTask, RegenerateDelete,
         _reset_task_to_pending, RegenerateInsert
<1> USE RequestKeepsTypes
<1>4. CASE RegenerateFindSolution(r)
  <2>1. PICK p \in problems :
           req' = [req EXCEPT ![r] = [@ EXCEPT !.pc = "regenerate", !.problem = p,
                                               !.solved = solutions[p] > 0]]
    BY <1>4 DEF RegenerateFindSolution
  <2> DEFINE solved == solutions[p] > 0
             l == [req[r] EXCEPT !.pc = "regenerate", !.problem = p, !.solved = solved]
  <2>2. /\ l \in RequestLocals /\ l.pc = "regenerate" /\ l.problem = p
        /\ l.task = req[r].task
    <3>1. solved \in BOOLEAN /\ p \in Problems
      BY <1>2
    <3> HIDE DEF solved
    <3> QED BY <1>1, <3>1 DEF RequestLocals
  <2>3. req' = [req EXCEPT ![r] = l]
    BY <2>1
  <2>4. GoodRequest(l, DOMAIN tasks')
    <3>1. req[r].pc = "idle"
      BY <1>4 DEF RegenerateFindSolution, Starts
    <3> QED BY <1>1, <1>2, <2>2, <3>1 DEF GoodRequest
  <2>5. UNCHANGED storedVars
    BY <1>4 DEF RegenerateFindSolution
  <2> HIDE DEF l
  <2>6. /\ req' \in [Requests -> RequestLocals]
        /\ \A q \in Requests : GoodRequest(req'[q], DOMAIN tasks')
    BY <2>2, <2>3, <2>4, <2>5, RequestGoes
  <2> QED BY <1>1, <1>2, <1>3, <2>5, <2>6
<1>5. CASE RegenerateFindTask(r)
  <2>1. req[r].pc = "regenerate" /\ UNCHANGED storedVars
    BY <1>5 DEF RegenerateFindTask, At
  <2>2. \/ Goto(r, "delete") /\ TasksOf(req[r].problem) = {}
        \/ Finish(r)
        \/ \E k \in TasksOf(req[r].problem) : Take(r, "delete", k) \/ Take(r, "reset", k)
    BY <1>5 DEF RegenerateFindTask
  <2>3. TasksOf(req[r].problem) \subseteq DOMAIN tasks
    BY DEF TasksOf
  <2>4. req[r].task = 0
    BY <1>1, <2>1 DEF GoodRequest
  <2>5. /\ req' \in [Requests -> RequestLocals]
        /\ \A q \in Requests : GoodRequest(req'[q], DOMAIN tasks')
    <3>1. CASE Goto(r, "delete")
      BY <1>1, <2>1, <2>4, <3>1, GotoTyped
    <3>2. CASE Finish(r)
      BY <2>1, <3>2, FinishTyped
    <3>3. CASE \E k \in TasksOf(req[r].problem) : Take(r, "delete", k) \/ Take(r, "reset", k)
      <4>1. PICK k \in DOMAIN tasks : Take(r, "delete", k) \/ Take(r, "reset", k)
        BY <2>3, <3>3
      <4> QED BY <1>1, <2>1, <4>1, GotoTyped
    <3> QED BY <2>2, <3>1, <3>2, <3>3
  <2> QED BY <1>1, <1>2, <1>3, <2>1, <2>5
<1>6. CASE RegenerateDelete(r)
  <2>1. /\ req[r].pc = "delete" /\ tasks' = tasks /\ problems' = problems
        /\ \/ Goto(r, "insert")
           \/ Goto(r, "reset") /\ req[r].task # 0
        /\ solutions' = [solutions EXCEPT ![req[r].problem] = DeleteOne(@)]
    BY <1>6 DEF RegenerateDelete, At
  <2>2. req[r].task \in DOMAIN tasks \union {0}
    BY <1>1, <2>1 DEF GoodRequest
  <2>3. /\ req' \in [Requests -> RequestLocals]
        /\ \A q \in Requests : GoodRequest(req'[q], DOMAIN tasks')
    BY <1>1, <2>1, <2>2, GotoTyped
  <2>4. solutions' \in [Problems -> Nat]
    <3>1. req[r].problem \in Problems
      BY <1>1, <2>1 DEF GoodRequest
    <3>2. DeleteOne(solutions[req[r].problem]) \in Nat
      BY <1>2, <3>1 DEF DeleteOne
    <3> QED BY <1>2, <2>1, <3>1, <3>2
  <2> QED BY <1>1, <1>2, <1>3, <2>1, <2>3, <2>4
<1>7. CASE _reset_task_to_pending(r)
  <2>1. /\ req[r].pc = "reset" /\ SetTask(req[r].task, "pending", 0, TRUE) /\ Finish(r)
        /\ problems' = problems /\ solutions' = solutions
    BY <1>7 DEF _reset_task_to_pending, At
  <2>2. req[r].task \in DOMAIN tasks
    BY <1>1, <2>1 DEF GoodRequest
  <2>3. /\ tasks' \in Seq(TaskRecords) /\ DOMAIN tasks' = DOMAIN tasks
        /\ \A j \in DOMAIN tasks' : GoodTask(tasks'[j])
        /\ tasks'[req[r].task].status = "pending"
        /\ \A j \in DOMAIN tasks : j # req[r].task => tasks'[j] = tasks[j]
    <3>1. 0 \in 0 .. max_retries + 1 /\ 0 <= max_retries
      OBVIOUS
    <3> QED BY <2>1, <2>2, <3>1, SetTaskUpdates
  <2>4. /\ req' \in [Requests -> RequestLocals] /\ req'[r].pc = "done"
        /\ \A q \in Requests : GoodRequest(req'[q], DOMAIN tasks')
    BY <2>1, <2>3, FinishTyped
  <2>5. \A j \in DOMAIN tasks : tasks'[j] = tasks[j] \/ Resets(r, j)
    BY <2>1, <2>3, <2>4 DEF Resets
  <2>6. \A j \in DOMAIN tasks : tasks'[j].status = "failed" => tasks[j].status = "failed"
    BY <2>3
  <2> QED BY <1>2, <1>3, <2>1, <2>3, <2>4, <2>5, <2>6
<1>8. CASE RegenerateInsert(r)
  <2>1. /\ req[r].pc = "insert" /\ Finish(r)
        /\ tasks' = Append(tasks, _build_solution_task_document(req[r].problem))
        /\ problems' = problems /\ solutions' = solutions
    BY <1>8 DEF RegenerateInsert, At
  <2>2. req[r].problem \in Problems
    BY <1>1, <2>1 DEF GoodRequest
  <2>3. /\ tasks' \in Seq(TaskRecords) /\ DOMAIN tasks \subseteq DOMAIN tasks'
        /\ \A j \in DOMAIN tasks' : GoodTask(tasks'[j])
        /\ \A j \in DOMAIN tasks : tasks'[j] = tasks[j]
    BY <2>1, <2>2, AppendUpdates
  <2>4. /\ req' \in [Requests -> RequestLocals]
        /\ \A q \in Requests : GoodRequest(req'[q], DOMAIN tasks')
    BY <2>1, <2>3, FinishTyped
  <2> QED BY <1>2, <1>3, <2>1, <2>3, <2>4
<1> QED BY <1>4, <1>5, <1>6, <1>7, <1>8 DEF Regenerate

-----------------------------------------------------------------------------
(* The theorems *)

\* Every step keeps the types, and revives no failed task but by a reset.
LEMMA StepTyped ==
  ASSUME Typed, [Next]_vars
  PROVE  /\ Typed'
         /\ \A k \in DOMAIN tasks :
               tasks[k].status = "failed" /\ tasks'[k].status # "failed" =>
                   \E r \in Requests : Resets(r, k)
<1>1. CASE WorkerStep
  BY <1>1, WorkerTyped
<1>2. CASE WorkerDies
  <2>1. /\ worker' \in WorkerLocals /\ worker'.pc = "dead" /\ crashes' \in 0 .. MaxCrashes
        /\ UNCHANGED <<problems, tasks, solutions, up, req>>
    BY <1>2, InitialValues DEF WorkerDies, Typed, TypeOK
  <2> QED BY <2>1, RequestsKept DEF Typed, TypeOK, GoodWorker
<1>3. CASE Crash
  <2>1. /\ worker' \in WorkerLocals /\ worker'.pc = "recover" /\ crashes' \in 0 .. MaxCrashes
        /\ up' = FALSE /\ UNCHANGED storedVars
    BY <1>3, InitialValues DEF Crash, Typed, TypeOK
  <2>2. req' = [r \in Requests |-> IF req[r].pc = "idle" THEN req[r]
                                   ELSE [IdleRequest EXCEPT !.pc = "done"]]
    BY <1>3 DEF Crash
  <2>3. req' \in [Requests -> RequestLocals]
    BY <2>2, InitialValues DEF Typed, TypeOK
  <2>4. \A r \in Requests : GoodRequest(req'[r], DOMAIN tasks')
    <3>1. \A r \in Requests : req'[r] = req[r] \/ req'[r].pc = "done"
      BY <2>2, InitialValues
    <3> QED BY <2>1, <3>1 DEF GoodRequest, Typed
  <2> QED BY <2>1, <2>3, <2>4 DEF Typed, TypeOK, GoodWorker
<1>4. CASE Start
  <2>1. /\ tasks' \in Seq(TaskRecords) /\ DOMAIN tasks \subseteq DOMAIN tasks'
        /\ \A j \in DOMAIN tasks' : GoodTask(tasks'[j])
        /\ \A j \in DOMAIN tasks : tasks'[j] = tasks[j]
    BY <1>4, BackfillUpdates DEF Start
  <2>2. up' = TRUE /\ UNCHANGED <<problems, solutions, worker, req, crashes>>
    BY <1>4 DEF Start
  <2>3. GoodWorker'
    BY <2>1, <2>2 DEF Typed, GoodWorker
  <2> QED BY <2>1, <2>2, <2>3, RequestsKept DEF Typed, TypeOK
<1>5. CASE \E r \in Requests : Create(r) \/ Regenerate(r)
  BY <1>5, CreateTyped, RegenerateTyped
<1>6. CASE \E k \in DOMAIN tasks : BackoffElapses(k) \/ TimeoutPasses(k)
  BY <1>6, TimeTyped
<1>7. CASE UNCHANGED vars
  BY <1>7, RequestsKept DEF vars, Typed, TypeOK, GoodWorker
<1> QED BY <1>1, <1>2, <1>3, <1>4, <1>5, <1>6, <1>7 DEF Next

\* The initial states are typed, whichever of the stored problems are solved.
LEMMA InitTyped == Init => Typed
<1> SUFFICES ASSUME Init PROVE Typed
  OBVIOUS
<1>1. /\ problems = Stored /\ tasks = <<>> /\ up = FALSE /\ worker = IdleWorker
      /\ req = [r \in Requests |-> IdleRequest] /\ crashes = 0
  BY DEF Init
<1>2. solutions \in [Problems -> Nat]
  BY DEF Init
<1>3. /\ tasks \in Seq(TaskRecords) /\ DOMAIN tasks = {} /\ problems \subseteq Problems
      /\ worker \in WorkerLocals /\ worker.pc = "recover"
  BY <1>1, InitialValues
<1>4. req \in [Requests -> RequestLocals] /\ \A r \in Requests : GoodRequest(req[r], DOMAIN tasks)
  BY <1>1, InitialValues DEF GoodRequest
<1>5. crashes \in 0 .. MaxCrashes
  BY <1>1
<1>6. up \in BOOLEAN
  BY <1>1
<1>7. TypeOK
  BY <1>2, <1>3, <1>4, <1>5, <1>6 DEF TypeOK
<1> QED BY <1>3, <1>4, <1>7 DEF Typed, GoodWorker

LEMMA AlwaysTyped == Spec => []Typed
<1>1. Typed /\ [Next]_vars => Typed'
  BY StepTyped
<1> QED BY <1>1, InitTyped, PTL DEF Spec

\* The stored collections and every actor's locals keep their types, the task
\* under the worker exists, and so does the one a regeneration resets.
THEOREM TypeCorrect == Spec => []TypeOK
<1>1. Typed => TypeOK
  BY DEF Typed
<1> QED BY <1>1, AlwaysTyped, PTL

\* No task is attempted more than max_retries + 1 times, and one that waits for
\* an attempt has one left: stuck recovery and crashes never add an attempt,
\* and a reset, also amid an attempt, only gives them back (process_task,
\* recover_stuck_tasks, _reset_task_to_pending).
THEOREM AttemptsAreBounded == Spec => []RetriesBounded
<1>1. Typed => RetriesBounded
  <2> SUFFICES ASSUME Typed, NEW k \in DOMAIN tasks
               PROVE  /\ tasks[k].retry_count <= max_retries + 1
                      /\ tasks[k].status \in {"pending", "generating"} =>
                             tasks[k].retry_count <= max_retries
    BY DEF RetriesBounded
  <2>1. tasks[k] \in TaskRecords /\ GoodTask(tasks[k])
    BY DEF Typed, TypeOK
  <2> QED BY <2>1 DEF TaskRecords, GoodTask
<1> QED BY <1>1, AlwaysTyped, PTL

\* A failed task is taken up again by a regeneration's reset only: the worker
\* never ends an attempt of a task that failed meanwhile, because no one else
\* fails one, and stuck recovery passes over it.
THEOREM FailuresStand == Spec => FailedStaysFailed
<1>1. Typed /\ [Next]_vars =>
         [\A k \in DOMAIN tasks :
             tasks[k].status = "failed" /\ tasks'[k].status # "failed" =>
                 \E r \in Requests :
                     req[r].pc = "reset" /\ req[r].task = k /\ req'[r].pc = "done"]_vars
  BY StepTyped DEF Resets
<1> QED BY <1>1, AlwaysTyped, PTL DEF Spec, FailedStaysFailed
=============================================================================

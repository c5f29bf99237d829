--------------------------- MODULE SolutionTasks ---------------------------
(***************************************************************************)
(* The background generation of canonical solutions: the tasks enqueued    *)
(* when a problem is created, the worker that claims them one by one, its  *)
(* retries and its recovery of stuck tasks, the backfill at start, and the *)
(* regeneration a learner asks for.                                        *)
(*                                                                         *)
(* One backend process runs the endpoints and one worker, as the           *)
(* deployment does.  Every call to the database is a step; collections     *)
(* have no unique index here, so a problem may have several tasks and      *)
(* several solutions.                                                      *)
(***************************************************************************)
EXTENDS Integers, Sequences, FiniteSets

CONSTANTS
    Problems,      \* the problems that may be stored
    Stored,        \* those stored before the first start
    max_retries,   \* settings.solution_max_retries
    Requests,      \* the API requests; each runs once
    RequestKinds,  \* which endpoints are called in this instance
    MaxCrashes     \* bound on stops of the process and of its worker

Kinds == {"create", "regenerate"}

ASSUME StoredAssumption == IsFiniteSet(Problems) /\ Stored \subseteq Problems
ASSUME RetriesAssumption == max_retries \in Nat
ASSUME RequestKindsAssumption == RequestKinds \subseteq Kinds
ASSUME MaxCrashesAssumption == MaxCrashes \in Nat

VARIABLES
    problems,   \* the problems stored
    tasks,      \* solution_generation_tasks, in the order of created_at
    solutions,  \* how many canonical_solutions each problem has
    up,         \* whether the process serves requests
    worker,     \* the local variables of run_solution_worker and process_task
    req,        \* the local variables of each request
    crashes     \* stops so far

vars == <<problems, tasks, solutions, up, worker, req, crashes>>
storedVars == <<problems, tasks, solutions>>

-----------------------------------------------------------------------------
(* Tasks *)

\* due: process_after has come; stale: updated_at is before the stuck threshold.
_build_solution_task_document(p) ==
    [problem |-> p, status |-> "pending", retry_count |-> 0, due |-> TRUE, stale |-> FALSE]

TasksOf(p) == {k \in DOMAIN tasks : tasks[k].problem = p}

\* Every update of a task sets updated_at and process_after.
SetTask(k, status, retry, due) ==
    tasks' = [tasks EXCEPT ![k] = [@ EXCEPT !.status = status, !.retry_count = retry,
                                            !.due = due, !.stale = FALSE]]

IdleWorker == [pc |-> "recover", task |-> 0, retry_count |-> 0]
IdleRequest ==
    [pc |-> "idle", problem |-> CHOOSE p \in Problems : TRUE, mine |-> FALSE,
     solved |-> FALSE, task |-> 0]

\* The problems stored before the first start have no task; some may have a
\* solution, which the backfill looks for.
Init ==
    /\ problems = Stored
    /\ tasks = <<>>
    /\ \E solved \in SUBSET Stored :
          solutions = [p \in Problems |-> IF p \in solved THEN 1 ELSE 0]
    /\ up = FALSE
    /\ worker = IdleWorker
    /\ req = [r \in Requests |-> IdleRequest]
    /\ crashes = 0

-----------------------------------------------------------------------------
(* The worker *)

WorkerAt(pc) == up /\ worker.pc = pc
WorkerGoes(pc) == worker' = [worker EXCEPT !.pc = pc]
OnlyWorker == UNCHANGED <<problems, solutions, up, req, crashes>>

\* Mutants: stuck recovery forgets tasks being generated, or takes failed ones.
StuckPendingOnly(t) == t.stale /\ t.status = "pending"
StuckOrFailed(t) == t.stale \/ t.status = "failed"

Stuck(t) == t.stale /\ t.status \in {"pending", "generating"}

\* Tasks of a worker that stopped are put back.
RecoverStuck ==
    /\ WorkerAt("recover")
    /\ tasks' = [k \in DOMAIN tasks |->
                    IF Stuck(tasks[k])
                    THEN [tasks[k] EXCEPT !.status = "pending", !.due = TRUE, !.stale = FALSE]
                    ELSE tasks[k]]
    /\ WorkerGoes("claim")
    /\ OnlyWorker

Claimable == {k \in DOMAIN tasks : tasks[k].status = "pending" /\ tasks[k].due}

\* The oldest task that is due, or none and the worker sleeps.
ClaimTask ==
    /\ WorkerAt("claim")
    /\ \/ /\ Claimable = {}
          /\ WorkerGoes("recover")
          /\ UNCHANGED tasks
       \/ \E k \in Claimable :
             /\ \A j \in Claimable : k <= j
             /\ SetTask(k, "generating", tasks[k].retry_count, TRUE)
             /\ worker' = [pc |-> "load", task |-> k, retry_count |-> tasks[k].retry_count]
    /\ OnlyWorker

\* A problem whose creation was undone leaves a task behind, which fails.
LoadProblem ==
    /\ WorkerAt("load")
    /\ IF tasks[worker.task].problem \in problems
       THEN WorkerGoes("generate") /\ UNCHANGED tasks
       ELSE /\ SetTask(worker.task, "failed", tasks[worker.task].retry_count, TRUE)
            /\ worker' = IdleWorker
    /\ OnlyWorker

\* The model answers and the solution is stored; the task is updated afterwards.
SaveSolution ==
    /\ WorkerAt("generate")
    /\ solutions' = [solutions EXCEPT ![tasks[worker.task].problem] = @ + 1]
    /\ WorkerGoes("ready")
    /\ UNCHANGED <<problems, tasks, up, req, crashes>>

\* The update matches the task's _id alone.
MarkReady ==
    /\ WorkerAt("ready")
    /\ SetTask(worker.task, "ready", tasks[worker.task].retry_count, TRUE)
    /\ worker' = IdleWorker
    /\ OnlyWorker

\* Mutant: one attempt too many.
ExhaustedLate(retry) == retry > max_retries + 1

\* retry is the count with this attempt.
Exhausted(retry) == retry > max_retries

\* A SolutionCoachingVLMError: fatal, or retried after a backoff.
ModelFails ==
    /\ WorkerAt("generate")
    /\ \E retryable \in BOOLEAN :
          LET retry == worker.retry_count + 1
          IN  IF ~retryable \/ Exhausted(retry)
              THEN SetTask(worker.task, "failed", retry, TRUE)
              ELSE SetTask(worker.task, "pending", retry, FALSE)
    /\ worker' = IdleWorker
    /\ OnlyWorker

\* Any other exception, also from the two updates that end a success.
TaskFails ==
    /\ WorkerAt("generate") \/ WorkerAt("ready")
    /\ SetTask(worker.task, "failed", tasks[worker.task].retry_count, TRUE)
    /\ worker' = IdleWorker
    /\ OnlyWorker

\* An exception outside process_task's try ends the worker until the next start.
WorkerDies ==
    /\ up /\ worker.pc # "dead"
    /\ crashes < MaxCrashes
    /\ crashes' = crashes + 1
    /\ worker' = [IdleWorker EXCEPT !.pc = "dead"]
    /\ UNCHANGED <<problems, tasks, solutions, up, req>>

\* process_after = now + 30 * 2^(retry_count - 1) seconds comes.
BackoffElapses(k) ==
    /\ k \in DOMAIN tasks
    /\ ~tasks[k].due
    /\ tasks' = [tasks EXCEPT ![k] = [@ EXCEPT !.due = TRUE]]
    /\ UNCHANGED <<problems, solutions, up, worker, req, crashes>>

\* solution_task_timeout_minutes pass for a task the worker has abandoned.  It
\* never recovers the task it is working on, the loop being sequential, and for
\* a pending task, whose backoff is shorter, recovery changes nothing.
TimeoutPasses(k) ==
    /\ k \in DOMAIN tasks
    /\ tasks[k].status = "generating" /\ worker.task # k
    /\ ~tasks[k].stale
    /\ tasks' = [tasks EXCEPT ![k] = [@ EXCEPT !.stale = TRUE]]
    /\ UNCHANGED <<problems, solutions, up, worker, req, crashes>>

-----------------------------------------------------------------------------
(* Creating a problem: insert it, then enqueue its task unless it has one *)

Starts(r, kind) == up /\ kind \in RequestKinds /\ req[r].pc = "idle"
At(r, pc) == up /\ req[r].pc = pc
Goto(r, pc) == req' = [req EXCEPT ![r] = [@ EXCEPT !.pc = pc]]
Take(r, pc, k) == req' = [req EXCEPT ![r] = [@ EXCEPT !.pc = pc, !.task = k]]
Finish(r) == req' = [req EXCEPT ![r] = [IdleRequest EXCEPT !.pc = "done"]]
OnlyRequest == UNCHANGED <<up, worker, crashes>>

\* A second submission of the same source finds the problem and enqueues again.
CreateProblem(r) ==
    /\ Starts(r, "create")
    /\ \E p \in Problems :
          /\ problems' = problems \union {p}
          /\ req' = [req EXCEPT ![r] = [@ EXCEPT !.pc = "find-task", !.problem = p,
                                                 !.mine = p \notin problems]]
    /\ UNCHANGED <<tasks, solutions>> /\ OnlyRequest

EnqueueFindTask(r) ==
    /\ At(r, "find-task")
    /\ IF TasksOf(req[r].problem) # {} THEN Goto(r, "tags") ELSE Goto(r, "find-solution")
    /\ UNCHANGED storedVars /\ OnlyRequest

EnqueueFindSolution(r) ==
    /\ At(r, "find-solution")
    /\ IF solutions[req[r].problem] > 0 THEN Goto(r, "tags") ELSE Goto(r, "enqueue")
    /\ UNCHANGED storedVars /\ OnlyRequest

EnqueueInsert(r) ==
    /\ At(r, "enqueue")
    /\ tasks' = Append(tasks, _build_solution_task_document(req[r].problem))
    /\ Goto(r, "tags")
    /\ UNCHANGED <<problems, solutions>> /\ OnlyRequest

CreateEnds(r) ==
    /\ At(r, "tags")
    /\ Finish(r)
    /\ UNCHANGED storedVars /\ OnlyRequest

\* Enqueueing or registering tags raises: a problem this request inserted is
\* deleted again, unless that fails too.
CreateFails(r) ==
    /\ up /\ req[r].pc \in {"find-task", "find-solution", "enqueue", "tags"}
    /\ Finish(r)
    /\ \/ req[r].mine /\ problems' = problems \ {req[r].problem}
       \/ UNCHANGED problems
    /\ UNCHANGED <<tasks, solutions>> /\ OnlyRequest

-----------------------------------------------------------------------------
(* Regeneration *)

RegenerateFindSolution(r) ==
    /\ Starts(r, "regenerate")
    /\ \E p \in problems :
          req' = [req EXCEPT ![r] = [@ EXCEPT !.pc = "regenerate", !.problem = p,
                                              !.solved = solutions[p] > 0]]
    /\ UNCHANGED storedVars /\ OnlyRequest

\* Without a solution only a failed task may be reset; the rest is a conflict.
RegenerateFindTask(r) ==
    /\ At(r, "regenerate")
    /\ LET found == TasksOf(req[r].problem)
       IN  \/ /\ found = {}
              /\ IF req[r].solved THEN Goto(r, "delete") ELSE Finish(r)
           \/ \E k \in found :
                 \/ req[r].solved /\ Take(r, "delete", k)
                 \/ ~req[r].solved /\ tasks[k].status = "failed" /\ Take(r, "reset", k)
                 \/ ~req[r].solved /\ tasks[k].status # "failed" /\ Finish(r)
    /\ UNCHANGED storedVars /\ OnlyRequest

\* delete_one: one solution, if the problem still has one.
DeleteOne(n) == IF n > 0 THEN n - 1 ELSE 0

RegenerateDelete(r) ==
    /\ At(r, "delete")
    /\ solutions' = [solutions EXCEPT ![req[r].problem] = DeleteOne(@)]
    /\ Goto(r, IF req[r].task = 0 THEN "insert" ELSE "reset")
    /\ UNCHANGED <<problems, tasks>> /\ OnlyRequest

_reset_task_to_pending(r) ==
    /\ At(r, "reset")
    /\ SetTask(req[r].task, "pending", 0, TRUE)
    /\ Finish(r)
    /\ UNCHANGED <<problems, solutions>> /\ OnlyRequest

RegenerateInsert(r) ==
    /\ At(r, "insert")
    /\ tasks' = Append(tasks, _build_solution_task_document(req[r].problem))
    /\ Finish(r)
    /\ UNCHANGED <<problems, solutions>> /\ OnlyRequest

-----------------------------------------------------------------------------
(* The process: it stops at any moment, and a start first backfills *)

Crash ==
    /\ up
    /\ crashes < MaxCrashes
    /\ crashes' = crashes + 1
    /\ up' = FALSE
    /\ worker' = IdleWorker
    /\ req' = [r \in Requests |-> IF req[r].pc = "idle" THEN req[r]
                                  ELSE [IdleRequest EXCEPT !.pc = "done"]]
    /\ UNCHANGED storedVars

\* Mutant: the backfill looks for solutions only among problems with a task.
MissingBoth == {p \in problems : TasksOf(p) = {} /\ solutions[p] > 0}

Missing == {p \in problems : TasksOf(p) = {} /\ solutions[p] = 0}

\* The tasks of the missing problems, in any order (they share created_at).
backfill_solution_generation_tasks ==
    \E order \in [1 .. Cardinality(Missing) -> Missing] :
        /\ \A p \in Missing : \E n \in DOMAIN order : order[n] = p
        /\ tasks' = tasks \o [n \in DOMAIN order |-> _build_solution_task_document(order[n])]

Start ==
    /\ ~up
    /\ up' = TRUE
    /\ backfill_solution_generation_tasks
    /\ UNCHANGED <<problems, solutions, worker, req, crashes>>

-----------------------------------------------------------------------------
WorkerStep ==
    \/ RecoverStuck \/ ClaimTask \/ LoadProblem
    \/ SaveSolution \/ MarkReady \/ ModelFails \/ TaskFails

Create(r) ==
    \/ CreateProblem(r) \/ EnqueueFindTask(r) \/ EnqueueFindSolution(r)
    \/ EnqueueInsert(r) \/ CreateEnds(r) \/ CreateFails(r)

Regenerate(r) ==
    \/ RegenerateFindSolution(r) \/ RegenerateFindTask(r) \/ RegenerateDelete(r)
    \/ _reset_task_to_pending(r) \/ RegenerateInsert(r)

Next ==
    \/ WorkerStep \/ WorkerDies \/ Crash \/ Start
    \/ \E r \in Requests : Create(r) \/ Regenerate(r)
    \/ \E k \in DOMAIN tasks : BackoffElapses(k) \/ TimeoutPasses(k)

Spec == Init /\ [][Next]_vars

\* No more tasks than that are ever enqueued in one instance.
TaskNumbers == 1 .. Cardinality(Requests) + Cardinality(Problems)

(***************************************************************************)
(* Fairness.  The worker's loop goes on while its process runs, a stopped  *)
(* process is started again (restart: unless-stopped), and time passes.    *)
(* Requests may stop anywhere.                                             *)
(***************************************************************************)
Fairness ==
    /\ WF_vars(WorkerStep)
    /\ WF_vars(Start)
    /\ \A k \in TaskNumbers : WF_vars(BackoffElapses(k)) /\ WF_vars(TimeoutPasses(k))

FairSpec == Spec /\ Fairness

-----------------------------------------------------------------------------
(* Properties *)

\* A task is attempted max_retries times more at the most, and one that waits
\* for its next attempt has used no more than that, whatever regenerations and
\* crashes happen during an attempt.
RetriesBounded ==
    \A k \in DOMAIN tasks :
        /\ tasks[k].retry_count <= max_retries + 1
        /\ tasks[k].status \in {"pending", "generating"} => tasks[k].retry_count <= max_retries

\* A failed task is taken up again by a regeneration only: neither stuck
\* recovery nor the end of an attempt revives it.
FailedStaysFailed ==
    [][\A k \in DOMAIN tasks :
          tasks[k].status = "failed" /\ tasks'[k].status # "failed" =>
              \E r \in Requests : req[r].pc = "reset" /\ req[r].task = k /\ req'[r].pc = "done"]_vars

\* A problem stored when the process stops is not forgotten: it gets a task or
\* had one, also when the process stopped between the two inserts of its
\* creation or amid the regeneration of its solution.
StoredProblemsCovered ==
    \A p \in Problems :
        (p \in problems /\ ~up) ~> (TasksOf(p) # {} \/ solutions[p] > 0 \/ p \notin problems)

Unsettled(k) == k \in DOMAIN tasks /\ tasks[k].status \in {"pending", "generating"}

\* Every task is eventually ready or failed, despite model errors, backoffs and
\* a process that stops amid an attempt, unless the worker alone has ended.
TasksSettle ==
    \A k \in TaskNumbers :
        Unsettled(k) ~> (~Unsettled(k) \/ worker.pc = "dead")

-----------------------------------------------------------------------------
(* What the repository says, and the code does not do (see the README) *)

\* regenerate_solution_task_for_problem: a regeneration deletes the solution and
\* then resets the task to pending, so that a ready task without a solution,
\* which nothing takes up again, is never left behind.
ReadyTasksHaveSolutions ==
    \A k \in DOMAIN tasks :
        tasks[k].status = "ready" =>
            \/ solutions[tasks[k].problem] > 0
            \/ \E r \in Requests : req[r].pc = "reset" /\ req[r].task = k
=============================================================================

------------------------ MODULE PreviewIngestionProofs ------------------------
(* Theorems about PreviewIngestion, for every value of its constants: any  *)
(* number of requests and of tasks, any bounds on time and faults.         *)
EXTENDS PreviewIngestion, TLAPS

USE NoTaskAssumption, BoundsAssumption
USE DEF previewVars, taskVars, bounds

-----------------------------------------------------------------------------
(* Type correctness *)

Statuses == {"none", "extracting", "ready", "vlm-failed", "confirmed"}
Instants == 0 .. MaxClock
TaskLocals == [pc : {"idle", "load", "call", "ready", "vlm-failed"},
               started : Instants, draft : Drafts, cancelled : BOOLEAN]
RequestLocals == [pc : {"new", "start", "task", "patch", "create", "insert", "enqueue",
                        "restore", "done"},
                  status : {"none", "ready", "vlm-failed"}, started : Instants, draft : Drafts]
PollLocals == [pc : {"idle", "recover"}, started : Instants, draft : Drafts,
               cancelled : BOOLEAN]

TypeOK ==
    /\ status \in Statuses
    /\ started \in Instants
    /\ draft \in Drafts
    /\ problems \subseteq Requests
    /\ task \in [Tasks -> TaskLocals]
    /\ registered \in Tasks \union {NoTask}
    /\ request \in [Requests -> RequestLocals]
    /\ poll \in PollLocals
    /\ clock \in Instants
    /\ failures \in 0 .. MaxFailures
    /\ crashes \in 0 .. MaxCrashes

LEMMA InitialValues ==
  /\ 0 \in Instants /\ EmptyDraft \in Drafts
  /\ Idle \in TaskLocals /\ Idle.pc = "idle" /\ ~ Idle.cancelled
  /\ Idle \in PollLocals
  /\ NewRequest \in RequestLocals
  /\ Done \in RequestLocals /\ Done.pc = "done"
<1>1. 0 \in Instants /\ EmptyDraft \in Drafts
  BY DEF Instants, EmptyDraft, Drafts
<1>2. Idle \in TaskLocals /\ Idle.pc = "idle" /\ ~ Idle.cancelled /\ Idle \in PollLocals
  BY <1>1 DEF Idle, TaskLocals, PollLocals
<1>3. NewRequest \in RequestLocals
  BY <1>1 DEF NewRequest, RequestLocals
<1>4. Done \in RequestLocals /\ Done.pc = "done"
  BY <1>3 DEF Done, RequestLocals
<1> QED BY <1>1, <1>2, <1>3, <1>4

LEMMA TypeInit == Init => TypeOK
  BY InitialValues DEF Init, TypeOK, Statuses

\* What becomes of the registry and the tasks.
LEMMA TaskUpdates ==
  ASSUME TypeOK, NEW t \in Tasks
  PROVE  /\ task[t] \in TaskLocals
         /\ Cancelled \in [Tasks -> TaskLocals]
         /\ End(t) => task' \in [Tasks -> TaskLocals] /\ registered' \in Tasks \union {NoTask}
         /\ \A at \in Instants : Register(t, at) =>
               task' \in [Tasks -> TaskLocals] /\ registered' \in Tasks \union {NoTask}
<1>1. task \in [Tasks -> TaskLocals] /\ registered \in Tasks \union {NoTask}
  BY DEF TypeOK
<1>2. \A l \in TaskLocals : [l EXCEPT !.cancelled = TRUE] \in TaskLocals
  BY DEF TaskLocals
<1>3. Cancelled \in [Tasks -> TaskLocals]
  BY <1>1, <1>2 DEF Cancelled
<1>4. End(t) => task' \in [Tasks -> TaskLocals] /\ registered' \in Tasks \union {NoTask}
  BY <1>1, InitialValues DEF End, Forget
<1>5. \A at \in Instants : [Idle EXCEPT !.pc = "load", !.started = at] \in TaskLocals
  BY InitialValues DEF TaskLocals
<1> QED BY <1>1, <1>3, <1>4, <1>5 DEF Register

LEMMA TypeStep == TypeOK /\ [Next]_vars => TypeOK'
<1> SUFFICES ASSUME TypeOK, [Next]_vars PROVE TypeOK'
  OBVIOUS
<1>t. /\ task \in [Tasks -> TaskLocals] /\ request \in [Requests -> RequestLocals]
      /\ clock \in Instants /\ started \in Instants /\ draft \in Drafts
      /\ status \in Statuses
  BY DEF TypeOK
<1>0. CASE UNCHANGED vars
  BY <1>0 DEF vars, TypeOK
<1>1. CASE create_preview
  BY <1>1, <1>t, TaskUpdates DEF create_preview, TypeOK, Statuses
<1>2. ASSUME NEW t \in Tasks, Extraction(t) \/ TaskRaises(t) PROVE TypeOK'
  <2>l. task[t] \in TaskLocals
    BY TaskUpdates
  <2>1. CASE TaskLoads(t)
    <3>1. [task[t] EXCEPT !.pc = "call"] \in TaskLocals
      BY <2>l DEF TaskLocals
    <3>2. task' \in [Tasks -> TaskLocals] /\ registered' \in Tasks \union {NoTask}
      BY <2>1, <3>1, <1>t, TaskUpdates DEF TaskLoads, TypeOK
    <3> QED BY <2>1, <3>2 DEF TaskLoads, TypeOK
  <2>2. CASE TaskAnswers(t)
    <3>1. \A d \in Drafts : [task[t] EXCEPT !.pc = "ready", !.draft = d] \in TaskLocals
      BY <2>l DEF TaskLocals
    <3>2. Merged(draft) \subseteq Drafts
      BY <1>t DEF Merged, Drafts
    <3>3. task' \in [Tasks -> TaskLocals] /\ registered' \in Tasks \union {NoTask}
      <4>1. CASE Active(t)
        <5>1. PICK d \in Merged(draft) : task' = [task EXCEPT ![t].pc = "ready", ![t].draft = d]
          BY <2>2, <4>1 DEF TaskAnswers
        <5>2. task' = [task EXCEPT ![t] = [task[t] EXCEPT !.pc = "ready", !.draft = d]]
          BY <5>1, <1>t
        <5> QED BY <2>2, <3>1, <3>2, <4>1, <5>2, <1>t DEF TaskAnswers, TypeOK
      <4>2. CASE ~ Active(t)
        BY <2>2, <4>2, TaskUpdates DEF TaskAnswers
      <4> QED BY <4>1, <4>2
    <3> QED BY <2>2, <3>3 DEF TaskAnswers, TypeOK
  <2>3. CASE TaskFails(t)
    <3>1. [task[t] EXCEPT !.pc = "vlm-failed"] \in TaskLocals
      BY <2>l DEF TaskLocals
    <3>2. task' \in [Tasks -> TaskLocals] /\ registered' \in Tasks \union {NoTask}
      BY <2>3, <3>1, <1>t, TaskUpdates DEF TaskFails, TypeOK
    <3> QED BY <2>3, <3>2 DEF TaskFails, TypeOK
  <2>4. CASE TaskLands(t)
    <3>1. status' \in Statuses /\ started' \in Instants /\ draft' \in Drafts
      BY <2>4, <2>l, <1>t DEF TaskLands, TaskLocals, Statuses
    <3> QED BY <2>4, <3>1, TaskUpdates DEF TaskLands, TypeOK
  <2>5. CASE TaskStops(t)
    BY <2>5, TaskUpdates DEF TaskStops, TypeOK
  <2>6. CASE TaskRaises(t)
    <3>1. crashes' \in 0 .. MaxCrashes
      BY <2>6 DEF TaskRaises, TypeOK
    <3> QED BY <2>6, <3>1, TaskUpdates DEF TaskRaises, TypeOK
  <2> QED BY <1>2, <2>1, <2>2, <2>3, <2>4, <2>5, <2>6 DEF Extraction
<1>3. ASSUME NEW r \in Requests, Retry(r) PROVE TypeOK'
  <2>l. request[r] \in RequestLocals /\ request[r].started \in Instants
    BY <1>t DEF RequestLocals
  <2>1. CASE RetryRead(r)
    <3>1. [request[r] EXCEPT !.pc = "start", !.started = clock] \in RequestLocals
      BY <2>l, <1>t DEF RequestLocals
    <3>2. request' = [request EXCEPT ![r] = [request[r] EXCEPT !.pc = "start", !.started = clock]]
      BY <2>1, <1>t DEF RetryRead
    <3>3. request' \in [Requests -> RequestLocals]
      BY <3>1, <3>2, <1>t
    <3> QED BY <2>1, <3>3 DEF RetryRead, TypeOK
  <2>2. CASE StartWrite(r)
    <3>1. [request[r] EXCEPT !.pc = "task"] \in RequestLocals
      BY <2>l DEF RequestLocals
    <3>2. request' \in [Requests -> RequestLocals]
      BY <2>2, <3>1, <1>t DEF StartWrite
    <3> QED BY <2>2, <2>l, <3>2 DEF StartWrite, TypeOK, Statuses
  <2>3. CASE StartTask(r)
    <3>1. request' \in [Requests -> RequestLocals]
      BY <2>3, <1>t, InitialValues DEF StartTask
    <3> QED BY <2>3, <2>l, <3>1, TaskUpdates DEF StartTask, TypeOK
  <2> QED BY <1>3, <2>1, <2>2, <2>3 DEF Retry
<1>4. ASSUME NEW r \in Requests, Patch(r) PROVE TypeOK'
  <2>1. \A pc \in {"patch"} : [request[r] EXCEPT !.pc = pc] \in RequestLocals
    BY <1>t DEF RequestLocals
  <2>2. request' \in [Requests -> RequestLocals]
    BY <1>4, <2>1, <1>t, InitialValues DEF Patch, PatchRead, PatchWrite
  <2> QED BY <1>4, <2>2 DEF Patch, PatchRead, PatchWrite, TypeOK
<1>5. ASSUME NEW r \in Requests, Confirm(r) \/ RequestRaises(r) PROVE TypeOK'
  <2>l. request[r] \in RequestLocals /\ request[r].status \in {"none", "ready", "vlm-failed"}
    BY <1>t DEF RequestLocals
  <2>1. CASE Claim(r)
    <3>1. [request[r] EXCEPT !.pc = "create", !.status = status, !.draft = draft] \in RequestLocals
      BY <2>1, <2>l, <1>t DEF Claim, RequestLocals
    <3>2. request' = [request EXCEPT
             ![r] = [request[r] EXCEPT !.pc = "create", !.status = status, !.draft = draft]]
      BY <2>1, <1>t DEF Claim
    <3>3. request' \in [Requests -> RequestLocals]
      BY <3>1, <3>2, <1>t
    <3> QED BY <2>1, <3>3 DEF Claim, TypeOK, Statuses
  <2>2. ASSUME NEW pc \in {"insert", "enqueue", "restore"}
        PROVE  [request EXCEPT ![r].pc = pc] \in [Requests -> RequestLocals]
    <3>1. [request[r] EXCEPT !.pc = pc] \in RequestLocals
      BY <2>l DEF RequestLocals
    <3> QED BY <3>1, <1>t
  <2>3. [request EXCEPT ![r] = Done] \in [Requests -> RequestLocals]
    BY <1>t, InitialValues
  <2>4. CASE Lookup(r)
    BY <2>2, <2>3, <2>4 DEF Lookup, TypeOK
  <2>5. CASE Insert(r)
    BY <2>2, <2>5 DEF Insert, TypeOK
  <2>6. CASE Enqueue(r)
    BY <2>3, <2>6 DEF Enqueue, TypeOK
  <2>7. CASE CreateFails(r)
    <3>1. failures' \in 0 .. MaxFailures
      BY <2>7 DEF CreateFails, TypeOK
    <3> QED BY <2>2, <2>7, <3>1 DEF CreateFails, TypeOK
  <2>8. CASE Restore(r)
    BY <2>l, <2>3, <2>8 DEF Restore, Restored, TypeOK, Statuses
  <2>9. CASE RequestRaises(r)
    <3>1. crashes' \in 0 .. MaxCrashes
      BY <2>9 DEF RequestRaises, TypeOK
    <3> QED BY <2>3, <2>9, <3>1 DEF RequestRaises, TypeOK
  <2> QED BY <1>5, <2>1, <2>4, <2>5, <2>6, <2>7, <2>8, <2>9 DEF Confirm
<1>6. CASE Poll \/ PollRaises
  <2>1. CASE GetRead
    <3>1. poll' \in PollLocals
      BY <2>1, <1>t, InitialValues DEF GetRead, PollLocals
    <3>2. task' \in [Tasks -> TaskLocals]
      BY <2>1, TaskUpdates DEF GetRead, Cancelled
    <3> QED BY <2>1, <3>1, <3>2 DEF GetRead, TypeOK
  <2>2. CASE Recover
    <3>1. poll.started \in Instants
      BY DEF TypeOK, PollLocals
    <3> QED BY <2>2, <3>1, InitialValues DEF Recover, TypeOK, Statuses
  <2>3. CASE PollRaises
    <3>1. crashes' \in 0 .. MaxCrashes
      BY <2>3 DEF PollRaises, TypeOK
    <3> QED BY <2>3, <3>1, InitialValues DEF PollRaises, TypeOK
  <2> QED BY <1>6, <2>1, <2>2, <2>3 DEF Poll
<1>7. CASE ProcessDies
  <2>1. crashes' \in 0 .. MaxCrashes
    BY <1>7 DEF ProcessDies, TypeOK
  <2> QED BY <1>7, <2>1, InitialValues DEF ProcessDies, TypeOK
<1>8. CASE Tick
  <2>1. clock' \in Instants
    BY <1>8, <1>t DEF Tick, Instants
  <2> QED BY <1>8, <2>1 DEF Tick, TypeOK
<1> QED BY <1>0, <1>1, <1>2, <1>3, <1>4, <1>5, <1>6, <1>7, <1>8 DEF Next

\* The preview, its tasks and its requests always hold values the code could have
\* stored; in particular no code sets the status "expired".
THEOREM TypeCorrect == Spec => []TypeOK
  BY TypeInit, TypeStep, PTL DEF Spec

-----------------------------------------------------------------------------
(* One task runs *)

Runs(l) == l.pc # "idle" /\ ~ l.cancelled

\* OneTaskRuns, task by task.
OnlyRegisteredRuns == \A t \in Tasks : Runs(task[t]) <=> t = registered

LEMMA RunsAlone == TypeOK => (OneTaskRuns <=> OnlyRegisteredRuns)
<1> SUFFICES ASSUME TypeOK PROVE OneTaskRuns <=> OnlyRegisteredRuns
  OBVIOUS
<1>1. registered \in Tasks \union {NoTask}
  BY DEF TypeOK
<1> QED BY <1>1 DEF OneTaskRuns, OnlyRegisteredRuns, Runs

\* What starting, cancelling and ending a task do to what runs.
LEMMA RegistryUpdates ==
  ASSUME TypeOK, OnlyRegisteredRuns
  PROVE  /\ \A t \in Tasks : ~ Runs(Cancelled[t])
         /\ \A t \in Tasks, at \in Instants : Register(t, at) => OnlyRegisteredRuns'
         /\ \A t \in Tasks : End(t) => OnlyRegisteredRuns'
<1>t. task \in [Tasks -> TaskLocals] /\ registered \in Tasks \union {NoTask}
  BY DEF TypeOK
<1>1. ASSUME NEW t \in Tasks PROVE ~ Runs(Cancelled[t])
  <2>1. [task[t] EXCEPT !.cancelled = TRUE].cancelled
    BY <1>t DEF TaskLocals
  <2> QED BY <2>1 DEF Cancelled, Runs, OnlyRegisteredRuns
<1>2. ASSUME NEW t \in Tasks, NEW at \in Instants, Register(t, at) PROVE OnlyRegisteredRuns'
  <2> DEFINE begun == [Idle EXCEPT !.pc = "load", !.started = at]
  <2>1. Runs(begun)
    BY DEF Idle, Runs
  <2> HIDE DEF begun
  <2>2. task' = [Cancelled EXCEPT ![t] = begun] /\ registered' = t
    BY <1>2 DEF Register, begun
  <2>3. \A u \in Tasks : task'[u] = IF u = t THEN begun ELSE Cancelled[u]
    BY <2>2 DEF Cancelled
  <2> QED BY <1>1, <2>1, <2>2, <2>3 DEF OnlyRegisteredRuns
<1>3. ASSUME NEW t \in Tasks, End(t) PROVE OnlyRegisteredRuns'
  <2>1. ~ Runs(Idle)
    BY InitialValues DEF Runs
  <2>2. /\ \A u \in Tasks : task'[u] = IF u = t THEN Idle ELSE task[u]
        /\ registered' = IF registered = t THEN NoTask ELSE registered
    BY <1>3, <1>t DEF End, Forget
  <2> QED BY <2>1, <2>2 DEF OnlyRegisteredRuns
<1> QED BY <1>1, <1>2, <1>3

LEMMA RunsInit == Init => OnlyRegisteredRuns
  BY InitialValues DEF Init, OnlyRegisteredRuns, Runs

LEMMA RunsStep == TypeOK /\ OnlyRegisteredRuns /\ [Next]_vars => OnlyRegisteredRuns'
<1> SUFFICES ASSUME TypeOK, OnlyRegisteredRuns, [Next]_vars PROVE OnlyRegisteredRuns'
  OBVIOUS
<1>t. /\ task \in [Tasks -> TaskLocals] /\ request \in [Requests -> RequestLocals]
      /\ clock \in Instants
  BY DEF TypeOK
<1>0. ASSUME UNCHANGED taskVars PROVE OnlyRegisteredRuns'
  BY <1>0 DEF OnlyRegisteredRuns
<1>1. CASE create_preview
  BY <1>0, <1>1, <1>t, RegistryUpdates DEF create_preview
<1>2. ASSUME NEW t \in Tasks, Extraction(t) \/ TaskRaises(t) PROVE OnlyRegisteredRuns'
  <2>1. CASE End(t)
    BY <2>1, RegistryUpdates
  <2>2. ASSUME ~ End(t)
        PROVE  /\ task[t].pc # "idle" /\ ~ task[t].cancelled
               /\ task'[t].pc # "idle" /\ ~ task'[t].cancelled
               /\ \A u \in Tasks \ {t} : task'[u] = task[u]
               /\ registered' = registered
    <3>1. CASE TaskLoads(t)
      BY <1>t, <2>2, <3>1 DEF TaskLoads, TaskLocals
    <3>2. CASE TaskAnswers(t)
      BY <1>t, <2>2, <3>2 DEF TaskAnswers, TaskLocals
    <3>3. CASE TaskFails(t)
      BY <1>t, <2>2, <3>3 DEF TaskFails, TaskLocals
    <3> QED BY <1>2, <2>2, <3>1, <3>2, <3>3
            DEF Extraction, TaskLands, TaskStops, TaskRaises
  <2>3. CASE ~ End(t)
    BY <2>2, <2>3 DEF OnlyRegisteredRuns, Runs
  <2> QED BY <2>1, <2>3
<1>3. ASSUME NEW r \in Requests, Retry(r) \/ Patch(r) \/ Confirm(r) \/ RequestRaises(r)
      PROVE  OnlyRegisteredRuns'
  <2>1. CASE StartTask(r)
    <3>1. request[r].started \in Instants
      BY <1>t DEF RequestLocals
    <3> QED BY <2>1, <3>1, RegistryUpdates DEF StartTask
  <2>2. CASE ~ StartTask(r)
    <3>1. UNCHANGED taskVars
      BY <1>3, <2>2 DEF Retry, RetryRead, StartWrite, Patch, PatchRead, PatchWrite, Confirm,
        Claim, Lookup, Insert, Enqueue, CreateFails, Restore, RequestRaises
    <3> QED BY <1>0, <3>1
  <2> QED BY <2>1, <2>2
<1>4. CASE Poll \/ PollRaises
  <2>1. CASE GetRead
    BY <2>1, RegistryUpdates DEF GetRead, OnlyRegisteredRuns
  <2>2. CASE Recover \/ PollRaises
    BY <1>0, <2>2 DEF Recover, PollRaises
  <2> QED BY <1>4, <2>1, <2>2 DEF Poll
<1>5. CASE ProcessDies
  BY <1>5, InitialValues DEF ProcessDies, OnlyRegisteredRuns, Runs
<1>6. CASE Tick \/ UNCHANGED vars
  BY <1>0, <1>6 DEF Tick, vars
<1> QED BY <1>1, <1>2, <1>3, <1>4, <1>5, <1>6 DEF Next

\* However retries, recoveries and ends of tasks overlap, at most one extraction
\* runs on, it is the one registered in preview_tasks, and what is registered
\* runs: a recovery that cancels the registered task leaves none running.
THEOREM RunningTaskIsRegistered == Spec => []OneTaskRuns
  BY TypeInit, TypeStep, RunsInit, RunsStep, RunsAlone, PTL DEF Spec

-----------------------------------------------------------------------------
(* Confirmations *)

Confirming(r) == request[r].pc \in {"create", "insert", "enqueue", "restore"}

\* What a failed confirmation gives back is the status its claim replaced, which
\* was never "confirmed".
ClaimsRestorable ==
    \A r \in Requests : Confirming(r) => request[r].status \in {"ready", "vlm-failed"}

ConfirmedInv == ClaimsRestorable /\ ConfirmedHasProblem

LEMMA ConfirmedInit == Init => ConfirmedInv
  BY DEF Init, NewRequest, ConfirmedInv, ClaimsRestorable, Confirming, ConfirmedHasProblem

\* A step that confirms nothing and ends no confirmation.
LEMMA QuietForConfirmed ==
  ASSUME ConfirmedInv, status' = status \/ status' # "confirmed", UNCHANGED <<problems, crashes>>,
         \A q \in Requests : \/ request'[q] = request[q]
                             \/ ~ Confirming(q) /\ ~ Confirming(q)'
  PROVE  ConfirmedInv'
  BY DEF ConfirmedInv, ClaimsRestorable, Confirming, ConfirmedHasProblem

LEMMA ConfirmedStep == TypeOK /\ ConfirmedInv /\ [Next]_vars => ConfirmedInv'
<1> SUFFICES ASSUME TypeOK, ConfirmedInv, [Next]_vars PROVE ConfirmedInv'
  OBVIOUS
<1>t. /\ request \in [Requests -> RequestLocals] /\ task \in [Tasks -> TaskLocals]
      /\ crashes \in 0 .. MaxCrashes
  BY DEF TypeOK
<1>d. Done.pc = "done"
  BY InitialValues
<1>0. ASSUME UNCHANGED <<problems, request, crashes>>, status' = status \/ status' # "confirmed"
      PROVE  ConfirmedInv'
  BY <1>0, QuietForConfirmed
<1>1. CASE create_preview
  BY <1>0, <1>1 DEF create_preview
<1>2. ASSUME NEW t \in Tasks, Extraction(t) PROVE ConfirmedInv'
  <2>1. status' = status \/ status' # "confirmed"
    BY <1>2 DEF Extraction, TaskLoads, TaskAnswers, TaskFails, TaskLands, TaskStops
  <2>2. UNCHANGED <<problems, request, crashes>>
    BY <1>2 DEF Extraction, TaskLoads, TaskAnswers, TaskFails, TaskLands, TaskStops
  <2> QED BY <1>0, <2>1, <2>2
<1>3. ASSUME NEW r \in Requests, Retry(r) \/ Patch(r) PROVE ConfirmedInv'
  <2>1. UNCHANGED <<problems, crashes>> /\ (status' = status \/ status' = "extracting")
    BY <1>3 DEF Retry, RetryRead, StartWrite, StartTask, Patch, PatchRead, PatchWrite
  <2>2. request[r].pc \in {"new", "start", "task", "patch"}
    BY <1>3 DEF Retry, RetryRead, StartWrite, StartTask, Patch, PatchRead, PatchWrite
  <2>3. request'[r].pc \in {"start", "task", "patch", "done"}
    BY <1>3, <1>t, <1>d DEF RequestLocals,
      Retry, RetryRead, StartWrite, StartTask, Patch, PatchRead, PatchWrite
  <2>4. \A q \in Requests \ {r} : request'[q] = request[q]
    BY <1>3, <1>t DEF Retry, RetryRead, StartWrite, StartTask, Patch, PatchRead, PatchWrite
  <2> QED BY <2>1, <2>2, <2>3, <2>4, QuietForConfirmed DEF Confirming
<1>4. ASSUME NEW r \in Requests, Confirm(r) PROVE ConfirmedInv'
  <2>1. \A q \in Requests \ {r} : request'[q] = request[q]
    BY <1>4, <1>t DEF Confirm, Claim, Lookup, Insert, Enqueue, CreateFails, Restore
  <2>2. ASSUME request'[r].status = request[r].status, Confirming(r)
        PROVE  ClaimsRestorable'
    BY <2>1, <2>2 DEF ConfirmedInv, ClaimsRestorable, Confirming
  <2>3. ASSUME ~ Confirming(r)' PROVE ClaimsRestorable'
    BY <2>1, <2>3 DEF ConfirmedInv, ClaimsRestorable, Confirming
  <2>4. CASE Claim(r)
    <3>1. /\ request'[r].pc = "create" /\ request'[r].status = status
          /\ status \in {"ready", "vlm-failed"}
      BY <2>4, <1>t DEF Claim, RequestLocals
    <3>2. ClaimsRestorable'
      BY <2>1, <3>1 DEF ConfirmedInv, ClaimsRestorable, Confirming
    <3> QED BY <3>1, <3>2 DEF ConfirmedInv, ConfirmedHasProblem
  <2>5. CASE Lookup(r)
    <3>1. UNCHANGED <<status, problems, crashes>> /\ Confirming(r)
      BY <2>5 DEF Lookup, Confirming
    <3>2. \/ /\ request'[r].pc \in {"insert", "restore"}
             /\ request'[r].status = request[r].status
          \/ request' = [request EXCEPT ![r] = Done] /\ problems # {}
      BY <2>5, <1>t DEF Lookup, RequestLocals
    <3>3. CASE request'[r].pc \in {"insert", "restore"} /\ request'[r].status = request[r].status
      BY <2>2, <3>1, <3>3 DEF ConfirmedInv, ConfirmedHasProblem
    <3>4. CASE request' = [request EXCEPT ![r] = Done] /\ problems # {}
      <4>1. ~ Confirming(r)'
        BY <3>4, <1>t, <1>d DEF Confirming
      <4> QED BY <2>3, <3>1, <3>4, <4>1 DEF ConfirmedInv, ConfirmedHasProblem
    <3> QED BY <3>2, <3>3, <3>4
  <2>6. CASE Insert(r)
    <3>1. Confirming(r) /\ request'[r].status = request[r].status /\ problems' # {}
      BY <2>6, <1>t DEF Insert, Confirming, RequestLocals
    <3> QED BY <2>2, <3>1 DEF ConfirmedInv, ConfirmedHasProblem
  <2>7. CASE Enqueue(r)
    <3>1. ~ Confirming(r)' /\ request[r].pc = "enqueue" /\ UNCHANGED <<status, problems, crashes>>
      BY <2>7, <1>t, <1>d DEF Enqueue, Confirming
    <3> QED BY <2>1, <2>3, <3>1 DEF ConfirmedInv, ConfirmedHasProblem
  <2>8. CASE CreateFails(r)
    <3>1. /\ Confirming(r) /\ request'[r].status = request[r].status
          /\ request'[r].pc = "restore"
      BY <2>8, <1>t DEF CreateFails, Confirming, RequestLocals
    <3> QED BY <2>2, <3>1 DEF ConfirmedInv, ConfirmedHasProblem
  <2>9. CASE Restore(r)
    <3>1. ~ Confirming(r)' /\ Confirming(r) /\ status' = request[r].status
      BY <2>9, <1>t, <1>d DEF Restore, Restored, Confirming
    <3> QED BY <2>3, <3>1 DEF ConfirmedInv, ConfirmedHasProblem, ClaimsRestorable
  <2> QED BY <1>4, <2>4, <2>5, <2>6, <2>7, <2>8, <2>9 DEF Confirm
<1>5. ASSUME crashes' = crashes + 1,
             \A q \in Requests : request'[q] = request[q] \/ ~ Confirming(q)'
      PROVE  ConfirmedInv'
  <2>1. crashes' # 0
    BY <1>5, <1>t
  <2> QED BY <1>5, <2>1 DEF ConfirmedInv, ClaimsRestorable, ConfirmedHasProblem, Confirming
<1>6. ASSUME NEW t \in Tasks, TaskRaises(t) PROVE ConfirmedInv'
  BY <1>5, <1>6 DEF TaskRaises
<1>7. ASSUME NEW r \in Requests, RequestRaises(r) PROVE ConfirmedInv'
  <2>1. \A q \in Requests : request'[q] = request[q] \/ ~ Confirming(q)'
    BY <1>7, <1>t, <1>d DEF RequestRaises, Confirming
  <2> QED BY <1>5, <1>7, <2>1 DEF RequestRaises
<1>8. CASE ProcessDies
  <2>1. NewRequest.pc = "new"
    BY DEF NewRequest
  <2>2. \A q \in Requests : ~ Confirming(q)'
    BY <1>8, <1>d, <2>1 DEF ProcessDies, Confirming
  <2> QED BY <1>5, <1>8, <2>2 DEF ProcessDies
<1>9. CASE Poll
  BY <1>0, <1>9 DEF Poll, GetRead, Recover
<1>10. CASE Tick \/ UNCHANGED vars
  BY <1>0, <1>10 DEF Tick, vars
<1>11. CASE PollRaises
  BY <1>5, <1>11 DEF PollRaises
<1> QED BY <1>1, <1>2, <1>3, <1>4, <1>6, <1>7, <1>8, <1>9, <1>10, <1>11 DEF Next

\* While nothing escapes confirm_preview's handler, a preview that shows as
\* confirmed has its problem, or a confirmation under way that will give the
\* claim back or make the problem.
THEOREM ConfirmedPreviewsHaveProblems == Spec => []ConfirmedHasProblem
<1>1. ConfirmedInv => ConfirmedHasProblem
  BY DEF ConfirmedInv
<1> QED BY <1>1, TypeInit, TypeStep, ConfirmedInit, ConfirmedStep, PTL DEF Spec
=============================================================================

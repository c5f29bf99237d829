-------------------------- MODULE PreviewIngestion --------------------------
(***************************************************************************)
(* One ingestion preview: an uploaded image, the background tasks that     *)
(* extract a draft from it, the learner's edits and retries, the recovery  *)
(* of an extraction that takes too long, and the confirmation that makes a *)
(* problem of the draft.                                                   *)
(*                                                                         *)
(* Apart from the confirmation's claim, every handler reads the document   *)
(* and later writes it by its id alone, so each is a read and a write      *)
(* step, with what it read in local variables.  Previews share nothing.    *)
(* No code sets the status "expired".                                      *)
(***************************************************************************)
EXTENDS Integers, FiniteSets

CONSTANTS
    Requests,       \* the retries, edits and confirmations, each sent once
    Tasks, NoTask,  \* the extraction tasks that may exist at a time
    MaxClock,       \* bound on the instants told apart
    MaxFailures,    \* bound on database calls that raise where the code handles it
    MaxCrashes      \* bound on stops of the process, and raises nothing handles

ASSUME NoTaskAssumption == NoTask \notin Tasks
ASSUME BoundsAssumption ==
    MaxClock \in Nat /\ MaxFailures \in Nat /\ MaxCrashes \in Nat

VARIABLES
    status, started, draft, \* the preview: its status, requestStartedAt, draft
    problems,       \* the requests whose problem is stored
    task,           \* what each extraction task holds in its local variables
    registered,     \* the task in preview_tasks
    request,        \* what each request holds in its local variables
    poll,           \* the same of the client's polling
    clock, failures, crashes

previewVars == <<status, started, draft>>
taskVars == <<task, registered>>
bounds == <<failures, crashes>>
vars == <<previewVars, problems, taskVars, request, poll, clock, bounds>>

\* Whether a draft has its text and type, and an answer and no rejected graph.
Drafts == [text : BOOLEAN, answered : BOOLEAN]
EmptyDraft == [text |-> FALSE, answered |-> FALSE]
Confirmable(d) == d.text /\ d.answered

Idle == [pc |-> "idle", started |-> 0, draft |-> EmptyDraft, cancelled |-> FALSE]
NewRequest == [pc |-> "new", status |-> "none", started |-> 0, draft |-> EmptyDraft]
Done == [NewRequest EXCEPT !.pc = "done"]

Init ==
    /\ status = "none" /\ started = 0 /\ draft = EmptyDraft
    /\ problems = {}
    /\ task = [t \in Tasks |-> Idle] /\ registered = NoTask
    /\ request = [r \in Requests |-> NewRequest]
    /\ poll = Idle
    /\ clock = 0 /\ failures = 0 /\ crashes = 0

-----------------------------------------------------------------------------
(* Starting an extraction *)

\* A task that has ended has left the registry, so one found there is running.
Cancelled ==
    [t \in Tasks |-> IF t = registered THEN [task[t] EXCEPT !.cancelled = TRUE] ELSE task[t]]

\* _register_preview_task, after asyncio.create_task.  Tasks are told apart by the
\* record they run in, and which of the free ones a task takes makes no difference.
Register(t, at) ==
    /\ task[t].pc = "idle"
    /\ t = CHOOSE free \in Tasks : task[free].pc = "idle"
    /\ task' = [Cancelled EXCEPT ![t] = [Idle EXCEPT !.pc = "load", !.started = at]]
    /\ registered' = t

\* create_preview.  The client learns the preview's id from the response, so
\* nothing else happens to it before the subject is classified and the task
\* started; a creation that dies leaves a document nobody knows of.
create_preview ==
    /\ status = "none"
    /\ \/ status' = "vlm-failed" /\ UNCHANGED <<started, taskVars>>
       \/ /\ clock < MaxClock
          /\ status' = "extracting"
          /\ started' = clock
          /\ \E t \in Tasks : Register(t, clock)
    /\ UNCHANGED <<draft, problems, request, poll, clock, bounds>>

\* retry_preview checks the preview and notes the time ...
RetryRead(r) ==
    /\ request[r].pc = "new"
    /\ status = "vlm-failed"
    /\ clock < MaxClock
    /\ request' = [request EXCEPT ![r].pc = "start", ![r].started = clock]
    /\ UNCHANGED <<previewVars, problems, taskVars, poll, clock, bounds>>

\* ... start_extraction stores both, whatever has become of the preview ...
StartWrite(r) ==
    /\ request[r].pc = "start"
    /\ status' = "extracting"
    /\ started' = request[r].started
    /\ request' = [request EXCEPT ![r].pc = "task"]
    /\ UNCHANGED <<draft, problems, taskVars, poll, clock, bounds>>

\* ... and creates the task.  Waiting for it changes nothing.
StartTask(r) ==
    /\ request[r].pc = "task"
    /\ \E t \in Tasks : Register(t, request[r].started)
    /\ request' = [request EXCEPT ![r] = Done]
    /\ UNCHANGED <<previewVars, problems, poll, clock, bounds>>

-----------------------------------------------------------------------------
(* The extraction task *)

\* _load_active_extracting_preview: two starts within a second are the same.
Active(t) == status = "extracting" /\ started = task[t].started

\* Mutant: the callback removes whatever is registered.
ForgetsAny(t) == NoTask

\* _forget_preview_task.
Forget(t) == IF registered = t THEN NoTask ELSE registered

End(t) == task' = [task EXCEPT ![t] = Idle] /\ registered' = Forget(t)

\* _merge_draft_with_extraction: what the learner entered stays, and no answer
\* is extracted; the model may find no text.
Merged(d) == {[d EXCEPT !.text = d.text \/ found] : found \in BOOLEAN}

TaskLoads(t) ==
    /\ task[t].pc = "load" /\ ~ task[t].cancelled
    /\ IF Active(t) THEN task' = [task EXCEPT ![t].pc = "call"] /\ UNCHANGED registered
                    ELSE End(t)
    /\ UNCHANGED <<previewVars, problems, request, poll, clock, bounds>>

\* The model answers, and the task reads the preview again.
TaskAnswers(t) ==
    /\ task[t].pc = "call" /\ ~ task[t].cancelled
    /\ IF Active(t)
       THEN /\ \E d \in Merged(draft) :
                  task' = [task EXCEPT ![t].pc = "ready", ![t].draft = d]
            /\ UNCHANGED registered
       ELSE End(t)
    /\ UNCHANGED <<previewVars, problems, request, poll, clock, bounds>>

\* The model fails, or the image is missing.
TaskFails(t) ==
    /\ task[t].pc = "call" /\ ~ task[t].cancelled
    /\ IF Active(t) THEN task' = [task EXCEPT ![t].pc = "vlm-failed"] /\ UNCHANGED registered
                    ELSE End(t)
    /\ UNCHANGED <<previewVars, problems, request, poll, clock, bounds>>

\* The write by id, which a cancellation may come too late for.
TaskLands(t) ==
    /\ task[t].pc \in {"ready", "vlm-failed"}
    /\ status' = task[t].pc
    /\ started' = task[t].started
    /\ draft' = IF task[t].pc = "ready" THEN task[t].draft ELSE draft
    /\ End(t)
    /\ UNCHANGED <<problems, request, poll, clock, bounds>>

TaskStops(t) ==
    /\ task[t].cancelled
    /\ End(t)
    /\ UNCHANGED <<previewVars, problems, request, poll, clock, bounds>>

\* Any other exception leaves the preview extracting.
TaskRaises(t) ==
    /\ task[t].pc # "idle"
    /\ crashes < MaxCrashes
    /\ crashes' = crashes + 1
    /\ End(t)
    /\ UNCHANGED <<previewVars, problems, request, poll, clock, failures>>

-----------------------------------------------------------------------------
(* Polling, with the recovery of a stale extraction *)

\* Mutant: an extraction whose task is gone is not recovered.
StaleIfRegistered == status = "extracting" /\ clock > started /\ registered # NoTask

\* recover_stale_preview: extracting for longer than the window.
Stale == status = "extracting" /\ clock > started

\* A poll that reads a stale preview cancels the registered task, whichever it
\* is by now, before it awaits anything else ...
GetRead ==
    /\ poll.pc = "idle"
    /\ Stale
    /\ poll' = [Idle EXCEPT !.pc = "recover", !.started = started]
    /\ task' = Cancelled
    /\ registered' = NoTask
    /\ UNCHANGED <<previewVars, problems, request, clock, bounds>>

\* ... and stores the failure, whatever has become of the preview ...
Recover ==
    /\ poll.pc = "recover"
    /\ poll' = Idle
    /\ status' = "vlm-failed"
    /\ started' = poll.started
    /\ UNCHANGED <<draft, problems, taskVars, request, clock, bounds>>

\* ... unless that raises.
PollRaises ==
    /\ poll.pc = "recover"
    /\ crashes < MaxCrashes
    /\ crashes' = crashes + 1
    /\ poll' = Idle
    /\ UNCHANGED <<previewVars, problems, taskVars, request, clock, failures>>

-----------------------------------------------------------------------------
(* Editing *)

PatchRead(r) ==
    /\ request[r].pc = "new"
    /\ status \in {"ready", "vlm-failed"}
    /\ request' = [request EXCEPT ![r].pc = "patch"]
    /\ UNCHANGED <<previewVars, problems, taskVars, poll, clock, bounds>>

\* The whole draft is written, the fields that were not sent as they were read;
\* any field may be sent, also cleared.
PatchWrite(r) ==
    /\ request[r].pc = "patch"
    /\ draft' \in Drafts
    /\ request' = [request EXCEPT ![r] = Done]
    /\ UNCHANGED <<status, started, problems, taskVars, poll, clock, bounds>>

-----------------------------------------------------------------------------
(* Confirmation *)

\* The claim of confirm_preview is one conditional update.
Claim(r) ==
    /\ request[r].pc = "new"
    /\ status \in {"ready", "vlm-failed"}
    /\ status' = "confirmed"
    /\ request' = [request EXCEPT ![r].pc = "create", ![r].status = status, ![r].draft = draft]
    /\ UNCHANGED <<started, draft, problems, taskVars, poll, clock, bounds>>

\* create_problem_from_draft validates the draft and looks for a problem of
\* this preview.
Lookup(r) ==
    /\ request[r].pc = "create"
    /\ request' = IF ~ Confirmable(request[r].draft)
                  THEN [request EXCEPT ![r].pc = "restore"]
                  ELSE IF problems # {} THEN [request EXCEPT ![r] = Done]
                       ELSE [request EXCEPT ![r].pc = "insert"]
    /\ UNCHANGED <<previewVars, problems, taskVars, poll, clock, bounds>>

Insert(r) ==
    /\ request[r].pc = "insert"
    /\ problems' = problems \union {r}
    /\ request' = [request EXCEPT ![r].pc = "enqueue"]
    /\ UNCHANGED <<previewVars, taskVars, poll, clock, bounds>>

\* The solution task and the tags.
Enqueue(r) ==
    /\ request[r].pc = "enqueue"
    /\ request' = [request EXCEPT ![r] = Done]
    /\ UNCHANGED <<previewVars, problems, taskVars, poll, clock, bounds>>

\* Either raises: the problem is deleted again, unless that fails too.
CreateFails(r) ==
    /\ request[r].pc \in {"insert", "enqueue"}
    /\ failures < MaxFailures
    /\ failures' = failures + 1
    /\ problems' \in {problems, problems \ {r}}
    /\ request' = [request EXCEPT ![r].pc = "restore"]
    /\ UNCHANGED <<previewVars, taskVars, poll, clock, crashes>>

\* Mutant: the claim is not given back.
StaysConfirmed(r) == "confirmed"

\* The status the claim replaced.
Restored(r) == request[r].status

Restore(r) ==
    /\ request[r].pc = "restore"
    /\ status' = Restored(r)
    /\ request' = [request EXCEPT ![r] = Done]
    /\ UNCHANGED <<started, draft, problems, taskVars, poll, clock, bounds>>

\* A database call raises where nothing handles it.
RequestRaises(r) ==
    /\ request[r].pc \notin {"new", "done"}
    /\ crashes < MaxCrashes
    /\ crashes' = crashes + 1
    /\ request' = [request EXCEPT ![r] = Done]
    /\ UNCHANGED <<previewVars, problems, taskVars, poll, clock, failures>>

-----------------------------------------------------------------------------
\* preview_tasks and everything under way are in the process.
ProcessDies ==
    /\ status # "none"
    /\ crashes < MaxCrashes
    /\ crashes' = crashes + 1
    /\ task' = [t \in Tasks |-> Idle]
    /\ registered' = NoTask
    /\ request' = [r \in Requests |-> IF request[r].pc = "new" THEN NewRequest ELSE Done]
    /\ poll' = Idle
    /\ UNCHANGED <<previewVars, problems, clock, failures>>

Tick ==
    /\ clock < MaxClock
    /\ clock' = clock + 1
    /\ UNCHANGED <<previewVars, problems, taskVars, request, poll, bounds>>

Extraction(t) ==
    TaskLoads(t) \/ TaskAnswers(t) \/ TaskFails(t) \/ TaskLands(t) \/ TaskStops(t)
Retry(r) == RetryRead(r) \/ StartWrite(r) \/ StartTask(r)
Patch(r) == PatchRead(r) \/ PatchWrite(r)
Confirm(r) == Claim(r) \/ Lookup(r) \/ Insert(r) \/ Enqueue(r) \/ CreateFails(r) \/ Restore(r)
Poll == GetRead \/ Recover

Next ==
    \/ create_preview
    \/ \E t \in Tasks : Extraction(t) \/ TaskRaises(t)
    \/ \E r \in Requests : Retry(r) \/ Patch(r) \/ Confirm(r) \/ RequestRaises(r)
    \/ Poll \/ PollRaises
    \/ ProcessDies \/ Tick

Spec == Init /\ [][Next]_vars

\* Time passes; a model call that is not cancelled returns or raises.
Fairness == WF_vars(Tick) /\ \A t \in Tasks : WF_vars(Extraction(t))

FairSpec == Spec /\ Fairness

-----------------------------------------------------------------------------
(* Properties *)

\* At most one extraction runs on, the registered one, which a recovery would
\* cancel, and what is registered runs, however retries, recoveries and ends of
\* tasks overlap (preview_tasks).
OneTaskRuns ==
    {t \in Tasks : task[t].pc # "idle" /\ ~ task[t].cancelled} = {registered} \ {NoTask}

\* A preview that shows as confirmed has its problem, or will be given back by
\* a confirmation under way, unless the process stopped or a call raised outside
\* confirm_preview's handler; also when a retry, a recovery or a late result had
\* overwritten an earlier confirmation, whose problem the next one takes over and
\* the earlier one may still delete.
ConfirmedHasProblem ==
    status = "confirmed" /\ crashes = 0 =>
        \/ problems # {}
        \/ \E r \in Requests : request[r].pc \in {"create", "insert", "restore"}

\* For a client that keeps polling, no extraction lasts: its task ends it, or
\* once it is stale a poll does, whatever became of the task.
ExtractionEnds ==
    WF_vars(Poll) => (status = "extracting" ~> status # "extracting")

=============================================================================

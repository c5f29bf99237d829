---------------------------- MODULE VariantSession ----------------------------
(***************************************************************************)
(* A variant session of a stored problem: it generates a variant in a task *)
(* of the server's process, fenced by contentRevision alone; the learner   *)
(* regenerates (also while a task runs), revalidates, edits, attests and   *)
(* discards; a submission reserves the session and admits the reviewed     *)
(* candidate as a new problem in one transaction.                          *)
(*                                                                         *)
(* A conditional update is one step.  A request that queues work starts    *)
(* its task in a later step, and tasks read before they claim.  Sessions   *)
(* share nothing, every access names one by its _id: one is enough.        *)
(***************************************************************************)
EXTENDS VariantAssessment

CONSTANTS
    Starters,       \* slots of the requests that create, generate or revalidate
    Submits,        \* slots of the submit requests
    NoSubmit,       \* no reservation
    Tasks,          \* slots of the asyncio tasks of the process
    MaxRevision,    \* bound on contentRevision
    MaxFaults       \* bound on process deaths, failed database calls, and
                    \* reservations that pass while their holder still runs

ASSUME NobodyAssumption == NoSubmit \notin Submits
ASSUME BoundsAssumption == MaxRevision \in Nat /\ MaxFaults \in Nat

VARIABLES
    source,         \* whether the problem the session derives from is available
    session,        \* the session document
    problems,       \* the problems admitted from it
    starter,        \* what each starting request has left to do
    submit,         \* what each submission has left to do
    task,           \* what each task holds in its local variables
    faults

requests == <<starter, submit>>
vars == <<source, session, problems, requests, task, faults>>

NoRevision == -1
Revisions == 0 .. MaxRevision

\* Not created yet.
Absent ==
    [status |-> "none", revision |-> 0, original |-> NoSource,
     candidate |-> NoCandidate, validation |-> NoValidation,
     validatedRevision |-> NoRevision, attestation |-> NoRevision,
     holder |-> NoSubmit, reservation |-> "none",
     submitted |-> FALSE, discarded |-> FALSE]

IdleSubmit == [pc |-> "idle", seen |-> 0]
IdleTask == [pc |-> "idle", revision |-> 0, candidate |-> NoCandidate, cancelled |-> FALSE]

Init ==
    /\ source = "available"
    /\ session = Absent
    /\ problems = {}
    /\ starter = [r \in Starters |-> "idle"]
    /\ submit = [r \in Submits |-> IdleSubmit]
    /\ task = [t \in Tasks |-> IdleTask]
    /\ faults = 0

-----------------------------------------------------------------------------
(* The session document *)

\* _LIVE_PREDICATE, of a document that exists.
Live == session.status # "none" /\ ~ session.submitted /\ ~ session.discarded

InFlight == session.status \in VARIATION_IN_FLIGHT

\* Its reservation is neither absent nor expired.
Reserved == session.reservation = "live"

\* The predicate the interactive writes share, with the revision the learner saw.
Current(seen) == Live /\ seen = session.revision

Unreserved(d) == [d EXCEPT !.holder = NoSubmit, !.reservation = "none"]

\* The approval pointer and the attestation set to None.
Unapproved(d) == [d EXCEPT !.validatedRevision = NoRevision, !.attestation = NoRevision]

\* The problem is disabled or deleted, or enabled again (problems.py).
SourceChanges ==
    /\ source # "deleted"
    /\ source' \in {"available", "disabled", "deleted"} \ {source}
    /\ UNCHANGED <<session, problems, requests, task, faults>>

-----------------------------------------------------------------------------
(* Creating a session, and queueing its work *)

\* build_problem_variant_session_document.
NewSession(original) == [Absent EXCEPT !.status = "queued", !.original = original]

\* create_problem_variant: its problem must be available.  Of concurrent creations
\* the partial unique index lets one through.
create_problem_variant(r) ==
    /\ starter[r] = "idle"
    /\ source = "available"
    /\ session = Absent
    /\ \E original \in Sources : session' = NewSession(original)
    /\ starter' = [starter EXCEPT ![r] = "start"]
    /\ UNCHANGED <<source, problems, submit, task, faults>>

\* What an override leaves: the confirmed source at a new revision.
Regenerated(d) ==
    [Unreserved(Unapproved(d)) EXCEPT !.status = "queued", !.candidate = NoCandidate,
                                      !.validation = NoValidation, !.revision = @ + 1]

\* Mutant: a reservation does not keep a generation out.
IgnoresReservation == FALSE

Blocked == Reserved

\* request_problem_variant_generation, in any status, in flight or not.
request_problem_variant_generation(r, seen) ==
    /\ starter[r] = "idle"
    /\ Current(seen)
    /\ ~ Blocked
    /\ session.revision < MaxRevision
    /\ session' = Regenerated(session)
    /\ starter' = [starter EXCEPT ![r] = "start"]
    /\ UNCHANGED <<source, problems, submit, task, faults>>

\* request_problem_variant_revalidation: the revision stays, the reservation too.
request_problem_variant_revalidation(r, seen) ==
    /\ starter[r] = "idle"
    /\ Current(seen)
    /\ session.status = "needs-validation"
    /\ session' = [Unapproved(session) EXCEPT !.status = "queued", !.validation = NoValidation]
    /\ starter' = [starter EXCEPT ![r] = "start"]
    /\ UNCHANGED <<source, problems, submit, task, faults>>

\* Mutant: the task that is replaced is forgotten, not cancelled.
NotCancelled == task

\* cancel_problem_variant_task: the registry holds the session's task unless it
\* was cancelled or completed.
Cancelled ==
    [t \in Tasks |-> IF task[t].pc = "idle" THEN IdleTask
                     ELSE [task[t] EXCEPT !.cancelled = TRUE]]

\* start_problem_variant_generation: the task of the session is replaced.
start_problem_variant_generation(r) ==
    /\ starter[r] = "start"
    /\ \E t \in Tasks :
          /\ task[t].pc = "idle"
          /\ task' = [Cancelled EXCEPT ![t].pc = "read"]
    /\ starter' = [starter EXCEPT ![r] = "idle"]
    /\ UNCHANGED <<source, session, problems, submit, faults>>

-----------------------------------------------------------------------------
(* The other interactive writes *)

\* What an edit makes of the candidate, if need be of nothing.
Edited == [of : {session.original}, written : {session.revision + 1}, shape : Shapes]

\* Mutant: an edit keeps the approval.
EditKeepsApproval(d) == [d EXCEPT !.revision = @ + 1]

Invalidated(d) == [Unapproved(d) EXCEPT !.status = "needs-validation", !.revision = @ + 1]

\* edit_problem_variant_candidate, a semantic change: reservations are not asked.
edit_problem_variant_candidate(seen) ==
    /\ Current(seen)
    /\ session.status \in {"ready", "needs-validation", "failed"}
    /\ session.revision < MaxRevision
    /\ \E candidate \in Edited : session' = [Invalidated(session) EXCEPT !.candidate = candidate]
    /\ UNCHANGED <<source, problems, requests, task, faults>>

attest_problem_variant_validation(seen) ==
    /\ Current(seen)
    /\ Attestable(session.status, session.validation)
    /\ session' = [session EXCEPT !.status = "ready", !.attestation = seen]
    /\ UNCHANGED <<source, problems, requests, task, faults>>

\* discard_problem_variant_session.
Discarded(d) == [d EXCEPT !.discarded = TRUE]

\* discard_problem_variant: the update, and then the task is cancelled.
discard_problem_variant(seen) ==
    /\ Current(seen)
    /\ session' = Discarded(session)
    /\ task' = Cancelled
    /\ UNCHANGED <<source, problems, requests, faults>>

-----------------------------------------------------------------------------
(* The task of the session: _run_session_generation *)

\* The task goes on, unless it was cancelled: then the call under way was its last.
Continue(t, next) == task' = [task EXCEPT ![t] = IF task[t].cancelled THEN IdleTask ELSE next]
Leave(t) == task' = [task EXCEPT ![t] = IdleTask]

ReadSession(t) ==
    /\ task[t].pc = "read"
    /\ IF ~ session.discarded /\ session.status = "queued"
       THEN Continue(t, [task[t] EXCEPT !.pc = "claim", !.revision = session.revision])
       ELSE Leave(t)
    /\ UNCHANGED <<source, session, problems, requests, faults>>

Claimable(t) ==
    /\ Live
    /\ session.status = "queued"
    /\ session.revision = task[t].revision

\* Mutant: a stored candidate is generated again.
AlwaysGenerates(candidate) == "generate"

\* A present candidate means "validate what is stored".
NextStep(candidate) == IF candidate = NoCandidate THEN "generate" ELSE "validate"

\* claim_problem_variant_generation: generating, whatever is to be done.
claim_problem_variant_generation(t) ==
    /\ task[t].pc = "claim"
    /\ IF Claimable(t)
       THEN /\ session' = [session EXCEPT !.status = "generating"]
            /\ Continue(t, [task[t] EXCEPT !.pc = NextStep(session.candidate),
                                           !.candidate = session.candidate])
       ELSE UNCHANGED session /\ Leave(t)
    /\ UNCHANGED <<source, problems, requests, faults>>

\* The fence of the task's writes: the session is live at the claimed revision.
Fenced(t) == Live /\ session.revision = task[t].revision

\* save_problem_variant_result: lands, or is dropped.
SaveResult(t, validation, candidatePresent) ==
    IF Fenced(t) /\ session.status \in {"generating", "validating"}
    THEN session' = [session EXCEPT
             !.status = StatusOf(validation, candidatePresent),
             !.validation = validation,
             !.validatedRevision = IF Pass(validation) THEN task[t].revision ELSE @]
    ELSE UNCHANGED session

\* The source fails the preflight, or the generator raises.
GenerateFails(t) ==
    LET rejected == source_graph_dsl_preflight(session.original)
        failures == IF rejected # {} THEN rejected ELSE {"execution"}
    IN  /\ task[t].pc = "generate"
        /\ SaveResult(t, Validation(failures, NoCandidate, FALSE), FALSE)
        /\ Leave(t)
        /\ UNCHANGED <<source, problems, requests, faults>>

\* The generator returns, and save_problem_variant_checkpoint stores the candidate.
Checkpoint(t) ==
    /\ task[t].pc = "generate"
    /\ source_graph_dsl_preflight(session.original) = {}
    /\ IF Fenced(t) /\ session.status = "generating"
       THEN \E shape \in GeneratedShapes :
               LET candidate == [of |-> session.original, written |-> task[t].revision,
                                 shape |-> shape]
               IN  /\ session' = [session EXCEPT !.status = "validating",
                                                 !.candidate = candidate]
                   /\ Continue(t, [task[t] EXCEPT !.pc = "validate", !.candidate = candidate])
       ELSE UNCHANGED session /\ Leave(t)
    /\ UNCHANGED <<source, problems, requests, faults>>

\* generate_and_validate returns or raises, or the stored candidate does not parse.
Validate(t) ==
    /\ task[t].pc = "validate"
    /\ \E validation \in Validations(session.original, task[t].candidate) :
          SaveResult(t, validation, TRUE)
    /\ Leave(t)
    /\ UNCHANGED <<source, problems, requests, faults>>

\* The cancellation reaches the task at an await.
TaskStops(t) ==
    /\ task[t].pc # "idle"
    /\ task[t].cancelled
    /\ Leave(t)
    /\ UNCHANGED <<source, session, problems, requests, faults>>

\* A database call of the task raises: the task only logs it.
TaskFails(t) ==
    /\ task[t].pc # "idle"
    /\ faults < MaxFaults
    /\ faults' = faults + 1
    /\ Leave(t)
    /\ UNCHANGED <<source, session, problems, requests>>

-----------------------------------------------------------------------------
(* The submission *)

reserve_problem_variant_for_submit(r, seen) ==
    /\ submit[r].pc = "idle"
    /\ Current(seen)
    /\ session.status = "ready"
    /\ ~ Reserved
    /\ session' = [session EXCEPT !.holder = r, !.reservation = "live"]
    /\ submit' = [submit EXCEPT ![r] = [pc |-> "admit", seen |-> seen]]
    /\ UNCHANGED <<source, problems, starter, task, faults>>

\* Mutant: neither the token nor the revision that was reviewed is compared again.
HeldAtAnyRevision(r) == Live

\* The guards of the transaction on the session.  That the reservation has not
\* expired is judged by the time the request began, so only its token counts.
Held(r) == Current(submit[r].seen) /\ session.holder = r

\* mark_problem_variant_session_submitted.
Submitted(d) == [Unreserved(d) EXCEPT !.submitted = TRUE]

\* submit_problem_variant's transaction: the problem and the session's submit
\* are recorded together, on the state the transaction read.
admit_variant_problem(r) ==
    /\ submit[r].pc = "admit"
    /\ IF /\ Held(r)
          /\ Admissible(session, session.revision)
          /\ source # "deleted"
          /\ Freezable(session.candidate)
       THEN /\ problems' = problems \union
                  {[id |-> r, content |-> session.candidate, reviewed |-> submit[r].seen]}
            /\ session' = Submitted(session)
            /\ submit' = [submit EXCEPT ![r] = IdleSubmit]
       ELSE /\ submit' = [submit EXCEPT ![r].pc = "release"]
            /\ UNCHANGED <<problems, session>>
    /\ UNCHANGED <<source, starter, task, faults>>

\* The transaction fails for another reason.
AdmissionFails(r) ==
    /\ submit[r].pc = "admit"
    /\ faults < MaxFaults
    /\ faults' = faults + 1
    /\ submit' = [submit EXCEPT ![r].pc = "release"]
    /\ UNCHANGED <<source, session, problems, starter, task>>

\* release_problem_variant_submit_reservation, of this token only.
release_problem_variant_submit_reservation(r) ==
    /\ submit[r].pc = "release"
    /\ session' = IF session.holder = r THEN Unreserved(session) ELSE session
    /\ submit' = [submit EXCEPT ![r] = IdleSubmit]
    /\ UNCHANGED <<source, problems, starter, task, faults>>

\* expiresAt passes: of a request that ended without its release, or of one
\* that is still under way.
ReservationExpires ==
    LET running == submit[session.holder].pc # "idle"
    IN  /\ Reserved
        /\ running => faults < MaxFaults
        /\ faults' = IF running THEN faults + 1 ELSE faults
        /\ session' = [session EXCEPT !.reservation = "expired"]
        /\ UNCHANGED <<source, problems, requests, task>>

-----------------------------------------------------------------------------
\* The process dies with its tasks and requests: nothing of them is stored.
ProcessDies ==
    /\ faults < MaxFaults
    /\ faults' = faults + 1
    /\ starter' = [r \in Starters |-> "idle"]
    /\ submit' = [r \in Submits |-> IdleSubmit]
    /\ task' = [t \in Tasks |-> IdleTask]
    /\ UNCHANGED <<source, session, problems>>

Review(seen) ==
    \/ edit_problem_variant_candidate(seen)
    \/ attest_problem_variant_validation(seen)
    \/ discard_problem_variant(seen)
    \/ \E r \in Starters : \/ request_problem_variant_generation(r, seen)
                           \/ request_problem_variant_revalidation(r, seen)
    \/ \E r \in Submits : reserve_problem_variant_for_submit(r, seen)

Submission(r) == admit_variant_problem(r) \/ release_problem_variant_submit_reservation(r)

Work(t) ==
    \/ ReadSession(t) \/ claim_problem_variant_generation(t)
    \/ GenerateFails(t) \/ Checkpoint(t) \/ Validate(t) \/ TaskStops(t)

Next ==
    \/ SourceChanges
    \/ \E seen \in 0 .. session.revision : Review(seen)
    \/ \E r \in Starters : create_problem_variant(r) \/ start_problem_variant_generation(r)
    \/ \E r \in Submits : Submission(r) \/ AdmissionFails(r)
    \/ \E t \in Tasks : Work(t) \/ TaskFails(t)
    \/ ReservationExpires
    \/ ProcessDies

Spec == Init /\ [][Next]_vars

-----------------------------------------------------------------------------
(* Properties *)

Candidates == {NoCandidate} \union [of : Sources, written : Revisions, shape : Shapes]
ValidationSet == [failures : SUBSET (Kinds \union {"none"}), about : Candidates,
                  unanimous : BOOLEAN]
SessionSet ==
    [status : VariationStatus \union {"none"}, revision : Revisions,
     original : Sources \union {NoSource}, candidate : Candidates,
     validation : ValidationSet, validatedRevision : Revisions \union {NoRevision},
     attestation : Revisions \union {NoRevision}, holder : Submits \union {NoSubmit},
     reservation : {"none", "live", "expired"}, submitted : BOOLEAN, discarded : BOOLEAN]

\* Every variable holds a value the code could have stored there, a session is
\* closed in one way only, a reservation has a token and a deadline, and of the
\* tasks that run at most one was not cancelled (_tasks).
TypeOK ==
    /\ source \in {"available", "disabled", "deleted"}
    /\ session \in SessionSet
    /\ problems \subseteq [id : Submits, content : Candidates, reviewed : Revisions]
    /\ starter \in [Starters -> {"idle", "start"}]
    /\ submit \in [Submits -> [pc : {"idle", "admit", "release"}, seen : Revisions]]
    /\ task \in [Tasks -> [pc : {"idle", "read", "claim", "generate", "validate"},
                           revision : Revisions, candidate : Candidates,
                           cancelled : BOOLEAN]]
    /\ faults \in 0 .. MaxFaults
    /\ ~ (session.submitted /\ session.discarded)
    /\ session.holder = NoSubmit <=> session.reservation = "none"
    /\ Cardinality({t \in Tasks : task[t].pc # "idle" /\ ~ task[t].cancelled}) <= 1

\* A ready session is approved as it stands: all validators found nothing in
\* this very candidate, or the learner attested the current revision over a
\* report without verified defects; whichever tasks were cancelled, replaced or
\* answered late.
ApprovalIsBacked ==
    session.status = "ready" =>
        /\ session.candidate.of = session.original
        /\ \/ /\ session.validatedRevision = session.revision
              /\ session.attestation = NoRevision
              /\ session.validation = Validation({}, session.candidate, TRUE)
           \/ /\ session.attestation = session.revision
              /\ session.validatedRevision = NoRevision
              /\ session.validation.failures \subseteq {"check", "answer"}

\* The session is submitted exactly when there is a problem of it, one, and that
\* problem is the candidate its submitter reviewed (submit_problem_variant).
AdmittedOnceAsReviewed ==
    /\ Cardinality(problems) <= 1
    /\ session.submitted <=> problems # {}
    /\ \A p \in problems :
          /\ p.content = session.candidate
          /\ p.content.written = p.reviewed

\* A live reservation is only given up in a step of its holder, and while it lasts
\* the candidate under submission is only replaced by the learner's own edit.
ReservationProtects ==
    [][Reserved =>
          /\ session'.holder # session.holder =>
                submit'[session.holder] # submit[session.holder]
          /\ session'.candidate # session.candidate =>
                session'.status = "needs-validation"]_vars

\* Within one revision no candidate is generated twice: a revalidation is about
\* the candidate that was stored, the learner's edits included.
CandidateKept ==
    [][\/ session.candidate \in {NoCandidate, session'.candidate}
       \/ session'.revision > session.revision]_vars

\* What the review promises, with approval the ready state.
Reviewed ==
    INSTANCE ReviewedVariant WITH
        Contents <- Candidates, Nothing <- NoCandidate, ProblemIds <- Submits,
        content <- session.candidate,
        approved <- IF session.status = "ready" THEN session.candidate ELSE NoCandidate,
        published <- {[id |-> p.id, content |-> p.content] : p \in problems},
        closed <- session.discarded

\* Only what is approved as it stands becomes a problem, and nothing happens to
\* a session that is submitted or discarded (ReviewedVariant).
ImplementsReview == Reviewed!Spec

=============================================================================

------------------------- MODULE VariantSessionProofs -------------------------
(* Theorems about VariantSession, for every value of its constants: any    *)
(* number of tasks, of requests and of validators, any sources and bounds. *)
EXTENDS VariantSession, VariantAssessmentProofs

USE NobodyAssumption, BoundsAssumption, NoSourceAssumption, SourcesAssumption

-----------------------------------------------------------------------------
(* Type correctness *)

TaskLocals == [pc : {"idle", "read", "claim", "generate", "validate"},
               revision : Revisions, candidate : Candidates, cancelled : BOOLEAN]

\* A session document, open or closed in one way, with a source once it exists.
GoodSession(d) ==
    /\ d \in SessionSet
    /\ ~ (d.submitted /\ d.discarded)
    /\ d.holder = NoSubmit <=> d.reservation = "none"
    /\ d.status # "none" => d.original \in Sources

\* The tasks, of which one at most was not cancelled.
GoodTasks(f) ==
    /\ f \in [Tasks -> TaskLocals]
    /\ \A t, u \in Tasks :
          /\ f[t].pc # "idle" /\ ~ f[t].cancelled
          /\ f[u].pc # "idle" /\ ~ f[u].cancelled
          => t = u

\* TypeOK with the number of running tasks said without counting.
Typed ==
    /\ source \in {"available", "disabled", "deleted"}
    /\ GoodSession(session)
    /\ problems \subseteq [id : Submits, content : Candidates, reviewed : Revisions]
    /\ starter \in [Starters -> {"idle", "start"}]
    /\ submit \in [Submits -> [pc : {"idle", "admit", "release"}, seen : Revisions]]
    /\ GoodTasks(task)
    /\ faults \in 0 .. MaxFaults

LEMMA TypedIsTypeOK == Typed => TypeOK
<1> SUFFICES ASSUME Typed PROVE TypeOK
  OBVIOUS
<1> DEFINE S == {t \in Tasks : task[t].pc # "idle" /\ ~ task[t].cancelled}
<1>1. \A t, u \in S : t = u
  BY DEF Typed, GoodTasks
<1> HIDE DEF S
<1>2. Cardinality(S) <= 1
  <2>1. CASE S = {}
    <3>1. Cardinality(S) = 0
      BY <2>1, FS_EmptySet
    <3> QED BY <3>1
  <2>2. CASE S # {}
    <3>1. PICK t : S = {t}
      BY <1>1, <2>2
    <3>2. Cardinality(S) = 1
      BY <3>1, FS_Singleton
    <3> QED BY <3>2
  <2> QED BY <2>1, <2>2
<1>3. Cardinality({t \in Tasks : task[t].pc # "idle" /\ ~ task[t].cancelled}) <= 1
  BY <1>2 DEF S
<1> QED BY <1>3 DEF Typed, TypeOK, TaskLocals, GoodTasks, GoodSession

\* The values the code starts from.
LEMMA InitialValues ==
  /\ 0 \in Revisions /\ NoRevision \notin Revisions
  /\ NoCandidate \in Candidates
  /\ NoValidation \in ValidationSet
  /\ Absent \in SessionSet
  /\ IdleTask \in TaskLocals
  /\ IdleSubmit \in [pc : {"idle", "admit", "release"}, seen : Revisions]
<1>1. 0 \in Revisions /\ NoRevision \notin Revisions
  BY DEF Revisions, NoRevision
<1>2. NoCandidate \in Candidates
  BY DEF Candidates
<1>3. NoValidation \in ValidationSet
  BY <1>2 DEF NoValidation, Validation, ValidationSet
<1>4. Absent \in SessionSet
  BY <1>1, <1>2, <1>3 DEF Absent, SessionSet
<1> QED BY <1>1, <1>2, <1>3, <1>4 DEF IdleTask, TaskLocals, IdleSubmit

LEMMA TypeInit == Init => Typed
  BY InitialValues DEF Init, Typed, GoodSession, GoodTasks, Absent, IdleTask

\* What the steps make of the session document.
LEMMA SessionUpdates ==
  ASSUME NEW d \in SessionSet
  PROVE  /\ Unapproved(d) \in SessionSet
         /\ Unreserved(d) \in SessionSet
         /\ Discarded(d) \in SessionSet
         /\ Submitted(d) \in SessionSet
         /\ d.revision < MaxRevision =>
               /\ d.revision + 1 \in Revisions
               /\ Regenerated(d) \in SessionSet
               /\ \A c \in Candidates : [Invalidated(d) EXCEPT !.candidate = c] \in SessionSet
         /\ [Unapproved(d) EXCEPT !.status = "queued", !.validation = NoValidation] \in SessionSet
<1>1. ASSUME NEW e \in SessionSet
      PROVE  /\ Unapproved(e) \in SessionSet
             /\ Unapproved(e).revision = e.revision
             /\ Unreserved(e) \in SessionSet
             /\ Unreserved(e).revision = e.revision
             /\ [e EXCEPT !.submitted = TRUE] \in SessionSet
             /\ [e EXCEPT !.discarded = TRUE] \in SessionSet
  <2>1. Unapproved(e) \in SessionSet /\ Unapproved(e).revision = e.revision
    BY DEF SessionSet, Unapproved
  <2>2. Unreserved(e) \in SessionSet /\ Unreserved(e).revision = e.revision
    BY ZenonT(40) DEF SessionSet, Unreserved
  <2>3. [e EXCEPT !.submitted = TRUE] \in SessionSet
    BY DEF SessionSet
  <2>4. [e EXCEPT !.discarded = TRUE] \in SessionSet
    BY DEF SessionSet
  <2> QED BY <2>1, <2>2, <2>3, <2>4
<1>2. {"queued", "needs-validation"} \subseteq VariationStatus \union {"none"}
  BY DEF VariationStatus, VARIATION_IN_FLIGHT
<1>3. \A e \in SessionSet :
         [e EXCEPT !.status = "queued", !.validation = NoValidation] \in SessionSet
  BY <1>2, InitialValues DEF SessionSet
<1>4. \A e \in SessionSet : e.revision + 1 \in Revisions =>
         [e EXCEPT !.status = "queued", !.candidate = NoCandidate,
                   !.validation = NoValidation, !.revision = @ + 1] \in SessionSet
  BY <1>2, InitialValues DEF SessionSet
<1>5. \A e \in SessionSet, c \in Candidates : e.revision + 1 \in Revisions =>
         [[e EXCEPT !.status = "needs-validation", !.revision = @ + 1]
             EXCEPT !.candidate = c] \in SessionSet
  BY <1>2 DEF SessionSet
<1>6. d.revision < MaxRevision => d.revision + 1 \in Revisions
  BY DEF SessionSet, Revisions
<1>7. d.revision < MaxRevision => Regenerated(d) \in SessionSet
  <2> DEFINE e == Unreserved(Unapproved(d))
  <2>1. e \in SessionSet /\ e.revision = d.revision
    BY <1>1
  <2> HIDE DEF e
  <2>2. d.revision < MaxRevision =>
           [e EXCEPT !.status = "queued", !.candidate = NoCandidate,
                     !.validation = NoValidation, !.revision = @ + 1] \in SessionSet
    BY <2>1, <1>4, <1>6
  <2> QED BY <2>2 DEF e, Regenerated
<1>8. d.revision < MaxRevision =>
         \A c \in Candidates : [Invalidated(d) EXCEPT !.candidate = c] \in SessionSet
  BY <1>1, <1>5, <1>6 DEF Invalidated
<1> QED BY <1>1, <1>3, <1>6, <1>7, <1>8 DEF Submitted, Discarded

\* What the steps make of the local variables of the tasks.
LEMMA TaskUpdates ==
  ASSUME Typed, NEW t \in Tasks
  PROVE  /\ task[t] \in TaskLocals
         /\ Leave(t) => GoodTasks(task')
         /\ \A next \in TaskLocals : task[t].pc # "idle" /\ Continue(t, next) => GoodTasks(task')
         /\ GoodTasks(Cancelled)
         /\ GoodTasks([Cancelled EXCEPT ![t].pc = "read"])
<1>1. task \in [Tasks -> TaskLocals] /\ IdleTask \in TaskLocals /\ IdleTask.pc = "idle"
  BY InitialValues DEF Typed, GoodTasks, IdleTask
<1>2. Leave(t) => GoodTasks(task')
  BY <1>1 DEF Typed, GoodTasks, Leave
<1>3. \A next \in TaskLocals : task[t].pc # "idle" /\ Continue(t, next) => GoodTasks(task')
  <2> SUFFICES ASSUME NEW next \in TaskLocals, task[t].pc # "idle", Continue(t, next)
               PROVE  GoodTasks(task')
    OBVIOUS
  <2>1. CASE task[t].cancelled
    BY <1>2, <2>1 DEF Continue, Leave
  <2>2. CASE ~ task[t].cancelled
    BY <1>1, <2>2 DEF Typed, GoodTasks, Continue
  <2> QED BY <2>1, <2>2
<1>4. /\ Cancelled \in [Tasks -> TaskLocals]
      /\ \A u \in Tasks : Cancelled[u].pc # "idle" => Cancelled[u].cancelled
  <2>1. \A l \in TaskLocals : /\ [l EXCEPT !.cancelled = TRUE] \in TaskLocals
                              /\ [l EXCEPT !.cancelled = TRUE].cancelled
    BY DEF TaskLocals
  <2> QED BY <1>1, <2>1 DEF Cancelled
<1>5. GoodTasks([Cancelled EXCEPT ![t].pc = "read"])
  <2> DEFINE c == Cancelled
             f == [c EXCEPT ![t].pc = "read"]
  <2>1. c \in [Tasks -> TaskLocals]
    BY <1>4
  <2>2. \A u \in Tasks : c[u].pc # "idle" => c[u].cancelled
    BY <1>4
  <2> HIDE DEF c
  <2>3. [c[t] EXCEPT !.pc = "read"] \in TaskLocals
    BY <2>1 DEF TaskLocals
  <2>4. f \in [Tasks -> TaskLocals]
    BY <2>1, <2>3
  <2>5. \A u \in Tasks : u # t => f[u] = c[u]
    BY <2>1
  <2>6. GoodTasks(f)
    BY <2>2, <2>4, <2>5 DEF GoodTasks
  <2> QED BY <2>6 DEF c
<1> QED BY <1>1, <1>2, <1>3, <1>4, <1>5 DEF GoodTasks

\* A result is a validation, and saving it leaves a session.
LEMMA ResultTypes ==
  /\ \A original : \A c \in Candidates : Validations(original, c) \subseteq ValidationSet
  /\ \A original : \A f \in {source_graph_dsl_preflight(original), {"execution"}} :
        Validation(f, NoCandidate, FALSE) \in ValidationSet
<1>1. \A f \in SUBSET Kinds, c \in Candidates, b \in BOOLEAN :
         [failures |-> f, about |-> c, unanimous |-> b] \in ValidationSet
  BY DEF ValidationSet
<1>2. ASSUME NEW original, NEW c \in Candidates, NEW v \in Validations(original, c)
      PROVE  v \in ValidationSet
  <2>1. PICK f, u : v = Validation(f, c, u)
    BY DEF Validations
  <2>2. f \subseteq Kinds /\ u \in BOOLEAN
    BY <2>1, ValidationVerdict DEF Validation
  <2> QED BY <2>1, <2>2, <1>1 DEF Validation
<1>3. ASSUME NEW original, NEW f \in {source_graph_dsl_preflight(original), {"execution"}}
      PROVE  Validation(f, NoCandidate, FALSE) \in ValidationSet
  <2>1. f \subseteq Kinds
    BY PreflightKinds DEF Kinds
  <2> QED BY <2>1, <1>1, InitialValues DEF Validation
<1> QED BY <1>2, <1>3

LEMMA SaveResultType ==
  ASSUME Typed, NEW t \in Tasks, NEW v \in ValidationSet, NEW present \in BOOLEAN,
         SaveResult(t, v, present)
  PROVE  session' \in SessionSet
<1>1. session \in SessionSet /\ task[t].revision \in Revisions
  BY TaskUpdates DEF Typed, TaskLocals, GoodSession
<1>2. StatusOf(v, present) \in VariationStatus \union {"none"}
  BY StatusCases DEF VariationStatus
<1> DEFINE s == StatusOf(v, present)
           a == IF Pass(v) THEN task[t].revision ELSE session.validatedRevision
<1>3. a \in Revisions \union {NoRevision}
  BY <1>1 DEF SessionSet
<1>4. \/ session' = session
      \/ session' = [session EXCEPT !.status = s, !.validation = v, !.validatedRevision = a]
  BY DEF SaveResult
<1> HIDE DEF s, a
<1>5. s \in VariationStatus \union {"none"}
  BY <1>2 DEF s
<1> QED BY <1>1, <1>3, <1>4, <1>5, ZenonT(40) DEF SessionSet


\* Every step keeps the type invariant, one action at a time.
LEMMA TypeStep == Typed /\ [Next]_vars => Typed'
<1> SUFFICES ASSUME Typed, [Next]_vars PROVE Typed'
  OBVIOUS
<1> USE DEF requests
<1>s. /\ session \in SessionSet /\ session.revision \in Revisions
      /\ session.candidate \in Candidates /\ session.original \in Sources \union {NoSource}
      /\ session.holder \in Submits \union {NoSubmit}
      /\ session.submitted \in BOOLEAN /\ session.discarded \in BOOLEAN
  BY DEF Typed, GoodSession, SessionSet
<1>v. \A x \in {"queued", "generating", "validating", "ready", "needs-validation", "failed"} :
         x \in VariationStatus \union {"none"}
  BY DEF VariationStatus, VARIATION_IN_FLIGHT
<1>g. GoodSession(session)
  BY DEF Typed
<1>0. CASE UNCHANGED vars
  BY <1>0 DEF vars, Typed
<1>1. CASE SourceChanges
  BY <1>1 DEF SourceChanges, Typed
<1>2. ASSUME NEW seen \in 0 .. session.revision, Review(seen) PROVE Typed'
  <2>0. seen \in Revisions
    BY <1>s DEF Revisions
  <2>1. CASE edit_problem_variant_candidate(seen)
    <3>1. PICK c \in Edited : session' = [Invalidated(session) EXCEPT !.candidate = c]
      BY <2>1 DEF edit_problem_variant_candidate
    <3>2. session.revision < MaxRevision /\ session.status # "none"
      BY <2>1 DEF edit_problem_variant_candidate
    <3>3. c \in Candidates
      BY <3>2, <1>s, <1>g, SessionUpdates DEF Edited, Candidates, GoodSession
    <3>4. session' \in SessionSet
      BY <3>1, <3>2, <3>3, <1>s, SessionUpdates
    <3>5. GoodSession(session')
      BY <3>1, <3>2, <3>4, <1>s, <1>g DEF Invalidated, Unapproved, GoodSession, SessionSet
    <3> QED BY <2>1, <3>5 DEF edit_problem_variant_candidate, Typed
  <2>2. CASE attest_problem_variant_validation(seen)
    <3>1. session' \in SessionSet
      BY <2>0, <2>2, <1>s, <1>v DEF attest_problem_variant_validation, SessionSet
    <3>2. GoodSession(session')
      BY <2>2, <3>1, <1>s, <1>g
      DEF attest_problem_variant_validation, GoodSession, SessionSet, Current, Live
    <3> QED BY <2>2, <3>2 DEF attest_problem_variant_validation, Typed
  <2>3. CASE discard_problem_variant(seen)
    <3>1. session' \in SessionSet
      BY <2>3, <1>s, SessionUpdates DEF discard_problem_variant
    <3>2. GoodSession(session')
      BY <2>3, <3>1, <1>s, <1>g
      DEF discard_problem_variant, Discarded, GoodSession, SessionSet, Current, Live
    <3>3. GoodTasks(task')
      <4>1. CASE Tasks = {}
        BY <2>3, <4>1 DEF discard_problem_variant, Cancelled, GoodTasks
      <4>2. CASE Tasks # {}
        BY <2>3, <4>2, TaskUpdates DEF discard_problem_variant
      <4> QED BY <4>1, <4>2
    <3> QED BY <2>3, <3>2, <3>3 DEF discard_problem_variant, Typed
  <2>4. ASSUME NEW r \in Starters, request_problem_variant_generation(r, seen) PROVE Typed'
    <3>1. session' \in SessionSet
      BY <2>4, <1>s, SessionUpdates DEF request_problem_variant_generation
    <3>2. GoodSession(session')
      BY <2>4, <3>1, <1>s, <1>g
      DEF request_problem_variant_generation, Regenerated, Unapproved, Unreserved,
          GoodSession, SessionSet, Current, Live
    <3> QED BY <2>4, <3>2 DEF request_problem_variant_generation, Typed
  <2>5. ASSUME NEW r \in Starters, request_problem_variant_revalidation(r, seen) PROVE Typed'
    <3>1. session' \in SessionSet
      BY <2>5, <1>s, SessionUpdates DEF request_problem_variant_revalidation
    <3>2. GoodSession(session')
      BY <2>5, <3>1, <1>s, <1>g
      DEF request_problem_variant_revalidation, Unapproved, GoodSession, SessionSet, Current, Live
    <3> QED BY <2>5, <3>2 DEF request_problem_variant_revalidation, Typed
  <2>6. ASSUME NEW r \in Submits, reserve_problem_variant_for_submit(r, seen) PROVE Typed'
    <3>1. session' \in SessionSet
      BY <2>6, <1>s DEF reserve_problem_variant_for_submit, SessionSet
    <3>2. GoodSession(session')
      BY <2>6, <3>1, <1>s, <1>g
      DEF reserve_problem_variant_for_submit, GoodSession, SessionSet, Current, Live
    <3> QED BY <2>6, <3>2, <2>0 DEF reserve_problem_variant_for_submit, Typed
  <2> QED BY <1>2, <2>1, <2>2, <2>3, <2>4, <2>5, <2>6 DEF Review
<1>3. ASSUME NEW r \in Starters, create_problem_variant(r) PROVE Typed'
  <2>1. PICK o \in Sources : session' = NewSession(o)
    BY <1>3 DEF create_problem_variant
  <2>2. session' \in SessionSet
    BY <2>1, <1>v, InitialValues DEF NewSession, SessionSet
  <2>3. GoodSession(session')
    BY <2>1, <2>2 DEF NewSession, Absent, GoodSession, SessionSet
  <2> QED BY <1>3, <2>3 DEF create_problem_variant, Typed
<1>4. ASSUME NEW r \in Starters, start_problem_variant_generation(r) PROVE Typed'
  BY <1>4, TaskUpdates DEF start_problem_variant_generation, Typed
<1>5. ASSUME NEW r \in Submits, Submission(r) \/ AdmissionFails(r) PROVE Typed'
  <2>1. CASE admit_variant_problem(r)
    <3>1. CASE UNCHANGED <<problems, session>> /\ submit' = [submit EXCEPT ![r].pc = "release"]
      <4>1. submit' \in [Submits -> [pc : {"idle", "admit", "release"}, seen : Revisions]]
        BY <3>1 DEF Typed
      <4> QED BY <2>1, <3>1, <4>1 DEF admit_variant_problem, Typed
    <3>2. CASE ~ (UNCHANGED <<problems, session>> /\ submit' = [submit EXCEPT ![r].pc = "release"])
      <4>1. /\ Held(r) /\ session' = Submitted(session)
            /\ submit' = [submit EXCEPT ![r] = IdleSubmit]
            /\ problems' = problems \union
                  {[id |-> r, content |-> session.candidate, reviewed |-> submit[r].seen]}
        BY <2>1, <3>2 DEF admit_variant_problem
      <4>2. session' \in SessionSet
        BY <4>1, <1>s, SessionUpdates
      <4>3. GoodSession(session')
        BY <4>1, <4>2, <1>s, <1>g
        DEF Held, Current, Live, Submitted, Unreserved, GoodSession, SessionSet
      <4>4. submit' \in [Submits -> [pc : {"idle", "admit", "release"}, seen : Revisions]]
        BY <4>1, InitialValues DEF Typed
      <4>5. submit[r].seen \in Revisions
        BY DEF Typed
      <4>6. problems' \subseteq [id : Submits, content : Candidates, reviewed : Revisions]
        BY <4>1, <4>5, <1>s DEF Typed
      <4> QED BY <2>1, <4>3, <4>4, <4>6 DEF admit_variant_problem, Typed
    <3> QED BY <3>1, <3>2
  <2>2. CASE release_problem_variant_submit_reservation(r)
    <3>1. session' = Unreserved(session) \/ session' = session
      BY <2>2 DEF release_problem_variant_submit_reservation
    <3>2. session' \in SessionSet
      BY <3>1, <1>s, SessionUpdates
    <3>3. GoodSession(session')
      BY <3>1, <3>2, <1>s, <1>g DEF Unreserved, GoodSession, SessionSet
    <3> QED BY <2>2, <3>3, InitialValues DEF release_problem_variant_submit_reservation, Typed
  <2>3. CASE AdmissionFails(r)
    BY <2>3 DEF AdmissionFails, Typed
  <2> QED BY <1>5, <2>1, <2>2, <2>3 DEF Submission
<1>6. ASSUME NEW t \in Tasks, Work(t) \/ TaskFails(t) PROVE Typed'
  <2>0. task[t] \in TaskLocals
    BY TaskUpdates
  <2>1. CASE ReadSession(t)
    <3>1. [task[t] EXCEPT !.pc = "claim", !.revision = session.revision] \in TaskLocals
      BY <2>0, <1>s DEF TaskLocals
    <3>2. GoodTasks(task')
      BY <2>1, <3>1, TaskUpdates DEF ReadSession
    <3> QED BY <2>1, <3>2 DEF ReadSession, Typed
  <2>2. CASE claim_problem_variant_generation(t)
    <3>1. [task[t] EXCEPT !.pc = NextStep(session.candidate), !.candidate = session.candidate]
             \in TaskLocals
      BY <2>0, <1>s DEF TaskLocals, NextStep
    <3>2. GoodTasks(task')
      BY <2>2, <3>1, TaskUpdates DEF claim_problem_variant_generation
    <3>3. \/ session' = session
          \/ session' = [session EXCEPT !.status = "generating"] /\ Live
      BY <2>2 DEF claim_problem_variant_generation, Claimable
    <3>4. GoodSession(session')
      BY <3>3, <1>s, <1>g, <1>v DEF GoodSession, SessionSet, Live
    <3> QED BY <2>2, <3>2, <3>4 DEF claim_problem_variant_generation, Typed
  <2>3. ASSUME NEW v \in ValidationSet, NEW present \in BOOLEAN, SaveResult(t, v, present)
        PROVE  GoodSession(session')
    <3>1. session' \in SessionSet
      BY <2>3, SaveResultType
    <3>2. \/ session' = session
          \/ /\ session'.submitted = session.submitted /\ session'.discarded = session.discarded
             /\ session'.holder = session.holder /\ session'.reservation = session.reservation
             /\ session'.original = session.original /\ session.status # "none"
      BY <2>3, <1>s DEF SaveResult, Fenced, Live, SessionSet
    <3> QED BY <3>1, <3>2, <1>g DEF GoodSession
  <2>4. CASE GenerateFails(t)
    <3>1. PICK f \in {source_graph_dsl_preflight(session.original), {"execution"}} :
             SaveResult(t, Validation(f, NoCandidate, FALSE), FALSE)
      BY <2>4 DEF GenerateFails
    <3>2. GoodSession(session')
      BY <2>3, <3>1, ResultTypes
    <3> QED BY <2>4, <3>2, TaskUpdates DEF GenerateFails, Typed
  <2>5. CASE Checkpoint(t)
    <3>1. CASE Fenced(t) /\ session.status = "generating"
      <4>1. PICK shape \in GeneratedShapes :
               LET c == [of |-> session.original, written |-> task[t].revision, shape |-> shape]
               IN  /\ session' = [session EXCEPT !.status = "validating", !.candidate = c]
                   /\ Continue(t, [task[t] EXCEPT !.pc = "validate", !.candidate = c])
        BY <2>5, <3>1 DEF Checkpoint
      <4> DEFINE c == [of |-> session.original, written |-> task[t].revision, shape |-> shape]
      <4>2. session.original \in Sources
        BY <3>1, <1>g DEF GoodSession
      <4>3. c \in Candidates
        BY <2>0, <4>2 DEF Candidates, TaskLocals, GeneratedShapes
      <4> HIDE DEF c
      <4>4. session' = [session EXCEPT !.status = "validating", !.candidate = c]
        BY <4>1 DEF c
      <4>5. Continue(t, [task[t] EXCEPT !.pc = "validate", !.candidate = c])
        BY <4>1 DEF c
      <4>6. GoodSession(session')
        BY <4>3, <4>4, <1>g, <1>s, <1>v, <4>2 DEF GoodSession, SessionSet
      <4>7. [task[t] EXCEPT !.pc = "validate", !.candidate = c] \in TaskLocals
        BY <2>0, <4>3 DEF TaskLocals
      <4>8. GoodTasks(task')
        BY <2>5, <4>5, <4>7, TaskUpdates DEF Checkpoint
      <4> QED BY <2>5, <4>6, <4>8 DEF Checkpoint, Typed
    <3>2. CASE ~ (Fenced(t) /\ session.status = "generating")
      BY <2>5, <3>2, TaskUpdates DEF Checkpoint, Typed
    <3> QED BY <3>1, <3>2
  <2>6. CASE Validate(t)
    <3>1. PICK v \in Validations(session.original, task[t].candidate) : SaveResult(t, v, TRUE)
      BY <2>6 DEF Validate
    <3>2. v \in ValidationSet
      <4>1. task[t].candidate \in Candidates
        BY <2>0 DEF TaskLocals
      <4> QED BY <3>1, <4>1, ResultTypes
    <3>3. GoodSession(session')
      BY <2>3, <3>1, <3>2
    <3> QED BY <2>6, <3>3, TaskUpdates DEF Validate, Typed
  <2>7. CASE TaskStops(t)
    BY <2>7, TaskUpdates DEF TaskStops, Typed
  <2>8. CASE TaskFails(t)
    <3>1. faults' \in 0 .. MaxFaults
      BY <2>8 DEF TaskFails, Typed
    <3> QED BY <2>8, <3>1, TaskUpdates DEF TaskFails, Typed
  <2> QED BY <1>6, <2>1, <2>2, <2>4, <2>5, <2>6, <2>7, <2>8 DEF Work
<1>7. CASE ReservationExpires
  <2>1. GoodSession(session')
    BY <1>7, <1>s, <1>g DEF ReservationExpires, GoodSession, SessionSet, Reserved
  <2>2. faults' \in 0 .. MaxFaults
    BY <1>7 DEF ReservationExpires, Typed
  <2> QED BY <1>7, <2>1, <2>2 DEF ReservationExpires, Typed
<1>8. CASE ProcessDies
  BY <1>8, InitialValues DEF ProcessDies, Typed, GoodTasks, IdleTask
<1> QED BY <1>0, <1>1, <1>2, <1>3, <1>4, <1>5, <1>6, <1>7, <1>8 DEF Next

\* The session and its tasks always hold values the code could have stored.
THEOREM TypeCorrect == Spec => []TypeOK
<1>1. Spec => []Typed
  BY TypeInit, TypeStep, PTL DEF Spec
<1> QED BY <1>1, TypedIsTypeOK, PTL

-----------------------------------------------------------------------------
(* The invariant behind the approvals and admissions *)

\* Task t holds a claim at the session's revision.
Works(t) ==
    /\ task[t].pc \in {"generate", "validate"}
    /\ task[t].revision = session.revision

\* contentRevision fences the tasks: one at most holds a claim at the session's
\* revision, cancelled or not, and it works on the candidate that is stored.
OneTaskWorks ==
    \A t \in Tasks :
        /\ task[t].revision <= session.revision
        /\ Works(t) =>
              /\ session.status \in {"generating", "validating"}
              /\ \A u \in Tasks : Works(u) => u = t
              /\ task[t].pc = "generate" => session.candidate = NoCandidate
              /\ task[t].pc = "validate" =>
                    session.candidate # NoCandidate /\ task[t].candidate = session.candidate

ApprovalWithdrawn ==
    session.status # "ready" =>
        session.validatedRevision = NoRevision /\ session.attestation = NoRevision

\* The candidate belongs to the source and was written at the present revision.
CandidateCurrent ==
    session.candidate # NoCandidate =>
        /\ session.candidate.of = session.original
        /\ session.candidate.written = session.revision

\* What may be revalidated, attested or submitted has a candidate.
CandidateStored ==
    (\/ session.status = "needs-validation"
     \/ session.status = "failed" /\ session.validation.failures \subseteq {"check", "answer"}
     \/ Reserved) => session.candidate # NoCandidate

Inv ==
    /\ OneTaskWorks
    /\ ApprovalWithdrawn
    /\ CandidateCurrent
    /\ CandidateStored
    /\ ApprovalIsBacked
    /\ AdmittedOnceAsReviewed

LEMMA InvInit == Init => Inv
<1> SUFFICES ASSUME Init PROVE Inv
  OBVIOUS
<1>1. problems = {} /\ Cardinality(problems) = 0
  BY FS_EmptySet DEF Init
<1> QED BY <1>1 DEF Init, Inv, Absent, IdleTask, OneTaskWorks, Works, ApprovalWithdrawn,
                    CandidateCurrent, CandidateStored, Reserved, ApprovalIsBacked,
                    AdmittedOnceAsReviewed

\* The claims of the tasks stay what they were, or are given up.
ClaimsKept ==
    \A u \in Tasks :
        /\ task'[u].revision \in {0, task[u].revision}
        /\ task'[u].pc \in {"generate", "validate"} =>
              /\ task'[u].pc = task[u].pc
              /\ task'[u].revision = task[u].revision
              /\ task'[u].candidate = task[u].candidate

LEMMA TasksGiveUp ==
  ASSUME Typed
  PROVE  /\ UNCHANGED task => ClaimsKept
         /\ task' = Cancelled => ClaimsKept
         /\ task' = [t \in Tasks |-> IdleTask] => ClaimsKept
         /\ \A t \in Tasks : /\ Leave(t) => ClaimsKept /\ task'[t].pc = "idle"
                             /\ task' = [Cancelled EXCEPT ![t].pc = "read"] => ClaimsKept
<1>1. task \in [Tasks -> TaskLocals]
  BY DEF Typed, GoodTasks
<1>2. \A t \in Tasks : /\ Cancelled[t].revision \in {0, task[t].revision}
                       /\ Cancelled[t].pc = task[t].pc
                       /\ task[t].pc # "idle" => /\ Cancelled[t].revision = task[t].revision
                                                 /\ Cancelled[t].candidate = task[t].candidate
  BY <1>1 DEF Cancelled, IdleTask, TaskLocals
<1>3. Cancelled \in [Tasks -> TaskLocals]
  BY TaskUpdates DEF GoodTasks, Cancelled
<1>4. task' = Cancelled => ClaimsKept
  BY <1>2 DEF ClaimsKept
<1>5. \A t \in Tasks : task' = [Cancelled EXCEPT ![t].pc = "read"] => ClaimsKept
  <2> DEFINE c == Cancelled
  <2> SUFFICES ASSUME NEW t \in Tasks, task' = [c EXCEPT ![t].pc = "read"] PROVE ClaimsKept
    OBVIOUS
  <2>1. c \in [Tasks -> TaskLocals]
    BY <1>3
  <2>2. \A u \in Tasks : /\ c[u].revision \in {0, task[u].revision}
                         /\ c[u].pc = task[u].pc
                         /\ task[u].pc # "idle" => /\ c[u].revision = task[u].revision
                                                   /\ c[u].candidate = task[u].candidate
    BY <1>2
  <2> HIDE DEF c
  <2>3. /\ task'[t].pc = "read" /\ task'[t].revision = c[t].revision
        /\ \A u \in Tasks \ {t} : task'[u] = c[u]
    BY <2>1 DEF TaskLocals
  <2> QED BY <2>2, <2>3 DEF ClaimsKept
<1> QED BY <1>1, <1>4, <1>5 DEF ClaimsKept, Leave, IdleTask

\* A step that starts no work keeps the fence: it moves on to a revision no task
\* has claimed, or leaves the state of work alone, or ends it.
LEMMA FenceKept ==
  ASSUME Typed, Typed', OneTaskWorks, ClaimsKept,
         \/ session'.revision > session.revision
         \/ /\ session'.revision = session.revision
            /\ session'.candidate = session.candidate
            /\ \/ session'.status = session.status
               \/ session.status \notin {"generating", "validating"}
               \/ \E t \in Tasks : Works(t) /\ task'[t].pc = "idle"
  PROVE  OneTaskWorks'
<1>1. /\ session.revision \in Nat /\ session'.revision \in Nat
      /\ \A u \in Tasks : task[u].revision \in Nat /\ task'[u].revision \in Nat
  BY DEF Typed, GoodSession, SessionSet, GoodTasks, TaskLocals, Revisions
<1>2. \A u \in Tasks : task[u].revision <= session.revision /\ task'[u].revision <= session.revision
  BY <1>1 DEF OneTaskWorks, ClaimsKept
<1>3. CASE session'.revision > session.revision
  BY <1>1, <1>2, <1>3 DEF OneTaskWorks, Works
<1>4. CASE /\ session'.revision = session.revision
           /\ session'.candidate = session.candidate
           /\ \/ session'.status = session.status
              \/ session.status \notin {"generating", "validating"}
              \/ \E t \in Tasks : Works(t) /\ task'[t].pc = "idle"
  <2>1. \A u \in Tasks : Works(u)' => /\ Works(u) /\ task'[u].pc = task[u].pc
                                     /\ task'[u].candidate = task[u].candidate
    BY <1>4 DEF Works, ClaimsKept
  <2>2. ASSUME NEW u \in Tasks, Works(u)' PROVE session'.status = session.status
    <3>1. Works(u) /\ session.status \in {"generating", "validating"}
      BY <2>1, <2>2 DEF OneTaskWorks
    <3>2. ASSUME NEW t \in Tasks, Works(t), task'[t].pc = "idle" PROVE FALSE
      <4>1. t = u
        BY <3>1, <3>2 DEF OneTaskWorks
      <4> QED BY <4>1, <3>2, <2>2 DEF Works
    <3> QED BY <1>4, <3>1, <3>2
  <2> QED BY <1>2, <1>4, <2>1, <2>2 DEF OneTaskWorks
<1> QED BY <1>3, <1>4

\* The problems of a session fit it as long as neither changes once it is submitted.
LEMMA ReviewKept ==
  ASSUME Typed, AdmittedOnceAsReviewed, UNCHANGED problems,
         session'.submitted = session.submitted,
         session.submitted => session'.candidate = session.candidate
  PROVE  AdmittedOnceAsReviewed'
<1>1. session.submitted \in BOOLEAN
  BY DEF Typed, GoodSession, SessionSet
<1> QED BY <1>1 DEF AdmittedOnceAsReviewed

\* Steps that leave the review alone, whatever becomes of the reservation.
LEMMA QuietStep ==
  ASSUME Typed, Typed', Inv, ClaimsKept, UNCHANGED problems,
         session'.status = session.status, session'.revision = session.revision,
         session'.original = session.original, session'.candidate = session.candidate,
         session'.validation = session.validation,
         session'.validatedRevision = session.validatedRevision,
         session'.attestation = session.attestation,
         session'.submitted = session.submitted,
         Reserved' => Reserved
  PROVE  Inv'
<1>1. OneTaskWorks'
  BY FenceKept DEF Inv
<1>2. AdmittedOnceAsReviewed'
  BY ReviewKept DEF Inv
<1> QED BY <1>1, <1>2 DEF Inv, ApprovalWithdrawn, CandidateCurrent, CandidateStored, ApprovalIsBacked

LEMMA ReviewStep ==
  ASSUME Typed, Typed', Inv, NEW seen \in 0 .. session.revision, Review(seen)
  PROVE  Inv'
<1> USE DEF requests
<1>s. session \in SessionSet /\ session.revision \in Revisions /\ session.revision \in Nat
  BY DEF Typed, GoodSession, SessionSet, Revisions
<1>o. session.status # "none" => session.original \in Sources
  BY DEF Typed, GoodSession
<1>1. CASE edit_problem_variant_candidate(seen)
  <2>1. PICK c \in Edited : session' = [Invalidated(session) EXCEPT !.candidate = c]
    BY <1>1 DEF edit_problem_variant_candidate
  <2>2. /\ Live /\ UNCHANGED <<problems, task>>
    BY <1>1 DEF edit_problem_variant_candidate, Current
  <2>3. /\ c.of = session.original /\ c.written = session.revision + 1
        /\ c # NoCandidate
    BY <2>2, <1>o, <1>s DEF Edited, Live, NoCandidate
  <2>4. /\ session'.status = "needs-validation" /\ session'.revision = session.revision + 1
        /\ session'.candidate = c /\ session'.original = session.original
        /\ session'.validatedRevision = NoRevision /\ session'.attestation = NoRevision
        /\ session'.submitted = session.submitted
    BY <2>1, <1>s DEF Invalidated, Unapproved, SessionSet
  <2>5. OneTaskWorks'
    BY <2>2, <2>4, <1>s, FenceKept, TasksGiveUp DEF Inv
  <2>6. AdmittedOnceAsReviewed'
    BY <2>2, <2>4, ReviewKept DEF Inv, Live
  <2> QED BY <2>3, <2>4, <2>5, <2>6
          DEF Inv, ApprovalWithdrawn, CandidateCurrent, CandidateStored, ApprovalIsBacked
<1>2. CASE attest_problem_variant_validation(seen)
  <2>1. /\ session'.status = "ready" /\ session'.revision = session.revision
        /\ session'.candidate = session.candidate /\ session'.original = session.original
        /\ session'.validation = session.validation
        /\ session'.validatedRevision = session.validatedRevision
        /\ session'.attestation = session.revision
        /\ session'.submitted = session.submitted
        /\ Reserved' => Reserved
    BY <1>2, <1>s DEF attest_problem_variant_validation, Current, SessionSet, Reserved
  <2>2. /\ session.status \in {"needs-validation", "failed"}
        /\ session.validation.failures \subseteq {"check", "answer"}
        /\ UNCHANGED <<problems, task>>
    BY <1>2, AttestableKinds DEF attest_problem_variant_validation
  <2>3. session.candidate # NoCandidate /\ session.candidate.of = session.original
    BY <2>2 DEF Inv, CandidateStored, CandidateCurrent
  <2>4. session.validatedRevision = NoRevision
    BY <2>2 DEF Inv, ApprovalWithdrawn
  <2>5. OneTaskWorks'
    BY <2>1, <2>2, FenceKept, TasksGiveUp DEF Inv
  <2>6. AdmittedOnceAsReviewed'
    BY <2>1, <2>2, ReviewKept DEF Inv
  <2> QED BY <2>1, <2>2, <2>3, <2>4, <2>5, <2>6
          DEF Inv, ApprovalWithdrawn, CandidateCurrent, CandidateStored, ApprovalIsBacked
<1>3. CASE discard_problem_variant(seen)
  <2>1. /\ UNCHANGED problems /\ ClaimsKept
        /\ session'.status = session.status /\ session'.revision = session.revision
        /\ session'.original = session.original /\ session'.candidate = session.candidate
        /\ session'.validation = session.validation
        /\ session'.validatedRevision = session.validatedRevision
        /\ session'.attestation = session.attestation
        /\ session'.submitted = session.submitted
        /\ Reserved' => Reserved
    BY <1>3, <1>s, TasksGiveUp DEF discard_problem_variant, Discarded, SessionSet, Reserved
  <2> QED BY <2>1, QuietStep
<1>4. ASSUME NEW r \in Starters, request_problem_variant_generation(r, seen) PROVE Inv'
  <2>1. /\ session'.status = "queued" /\ session'.revision = session.revision + 1
        /\ session'.candidate = NoCandidate
        /\ session'.validatedRevision = NoRevision /\ session'.attestation = NoRevision
        /\ session'.submitted = session.submitted /\ ~ Reserved'
    BY <1>4, <1>s
    DEF request_problem_variant_generation, Regenerated, Unapproved, Unreserved, Reserved, SessionSet
  <2>2. Live /\ UNCHANGED <<problems, task>>
    BY <1>4 DEF request_problem_variant_generation, Current
  <2>3. OneTaskWorks'
    BY <2>1, <2>2, <1>s, FenceKept, TasksGiveUp DEF Inv
  <2>4. AdmittedOnceAsReviewed'
    BY <2>1, <2>2, ReviewKept DEF Inv, Live
  <2> QED BY <2>1, <2>3, <2>4
          DEF Inv, ApprovalWithdrawn, CandidateCurrent, CandidateStored, ApprovalIsBacked
<1>5. ASSUME NEW r \in Starters, request_problem_variant_revalidation(r, seen) PROVE Inv'
  <2>1. /\ session'.status = "queued" /\ session'.revision = session.revision
        /\ session'.candidate = session.candidate /\ session'.original = session.original
        /\ session'.validatedRevision = NoRevision /\ session'.attestation = NoRevision
        /\ session'.submitted = session.submitted
        /\ Reserved' => Reserved
    BY <1>5, <1>s DEF request_problem_variant_revalidation, Unapproved, Reserved, SessionSet
  <2>2. Live /\ session.status = "needs-validation" /\ UNCHANGED <<problems, task>>
    BY <1>5 DEF request_problem_variant_revalidation, Current
  <2>3. OneTaskWorks'
    BY <2>1, <2>2, FenceKept, TasksGiveUp DEF Inv
  <2>4. AdmittedOnceAsReviewed'
    BY <2>1, <2>2, ReviewKept DEF Inv
  <2> QED BY <2>1, <2>2, <2>3, <2>4
          DEF Inv, ApprovalWithdrawn, CandidateCurrent, CandidateStored, ApprovalIsBacked
<1>6. ASSUME NEW r \in Submits, reserve_problem_variant_for_submit(r, seen) PROVE Inv'
  <2>1. /\ session'.status = "ready" /\ session'.revision = session.revision
        /\ session'.original = session.original /\ session'.candidate = session.candidate
        /\ session'.validation = session.validation
        /\ session'.validatedRevision = session.validatedRevision
        /\ session'.attestation = session.attestation
        /\ session'.submitted = session.submitted
        /\ session.status = "ready" /\ Live
    BY <1>6, <1>s DEF reserve_problem_variant_for_submit, Current, SessionSet
  <2>2. session.candidate # NoCandidate
    BY <2>1, <1>o DEF Inv, ApprovalIsBacked, Live, NoCandidate
  <2>3. UNCHANGED <<problems, task>>
    BY <1>6 DEF reserve_problem_variant_for_submit
  <2>4. OneTaskWorks'
    BY <2>1, <2>3, FenceKept, TasksGiveUp DEF Inv
  <2>5. AdmittedOnceAsReviewed'
    BY <2>1, <2>3, ReviewKept DEF Inv
  <2> QED BY <2>1, <2>2, <2>4, <2>5
          DEF Inv, ApprovalWithdrawn, CandidateCurrent, CandidateStored, ApprovalIsBacked
<1> QED BY <1>1, <1>2, <1>3, <1>4, <1>5, <1>6 DEF Review

\* Saving a result: dropped, or of the one task that works, on the candidate stored.
LEMMA ResultStep ==
  ASSUME Typed, Typed', Inv, NEW t \in Tasks, NEW v \in ValidationSet, NEW present \in BOOLEAN,
         SaveResult(t, v, present), Leave(t), UNCHANGED problems,
         task[t].pc \in {"generate", "validate"},
         Pass(v) => v = Validation({}, task[t].candidate, TRUE) /\ task[t].pc = "validate",
         present <=> task[t].pc = "validate",
         ~ present => ~ (v.failures \subseteq {"check", "answer"})
  PROVE  Inv'
<1>s. session \in SessionSet
  BY DEF Typed, GoodSession
<1>1. CASE session' = session
  BY <1>1, QuietStep, TasksGiveUp DEF Reserved
<1>2. CASE session' # session
  <2>1. /\ Works(t) /\ Live /\ session.status \in {"generating", "validating"}
        /\ session' = [session EXCEPT
             !.status = StatusOf(v, present), !.validation = v,
             !.validatedRevision = IF Pass(v) THEN task[t].revision ELSE @]
    BY <1>2 DEF SaveResult, Fenced, Works
  <2>2. /\ session'.status = StatusOf(v, present) /\ session'.revision = session.revision
        /\ session'.candidate = session.candidate /\ session'.original = session.original
        /\ session'.validation = v /\ session'.attestation = session.attestation
        /\ session'.submitted = session.submitted
        /\ Reserved' => Reserved
    BY <2>1, <1>s DEF SessionSet, Reserved
  <2>3. /\ Pass(v) => session'.validatedRevision = task[t].revision
        /\ ~ Pass(v) => session'.validatedRevision = session.validatedRevision
    BY <2>1, <1>s DEF SessionSet
  <2>4. session.validatedRevision = NoRevision /\ session.attestation = NoRevision
    BY <2>1 DEF Inv, ApprovalWithdrawn
  <2>5. /\ task[t].revision = session.revision
        /\ task[t].pc = "validate" =>
              session.candidate # NoCandidate /\ task[t].candidate = session.candidate
    BY <2>1 DEF Inv, OneTaskWorks, Works
  <2>6. /\ StatusOf(v, present) = "ready" <=> Pass(v)
        /\ StatusOf(v, present) = "needs-validation" => present
    BY StatusCases
  <2>7. OneTaskWorks'
    BY <2>1, <2>2, FenceKept, TasksGiveUp DEF Inv
  <2>8. AdmittedOnceAsReviewed'
    BY <2>2, ReviewKept DEF Inv
  <2>9. ApprovalWithdrawn'
    BY <2>2, <2>3, <2>4, <2>6 DEF ApprovalWithdrawn
  <2>10. CandidateCurrent'
    BY <2>2 DEF Inv, CandidateCurrent
  <2>11. CandidateStored'
    BY <2>2, <2>5, <2>6 DEF Inv, CandidateStored
  <2>12. ApprovalIsBacked'
    <3> SUFFICES ASSUME session'.status = "ready" PROVE ApprovalIsBacked'
      BY DEF ApprovalIsBacked
    <3>1. Pass(v) /\ v = Validation({}, session.candidate, TRUE) /\ session.candidate # NoCandidate
      BY <2>2, <2>5, <2>6
    <3> QED BY <2>2, <2>3, <2>4, <2>5, <3>1 DEF Inv, ApprovalIsBacked, CandidateCurrent
  <2> QED BY <2>7, <2>8, <2>9, <2>10, <2>11, <2>12 DEF Inv
<1> QED BY <1>1, <1>2

\* A task that goes on replaces its own record at most.
LEMMA TaskGoesOn ==
  ASSUME Typed, NEW t \in Tasks, NEW next \in TaskLocals, Continue(t, next)
  PROVE  /\ \A u \in Tasks \ {t} : task'[u] = task[u]
         /\ task'[t] \in {next, IdleTask}
BY DEF Typed, GoodTasks, Continue

LEMMA WorkStep ==
  ASSUME Typed, Typed', Inv, NEW t \in Tasks, Work(t) \/ TaskFails(t)
  PROVE  Inv'
<1> USE DEF requests
<1>s. session \in SessionSet /\ session.revision \in Revisions /\ session.revision \in Nat
  BY DEF Typed, GoodSession, SessionSet, Revisions
<1>t. task \in [Tasks -> TaskLocals] /\ task[t] \in TaskLocals
  BY DEF Typed, GoodTasks
<1>i. IdleTask.pc = "idle" /\ IdleTask.revision = 0
  BY DEF IdleTask
<1>1. CASE ReadSession(t)
  <2> DEFINE next == [task[t] EXCEPT !.pc = "claim", !.revision = session.revision]
  <2>1. UNCHANGED <<session, problems>>
    BY <1>1 DEF ReadSession
  <2>2. Leave(t) \/ Continue(t, next)
    BY <1>1 DEF ReadSession
  <2>3. next \in TaskLocals /\ next.pc = "claim" /\ next.revision = session.revision
    BY <1>s, <1>t DEF TaskLocals
  <2> HIDE DEF next
  <2>4. CASE Leave(t)
    BY <2>1, <2>4, QuietStep, TasksGiveUp DEF Reserved
  <2>5. CASE Continue(t, next)
    <3>1. /\ \A u \in Tasks \ {t} : task'[u] = task[u]
          /\ task'[t] \in {next, IdleTask}
      BY <2>3, <2>5, TaskGoesOn
    <3>2. OneTaskWorks'
      BY <2>1, <2>3, <3>1, <1>s, <1>i DEF Inv, OneTaskWorks, Works
    <3> QED BY <2>1, <3>2
            DEF Inv, ApprovalWithdrawn, CandidateCurrent, CandidateStored, ApprovalIsBacked,
                Reserved, AdmittedOnceAsReviewed
  <2> QED BY <2>2, <2>4, <2>5
<1>2. CASE claim_problem_variant_generation(t)
  <2>1. CASE ~ Claimable(t)
    <3>1. UNCHANGED <<session, problems>> /\ Leave(t)
      BY <1>2, <2>1 DEF claim_problem_variant_generation
    <3> QED BY <3>1, QuietStep, TasksGiveUp DEF Reserved
  <2>2. CASE Claimable(t)
    <3> DEFINE next == [task[t] EXCEPT !.pc = NextStep(session.candidate),
                                       !.candidate = session.candidate]
    <3>1. /\ session' = [session EXCEPT !.status = "generating"]
          /\ Continue(t, next) /\ UNCHANGED problems
      BY <1>2, <2>2 DEF claim_problem_variant_generation
    <3>2. /\ session'.status = "generating" /\ session'.revision = session.revision
          /\ session'.original = session.original /\ session'.candidate = session.candidate
          /\ session'.validatedRevision = session.validatedRevision
          /\ session'.attestation = session.attestation
          /\ session'.submitted = session.submitted
          /\ Reserved' => Reserved
      BY <3>1, <1>s DEF SessionSet, Reserved
    <3>3. session.status = "queued" /\ task[t].revision = session.revision
      BY <2>2 DEF Claimable
    <3>4. /\ next \in TaskLocals /\ next.revision = session.revision
          /\ next.candidate = session.candidate
          /\ next.pc = IF session.candidate = NoCandidate THEN "generate" ELSE "validate"
      BY <1>s, <1>t, <3>3 DEF TaskLocals, NextStep, SessionSet
    <3> HIDE DEF next
    <3>5. /\ \A u \in Tasks \ {t} : task'[u] = task[u]
          /\ task'[t] \in {next, IdleTask}
      BY <3>1, <3>4, TaskGoesOn
    <3>6. \A u \in Tasks : ~ Works(u) /\ task[u].revision <= session.revision
      BY <3>3 DEF Inv, OneTaskWorks
    <3>7. \A u \in Tasks : Works(u)' => u = t
      BY <3>2, <3>5, <3>6 DEF Works
    <3>8. OneTaskWorks'
      BY <3>2, <3>4, <3>5, <3>6, <3>7, <1>s, <1>i DEF OneTaskWorks, Works
    <3>9. AdmittedOnceAsReviewed'
      BY <3>1, <3>2, ReviewKept DEF Inv
    <3> QED BY <3>2, <3>3, <3>8, <3>9
            DEF Inv, ApprovalWithdrawn, CandidateCurrent, CandidateStored, ApprovalIsBacked
  <2> QED BY <2>1, <2>2
<1>3. CASE GenerateFails(t)
  <2>1. PICK f \in {source_graph_dsl_preflight(session.original), {"execution"}} :
           f # {} /\ SaveResult(t, Validation(f, NoCandidate, FALSE), FALSE)
    BY <1>3 DEF GenerateFails
  <2> DEFINE v == Validation(f, NoCandidate, FALSE)
  <2>2. v.failures = f /\ v \in ValidationSet
    BY ResultTypes DEF Validation
  <2>3. ~ Pass(v) /\ ~ (v.failures \subseteq {"check", "answer"})
    BY <2>1, <2>2, PreflightKinds DEF Pass
  <2>4. task[t].pc = "generate" /\ Leave(t) /\ UNCHANGED problems /\ SaveResult(t, v, FALSE)
    BY <1>3, <2>1 DEF GenerateFails
  <2> HIDE DEF v
  <2> QED BY <2>2, <2>3, <2>4, ResultStep
<1>4. CASE Checkpoint(t)
  <2>1. CASE ~ (Fenced(t) /\ session.status = "generating")
    <3>1. UNCHANGED <<session, problems>> /\ Leave(t)
      BY <1>4, <2>1 DEF Checkpoint
    <3> QED BY <3>1, QuietStep, TasksGiveUp DEF Reserved
  <2>2. CASE Fenced(t) /\ session.status = "generating"
    <3>1. PICK shape \in GeneratedShapes :
             LET c == [of |-> session.original, written |-> task[t].revision, shape |-> shape]
             IN  /\ session' = [session EXCEPT !.status = "validating", !.candidate = c]
                 /\ Continue(t, [task[t] EXCEPT !.pc = "validate", !.candidate = c])
      BY <1>4, <2>2 DEF Checkpoint
    <3> DEFINE c == [of |-> session.original, written |-> task[t].revision, shape |-> shape]
               next == [task[t] EXCEPT !.pc = "validate", !.candidate = c]
    <3>2. /\ session' = [session EXCEPT !.status = "validating", !.candidate = c]
          /\ Continue(t, next) /\ UNCHANGED problems
      BY <1>4, <3>1 DEF Checkpoint
    <3>3. Works(t) /\ task[t].pc = "generate" /\ Live
      BY <1>4, <2>2 DEF Checkpoint, Fenced, Works
    <3>4. session.original \in Sources
      BY <3>3 DEF Live, Typed, GoodSession
    <3>5. /\ c.of = session.original /\ c.written = session.revision /\ c # NoCandidate
          /\ c \in Candidates
      BY <3>3, <3>4, <1>s DEF Works, NoCandidate, Candidates, GeneratedShapes
    <3>6. session.candidate = NoCandidate /\ \A u \in Tasks : Works(u) => u = t
      BY <3>3 DEF Inv, OneTaskWorks
    <3> HIDE DEF c
    <3>7. /\ session'.status = "validating" /\ session'.revision = session.revision
          /\ session'.original = session.original /\ session'.candidate = c
          /\ session'.validatedRevision = session.validatedRevision
          /\ session'.attestation = session.attestation
          /\ session'.submitted = session.submitted
      BY <3>2, <1>s DEF SessionSet
    <3>8. /\ next \in TaskLocals /\ next.pc = "validate" /\ next.candidate = c
          /\ next.revision = session.revision
      BY <3>3, <3>5, <1>t DEF TaskLocals, Works
    <3> HIDE DEF next
    <3>9. /\ \A u \in Tasks \ {t} : task'[u] = task[u]
          /\ task'[t] \in {next, IdleTask}
      BY <3>2, <3>8, TaskGoesOn
    <3>10. \A u \in Tasks : Works(u)' => u = t
      BY <3>6, <3>7, <3>9 DEF Works
    <3>11. \A u \in Tasks : task'[u].revision <= session'.revision
      BY <3>7, <3>8, <3>9, <1>s, <1>i DEF Inv, OneTaskWorks
    <3>12. OneTaskWorks'
      BY <3>5, <3>7, <3>8, <3>9, <3>10, <3>11, <1>i DEF OneTaskWorks, Works
    <3>13. AdmittedOnceAsReviewed'
      BY <3>2, <3>3, <3>7, ReviewKept DEF Inv, Live
    <3>14. session.status # "ready"
      BY <2>2
    <3> QED BY <3>5, <3>7, <3>12, <3>13, <3>14
            DEF Inv, ApprovalWithdrawn, CandidateCurrent, CandidateStored, ApprovalIsBacked
  <2> QED BY <2>1, <2>2
<1>5. CASE Validate(t)
  <2>1. PICK v \in Validations(session.original, task[t].candidate) : SaveResult(t, v, TRUE)
    BY <1>5 DEF Validate
  <2>2. v \in ValidationSet
    <3>1. task[t].candidate \in Candidates
      BY <1>t DEF TaskLocals
    <3> QED BY <3>1, ResultTypes
  <2>3. Pass(v) => v = Validation({}, task[t].candidate, TRUE)
    BY ValidationVerdict
  <2>4. task[t].pc = "validate" /\ Leave(t) /\ UNCHANGED problems
    BY <1>5 DEF Validate
  <2> QED BY <2>1, <2>2, <2>3, <2>4, ResultStep
<1>6. CASE TaskStops(t) \/ TaskFails(t)
  <2>1. UNCHANGED <<session, problems>> /\ Leave(t)
    BY <1>6 DEF TaskStops, TaskFails
  <2> QED BY <2>1, QuietStep, TasksGiveUp DEF Reserved
<1> QED BY <1>1, <1>2, <1>3, <1>4, <1>5, <1>6 DEF Work

LEMMA SubmissionStep ==
  ASSUME Typed, Typed', Inv, NEW r \in Submits, Submission(r) \/ AdmissionFails(r)
  PROVE  Inv'
<1> USE DEF requests
<1>s. session \in SessionSet /\ session.submitted \in BOOLEAN
  BY DEF Typed, GoodSession, SessionSet
<1>1. CASE AdmissionFails(r)
  BY <1>1, QuietStep, TasksGiveUp DEF AdmissionFails, Reserved
<1>2. CASE release_problem_variant_submit_reservation(r)
  <2>1. UNCHANGED <<problems, task>> /\ session' \in {session, Unreserved(session)}
    BY <1>2 DEF release_problem_variant_submit_reservation
  <2>2. /\ session'.status = session.status /\ session'.revision = session.revision
        /\ session'.original = session.original /\ session'.candidate = session.candidate
        /\ session'.validation = session.validation
        /\ session'.validatedRevision = session.validatedRevision
        /\ session'.attestation = session.attestation
        /\ session'.submitted = session.submitted
        /\ Reserved' => Reserved
    BY <2>1, <1>s, ZenonT(40) DEF Unreserved, SessionSet, Reserved
  <2> QED BY <2>1, <2>2, QuietStep, TasksGiveUp
<1>3. CASE admit_variant_problem(r)
  <2> DEFINE p == [id |-> r, content |-> session.candidate, reviewed |-> submit[r].seen]
  <2>1. CASE UNCHANGED <<problems, session>>
    <3>1. UNCHANGED task
      BY <1>3 DEF admit_variant_problem
    <3> QED BY <2>1, <3>1, QuietStep, TasksGiveUp DEF Reserved
  <2>2. CASE ~ UNCHANGED <<problems, session>>
    <3>1. /\ Held(r) /\ Admissible(session, session.revision)
          /\ problems' = problems \union {p} /\ session' = Submitted(session)
          /\ UNCHANGED task
      BY <1>3, <2>2 DEF admit_variant_problem
    <3>2. /\ session'.status = session.status /\ session'.revision = session.revision
          /\ session'.original = session.original /\ session'.candidate = session.candidate
          /\ session'.validation = session.validation
          /\ session'.validatedRevision = session.validatedRevision
          /\ session'.attestation = session.attestation
          /\ session'.submitted = TRUE /\ ~ Reserved'
      BY <3>1, <1>s DEF Submitted, Unreserved, SessionSet, Reserved
    <3>3. /\ Live /\ submit[r].seen = session.revision
          /\ session.candidate # NoCandidate
      BY <3>1 DEF Held, Current, Admissible
    <3>4. problems' = {p}
      BY <3>1, <3>3 DEF Live, Inv, AdmittedOnceAsReviewed
    <3>5. Cardinality(problems') = 1
      <4> HIDE DEF p
      <4> QED BY <3>4, FS_Singleton
    <3>6. p.content = session'.candidate /\ p.content.written = p.reviewed
      BY <3>2, <3>3 DEF Inv, CandidateCurrent
    <3> HIDE DEF p
    <3>7. AdmittedOnceAsReviewed'
      BY <3>2, <3>4, <3>5, <3>6 DEF AdmittedOnceAsReviewed
    <3>8. OneTaskWorks'
      BY <3>1, <3>2, FenceKept, TasksGiveUp DEF Inv
    <3> QED BY <3>2, <3>7, <3>8
            DEF Inv, ApprovalWithdrawn, CandidateCurrent, CandidateStored, ApprovalIsBacked
  <2> QED BY <2>1, <2>2
<1> QED BY <1>1, <1>2, <1>3 DEF Submission

LEMMA InvStep == Typed /\ Inv /\ [Next]_vars => Inv'
<1> SUFFICES ASSUME Typed, Inv, [Next]_vars PROVE Inv'
  OBVIOUS
<1> USE DEF requests
<1>t. Typed'
  BY TypeStep
<1>s. session \in SessionSet
  BY DEF Typed, GoodSession
<1>0. CASE UNCHANGED vars \/ SourceChanges
  <2>1. UNCHANGED <<session, problems, task>>
    BY <1>0 DEF vars, SourceChanges
  <2> QED BY <1>t, <2>1, QuietStep, TasksGiveUp DEF Reserved
<1>1. ASSUME NEW seen \in 0 .. session.revision, Review(seen) PROVE Inv'
  BY <1>t, <1>1, ReviewStep
<1>2. ASSUME NEW r \in Starters, create_problem_variant(r) PROVE Inv'
  <2>1. PICK o \in Sources : session = Absent /\ session' = NewSession(o)
    BY <1>2 DEF create_problem_variant
  <2>2. /\ session.status = "none" /\ session'.status = "queued"
        /\ session'.revision = session.revision /\ session'.candidate = NoCandidate
        /\ session.candidate = NoCandidate
        /\ session'.validatedRevision = NoRevision /\ session'.attestation = NoRevision
        /\ session'.submitted = session.submitted /\ ~ Reserved'
    BY <2>1 DEF Absent, NewSession, Reserved
  <2>3. UNCHANGED <<problems, task>>
    BY <1>2 DEF create_problem_variant
  <2>4. OneTaskWorks'
    BY <1>t, <2>2, <2>3, FenceKept, TasksGiveUp DEF Inv
  <2>5. AdmittedOnceAsReviewed'
    BY <2>2, <2>3, ReviewKept DEF Inv
  <2> QED BY <2>2, <2>4, <2>5
          DEF Inv, ApprovalWithdrawn, CandidateCurrent, CandidateStored, ApprovalIsBacked
<1>3. ASSUME NEW r \in Starters, start_problem_variant_generation(r) PROVE Inv'
  <2>1. UNCHANGED <<session, problems>> /\ ClaimsKept
    BY <1>3, TasksGiveUp DEF start_problem_variant_generation
  <2> QED BY <1>t, <2>1, QuietStep DEF Reserved
<1>4. ASSUME NEW r \in Submits, Submission(r) \/ AdmissionFails(r) PROVE Inv'
  BY <1>t, <1>4, SubmissionStep
<1>5. ASSUME NEW t \in Tasks, Work(t) \/ TaskFails(t) PROVE Inv'
  BY <1>t, <1>5, WorkStep
<1>6. CASE ReservationExpires
  <2>1. session' = [session EXCEPT !.reservation = "expired"] /\ UNCHANGED <<problems, task>>
    BY <1>6 DEF ReservationExpires
  <2>2. /\ session'.status = session.status /\ session'.revision = session.revision
        /\ session'.original = session.original /\ session'.candidate = session.candidate
        /\ session'.validation = session.validation
        /\ session'.validatedRevision = session.validatedRevision
        /\ session'.attestation = session.attestation
        /\ session'.submitted = session.submitted
        /\ ~ Reserved'
    BY <2>1, <1>s DEF SessionSet, Reserved
  <2> QED BY <1>t, <2>1, <2>2, QuietStep, TasksGiveUp
<1>7. CASE ProcessDies
  <2>1. UNCHANGED <<session, problems>> /\ ClaimsKept
    BY <1>7, TasksGiveUp DEF ProcessDies
  <2> QED BY <1>t, <2>1, QuietStep DEF Reserved
<1> QED BY <1>0, <1>1, <1>2, <1>3, <1>4, <1>5, <1>6, <1>7 DEF Next

LEMMA InvCorrect == Spec => [](Typed /\ Inv)
  BY TypeInit, TypeStep, InvInit, InvStep, PTL DEF Spec

\* Whatever was cancelled, replaced or answered late, a ready session is approved
\* as it stands (save_problem_variant_result, attest_problem_variant_validation).
THEOREM ApprovalsAreBacked == Spec => []ApprovalIsBacked
<1>1. Inv => ApprovalIsBacked
  BY DEF Inv
<1> QED BY <1>1, InvCorrect, PTL

\* A session is submitted once, and its problem is the candidate its submitter
\* reviewed (submit_problem_variant).
THEOREM AdmissionsAreReviewed == Spec => []AdmittedOnceAsReviewed
<1>1. Inv => AdmittedOnceAsReviewed
  BY DEF Inv
<1> QED BY <1>1, InvCorrect, PTL

-----------------------------------------------------------------------------
(* What a step may do *)

\* Who gives a live reservation up, and how its candidate may change.
LEMMA ReservationStep ==
  ASSUME Typed, Inv, [Next]_vars, Reserved
  PROVE  /\ session'.holder # session.holder =>
               submit'[session.holder] # submit[session.holder]
         /\ session'.candidate # session.candidate =>
               session'.status = "needs-validation"
<1> USE DEF requests
<1> DEFINE Kept == session'.holder = session.holder /\ session'.candidate = session.candidate
<1>s. session \in SessionSet
  BY DEF Typed, GoodSession
<1>c. session.candidate # NoCandidate
  BY DEF Inv, CandidateStored
<1>0. CASE UNCHANGED vars \/ SourceChanges \/ ProcessDies
  BY <1>0 DEF vars, SourceChanges, ProcessDies
<1>1. ASSUME NEW seen \in 0 .. session.revision, Review(seen)
      PROVE  /\ session'.holder = session.holder
             /\ session'.candidate # session.candidate => session'.status = "needs-validation"
  <2>1. CASE edit_problem_variant_candidate(seen)
    BY <2>1, <1>s DEF edit_problem_variant_candidate, Invalidated, Unapproved, SessionSet
  <2>2. CASE attest_problem_variant_validation(seen)
    BY <2>2, <1>s DEF attest_problem_variant_validation, SessionSet
  <2>3. CASE discard_problem_variant(seen)
    BY <2>3, <1>s DEF discard_problem_variant, Discarded, SessionSet
  <2>4. ASSUME NEW r \in Starters, request_problem_variant_revalidation(r, seen)
        PROVE  Kept
    BY <2>4, <1>s DEF request_problem_variant_revalidation, Unapproved, SessionSet
  <2>5. /\ \A r \in Starters : ~ request_problem_variant_generation(r, seen)
        /\ \A r \in Submits : ~ reserve_problem_variant_for_submit(r, seen)
    BY DEF request_problem_variant_generation, Blocked, reserve_problem_variant_for_submit
  <2> QED BY <1>1, <2>1, <2>2, <2>3, <2>4, <2>5 DEF Review
<1>2. ASSUME NEW r \in Starters, create_problem_variant(r) \/ start_problem_variant_generation(r)
      PROVE  Kept
  BY <1>2 DEF create_problem_variant, start_problem_variant_generation, Absent, Reserved
<1>3. ASSUME NEW r \in Submits, Submission(r) \/ AdmissionFails(r)
      PROVE  /\ session'.candidate = session.candidate
             /\ session'.holder # session.holder => submit'[session.holder] # submit[session.holder]
  <2>1. submit \in [Submits -> [pc : {"idle", "admit", "release"}, seen : Revisions]]
    BY DEF Typed
  <2>2. CASE admit_variant_problem(r)
    <3>1. CASE session' = session
      BY <3>1
    <3>2. CASE session' # session
      <4>1. /\ Held(r) /\ session' = Submitted(session) /\ submit[r].pc = "admit"
            /\ submit' = [submit EXCEPT ![r] = IdleSubmit]
        BY <2>2, <3>2 DEF admit_variant_problem
      <4>2. submit'[r] # submit[r] /\ session.holder = r
        BY <2>1, <4>1 DEF IdleSubmit, Held
      <4> QED BY <4>1, <4>2, <1>s DEF Submitted, Unreserved, SessionSet
    <3> QED BY <3>1, <3>2
  <2>3. CASE release_problem_variant_submit_reservation(r)
    <3>1. submit'[r] # submit[r]
      BY <2>1, <2>3 DEF release_problem_variant_submit_reservation, IdleSubmit
    <3>2. \/ session' = session
          \/ session.holder = r /\ session' = Unreserved(session)
      BY <2>3 DEF release_problem_variant_submit_reservation
    <3> QED BY <3>1, <3>2, <1>s DEF Unreserved, SessionSet
  <2>4. CASE AdmissionFails(r)
    BY <2>4 DEF AdmissionFails
  <2> QED BY <1>3, <2>2, <2>3, <2>4 DEF Submission
<1>4. ASSUME NEW t \in Tasks, Work(t) \/ TaskFails(t) PROVE Kept
  <2>1. \A v, present : SaveResult(t, v, present) => Kept
    BY <1>s DEF SaveResult, SessionSet
  <2>2. CASE ReadSession(t) \/ TaskStops(t) \/ TaskFails(t)
    BY <2>2 DEF ReadSession, TaskStops, TaskFails
  <2>3. CASE claim_problem_variant_generation(t)
    BY <2>3, <1>s DEF claim_problem_variant_generation, SessionSet
  <2>4. CASE GenerateFails(t) \/ Validate(t)
    <3>1. PICK v, present : SaveResult(t, v, present)
      BY <2>4 DEF GenerateFails, Validate
    <3> QED BY <2>1, <3>1
  <2>5. CASE Checkpoint(t)
    <3>1. ~ Works(t)
      BY <2>5, <1>c DEF Checkpoint, Inv, OneTaskWorks
    <3> QED BY <2>5, <3>1 DEF Checkpoint, Fenced, Works
  <2> QED BY <1>4, <2>2, <2>3, <2>4, <2>5 DEF Work
<1>5. CASE ReservationExpires
  BY <1>5, <1>s DEF ReservationExpires, SessionSet
<1> QED BY <1>0, <1>1, <1>2, <1>3, <1>4, <1>5 DEF Next

\* Within a revision only a session without a candidate gets one: the generator is
\* only run for such a session, and its checkpoint lands at that revision only.
LEMMA CandidateStep ==
  ASSUME Typed, Inv, [Next]_vars
  PROVE  \/ session.candidate \in {NoCandidate, session'.candidate}
         \/ session'.revision > session.revision
<1> USE DEF requests
<1> DEFINE Kept == session'.candidate = session.candidate
           Moved == session'.revision > session.revision
<1>s. session \in SessionSet /\ session.revision \in Nat
  BY DEF Typed, GoodSession, SessionSet, Revisions
<1>0. CASE UNCHANGED vars \/ SourceChanges \/ ProcessDies
  BY <1>0 DEF vars, SourceChanges, ProcessDies
<1>1. ASSUME NEW seen \in 0 .. session.revision, Review(seen) PROVE Kept \/ Moved
  <2>1. CASE edit_problem_variant_candidate(seen)
    BY <2>1, <1>s DEF edit_problem_variant_candidate, Invalidated, Unapproved, SessionSet
  <2>2. CASE attest_problem_variant_validation(seen)
    BY <2>2, <1>s DEF attest_problem_variant_validation, SessionSet
  <2>3. CASE discard_problem_variant(seen)
    BY <2>3, <1>s DEF discard_problem_variant, Discarded, SessionSet
  <2>4. ASSUME NEW r \in Starters, request_problem_variant_revalidation(r, seen) PROVE Kept
    BY <2>4, <1>s DEF request_problem_variant_revalidation, Unapproved, SessionSet
  <2>5. ASSUME NEW r \in Starters, request_problem_variant_generation(r, seen) PROVE Moved
    BY <2>5, <1>s
    DEF request_problem_variant_generation, Regenerated, Unreserved, Unapproved, SessionSet
  <2>6. ASSUME NEW r \in Submits, reserve_problem_variant_for_submit(r, seen) PROVE Kept
    BY <2>6, <1>s DEF reserve_problem_variant_for_submit, SessionSet
  <2> QED BY <1>1, <2>1, <2>2, <2>3, <2>4, <2>5, <2>6 DEF Review
<1>2. ASSUME NEW r \in Starters, create_problem_variant(r) \/ start_problem_variant_generation(r)
      PROVE  Kept
  <2>1. CASE create_problem_variant(r)
    <3>1. PICK original : session = Absent /\ session' = NewSession(original)
      BY <2>1 DEF create_problem_variant
    <3>2. NewSession(original).candidate = Absent.candidate
      BY DEF NewSession, Absent
    <3> QED BY <3>1, <3>2
  <2>2. CASE start_problem_variant_generation(r)
    BY <2>2 DEF start_problem_variant_generation
  <2> QED BY <1>2, <2>1, <2>2
<1>3. ASSUME NEW r \in Submits, Submission(r) \/ AdmissionFails(r) PROVE Kept
  BY <1>3, <1>s
  DEF Submission, AdmissionFails, admit_variant_problem, release_problem_variant_submit_reservation,
      Submitted, Unreserved, SessionSet
<1>4. ASSUME NEW t \in Tasks, Work(t) \/ TaskFails(t)
      PROVE  session.candidate \in {NoCandidate, session'.candidate}
  <2>1. \A v, present : SaveResult(t, v, present) => Kept
    BY <1>s DEF SaveResult, SessionSet
  <2>2. CASE ReadSession(t) \/ TaskStops(t) \/ TaskFails(t)
    BY <2>2 DEF ReadSession, TaskStops, TaskFails
  <2>3. CASE claim_problem_variant_generation(t)
    BY <2>3, <1>s DEF claim_problem_variant_generation, SessionSet
  <2>4. CASE GenerateFails(t) \/ Validate(t)
    <3>1. PICK v, present : SaveResult(t, v, present)
      BY <2>4 DEF GenerateFails, Validate
    <3> QED BY <2>1, <3>1
  <2>5. CASE Checkpoint(t)
    <3>1. CASE Works(t)
      BY <2>5, <3>1 DEF Checkpoint, Inv, OneTaskWorks
    <3>2. CASE ~ Works(t)
      BY <2>5, <3>2 DEF Checkpoint, Fenced, Works
    <3> QED BY <3>1, <3>2
  <2> QED BY <1>4, <2>2, <2>3, <2>4, <2>5 DEF Work
<1>5. CASE ReservationExpires
  BY <1>5, <1>s DEF ReservationExpires, SessionSet
<1> QED BY <1>0, <1>1, <1>2, <1>3, <1>4, <1>5 DEF Next

\* No task and no other request takes a live reservation or replaces the
\* candidate under submission; only an edit does.
THEOREM ReservationsProtect == Spec => ReservationProtects
<1>1. Typed /\ Inv /\ [Next]_vars =>
        [Reserved =>
          /\ session'.holder # session.holder =>
                submit'[session.holder] # submit[session.holder]
          /\ session'.candidate # session.candidate =>
                session'.status = "needs-validation"]_vars
  BY ReservationStep
<1> QED BY <1>1, InvCorrect, PTL DEF Spec, ReservationProtects

\* A stored candidate is validated, never generated again, within its revision.
THEOREM CandidatesAreKept == Spec => CandidateKept
<1>1. Typed /\ Inv /\ [Next]_vars =>
        [\/ session.candidate \in {NoCandidate, session'.candidate}
         \/ session'.revision > session.revision]_vars
  BY CandidateStep
<1> QED BY <1>1, InvCorrect, PTL DEF Spec, CandidateKept

-----------------------------------------------------------------------------
(* The session implements ReviewedVariant *)

Approved == IF session.status = "ready" THEN session.candidate ELSE NoCandidate
Published == {[id |-> p.id, content |-> p.content] : p \in problems}

\* The actions of ReviewedVariant under the refinement mapping.
LEMMA MappedActions ==
  ASSUME Typed, Inv
  PROVE  /\ /\ UNCHANGED <<problems, session>> => UNCHANGED Reviewed!vars
         /\ /\ UNCHANGED problems
            /\ session'.candidate = session.candidate /\ Approved' = Approved
            /\ session'.discarded = session.discarded
            => UNCHANGED Reviewed!vars
         /\ /\ Live /\ UNCHANGED problems
            /\ session'.candidate \in Candidates /\ Approved' = NoCandidate
            /\ session'.discarded = session.discarded
            => Reviewed!Change
         /\ /\ Live /\ UNCHANGED problems
            /\ session.candidate # NoCandidate
            /\ session'.candidate = session.candidate /\ Approved' = session.candidate
            /\ session'.discarded = session.discarded
            => Reviewed!Approve
         /\ /\ Live /\ UNCHANGED problems
            /\ session'.candidate = session.candidate /\ Approved' = Approved
            /\ session'.discarded = TRUE
            => Reviewed!Discard
<1>1. Live => problems = {} /\ Published = {} /\ ~ session.discarded
  BY DEF Live, Inv, AdmittedOnceAsReviewed, Published
<1>2. UNCHANGED problems => Published' = Published
  BY DEF Published
<1>3. /\ Reviewed!vars = <<session.candidate, Approved, Published, session.discarded>>
      /\ Reviewed!vars' = <<session'.candidate, Approved', Published', session'.discarded>>
  BY DEF Reviewed!vars, Approved, Published
<1>4. UNCHANGED <<problems, session>> => UNCHANGED Reviewed!vars
  BY <1>2, <1>3 DEF Approved
<1>5. /\ UNCHANGED problems
      /\ session'.candidate = session.candidate /\ Approved' = Approved
      /\ session'.discarded = session.discarded
      => UNCHANGED Reviewed!vars
  BY <1>2, <1>3
<1>6. /\ Live /\ UNCHANGED problems
      /\ session'.candidate \in Candidates /\ Approved' = NoCandidate
      /\ session'.discarded = session.discarded
      => Reviewed!Change
  BY <1>1, <1>2 DEF Reviewed!Change, Reviewed!Open, Approved, Published
<1>7. /\ Live /\ UNCHANGED problems
      /\ session.candidate # NoCandidate
      /\ session'.candidate = session.candidate /\ Approved' = session.candidate
      /\ session'.discarded = session.discarded
      => Reviewed!Approve
  BY <1>1, <1>2 DEF Reviewed!Approve, Reviewed!Open, Approved, Published
<1>8. /\ Live /\ UNCHANGED problems
      /\ session'.candidate = session.candidate /\ Approved' = Approved
      /\ session'.discarded = TRUE
      => Reviewed!Discard
  BY <1>1, <1>2 DEF Reviewed!Discard, Reviewed!Open, Approved, Published
<1> QED BY <1>4, <1>5, <1>6, <1>7, <1>8

\* Every step of the session is a step of the review, or none.
LEMMA StepIsReview ==
  ASSUME Typed, Typed', Inv, Inv', [Next]_vars
  PROVE  [Reviewed!Next]_(Reviewed!vars)
<1> USE DEF requests
<1> DEFINE Goal == Reviewed!Next \/ UNCHANGED Reviewed!vars
<1>s. /\ session \in SessionSet /\ session.candidate \in Candidates
      /\ session'.candidate \in Candidates
  BY DEF Typed, GoodSession, SessionSet
<1>a. /\ session.status # "ready" => Approved = NoCandidate
      /\ session'.status # "ready" => Approved' = NoCandidate
      /\ session'.status = session.status /\ session'.candidate = session.candidate
            => Approved' = Approved
      /\ session'.status = "ready" => Approved' = session'.candidate
  BY DEF Approved
<1>n. Reviewed!Change \/ Reviewed!Approve \/ Reviewed!Publish \/ Reviewed!Discard => Goal
  BY DEF Reviewed!Next
<1>0. CASE UNCHANGED vars \/ SourceChanges \/ ProcessDies
  <2>1. UNCHANGED <<problems, session>>
    BY <1>0 DEF vars, SourceChanges, ProcessDies
  <2> QED BY <2>1, MappedActions
<1>1. ASSUME NEW seen \in 0 .. session.revision, Review(seen) PROVE Goal
  <2>1. CASE edit_problem_variant_candidate(seen)
    <3>1. /\ Live /\ UNCHANGED problems /\ session'.status = "needs-validation"
          /\ session'.discarded = session.discarded
      BY <2>1, <1>s
      DEF edit_problem_variant_candidate, Current, Invalidated, Unapproved, SessionSet
    <3> QED BY <3>1, <1>s, <1>a, <1>n, MappedActions
  <2>2. CASE attest_problem_variant_validation(seen)
    <3>1. /\ Live /\ UNCHANGED problems /\ session'.status = "ready"
          /\ session'.candidate = session.candidate
          /\ session'.discarded = session.discarded
      BY <2>2, <1>s DEF attest_problem_variant_validation, Current, SessionSet
    <3>2. session.candidate # NoCandidate
      BY <2>2, AttestableKinds DEF attest_problem_variant_validation, Inv, CandidateStored
    <3> QED BY <3>1, <3>2, <1>a, <1>n, MappedActions
  <2>3. CASE discard_problem_variant(seen)
    <3>1. /\ Live /\ UNCHANGED problems /\ session'.status = session.status
          /\ session'.candidate = session.candidate /\ session'.discarded = TRUE
      BY <2>3, <1>s DEF discard_problem_variant, Current, Discarded, SessionSet
    <3> QED BY <3>1, <1>a, <1>n, MappedActions
  <2>4. ASSUME NEW r \in Starters, request_problem_variant_generation(r, seen) PROVE Goal
    <3>1. /\ Live /\ UNCHANGED problems /\ session'.status = "queued"
          /\ session'.discarded = session.discarded
      BY <2>4, <1>s
      DEF request_problem_variant_generation, Current, Regenerated, Unapproved, Unreserved, SessionSet
    <3> QED BY <3>1, <1>s, <1>a, <1>n, MappedActions
  <2>5. ASSUME NEW r \in Starters, request_problem_variant_revalidation(r, seen) PROVE Goal
    <3>1. /\ Live /\ UNCHANGED problems /\ session'.status = "queued"
          /\ session'.discarded = session.discarded
      BY <2>5, <1>s DEF request_problem_variant_revalidation, Current, Unapproved, SessionSet
    <3> QED BY <3>1, <1>s, <1>a, <1>n, MappedActions
  <2>6. ASSUME NEW r \in Submits, reserve_problem_variant_for_submit(r, seen) PROVE Goal
    <3>1. /\ UNCHANGED problems /\ session'.status = session.status
          /\ session'.candidate = session.candidate /\ session'.discarded = session.discarded
      BY <2>6, <1>s DEF reserve_problem_variant_for_submit, SessionSet
    <3> QED BY <3>1, <1>a, MappedActions
  <2> QED BY <1>1, <2>1, <2>2, <2>3, <2>4, <2>5, <2>6 DEF Review
<1>2. ASSUME NEW r \in Starters, create_problem_variant(r) PROVE Goal
  <2>1. /\ UNCHANGED problems /\ session'.status # "ready" /\ session.status # "ready"
        /\ session'.candidate = session.candidate /\ session'.discarded = session.discarded
    BY <1>2 DEF create_problem_variant, NewSession, Absent
  <2> QED BY <2>1, <1>a, MappedActions
<1>3. ASSUME NEW r \in Starters, start_problem_variant_generation(r) PROVE Goal
  BY <1>3, MappedActions DEF start_problem_variant_generation
<1>4. ASSUME NEW r \in Submits, Submission(r) \/ AdmissionFails(r) PROVE Goal
  <2>1. CASE admit_variant_problem(r)
    <3>1. CASE UNCHANGED <<problems, session>>
      BY <3>1, MappedActions
    <3>2. CASE ~ UNCHANGED <<problems, session>>
      <4> DEFINE p == [id |-> r, content |-> session.candidate, reviewed |-> submit[r].seen]
      <4>1. /\ Held(r) /\ Admissible(session, session.revision)
            /\ problems' = problems \union {p} /\ session' = Submitted(session)
        BY <2>1, <3>2 DEF admit_variant_problem
      <4>2. /\ session'.status = session.status /\ session.status = "ready"
            /\ session'.candidate = session.candidate /\ session.candidate # NoCandidate
            /\ session'.discarded = session.discarded
        BY <4>1, <1>s DEF Submitted, Unreserved, SessionSet, Admissible
      <4>3. Live /\ ~ session.discarded
        BY <4>1 DEF Held, Current, Live
      <4>4. problems = {}
        BY <4>3 DEF Live, Inv, AdmittedOnceAsReviewed
      <4>5. Published = {} /\ Published' = {[id |-> r, content |-> session.candidate]}
        BY <4>1, <4>4 DEF Published
      <4>6. Approved = session.candidate /\ Approved' = Approved
        BY <4>2 DEF Approved
      <4> HIDE DEF p
      <4>7. Reviewed!Publish
        BY <4>2, <4>3, <4>5, <4>6 DEF Reviewed!Publish, Reviewed!Open, Approved, Published
      <4> QED BY <4>7, <1>n
    <3> QED BY <3>1, <3>2
  <2>2. CASE release_problem_variant_submit_reservation(r)
    <3>1. /\ UNCHANGED problems /\ session'.status = session.status
          /\ session'.candidate = session.candidate /\ session'.discarded = session.discarded
      BY <2>2, <1>s DEF release_problem_variant_submit_reservation, Unreserved, SessionSet
    <3> QED BY <3>1, <1>a, MappedActions
  <2>3. CASE AdmissionFails(r)
    BY <2>3, MappedActions DEF AdmissionFails
  <2> QED BY <1>4, <2>1, <2>2, <2>3 DEF Submission
<1>5. ASSUME NEW t \in Tasks, Work(t) \/ TaskFails(t) PROVE Goal
  <2>1. ASSUME NEW v, NEW present, SaveResult(t, v, present), UNCHANGED problems PROVE Goal
    <3>1. CASE session' = session
      BY <2>1, <3>1, MappedActions
    <3>2. CASE session' # session
      <4>1. /\ Live /\ session.status # "ready"
            /\ session'.candidate = session.candidate /\ session'.discarded = session.discarded
        BY <2>1, <3>2, <1>s DEF SaveResult, Fenced, SessionSet
      <4>2. CASE session'.status # "ready"
        BY <2>1, <4>1, <4>2, <1>a, MappedActions
      <4>3. CASE session'.status = "ready"
        <5>1. session'.candidate # NoCandidate
          <6>1. /\ session'.candidate.of = session'.original
                /\ session'.original \in Sources
            BY <4>3 DEF Inv, ApprovalIsBacked, Typed, GoodSession
          <6> QED BY <6>1 DEF NoCandidate
        <5> QED BY <2>1, <4>1, <4>3, <5>1, <1>a, <1>n, MappedActions
      <4> QED BY <4>2, <4>3
    <3> QED BY <3>1, <3>2
  <2>2. CASE ReadSession(t) \/ TaskStops(t) \/ TaskFails(t)
    <3>1. UNCHANGED <<problems, session>>
      BY <2>2 DEF ReadSession, TaskStops, TaskFails
    <3> QED BY <3>1, MappedActions
  <2>3. CASE claim_problem_variant_generation(t)
    <3>1. CASE session' = session
      BY <2>3, <3>1, MappedActions DEF claim_problem_variant_generation
    <3>2. CASE session' # session
      <4>1. /\ UNCHANGED problems /\ session'.status # "ready" /\ session.status # "ready"
            /\ session'.candidate = session.candidate /\ session'.discarded = session.discarded
        BY <2>3, <3>2, <1>s DEF claim_problem_variant_generation, Claimable, SessionSet
      <4> QED BY <4>1, <1>a, MappedActions
    <3> QED BY <3>1, <3>2
  <2>4. CASE GenerateFails(t) \/ Validate(t)
    <3>1. PICK v, present : SaveResult(t, v, present)
      BY <2>4 DEF GenerateFails, Validate
    <3>2. UNCHANGED problems
      BY <2>4 DEF GenerateFails, Validate
    <3> QED BY <2>1, <3>1, <3>2
  <2>5. CASE Checkpoint(t)
    <3>1. CASE session' = session
      BY <2>5, <3>1, MappedActions DEF Checkpoint
    <3>2. CASE session' # session
      <4>1. /\ Live /\ UNCHANGED problems /\ session'.status # "ready"
            /\ session'.discarded = session.discarded
        BY <2>5, <3>2, <1>s DEF Checkpoint, Fenced, SessionSet
      <4> QED BY <4>1, <1>s, <1>a, <1>n, MappedActions
    <3> QED BY <3>1, <3>2
  <2> QED BY <1>5, <2>2, <2>3, <2>4, <2>5 DEF Work
<1>6. CASE ReservationExpires
  <2>1. /\ UNCHANGED problems /\ session'.status = session.status
        /\ session'.candidate = session.candidate /\ session'.discarded = session.discarded
    BY <1>6, <1>s DEF ReservationExpires, SessionSet
  <2> QED BY <2>1, <1>a, MappedActions
<1> QED BY <1>0, <1>1, <1>2, <1>3, <1>4, <1>5, <1>6 DEF Next

LEMMA ReviewInit == Init => Reviewed!Init
  BY DEF Init, Absent, Reviewed!Init

\* A session is a review: only a candidate that is approved as it stands becomes a
\* problem, once, and a submitted or discarded session does not change any more.
THEOREM SessionImplementsReview == Spec => ImplementsReview
<1>1. (Typed /\ Inv) /\ (Typed /\ Inv)' /\ [Next]_vars => [Reviewed!Next]_(Reviewed!vars)
  BY StepIsReview
<1> QED BY <1>1, ReviewInit, InvCorrect, PTL DEF Spec, ImplementsReview, Reviewed!Spec
=============================================================================

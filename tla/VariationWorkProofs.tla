-------------------------- MODULE VariationWorkProofs --------------------------
(* Theorems about VariationWork, for every value of its constants: any     *)
(* number of workers, undos, submissions and validators, any bounds.       *)
EXTENDS VariationWork, VariantAssessmentProofs

USE NobodyAssumption, BoundsAssumption, NoSourceAssumption, SourcesAssumption
USE DEF itemVars, problemVars, requests, Busy

-----------------------------------------------------------------------------
(* Type correctness *)

WorkerLocals == [pc : WorkerPcs, revision : Revisions, lost : BOOLEAN,
                 original : Sources \union {NoSource}, candidate : Candidates]
UndoLocals == [pc : {"idle", "write"}, previous : ItemStatus \union {"none"},
               variation : VariationSet]

\* A variation with a source once it is requested, a deadline for its claim, a
\* claim only while it is worked on, and an approval only while it is ready.
Good(v) ==
    /\ v \in VariationSet
    /\ v.status # "not-requested" <=> v.original # NoSource
    /\ v.holder = NoWorker <=> v.lease = "none"
    /\ v.holder # NoWorker => v.status \in {"generating", "validating"}
    /\ v.status # "ready" => v.validatedRevision = NoRevision /\ v.attestation = NoRevision

\* A worker that holds anything holds a confirmed source.
GoodWorkers(f) ==
    /\ f \in [Workers -> WorkerLocals]
    /\ \A w \in Workers : f[w].pc \notin {"idle", "dead"} => f[w].original # NoSource

\* What an undo would write is queued work, or nothing.
GoodUndos(f) ==
    /\ f \in [Undos -> UndoLocals]
    /\ \A r \in Undos : /\ Good(f[r].variation)
                        /\ f[r].variation # NotRequested => f[r].variation.status = "queued"

Typed ==
    /\ TypeOK
    /\ Good(variation)
    /\ GoodWorkers(worker)
    /\ GoodUndos(undo)
    /\ status = "deleted" => previousStatus \in {"extracting", "ready", "failed"}

\* The values the code starts from.
LEMMA InitialValues ==
  /\ 0 \in Revisions /\ NoRevision \notin Revisions
  /\ NoCandidate \in Candidates
  /\ NoValidation \in ValidationSet
  /\ Good(NotRequested)
  /\ IdleWorker \in WorkerLocals /\ IdleWorker.pc = "idle"
  /\ IdleUndo \in UndoLocals /\ IdleUndo.variation = NotRequested
<1>1. 0 \in Revisions /\ NoRevision \notin Revisions
  BY DEF Revisions, NoRevision
<1>2. NoCandidate \in Candidates
  BY DEF Candidates
<1>3. NoValidation \in ValidationSet
  BY <1>2 DEF NoValidation, Validation, ValidationSet
<1>4. Good(NotRequested)
  BY <1>1, <1>2, <1>3 DEF NotRequested, Good, VariationSet, VariationStatus
<1>5. IdleWorker \in WorkerLocals /\ IdleWorker.pc = "idle"
  BY <1>1, <1>2 DEF IdleWorker, WorkerLocals, WorkerPcs
<1>6. IdleUndo \in UndoLocals /\ IdleUndo.variation = NotRequested
  BY <1>4 DEF IdleUndo, UndoLocals, Good
<1> QED BY <1>1, <1>2, <1>3, <1>4, <1>5, <1>6

LEMMA TypeInit == Init => Typed
<1> SUFFICES ASSUME Init PROVE Typed
  OBVIOUS
<1>1. GoodUndos(undo) /\ GoodWorkers(worker) /\ Good(variation)
  BY InitialValues DEF Init, GoodUndos, GoodWorkers
<1>2. variation.original = NoSource /\ variation.status = "not-requested"
  BY DEF Init, NotRequested
<1> QED BY <1>1, <1>2, InitialValues
        DEF Init, Typed, TypeOK, GoodUndos, GoodWorkers, Good, UndoLocals, WorkerLocals, ItemStatus

\* The type invariant is kept when the parts of it that a step disturbs are.
LEMMA TypedParts ==
  ASSUME Good(variation'), GoodWorkers(worker'), GoodUndos(undo'),
         batch' \in {"active", "expired", "completed"},
         status' \in ItemStatus, previousStatus' \in ItemStatus \union {"none"},
         status' = "deleted" => previousStatus' \in {"extracting", "ready", "failed"},
         draft' \in Sources \union {NoSource}, revision' \in Revisions,
         \A p \in problems' : p.content \in Candidates,
         submit' \in [Submits -> {"idle", "admit", "complete"}],
         faults' \in 0 .. MaxFaults
  PROVE  Typed'
BY DEF Typed, TypeOK, Good, GoodWorkers, GoodUndos, WorkerLocals, UndoLocals

\* What the steps make of a variation.
LEMMA VariationUpdates ==
  ASSUME NEW v, Good(v)
  PROVE  /\ \A s \in Sources : Good([NotRequested EXCEPT !.status = "queued", !.original = s])
         /\ \A c \in Candidates : v.status \in {"ready", "needs-validation", "failed"} =>
               Good([Invalidated(v) EXCEPT !.candidate = c])
         /\ v.status = "needs-validation" =>
               Good([Unclaimed(Unapproved(v)) EXCEPT !.status = "queued",
                                                     !.validation = NoValidation])
         /\ \A s \in Revisions : v.status \in {"needs-validation", "failed"} =>
               Good([v EXCEPT !.status = "ready", !.attestation = s])
         /\ v.status \in VARIATION_IN_FLIGHT => Good(Requeued(v)) /\ Requeued(v).status = "queued"
         /\ \A w \in Workers, t \in {"generating", "validating"} :
               v.status \in VARIATION_IN_FLIGHT =>
                   Good([v EXCEPT !.status = t, !.holder = w, !.lease = "live"])
         /\ \A c \in Candidates : v.status = "generating" =>
               Good([v EXCEPT !.status = "validating", !.candidate = c])
         /\ v.lease = "live" => Good([v EXCEPT !.lease = "passed"])
<1>1. v \in VariationSet
  BY DEF Good
<1>2. \A x \in {"queued", "generating", "validating", "ready", "failed", "needs-validation"} :
         x \in VariationStatus
  BY DEF VariationStatus, VARIATION_IN_FLIGHT
<1>3. \A s \in Sources : Good([NotRequested EXCEPT !.status = "queued", !.original = s])
  BY <1>2, InitialValues DEF NotRequested, Good, VariationSet
<1>4. \A c \in Candidates : v.status \in {"ready", "needs-validation", "failed"} =>
         Good([Invalidated(v) EXCEPT !.candidate = c])
  BY <1>1, <1>2 DEF Invalidated, Unapproved, Good, VariationSet
<1>5. v.status = "needs-validation" =>
         Good([Unclaimed(Unapproved(v)) EXCEPT !.status = "queued", !.validation = NoValidation])
  BY <1>1, <1>2, InitialValues DEF Unclaimed, Unapproved, Good, VariationSet
<1>6. \A s \in Revisions : v.status \in {"needs-validation", "failed"} =>
         Good([v EXCEPT !.status = "ready", !.attestation = s])
  BY <1>1, <1>2 DEF Good, VariationSet
<1>7. v.status \in VARIATION_IN_FLIGHT => Good(Requeued(v)) /\ Requeued(v).status = "queued"
  BY <1>1, <1>2 DEF Requeued, Unclaimed, Good, VariationSet, VARIATION_IN_FLIGHT
<1>8. \A w \in Workers, t \in {"generating", "validating"} :
         v.status \in VARIATION_IN_FLIGHT =>
             Good([v EXCEPT !.status = t, !.holder = w, !.lease = "live"])
  BY <1>1, <1>2, ZenonT(40) DEF Good, VariationSet, VARIATION_IN_FLIGHT
<1>9. \A c \in Candidates : v.status = "generating" =>
         Good([v EXCEPT !.status = "validating", !.candidate = c])
  BY <1>1, <1>2 DEF Good, VariationSet
<1>10. v.lease = "live" => Good([v EXCEPT !.lease = "passed"])
  BY <1>1 DEF Good, VariationSet
<1> QED BY <1>3, <1>4, <1>5, <1>6, <1>7, <1>8, <1>9, <1>10

\* A result is a validation.
LEMMA ResultTypes ==
  /\ \A original : \A c \in Candidates : Validations(original, c) \subseteq ValidationSet
  /\ \A original : \A f \in {source_graph_dsl_preflight(original), {"execution"}} :
        Validation(f, NoCandidate, FALSE) \in ValidationSet
<1>1. \A f \in SUBSET Kinds, c \in Candidates, b \in BOOLEAN :
         [failures |-> f, about |-> c, unanimous |-> b] \in ValidationSet
  BY DEF ValidationSet
<1>2. ASSUME NEW original, NEW c \in Candidates, NEW v \in Validations(original, c)
      PROVE  v \in ValidationSet
  <2>1. PICK f, u : v = Validation(f, c, u)
    BY DEF Validations
  <2>2. f \subseteq Kinds /\ u \in BOOLEAN
    BY <2>1, ValidationVerdict DEF Validation
  <2> QED BY <2>1, <2>2, <1>1 DEF Validation
<1>3. ASSUME NEW original, NEW f \in {source_graph_dsl_preflight(original), {"execution"}}
      PROVE  Validation(f, NoCandidate, FALSE) \in ValidationSet
  <2>1. f \subseteq Kinds
    BY PreflightKinds DEF Kinds
  <2> QED BY <2>1, <1>1, InitialValues DEF Validation
<1> QED BY <1>2, <1>3

\* What a result that lands makes of the variation.
LEMMA ResultSaved ==
  ASSUME Typed, NEW w \in Workers, NEW v \in ValidationSet, NEW present \in BOOLEAN,
         SaveResult(w, v, present), Fenced(w)
  PROVE  /\ Good(variation')
         /\ variation'.status = StatusOf(v, present)
         /\ variation'.original = variation.original
         /\ variation'.candidate = variation.candidate
         /\ variation'.validation = v
         /\ variation'.validatedRevision = IF Pass(v) THEN revision ELSE NoRevision
         /\ variation'.attestation = NoRevision
         /\ variation'.holder = NoWorker
<1>1. /\ variation \in VariationSet /\ Good(variation)
      /\ variation.status \in {"generating", "validating"}
      /\ worker[w].revision = revision /\ revision \in Revisions
  BY DEF Typed, TypeOK, Fenced, Owned
<1>2. variation.validatedRevision = NoRevision /\ variation.attestation = NoRevision
  BY <1>1 DEF Good
<1> DEFINE s == StatusOf(v, present)
           a == IF Pass(v) THEN worker[w].revision ELSE variation.validatedRevision
<1>3. a = (IF Pass(v) THEN revision ELSE NoRevision)
  BY <1>1, <1>2
<1>4. /\ s \in {"ready", "needs-validation", "failed"} /\ s \in VariationStatus
      /\ s = "ready" <=> Pass(v)
  BY StatusCases DEF VariationStatus
<1>5. variation' = [[variation EXCEPT !.holder = NoWorker, !.lease = "none"]
                       EXCEPT !.status = s, !.validation = v, !.validatedRevision = a]
  BY DEF SaveResult, Unclaimed
<1> HIDE DEF s, a
<1>6. a \in Revisions \union {NoRevision}
  BY <1>1, <1>3
<1>7. /\ variation' \in VariationSet
      /\ variation'.status = s /\ variation'.original = variation.original
      /\ variation'.candidate = variation.candidate /\ variation'.validation = v
      /\ variation'.validatedRevision = a /\ variation'.attestation = variation.attestation
      /\ variation'.holder = NoWorker /\ variation'.lease = "none"
  BY <1>1, <1>4, <1>5, <1>6 DEF VariationSet
<1>8. Good(variation')
  BY <1>1, <1>2, <1>3, <1>4, <1>7 DEF Good
<1> QED BY <1>2, <1>3, <1>7, <1>8 DEF s

\* Every step keeps the type invariant: the learner's, the undo's, the workers',
\* the submission's.
LEMMA TypeReview ==
  ASSUME Typed, NEW seen \in 0 .. revision, Review(seen)
  PROVE  Typed'
<1>t. /\ TypeOK /\ Good(variation) /\ GoodWorkers(worker) /\ GoodUndos(undo)
      /\ status = "deleted" => previousStatus \in {"extracting", "ready", "failed"}
      /\ revision \in Nat /\ revision \in Revisions
      /\ variation \in VariationSet /\ variation.original \in Sources \union {NoSource}
  BY DEF Typed, TypeOK, Revisions, VariationSet
<1>n. revision < MaxRevision => NextRevision \in Revisions
  BY <1>t DEF NextRevision, Revisions
<1>1. CASE request_variation_generation(seen)
  <2>1. Good(variation')
    BY <1>1, <1>t, VariationUpdates DEF request_variation_generation
  <2> QED BY <1>1, <1>t, <1>n, <2>1, TypedParts DEF request_variation_generation, TypeOK
<1>2. CASE update_item_draft_variant(seen)
  <2>1. Good(variation')
    BY <1>2, InitialValues DEF update_item_draft_variant
  <2> QED BY <1>2, <1>t, <1>n, <2>1, TypedParts DEF update_item_draft_variant, TypeOK
<1>3. CASE edit_variation_candidate(seen)
  <2>1. PICK c \in Edited : variation' = [Invalidated(variation) EXCEPT !.candidate = c]
    BY <1>3 DEF edit_variation_candidate
  <2>2. variation.original \in Sources /\ revision + 1 \in Revisions
    BY <1>3, <1>t, <1>n DEF edit_variation_candidate, Good, NextRevision
  <2>3. c \in Candidates
    <3>1. (IF variation.candidate = NoCandidate THEN {"malformed"} ELSE Shapes) \subseteq Shapes
      BY DEF Shapes
    <3> QED BY <2>2, <3>1 DEF Edited, Candidates
  <2>4. Good(variation')
    BY <1>3, <1>t, <2>1, <2>3, VariationUpdates DEF edit_variation_candidate
  <2> QED BY <1>3, <1>t, <1>n, <2>4, TypedParts DEF edit_variation_candidate, TypeOK
<1>4. CASE request_variation_revalidation(seen)
  <2>1. Good(variation')
    BY <1>4, <1>t, VariationUpdates DEF request_variation_revalidation
  <2> QED BY <1>4, <1>t, <2>1, TypedParts DEF request_variation_revalidation, TypeOK
<1>5. CASE attest_variation_validation(seen)
  <2>1. seen \in Revisions /\ variation.status \in {"needs-validation", "failed"}
    BY <1>5, <1>t, AttestableKinds DEF attest_variation_validation, Revisions
  <2>2. Good(variation')
    BY <1>5, <1>t, <2>1, VariationUpdates DEF attest_variation_validation
  <2> QED BY <1>5, <1>t, <2>2, TypedParts DEF attest_variation_validation, TypeOK
<1> QED BY <1>1, <1>2, <1>3, <1>4, <1>5 DEF Review

LEMMA TypeUndo ==
  ASSUME Typed, NEW r \in Undos, UndoRead(r) \/ undo_item_deletion(r)
  PROVE  Typed'
<1>t. /\ TypeOK /\ Good(variation) /\ GoodWorkers(worker) /\ GoodUndos(undo)
      /\ status = "deleted" => previousStatus \in {"extracting", "ready", "failed"}
      /\ undo \in [Undos -> UndoLocals] /\ variation \in VariationSet
  BY DEF Typed, TypeOK, GoodUndos
<1>1. CASE UndoRead(r)
  <2> DEFINE v == IF InFlight THEN Requeued(variation) ELSE NotRequested
  <2>1. Good(v) /\ (v # NotRequested => v.status = "queued")
    BY <1>t, VariationUpdates, InitialValues DEF InFlight
  <2>2. undo' = [undo EXCEPT ![r] = [pc |-> "write", previous |-> previousStatus, variation |-> v]]
    BY <1>1 DEF UndoRead
  <2> HIDE DEF v
  <2>3. [pc |-> "write", previous |-> previousStatus, variation |-> v] \in UndoLocals
    BY <1>t, <2>1 DEF UndoLocals, TypeOK, Good
  <2>4. GoodUndos(undo')
    BY <1>t, <2>1, <2>2, <2>3 DEF GoodUndos
  <2> QED BY <1>1, <1>t, <2>4, TypedParts DEF UndoRead, TypeOK
<1>2. CASE undo_item_deletion(r)
  <2>1. GoodUndos(undo')
    BY <1>2, <1>t, InitialValues DEF undo_item_deletion, GoodUndos
  <2>2. Good(undo[r].variation) /\ undo[r].previous \in ItemStatus \union {"none"}
    BY <1>t DEF GoodUndos, UndoLocals
  <2>3. Good(variation')
    BY <1>2, <1>t, <2>2 DEF undo_item_deletion
  <2>4. /\ status' \in ItemStatus /\ previousStatus' \in ItemStatus \union {"none"}
        /\ status' = "deleted" => previousStatus' \in {"extracting", "ready", "failed"}
    BY <1>2, <1>t DEF undo_item_deletion, TypeOK, ItemStatus
  <2> QED BY <1>2, <1>t, <2>1, <2>3, <2>4, TypedParts DEF undo_item_deletion, TypeOK
<1> QED BY <1>1, <1>2

LEMMA TypeWorker ==
  ASSUME Typed, NEW w \in Workers, Work(w) \/ HeartbeatRefused(w) \/ WorkerDies(w) \/ WorkerCrash(w)
  PROVE  Typed'
<1>t. /\ TypeOK /\ Good(variation) /\ GoodWorkers(worker) /\ GoodUndos(undo)
      /\ status = "deleted" => previousStatus \in {"extracting", "ready", "failed"}
      /\ worker \in [Workers -> WorkerLocals] /\ worker[w] \in WorkerLocals
      /\ variation \in VariationSet /\ revision \in Revisions
  BY DEF Typed, TypeOK, GoodWorkers
<1>v. /\ variation.original \in Sources \union {NoSource} /\ variation.candidate \in Candidates
      /\ worker[w].original \in Sources \union {NoSource} /\ worker[w].candidate \in Candidates
      /\ worker[w].revision \in Revisions
  BY <1>t DEF VariationSet, WorkerLocals
<1>l. Leave(w) => GoodWorkers(worker')
  BY <1>t, InitialValues DEF Leave, GoodWorkers
<1>1. CASE claim_variation_work(w)
  <2> DEFINE new == [pc |-> IF Target = "generating" THEN "generate" ELSE "renew",
                     revision |-> revision, original |-> variation.original,
                     candidate |-> variation.candidate, lost |-> FALSE]
  <2>1. variation.status \in VARIATION_IN_FLIGHT
    BY <1>1 DEF claim_variation_work, Claimable, InFlight, VARIATION_IN_FLIGHT
  <2>2. variation.original # NoSource /\ Target \in {"generating", "validating"}
    BY <1>t, <2>1 DEF Good, VARIATION_IN_FLIGHT, Target
  <2>3. worker' = [worker EXCEPT ![w] = new]
    BY <1>1 DEF claim_variation_work
  <2>4. new \in WorkerLocals /\ new.original # NoSource
    BY <1>t, <1>v, <2>2 DEF WorkerLocals, WorkerPcs
  <2> HIDE DEF new
  <2>5. GoodWorkers(worker')
    BY <1>t, <2>3, <2>4 DEF GoodWorkers
  <2>6. Good(variation')
    BY <1>1, <1>t, <2>1, <2>2, VariationUpdates DEF claim_variation_work
  <2> QED BY <1>1, <1>t, <2>5, <2>6, TypedParts DEF claim_variation_work, TypeOK
<1>2. ASSUME NEW v \in ValidationSet, NEW present \in BOOLEAN, SaveResult(w, v, present)
      PROVE  Good(variation')
  <2>1. CASE Fenced(w)
    BY <1>2, <2>1, ResultSaved
  <2>2. CASE ~ Fenced(w)
    BY <1>2, <2>2, <1>t DEF SaveResult
  <2> QED BY <2>1, <2>2
<1>3. CASE GenerateFails(w)
  <2>1. PICK f \in {source_graph_dsl_preflight(worker[w].original), {"execution"}} :
           SaveResult(w, Validation(f, NoCandidate, FALSE), FALSE)
    BY <1>3 DEF GenerateFails
  <2>2. Good(variation')
    BY <1>2, <2>1, ResultTypes
  <2> QED BY <1>3, <1>t, <1>l, <2>2, TypedParts DEF GenerateFails, TypeOK
<1>4. CASE Checkpoint(w)
  <2>1. CASE ~ (Fenced(w) /\ variation.status = "generating" /\ ~ worker[w].lost)
    BY <1>4, <2>1, <1>t, <1>l, TypedParts DEF Checkpoint, TypeOK
  <2>2. CASE Fenced(w) /\ variation.status = "generating" /\ ~ worker[w].lost
    <3>1. PICK shape \in GeneratedShapes :
             LET c == [of |-> worker[w].original, written |-> worker[w].revision, shape |-> shape]
             IN  /\ variation' = [variation EXCEPT !.status = "validating", !.candidate = c]
                 /\ worker' = [worker EXCEPT ![w].pc = "renew", ![w].candidate = c]
      BY <1>4, <2>2 DEF Checkpoint
    <3> DEFINE c == [of |-> worker[w].original, written |-> worker[w].revision, shape |-> shape]
               new == [worker[w] EXCEPT !.pc = "renew", !.candidate = c]
    <3>2. worker[w].original \in Sources
      BY <1>4, <1>t, <1>v DEF Checkpoint, GoodWorkers
    <3>3. c \in Candidates
      BY <1>v, <3>2 DEF Candidates, GeneratedShapes
    <3> HIDE DEF c
    <3>4. /\ variation' = [variation EXCEPT !.status = "validating", !.candidate = c]
          /\ worker' = [worker EXCEPT ![w].pc = "renew", ![w].candidate = c]
      BY <3>1 DEF c
    <3>5. new \in WorkerLocals /\ new.original = worker[w].original
      BY <1>t, <3>3 DEF WorkerLocals, WorkerPcs
    <3>6. worker' = [worker EXCEPT ![w] = new]
      BY <1>t, <3>4
    <3> HIDE DEF new
    <3>7. GoodWorkers(worker')
      BY <1>t, <3>2, <3>5, <3>6 DEF GoodWorkers
    <3>8. Good(variation')
      BY <2>2, <1>t, <3>3, <3>4, VariationUpdates
    <3> QED BY <1>4, <1>t, <3>7, <3>8, TypedParts DEF Checkpoint, TypeOK
  <2> QED BY <2>1, <2>2
<1>5. CASE Renew(w)
  <2>1. CASE Owned(w)
    <3> DEFINE new == [worker[w] EXCEPT !.pc = "validate"]
    <3>1. worker' = [worker EXCEPT ![w] = new]
      BY <1>5, <1>t, <2>1 DEF Renew
    <3>2. new \in WorkerLocals /\ new.original = worker[w].original /\ worker[w].pc = "renew"
      BY <1>5, <1>t DEF Renew, WorkerLocals, WorkerPcs
    <3> HIDE DEF new
    <3>3. GoodWorkers(worker')
      BY <1>t, <3>1, <3>2 DEF GoodWorkers
    <3> QED BY <1>5, <1>t, <3>3, TypedParts DEF Renew, TypeOK
  <2>2. CASE ~ Owned(w)
    BY <1>5, <1>t, <1>l, <2>2, TypedParts DEF Renew, TypeOK
  <2> QED BY <2>1, <2>2
<1>6. CASE Validate(w)
  <2>1. PICK v \in Validations(worker[w].original, worker[w].candidate) :
           UNCHANGED variation \/ SaveResult(w, v, TRUE)
    BY <1>6 DEF Validate
  <2>2. v \in ValidationSet
    BY <1>v, <2>1, ResultTypes
  <2>3. Good(variation')
    BY <1>2, <1>t, <2>1, <2>2
  <2> QED BY <1>6, <1>t, <1>l, <2>3, TypedParts DEF Validate, TypeOK
<1>7. CASE HeartbeatRefused(w)
  <2> DEFINE new == [worker[w] EXCEPT !.lost = TRUE]
  <2>1. worker' = [worker EXCEPT ![w] = new]
    BY <1>7, <1>t DEF HeartbeatRefused
  <2>2. new \in WorkerLocals /\ new.original = worker[w].original /\ Busy(w)
    BY <1>7, <1>t DEF HeartbeatRefused, WorkerLocals
  <2> HIDE DEF new
  <2>3. GoodWorkers(worker')
    BY <1>t, <2>1, <2>2 DEF GoodWorkers
  <2> QED BY <1>7, <1>t, <2>3, TypedParts DEF HeartbeatRefused, TypeOK
<1>8. CASE WorkerCrash(w)
  <2>1. faults' \in 0 .. MaxFaults
    BY <1>8, <1>t DEF WorkerCrash, TypeOK
  <2> QED BY <1>8, <1>t, <1>l, <2>1, TypedParts DEF WorkerCrash, TypeOK
<1>9. CASE WorkerDies(w)
  <2> DEFINE new == [worker[w] EXCEPT !.pc = "dead"]
  <2>1. worker' = [worker EXCEPT ![w] = new] /\ faults' \in 0 .. MaxFaults
    BY <1>9, <1>t DEF WorkerDies, TypeOK
  <2>2. new \in WorkerLocals /\ new.pc = "dead"
    BY <1>t DEF WorkerLocals, WorkerPcs
  <2> HIDE DEF new
  <2>3. GoodWorkers(worker')
    BY <1>t, <2>1, <2>2 DEF GoodWorkers
  <2> QED BY <1>9, <1>t, <2>1, <2>3, TypedParts DEF WorkerDies, TypeOK
<1> QED BY <1>1, <1>3, <1>4, <1>5, <1>6, <1>7, <1>8, <1>9 DEF Work

LEMMA TypeSubmission ==
  ASSUME Typed, NEW r \in Submits, Submission(r) \/ SubmitCrash(r)
  PROVE  Typed'
<1>t. /\ TypeOK /\ Good(variation) /\ GoodWorkers(worker) /\ GoodUndos(undo)
      /\ status = "deleted" => previousStatus \in {"extracting", "ready", "failed"}
      /\ variation \in VariationSet
  BY DEF Typed, TypeOK
<1>1. submit' \in [Submits -> {"idle", "admit", "complete"}]
  BY <1>t DEF Submission, SubmitRead, admit_variant_item, complete_variant_batch, SubmitCrash, TypeOK
<1>2. CASE SubmitRead(r)
  BY <1>1, <1>2, <1>t, TypedParts DEF SubmitRead, TypeOK
<1>3. CASE admit_variant_item(r)
  <2>1. variation.candidate \in Candidates
    BY <1>t DEF VariationSet
  <2>2. \A p \in problems' : p.content \in Candidates
    BY <1>3, <1>t, <2>1 DEF admit_variant_item, TypeOK
  <2>3. status' \in ItemStatus /\ previousStatus' = previousStatus /\ status' \in {status, "submitted"}
    BY <1>3, <1>t DEF admit_variant_item, record_variant_item_submission, TypeOK, ItemStatus
  <2>4. draft' = draft /\ revision' = revision
    BY <1>3 DEF admit_variant_item, record_variant_item_submission
  <2> QED BY <1>1, <1>3, <1>t, <2>2, <2>3, <2>4, TypedParts DEF admit_variant_item, TypeOK
<1>4. CASE complete_variant_batch(r)
  BY <1>1, <1>4, <1>t, TypedParts DEF complete_variant_batch, TypeOK
<1>5. CASE SubmitCrash(r)
  <2>1. faults' \in 0 .. MaxFaults
    BY <1>5, <1>t DEF SubmitCrash, TypeOK
  <2> QED BY <1>1, <1>5, <1>t, <2>1, TypedParts DEF SubmitCrash, TypeOK
<1> QED BY <1>2, <1>3, <1>4, <1>5 DEF Submission

LEMMA TypeStep == Typed /\ [Next]_vars => Typed'
<1> SUFFICES ASSUME Typed, [Next]_vars PROVE Typed'
  OBVIOUS
<1>t. /\ TypeOK /\ Good(variation) /\ GoodWorkers(worker) /\ GoodUndos(undo)
      /\ status = "deleted" => previousStatus \in {"extracting", "ready", "failed"}
  BY DEF Typed
<1>0. CASE UNCHANGED vars
  BY <1>0, <1>t, TypedParts DEF vars, TypeOK
<1>1. CASE Extracted
  BY <1>1, <1>t, TypedParts DEF Extracted, TypeOK, ItemStatus
<1>2. CASE ExtractionFails
  <2>1. faults' \in 0 .. MaxFaults
    BY <1>2, <1>t DEF ExtractionFails, TypeOK
  <2> QED BY <1>2, <1>t, <2>1, TypedParts DEF ExtractionFails, TypeOK, ItemStatus
<1>3. CASE reset_item_for_retry
  BY <1>3, <1>t, TypedParts DEF reset_item_for_retry, TypeOK, ItemStatus
<1>4. CASE mark_item_deleted
  BY <1>4, <1>t, TypedParts DEF mark_item_deleted, Actionable, TypeOK, ItemStatus
<1>5. CASE LeaseExpires
  BY <1>5, <1>t, VariationUpdates, TypedParts DEF LeaseExpires, TypeOK
<1>6. CASE LeaseOverrun
  <2>1. faults' \in 0 .. MaxFaults
    BY <1>6, <1>t DEF LeaseOverrun, TypeOK
  <2> QED BY <1>6, <1>t, <2>1, VariationUpdates, TypedParts DEF LeaseOverrun, TypeOK
<1>7. CASE BatchExpires
  BY <1>7, <1>t, TypedParts DEF BatchExpires, TypeOK
<1> QED BY <1>0, <1>1, <1>2, <1>3, <1>4, <1>5, <1>6, <1>7,
           TypeReview, TypeUndo, TypeWorker, TypeSubmission DEF Next

\* The item, its variation and its workers always hold values the code could
\* have stored, work in flight a confirmed source, a claim a deadline.
THEOREM TypeCorrect == Spec => []TypeOK
<1>1. Typed => TypeOK
  BY DEF Typed
<1> QED BY <1>1, TypeInit, TypeStep, PTL DEF Spec

-----------------------------------------------------------------------------
(* The invariant behind the approvals and admissions *)

\* A candidate is one of the variation's source.
OfSource(v) == v.candidate # NoCandidate => v.candidate.of = v.original

\* While a claim token lasts, its worker holds the revision, the source and the
\* candidate of the item, and generates exactly when there is no candidate.
ClaimsFit ==
    \A w \in Workers : variation.holder = w /\ Busy(w) =>
        /\ worker[w].revision = revision
        /\ worker[w].original = variation.original
        /\ worker[w].candidate = variation.candidate
        /\ worker[w].pc = "generate" <=> variation.candidate = NoCandidate

\* What an undo would write back is consistent, if outdated.
UndosFit == \A r \in Undos : OfSource(undo[r].variation)

\* What may be revalidated or attested has a candidate.
CandidateStored ==
    (\/ variation.status = "needs-validation"
     \/ /\ variation.status = "failed"
        /\ variation.validation.failures \subseteq {"check", "answer"})
    => variation.candidate # NoCandidate

Inv ==
    /\ OfSource(variation)
    /\ ClaimsFit
    /\ UndosFit
    /\ CandidateStored
    /\ ApprovalIsBacked
    /\ AdmittedOnceAndWhole

LEMMA InvInit == Init => Inv
<1> SUFFICES ASSUME Init PROVE Inv
  OBVIOUS
<1>1. Cardinality(problems) = 0
  BY FS_EmptySet DEF Init
<1>2. OfSource(variation) /\ UndosFit /\ ClaimsFit
  BY InitialValues DEF Init, OfSource, NotRequested, UndosFit, ClaimsFit
<1> QED BY <1>1, <1>2 DEF Init, Inv, NotRequested, CandidateStored, ApprovalIsBacked,
                          AdmittedOnceAndWhole

\* Claims fit as long as the workers keep what they read, or give it up, and the
\* item keeps it while there is a claim.
LEMMA ClaimsKept ==
  ASSUME Typed, ClaimsFit,
         \/ variation'.holder = NoWorker
         \/ /\ variation'.holder = variation.holder
            /\ variation'.original = variation.original
            /\ variation'.candidate = variation.candidate
            /\ revision' = revision,
         \A u \in Workers : Busy(u)' =>
            /\ Busy(u)
            /\ worker'[u].pc = "generate" <=> worker[u].pc = "generate"
            /\ worker'[u].revision = worker[u].revision
            /\ worker'[u].original = worker[u].original
            /\ worker'[u].candidate = worker[u].candidate
  PROVE  ClaimsFit'
BY DEF ClaimsFit

\* The problems fit the item as long as it is neither submitted nor taken back.
LEMMA AdmissionKept ==
  ASSUME AdmittedOnceAndWhole, UNCHANGED problemVars, batch' \in {batch, "expired"},
         status' = "submitted" <=> status = "submitted"
  PROVE  AdmittedOnceAndWhole'
BY DEF AdmittedOnceAndWhole

\* Steps that leave the review and the claims alone.
LEMMA QuietStep ==
  ASSUME Typed, Typed', Inv, UNCHANGED <<revision, problemVars, worker>>,
         batch' \in {batch, "expired"},
         status' = "submitted" <=> status = "submitted",
         \A r \in Undos : undo'[r].variation \in {undo[r].variation, NotRequested},
         variation'.status = variation.status, variation'.original = variation.original,
         variation'.candidate = variation.candidate,
         variation'.validation = variation.validation,
         variation'.validatedRevision = variation.validatedRevision,
         variation'.attestation = variation.attestation,
         variation'.holder = variation.holder
  PROVE  Inv'
<1>1. ClaimsFit'
  BY ClaimsKept DEF Inv
<1>2. AdmittedOnceAndWhole'
  BY AdmissionKept DEF Inv
<1>3. UndosFit'
  <2>1. OfSource(NotRequested)
    BY DEF OfSource, NotRequested
  <2> QED BY <2>1 DEF Inv, UndosFit
<1> QED BY <1>1, <1>2, <1>3 DEF Inv, OfSource, CandidateStored, ApprovalIsBacked

LEMMA ReviewStep ==
  ASSUME Typed, Typed', Inv, NEW seen \in 0 .. revision, Review(seen)
  PROVE  Inv'
<1>t. /\ variation \in VariationSet /\ Good(variation)
      /\ revision \in Nat
  BY DEF Typed, TypeOK, Revisions
<1>w. UNCHANGED <<status, problemVars, worker, undo, batch>>
  BY DEF Review, request_variation_generation, update_item_draft_variant,
         edit_variation_candidate, request_variation_revalidation, attest_variation_validation
<1>a. AdmittedOnceAndWhole' /\ UndosFit'
  BY <1>w, AdmissionKept DEF Inv, UndosFit
<1>1. CASE request_variation_generation(seen) \/ update_item_draft_variant(seen)
  <2>1. /\ variation'.status \in {"queued", "not-requested"}
        /\ variation'.candidate = NoCandidate /\ variation'.holder = NoWorker
    <3>1. CASE request_variation_generation(seen)
      BY <3>1 DEF request_variation_generation, NotRequested
    <3>2. CASE update_item_draft_variant(seen)
      BY <3>2 DEF update_item_draft_variant, NotRequested
    <3> QED BY <1>1, <3>1, <3>2
  <2>2. ClaimsFit'
    BY <1>w, <2>1, ClaimsKept DEF Inv
  <2> QED BY <2>1, <2>2, <1>a DEF Inv, OfSource, CandidateStored, ApprovalIsBacked
<1>2. CASE edit_variation_candidate(seen)
  <2>1. PICK c \in Edited : variation' = [Invalidated(variation) EXCEPT !.candidate = c]
    BY <1>2 DEF edit_variation_candidate
  <2>2. /\ variation'.status = "needs-validation" /\ variation'.candidate = c
        /\ variation'.original = variation.original
        /\ variation'.holder = variation.holder
    BY <2>1, <1>t DEF Invalidated, Unapproved, VariationSet
  <2>3. c.of = variation.original /\ c # NoCandidate
    <3>1. c.of = variation.original /\ c.written = revision + 1
      BY DEF Edited
    <3> QED BY <3>1, <1>t DEF NoCandidate
  <2>4. variation'.holder = NoWorker
    BY <1>2, <2>2, <1>t DEF edit_variation_candidate, Good
  <2>5. ClaimsFit'
    BY <1>w, <2>4, ClaimsKept DEF Inv
  <2> QED BY <2>2, <2>3, <2>5, <1>a DEF Inv, OfSource, CandidateStored, ApprovalIsBacked
<1>3. CASE request_variation_revalidation(seen)
  <2>1. /\ variation'.status = "queued" /\ variation'.candidate = variation.candidate
        /\ variation'.original = variation.original /\ variation'.holder = NoWorker
    BY <1>3, <1>t DEF request_variation_revalidation, Unclaimed, Unapproved, VariationSet
  <2>2. ClaimsFit'
    BY <1>w, <2>1, ClaimsKept DEF Inv
  <2> QED BY <2>1, <2>2, <1>a DEF Inv, OfSource, CandidateStored, ApprovalIsBacked
<1>4. CASE attest_variation_validation(seen)
  <2>1. /\ variation'.status = "ready" /\ variation'.candidate = variation.candidate
        /\ variation'.original = variation.original /\ variation'.holder = variation.holder
        /\ variation'.validation = variation.validation
        /\ variation'.validatedRevision = variation.validatedRevision
        /\ variation'.attestation = revision /\ revision' = revision
    BY <1>4, <1>t DEF attest_variation_validation, Current, VariationSet
  <2>2. /\ variation.status \in {"needs-validation", "failed"}
        /\ variation.validation.failures \subseteq {"check", "answer"}
    BY <1>4, AttestableKinds DEF attest_variation_validation
  <2>3. variation.candidate # NoCandidate /\ variation.candidate.of = variation.original
    BY <2>2 DEF Inv, CandidateStored, OfSource
  <2>4. variation.validatedRevision = NoRevision
    BY <2>2, <1>t DEF Good
  <2>5. ClaimsFit'
    BY <1>w, <2>1, ClaimsKept DEF Inv
  <2> QED BY <2>1, <2>2, <2>3, <2>4, <2>5, <1>a DEF Inv, OfSource, CandidateStored, ApprovalIsBacked
<1> QED BY <1>1, <1>2, <1>3, <1>4 DEF Review

LEMMA UndoStep ==
  ASSUME Typed, Typed', Inv, NEW r \in Undos, UndoRead(r) \/ undo_item_deletion(r)
  PROVE  Inv'
<1>t. /\ variation \in VariationSet /\ Good(variation) /\ GoodUndos(undo)
      /\ undo \in [Undos -> UndoLocals] /\ undo[r].variation \in VariationSet
  BY DEF Typed, TypeOK, GoodUndos, UndoLocals
<1>n. OfSource(NotRequested)
  BY DEF OfSource, NotRequested
<1>1. CASE UndoRead(r)
  <2>1. undo'[r].variation \in {Requeued(variation), NotRequested}
    BY <1>1, <1>t DEF UndoRead
  <2>2. OfSource(Requeued(variation))
    BY <1>t DEF Inv, OfSource, Requeued, Unclaimed, VariationSet
  <2>3. \A u \in Undos \ {r} : undo'[u] = undo[u]
    BY <1>1, <1>t DEF UndoRead
  <2>4. UndosFit'
    BY <2>1, <2>2, <2>3, <1>n DEF Inv, UndosFit
  <2> QED BY <1>1, <2>4
          DEF UndoRead, Inv, OfSource, ClaimsFit, CandidateStored, ApprovalIsBacked,
              AdmittedOnceAndWhole
<1>2. CASE undo_item_deletion(r)
  <2>1. \A u \in Undos : undo'[u].variation \in {undo[u].variation, NotRequested}
    BY <1>2, <1>t, InitialValues DEF undo_item_deletion
  <2>2. status' = "submitted" <=> status = "submitted"
    BY <1>2 DEF undo_item_deletion, Typed
  <2>3. UNCHANGED <<revision, problemVars, worker, batch>>
    BY <1>2 DEF undo_item_deletion
  <2>4. CASE variation' = variation
    BY <2>1, <2>2, <2>3, <2>4, QuietStep
  <2>5. CASE variation' # variation
    <3>1. variation' = undo[r].variation /\ undo[r].variation # NotRequested
      BY <1>2, <2>5 DEF undo_item_deletion
    <3>2. /\ variation'.status = "queued" /\ OfSource(variation')
          /\ variation'.holder = NoWorker
      BY <3>1, <1>t DEF GoodUndos, Good, Inv, UndosFit
    <3>3. ClaimsFit'
      BY <2>3, <3>2, ClaimsKept DEF Inv
    <3>4. AdmittedOnceAndWhole'
      BY <2>2, <2>3, AdmissionKept DEF Inv
    <3>5. UndosFit'
      BY <2>1, <1>n DEF Inv, UndosFit
    <3>6. OfSource(variation)'
      BY <3>2 DEF OfSource
    <3> QED BY <3>2, <3>3, <3>4, <3>5, <3>6 DEF Inv, CandidateStored, ApprovalIsBacked
  <2> QED BY <2>4, <2>5
<1> QED BY <1>1, <1>2

\* Leaving gives the claim up, and nothing else.
LEMMA WorkerLeaves ==
  ASSUME Typed, Typed', Inv, NEW w \in Workers, Leave(w),
         UNCHANGED <<batch, itemVars, problemVars, requests>>
  PROVE  /\ UNCHANGED variation => Inv'
         /\ variation'.holder = NoWorker => ClaimsFit'
         /\ AdmittedOnceAndWhole' /\ UndosFit'
<1>1. \A u \in Workers : Busy(u)' => worker'[u] = worker[u]
  BY InitialValues DEF Leave, Typed, GoodWorkers
<1>2. AdmittedOnceAndWhole' /\ UndosFit'
  BY AdmissionKept DEF Inv, UndosFit
<1>3. variation'.holder = NoWorker \/ UNCHANGED variation => ClaimsFit'
  BY <1>1, ClaimsKept DEF Inv
<1> QED BY <1>2, <1>3 DEF Inv, OfSource, CandidateStored, ApprovalIsBacked

\* A result: discarded, or of the candidate that is stored.
LEMMA ResultStep ==
  ASSUME Typed, Typed', Inv, NEW w \in Workers, NEW v \in ValidationSet,
         NEW present \in BOOLEAN, SaveResult(w, v, present), Leave(w),
         UNCHANGED <<batch, itemVars, problemVars, requests>>,
         Busy(w),
         Pass(v) => v = Validation({}, worker[w].candidate, TRUE) /\ worker[w].pc # "generate",
         present <=> worker[w].pc # "generate",
         ~ present => ~ (v.failures \subseteq {"check", "answer"})
  PROVE  Inv'
<1>1. CASE ~ Fenced(w)
  BY <1>1, WorkerLeaves DEF SaveResult
<1>2. CASE Fenced(w)
  <2>1. /\ variation'.status = StatusOf(v, present)
        /\ variation'.original = variation.original
        /\ variation'.candidate = variation.candidate
        /\ variation'.validation = v
        /\ variation'.validatedRevision = IF Pass(v) THEN revision ELSE NoRevision
        /\ variation'.attestation = NoRevision
        /\ variation'.holder = NoWorker
    BY <1>2, ResultSaved
  <2>2. /\ StatusOf(v, present) = "ready" <=> Pass(v)
        /\ StatusOf(v, present) = "needs-validation" => present
    BY StatusCases
  <2>3. /\ worker[w].candidate = variation.candidate
        /\ worker[w].pc = "generate" <=> variation.candidate = NoCandidate
    BY <1>2 DEF Fenced, Owned, Inv, ClaimsFit
  <2>4. OfSource(variation')
    BY <2>1 DEF Inv, OfSource
  <2>5. CandidateStored'
    BY <2>1, <2>2, <2>3 DEF CandidateStored
  <2>6. ApprovalIsBacked'
    <3> SUFFICES ASSUME variation'.status = "ready" PROVE ApprovalIsBacked'
      BY DEF ApprovalIsBacked
    <3>1. Pass(v) /\ v = Validation({}, variation.candidate, TRUE) /\ variation.candidate # NoCandidate
      BY <2>1, <2>2, <2>3
    <3>2. variation'.validatedRevision = revision' /\ variation.candidate.of = variation.original
      BY <2>1, <3>1 DEF Inv, OfSource
    <3> QED BY <2>1, <3>1, <3>2 DEF ApprovalIsBacked
  <2>7. ClaimsFit' /\ AdmittedOnceAndWhole' /\ UndosFit'
    BY <2>1, WorkerLeaves
  <2> QED BY <2>4, <2>5, <2>6, <2>7 DEF Inv, OfSource
<1> QED BY <1>1, <1>2

LEMMA WorkerStep ==
  ASSUME Typed, Typed', Inv, NEW w \in Workers, Work(w) \/ HeartbeatRefused(w) \/ WorkerDies(w) \/ WorkerCrash(w)
  PROVE  Inv'
<1>t. /\ variation \in VariationSet /\ Good(variation)
      /\ worker \in [Workers -> WorkerLocals] /\ worker[w] \in WorkerLocals
      /\ revision \in Revisions /\ revision \in Nat
  BY DEF Typed, TypeOK, GoodWorkers, Revisions
<1>f. UNCHANGED <<batch, itemVars, problemVars, requests>>
  BY DEF Work, claim_variation_work, GenerateFails, Checkpoint, Renew, Validate,
         HeartbeatRefused, WorkerDies, WorkerCrash
<1>a. AdmittedOnceAndWhole' /\ UndosFit'
  BY <1>f, AdmissionKept DEF Inv, UndosFit
<1>1. CASE claim_variation_work(w)
  <2> DEFINE new == [pc |-> IF Target = "generating" THEN "generate" ELSE "renew",
                     revision |-> revision, original |-> variation.original,
                     candidate |-> variation.candidate, lost |-> FALSE]
  <2>1. /\ variation' = [variation EXCEPT !.status = Target, !.holder = w, !.lease = "live"]
        /\ worker' = [worker EXCEPT ![w] = new]
    BY <1>1 DEF claim_variation_work
  <2>2. /\ variation'.status = Target /\ variation'.holder = w
        /\ variation'.original = variation.original
        /\ variation'.candidate = variation.candidate
    BY <2>1, <1>t DEF VariationSet
  <2>3. /\ Target \in {"generating", "validating"}
        /\ Target = "generating" <=> variation.candidate = NoCandidate
    BY DEF Target
  <2>4. worker'[w] = new
    BY <2>1, <1>t
  <2>5. ClaimsFit'
    BY <1>f, <2>2, <2>3, <2>4 DEF ClaimsFit
  <2> QED BY <2>2, <2>3, <2>5, <1>a DEF Inv, OfSource, CandidateStored, ApprovalIsBacked
<1>2. CASE GenerateFails(w)
  <2>1. PICK f \in {source_graph_dsl_preflight(worker[w].original), {"execution"}} :
           f # {} /\ SaveResult(w, Validation(f, NoCandidate, FALSE), FALSE)
    BY <1>2 DEF GenerateFails
  <2> DEFINE v == Validation(f, NoCandidate, FALSE)
  <2>2. v.failures = f /\ v \in ValidationSet
    BY ResultTypes DEF Validation
  <2>3. ~ Pass(v) /\ ~ (v.failures \subseteq {"check", "answer"})
    BY <2>1, <2>2, PreflightKinds DEF Pass
  <2>4. worker[w].pc = "generate" /\ Leave(w) /\ SaveResult(w, v, FALSE)
    BY <1>2, <2>1 DEF GenerateFails
  <2> HIDE DEF v
  <2> QED BY <1>f, <2>2, <2>3, <2>4, ResultStep
<1>3. CASE Checkpoint(w)
  <2>1. CASE ~ (Fenced(w) /\ variation.status = "generating" /\ ~ worker[w].lost)
    BY <1>3, <1>f, <2>1, WorkerLeaves DEF Checkpoint
  <2>2. CASE Fenced(w) /\ variation.status = "generating" /\ ~ worker[w].lost
    <3>1. PICK shape \in GeneratedShapes :
             LET c == [of |-> worker[w].original, written |-> worker[w].revision, shape |-> shape]
             IN  /\ variation' = [variation EXCEPT !.status = "validating", !.candidate = c]
                 /\ worker' = [worker EXCEPT ![w].pc = "renew", ![w].candidate = c]
      BY <1>3, <2>2 DEF Checkpoint
    <3> DEFINE c == [of |-> worker[w].original, written |-> worker[w].revision, shape |-> shape]
    <3>2. /\ variation.holder = w /\ worker[w].pc = "generate"
          /\ worker[w].revision = revision /\ worker[w].original = variation.original
      BY <1>3, <2>2 DEF Checkpoint, Fenced, Owned, Inv, ClaimsFit
    <3>3. c.of = variation.original /\ c # NoCandidate
      BY <1>t, <3>2 DEF NoCandidate
    <3> HIDE DEF c
    <3>4. /\ variation' = [variation EXCEPT !.status = "validating", !.candidate = c]
          /\ worker' = [worker EXCEPT ![w].pc = "renew", ![w].candidate = c]
      BY <3>1 DEF c
    <3>5. /\ variation'.status = "validating" /\ variation'.candidate = c
          /\ variation'.original = variation.original /\ variation'.holder = w
      BY <1>t, <3>2, <3>4 DEF VariationSet
    <3>6. /\ worker'[w].pc = "renew" /\ worker'[w].candidate = c
          /\ worker'[w].revision = revision /\ worker'[w].original = variation.original
      BY <1>t, <3>2, <3>4 DEF WorkerLocals
    <3>7. ClaimsFit'
      BY <1>f, <3>3, <3>5, <3>6 DEF ClaimsFit
    <3>8. OfSource(variation')
      BY <3>3, <3>5 DEF OfSource
    <3> QED BY <1>a, <3>5, <3>7, <3>8 DEF Inv, OfSource, CandidateStored, ApprovalIsBacked
  <2> QED BY <2>1, <2>2
<1>4. CASE Renew(w)
  <2>1. CASE ~ Owned(w)
    BY <1>4, <1>f, <2>1, WorkerLeaves DEF Renew
  <2>2. CASE Owned(w)
    <3>1. worker' = [worker EXCEPT ![w].pc = "validate"] /\ UNCHANGED variation
      BY <1>4, <2>2 DEF Renew
    <3>2. /\ worker[w].pc = "renew" /\ worker'[w].pc = "validate"
          /\ worker'[w].revision = worker[w].revision
          /\ worker'[w].original = worker[w].original
          /\ worker'[w].candidate = worker[w].candidate
          /\ \A u \in Workers \ {w} : worker'[u] = worker[u]
      BY <1>4, <1>t, <3>1 DEF Renew, WorkerLocals
    <3>3. ClaimsFit'
      BY <1>f, <3>1, <3>2, ClaimsKept DEF Inv
    <3> QED BY <1>a, <1>f, <3>1, <3>3 DEF Inv, OfSource, CandidateStored, ApprovalIsBacked
  <2> QED BY <2>1, <2>2
<1>5. CASE Validate(w)
  <2>1. PICK v \in Validations(worker[w].original, worker[w].candidate) :
           UNCHANGED variation \/ SaveResult(w, v, TRUE)
    BY <1>5 DEF Validate
  <2>2. v \in ValidationSet
    <3>1. worker[w].candidate \in Candidates
      BY <1>t DEF WorkerLocals
    <3> QED BY <2>1, <3>1, ResultTypes
  <2>3. Pass(v) => v = Validation({}, worker[w].candidate, TRUE)
    BY ValidationVerdict
  <2>4. worker[w].pc = "validate" /\ Leave(w)
    BY <1>5 DEF Validate
  <2>5. CASE UNCHANGED variation
    BY <1>f, <2>4, <2>5, WorkerLeaves
  <2>6. CASE SaveResult(w, v, TRUE)
    BY <1>f, <2>2, <2>3, <2>4, <2>6, ResultStep
  <2> QED BY <2>1, <2>5, <2>6
<1>6. CASE HeartbeatRefused(w)
  <2>1. worker' = [worker EXCEPT ![w].lost = TRUE] /\ UNCHANGED variation /\ Busy(w)
    BY <1>6 DEF HeartbeatRefused
  <2>2. /\ worker'[w].pc = worker[w].pc
        /\ worker'[w].revision = worker[w].revision
        /\ worker'[w].original = worker[w].original
        /\ worker'[w].candidate = worker[w].candidate
        /\ \A u \in Workers \ {w} : worker'[u] = worker[u]
    BY <1>t, <2>1 DEF WorkerLocals
  <2>3. ClaimsFit'
    BY <1>f, <2>1, <2>2, ClaimsKept DEF Inv
  <2> QED BY <1>a, <1>f, <2>1, <2>3 DEF Inv, OfSource, CandidateStored, ApprovalIsBacked
<1>7. CASE WorkerCrash(w)
  BY <1>7, <1>f, WorkerLeaves DEF WorkerCrash
<1>8. CASE WorkerDies(w)
  <2>1. /\ UNCHANGED variation
        /\ \A u \in Workers : Busy(u)' => worker'[u] = worker[u]
    BY <1>8, <1>t DEF WorkerDies, WorkerLocals
  <2>2. ClaimsFit'
    BY <1>f, <2>1, ClaimsKept DEF Inv
  <2> QED BY <1>a, <1>f, <2>1, <2>2 DEF Inv, OfSource, CandidateStored, ApprovalIsBacked
<1> QED BY <1>1, <1>2, <1>3, <1>4, <1>5, <1>6, <1>7, <1>8 DEF Work

LEMMA SubmissionStep ==
  ASSUME Typed, Typed', Inv, NEW r \in Submits, Submission(r) \/ SubmitCrash(r)
  PROVE  Inv'
<1>1. CASE SubmitRead(r) \/ SubmitCrash(r)
  BY <1>1, QuietStep DEF SubmitRead, SubmitCrash
<1>2. CASE complete_variant_batch(r)
  BY <1>2 DEF complete_variant_batch, Inv, OfSource, ClaimsFit, UndosFit, CandidateStored,
              ApprovalIsBacked, AdmittedOnceAndWhole
<1>3. CASE admit_variant_item(r)
  <2>1. CASE ~ (AdmissionGuards /\ Freezable(variation.candidate))
    BY <1>3, <2>1, QuietStep DEF admit_variant_item
  <2>2. CASE AdmissionGuards /\ Freezable(variation.candidate)
    <3> DEFINE p == [id |-> Cardinality(problems) + 1, content |-> variation.candidate]
    <3>1. problems' = problems \union {p} /\ tasks' = problems' /\ status' = "submitted"
      BY <1>3, <2>2 DEF admit_variant_item, record_variant_item_submission
    <3>2. problems = {}
      BY <2>2 DEF AdmissionGuards, Inv, AdmittedOnceAndWhole
    <3>3. p.content.shape \notin {"rejected", "malformed"}
      BY <2>2 DEF Freezable
    <3> HIDE DEF p
    <3>4. problems' = {p} /\ Cardinality(problems') = 1
      BY <3>1, <3>2, FS_Singleton
    <3>5. AdmittedOnceAndWhole'
      BY <3>1, <3>3, <3>4 DEF AdmittedOnceAndWhole
    <3>6. UNCHANGED <<variation, worker, undo, revision>>
      BY <1>3, <2>2 DEF admit_variant_item, record_variant_item_submission
    <3> QED BY <3>5, <3>6
            DEF Inv, OfSource, ClaimsFit, UndosFit, CandidateStored, ApprovalIsBacked
  <2> QED BY <2>1, <2>2
<1> QED BY <1>1, <1>2, <1>3 DEF Submission

LEMMA InvStep == Typed /\ Inv /\ [Next]_vars => Inv'
<1> SUFFICES ASSUME Typed, Inv, [Next]_vars PROVE Inv'
  OBVIOUS
<1>t. Typed' /\ variation \in VariationSet
  BY TypeStep DEF Typed, TypeOK
<1>0. CASE UNCHANGED vars
  BY <1>0, <1>t, QuietStep DEF vars
<1>1. CASE Extracted
  BY <1>1, <1>t, QuietStep DEF Extracted
<1>2. CASE ExtractionFails
  BY <1>2, <1>t, QuietStep DEF ExtractionFails
<1>3. CASE reset_item_for_retry
  BY <1>3, <1>t, QuietStep DEF reset_item_for_retry
<1>4. CASE mark_item_deleted
  BY <1>4, <1>t, QuietStep DEF mark_item_deleted, Actionable
<1>5. CASE LeaseExpires \/ LeaseOverrun
  <2>1. variation' = [variation EXCEPT !.lease = "passed"]
    BY <1>5 DEF LeaseExpires, LeaseOverrun
  <2>2. UNCHANGED <<batch, itemVars, problemVars, worker, requests>>
    BY <1>5 DEF LeaseExpires, LeaseOverrun
  <2>3. /\ variation'.status = variation.status /\ variation'.original = variation.original
        /\ variation'.candidate = variation.candidate
        /\ variation'.validation = variation.validation
        /\ variation'.validatedRevision = variation.validatedRevision
        /\ variation'.attestation = variation.attestation
        /\ variation'.holder = variation.holder
    BY <1>t, <2>1 DEF VariationSet
  <2> QED BY <1>t, <2>2, <2>3, QuietStep
<1>6. CASE BatchExpires
  BY <1>6, <1>t, QuietStep DEF BatchExpires
<1> QED BY <1>t, <1>0, <1>1, <1>2, <1>3, <1>4, <1>5, <1>6,
           ReviewStep, UndoStep, WorkerStep, SubmissionStep DEF Next

LEMMA InvCorrect == Spec => [](Typed /\ Inv)
  BY TypeInit, TypeStep, InvInit, InvStep, PTL DEF Spec

\* A ready variant is approved as it stands, whichever workers lost their claims
\* and whatever an undo wrote back (save_variation_result, attest_variation_validation).
THEOREM ApprovalsAreBacked == Spec => []ApprovalIsBacked
<1>1. Inv => ApprovalIsBacked
  BY DEF Inv
<1> QED BY <1>1, InvCorrect, PTL

\* An item is submitted once, with its problem, its solution task and a graph the
\* whiteboard accepts, or not at all (admit_variant_item).
THEOREM AdmissionsAreWhole == Spec => []AdmittedOnceAndWhole
<1>1. Inv => AdmittedOnceAndWhole
  BY DEF Inv
<1> QED BY <1>1, InvCorrect, PTL

-----------------------------------------------------------------------------
(* The item implements ReviewedVariant, and keeps its checkpoints *)

Approved == IF variation.status = "ready" THEN variation.candidate ELSE NoCandidate

\* The actions of ReviewedVariant under the refinement mapping.
LEMMA MappedActions ==
  ASSUME Typed, Inv
  PROVE  /\ /\ UNCHANGED problems
            /\ variation'.candidate = variation.candidate /\ Approved' = Approved
            => UNCHANGED Reviewed!vars
         /\ /\ Actionable \/ status = "deleted"
            /\ UNCHANGED problems
            /\ variation'.candidate \in Candidates /\ Approved' = NoCandidate
            => Reviewed!Change
         /\ /\ Actionable /\ UNCHANGED problems
            /\ variation.candidate # NoCandidate
            /\ variation'.candidate = variation.candidate /\ Approved' = variation.candidate
            => Reviewed!Approve
<1>1. Actionable \/ status = "deleted" => problems = {}
  BY DEF Actionable, Inv, AdmittedOnceAndWhole
<1>2. /\ Reviewed!vars = <<variation.candidate, Approved, problems, FALSE>>
      /\ Reviewed!vars' = <<variation'.candidate, Approved', problems', FALSE>>
  BY DEF Reviewed!vars, Approved
<1>3. /\ UNCHANGED problems
      /\ variation'.candidate = variation.candidate /\ Approved' = Approved
      => UNCHANGED Reviewed!vars
  BY <1>2
<1>4. /\ Actionable \/ status = "deleted"
      /\ UNCHANGED problems
      /\ variation'.candidate \in Candidates /\ Approved' = NoCandidate
      => Reviewed!Change
  BY <1>1 DEF Reviewed!Change, Reviewed!Open, Approved
<1>5. /\ Actionable /\ UNCHANGED problems
      /\ variation.candidate # NoCandidate
      /\ variation'.candidate = variation.candidate /\ Approved' = variation.candidate
      => Reviewed!Approve
  BY <1>1 DEF Reviewed!Approve, Reviewed!Open, Approved
<1> QED BY <1>3, <1>4, <1>5

\* Every step of the item is a step of the review or none, and replaces a stored
\* candidate at a later revision or in a restored item only.
LEMMA StepIsReview ==
  ASSUME Typed, Typed', Inv, Inv', [Next]_vars
  PROVE  /\ [Reviewed!Next]_(Reviewed!vars)
         /\ \/ variation.candidate = NoCandidate
            \/ variation'.candidate = variation.candidate
            \/ revision' > revision
            \/ status = "deleted" /\ status' # "deleted"
<1> DEFINE Same == UNCHANGED problems /\ variation'.candidate = variation.candidate
           Goal == /\ Reviewed!Next \/ UNCHANGED Reviewed!vars
                   /\ \/ variation.candidate = NoCandidate
                      \/ variation'.candidate = variation.candidate
                      \/ revision' > revision
                      \/ status = "deleted" /\ status' # "deleted"
<1>t. /\ variation \in VariationSet /\ variation' \in VariationSet /\ revision \in Nat
      /\ variation.candidate \in Candidates /\ variation'.candidate \in Candidates
      /\ Good(variation)
  BY DEF Typed, TypeOK, VariationSet, Revisions
<1>a. /\ variation.status # "ready" => Approved = NoCandidate
      /\ variation'.status # "ready" => Approved' = NoCandidate
      /\ variation'.status = "ready" => Approved' = variation'.candidate
      /\ variation'.status = variation.status /\ variation'.candidate = variation.candidate
            => Approved' = Approved
  BY DEF Approved
<1>n. Reviewed!Change \/ Reviewed!Approve \/ Reviewed!Publish => Reviewed!Next
  BY DEF Reviewed!Next
<1>q. UNCHANGED problems /\ UNCHANGED variation => Goal
  BY <1>a, MappedActions
<1>0. CASE UNCHANGED vars
  BY <1>0, <1>q DEF vars
<1>1. CASE Extracted \/ ExtractionFails \/ reset_item_for_retry \/ mark_item_deleted \/ BatchExpires
  BY <1>1, <1>q DEF Extracted, ExtractionFails, reset_item_for_retry, mark_item_deleted, BatchExpires
<1>2. ASSUME NEW seen \in 0 .. revision, Review(seen) PROVE Goal
  <2>1. Actionable /\ UNCHANGED problems
    BY <1>2 DEF Review, request_variation_generation, update_item_draft_variant, Current,
         edit_variation_candidate, request_variation_revalidation, attest_variation_validation
  <2>2. CASE request_variation_generation(seen) \/ update_item_draft_variant(seen)
    <3>1. variation'.status \in {"queued", "not-requested"}
      <4>1. CASE request_variation_generation(seen)
        BY <4>1 DEF request_variation_generation, NotRequested
      <4>2. CASE update_item_draft_variant(seen)
        BY <4>2 DEF update_item_draft_variant, NotRequested
      <4> QED BY <2>2, <4>1, <4>2
    <3>2. revision' > revision
      BY <2>2, <1>t DEF request_variation_generation, update_item_draft_variant, NextRevision
    <3> QED BY <2>1, <3>1, <3>2, <1>t, <1>a, <1>n, MappedActions
  <2>3. CASE edit_variation_candidate(seen)
    <3>1. variation'.status = "needs-validation"
      BY <2>3, <1>t DEF edit_variation_candidate, Invalidated, Unapproved, VariationSet
    <3>2. revision' > revision
      BY <2>3, <1>t DEF edit_variation_candidate, NextRevision
    <3> QED BY <2>1, <3>1, <3>2, <1>t, <1>a, <1>n, MappedActions
  <2>4. CASE request_variation_revalidation(seen)
    <3>1. variation'.status = "queued" /\ variation'.candidate = variation.candidate
      BY <2>4, <1>t DEF request_variation_revalidation, Unclaimed, Unapproved, VariationSet
    <3> QED BY <2>1, <3>1, <1>t, <1>a, <1>n, MappedActions
  <2>5. CASE attest_variation_validation(seen)
    <3>1. variation'.status = "ready" /\ variation'.candidate = variation.candidate
      BY <2>5, <1>t DEF attest_variation_validation, VariationSet
    <3>2. variation.candidate # NoCandidate
      BY <2>5, AttestableKinds DEF attest_variation_validation, Inv, CandidateStored
    <3> QED BY <2>1, <3>1, <3>2, <1>a, <1>n, MappedActions
  <2> QED BY <1>2, <2>2, <2>3, <2>4, <2>5 DEF Review
<1>3. ASSUME NEW r \in Undos, UndoRead(r) PROVE Goal
  BY <1>3, <1>q DEF UndoRead
<1>4. ASSUME NEW r \in Undos, undo_item_deletion(r) PROVE Goal
  <2>1. CASE UNCHANGED variation
    BY <1>4, <1>q, <2>1 DEF undo_item_deletion
  <2>2. CASE ~ UNCHANGED variation
    <3>1. /\ status = "deleted" /\ status' = previousStatus /\ UNCHANGED problems
          /\ variation' = undo[r].variation /\ undo[r].variation # NotRequested
      BY <1>4, <2>2 DEF undo_item_deletion
    <3>2. variation'.status = "queued" /\ status' # "deleted"
      BY <3>1 DEF Typed, GoodUndos
    <3> QED BY <3>1, <3>2, <1>t, <1>a, <1>n, MappedActions
  <2> QED BY <2>1, <2>2
<1>5. ASSUME NEW r \in Submits, Submission(r) \/ SubmitCrash(r) PROVE Goal
  <2>1. CASE UNCHANGED problems
    BY <1>5, <1>q, <2>1
    DEF Submission, SubmitRead, admit_variant_item, complete_variant_batch, SubmitCrash
  <2>2. CASE ~ UNCHANGED problems
    <3> DEFINE p == [id |-> Cardinality(problems) + 1, content |-> variation.candidate]
    <3>1. /\ problems' = problems \union {p} /\ UNCHANGED variation
          /\ AdmissionGuards
      BY <1>5, <2>2
      DEF Submission, SubmitRead, admit_variant_item, complete_variant_batch, SubmitCrash
    <3>2. /\ problems = {} /\ variation.status = "ready" /\ variation.candidate # NoCandidate
      BY <3>1 DEF AdmissionGuards, Admissible, Inv, AdmittedOnceAndWhole
    <3>3. Cardinality(problems) = 0
      BY <3>2, FS_EmptySet
    <3>4. problems' = {[id |-> 1, content |-> variation.candidate]}
      BY <3>1, <3>2, <3>3
    <3>5. Approved = variation.candidate /\ Approved' = Approved
      BY <3>1, <3>2 DEF Approved
    <3> HIDE DEF p
    <3>6. Reviewed!Publish
      BY <3>1, <3>2, <3>4, <3>5 DEF Reviewed!Publish, Reviewed!Open, Approved
    <3> QED BY <3>1, <3>6, <1>n
  <2> QED BY <2>1, <2>2
<1>6. ASSUME NEW w \in Workers, Work(w) \/ HeartbeatRefused(w) \/ WorkerDies(w) \/ WorkerCrash(w)
      PROVE  Goal
  <2>0. UNCHANGED problems
    BY <1>6 DEF Work, claim_variation_work, GenerateFails, Checkpoint, Renew, Validate,
                HeartbeatRefused, WorkerDies, WorkerCrash
  <2>1. ASSUME NEW v, NEW present, SaveResult(w, v, present) PROVE Goal
    <3>1. CASE ~ Fenced(w)
      BY <2>0, <2>1, <3>1, <1>q DEF SaveResult
    <3>2. CASE Fenced(w)
      <4>1. /\ Actionable /\ variation.status # "ready"
            /\ variation'.candidate = variation.candidate
        BY <2>1, <3>2, <1>t DEF SaveResult, Unclaimed, Fenced, Owned, Active, VariationSet
      <4>2. CASE variation'.status # "ready"
        BY <2>0, <4>1, <4>2, <1>a, MappedActions
      <4>3. CASE variation'.status = "ready"
        <5>1. variation'.candidate # NoCandidate
          <6>1. /\ variation'.candidate.of = variation'.original
                /\ variation'.original # NoSource
            BY <4>3 DEF Inv, ApprovalIsBacked, Typed, Good
          <6> QED BY <6>1 DEF NoCandidate
        <5> QED BY <2>0, <4>1, <4>3, <5>1, <1>a, <1>n, MappedActions
      <4> QED BY <4>2, <4>3
    <3> QED BY <3>1, <3>2
  <2>2. CASE claim_variation_work(w)
    <3>1. /\ variation'.candidate = variation.candidate /\ variation'.status # "ready"
          /\ variation.status # "ready"
      BY <2>2, <1>t
      DEF claim_variation_work, Target, Claimable, InFlight, VARIATION_IN_FLIGHT, VariationSet
    <3> QED BY <2>0, <3>1, <1>a, MappedActions
  <2>3. CASE GenerateFails(w) \/ Validate(w)
    <3>1. UNCHANGED variation \/ \E v, present : SaveResult(w, v, present)
      BY <2>3 DEF GenerateFails, Validate
    <3> QED BY <2>0, <2>1, <3>1, <1>q
  <2>4. CASE Checkpoint(w)
    <3>1. CASE UNCHANGED variation
      BY <2>0, <3>1, <1>q
    <3>2. CASE ~ UNCHANGED variation
      <4>1. /\ Fenced(w) /\ worker[w].pc = "generate" /\ variation'.status = "validating"
        BY <2>4, <3>2, <1>t DEF Checkpoint, VariationSet
      <4>2. Actionable /\ variation.candidate = NoCandidate
        BY <4>1 DEF Fenced, Owned, Active, Inv, ClaimsFit
      <4> QED BY <2>0, <4>1, <4>2, <1>t, <1>a, <1>n, MappedActions
    <3> QED BY <3>1, <3>2
  <2>5. CASE Renew(w) \/ HeartbeatRefused(w) \/ WorkerDies(w) \/ WorkerCrash(w)
    BY <2>0, <2>5, <1>q DEF Renew, HeartbeatRefused, WorkerDies, WorkerCrash
  <2> QED BY <1>6, <2>2, <2>3, <2>4, <2>5 DEF Work
<1>7. CASE LeaseExpires \/ LeaseOverrun
  <2>1. /\ UNCHANGED problems /\ variation'.candidate = variation.candidate
        /\ variation'.status = variation.status
    BY <1>7, <1>t DEF LeaseExpires, LeaseOverrun, VariationSet
  <2> QED BY <2>1, <1>a, MappedActions
<1> QED BY <1>0, <1>1, <1>2, <1>3, <1>4, <1>5, <1>6, <1>7 DEF Next

LEMMA ReviewInit == Init => Reviewed!Init
  BY DEF Init, NotRequested, Reviewed!Init

\* The item is a review: only a candidate that is approved as it stands becomes a
\* problem, once, however edits, claims, deletions and submissions interleave.
THEOREM ItemImplementsReview == Spec => ImplementsReview
<1>1. (Typed /\ Inv) /\ (Typed /\ Inv)' /\ [Next]_vars => [Reviewed!Next]_(Reviewed!vars)
  BY StepIsReview
<1> QED BY <1>1, ReviewInit, InvCorrect, PTL DEF Spec, ImplementsReview, Reviewed!Spec

\* A stored candidate survives crashes, lost leases and retried claims.
THEOREM CheckpointsAreKept == Spec => CheckpointKept
<1>1. (Typed /\ Inv) /\ (Typed /\ Inv)' /\ [Next]_vars =>
        [\/ variation.candidate = NoCandidate
         \/ variation'.candidate = variation.candidate
         \/ revision' > revision
         \/ status = "deleted" /\ status' # "deleted"]_vars
  BY StepIsReview
<1> QED BY <1>1, InvCorrect, PTL DEF Spec, CheckpointKept
=============================================================================

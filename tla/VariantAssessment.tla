-------------------------- MODULE VariantAssessment --------------------------
(***************************************************************************)
(* The deterministic part of the validation of a generated variant, shared *)
(* by variant batches and problem variant sessions: what each validator's  *)
(* report contributes, the verdict, the state it leads to, and what the    *)
(* learner may accept by attestation or submit.                            *)
(*                                                                         *)
(* Of a source and a candidate only what the gates tell apart is kept, of  *)
(* a failure only its kind: "execution" stands for provider,               *)
(* invalid-response and the vlm-* codes.                                   *)
(***************************************************************************)
EXTENDS Integers, FiniteSets

CONSTANTS
    Validators,     \* the configured validator models, one or two
    Sources,        \* the source contents a learner may confirm
    RejectedSources \* those whose graphDsl fails the sanitizer

ASSUME ValidatorsAssumption == IsFiniteSet(Validators) /\ Cardinality(Validators) \in {1, 2}
ASSUME SourcesAssumption == RejectedSources \subseteq Sources

NoSource == "no source"
ASSUME NoSourceAssumption == NoSource \notin Sources

-----------------------------------------------------------------------------
(* Candidates and reports *)

\* "defective" fails a cheap check other than the graph's, "rejected" has a
\* graphDsl the sanitizer rejects, "malformed" lacks a required field.
Shapes == {"sound", "defective", "rejected", "malformed"}
GeneratedShapes == Shapes \ {"malformed"}

\* A candidate's content is identified by the revision it was written at.
NoCandidate == [of |-> NoSource, written |-> -1, shape |-> "malformed"]

\* What produce_report and the helper comparison yield: nothing, or the checks
\* of the report and how its answers compare ("uncompared": the helper raised).
NoReport == [checks |-> "none", answers |-> "none"]
ReportSet == [checks : {"passing", "failing", "missing"},
              answers : {"equivalent", "different", "unsolved", "uncompared"}]
Sound(report) == report = [checks |-> "passing", answers |-> "equivalent"]

Kinds == {"content", "check", "answer", "execution", "invalid-candidate"}

-----------------------------------------------------------------------------
(* The assessment *)

check_candidate(candidate) == IF candidate.shape = "sound" THEN {} ELSE {"content"}

\* _assess_report: checks outside their passing values, categories that are
\* missing, problems that were not solved, answers that are not equivalent.
assess_report(report) ==
    {k \in {"check", "content", "answer"} :
        \/ k = "check" /\ report.checks = "failing"
        \/ k = "content" /\ report.checks = "missing"
        \/ k = "answer" /\ report.answers \in {"different", "unsolved"}}

\* _category_disagreements: both reports have the category and differ on it.
category_disagreements(reports) ==
    {k \in {"check"} : {"passing", "failing"} \subseteq {r.checks : r \in reports}}

\* assess_variant over the reports that were produced, as a set, since two equal
\* reports fail alike; it repeats check_candidate, which found nothing by then.
assess_variant(reports) ==
    category_disagreements(reports) \union UNION {assess_report(r) : r \in reports}

\* Mutant: a validator or helper that raised is left out of the assessment.
NoExtraFailures(outcome) ==
    {k \in {"execution"} : \A v \in Validators : outcome[v] = NoReport}

\* The failures generate_and_validate adds for models that raised.
extra_failures(outcome) ==
    {k \in {"execution", "answer"} :
        \/ k = "execution" /\ \E v \in Validators :
              outcome[v] = NoReport \/ outcome[v].answers = "uncompared"
        \/ k = "answer" /\ \E v \in Validators : outcome[v].answers = "unsolved"}

\* source_graph_dsl_preflight.
source_graph_dsl_preflight(source) == {k \in {"content"} : source \in RejectedSources}

\* The failures of a run of the validators.  Without a report there is nothing
\* to assess, and the failures of the models stand alone.
run_failures(outcome) ==
    extra_failures(outcome) \union assess_variant({outcome[v] : v \in Validators} \ {NoReport})

ValidatorRuns ==
    {[failures |-> run_failures(outcome), unanimous |-> \A v \in Validators : Sound(outcome[v])] :
        outcome \in [Validators -> ReportSet \union {NoReport}]}

\* A stored validation: its failures, the candidate it is about and whether
\* every validator reported and found nothing (the reports, of which the code
\* looks at the failures only).
Validation(failures, candidate, unanimous) ==
    [failures |-> failures, about |-> candidate, unanimous |-> unanimous]
NoValidation == Validation({"none"}, NoCandidate, FALSE)

\* What validating a stored candidate may yield: it does not parse, the
\* orchestration raises, it fails a check that calls no model, or the
\* validators ran (generate_and_validate).
Validations(source, candidate) ==
    LET early == source_graph_dsl_preflight(source) \union check_candidate(candidate)
    IN  IF candidate.shape = "malformed"
        THEN {Validation({"invalid-candidate"}, candidate, FALSE)}
        ELSE {Validation({"execution"}, candidate, FALSE)}
             \union IF early # {} THEN {Validation(early, candidate, FALSE)}
                    ELSE {Validation(run.failures, candidate, run.unanimous) :
                             run \in ValidatorRuns}

Pass(validation) == validation.failures = {}
Fail(validation) == validation.failures \notin {{}, {"none"}}

is_execution_only_failure(validation) == validation.failures = {"execution"}

\* The status mapping of save_variation_result and save_problem_variant_result.
StatusOf(validation, candidatePresent) ==
    IF Pass(validation) THEN "ready"
    ELSE IF candidatePresent /\ is_execution_only_failure(validation)
         THEN "needs-validation" ELSE "failed"

-----------------------------------------------------------------------------
(* Attestation and admission *)

\* is_attestable with the status gates of the attest predicates.
Attestable(status, validation) ==
    \/ status = "needs-validation" /\ Pass(validation)
    \/ /\ status \in {"needs-validation", "failed"}
       /\ Fail(validation)
       /\ validation.failures \subseteq {"check", "answer"}

\* The variation part of _check_admission_guards and of the submit transaction.
Admissible(variation, revision) ==
    LET attested == variation.attestation = revision
    IN  /\ variation.status = "ready"
        /\ Pass(variation.validation) \/ attested
        /\ variation.candidate # NoCandidate
        /\ variation.validatedRevision = revision \/ attested

\* admit_variant_problem's last gate, and the snapshots it has to build.
Freezable(candidate) == candidate.shape \in {"sound", "defective"}

\* Statuses with background work.
VARIATION_IN_FLIGHT == {"queued", "generating", "validating"}
VariationStatus ==
    VARIATION_IN_FLIGHT \union {"not-requested", "ready", "failed", "needs-validation"}

=============================================================================

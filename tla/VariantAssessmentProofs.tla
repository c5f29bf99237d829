------------------------ MODULE VariantAssessmentProofs ------------------------
(* What the verdicts of VariantAssessment mean, for every value of its     *)
(* constants; the proofs of the two kinds of review cite these facts.      *)
EXTENDS VariantAssessment, FiniteSetTheorems, TLAPS

\* A model that was not heard leaves a failure (extra_failures), and so does any
\* report that is not sound (assess_report): a run without failures is one of
\* sound reports from every configured validator, whatever their number.
THEOREM SilenceIsUnanimous ==
  ASSUME NEW outcome \in [Validators -> ReportSet \union {NoReport}],
         run_failures(outcome) = {}
  PROVE  \A v \in Validators : Sound(outcome[v])
<1> TAKE v \in Validators
<1>1. extra_failures(outcome) = {} /\ assess_variant({outcome[u] : u \in Validators} \ {NoReport}) = {}
  BY DEF run_failures
<1>2. outcome[v] # NoReport /\ outcome[v].answers \notin {"uncompared", "unsolved"}
  BY <1>1 DEF extra_failures
<1>3. outcome[v] \in ReportSet
  BY <1>2
<1>4. outcome[v] \in {outcome[u] : u \in Validators} \ {NoReport}
  BY <1>2
<1>5. assess_report(outcome[v]) = {}
  BY <1>1, <1>4 DEF assess_variant
<1>6. /\ outcome[v].checks \notin {"failing", "missing"}
      /\ outcome[v].answers # "different"
  BY <1>5 DEF assess_report
<1> QED BY <1>2, <1>3, <1>6 DEF Sound, ReportSet

\* The failures of a run are kinds of failures.
LEMMA RunFailureKinds ==
  ASSUME NEW outcome
  PROVE  run_failures(outcome) \subseteq Kinds
<1>1. extra_failures(outcome) \subseteq Kinds
  BY DEF extra_failures, Kinds
<1>2. \A reports : assess_variant(reports) \subseteq Kinds
  BY DEF assess_variant, category_disagreements, assess_report, Kinds
<1> QED BY <1>1, <1>2 DEF run_failures

\* Validating a stored candidate yields a report of kinds of failures about that
\* candidate, and it passes only with every validator's consent: a candidate that
\* fails a check without model calls, or whose validation raises, never passes.
THEOREM ValidationVerdict ==
  ASSUME NEW original, NEW candidate, NEW validation \in Validations(original, candidate)
  PROVE  /\ validation.failures \subseteq Kinds
         /\ validation.about = candidate
         /\ validation.unanimous \in BOOLEAN
         /\ Pass(validation) => validation = Validation({}, candidate, TRUE)
<1> DEFINE early == source_graph_dsl_preflight(original) \union check_candidate(candidate)
<1>1. early \subseteq Kinds
  BY DEF source_graph_dsl_preflight, check_candidate, Kinds
<1>2. \/ validation \in {Validation({"invalid-candidate"}, candidate, FALSE),
                         Validation({"execution"}, candidate, FALSE)}
      \/ early # {} /\ validation = Validation(early, candidate, FALSE)
      \/ \E run \in ValidatorRuns : validation = Validation(run.failures, candidate, run.unanimous)
  BY DEF Validations
<1>3. CASE validation \in {Validation({"invalid-candidate"}, candidate, FALSE),
                           Validation({"execution"}, candidate, FALSE)}
  <2>1. PICK f \in {{"invalid-candidate"}, {"execution"}} :
           validation = Validation(f, candidate, FALSE)
    BY <1>3
  <2>2. f # {} /\ f \subseteq Kinds
    BY DEF Kinds
  <2> QED BY <2>1, <2>2 DEF Validation, Pass
<1>4. CASE early # {} /\ validation = Validation(early, candidate, FALSE)
  <2> HIDE DEF early
  <2> QED BY <1>1, <1>4 DEF Validation, Pass
<1>5. CASE \E run \in ValidatorRuns : validation = Validation(run.failures, candidate, run.unanimous)
  <2>1. PICK run \in ValidatorRuns : validation = Validation(run.failures, candidate, run.unanimous)
    BY <1>5
  <2>2. PICK outcome \in [Validators -> ReportSet \union {NoReport}] :
           run = [failures |-> run_failures(outcome),
                  unanimous |-> \A v \in Validators : Sound(outcome[v])]
    BY DEF ValidatorRuns
  <2> DEFINE all == \A v \in Validators : Sound(outcome[v])
  <2>3. run_failures(outcome) = {} => all
    BY SilenceIsUnanimous
  <2>4. all \in BOOLEAN /\ run.failures = run_failures(outcome) /\ run.unanimous = all
    BY <2>2
  <2> HIDE DEF all
  <2>5. validation.failures = run_failures(outcome) /\ validation.about = candidate
    BY <2>1, <2>4 DEF Validation
  <2>6. validation.unanimous = all
    BY <2>1, <2>4 DEF Validation
  <2>7. Pass(validation) => validation = Validation({}, candidate, TRUE)
    <3> HAVE Pass(validation)
    <3>1. run_failures(outcome) = {} /\ all = TRUE
      BY <2>3, <2>4, <2>5 DEF Pass
    <3> QED BY <2>1, <2>4, <3>1
  <2> QED BY <2>4, <2>5, <2>6, <2>7, RunFailureKinds
<1> QED BY <1>2, <1>3, <1>4, <1>5

\* The status a result leads to: ready exactly when it passes, and a candidate
\* to validate again only where one was stored.
LEMMA StatusCases ==
  ASSUME NEW validation, NEW present \in BOOLEAN
  PROVE  /\ StatusOf(validation, present) \in {"ready", "needs-validation", "failed"}
         /\ StatusOf(validation, present) = "ready" <=> Pass(validation)
         /\ StatusOf(validation, present) = "needs-validation" => present
BY DEF StatusOf

\* A preflight that rejects names kinds of failures.
LEMMA PreflightKinds ==
  ASSUME NEW original
  PROVE  source_graph_dsl_preflight(original) \subseteq {"content"}
BY DEF source_graph_dsl_preflight

\* What may be attested holds no verified defect.
LEMMA AttestableKinds ==
  ASSUME NEW status, NEW validation, Attestable(status, validation)
  PROVE  /\ status \in {"needs-validation", "failed"}
         /\ validation.failures \subseteq {"check", "answer"}
BY DEF Attestable, Pass, Fail
=============================================================================

--------------------------- MODULE MCExamGrading ---------------------------
(* Instances of ExamGrading for TLC: item 1 is objective, item 2 short-answer. *)
EXTENDS ExamGrading, TLC

CONSTANTS a1, a2, r1, r2, r3, r4

MCShortItems == {2}
MCRightAnswer == [i \in Items |-> a1]

\* What four requests do that may save an answer, submit, and report two items
\* of the result, with a second submission or a discard in place of a report.
MCOneOfEach ==
    [r \in Requests |-> CASE r = r1 -> {"save"}
                          [] r = r2 -> {"submit"}
                          [] r = r3 -> {"submit", "report"}
                          [] r = r4 -> {"discard", "report"}]
MCAnyKind == [r \in Requests |-> Kinds]
MCSaveSubmitReport == [r \in Requests |-> {"save", "submit", "report"}]

\* Requests and workers are interchangeable; used by runs of safety properties
\* in which every request may call the same endpoints.
Symmetry == Permutations(Requests) \union Permutations(Workers)
=============================================================================

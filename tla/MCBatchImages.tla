--------------------------- MODULE MCBatchImages ---------------------------
(* Instances of BatchImages for TLC: a detection finds one box, a learner    *)
(* draws two.                                                                *)
EXTENDS BatchImages, TLC

CONSTANTS detected, drawn

MCSize == [b \in BoxLists |-> IF b = NoBoxes THEN 0 ELSE IF b = drawn THEN 2 ELSE 1]

\* Requests are interchangeable.
Symmetry == Permutations(Requests)
=============================================================================

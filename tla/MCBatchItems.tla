---------------------------- MODULE MCBatchItems ----------------------------
(* Instances of BatchItems for TLC. *)
EXTENDS BatchItems, TLC

CONSTANTS p1, p2

MCOneImage == [i \in Items |-> p1]
MCTwoImages == [i \in Items |-> IF i = 1 THEN p1 ELSE p2]

\* Requests and workers are interchangeable; used by runs of safety properties.
Symmetry == Permutations(Requests) \union Permutations(Workers)
=============================================================================

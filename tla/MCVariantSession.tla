--------------------------- MODULE MCVariantSession ---------------------------
(* Instances of VariantSession for TLC. *)
EXTENDS VariantSession, TLC

\* Submissions are interchangeable, and so are tasks.
Symmetry == Permutations(Submits) \union Permutations(Tasks)
=============================================================================

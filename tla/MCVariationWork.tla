--------------------------- MODULE MCVariationWork ---------------------------
(* Instances of VariationWork for TLC. *)
EXTENDS VariationWork
=============================================================================

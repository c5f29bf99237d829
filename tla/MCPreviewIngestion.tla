------------------------- MODULE MCPreviewIngestion -------------------------
(* Instances of PreviewIngestion for TLC. *)
EXTENDS PreviewIngestion
=============================================================================

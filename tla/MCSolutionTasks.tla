-------------------------- MODULE MCSolutionTasks --------------------------
(* Instances of SolutionTasks for TLC.  The .cfg files give every constant a *)
(* model value or a number; there is no symmetry, because SolutionTasks.cfg   *)
(* checks liveness.                                                           *)
EXTENDS SolutionTasks, TLC
=============================================================================

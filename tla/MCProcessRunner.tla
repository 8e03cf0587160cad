--------------------------- MODULE MCProcessRunner ---------------------------
(***************************************************************************)
(* Instances of ProcessRunner: one caller with room for partial reads and  *)
(* an output limit in the middle of them, and two callers whose forks leak *)
(* each other's pipes.                                                     *)
(***************************************************************************)
EXTENDS ProcessRunner, TLC

CONSTANTS ui, worker

CallerSymmetry == Permutations(Callers)

=============================================================================

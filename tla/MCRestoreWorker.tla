--------------------------- MODULE MCRestoreWorker ---------------------------
(* One worker and another thread that restores and deletes meanwhile.       *)
EXTENDS RestoreWorker

CONSTANTS w1, a1, s1
MCWorkers == {w1}
MCActors == {w1, a1}
MCSnapshots == {s1}
=============================================================================

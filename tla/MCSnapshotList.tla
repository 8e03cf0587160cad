--------------------------- MODULE MCSnapshotList ---------------------------
(* One worker, another thread that restores and deletes, and a scan; of the *)
(* last two one calls.  Beside the snapshot they use there is a file without *)
(* a date.                                                                  *)
EXTENDS SnapshotList

CONSTANTS w1, a1, s1, b1
MCWorkers == {w1}
MCActors == {w1, a1}
MCSnapshots == {s1}
MCBystanders == {b1}
MCUndated == {b1}
=============================================================================

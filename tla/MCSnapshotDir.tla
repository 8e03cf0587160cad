---------------------------- MODULE MCSnapshotDir ----------------------------
(* Two actors, two snapshots, two calls: at once, or one after the other.   *)
EXTENDS SnapshotDir, TLC

CONSTANTS a1, a2, s1, s2
MCActors == {a1, a2}
MCSnapshots == {s1, s2}
Symmetric == Permutations(MCSnapshots) \cup Permutations(MCActors)
=============================================================================

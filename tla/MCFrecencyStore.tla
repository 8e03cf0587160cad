--------------------------- MODULE MCFrecencyStore ---------------------------
(***************************************************************************)
(* Small instances of FrecencyStore: U32Max is 2, so that visits saturate  *)
(* and a hand-edited row of 4 wraps to 1.                                  *)
(***************************************************************************)
EXTENDS FrecencyStore

CONSTANTS p1, p2, a, b

Row(v) == [visits |-> v, last_used |-> 0]
EditedStore == [n \in Names |-> Row(4)]

MCInitialStores == {Missing, Malformed, EditedStore}
=============================================================================

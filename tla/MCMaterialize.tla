---------------------------- MODULE MCMaterialize ----------------------------
(* Two processes materialize the session `dev`, of three windows, the first *)
(* and the last with a command, and one the session `1`; the user may have  *)
(* a session `develop`.                                                     *)
EXTENDS Materialize, TLC

CONSTANTS a1, a2, a3
MCActors == {a1, a2, a3}
MCWanted == (a1 :> "dev") @@ (a2 :> "dev") @@ (a3 :> "1")
MCNames == {"dev", "develop", "1"}
DevelopToo == {<<"dev", "develop">>}
One == {"1"}
MCTemplate == <<TRUE, FALSE, TRUE>>
Alike == Permutations({a1, a2})
=============================================================================

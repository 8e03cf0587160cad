------------------------------- MODULE MCFilter -------------------------------
(* One letter in both cases, the space, `_` and the tab; every row of up to  *)
(* two letters and spaces, and longer ones with all the rest.                *)
EXTENDS Filter

MCLower == {"a"}
MCUpper == {"A"}
MCToLower == [c \in {"A"} |-> "a"]
MCRows == UNION {[1..n -> {"a", "A", " "}] : n \in 0..2}
            \cup {<<"_">>, <<"_", "a">>, <<"a", "_", "a">>, <<"A", "_", "A">>,
                  <<"a", "tab", "a">>, <<"a", "A", "a">>, <<"a", "a", "A">>,
                  <<"a", " ", " ", "a">>, <<"A", "_", "a", "a">>, <<"A", "a", " ", "A">>}
=============================================================================

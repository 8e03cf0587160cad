------------------------------ MODULE MCCmdmode ------------------------------
(* Two commands, `a` taking a session and `ab` a session and a text, one    *)
(* without a schema, `ba`, and three sessions, two of which need quotes.    *)
EXTENDS Cmdmode

MCLetters == {"a", "b"}
MCCommands == {<<"a">>, <<"a", "b">>, <<"b", "a">>}
MCSchema == (<<"a">> :> <<"Session">>) @@ (<<"a", "b">> :> <<"Session", "FreeText">>)
MCSessions == {<<"b">>, <<"b", " ", "a">>, <<"b", "\\", "\"">>}
MCCandidates == [kind \in {"Session"} |-> MCSessions]
=============================================================================

------------------------------ MODULE MCCommands ------------------------------
(* No server, or one with the session `ab`, whose second window has the name *)
(* of a session, and perhaps `a`; others open, close and rename.  A session  *)
(* may be called by a number, which new-window takes for an index.          *)
EXTENDS Commands

A == <<"a">>
AB == <<"a", "b">>
W == <<"w">>
MCTexts == {<<>>, A, AB, <<"1">>, <<"a", ":">>, A \o Delim}
MCWindowNames == {W}
MCPaths == {<<"/">>}
MCTty == <<"t">>
MCCharacters == Signs \cup {" ", "a", "b", "w", "t", "/", ":", "."}

Opens(t, c) == (CHOOSE o \in Effects(t, c) : o.ok).tree
One == Opens(Down(0), NewSession(AB, <<"/">>))
Two == [One EXCEPT !.windows = With(@, 1, [session |-> 0, index |-> 1, name |-> A, layout |-> 0]),
                   !.panes = With(@, 1, [window |-> 1, path |-> <<"/">>, keys |-> 0]),
                   !.next = 2]
MCServers == {Down(0), Two, [Opens(Two, NewSession(A, <<"/">>)) EXCEPT !.client = {0}]}
MCElsewhere == {KillSession(AB), NewSession(<<"a", "|">>, <<"/", "|">>), KillPane(Id("%", 1)),
                RenameWindow(Id("@", 0), <<"w", "|">>), RenameSession(AB, <<"a", "b", ".">>),
                NewSession(A, <<"/">>)}
=============================================================================

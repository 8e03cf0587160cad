------------------------------- MODULE TmuxTree -------------------------------
(***************************************************************************)
(* The tmux server as src/src/tmux/commands.cpp uses it: not part of the   *)
(* repository, modelled from the commands it is sent.  TmuxServer is the   *)
(* server of one template; this one has every command, the lookup of       *)
(* targets, ids that are not used again while the server lives, and texts. *)
(* A server is one record: when its last session ends, so does it, and the *)
(* next one counts its ids from 0 again.                                   *)
(*                                                                         *)
(* A command is [op, target, other, name, path], all texts, and what it    *)
(* does a set of [tree, ok, kind, rows]: the server after it, whether it   *)
(* succeeds, and the records it prints.                                    *)
(***************************************************************************)
EXTENDS Rows

CONSTANTS MaxIds,     \* bound: ids of one server
          Tty,        \* the terminal of the one client
          Characters  \* what texts consist of

Text == Seq(Characters)

\* The characters of what is printed besides names and directories.
Signs == Range(Digits) \cup {"|", "\n", "@", "%", "$", "_", "s", "h", "x"}

NoWindows == [w \in {} |-> 0]

\* Before the first server, and after the one that was born born-th.
Down(born) == [sessions |-> NoWindows, windows |-> NoWindows, panes |-> NoWindows,
               client |-> {}, next |-> 0, born |-> born]

WindowsIn(t, s) == {w \in DOMAIN t.windows : t.windows[w].session = s}
PanesIn(t, w) == {p \in DOMAIN t.panes : t.panes[p].window = w}

\* A window is in a session and a pane in a window, their ids were given out, and no
\* two sessions have the same name.
WellFormed(t) ==
  /\ t \in [sessions : {t.sessions}, windows : {t.windows}, panes : {t.panes},
            client : {t.client}, next : Nat, born : Nat]
  /\ t.sessions = [s \in DOMAIN t.sessions |-> t.sessions[s]]
  /\ t.windows = [w \in DOMAIN t.windows |-> t.windows[w]]
  /\ t.panes = [p \in DOMAIN t.panes |-> t.panes[p]]
  /\ \A w \in DOMAIN t.windows :
       t.windows[w] \in [session : DOMAIN t.sessions, index : {t.windows[w].index},
                         name : {t.windows[w].name}, layout : {0, 1}]
  /\ \A p \in DOMAIN t.panes :
       t.panes[p] \in [window : DOMAIN t.windows, path : {t.panes[p].path}, keys : {0, 1}]
  /\ DOMAIN t.sessions \cup DOMAIN t.windows \cup DOMAIN t.panes \subseteq 0..(t.next - 1)
  /\ t.client \subseteq DOMAIN t.sessions
  /\ \A r, s \in DOMAIN t.sessions : t.sessions[r] = t.sessions[s] => r = s

NothingEmpty(t) ==
  /\ \A w \in DOMAIN t.windows : PanesIn(t, w) # {}
  /\ \A s \in DOMAIN t.sessions : WindowsIn(t, s) # {}

IsServer(t) == WellFormed(t) /\ NothingEmpty(t)

\* What it would print are texts and numbers of one digit.
IsLettered(t) ==
  /\ t.next <= MaxIds
  /\ \A s \in DOMAIN t.sessions : t.sessions[s] \in Text
  /\ \A w \in DOMAIN t.windows : t.windows[w].name \in Text /\ t.windows[w].index \in 0..9
  /\ \A p \in DOMAIN t.panes : t.panes[p].path \in Text

Up(t) == DOMAIN t.sessions # {}
With(f, x, value) == [y \in DOMAIN f \cup {x} |-> IF y = x THEN value ELSE f[y]]
Only(f, S) == [x \in DOMAIN f \cap S |-> f[x]]

\* The server with only these of its panes: what is left empty is closed.
Keeping(t, panes) ==
  LET p == Only(t.panes, panes)
      w == Only(t.windows, {p[x].window : x \in DOMAIN p})
      s == Only(t.sessions, {w[x].session : x \in DOMAIN w})
  IN IF DOMAIN s = {} THEN Down(t.born + 1)
     ELSE [t EXCEPT !.panes = p, !.windows = w, !.sessions = s, !.client = @ \cap DOMAIN s]

FreeIndex(t, s) ==
  CHOOSE i \in 0..9 : /\ \A w \in WindowsIn(t, s) : t.windows[w].index # i
                      /\ \A j \in 0..(i - 1) : \E w \in WindowsIn(t, s) : t.windows[w].index = j

\* A dot or a colon in a session's name becomes an underscore.
Kept(name) == [i \in DOMAIN name |-> IF name[i] \in {".", ":"} THEN "_" ELSE name[i]]

(***************************************************************************)
(* Targets.  An id is a sigil and a digit.  What follows a dot would have  *)
(* to be a pane, and no name of the model is one.  Three forms are left    *)
(* out, none of which comes before an exact name but the last: patterns (a *)
(* name with `*`, `?` or `[`), the windows `!`, `+`, `-` and so on, and    *)
(* `~`, `=` and `{...}` as a whole name.                                   *)
(***************************************************************************)
Sigils == {"%", "@", "$"}
IsId(text, sigil) == Len(text) = 2 /\ text[1] = sigil
Known(text, sigil, S) == {n \in S : text = Id(sigil, n)}

\* The names a text may stand for: the same, or the only one it begins; after
\* a `=` only the same.
Meant(text, S) ==
  LET longer == {n \in S : IsPrefix(text, n)}
  IN IF text[1] = "=" THEN {Tail(text)} \cap S
     ELSE IF text \in S THEN {text} ELSE IF Cardinality(longer) = 1 THEN longer ELSE {}

PanesOf(t, target) == Known(target, "%", DOMAIN t.panes)

WindowsOf(t, target) ==
  IF IsId(target, "%") THEN {t.panes[p].window : p \in PanesOf(t, target)}
  ELSE IF IsId(target, "$") THEN
    UNION {{Max(WindowsIn(t, s))} : s \in Known(target, "$", DOMAIN t.sessions)}
  ELSE Known(target, "@", DOMAIN t.windows)

\* A client's terminal stands for its session, unless a session is called so.
IsClient(t, target) ==
  /\ target \in {Tty, <<"=">> \o Tty}
  /\ t.client # {} /\ Tty \notin Range(t.sessions)

SessionsOf(t, target) ==
  IF target[1] \in Sigils THEN
    IF target[1] = "$" THEN Known(target, "$", DOMAIN t.sessions)
    ELSE {t.windows[w].session : w \in WindowsOf(t, target)}
  ELSE IF "." \in ToSet(target) THEN {}
  ELSE IF IsClient(t, target) THEN t.client
  ELSE {s \in DOMAIN t.sessions : t.sessions[s] \in Meant(target, Range(t.sessions))}

(***************************************************************************)
(* What is printed                                                         *)
(***************************************************************************)
\* One record of each, in an order that is always the same.
Each(S, Record(_)) == LET order == SetToSeq(S) IN [i \in DOMAIN order |-> Record(order[i])]

SessionRows(t) == Each(DOMAIN t.sessions, LAMBDA s :
  [id |-> Id("$", s), name |-> t.sessions[s], windows |-> Cardinality(WindowsIn(t, s)),
   attached |-> s \in t.client, last_activity |-> 5])

WindowRows(t, S) == Each(S, LAMBDA w :
  [session |-> t.sessions[t.windows[w].session], index |-> t.windows[w].index,
   id |-> Id("@", w), name |-> t.windows[w].name,
   active |-> w = Max(WindowsIn(t, t.windows[w].session)), panes |-> Cardinality(PanesIn(t, w))])

PaneRows(t, S) == Each(S, LAMBDA p :
  [window |-> Id("@", t.panes[p].window),
   index |-> Cardinality({q \in PanesIn(t, t.panes[p].window) : q < p}), id |-> Id("%", p),
   command |-> <<"s", "h">>, path |-> t.panes[p].path,
   active |-> p = Max(PanesIn(t, t.panes[p].window))])

ClientRows(t) == Each(t.client, LAMBDA s :
  [pid |-> 7, session |-> t.sessions[s], tty |-> Tty, term |-> <<"x">>])

InfoRows(t) ==
  LET pid == t.born % 10
  IN <<[pid |-> pid, sessions |-> Cardinality(DOMAIN t.sessions), start |-> pid]>>

(***************************************************************************)
(* What commands do                                                        *)
(***************************************************************************)
Prints(t, kind, rows) == {[tree |-> t, ok |-> TRUE, kind |-> kind, rows |-> rows]}
Does(t) == Prints(t, "none", <<>>)
Fails(t) == {[tree |-> t, ok |-> FALSE, kind |-> "none", rows |-> <<>>]}
DoesIf(found, t) == IF found = {} THEN Fails(t) ELSE Does(t)

\* A pane and the window of that number it opens in, printed.
Opened(t, window, name, path, s, index) ==
  LET n == t.next
      w == IF window = n
           THEN With(t.windows, n, [session |-> s, index |-> index, name |-> name, layout |-> 0])
           ELSE t.windows
  IN Prints([t EXCEPT !.windows = w, !.next = n + 1,
                      !.panes = With(@, n, [window |-> window, path |-> path, keys |-> 0])],
            "created", <<[window |-> Id("@", window), pane |-> Id("%", n)]>>)

NewSessionDoes(t, c) ==
  IF Kept(c.target) \in Range(t.sessions) THEN Fails(t)
  ELSE Opened([t EXCEPT !.sessions = With(@, t.next, Kept(c.target))],
              t.next, c.name, c.path, t.next, 0)

\* The target is a window's before it is a session's: of the current session,
\* which any may be, an index (free, or in use) or a name (in use).
NewWindowDoes(t, c) ==
  UNION {
    LET here == WindowsIn(t, current)
        indices == {t.windows[w].index : w \in here}
    IN IF Number(c.target) # {} THEN
         UNION {IF i \in indices THEN Fails(t)
                ELSE Opened(t, t.next, c.name, c.path, current, i) : i \in Number(c.target)}
       ELSE IF Meant(c.target, {t.windows[w].name : w \in here}) # {} THEN Fails(t)
       ELSE IF SessionsOf(t, c.target) = {} THEN Fails(t)
       ELSE UNION {Opened(t, t.next, c.name, c.path, s, FreeIndex(t, s)) :
                     s \in SessionsOf(t, c.target)}
    : current \in DOMAIN t.sessions}

RenameSessionDoes(t, c) ==
  UNION {IF t.sessions[s] = Kept(c.name) THEN Does(t)
         ELSE IF Kept(c.name) \in Range(t.sessions) THEN Fails(t)
         ELSE Does([t EXCEPT !.sessions[s] = Kept(c.name)]) : s \in SessionsOf(t, c.target)}

KillSessionDoes(t, c) ==
  UNION {Does(Keeping(t, {p \in DOMAIN t.panes : t.windows[t.panes[p].window].session # s}))
         : s \in SessionsOf(t, c.target)}

LabelDoes(t, w, name) == Does([t EXCEPT !.windows[w].name = name])
LayoutDoes(t, w) == Does([t EXCEPT !.windows[w].layout = 1])
KeysDo(t, p) == Does([t EXCEPT !.panes[p].keys = 1])
ClientDoes(t, clients) == Does([t EXCEPT !.client = clients])

\* Window v as it is in the place of w.
InPlace(t, v, w) ==
  [t.windows[v] EXCEPT !.session = t.windows[w].session, !.index = t.windows[w].index]

SwapDoes(t, v, w) ==
  Does([t EXCEPT !.windows = [@ EXCEPT ![v] = InPlace(t, v, w), ![w] = InPlace(t, w, v)]])

MoveDoes(t, w, s) ==
  Does(Keeping([t EXCEPT !.windows[w].session = s, !.windows[w].index = FreeIndex(t, s)],
               DOMAIN t.panes))

\* Older servers break the pane off; for newer ones -t is the place it goes to,
\* which is taken.
BreakDoes(t, p) ==
  LET w == t.windows[t.panes[p].window]
  IN Fails(t) \cup
     IF PanesIn(t, t.panes[p].window) = {p} THEN {}
     ELSE Does([t EXCEPT !.windows = With(@, t.next, [w EXCEPT !.index = FreeIndex(t, w.session)]),
                         !.panes[p].window = t.next, !.next = @ + 1])

JoinDoes(t, p, w) ==
  IF t.panes[p].window = w THEN Does(t) \cup Fails(t)
  ELSE Does(Keeping([t EXCEPT !.panes[p].window = w], DOMAIN t.panes))

SwitchDoes(t, c) ==
  IF t.client = {} THEN Fails(t)
  ELSE UNION {ClientDoes(t, {s}) : s \in SessionsOf(t, c.target)}

Outcomes(t, c) ==
  LET S == SessionsOf(t, c.target)
      W == WindowsOf(t, c.target)
      P == PanesOf(t, c.target)
  IN CASE c.op = "list-sessions" -> IF Up(t) THEN Prints(t, "session", SessionRows(t)) ELSE {}
       [] c.op = "list-windows" ->
            UNION {Prints(t, "window", WindowRows(t, WindowsIn(t, s))) : s \in S}
       [] c.op = "list-windows-a" ->
            IF Up(t) THEN Prints(t, "window", WindowRows(t, DOMAIN t.windows)) ELSE {}
       [] c.op = "list-panes" -> UNION {Prints(t, "pane", PaneRows(t, PanesIn(t, w))) : w \in W}
       [] c.op = "list-panes-a" ->
            IF Up(t) THEN Prints(t, "pane", PaneRows(t, DOMAIN t.panes)) ELSE {}
       [] c.op = "list-clients" -> IF Up(t) THEN Prints(t, "client", ClientRows(t)) ELSE {}
       [] c.op = "display-message" -> IF Up(t) THEN Prints(t, "info", InfoRows(t)) ELSE {}
       [] c.op = "show-option" ->
            IF Up(t) THEN UNION {Prints(t, "option", <<[saved |-> o]>>) : o \in {{}, {5}}} ELSE {}
       [] c.op = "has-session" -> DoesIf(S, t)
       [] c.op = "new-session" -> NewSessionDoes(t, c)
       [] c.op = "rename-session" -> RenameSessionDoes(t, c)
       [] c.op = "kill-session" -> KillSessionDoes(t, c)
       [] c.op = "attach-session" -> UNION {ClientDoes(t, {s}) : s \in S}
       [] c.op = "switch-client" -> SwitchDoes(t, c)
       [] c.op = "detach-client" ->
            IF t.client # {} /\ c.target = Tty THEN ClientDoes(t, {}) ELSE {}
       [] c.op = "new-window" -> NewWindowDoes(t, c)
       [] c.op = "rename-window" -> UNION {LabelDoes(t, w, c.name) : w \in W}
       [] c.op = "kill-window" -> UNION {Does(Keeping(t, DOMAIN t.panes \ PanesIn(t, w))) : w \in W}
       [] c.op = "swap-window" -> UNION {SwapDoes(t, v, w) : v \in WindowsOf(t, c.other), w \in W}
       [] c.op = "move-window" -> UNION {MoveDoes(t, w, s) : w \in WindowsOf(t, c.other), s \in S}
       [] c.op \in {"rotate-window", "select-layout"} -> UNION {LayoutDoes(t, w) : w \in W}
       [] c.op = "split-window" ->
            UNION {Opened(t, t.panes[p].window, <<>>, c.path, 0, 0) : p \in P}
       [] c.op = "kill-pane" -> UNION {Does(Keeping(t, DOMAIN t.panes \ {p})) : p \in P}
       [] c.op = "break-pane" -> UNION {BreakDoes(t, p) : p \in P}
       [] c.op = "join-pane" -> UNION {JoinDoes(t, p, w) : p \in PanesOf(t, c.other), w \in W}
       [] c.op = "resize-pane" -> UNION {LayoutDoes(t, t.panes[p].window) : p \in P}
       [] c.op = "send-keys" -> UNION {KeysDo(t, p) : p \in P}
       [] c.op = "capture-pane" -> UNION {Prints(t, "text", <<>>) : p \in P}
       [] c.op = "run-shell" -> IF Up(t) THEN Does(t) \cup Fails(t) ELSE {}
       [] OTHER -> {}

\* A command without a possible outcome is one whose target is not found.
Effects(t, c) ==
  IF Outcomes(t, c) = {} THEN Fails(t) ELSE {o \in Outcomes(t, c) : o.tree.next <= MaxIds}

=============================================================================

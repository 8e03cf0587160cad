------------------------------- MODULE Commands -------------------------------
(***************************************************************************)
(* The tmux command library, src/src/tmux/commands.cpp: each function makes*)
(* the arguments of one command, runs it through the runner, and reads the *)
(* status or the text that comes back.  One caller uses it on a server that*)
(* other clients use too; a command may be given up at its deadline and be *)
(* executed by the server afterwards.  The caller aims commands at ids it  *)
(* has been shown and at names; `attach` (run_attach of cli_commands.cpp)  *)
(* looks a name up and then becomes the tmux client attached to it.        *)
(***************************************************************************)
EXTENDS TmuxTree

CONSTANTS Texts,        \* what the caller would call a session
          WindowNames,  \* names of the windows it makes
          Paths,        \* directories of the panes it makes
          Servers,      \* the servers there may be at first
          Elsewhere,    \* commands the other clients use
          MaxCalls,     \* bound: the caller's calls
          MaxOthers     \* bound: the others' commands

ASSUME CommandsAssumption ==
  /\ MaxCalls \in Nat /\ MaxOthers \in Nat /\ MaxIds \in 0..9
  /\ \A t \in Servers : IsServer(t) /\ IsLettered(t)
  /\ Signs \cup {" "} \subseteq Characters
  /\ Texts \cup WindowNames \cup Paths \cup {Tty} \subseteq Text
  /\ \A c \in Elsewhere : {c.target, c.name, c.path} \subseteq Text

\* The texts that become a SessionName.
Names == UNION {MakeId(text) : text \in Texts}

(***************************************************************************)
(* The functions.  reads: how the answer is read, "status" (call_mutation),*)
(* "bool" (call_status) or the kind of text (call_run).                    *)
(***************************************************************************)
Command(op, target, other, name, path, reads) ==
  [op |-> op, target |-> target, other |-> other, name |-> name, path |-> path, reads |-> reads]
At(op, target, reads) == Command(op, target, <<>>, <<>>, <<>>, reads)
Plain(op, reads) == At(op, <<" ">>, reads)

ListSessions == Plain("list-sessions", "session")
ListWindows(session) == At("list-windows", session, "window")
ListWindowsAll == Plain("list-windows-a", "window")
ListPanes(window) == At("list-panes", window, "pane")
ListPanesAll == Plain("list-panes-a", "pane")
ListClients == Plain("list-clients", "client")
ServerInfo == Plain("display-message", "info")
CapturePane(pane) == At("capture-pane", pane, "text")
ContinuumLastSave == Plain("show-option", "option")
RunShell == Plain("run-shell", "status")
SwitchClient(target) == At("switch-client", target, "status")
DetachClient(tty) == At("detach-client", tty, "status")
SessionExists(name) == At("has-session", name, "bool")
NewSession(name, path) == Command("new-session", name, <<>>, <<>>, path, "status")
NewSessionWithIds(name, window, path) ==
  Command("new-session", name, <<>>, window, path, "created")

RenameSession(old, new) == Command("rename-session", old, <<>>, new, <<>>, "status")
KillSession(name) == At("kill-session", name, "status")
NewWindow(session, name, path) == Command("new-window", session, <<>>, name, path, "status")
NewWindowWithIds(session, name, path) ==
  Command("new-window", session, <<>>, name, path, "created")
RenameWindow(window, name) == Command("rename-window", window, <<>>, name, <<>>, "status")

\* Mutant: the session of the window is killed.
KillWindowSession(window) == At("kill-session", window, "status")

KillWindow(window) == At("kill-window", window, "status")
SwapWindows(lhs, rhs) == Command("swap-window", rhs, lhs, <<>>, <<>>, "status")
\* session_window_target: with the colon only a session is meant.
MoveWindow(window, session) == Command("move-window", session, window, <<>>, <<>>, "status")
SplitPane(pane, path) == Command("split-window", pane, <<>>, <<>>, path, "status")
SplitPaneWithId(pane, path) == Command("split-window", pane, <<>>, <<>>, path, "pane_id")
KillPane(pane) == At("kill-pane", pane, "status")
RotatePanes(window) == At("rotate-window", window, "status")
BreakPane(pane) == At("break-pane", pane, "status")
JoinPane(pane, window) == Command("join-pane", window, pane, <<>>, <<>>, "status")
SelectLayout(window) == At("select-layout", window, "status")
ToggleZoom(pane) == At("resize-pane", pane, "status")
SendKeys(pane) == At("send-keys", pane, "status")

\* A call: the names and ids the caller passes, and the command made of them.
Calls(names, ids, commands) == {[names |-> names, ids |-> ids, command |-> c] : c \in commands}

Unaimed == Calls({}, {}, {ListSessions, ListWindowsAll, ListPanesAll, ListClients, ServerInfo,
                          ContinuumLastSave, RunShell, DetachClient(Tty)})

ByName(n) ==
  Calls({n}, {},
    {ListWindows(n), SwitchClient(n), SessionExists(n), KillSession(n)}
      \cup {NewSession(n, d) : d \in Paths} \cup {RenameSession(n, m) : m \in Names}
      \cup UNION {{NewSessionWithIds(n, w, d), NewWindow(n, w, d), NewWindowWithIds(n, w, d)} :
                    w \in WindowNames, d \in Paths})

ByWindow(w, windows) ==
  Calls({}, {w}, {ListPanes(w), SwitchClient(w), KillWindow(w), RotatePanes(w), SelectLayout(w)}
                   \cup {RenameWindow(w, n) : n \in WindowNames})
    \cup (UNION {Calls({n}, {w}, {MoveWindow(w, n)}) : n \in Names})
    \cup (UNION {Calls({}, {v, w}, {SwapWindows(v, w)}) : v \in windows})

ByPane(p, windows) ==
  Calls({}, {p}, {CapturePane(p), SwitchClient(p), KillPane(p), BreakPane(p), ToggleZoom(p),
                  SendKeys(p)}
                   \cup UNION {{SplitPane(p, d), SplitPaneWithId(p, d)} : d \in Paths})
    \cup (UNION {Calls({}, {p, w}, {JoinPane(p, w)}) : w \in windows})

Offered(windows, panes) ==
  Unaimed \cup (UNION {ByName(n) : n \in Names})
    \cup (UNION {ByWindow(w, windows) : w \in windows})
    \cup (UNION {ByPane(p, windows) : p \in panes})

(***************************************************************************)
(* What is sent back, and how it is read                                   *)
(***************************************************************************)
\* What tmux prints for an outcome, in the form the command asks for.
Output(reads, o) ==
  CASE ~o.ok \/ reads \in {"status", "bool", "text"} -> <<>>
    [] reads \in {"session", "window", "pane", "client"} -> Printed(reads, o.rows)
    [] reads = "info" -> Join(Fields("info", o.rows[1])) \o NewLine
    [] reads = "option" -> (IF o.rows[1].saved = {} THEN <<>> ELSE Digit(5)) \o NewLine
    [] reads = "created" -> Join(<<o.rows[1].window, o.rows[1].pane>>) \o NewLine
    [] reads = "pane_id" -> o.rows[1].pane \o NewLine

Error == [ok |-> FALSE, value |-> {}]
Value(v) == [ok |-> TRUE, value |-> {v}]

\* call_run and add_parse_context
Parsed(reads, text) ==
  LET parsed == CASE reads \in {"session", "window", "pane", "client"} -> ParseRows(reads, text)
                  [] reads = "info" -> ParseInfo(text)
                  [] reads = "option" -> ParseLastSave(text)
                  [] reads = "created" -> ParseCreatedPane(text)
                  [] reads = "pane_id" -> ParseCreatedPaneId(text)
                  [] reads = "text" -> {text}
  IN [ok |-> parsed # {}, value |-> parsed]

\* Mutant: a mutation that tmux refuses is taken for done.
ReadLax(reads, a) ==
  CASE reads \in {"status", "bool"} -> Value(a.ok)
    [] OTHER -> IF a.ok THEN Parsed(reads, a.text) ELSE Error

Read(reads, a) ==
  CASE reads = "bool" -> Value(a.ok)
    [] reads = "status" -> IF a.ok THEN Value(TRUE) ELSE Error
    [] OTHER -> IF a.ok THEN Parsed(reads, a.text) ELSE Error

(***************************************************************************)
(* The caller, the server and the others                                   *)
(***************************************************************************)
VARIABLES
  tree,     \* the server
  pc,       \* the caller: "idle", "waits", or "replaced" by a tmux client
  call,     \* the call made last: {} or a set of one
  attach,   \* it is run_attach's
  pending,  \* the call whose command the server has yet to execute: at most one
  answer,   \* what came back: {} or a set of one
  result,   \* what the caller got of its last call: {} or a set of one
  shown,    \* the window and pane ids it has been shown, and by which server
  late,     \* the calls given up that the server may still execute
  \* History:
  calls, others,
  gaveUp,   \* the call was given up
  outcome   \* what executing it did, and on which server: {} or a set of one

caller == <<pc, call, attach, result, shown, calls, gaveUp>>
vars == <<tree, caller, pending, answer, late, others, outcome>>

Init ==
  /\ tree \in Servers
  /\ pc = "idle" /\ attach = FALSE
  /\ call = {} /\ pending = {} /\ answer = {} /\ result = {} /\ shown = {} /\ late = {}
  /\ calls = 0 /\ others = 0 /\ gaveUp = FALSE /\ outcome = {}

ShownWith(sigil) == {x.id : x \in {y \in shown : y.id[1] = sigil}}

Begin(c, forAttach) ==
  /\ pc = "idle" /\ calls < MaxCalls
  /\ pc' = "waits" /\ calls' = calls + 1
  /\ call' = {c} /\ pending' = {c} /\ attach' = forAttach
  /\ answer' = {} /\ result' = {} /\ outcome' = {} /\ gaveUp' = FALSE
  /\ UNCHANGED <<tree, shown, late, others>>

CallFunction == \E c \in Offered(ShownWith("@"), ShownWith("%")) : Begin(c, FALSE)

\* run_attach
CallAttach == \E n \in Names : \E c \in Calls({n}, {}, {SessionExists(n)}) : Begin(c, TRUE)

\* The outcome a reader of the answer should know of.
Seen(reads, o) ==
  CASE ~o.ok \/ reads \in {"status", "bool", "text"} -> <<>>
    [] reads \in {"info", "option", "created"} -> o.rows[1]
    [] reads = "pane_id" -> [pane |-> o.rows[1].pane]
    [] OTHER -> o.rows

AllClean(reads, o) ==
  reads \in {"session", "window", "pane", "client"} =>
    \A i \in DOMAIN o.rows : \A text \in Range(Fields(reads, o.rows[i])) : Clean(text)

Serve ==
  /\ pending' = {}
  /\ \E c \in pending : \E o \in Effects(tree, c.command) :
       /\ tree' = o.tree
       /\ answer' = {[ok |-> o.ok, text |-> Output(c.command.reads, o)]}
       /\ outcome' = {[ok |-> o.ok, changed |-> o.tree # tree, born |-> tree.born,
                       value |-> Seen(c.command.reads, o), clean |-> AllClean(c.command.reads, o)]}
  /\ UNCHANGED <<caller, late, others>>

\* The ids in what was read.
IdsIn(reads, v) ==
  CASE reads \in {"window", "pane"} -> {v[i].id : i \in DOMAIN v}
    [] reads = "created" -> {v.window, v.pane}
    [] reads = "pane_id" -> {v.pane}
    [] OTHER -> {}

\* The call returns; run_attach goes on if the session is there.  The ids read are
\* those of the server that executed the command, which may be gone by now.
Receive ==
  /\ pc = "waits" /\ ~(attach /\ \E a \in answer : a.ok)
  /\ pc' = "idle"
  /\ \E c \in call, a \in answer, o \in outcome :
       LET r == Read(c.command.reads, a)
       IN /\ result' = {r}
          /\ shown' = shown \cup {[id |-> id, born |-> o.born] :
                                  id \in UNION {IdsIn(c.command.reads, v) : v \in r.value}}
  /\ UNCHANGED <<tree, call, attach, pending, answer, late, calls, others, gaveUp, outcome>>

\* Mutant: attach-session without -t takes any session.
ReplaceProcessAnywhere ==
  /\ pc = "waits" /\ attach /\ \E a \in answer : a.ok
  /\ pc' = "replaced"
  /\ \E c \in call, name \in Range(tree.sessions) :
       pending' = {[c EXCEPT !.command = At("attach-session", name, "status")]}
  /\ answer' = {} /\ outcome' = {}
  /\ UNCHANGED <<tree, call, attach, shown, result, late, calls, others, gaveUp>>

\* exec of `tmux attach-session`, which asks the server anew; or it fails.
ReplaceProcess ==
  /\ pc = "waits" /\ attach /\ \E a \in answer : a.ok
  /\ \/ /\ pc' = "replaced"
        /\ \E c \in call :
             pending' = {[c EXCEPT !.command = At("attach-session", c.command.target, "status")]}
        /\ answer' = {} /\ outcome' = {}
        /\ UNCHANGED result
     \/ /\ pc' = "idle" /\ result' = {Error}
        /\ UNCHANGED <<pending, answer, outcome>>
  /\ UNCHANGED <<tree, call, attach, shown, late, calls, others, gaveUp>>

\* run_command returns an Error: the command may not have been executed yet.
GivesUp ==
  /\ pc = "waits"
  /\ pc' = "idle" /\ result' = {Error} /\ gaveUp' = TRUE
  /\ late' = late \cup pending /\ pending' = {}
  /\ UNCHANGED <<tree, call, attach, answer, shown, calls, others, outcome>>

ServeLate ==
  \E c \in late :
    /\ late' = late \ {c}
    /\ \E o \in Effects(tree, c.command) : tree' = o.tree
    /\ UNCHANGED <<caller, pending, answer, others, outcome>>

Others ==
  /\ others < MaxOthers /\ others' = others + 1
  /\ \E c \in Elsewhere : \E o \in Effects(tree, c) : tree' = o.tree
  /\ UNCHANGED <<caller, pending, answer, late, outcome>>

Next == CallFunction \/ CallAttach \/ Serve \/ Receive \/ ReplaceProcess
        \/ GivesUp \/ ServeLate \/ Others

Spec == Init /\ [][Next]_vars

(***************************************************************************)
(* Properties                                                              *)
(***************************************************************************)
Returned == pc = "idle" /\ result # {}

\* A list, a status or new ids that a function returns are what the server had as
\* it executed the command, and are returned if it had them: provided that no
\* text among them contains the delimiter, ends in a part of it, or contains a
\* line break.
ListingIsTrue ==
  Returned => \A c \in call, o \in outcome, r \in result :
    (o.ok /\ o.clean /\ ~gaveUp /\ c.command.reads \notin {"status", "bool"} /\ ~attach)
      => r = Value(o.value)

\* Success says that the server executed the command and that it did its work (and
\* a Boolean says whether); an Error, of a call not given up, that it changed nothing.
AnswersAreTrue ==
  Returned => \A c \in call, r \in result :
    /\ r.ok => \E o \in outcome :
         IF c.command.reads = "bool" THEN r.value = {o.ok} ELSE o.ok
    /\ (~r.ok /\ ~gaveUp) => \A o \in outcome : ~o.changed

Executes(c) == c \in pending \cup late /\ c \notin pending' \cup late'

Named(n) == {s \in DOMAIN tree.sessions : tree.sessions[s] = n}
AimedAt(c, w) == Id("@", w) \in c.ids
PaneAimedAt(c, p) == Id("%", p) \in c.ids

\* The step leaves a pane as it is, or a window in its place.
KeepsPane(p) == p \in DOMAIN tree'.panes /\ tree'.panes[p] = tree.panes[p]
KeepsWindow(w) ==
  /\ w \in DOMAIN tree'.windows
  /\ \A field \in {"session", "index", "name"} : tree'.windows[w][field] = tree.windows[w][field]

\* A command for windows or panes the caller has been shown, and that is executed
\* by the server that showed them, changes these and nothing else, however late
\* it is executed and whatever was opened, closed and moved in between.
ActsOnTheListed ==
  [][\A c \in pending \cup late :
       (Executes(c) /\ c.ids # {} /\ \A id \in c.ids : [id |-> id, born |-> tree.born] \in shown) =>
         /\ \A p \in DOMAIN tree.panes :
              PaneAimedAt(c, p) \/ AimedAt(c, tree.panes[p].window) \/ KeepsPane(p)
         /\ \A w \in DOMAIN tree.windows :
              AimedAt(c, w) \/ KeepsWindow(w) \/ \A p \in PanesIn(tree, w) : PaneAimedAt(c, p)
     ]_vars

\* A command for a session, attaching included, acts on the one of exactly that
\* name when there is one; except new-window, which takes windows first, and
\* unless the name has the beginning of an id or `=`, which tmux takes off.
ExactNameWins ==
  [][\A c \in pending \cup late : \A n \in c.names : \A s \in Named(n) :
       (Executes(c) /\ c.command.op # "new-window" /\ n[1] \notin Sigils \cup {"="}) =>
         /\ \A w \in DOMAIN tree.windows :
              tree.windows[w].session = s \/ AimedAt(c, w) \/ KeepsWindow(w)
         /\ \A x \in DOMAIN tree.sessions \cap DOMAIN tree'.sessions :
              x # s => tree'.sessions[x] = tree.sessions[x]
         /\ tree'.client \subseteq tree.client \cup {s}
     ]_vars

(***************************************************************************)
(* Three statements that do not hold.                                      *)
(***************************************************************************)
\* Without the exact name nothing is touched (but tmux takes a prefix for it).
ActsOnTheNamed ==
  [][\A c \in pending \cup late : \A n \in c.names :
       (Executes(c) /\ Named(n) = {}) => DOMAIN tree.sessions \subseteq DOMAIN tree'.sessions]_vars

\* What parse.hpp says of the delimiter: no text tmux prints can be confused with
\* it (but a name may end in its beginning).
ListingIsAlwaysTrue ==
  Returned => \A c \in call, o \in outcome, r \in result :
    (o.ok /\ ~gaveUp /\ c.command.reads \in {"session", "window", "pane", "client"})
      => r = Value(o.value)

\* An id stands for what was shown (but the next server counts from 0 again).
IdsAreForEver ==
  [][\A c \in pending \cup late :
       (Executes(c) /\ c.ids # {} /\ ~\E x \in shown : x.born = tree.born) => tree' = tree]_vars

=============================================================================

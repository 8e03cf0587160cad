------------------------------ MODULE TmuxServer ------------------------------
(***************************************************************************)
(* The tmux server as the code in src/src/tmux/commands.cpp uses it: not   *)
(* part of the repository, modelled from the commands sent to it.          *)
(* A session is known by its name.  Panes are numbered as they are made,   *)
(* and the id printed of one counts from the start of its server: a server *)
(* ends with its last session, and the next one begins at 1 again.         *)
(* Every window of the model has one pane, so a pane stands for its window.*)
(* Names are those without the signs tmux reads in a target (= $ @ % { ~ * *)
(* and the like): they mean themselves or begin another.                   *)
(***************************************************************************)
EXTENDS Integers, FiniteSets

CONSTANTS Names,     \* session names
          Prefixes,  \* <<n, m>>: n is a proper prefix of m
          Indexes,   \* the names of digits alone
          MaxPanes   \* bound: panes ever created

ASSUME NamesAssumption ==
  /\ Names # {} /\ Prefixes \subseteq Names \X Names /\ Indexes \subseteq Names
  /\ MaxPanes \in Nat

Panes == 1..MaxPanes

\* Answers: an exit status of zero or not, or the id printed of the pane created.
Yes == 0
No == -1

VARIABLES
  created,  \* how many panes have been created, by all servers
  base,     \* how many of them before the present server: p's id is p - base
  session,  \* session[p]: the name of p's session
  first,    \* first[p]: the first pane of p's session, which identifies it
  origin,   \* origin[p]: the call and the template window p was created for
  typed,    \* typed[p]: the commands typed in p, each with its origin
  alive     \* the panes not yet closed

tmux == <<created, base, session, first, origin, typed, alive>>

Sessions == {session[p] : p \in alive}

\* tmux's lookup of `-t name`: the session of that name, or else the only one
\* whose name it is a prefix of, or else none.
Resolve(name) ==
  LET longer == {n \in Sessions : <<name, n>> \in Prefixes}
  IN IF name \in Sessions THEN {name}
     ELSE IF Cardinality(longer) = 1 THEN longer ELSE {}

\* A new pane in the session called name, identified by f, and its id.
AddPane(name, f, from, answer) ==
  /\ created < MaxPanes
  /\ answer = created + 1 - base
  /\ created' = created + 1
  /\ session' = [session EXCEPT ![created + 1] = name]
  /\ first' = [first EXCEPT ![created + 1] = f]
  /\ origin' = [origin EXCEPT ![created + 1] = from]
  /\ alive' = alive \cup {created + 1}
  /\ UNCHANGED <<base, typed>>

HasSession(name, answer) ==
  /\ answer = IF Resolve(name) # {} THEN Yes ELSE No
  /\ UNCHANGED tmux

NewSession(name, from, answer) ==
  \/ /\ name \notin Sessions
     /\ AddPane(name, created + 1, from, answer)
  \/ /\ name \in Sessions
     /\ answer = No
     /\ UNCHANGED tmux

\* `new-window -t name` looks among the windows of tmux's current session before
\* the sessions.  A name of digits is a place in the current session, whichever
\* that is.  The place taken, or a window of that name there, is a failure.
NewWindow(name, from, answer) ==
  \/ \E p \in alive :
       /\ name \in Indexes \/ Resolve(name) = {session[p]}
       /\ AddPane(session[p], first[p], from, answer)
  \/ /\ answer = No
     /\ UNCHANGED tmux

\* Into the pane that has the id i, of whichever server.
SendKeys(i, from, answer) ==
  \/ /\ base + i \in alive
     /\ typed' = [typed EXCEPT ![base + i] = @ \cup {from}]
     /\ answer = Yes
     /\ UNCHANGED <<created, base, session, first, origin, alive>>
  \/ /\ base + i \notin alive
     /\ answer = No
     /\ UNCHANGED tmux

\* The server ends with its last session.
KillSession(name) ==
  /\ name \in Sessions
  /\ alive' = {p \in alive : session[p] # name}
  /\ base' = IF alive' = {} THEN created ELSE base
  /\ UNCHANGED <<created, session, first, origin, typed>>

=============================================================================

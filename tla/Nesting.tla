------------------------------- MODULE Nesting -------------------------------
(***************************************************************************)
(* count_tmux_in_walk of src/src/nesting.cpp with the walker of            *)
(* src/src/proc.cpp: the parents of a process are followed through /proc,  *)
(* two reads for each, while processes fork, exec and exit and the numbers *)
(* of those that are gone are used again.                                  *)
(***************************************************************************)
EXTENDS Integers, FiniteSets

CONSTANTS Pids,      \* process ids; 1 is init
          Unreadable,\* those whose exe link may not be read
          MaxWalk    \* kMaxWalk

ASSUME NestingAssumption ==
  /\ Pids \subseteq Nat \ {0} /\ 1 \in Pids
  /\ Unreadable \subseteq Pids
  /\ MaxWalk \in Nat \ {0}

VARIABLES
  running,  \* the processes there are
  parent,   \* parent[p]: the parent of p, 0 for init
  tmux,     \* the processes whose executable is tmux
  pc,       \* the walk: "idle", "status", "exe" or "done"
  start,    \* start_pid
  pid,      \* pid
  steps,    \* i
  visited,  \* visited
  up,       \* the parent read from status
  count,    \* count
  \* History:
  counted,  \* the processes counted
  changed   \* whether processes changed since the walk began

processes == <<running, parent, tmux>>
walk == <<pc, start, pid, steps, visited, up, count, counted>>
vars == <<processes, walk, changed>>

Init ==
  /\ running = {1}
  /\ parent = [p \in Pids |-> 0]
  /\ tmux = {}
  /\ pc = "idle" /\ start = 1 /\ pid = 1 /\ steps = 0 /\ visited = {} /\ up = 0 /\ count = 0
  /\ counted = {} /\ changed = FALSE

(***************************************************************************)
(* Processes                                                               *)
(***************************************************************************)
Fork(p, child) ==
  /\ p \in running /\ child \notin running
  /\ running' = running \cup {child}
  /\ parent' = [parent EXCEPT ![child] = p]
  /\ tmux' = IF p \in tmux THEN tmux \cup {child} ELSE tmux
  /\ changed' = TRUE
  /\ UNCHANGED walk

Exec(p) ==
  /\ p \in running \ {1}
  /\ tmux' \in {tmux \cup {p}, tmux \ {p}}
  /\ changed' = TRUE
  /\ UNCHANGED <<running, parent, walk>>

\* The children of a process that ends become init's.
Exit(p) ==
  /\ p \in running \ {1}
  /\ running' = running \ {p}
  /\ parent' = [c \in Pids |-> IF c \in running' /\ parent[c] = p THEN 1
                               ELSE IF c = p THEN 0 ELSE parent[c]]
  /\ tmux' = tmux \ {p}
  /\ changed' = TRUE
  /\ UNCHANGED walk

(***************************************************************************)
(* The walk                                                                *)
(***************************************************************************)
\* Mutant: what was visited is forgotten.
VisitAgain(p, n) ==
  \/ /\ n < MaxWalk
     /\ pc' = "status"
     /\ pid' = p /\ steps' = n
     /\ visited' = visited \cup {p}
  \/ /\ n = MaxWalk
     /\ pc' = "done"
     /\ steps' = n
     /\ UNCHANGED <<pid, visited>>

\* Mutant: one process too few is looked at.
VisitOneLess(p, n) ==
  \/ /\ n < MaxWalk - 1 /\ p \notin visited
     /\ pc' = "status"
     /\ pid' = p /\ steps' = n
     /\ visited' = visited \cup {p}
  \/ /\ n = MaxWalk - 1 \/ p \in visited
     /\ pc' = "done"
     /\ steps' = n
     /\ UNCHANGED <<pid, visited>>

\* The head of the loop, after n processes.
Visit(p, n) ==
  \/ /\ n < MaxWalk /\ p \notin visited
     /\ pc' = "status"
     /\ pid' = p /\ steps' = n
     /\ visited' = visited \cup {p}
  \/ /\ n = MaxWalk \/ p \in visited
     /\ pc' = "done"
     /\ steps' = n
     /\ UNCHANGED <<pid, visited>>

Call(p) ==
  /\ pc = "idle"
  /\ p \in running
  /\ start' = p
  /\ pc' = "status" /\ pid' = p /\ steps' = 0 /\ visited' = {p} /\ up' = 0 /\ count' = 0
  /\ counted' = {} /\ changed' = FALSE
  /\ UNCHANGED processes

\* Mutant: what cannot be read is read again.
ReadAgain ==
  /\ pc = "exe" /\ (pid \notin running \/ pid \in Unreadable)
  /\ pc' = "status"
  /\ UNCHANGED <<processes, start, pid, steps, visited, up, count, counted, changed>>

\* The walker has no answer: the process is gone, or its exe cannot be read.
ReadFails ==
  /\ \/ pc \in {"status", "exe"} /\ pid \notin running
     \/ pc = "exe" /\ pid \in Unreadable
  /\ pc' = "done"
  /\ UNCHANGED <<processes, start, pid, steps, visited, up, count, counted, changed>>

ReadStatus ==
  /\ pc = "status" /\ pid \in running
  /\ up' = parent[pid]
  /\ pc' = "exe"
  /\ UNCHANGED <<processes, start, pid, steps, visited, count, counted, changed>>

\* The process is counted if it is tmux, and its parent is next.
ReadExe ==
  /\ pc = "exe" /\ pid \in running \ Unreadable
  /\ count' = IF pid \in tmux THEN count + 1 ELSE count
  /\ counted' = IF pid \in tmux THEN counted \cup {pid} ELSE counted
  /\ \/ up \in {0, pid} /\ pc' = "done" /\ UNCHANGED <<pid, steps, visited>>
     \/ up \notin {0, pid} /\ Visit(up, steps + 1)
  /\ UNCHANGED <<processes, start, up, changed>>

Return ==
  /\ pc = "done"
  /\ pc' = "idle"
  /\ UNCHANGED <<processes, start, pid, steps, visited, up, count, counted, changed>>

Walk == ReadFails \/ ReadStatus \/ ReadExe \/ Return

Next == \/ \E p, c \in Pids : Fork(p, c)
        \/ \E p \in Pids : Exec(p) \/ Exit(p) \/ Call(p)
        \/ Walk

Spec == Init /\ [][Next]_vars

\* The thread that walks is scheduled; processes owe nothing.
FairSpec == Spec /\ WF_vars(Walk)

(***************************************************************************)
(* Properties                                                              *)
(***************************************************************************)

\* Every variable stays in its type, and the walk in its bound.
TypeOK ==
  /\ running \subseteq Pids /\ 1 \in running
  /\ parent \in [Pids -> Pids \cup {0}]
  /\ tmux \subseteq running
  /\ pc \in {"idle", "status", "exe", "done"}
  /\ start \in Pids /\ pid \in Pids
  /\ steps \in 0..MaxWalk /\ (pc \in {"status", "exe"} => steps < MaxWalk)
  /\ visited \subseteq Pids
  /\ up \in Pids \cup {0}
  /\ count \in 0..MaxWalk
  /\ counted \subseteq visited
  /\ changed \in BOOLEAN

\* No process is counted twice, even if a number used again leads the walk back
\* to where it has been.
NoneCountedTwice == count = Cardinality(counted)

\* Ancestor[n]: the process n generations above start, 0 above init.
Ancestor[n \in 0..MaxWalk] ==
  IF n = 0 THEN start ELSE IF Ancestor[n - 1] = 0 THEN 0 ELSE parent[Ancestor[n - 1]]

\* The ancestors within the walk's reach: none lies above one that is unreadable.
Reached == {n \in 0..(MaxWalk - 1) :
  Ancestor[n] # 0 /\ \A m \in 0..n : Ancestor[m] \notin Unreadable}

\* If no process changed meanwhile, the result is the number of tmux processes
\* among start and its next MaxWalk - 1 ancestors, as far as they can be read.
CountIsExact ==
  (pc = "done" /\ ~changed) => count = Cardinality({n \in Reached : Ancestor[n] \in tmux})

\* The walk ends, whatever processes do meanwhile.
WalkEnds == pc = "status" ~> pc = "done"

=============================================================================

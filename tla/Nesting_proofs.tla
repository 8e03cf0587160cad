---------------------------- MODULE Nesting_proofs ----------------------------
(* The walk of Nesting, for any processes and any bound.                     *)
EXTENDS Nesting, FiniteSetTheorems, WellFoundedInduction, TLAPS

\* The process looked at has been visited but not counted, and no more have
\* been counted than looked at before.
Fresh ==
  pc \in {"status", "exe"} =>
    /\ pid \in visited \ counted
    /\ count <= steps /\ steps < MaxWalk

IInv == TypeOK /\ IsFiniteSet(counted) /\ NoneCountedTwice /\ Fresh

\* Counting one process more, not counted before, adds one to their number.
LEMMA CountOneMore ==
  ASSUME NEW S, IsFiniteSet(S), NEW x, x \notin S
  PROVE IsFiniteSet(S \cup {x}) /\ Cardinality(S \cup {x}) = Cardinality(S) + 1
<1>1. /\ IsFiniteSet(S \cup {x})
      /\ Cardinality(S \cup {x}) = IF x \in S THEN Cardinality(S) ELSE Cardinality(S) + 1
  BY FS_AddElement, Zenon
<1> QED BY <1>1, x \notin S, Zenon

\* The inductive invariant holds before any process is forked.
LEMMA InitInductive == Init => IInv
<1> SUFFICES ASSUME Init PROVE IInv
  OBVIOUS
<1>1. steps \in 0..MaxWalk /\ count \in 0..MaxWalk
  BY NestingAssumption DEF Init
<1>2. parent \in [Pids -> Pids \cup {0}] /\ running \subseteq Pids /\ tmux \subseteq running
  BY NestingAssumption DEF Init
<1>3. changed \in BOOLEAN /\ counted \subseteq visited /\ visited \subseteq Pids
  BY DEF Init
<1>4. TypeOK
  BY <1>1, <1>2, <1>3, NestingAssumption DEF Init, TypeOK
<1>5. IsFiniteSet(counted) /\ NoneCountedTwice
  BY FS_EmptySet DEF Init, NoneCountedTwice
<1>6. Fresh
  BY DEF Init, Fresh
<1> QED BY <1>4, <1>5, <1>6 DEF IInv

\* The loop head keeps the invariant once the process before is accounted for.
LEMMA VisitInductive ==
  ASSUME NEW p \in Pids, NEW n \in 1..MaxWalk, Visit(p, n),
         pid \in Pids, visited \subseteq Pids
  PROVE /\ pc' \in {"status", "done"} /\ pid' \in Pids /\ steps' = n
        /\ visited' \subseteq Pids /\ visited \subseteq visited'
        /\ pc' = "status" => pid' \in visited' \ visited /\ n < MaxWalk
BY DEF Visit

\* No step, of the walk or of a process, breaks the inductive invariant.
LEMMA StepInductive == IInv /\ [Next]_vars => IInv'
<1> SUFFICES ASSUME IInv, [Next]_vars PROVE IInv'
  OBVIOUS
<1> USE NestingAssumption DEF IInv
<1>1. ASSUME NEW p \in Pids, NEW c \in Pids, Fork(p, c) PROVE IInv'
  BY <1>1 DEF Fork, TypeOK, NoneCountedTwice, Fresh, walk
<1>2. ASSUME NEW p \in Pids, Exec(p) PROVE IInv'
  BY <1>2 DEF Exec, TypeOK, NoneCountedTwice, Fresh, walk
<1>3. ASSUME NEW p \in Pids, Exit(p) PROVE IInv'
  <2>1. UNCHANGED walk
    BY <1>3 DEF Exit
  <2>2. /\ running' = running \ {p} /\ p # 1 /\ tmux' = tmux \ {p} /\ changed' = TRUE
    BY <1>3 DEF Exit
  <2>3. parent' \in [Pids -> Pids \cup {0}]
    BY <1>3 DEF Exit, TypeOK
  <2> QED BY <2>1, <2>2, <2>3 DEF TypeOK, NoneCountedTwice, Fresh, walk
<1>4. ASSUME NEW p \in Pids, Call(p) PROVE IInv'
  <2>1. /\ UNCHANGED processes
        /\ pc' = "status" /\ start' = p /\ pid' = p /\ steps' = 0 /\ visited' = {p}
        /\ up' = 0 /\ count' = 0 /\ counted' = {} /\ changed' = FALSE
    BY <1>4 DEF Call
  <2>2. TypeOK'
    <3>1. changed' \in BOOLEAN
      BY <2>1
    <3>2. steps' \in 0..MaxWalk /\ count' \in 0..MaxWalk
      BY <2>1
    <3>3. counted' \subseteq visited' /\ visited' \subseteq Pids
      BY <2>1
    <3>4. UNCHANGED <<running, parent, tmux>>
      BY <2>1 DEF processes
    <3> QED BY <2>1, <3>1, <3>2, <3>3, <3>4 DEF TypeOK
  <2>3. IsFiniteSet(counted') /\ NoneCountedTwice'
    BY <2>1, FS_EmptySet DEF NoneCountedTwice
  <2>4. Fresh'
    BY <2>1 DEF Fresh
  <2> QED BY <2>2, <2>3, <2>4
<1>5. CASE ReadFails
  BY <1>5 DEF ReadFails, TypeOK, NoneCountedTwice, Fresh, processes
<1>6. CASE ReadStatus
  BY <1>6 DEF ReadStatus, TypeOK, NoneCountedTwice, Fresh, processes
<1>7. CASE ReadExe
  <2>1. /\ pid \in visited \ counted /\ count <= steps /\ steps < MaxWalk
        /\ pid \in Pids /\ up \in Pids \cup {0} /\ steps \in Nat
    BY <1>7 DEF ReadExe, TypeOK, Fresh
  <2>2. /\ IsFiniteSet(counted') /\ count' = Cardinality(counted')
        /\ counted' \subseteq visited /\ count' \in 0..(steps + 1)
    <3>1. CASE pid \in tmux
      <4>1. count' = count + 1 /\ counted' = counted \cup {pid}
        BY <1>7, <3>1 DEF ReadExe
      <4>2. IsFiniteSet(counted') /\ Cardinality(counted') = Cardinality(counted) + 1
        BY <2>1, <4>1, CountOneMore
      <4> QED BY <2>1, <4>1, <4>2 DEF TypeOK, NoneCountedTwice
    <3>2. CASE pid \notin tmux
      BY <1>7, <2>1, <3>2 DEF ReadExe, TypeOK, NoneCountedTwice
    <3> QED BY <3>1, <3>2
  <2>3. /\ running' \subseteq Pids /\ 1 \in running' /\ parent' \in [Pids -> Pids \cup {0}]
        /\ tmux' \subseteq running' /\ start' \in Pids /\ up' \in Pids \cup {0}
        /\ changed' \in BOOLEAN
    BY <1>7 DEF ReadExe, TypeOK, processes
  <2>4. CASE up \in {0, pid} /\ pc' = "done" /\ UNCHANGED <<pid, steps, visited>>
    BY <2>1, <2>2, <2>3, <2>4 DEF TypeOK, NoneCountedTwice, Fresh
  <2>5. CASE up \notin {0, pid} /\ Visit(up, steps + 1)
    <3>1. /\ pc' \in {"status", "done"} /\ pid' \in Pids /\ steps' = steps + 1
          /\ visited' \subseteq Pids /\ visited \subseteq visited'
          /\ pc' = "status" => pid' \in visited' \ visited /\ steps + 1 < MaxWalk
      BY <2>1, <2>5, VisitInductive DEF TypeOK
    <3> QED
      BY <2>1, <2>2, <2>3, <3>1 DEF TypeOK, NoneCountedTwice, Fresh
  <2> QED BY <1>7, <2>4, <2>5 DEF ReadExe
<1>8. CASE Return
  BY <1>8 DEF Return, TypeOK, NoneCountedTwice, Fresh, processes
<1>9. CASE UNCHANGED vars
  BY <1>9 DEF vars, walk, processes, TypeOK, NoneCountedTwice, Fresh
<1> QED BY <1>1, <1>2, <1>3, <1>4, <1>5, <1>6, <1>7, <1>8, <1>9 DEF Next, Walk

\* The inductive invariant holds throughout.
THEOREM Inductive == Spec => []IInv
BY InitInductive, StepInductive, PTL DEF Spec

\* Every variable stays in its type; in particular the walk looks at no more
\* than kMaxWalk processes.
THEOREM TypeCorrect == Spec => []TypeOK
<1>1. IInv => TypeOK
  BY DEF IInv
<1> QED BY <1>1, Inductive, PTL

\* No process is counted twice, whatever processes do during the walk.
THEOREM NoneIsCountedTwice == Spec => []NoneCountedTwice
<1>1. IInv => NoneCountedTwice
  BY DEF IInv
<1> QED BY <1>1, Inductive, PTL


(***************************************************************************)
(* The ancestors of the process asked about                                *)
(***************************************************************************)
\* A set of numbers that is not empty has a least one, ...
LEMMA LeastNumber ==
  ASSUME NEW T, T \subseteq Nat, T # {}
  PROVE  \E x \in T : \A y \in T : x <= y
<1> DEFINE R == {ss \in Nat \X Nat : ss[1] < ss[2]}
<1>1. IsWellFoundedOn(R, Nat)
  BY NatLessThanWellFounded DEF OpToRel
<1>2. ASSUME NEW y \in Nat, NEW x \in Nat, y < x
      PROVE  <<y, x>> \in R
  BY <1>2
<1> HIDE DEF R
<1>3. PICK x \in T : \A y \in T : ~(<<y, x>> \in R)
  BY <1>1, WFMin
<1>4. \A y \in T : ~(y < x)
  BY <1>3, <1>2
<1> QED BY <1>4

\* ... which is induction, for a set in place of a property.
LEMMA SetInduction ==
  ASSUME NEW S, 0 \in S, \A n \in Nat : n \in S => n + 1 \in S
  PROVE  Nat \subseteq S
<1>1. SUFFICES ASSUME Nat \ S # {} PROVE FALSE
  OBVIOUS
<1>2. PICK x \in Nat \ S : \A y \in Nat \ S : x <= y
  BY <1>1, LeastNumber
<1>3. x # 0 /\ x - 1 \in Nat
  BY <1>2
<1>4. x - 1 \in S
  BY <1>2, <1>3
<1> QED BY <1>3, <1>4

\* The generation above a process, of the ancestors of p in the forest f.
Above(p, f, g, n) == IF n = 0 THEN p ELSE IF g[n - 1] = 0 THEN 0 ELSE f[g[n - 1]]

Ancestry(p, f, g, k) == g = [n \in 0 .. k |-> Above(p, f, g, n)]

LEMMA AncestryExists ==
  ASSUME NEW p, NEW f
  PROVE  \A k \in Nat : \E g : Ancestry(p, f, g, k)
<1> DEFINE S == {k \in Nat : \E g : Ancestry(p, f, g, k)}
<1>1. 0 \in S
  <2> DEFINE g == [n \in 0 .. 0 |-> p]
  <2>1. Ancestry(p, f, g, 0)
    BY DEF Ancestry, Above
  <2> QED BY <2>1
<1>2. ASSUME NEW k \in Nat, k \in S PROVE k + 1 \in S
  <2>1. PICK g : Ancestry(p, f, g, k)
    BY <1>2
  <2> DEFINE h == [n \in 0 .. k + 1 |-> IF n = k + 1 THEN Above(p, f, g, n) ELSE g[n]]
  <2>2. \A n \in 0 .. k : h[n] = g[n]
    OBVIOUS
  <2>3. ASSUME NEW n \in 0 .. k + 1 PROVE h[n] = Above(p, f, h, n)
    <3>1. n # 0 => n - 1 \in 0 .. k
      OBVIOUS
    <3>2. Above(p, f, h, n) = Above(p, f, g, n)
      BY <2>2, <3>1 DEF Above
    <3>3. n # k + 1 => g[n] = Above(p, f, g, n)
      BY <2>1 DEF Ancestry
    <3> QED BY <3>2, <3>3
  <2>4. Ancestry(p, f, h, k + 1)
    <3>1. h = [n \in 0 .. k + 1 |-> h[n]]
      OBVIOUS
    <3> HIDE DEF h
    <3> QED BY <2>3, <3>1 DEF Ancestry
  <2>5. \E e : Ancestry(p, f, e, k + 1)
    <3> HIDE DEF h
    <3> QED BY <2>4
  <2> QED BY <2>5
<1>3. Nat \subseteq S
  <2> HIDE DEF S
  <2> QED BY <1>1, <1>2, SetInduction
<1> QED BY <1>3

LEMMA AncestorIs ==
  /\ Ancestor[0] = start
  /\ \A n \in 0 .. MaxWalk - 1 :
       Ancestor[n + 1] = IF Ancestor[n] = 0 THEN 0 ELSE parent[Ancestor[n]]
<1>1. Ancestor = CHOOSE g : Ancestry(start, parent, g, MaxWalk)
  BY DEF Ancestor, Ancestry, Above
<1>2. \E g : Ancestry(start, parent, g, MaxWalk)
  BY AncestryExists, NestingAssumption
<1>3. Ancestry(start, parent, Ancestor, MaxWalk)
  BY <1>1, <1>2
<1> HIDE DEF Ancestor
<1>4. \A n \in 0 .. MaxWalk : Ancestor[n] = Above(start, parent, Ancestor, n)
  <2>1. PICK g : g = Ancestor /\ Ancestry(start, parent, g, MaxWalk)
    BY <1>3
  <2> QED BY <2>1 DEF Ancestry
<1>5. Ancestor[0] = start
  BY <1>4, NestingAssumption DEF Above
<1>6. ASSUME NEW n \in 0 .. MaxWalk - 1
      PROVE  Ancestor[n + 1] = IF Ancestor[n] = 0 THEN 0 ELSE parent[Ancestor[n]]
  <2>1. n + 1 \in 0 .. MaxWalk /\ n + 1 # 0 /\ (n + 1) - 1 = n
    BY NestingAssumption
  <2> QED BY <1>4, <2>1 DEF Above
<1> QED BY <1>5, <1>6

LEMMA AncestorKept ==
  ASSUME UNCHANGED <<start, parent>>
  PROVE  Ancestor' = Ancestor
BY DEF Ancestor


\* Nobody is above init.
LEMMA NobodyAbove ==
  ASSUME NEW k \in 0 .. MaxWalk, Ancestor[k] = 0
  PROVE  \A n \in k .. MaxWalk : Ancestor[n] = 0
<1> HIDE DEF Ancestor
<1> DEFINE T == {n \in k .. MaxWalk : Ancestor[n] # 0}
<1>1. SUFFICES ASSUME T # {} PROVE FALSE
  OBVIOUS
<1>2. T \subseteq Nat
  BY NestingAssumption
<1>3. PICK n \in T : \A m \in T : n <= m
  BY <1>1, <1>2, LeastNumber
<1>4. n \in k .. MaxWalk /\ n # k
  BY <1>3
<1>5. n - 1 \in k .. MaxWalk /\ n - 1 \in 0 .. MaxWalk - 1 /\ (n - 1) + 1 = n
  BY <1>4, NestingAssumption
<1>6. n - 1 \notin T
  BY <1>3, <1>5
<1>7. Ancestor[n - 1] = 0
  BY <1>5, <1>6
<1>8. Ancestor[n] = 0
  BY <1>5, <1>7, AncestorIs
<1> QED BY <1>3, <1>8

\* The walk reaches the ancestors it has looked at if the next is none, cannot be
\* read or lies beyond the bound.
LEMMA ReachedIs ==
  ASSUME NEW k \in 0 .. MaxWalk,
         \A m \in 0 .. k - 1 : Ancestor[m] # 0 /\ Ancestor[m] \notin Unreadable,
         k = MaxWalk \/ Ancestor[k] \in Unreadable \cup {0}
  PROVE  Reached = 0 .. k - 1
<1> HIDE DEF Ancestor
<1>1. ASSUME NEW n \in 0 .. k - 1 PROVE n \in Reached
  <2>1. n \in 0 .. MaxWalk - 1 /\ \A m \in 0 .. n : m \in 0 .. k - 1
    BY NestingAssumption
  <2> QED BY <2>1 DEF Reached
<1>2. ASSUME NEW n \in Reached PROVE n \in 0 .. k - 1
  <2>1. n \in 0 .. MaxWalk - 1 /\ Ancestor[n] # 0 /\ \A m \in 0 .. n : Ancestor[m] \notin Unreadable
    BY DEF Reached
  <2> SUFFICES ASSUME n >= k PROVE FALSE
    BY <2>1, NestingAssumption
  <2>2. k # MaxWalk /\ k \in 0 .. n /\ n \in k .. MaxWalk
    BY <2>1, NestingAssumption
  <2>3. Ancestor[k] = 0
    BY <2>1, <2>2
  <2> QED BY <2>1, <2>2, <2>3, NobodyAbove
<1> QED BY <1>1, <1>2

(***************************************************************************)
(* The walk up the forest                                                  *)
(***************************************************************************)
\* Parents are nearer to init than their children: there is no way round.
IsDepth(depth) ==
  /\ depth \in [Pids -> Nat] /\ depth[1] = 0
  /\ \A c \in running \ {1} : parent[c] \in running /\ depth[parent[c]] < depth[c]

Forest == parent[1] = 0 /\ \E depth \in [Pids -> Nat] : IsDepth(depth)

TmuxBelow(k) == {m \in 0 .. k - 1 : Ancestor[m] \in tmux}

\* While no process changes the walk looks at start's ancestors one by one.
Follows ==
  /\ pid = Ancestor[steps]
  /\ \A m \in 0 .. steps : Ancestor[m] \in running
  /\ \A m \in 0 .. steps - 1 : Ancestor[m] \notin Unreadable
  /\ visited = {Ancestor[m] : m \in 0 .. steps}
  /\ \A depth : IsDepth(depth) => \A m \in 0 .. steps : depth[pid] <= depth[Ancestor[m]]
  /\ count = Cardinality(TmuxBelow(steps))
  /\ pc = "exe" => up = parent[pid]

WalksUp == (pc \in {"status", "exe"} /\ ~changed) => Follows

Exact == IInv /\ Forest /\ WalksUp /\ CountIsExact

LEMMA InitForest == Init => Forest
<1> SUFFICES ASSUME Init PROVE Forest
  OBVIOUS
<1> DEFINE d == [p \in Pids |-> 0]
<1>1. d \in [Pids -> Nat] /\ IsDepth(d)
  BY NestingAssumption DEF IsDepth, Init
<1>2. parent[1] = 0
  BY NestingAssumption DEF Init
<1> QED BY <1>1, <1>2 DEF Forest

LEMMA ForkKeepsForest ==
  ASSUME TypeOK, Forest, NEW p \in Pids, NEW child \in Pids, Fork(p, child)
  PROVE  Forest'
<1>1. PICK depth \in [Pids -> Nat] : IsDepth(depth)
  BY DEF Forest
<1> DEFINE d == [depth EXCEPT ![child] = depth[p] + 1]
<1>2. /\ p \in running /\ child \notin running /\ child # 1 /\ child # p
      /\ running' = running \cup {child} /\ parent' = [parent EXCEPT ![child] = p]
      /\ running \subseteq Pids /\ parent \in [Pids -> Pids \cup {0}] /\ 1 \in Pids
  BY NestingAssumption DEF Fork, TypeOK
<1>3. /\ d \in [Pids -> Nat] /\ d[child] = depth[p] + 1
      /\ \A q \in Pids \ {child} : d[q] = depth[q]
  BY <1>1
<1> HIDE DEF d
<1>4. ASSUME NEW c \in running' \ {1} PROVE parent'[c] \in running' /\ d[parent'[c]] < d[c]
  <2>1. CASE c = child
    BY <1>2, <1>3, <2>1
  <2>2. CASE c # child
    <3>1. c \in running \ {1} /\ parent'[c] = parent[c]
      BY <1>2, <2>2
    <3>2. parent[c] \in running /\ depth[parent[c]] < depth[c]
      BY <1>1, <3>1 DEF IsDepth
    <3> QED BY <1>2, <1>3, <2>2, <3>1, <3>2
  <2> QED BY <2>1, <2>2
<1>5. d[1] = 0 /\ parent'[1] = 0
  BY <1>1, <1>2, <1>3 DEF IsDepth, Forest
<1>6. IsDepth(d)'
  BY <1>3, <1>4, <1>5 DEF IsDepth
<1> QED BY <1>3, <1>5, <1>6 DEF Forest

LEMMA ExitKeepsForest ==
  ASSUME TypeOK, Forest, NEW p \in Pids, Exit(p)
  PROVE  Forest'
<1>1. PICK depth \in [Pids -> Nat] : IsDepth(depth)
  BY DEF Forest
<1>2. /\ p \in running \ {1} /\ running' = running \ {p}
      /\ parent' = [c \in Pids |-> IF c \in running' /\ parent[c] = p THEN 1
                                   ELSE IF c = p THEN 0 ELSE parent[c]]
      /\ running \subseteq Pids /\ 1 \in running
  BY DEF Exit, TypeOK
<1>3. ASSUME NEW c \in running' \ {1}
      PROVE  parent'[c] \in running' /\ depth[parent'[c]] < depth[c]
  <2>1. c \in running \ {1} /\ c # p /\ c \in Pids
    BY <1>2
  <2>2. parent[c] \in running /\ depth[parent[c]] < depth[c] /\ depth[1] = 0
    BY <1>1, <2>1 DEF IsDepth
  <2>3. CASE parent[c] = p
    <3>1. parent'[c] = 1
      BY <1>2, <2>1, <2>3
    <3>2. depth[parent[c]] \in Nat /\ depth[c] \in Nat
      BY <1>2, <2>1, <2>2
    <3> QED BY <1>2, <2>2, <3>1, <3>2
  <2>4. CASE parent[c] # p
    <3>1. parent'[c] = parent[c]
      BY <1>2, <2>1, <2>4
    <3> QED BY <1>2, <2>2, <2>4, <3>1
  <2> QED BY <2>3, <2>4
<1>4. parent'[1] = 0
  <2>1. 1 \in Pids /\ 1 # p /\ parent[1] = 0 /\ p # 0
    BY <1>2, NestingAssumption DEF Forest
  <2> QED BY <1>2, <2>1
<1>5. IsDepth(depth)'
  BY <1>1, <1>3 DEF IsDepth
<1> QED BY <1>1, <1>4, <1>5 DEF Forest

LEMMA ForestKept ==
  ASSUME Forest, UNCHANGED <<running, parent>>
  PROVE  Forest'
<1>1. PICK depth \in [Pids -> Nat] : IsDepth(depth)
  BY DEF Forest
<1>2. IsDepth(depth)'
  BY <1>1 DEF IsDepth
<1> QED BY <1>2, <1>1 DEF Forest

LEMMA ForestHolds == TypeOK /\ Forest /\ [Next]_vars => Forest'
<1> SUFFICES ASSUME TypeOK, Forest, [Next]_vars PROVE Forest'
  OBVIOUS
<1>1. ASSUME NEW p \in Pids, NEW c \in Pids, Fork(p, c) PROVE Forest'
  BY <1>1, ForkKeepsForest
<1>2. ASSUME NEW p \in Pids, Exit(p) PROVE Forest'
  BY <1>2, ExitKeepsForest
<1>3. ASSUME NEW p \in Pids, Exec(p) \/ Call(p) PROVE Forest'
  BY <1>3, ForestKept DEF Exec, Call, processes
<1>4. CASE Walk \/ UNCHANGED vars
  BY <1>4, ForestKept DEF Walk, ReadFails, ReadStatus, ReadExe, Return, processes, vars
<1> QED BY <1>1, <1>2, <1>3, <1>4 DEF Next


\* The first one looked at is start itself.
StartFirst == Ancestor[0] = start

LEMMA StartFirstNext == StartFirst'
<1>1. StartFirst
  BY AncestorIs DEF StartFirst
<1> QED BY <1>1, PTL

\* A call begins at start.
LEMMA CallFollows ==
  ASSUME TypeOK, NEW p \in Pids, Call(p)
  PROVE  Follows'
<1>1. /\ UNCHANGED <<running, parent, tmux>> /\ p \in running
      /\ start' = p /\ pc' = "status" /\ pid' = p /\ steps' = 0 /\ visited' = {p}
      /\ count' = 0
  BY DEF Call, processes
<1>2. Ancestor'[0] = p
  BY <1>1, StartFirstNext DEF StartFirst
<1> HIDE DEF Ancestor
<1>3. pid' = Ancestor'[steps'] /\ 0 .. steps' = {0} /\ 0 .. steps' - 1 = {}
  BY <1>1, <1>2
<1>4. /\ \A m \in 0 .. steps' : Ancestor'[m] \in running'
      /\ visited' = {Ancestor'[m] : m \in 0 .. steps'}
  BY <1>1, <1>2, <1>3
<1>5. ASSUME NEW depth, IsDepth(depth)'
      PROVE  \A m \in 0 .. steps' : depth[pid'] <= depth[Ancestor'[m]]
  <2>1. depth[p] \in Nat
    BY <1>5 DEF IsDepth
  <2> QED BY <1>1, <1>2, <1>3, <2>1
<1>6. TmuxBelow(steps)' = {}
  BY <1>3 DEF TmuxBelow
<1>7. count' = Cardinality(TmuxBelow(steps)')
  BY <1>1, <1>6, FS_EmptySet
<1> QED BY <1>1, <1>3, <1>4, <1>5, <1>7 DEF Follows

\* Reading the parent of the process looked at.
LEMMA ReadStatusFollows ==
  ASSUME Follows, ReadStatus
  PROVE  Follows'
<1>1. /\ UNCHANGED <<running, parent, tmux, start, pid, steps, visited, count>>
      /\ up' = parent[pid]
  BY DEF ReadStatus, processes
<1>2. Ancestor' = Ancestor
  BY <1>1, AncestorKept
<1> HIDE DEF Ancestor
<1>3. TmuxBelow(steps)' = TmuxBelow(steps)
  BY <1>1, <1>2 DEF TmuxBelow
<1>4. \A depth : IsDepth(depth)' <=> IsDepth(depth)
  BY <1>1 DEF IsDepth
<1> QED BY <1>1, <1>2, <1>3, <1>4 DEF Follows

\* Counting the process looked at.
LEMMA OneMoreBelow ==
  ASSUME NEW k \in Nat
  PROVE  /\ IsFiniteSet(TmuxBelow(k))
         /\ Cardinality(TmuxBelow(k + 1)) =
              IF Ancestor[k] \in tmux THEN Cardinality(TmuxBelow(k)) + 1
              ELSE Cardinality(TmuxBelow(k))
<1> HIDE DEF Ancestor
<1>1. IsFiniteSet(TmuxBelow(k))
  <2>1. IsFiniteSet(0 .. k - 1) /\ TmuxBelow(k) \subseteq 0 .. k - 1
    BY FS_Interval DEF TmuxBelow
  <2> QED BY <2>1, FS_Subset
<1>2. k \notin TmuxBelow(k)
  BY DEF TmuxBelow
<1>3. CASE Ancestor[k] \in tmux
  <2>1. TmuxBelow(k + 1) = TmuxBelow(k) \cup {k}
    BY <1>3 DEF TmuxBelow
  <2> QED BY <1>1, <1>2, <1>3, <2>1, CountOneMore
<1>4. CASE Ancestor[k] \notin tmux
  <2>1. TmuxBelow(k + 1) = TmuxBelow(k)
    BY <1>4 DEF TmuxBelow
  <2> QED BY <1>1, <1>4, <2>1
<1> QED BY <1>1, <1>3, <1>4

\* The parent read is a process not looked at yet.
LEMMA ParentIsNew ==
  ASSUME TypeOK, Forest, Follows, pc = "exe", up # 0, steps < MaxWalk
  PROVE  /\ up = Ancestor[steps + 1] /\ up \in running /\ up \notin visited
         /\ \A depth : IsDepth(depth) =>
              \A m \in 0 .. steps + 1 : depth[up] <= depth[Ancestor[m]]
<1> HIDE DEF Ancestor
<1>1. /\ pid = Ancestor[steps] /\ pid \in running /\ up = parent[pid] /\ pid # 1
      /\ steps \in 0 .. MaxWalk - 1 /\ steps + 1 \in 0 .. MaxWalk
  <2>1. steps \in 0 .. MaxWalk - 1 /\ steps + 1 \in 0 .. MaxWalk /\ steps \in 0 .. steps
    BY NestingAssumption DEF TypeOK
  <2>2. pid = Ancestor[steps] /\ pid \in running /\ up = parent[pid]
    BY <2>1 DEF Follows
  <2>3. pid # 1
    BY <2>2 DEF Forest
  <2> QED BY <2>1, <2>2, <2>3
<1>2. pid # 0
  BY <1>1, NestingAssumption DEF TypeOK
<1>3. up = Ancestor[steps + 1]
  BY <1>1, <1>2, AncestorIs
<1>4. ASSUME NEW depth, IsDepth(depth)
      PROVE  /\ up \in running /\ \A m \in 0 .. steps : depth[up] < depth[Ancestor[m]]
             /\ \A m \in 0 .. steps + 1 : depth[up] <= depth[Ancestor[m]]
  <2>1. up \in running /\ depth[up] < depth[pid]
    BY <1>1, <1>4 DEF IsDepth
  <2>2. running \subseteq Pids /\ depth \in [Pids -> Nat]
    BY <1>4 DEF TypeOK, IsDepth
  <2>3. ASSUME NEW m \in 0 .. steps PROVE depth[up] < depth[Ancestor[m]]
    <3>1. depth[pid] <= depth[Ancestor[m]] /\ Ancestor[m] \in running
      BY <1>4 DEF Follows
    <3>2. depth[up] \in Nat /\ depth[pid] \in Nat /\ depth[Ancestor[m]] \in Nat
      BY <1>1, <2>1, <2>2, <3>1
    <3> QED BY <2>1, <3>1, <3>2
  <2>4. ASSUME NEW m \in 0 .. steps + 1 PROVE depth[up] <= depth[Ancestor[m]]
    <3>1. CASE m \in 0 .. steps
      <4>1. depth[up] < depth[Ancestor[m]] /\ Ancestor[m] \in running
        BY <2>3, <3>1 DEF Follows
      <4>2. depth[up] \in Nat /\ depth[Ancestor[m]] \in Nat
        BY <2>1, <2>2, <4>1
      <4> QED BY <4>1, <4>2
    <3>2. CASE m = steps + 1
      <4>1. depth[up] \in Nat
        BY <2>1, <2>2
      <4> QED BY <1>3, <3>2, <4>1
    <3> QED BY <1>1, <3>1, <3>2
  <2> QED BY <2>1, <2>3, <2>4
<1>5. PICK depth : IsDepth(depth)
  BY DEF Forest
<1>6. ASSUME up \in visited PROVE FALSE
  <2>1. PICK m \in 0 .. steps : up = Ancestor[m]
    BY <1>6 DEF Follows
  <2>2. depth[up] < depth[up]
    BY <1>4, <1>5, <2>1
  <2>3. depth[up] \in Nat
    BY <1>4, <1>5 DEF TypeOK, IsDepth
  <2> QED BY <2>2, <2>3
<1> QED BY <1>3, <1>4, <1>5, <1>6

\* Going on to the parent, or being done with all that is within reach.
LEMMA ReadExeExact ==
  ASSUME IInv, Forest, Follows, ReadExe
  PROVE  (pc' = "status" => Follows') /\ (pc' = "done" => CountIsExact')
<1> HIDE DEF Ancestor
<1>1. /\ UNCHANGED <<running, parent, tmux, start, up, changed>>
      /\ pc = "exe" /\ pid \in running \ Unreadable
      /\ count' = IF pid \in tmux THEN count + 1 ELSE count
  BY DEF ReadExe, processes
<1>2. /\ steps \in Nat /\ steps < MaxWalk /\ steps + 1 \in Nat /\ steps + 1 \in 0 .. MaxWalk
      /\ pid \in Pids /\ pid # 0
  BY <1>1, NestingAssumption DEF IInv, TypeOK, Fresh
<1>3. Ancestor' = Ancestor
  BY <1>1, AncestorKept
<1>4. count' = Cardinality(TmuxBelow(steps + 1))
  <2>1. pid = Ancestor[steps] /\ count = Cardinality(TmuxBelow(steps))
    BY DEF Follows
  <2> QED BY <1>1, <1>2, <2>1, OneMoreBelow
<1>5. \A m \in 0 .. steps : Ancestor[m] \in running /\ Ancestor[m] \notin Unreadable
  <2>1. ASSUME NEW m \in 0 .. steps PROVE Ancestor[m] \notin Unreadable
    <3>1. m = steps \/ m \in 0 .. steps - 1
      BY <1>2
    <3> QED BY <1>1, <3>1 DEF Follows
  <2> QED BY <2>1 DEF Follows
<1>6. \A m \in 0 .. steps : Ancestor[m] # 0
  BY <1>5, NestingAssumption DEF IInv, TypeOK
<1>7. ASSUME \/ steps + 1 = MaxWalk
             \/ Ancestor[steps + 1] = 0
      PROVE  CountIsExact'
  <2>1. Reached = 0 .. steps
    <3>1. (steps + 1) - 1 = steps
      BY <1>2
    <3> QED BY <1>2, <1>5, <1>6, <1>7, <3>1, ReachedIs
  <2>2. Reached' = Reached
    BY <1>3 DEF Reached
  <2>3. {n \in Reached' : Ancestor'[n] \in tmux'} = TmuxBelow(steps + 1)
    <3>1. (steps + 1) - 1 = steps
      BY <1>2
    <3> QED BY <1>1, <1>3, <2>1, <2>2, <3>1 DEF TmuxBelow
  <2> QED BY <1>4, <2>3 DEF CountIsExact
<1>8. CASE up = 0
  <2>1. Ancestor[steps + 1] = 0
    <3>1. steps \in 0 .. MaxWalk - 1
      BY <1>2, NestingAssumption
    <3> QED BY <1>1, <1>2, <1>8, <3>1, AncestorIs DEF Follows
  <2>2. pc' = "done"
    BY <1>8 DEF ReadExe
  <2> QED BY <1>7, <2>1, <2>2
<1>9. CASE up # 0
  <2>1. /\ up = Ancestor[steps + 1] /\ up \in running /\ up \notin visited
        /\ \A depth : IsDepth(depth) =>
             \A m \in 0 .. steps + 1 : depth[up] <= depth[Ancestor[m]]
    BY <1>1, <1>2, <1>9, ParentIsNew DEF IInv
  <2>2. up # pid
    <3>1. pid \in visited
      BY <1>1 DEF IInv, Fresh
    <3> QED BY <2>1, <3>1
  <2>3. Visit(up, steps + 1)
    BY <1>9, <2>2 DEF ReadExe
  <2>4. CASE steps + 1 = MaxWalk
    <3>1. pc' = "done"
      BY <2>3, <2>4, NestingAssumption DEF Visit
    <3> QED BY <1>7, <2>4, <3>1
  <2>5. CASE steps + 1 # MaxWalk
    <3>1. /\ pc' = "status" /\ pid' = up /\ steps' = steps + 1 /\ visited' = visited \cup {up}
      BY <2>1, <2>3, <2>5 DEF Visit
    <3>2. /\ \A m \in 0 .. steps + 1 : Ancestor[m] \in running
          /\ \A m \in 0 .. (steps + 1) - 1 : Ancestor[m] \notin Unreadable
      <4>1. \A m \in 0 .. steps + 1 : m = steps + 1 \/ m \in 0 .. steps
        BY <1>2
      <4>2. (steps + 1) - 1 = steps
        BY <1>2
      <4> QED BY <1>5, <2>1, <4>1, <4>2
    <3>3. visited' = {Ancestor[m] : m \in 0 .. steps + 1}
      <4>1. visited = {Ancestor[m] : m \in 0 .. steps}
        BY DEF Follows
      <4>2. 0 .. steps + 1 = (0 .. steps) \cup {steps + 1}
        BY <1>2
      <4> QED BY <2>1, <3>1, <4>1, <4>2
    <3>4. \A depth : IsDepth(depth)' <=> IsDepth(depth)
      BY <1>1 DEF IsDepth
    <3>5. TmuxBelow(steps)' = TmuxBelow(steps + 1)
      BY <1>1, <1>3, <3>1 DEF TmuxBelow
    <3>6. Follows'
      BY <1>1, <1>3, <1>4, <2>1, <3>1, <3>2, <3>3, <3>4, <3>5 DEF Follows
    <3> QED BY <3>1, <3>6
  <2> QED BY <2>4, <2>5
<1> QED BY <1>8, <1>9

\* A process whose executable may not be read is where the walk ends.
LEMMA ReadFailsExact ==
  ASSUME IInv, Follows, ReadFails
  PROVE  CountIsExact'
<1> HIDE DEF Ancestor
<1>1. UNCHANGED <<running, parent, tmux, start, pid, steps, visited, count>>
  BY DEF ReadFails, processes
<1>2. steps \in Nat /\ steps < MaxWalk /\ steps \in 0 .. MaxWalk /\ steps \in 0 .. steps
  BY NestingAssumption DEF ReadFails, IInv, TypeOK, Fresh
<1>3. pid = Ancestor[steps] /\ pid \in running
  BY <1>2 DEF Follows
<1>4. pid \in Unreadable
  BY <1>3 DEF ReadFails
<1>5. \A m \in 0 .. steps - 1 : Ancestor[m] # 0 /\ Ancestor[m] \notin Unreadable
  <2>1. \A m \in 0 .. steps - 1 : m \in 0 .. steps
    BY <1>2
  <2>2. 0 \notin running
    BY NestingAssumption DEF IInv, TypeOK
  <2> QED BY <2>1, <2>2 DEF Follows
<1>6. Reached = 0 .. steps - 1
  BY <1>2, <1>3, <1>4, <1>5, ReachedIs
<1>7. Ancestor' = Ancestor
  BY <1>1, AncestorKept
<1>8. {n \in Reached' : Ancestor'[n] \in tmux'} = TmuxBelow(steps)
  BY <1>1, <1>6, <1>7 DEF Reached, TmuxBelow
<1> QED BY <1>1, <1>8 DEF CountIsExact, Follows

LEMMA InitExact == Init => Exact
<1> SUFFICES ASSUME Init PROVE Exact
  OBVIOUS
<1>1. WalksUp /\ CountIsExact
  BY DEF Init, WalksUp, CountIsExact
<1> QED BY <1>1, InitInductive, InitForest DEF Exact

LEMMA StepExact == Exact /\ [Next]_vars => Exact'
<1> SUFFICES ASSUME Exact, [Next]_vars PROVE Exact'
  OBVIOUS
<1>1. IInv' /\ Forest'
  BY StepInductive, ForestHolds DEF Exact, IInv
<1>2. WalksUp' /\ CountIsExact'
  <2>1. ASSUME NEW p \in Pids, NEW c \in Pids, Fork(p, c) \/ Exec(p) \/ Exit(p)
        PROVE  WalksUp' /\ CountIsExact'
    BY <2>1 DEF Fork, Exec, Exit, WalksUp, CountIsExact
  <2>2. ASSUME NEW p \in Pids, Call(p)
        PROVE  WalksUp' /\ CountIsExact'
    <3>1. pc' = "status" /\ Follows'
      BY <2>2, CallFollows DEF Exact, IInv, Call
    <3> QED BY <3>1 DEF WalksUp, CountIsExact
  <2>3. CASE ReadStatus
    <3>1. pc = "status" /\ pc' = "exe" /\ changed' = changed
      BY <2>3 DEF ReadStatus
    <3>2. ~changed => Follows'
      BY <2>3, <3>1, ReadStatusFollows DEF Exact, WalksUp
    <3> QED BY <3>1, <3>2 DEF WalksUp, CountIsExact
  <2>4. CASE ReadExe
    <3>1. pc = "exe" /\ pc' \in {"status", "done"} /\ changed' = changed
      BY <2>4 DEF ReadExe, Visit
    <3>2. ~changed => (pc' = "status" => Follows') /\ (pc' = "done" => CountIsExact')
      BY <2>4, <3>1, ReadExeExact DEF Exact, WalksUp
    <3> QED BY <3>1, <3>2 DEF WalksUp, CountIsExact
  <2>5. CASE ReadFails
    <3>1. pc \in {"status", "exe"} /\ pc' = "done" /\ changed' = changed
      BY <2>5 DEF ReadFails
    <3>2. ~changed => CountIsExact'
      BY <2>5, <3>1, ReadFailsExact DEF Exact, WalksUp
    <3> QED BY <3>1, <3>2 DEF WalksUp, CountIsExact
  <2>6. CASE Return
    BY <2>6 DEF Return, WalksUp, CountIsExact
  <2>7. CASE UNCHANGED vars
    <3>1. /\ UNCHANGED <<running, parent, tmux, pc, start, pid, steps, visited, up, count, changed>>
      BY <2>7 DEF vars, processes, walk
    <3>2. Ancestor' = Ancestor
      BY <3>1, AncestorKept
    <3> HIDE DEF Ancestor
    <3>3. TmuxBelow(steps)' = TmuxBelow(steps) /\ Reached' = Reached
      BY <3>1, <3>2 DEF TmuxBelow, Reached
    <3>4. \A depth : IsDepth(depth)' <=> IsDepth(depth)
      BY <3>1 DEF IsDepth
    <3>5. Follows => Follows'
      BY <3>1, <3>2, <3>3, <3>4 DEF Follows
    <3> QED BY <3>1, <3>2, <3>3, <3>5 DEF Exact, WalksUp, CountIsExact
  <2> QED BY <2>1, <2>2, <2>3, <2>4, <2>5, <2>6, <2>7 DEF Next, Walk
<1> QED BY <1>1, <1>2 DEF Exact

\* If no process changed during the walk, the count is exactly that of the tmux
\* processes among start and its ancestors, as far as the walk reaches.
THEOREM CountsAreExact == Spec => []CountIsExact
<1>1. Spec => []Exact
  BY InitExact, StepExact, PTL DEF Spec
<1>2. Exact => CountIsExact
  BY DEF Exact
<1> QED BY <1>1, <1>2, PTL

=============================================================================

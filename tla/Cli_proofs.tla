------------------------------- MODULE Cli_proofs -------------------------------
(***************************************************************************)
(* The command line program parses the lines of the usage text, however    *)
(* long, gives each template on its own merits and does nothing with       *)
(* defaults that stand for a file.  FoldLeft takes the value of a          *)
(* recursive function whose definition is a CHOOSE: that there is one      *)
(* (FoldExists), and what it is after one more argument (ScanOneMore), is  *)
(* shown by induction over a set of numbers.  After that the arguments     *)
(* grow one action at a time, and what the fold has come to is a part of   *)
(* the inductive invariant.                                                *)
(***************************************************************************)
EXTENDS Cli, WellFoundedInduction, TLAPS

\* A set of numbers that is not empty has a least one.
LEMMA LeastNumber ==
  ASSUME NEW T, T \subseteq Nat, T # {}
  PROVE  \E x \in T : \A y \in T : x <= y
<1> DEFINE R == {ss \in Nat \X Nat : ss[1] < ss[2]}
<1>1. IsWellFoundedOn(R, Nat)
  BY NatLessThanWellFounded DEF OpToRel
<1>2. ASSUME NEW y \in Nat, NEW x \in Nat, y < x
      PROVE  <<y, x>> \in R
  BY <1>2
<1> HIDE DEF R
<1>3. PICK x \in T : \A y \in T : ~(<<y, x>> \in R)
  BY <1>1, WFMin
<1>4. \A y \in T : ~(y < x)
  BY <1>3, <1>2
<1> QED BY <1>4

\* Induction, for a set in place of a property.
LEMMA SetInduction ==
  ASSUME NEW S, 0 \in S, \A n \in Nat : n \in S => n + 1 \in S
  PROVE  Nat \subseteq S
<1>1. SUFFICES ASSUME Nat \ S # {} PROVE FALSE
  OBVIOUS
<1>2. PICK x \in Nat \ S : \A y \in Nat \ S : x <= y
  BY <1>1, LeastNumber
<1>3. x # 0 /\ x - 1 \in Nat
  BY <1>2
<1>4. x - 1 \in S
  BY <1>2, <1>3
<1> QED BY <1>3, <1>4

(***************************************************************************)
(* The fold over the arguments                                             *)
(***************************************************************************)
Scan(a) == FoldLeft(ParseArg, Start, a)

\* The recursive function FoldLeft takes the value of, on the indices S.
Folds(g, a, S) ==
  g = [s \in SUBSET S |-> IF s = {} THEN Start
                          ELSE ParseArg(g[s \ {Max(s)}], a[Max(s)])]

LEMMA ScanIsAFold ==
  ASSUME NEW a
  PROVE  Scan(a) = (CHOOSE g : Folds(g, a, DOMAIN a))[DOMAIN a]
BY DEF Scan, FoldLeft, MapThenFoldSet, Folds

LEMMA Interval ==
  ASSUME NEW n \in Nat
  PROVE  /\ 1 .. n + 1 \in SUBSET (1 .. n + 1)
         /\ n + 1 \in 1 .. n + 1
         /\ 1 .. n + 1 # {}
         /\ (1 .. n + 1) \ {n + 1} = 1 .. n
<1>1. n + 1 \in 1 .. n + 1
  OBVIOUS
<1>2. ASSUME NEW i \in 1 .. n + 1, i # n + 1
      PROVE  i \in 1 .. n
  BY <1>2
<1>3. \A i \in 1 .. n : i \in 1 .. n + 1 /\ i # n + 1
  OBVIOUS
<1>4. (1 .. n + 1) \ {n + 1} = 1 .. n
  BY <1>2, <1>3
<1> QED BY <1>1, <1>4

LEMMA Greatest ==
  ASSUME NEW n \in Nat, NEW s \in SUBSET (1 .. n + 1), n + 1 \in s
  PROVE  Max(s) = n + 1
<1>1. \A y \in s : n + 1 >= y
  OBVIOUS
<1>2. \A x \in s : (\A y \in s : x >= y) => x = n + 1
  BY <1>1
<1> QED BY <1>1, <1>2 DEF Max

LEMMA GreatestIn ==
  ASSUME NEW n \in Nat, NEW s \in SUBSET (1 .. n), s # {}
  PROVE  Max(s) \in s
<1> DEFINE T == {n - x : x \in s}
<1>1. T \subseteq Nat /\ T # {}
  OBVIOUS
<1>2. PICK d \in T : \A y \in T : d <= y
  BY <1>1, LeastNumber
<1>3. PICK x \in s : d = n - x
  BY <1>2
<1>4. \A y \in s : x >= y
  <2> TAKE y \in s
  <2>1. d <= n - y
    BY <1>2
  <2> QED BY <2>1, <1>3
<1>5. \E m \in s : \A y \in s : m >= y
  BY <1>4
<1> QED BY <1>5 DEF Max

\* There is such a function, ...
LEMMA FoldExists ==
  ASSUME NEW a
  PROVE  \A n \in Nat : \E g : Folds(g, a, 1 .. n)
<1> DEFINE S == {n \in Nat : \E g : Folds(g, a, 1 .. n)}
<1>1. 0 \in S
  <2> DEFINE g == [s \in SUBSET (1 .. 0) |-> Start]
  <2>1. \A s \in SUBSET (1 .. 0) : s = {}
    OBVIOUS
  <2>2. Folds(g, a, 1 .. 0)
    BY <2>1 DEF Folds
  <2> QED BY <2>2
<1>2. ASSUME NEW n \in Nat, n \in S
      PROVE  n + 1 \in S
  <2>1. PICK g : Folds(g, a, 1 .. n)
    BY <1>2
  <2> DEFINE h == [s \in SUBSET (1 .. n + 1) |->
                     IF n + 1 \in s THEN ParseArg(g[s \ {n + 1}], a[n + 1]) ELSE g[s]]
             Next1(s) == IF s = {} THEN Start ELSE ParseArg(h[s \ {Max(s)}], a[Max(s)])
  <2>2. ASSUME NEW s \in SUBSET (1 .. n + 1), n + 1 \in s
        PROVE  h[s] = Next1(s)
    <3>1. Max(s) = n + 1
      BY <2>2, Greatest
    <3>2. s \ {n + 1} \in SUBSET (1 .. n + 1) /\ n + 1 \notin s \ {n + 1}
      OBVIOUS
    <3>3. h[s \ {n + 1}] = g[s \ {n + 1}]
      BY <3>2
    <3>4. h[s] = ParseArg(g[s \ {n + 1}], a[n + 1])
      BY <2>2
    <3> HIDE DEF h
    <3> QED BY <3>1, <3>3, <3>4, <2>2
  <2>3. ASSUME NEW s \in SUBSET (1 .. n + 1), n + 1 \notin s
        PROVE  h[s] = Next1(s)
    <3>1. s \in SUBSET (1 .. n)
      BY <2>3
    <3>2. h[s] = g[s]
      BY <2>3
    <3>3. g[s] = IF s = {} THEN Start ELSE ParseArg(g[s \ {Max(s)}], a[Max(s)])
      BY <3>1, <2>1 DEF Folds
    <3>4. s \ {Max(s)} \in SUBSET (1 .. n + 1) /\ n + 1 \notin s \ {Max(s)}
      BY <2>3
    <3>5. h[s \ {Max(s)}] = g[s \ {Max(s)}]
      BY <3>4
    <3> HIDE DEF h
    <3> QED BY <3>2, <3>3, <3>5
  <2>4. \A s \in SUBSET (1 .. n + 1) : h[s] = Next1(s)
    BY <2>2, <2>3
  <2>5. h = [s \in SUBSET (1 .. n + 1) |-> h[s]]
    OBVIOUS
  <2>6. h = [s \in SUBSET (1 .. n + 1) |-> Next1(s)]
    <3> HIDE DEF h
    <3> QED BY <2>4, <2>5
  <2>7. Folds(h, a, 1 .. n + 1)
    <3> HIDE DEF h
    <3> QED BY <2>6 DEF Folds
  <2>8. \E f : Folds(f, a, 1 .. n + 1)
    <3> HIDE DEF h
    <3> QED BY <2>7
  <2> QED BY <2>8
<1>3. Nat \subseteq S
  <2> HIDE DEF S
  <2> QED BY <1>1, <1>2, SetInduction
<1> QED BY <1>3

\* ... and on the first indices two of them agree if the arguments do.
LEMMA FoldsAgree ==
  ASSUME NEW a, NEW b, NEW n \in Nat, NEW m \in Nat, NEW k \in Nat, k <= n, k <= m,
         \A i \in 1 .. k : a[i] = b[i],
         NEW g, NEW h, Folds(g, a, 1 .. n), Folds(h, b, 1 .. m)
  PROVE  g[1 .. k] = h[1 .. k]
<1> DEFINE S == {j \in Nat : j <= k => g[1 .. j] = h[1 .. j]}
<1>1. ASSUME NEW j \in Nat, j <= k
      PROVE  /\ 1 .. j \in SUBSET (1 .. n)
             /\ 1 .. j \in SUBSET (1 .. m)
  BY <1>1
<1>2. 0 \in S
  <2>1. 1 .. 0 = {}
    OBVIOUS
  <2>2. {} \in SUBSET (1 .. n) /\ {} \in SUBSET (1 .. m)
    OBVIOUS
  <2>3. g[{}] = Start /\ h[{}] = Start
    BY <2>2 DEF Folds
  <2> QED BY <2>1, <2>3
<1>3. ASSUME NEW j \in Nat, j \in S
      PROVE  j + 1 \in S
  <2> SUFFICES ASSUME j + 1 <= k PROVE g[1 .. j + 1] = h[1 .. j + 1]
    OBVIOUS
  <2>1. Max(1 .. j + 1) = j + 1
    BY Interval, Greatest
  <2>2. (1 .. j + 1) \ {j + 1} = 1 .. j /\ 1 .. j + 1 # {}
    BY Interval
  <2> DEFINE J == 1 .. j + 1
  <2>3. J \in SUBSET (1 .. n) /\ J \in SUBSET (1 .. m)
    BY <1>1
  <2>4. Max(J) = j + 1 /\ J \ {Max(J)} = 1 .. j /\ J # {}
    BY <2>1, <2>2
  <2> HIDE DEF J
  <2>5. g[J] = ParseArg(g[1 .. j], a[j + 1])
    BY <2>3, <2>4 DEF Folds
  <2>6. h[J] = ParseArg(h[1 .. j], b[j + 1])
    BY <2>3, <2>4 DEF Folds
  <2>7. a[j + 1] = b[j + 1] /\ g[1 .. j] = h[1 .. j]
    BY <1>3
  <2> QED BY <2>5, <2>6, <2>7 DEF J
<1>4. Nat \subseteq S
  <2> HIDE DEF S
  <2> QED BY <1>2, <1>3, SetInduction
<1> QED BY <1>4

LEMMA FoldOfScan ==
  ASSUME NEW a, NEW n \in Nat, DOMAIN a = 1 .. n
  PROVE  \E g : Folds(g, a, 1 .. n) /\ Scan(a) = g[1 .. n]
<1> DEFINE g == CHOOSE f : Folds(f, a, 1 .. n)
<1>1. Folds(g, a, 1 .. n)
  BY FoldExists
<1>2. Scan(a) = g[1 .. n]
  BY ScanIsAFold
<1> HIDE DEF g
<1> QED BY <1>1, <1>2

\* No argument leaves the beginning, and one more is one more step.
LEMMA ScanNothing == Scan(<<>>) = Start
<1>1. DOMAIN <<>> = 1 .. 0 /\ 1 .. 0 = {} /\ {} \in SUBSET (1 .. 0)
  OBVIOUS
<1>2. PICK g : Folds(g, <<>>, 1 .. 0) /\ Scan(<<>>) = g[1 .. 0]
  BY <1>1, FoldOfScan
<1> QED BY <1>1, <1>2 DEF Folds

LEMMA ScanOneMore ==
  ASSUME NEW T, NEW a \in Seq(T), NEW x \in T
  PROVE  Scan(Append(a, x)) = ParseArg(Scan(a), x)
<1> DEFINE n == Len(a)
           b == Append(a, x)
<1>1. /\ n \in Nat /\ DOMAIN a = 1 .. n /\ DOMAIN b = 1 .. n + 1
      /\ \A i \in 1 .. n : b[i] = a[i]
      /\ b[n + 1] = x
  OBVIOUS
<1> HIDE DEF n, b
<1>2. PICK g : Folds(g, a, 1 .. n) /\ Scan(a) = g[1 .. n]
  BY <1>1, FoldOfScan
<1>3. PICK h : Folds(h, b, 1 .. n + 1) /\ Scan(b) = h[1 .. n + 1]
  BY <1>1, FoldOfScan
<1>4. h[1 .. n] = g[1 .. n]
  <2>1. n <= n /\ n <= n + 1 /\ n + 1 \in Nat
    BY <1>1
  <2> QED BY <1>1, <1>2, <1>3, <2>1, FoldsAgree
<1>5. /\ 1 .. n + 1 \in SUBSET (1 .. n + 1) /\ n + 1 \in 1 .. n + 1
      /\ 1 .. n + 1 # {} /\ (1 .. n + 1) \ {n + 1} = 1 .. n
  BY <1>1, Interval
<1>6. Max(1 .. n + 1) = n + 1
  BY <1>1, <1>5, Greatest
<1>7. h[1 .. n + 1] = ParseArg(h[1 .. n], b[n + 1])
  BY <1>3, <1>5, <1>6 DEF Folds
<1> QED BY <1>1, <1>2, <1>3, <1>4, <1>7 DEF b

(***************************************************************************)
(* What the fold is after each argument                                    *)
(***************************************************************************)
Sockets == {"-L", "-S"}
Asides == {"--help", "--version"}

States == [at : {"options", "value", "--help", "--version", "command", "error"},
           option : {Empty, "-L", "-S"},
           socket : {"default", "-L", "-S"} \X Words,
           saw : BOOLEAN,
           command : Words,
           rest : Seq(Words)]

\* How many arguments the socket took.
Taken(t) == IF t.saw THEN 2 ELSE 0

\* What the arguments a must be for t to be reached.
SocketRead(a, t) ==
  IF t.saw
  THEN Len(a) >= 2 /\ a[1] \in Sockets /\ a[2] # Empty /\ t.socket = <<a[1], a[2]>>
  ELSE t.socket = DefaultSocket

Wrong(a, t) ==
  \/ ~t.saw /\ Len(a) >= 2 /\ a[1] \in Sockets /\ a[2] = Empty
  \/ Len(a) >= Taken(t) + 2 /\ a[Taken(t) + 1] \in Asides
  \/ /\ Len(a) >= Taken(t) + 1 /\ a[Taken(t) + 1] \in Dashed \ Asides
     /\ t.saw \/ a[1] \notin Sockets

Read(a, t) ==
  /\ t.at = "options" => Len(a) = Taken(t)
  /\ t.at = "value" => ~t.saw /\ Len(a) = 1 /\ a[1] \in Sockets /\ t.option = a[1]
  /\ t.at \in Asides => Len(a) = Taken(t) + 1 /\ a[Taken(t) + 1] = t.at
  /\ t.at = "command" =>
       /\ Len(a) >= Taken(t) + 1
       /\ a[Taken(t) + 1] \notin Dashed
       /\ t.command = a[Taken(t) + 1]
       /\ t.rest = SubSeq(a, Taken(t) + 2, Len(a))
  /\ t.at = "error" => Wrong(a, t)

Describes(a, t) ==
  /\ t \in States /\ SocketRead(a, t) /\ Read(a, t)
  /\ t.at \in {"options", "value"} => t.rest = <<>>

LEMMA WordsOfOptions ==
  /\ Sockets \subseteq Words /\ Asides \subseteq Words /\ Empty \in Words
  /\ Sockets \subseteq Dashed /\ Asides \subseteq Dashed
  /\ Empty \notin Dashed /\ Subcommands \subseteq Words
  /\ Subcommands \cap Dashed = {}
BY CliAssumption DEF Globals, Sockets, Asides, Subcommands

LEMMA DescribesStart == Describes(<<>>, Start)
<1>1. /\ Start.at = "options" /\ Start.saw = FALSE /\ Start.rest = <<>>
      /\ Start.socket = DefaultSocket /\ Taken(Start) = 0
  BY DEF Start, Taken
<1>2. Start \in States
  BY WordsOfOptions DEF Start, States, DefaultSocket
<1>3. SocketRead(<<>>, Start) /\ Read(<<>>, Start)
  BY <1>1 DEF SocketRead, Read, Asides
<1> QED BY <1>1, <1>2, <1>3 DEF Describes

LEMMA Longer ==
  ASSUME NEW T, NEW a \in Seq(T), NEW x \in T
  PROVE  /\ Append(a, x) \in Seq(T)
         /\ Len(a) \in Nat
         /\ Len(Append(a, x)) = Len(a) + 1
         /\ \A i \in 1 .. Len(a) : Append(a, x)[i] = a[i]
         /\ Append(a, x)[Len(a) + 1] = x
OBVIOUS

LEMMA RestGrows ==
  ASSUME NEW T, NEW a \in Seq(T), NEW x \in T, NEW k \in Nat, k >= 1, k <= Len(a) + 1
  PROVE  SubSeq(Append(a, x), k, Len(a) + 1) = Append(SubSeq(a, k, Len(a)), x)
OBVIOUS

LEMMA WrongStays ==
  ASSUME NEW a \in Seq(Words), NEW x \in Words, NEW t \in States, Wrong(a, t)
  PROVE  Wrong(Append(a, x), t)
<1> DEFINE b == Append(a, x)
<1>1. Taken(t) \in {0, 2}
  BY DEF Taken
<1>2. Len(a) \in Nat /\ Len(b) = Len(a) + 1 /\ \A i \in 1 .. Len(a) : b[i] = a[i]
  BY Longer
<1>3. Len(a) >= 1 => b[1] = a[1]
  BY <1>2
<1>4. Len(a) >= 2 => b[2] = a[2]
  BY <1>2
<1>5. Len(a) >= Taken(t) + 1 => b[Taken(t) + 1] = a[Taken(t) + 1]
  BY <1>1, <1>2
<1> HIDE DEF b
<1>6. CASE ~t.saw /\ Len(a) >= 2 /\ a[1] \in Sockets /\ a[2] = Empty
  BY <1>2, <1>3, <1>4, <1>6 DEF Wrong, b
<1>7. CASE Len(a) >= Taken(t) + 2 /\ a[Taken(t) + 1] \in Asides
  BY <1>1, <1>2, <1>5, <1>7 DEF Wrong, b
<1>8. CASE /\ Len(a) >= Taken(t) + 1 /\ a[Taken(t) + 1] \in Dashed \ Asides
           /\ t.saw \/ a[1] \notin Sockets
  BY <1>1, <1>2, <1>3, <1>5, <1>8 DEF Wrong, b
<1> QED BY <1>6, <1>7, <1>8 DEF Wrong

LEMMA SocketStays ==
  ASSUME NEW a \in Seq(Words), NEW x \in Words, NEW t \in States, SocketRead(a, t)
  PROVE  SocketRead(Append(a, x), t)
<1> DEFINE b == Append(a, x)
<1>1. Len(a) \in Nat /\ Len(b) = Len(a) + 1 /\ \A i \in 1 .. Len(a) : b[i] = a[i]
  BY Longer
<1> HIDE DEF b
<1> QED BY <1>1 DEF SocketRead, b

LEMMA DescribesNext ==
  ASSUME NEW a \in Seq(Words), NEW x \in Words, NEW t, Describes(a, t)
  PROVE  Describes(Append(a, x), ParseArg(t, x))
<1> DEFINE b == Append(a, x)
           u == ParseArg(t, x)
<1>1. /\ t \in States /\ SocketRead(a, t) /\ Read(a, t)
      /\ t.at \in {"options", "value"} => t.rest = <<>>
  BY DEF Describes
<1>2. /\ b \in Seq(Words) /\ Len(a) \in Nat /\ Len(b) = Len(a) + 1
      /\ \A i \in 1 .. Len(a) : b[i] = a[i]
      /\ b[Len(a) + 1] = x
  BY Longer
<1> HIDE DEF b
<1>3. CASE t.at = "value" /\ x # Empty
  <2>1. u = [t EXCEPT !.at = "options", !.socket = <<t.option, x>>, !.saw = TRUE]
    BY <1>3 DEF ParseArg
  <2>2. t.option \in Sockets /\ Len(a) = 1 /\ a[1] = t.option
    BY <1>1, <1>3 DEF Read
  <2>3. /\ u.at = "options" /\ u.saw = TRUE /\ u.socket = <<t.option, x>>
        /\ u.rest = <<>>
    BY <1>1, <1>3, <2>1 DEF States
  <2>6. u \in States
    <3>1. <<t.option, x>> \in {"default", "-L", "-S"} \X Words
      BY <2>2 DEF Sockets
    <3> QED BY <1>1, <2>1, <3>1 DEF States
  <2>4. SocketRead(b, u)
    <3>1. Len(b) = 2 /\ b[1] = t.option /\ b[2] = x
      BY <1>2, <2>2
    <3> QED BY <1>3, <2>2, <2>3, <3>1 DEF SocketRead
  <2>5. Read(b, u)
    BY <1>2, <2>2, <2>3 DEF Read, Taken, Asides
  <2> QED BY <2>3, <2>4, <2>5, <2>6 DEF Describes, b
<1>4. CASE t.at = "options" /\ x \in Asides
  <2>1. u = [t EXCEPT !.at = x]
    BY <1>4, WordsOfOptions DEF ParseArg, Asides, Sockets
  <2>2. u \in States /\ u.at = x /\ u.saw = t.saw /\ u.socket = t.socket /\ Taken(u) = Taken(t)
    BY <1>1, <1>4, <2>1 DEF States, Asides, Taken
  <2>3. SocketRead(b, u)
    BY <1>1, <2>2, SocketStays DEF SocketRead, b
  <2>4. Len(a) = Taken(t)
    BY <1>1, <1>4 DEF Read
  <2>5. Read(b, u)
    BY <1>2, <1>4, <2>2, <2>4 DEF Read, Asides
  <2> QED BY <2>2, <2>3, <2>5, <1>4 DEF Describes, b, Asides
<1>5. CASE t.at = "options" /\ x \in Sockets /\ ~t.saw
  <2>1. u = [t EXCEPT !.at = "value", !.option = x]
    BY <1>5, WordsOfOptions DEF ParseArg, Asides, Sockets
  <2>2. /\ u \in States /\ u.at = "value" /\ u.saw = t.saw /\ u.socket = t.socket
        /\ u.option = x /\ u.rest = <<>>
    BY <1>1, <1>5, <2>1 DEF States, Sockets
  <2>3. SocketRead(b, u)
    BY <1>1, <2>2, SocketStays DEF SocketRead, b
  <2>4. Len(a) = 0
    BY <1>1, <1>5 DEF Read, Taken
  <2>5. Read(b, u)
    BY <1>2, <1>5, <2>2, <2>4 DEF Read, Asides
  <2> QED BY <2>2, <2>3, <2>5 DEF Describes, b
<1>6. CASE t.at = "options" /\ x \notin Dashed
  <2>1. u = [t EXCEPT !.at = "command", !.command = x]
    BY <1>6, WordsOfOptions DEF ParseArg, Asides, Sockets
  <2>2. /\ u \in States /\ u.at = "command" /\ u.saw = t.saw /\ u.socket = t.socket
        /\ u.command = x /\ u.rest = <<>> /\ Taken(u) = Taken(t)
    BY <1>1, <1>6, <2>1 DEF States, Taken
  <2>3. SocketRead(b, u)
    BY <1>1, <2>2, SocketStays DEF SocketRead, b
  <2>4. Len(a) = Taken(t)
    BY <1>1, <1>6 DEF Read
  <2>5. SubSeq(b, Taken(t) + 2, Len(b)) = <<>>
    BY <1>2, <2>4
  <2>6. Read(b, u)
    BY <1>2, <1>6, <2>2, <2>4, <2>5 DEF Read, Asides
  <2> QED BY <2>2, <2>3, <2>6 DEF Describes, b
<1>7. CASE t.at = "command"
  <2>1. u = [t EXCEPT !.rest = Append(t.rest, x)]
    BY <1>7 DEF ParseArg
  <2>2. /\ u \in States /\ u.at = "command" /\ u.saw = t.saw /\ u.socket = t.socket
        /\ u.command = t.command /\ u.rest = Append(t.rest, x) /\ Taken(u) = Taken(t)
    <3>1. t.rest \in Seq(Words)
      BY <1>1 DEF States
    <3>2. Append(t.rest, x) \in Seq(Words)
      BY <3>1
    <3> QED BY <1>1, <1>7, <2>1, <3>2 DEF States, Taken
  <2>3. SocketRead(b, u)
    BY <1>1, <2>2, SocketStays DEF SocketRead, b
  <2>4. /\ Len(a) >= Taken(t) + 1 /\ a[Taken(t) + 1] \notin Dashed
        /\ t.command = a[Taken(t) + 1] /\ t.rest = SubSeq(a, Taken(t) + 2, Len(a))
    BY <1>1, <1>7 DEF Read
  <2>5. Taken(t) \in {0, 2}
    BY DEF Taken
  <2>6. SubSeq(b, Taken(t) + 2, Len(b)) = Append(t.rest, x)
    <3>1. Taken(t) + 2 \in Nat /\ Taken(t) + 2 >= 1 /\ Taken(t) + 2 <= Len(a) + 1
      BY <1>2, <2>4, <2>5
    <3>2. SubSeq(b, Taken(t) + 2, Len(b)) = Append(SubSeq(a, Taken(t) + 2, Len(a)), x)
      BY <3>1, RestGrows DEF b
    <3> QED BY <2>4, <3>2
  <2>7. b[Taken(t) + 1] = a[Taken(t) + 1]
    BY <1>2, <2>4, <2>5
  <2>8. Len(b) >= Taken(t) + 1
    BY <1>2, <2>4, <2>5
  <2>9. Read(b, u)
    BY <2>2, <2>4, <2>6, <2>7, <2>8 DEF Read, Asides
  <2> QED BY <2>2, <2>3, <2>9 DEF Describes, b
<1>8. CASE /\ ~(t.at = "value" /\ x # Empty)
           /\ ~(t.at = "options" /\ x \in Asides)
           /\ ~(t.at = "options" /\ x \in Sockets /\ ~t.saw)
           /\ ~(t.at = "options" /\ x \notin Dashed)
           /\ t.at # "command"
  <2>1. u = [t EXCEPT !.at = "error"]
    BY <1>8 DEF ParseArg, Asides, Sockets
  <2>2. /\ u \in States /\ u.at = "error" /\ u.saw = t.saw /\ u.socket = t.socket
        /\ Taken(u) = Taken(t) /\ Taken(t) \in {0, 2}
    BY <1>1, <2>1 DEF States, Taken
  <2>3. SocketRead(b, u)
    BY <1>1, <2>2, SocketStays DEF SocketRead, b
  <2>4. Wrong(b, t)
    <3>1. CASE t.at = "error"
      BY <1>1, <3>1, WrongStays DEF Read, b
    <3>2. CASE t.at = "value"
      <4>1. ~t.saw /\ Len(a) = 1 /\ a[1] \in Sockets /\ x = Empty
        BY <1>1, <1>8, <3>2 DEF Read
      <4>2. Len(b) = 2 /\ b[1] = a[1] /\ b[2] = x
        BY <1>2, <4>1
      <4> QED BY <4>1, <4>2 DEF Wrong
    <3>3. CASE t.at \in Asides
      <4>1. Len(a) = Taken(t) + 1 /\ a[Taken(t) + 1] \in Asides
        BY <1>1, <3>3 DEF Read
      <4>2. Len(b) = Taken(t) + 2 /\ b[Taken(t) + 1] = a[Taken(t) + 1]
        BY <1>2, <2>2, <4>1
      <4> QED BY <4>1, <4>2 DEF Wrong
    <3>4. CASE t.at = "options"
      <4>1. Len(a) = Taken(t) /\ x \in Dashed \ Asides /\ (t.saw \/ x \notin Sockets)
        BY <1>1, <1>8, <3>4 DEF Read
      <4>2. Len(b) = Taken(t) + 1 /\ b[Taken(t) + 1] = x
        BY <1>2, <4>1
      <4>3. ~t.saw => b[1] = x
        BY <4>2 DEF Taken
      <4> QED BY <4>1, <4>2, <4>3 DEF Wrong
    <3> QED BY <1>1, <1>8, <3>1, <3>2, <3>3, <3>4 DEF States, Asides
  <2>5. Wrong(b, u)
    BY <2>2, <2>4 DEF Wrong
  <2>6. Read(b, u)
    BY <2>2, <2>5 DEF Read, Asides
  <2> QED BY <2>2, <2>3, <2>6 DEF Describes, b
<1> QED BY <1>3, <1>4, <1>5, <1>6, <1>7, <1>8

(***************************************************************************)
(* What the usage text makes of a line                                     *)
(***************************************************************************)
LEMMA FormsAre ==
  ASSUME NEW line, NEW c
  PROVE  c \in Forms(line) <=>
           \/ line \in {<<>>, <<"--help">>} /\ c = Command("help", Empty)
           \/ line = <<"--version">> /\ c = Command("version", Empty)
           \/ line \in {<<"save">>, <<"list-templates">>} /\ c = Command(line[1], Empty)
           \/ /\ Len(line) = 2 /\ line[1] = "attach"
              /\ line[2] \notin NotSessionNames /\ line[2] \notin Globals
              /\ c = Command("attach", line[2])
           \/ /\ Len(line) = 3 /\ line[1] = "materialize"
              /\ \A i \in {2, 3} : line[i] # Empty /\ line[i] \notin Globals
              /\ c = Command("materialize", line[2])
BY Zenon DEF Forms

LEMMA OneWord ==
  ASSUME NEW T, NEW line \in Seq(T), NEW w
  PROVE  line = <<w>> <=> Len(line) = 1 /\ line[1] = w
<1>1. ASSUME line = <<w>> PROVE Len(line) = 1 /\ line[1] = w
  BY <1>1
<1>2. ASSUME Len(line) = 1, line[1] = w PROVE line = <<w>>
  BY <1>2
<1> QED BY <1>1, <1>2

LEMMA FormsOfOptions ==
  ASSUME NEW line \in Seq(Words)
  PROVE  /\ line = <<>> => Forms(line) = {Command("help", Empty)}
         /\ Len(line) = 1 /\ line[1] = "--help" => Forms(line) = {Command("help", Empty)}
         /\ Len(line) = 1 /\ line[1] = "--version" => Forms(line) = {Command("version", Empty)}
         /\ (/\ Len(line) >= 1 /\ line[1] \in Dashed
             /\ ~(Len(line) = 1 /\ line[1] \in Asides)) => Forms(line) = {}
<1>1. Len(line) \in Nat /\ (Len(line) = 0 <=> line = <<>>)
  OBVIOUS
<1>2. \A w : line = <<w>> <=> Len(line) = 1 /\ line[1] = w
  BY OneWord
<1>3. ASSUME line = <<>> PROVE Forms(line) = {Command("help", Empty)}
  <2>1. Len(line) = 0
    BY <1>3
  <2>2. \A w : line # <<w>>
    BY <1>2, <2>1
  <2>3. \A c : c \in Forms(line) <=> c = Command("help", Empty)
    BY <1>3, <2>1, <2>2, FormsAre
  <2> QED BY <2>3
<1>4. ASSUME Len(line) = 1, line[1] = "--help" PROVE Forms(line) = {Command("help", Empty)}
  <2>1. /\ line = <<"--help">> /\ line # <<"--version">>
        /\ line # <<"save">> /\ line # <<"list-templates">>
    BY <1>2, <1>4
  <2>2. \A c : c \in Forms(line) <=> c = Command("help", Empty)
    BY <1>4, <2>1, FormsAre
  <2> QED BY <2>2
<1>5. ASSUME Len(line) = 1, line[1] = "--version" PROVE Forms(line) = {Command("version", Empty)}
  <2>1. /\ line # <<"--help">> /\ line = <<"--version">> /\ line # <<"save">>
        /\ line # <<"list-templates">> /\ line # <<>>
    BY <1>1, <1>2, <1>5
  <2>2. \A c : c \in Forms(line) <=> c = Command("version", Empty)
    BY <1>5, <2>1, FormsAre
  <2> QED BY <2>2
<1>6. ASSUME Len(line) >= 1, line[1] \in Dashed, ~(Len(line) = 1 /\ line[1] \in Asides)
      PROVE  Forms(line) = {}
  <2>1. line[1] \notin Subcommands
    BY <1>6, WordsOfOptions
  <2>2. /\ line # <<"--help">> /\ line # <<"--version">> /\ line # <<"save">>
        /\ line # <<"list-templates">> /\ line # <<>>
    BY <1>1, <1>2, <1>6, <2>1 DEF Asides, Subcommands
  <2>3. line[1] # "attach" /\ line[1] # "materialize"
    BY <2>1 DEF Subcommands
  <2>4. \A c : c \notin Forms(line)
    BY <2>2, <2>3, FormsAre
  <2> QED BY <2>4
<1> QED BY <1>3, <1>4, <1>5, <1>6

\* The arguments after the subcommand.
LEMMA RestOf ==
  ASSUME NEW line \in Seq(Words), Len(line) >= 1
  PROVE  LET rest == SubSeq(line, 2, Len(line))
         IN  /\ rest \in Seq(Words) /\ Len(rest) = Len(line) - 1
             /\ \A i \in 1 .. Len(line) - 1 : rest[i] = line[i + 1]
             /\ ToSet(rest) = {line[i] : i \in 2 .. Len(line)}
<1> DEFINE rest == SubSeq(line, 2, Len(line))
<1>1. rest \in Seq(Words) /\ Len(rest) = Len(line) - 1 /\ Len(line) \in Nat
  <2>1. Len(line) \in Nat /\ Len(line) - 2 + 1 = Len(line) - 1
    OBVIOUS
  <2> QED BY <2>1
<1>2. ASSUME NEW i \in 1 .. Len(line) - 1 PROVE rest[i] = line[i + 1]
  <2>1. i \in 1 .. Len(line) - 2 + 1 /\ 2 + i - 1 = i + 1 /\ i + 2 - 1 = i + 1
    OBVIOUS
  <2> QED BY <2>1
<1>3. DOMAIN rest = 1 .. Len(line) - 1
  BY <1>1
<1> HIDE DEF rest
<1>4. ASSUME NEW w \in ToSet(rest) PROVE w \in {line[i] : i \in 2 .. Len(line)}
  <2>1. PICK i \in 1 .. Len(line) - 1 : w = rest[i]
    BY <1>3 DEF ToSet
  <2>2. i + 1 \in 2 .. Len(line)
    BY <1>1
  <2> QED BY <1>2, <2>1, <2>2
<1>5. ASSUME NEW i \in 2 .. Len(line) PROVE line[i] \in ToSet(rest)
  <2>1. i - 1 \in 1 .. Len(line) - 1 /\ (i - 1) + 1 = i
    BY <1>1
  <2>2. rest[i - 1] = line[i]
    BY <1>2, <2>1
  <2> QED BY <1>3, <2>1, <2>2 DEF ToSet
<1>6. ToSet(rest) = {line[i] : i \in 2 .. Len(line)}
  BY <1>4, <1>5
<1> QED BY <1>1, <1>2, <1>6 DEF rest

LEMMA FormsOfCommand ==
  ASSUME NEW line \in Seq(Words), Len(line) >= 1, line[1] \notin Dashed
  PROVE  Forms(line) = ParseCommand(line[1], SubSeq(line, 2, Len(line)))
<1> DEFINE rest == SubSeq(line, 2, Len(line))
           words == {line[i] : i \in 2 .. Len(line)}
<1>1. /\ rest \in Seq(Words) /\ Len(rest) = Len(line) - 1
      /\ \A i \in 1 .. Len(line) - 1 : rest[i] = line[i + 1]
      /\ ToSet(rest) = words
  BY RestOf
<1>2. Len(line) \in Nat
  OBVIOUS
<1>3. line # <<>> /\ line # <<"--help">> /\ line # <<"--version">>
  BY WordsOfOptions DEF Asides
<1>4. /\ line = <<"save">> <=> Len(line) = 1 /\ line[1] = "save"
      /\ line = <<"list-templates">> <=> Len(line) = 1 /\ line[1] = "list-templates"
  BY OneWord
<1> HIDE DEF rest
<1>5. rest = <<>> <=> Len(line) = 1
  <2>1. rest = <<>> <=> Len(rest) = 0
    BY <1>1
  <2> QED BY <1>1, <1>2, <2>1
<1>6. CASE line[1] = "attach" /\ Len(line) = 2
  <2>1. words = {line[2]}
    <3>1. 2 .. Len(line) = {2}
      BY <1>6
    <3> QED BY <3>1
  <2>2. Len(rest) = 1
    BY <1>1, <1>6
  <2>3. ParseCommand(line[1], rest) =
          IF line[2] \in Globals THEN {}
          ELSE {Command("attach", name) : name \in {line[2]} \ NotSessionNames}
    <3> HIDE DEF words
    <3>1. (words \cap Globals # {}) <=> line[2] \in Globals
      BY <2>1
    <3> QED BY <1>1, <1>6, <2>1, <2>2, <3>1 DEF ParseCommand
  <2>4. \A c : c \in Forms(line) <=> c \in ParseCommand(line[1], rest)
    <3> HIDE DEF words
    <3> QED BY <1>3, <1>4, <1>6, <2>3, FormsAre
  <2> QED BY <2>4 DEF rest
<1>7. CASE line[1] \in {"save", "list-templates"} /\ Len(line) = 1
  <2>1. words = {}
    <3>1. 2 .. Len(line) = {}
      BY <1>7
    <3> QED BY <3>1
  <2>2. Len(rest) = 0 /\ rest = <<>>
    BY <1>1, <1>5, <1>7
  <2>3. ParseCommand(line[1], rest) = {Command(line[1], Empty)}
    <3> HIDE DEF words
    <3> QED BY <1>1, <1>7, <2>1, <2>2 DEF ParseCommand
  <2>4. \A c : c \in Forms(line) <=> c = Command(line[1], Empty)
    <3> HIDE DEF words
    <3> QED BY <1>3, <1>4, <1>7, FormsAre
  <2> QED BY <2>3, <2>4 DEF rest
<1>8. CASE line[1] = "materialize" /\ Len(line) = 3
  <2>1. words = {line[2], line[3]}
    <3>1. 2 .. Len(line) = {2, 3}
      BY <1>8
    <3> QED BY <3>1
  <2>2. Len(rest) = 2 /\ rest[1] = line[2]
    BY <1>1, <1>8
  <2>3. ParseCommand(line[1], rest) =
          IF line[2] \in Globals \/ line[3] \in Globals \/ Empty \in {line[2], line[3]} THEN {}
          ELSE {Command("materialize", line[2])}
    <3> HIDE DEF words
    <3>1. (words \cap Globals # {}) <=> line[2] \in Globals \/ line[3] \in Globals
      BY <2>1
    <3>2. ParseCommand(line[1], rest) =
            IF ToSet(rest) \cap Globals # {} \/ Empty \in ToSet(rest) THEN {}
            ELSE {Command("materialize", rest[1])}
      BY <1>8, <2>2 DEF ParseCommand
    <3> QED BY <1>1, <2>1, <2>2, <3>1, <3>2
  <2>4. \A c : c \in Forms(line) <=>
          /\ \A i \in {2, 3} : line[i] # Empty /\ line[i] \notin Globals
          /\ c = Command("materialize", line[2])
    <3> HIDE DEF words
    <3> QED BY <1>3, <1>4, <1>8, FormsAre
  <2>5. \A c : c \in Forms(line) <=> c \in ParseCommand(line[1], rest)
    <3> HIDE DEF words
    <3> QED BY <2>3, <2>4
  <2> QED BY <2>5 DEF rest
<1>9. CASE /\ ~(line[1] = "attach" /\ Len(line) = 2)
           /\ ~(line[1] \in {"save", "list-templates"} /\ Len(line) = 1)
           /\ ~(line[1] = "materialize" /\ Len(line) = 3)
  <2> HIDE DEF words
  <2>1. /\ ~(line[1] = "attach" /\ Len(rest) = 1)
        /\ ~(line[1] \in {"save", "list-templates"} /\ rest = <<>>)
        /\ ~(line[1] = "materialize" /\ Len(rest) = 2)
    BY <1>1, <1>2, <1>5, <1>9
  <2>2. ParseCommand(line[1], rest) = {}
    BY <2>1 DEF ParseCommand
  <2>3. \A c : c \notin Forms(line)
    BY <1>3, <1>4, <1>9, FormsAre
  <2> QED BY <2>2, <2>3 DEF rest
<1> QED BY <1>6, <1>7, <1>8, <1>9


(***************************************************************************)
(* parse_args against the usage text                                       *)
(***************************************************************************)
\* The command line without its socket.
Line(a, t) == IF t.saw THEN SubSeq(a, 3, Len(a)) ELSE a

\* What the usage text makes of all the arguments.
Usage(a) ==
  IF Len(a) > 1 /\ a[1] \in {"-L", "-S"}
  THEN IF a[2] = Empty THEN {} ELSE Requests(<<a[1], a[2]>>, SubSeq(a, 3, Len(a)))
  ELSE Requests(DefaultSocket, a)

\* What parse_args makes of where the fold ended.
Asked(t) ==
  CASE t.at \in {"options", "--help"} -> {Command("help", Empty)}
    [] t.at = "--version" -> {Command("version", Empty)}
    [] t.at = "command" -> ParseCommand(t.command, t.rest)
    [] OTHER -> {}

LEMMA ParseArgsIs ==
  ASSUME NEW a
  PROVE  ParseArgs(a) = {[socket |-> Scan(a).socket, command |-> c] : c \in Asked(Scan(a))}
BY DEF ParseArgs, Scan, Asked

LEMMA LineOf ==
  ASSUME NEW a \in Seq(Words), NEW t \in States, SocketRead(a, t)
  PROVE  /\ Line(a, t) \in Seq(Words)
         /\ Len(Line(a, t)) = Len(a) - Taken(t)
         /\ Taken(t) \in {0, 2}
         /\ Len(a) \in Nat
         /\ \A i \in 1 .. Len(a) - Taken(t) : Line(a, t)[i] = a[Taken(t) + i]
<1>1. CASE t.saw
  <2>1. Len(a) \in Nat /\ Len(a) >= 2 /\ Taken(t) = 2 /\ Line(a, t) = SubSeq(a, 3, Len(a))
    BY <1>1 DEF SocketRead, Taken, Line
  <2>2. SubSeq(a, 3, Len(a)) \in Seq(Words) /\ Len(SubSeq(a, 3, Len(a))) = Len(a) - 2
    <3>1. 3 \in 1 .. Len(a) + 1 /\ Len(a) - 3 + 1 = Len(a) - 2
      BY <2>1
    <3>2. Len(SubSeq(a, 3, Len(a))) = Len(a) - 3 + 1
      BY <2>1
    <3>3. SubSeq(a, 3, Len(a)) \in Seq(Words)
      BY <2>1, <3>1
    <3> QED BY <3>1, <3>2, <3>3
  <2>3. ASSUME NEW i \in 1 .. Len(a) - 2 PROVE SubSeq(a, 3, Len(a))[i] = a[2 + i]
    <3>1. i \in 1 .. Len(a) - 3 + 1 /\ 3 + i - 1 = 2 + i /\ i + 3 - 1 = 2 + i
      BY <2>1
    <3> QED BY <2>1, <3>1
  <2> QED BY <2>1, <2>2, <2>3
<1>2. CASE ~t.saw
  BY <1>2 DEF Taken, Line
<1> QED BY <1>1, <1>2

LEMMA UsageOfLine ==
  ASSUME NEW a \in Seq(Words), NEW t \in States, SocketRead(a, t),
         t.saw \/ ~(Len(a) > 1 /\ a[1] \in Sockets)
  PROVE  Usage(a) = Requests(t.socket, Line(a, t))
<1>1. Len(a) \in Nat
  OBVIOUS
<1>2. CASE t.saw
  <2>1. Len(a) > 1 /\ a[1] \in {"-L", "-S"} /\ a[2] # Empty /\ t.socket = <<a[1], a[2]>>
    BY <1>1, <1>2 DEF SocketRead, Sockets
  <2> QED BY <1>2, <2>1 DEF Usage, Line
<1>3. CASE ~t.saw
  <2>1. t.socket = DefaultSocket /\ ~(Len(a) > 1 /\ a[1] \in {"-L", "-S"})
    BY <1>3 DEF SocketRead, Sockets
  <2> QED BY <1>3, <2>1 DEF Usage, Line
<1> QED BY <1>2, <1>3

\* The line is read as the usage text says.
LEMMA LineRead ==
  ASSUME NEW a \in Seq(Words), NEW t, Describes(a, t),
         t.saw \/ ~(Len(a) > 1 /\ a[1] \in Sockets)
  PROVE  Forms(Line(a, t)) = Asked(t)
<1> DEFINE line == Line(a, t)
           k == Taken(t)
<1>1. t \in States /\ SocketRead(a, t) /\ Read(a, t)
  BY DEF Describes
<1>2. /\ line \in Seq(Words) /\ Len(line) = Len(a) - k
      /\ k \in {0, 2} /\ Len(a) \in Nat
      /\ \A i \in 1 .. Len(a) - k : line[i] = a[k + i]
  BY <1>1, LineOf
<1>3. Len(a) >= k + 1 => line[1] = a[k + 1]
  BY <1>2
<1> HIDE DEF line, k
<1>4. CASE t.at = "options"
  <2>1. Len(line) = 0
    BY <1>1, <1>2, <1>4 DEF Read, k
  <2>2. line = <<>>
    BY <1>2, <2>1
  <2> QED BY <1>2, <1>4, <2>2, FormsOfOptions DEF Asked, line
<1>5. CASE t.at \in Asides
  <2>1. Len(line) = 1 /\ line[1] = t.at
    BY <1>1, <1>2, <1>3, <1>5 DEF Read, k
  <2> QED BY <1>2, <1>5, <2>1, FormsOfOptions DEF Asked, Asides, line
<1>6. CASE t.at = "value"
  <2>1. ~t.saw /\ Len(a) = 1 /\ a[1] \in Sockets
    BY <1>1, <1>6 DEF Read
  <2>2. k = 0
    BY <2>1 DEF Taken, k
  <2>3. Len(line) = 1 /\ line[1] \in Sockets
    BY <1>2, <1>3, <2>1, <2>2
  <2>4. line[1] \in Dashed /\ line[1] \notin Asides
    BY <2>3, WordsOfOptions DEF Sockets, Asides
  <2>5. Forms(line) = {}
    BY <1>2, <2>3, <2>4, FormsOfOptions
  <2>6. Asked(t) = {}
    BY <1>6 DEF Asked
  <2> QED BY <2>5, <2>6 DEF line
<1>7. CASE t.at = "command"
  <2>1. /\ Len(a) >= k + 1 /\ a[k + 1] \notin Dashed /\ t.command = a[k + 1]
        /\ t.rest = SubSeq(a, k + 2, Len(a))
    BY <1>1, <1>7 DEF Read, k
  <2>2. Len(line) >= 1 /\ line[1] = t.command /\ line[1] \notin Dashed
    BY <1>2, <1>3, <2>1
  <2>3. SubSeq(line, 2, Len(line)) = t.rest
    <3>1. SubSeq(line, 2, Len(line)) \in Seq(Words) /\ t.rest \in Seq(Words)
      BY <1>1, <1>2 DEF States
    <3>2. Len(SubSeq(line, 2, Len(line))) = Len(a) - k - 1 /\ Len(t.rest) = Len(a) - k - 1
      BY <1>2, <2>1, <2>2
    <3>3. ASSUME NEW i \in 1 .. Len(a) - k - 1
          PROVE  SubSeq(line, 2, Len(line))[i] = t.rest[i]
      <4>1. i + 1 \in 1 .. Len(a) - k /\ k + (i + 1) = (k + 2) + i - 1
        BY <1>2
      <4>2. line[i + 1] = a[k + (i + 1)]
        BY <1>2, <4>1
      <4>3. i \in 1 .. Len(line) - 1 /\ 2 + i - 1 = i + 1
        BY <1>2
      <4>4. SubSeq(line, 2, Len(line))[i] = line[i + 1]
        BY <1>2, <2>2, <4>3
      <4>5. i \in 1 .. Len(a) - (k + 2) + 1
        BY <1>2
      <4>6. t.rest[i] = a[(k + 2) + i - 1]
        BY <1>2, <2>1, <4>5
      <4> QED BY <4>1, <4>2, <4>4, <4>6
    <3> QED BY <3>1, <3>2, <3>3
  <2>4. Forms(line) = ParseCommand(t.command, t.rest)
    BY <1>2, <2>2, <2>3, FormsOfCommand
  <2>5. Asked(t) = ParseCommand(t.command, t.rest)
    BY <1>7 DEF Asked
  <2> QED BY <2>4, <2>5 DEF line
<1>8. CASE t.at = "error"
  <2>1. Wrong(a, t)
    BY <1>1, <1>8 DEF Read
  <2>2. ASSUME Len(a) >= k + 2, a[k + 1] \in Asides PROVE Forms(line) = {}
    <3>1. Len(line) >= 2 /\ line[1] \in Asides
      BY <1>2, <1>3, <2>2
    <3>2. line[1] \in Dashed
      BY <3>1, WordsOfOptions
    <3>3. Len(line) >= 1 /\ Len(line) # 1
      BY <1>2, <3>1
    <3> QED BY <1>2, <3>2, <3>3, FormsOfOptions
  <2>3. ASSUME Len(a) >= k + 1, a[k + 1] \in Dashed \ Asides PROVE Forms(line) = {}
    <3>1. Len(line) >= 1 /\ line[1] \in Dashed \ Asides
      BY <1>2, <1>3, <2>3
    <3> QED BY <1>2, <3>1, FormsOfOptions
  <2>4. Forms(line) = {}
    <3>1. ~(~t.saw /\ Len(a) >= 2 /\ a[1] \in Sockets /\ a[2] = Empty)
      <4>1. Len(a) >= 2 => Len(a) > 1
        BY <1>2
      <4> QED BY <4>1
    <3> QED BY <2>1, <2>2, <2>3, <3>1 DEF Wrong, k
  <2>5. Asked(t) = {}
    BY <1>8 DEF Asked
  <2> QED BY <2>4, <2>5 DEF line
<1> QED BY <1>1, <1>4, <1>5, <1>6, <1>7, <1>8 DEF States, Asides

LEMMA NothingAsked ==
  ASSUME NEW a \in Seq(Words), NEW t, Describes(a, t),
         ~t.saw, Len(a) > 1, a[1] \in Sockets
  PROVE  a[2] = Empty /\ Asked(t) = {}
<1>1. t \in States /\ Read(a, t)
  BY DEF Describes
<1>2. Taken(t) = 0 /\ Len(a) \in Nat
  BY DEF Taken
<1>3. a[1] \in Dashed /\ a[1] \notin Asides
  BY WordsOfOptions DEF Sockets, Asides
<1>4. t.at = "error"
  <2>1. Len(a) # 0 /\ Len(a) # 1
    <3>1. \A n \in Nat : n > 1 => n # 0 /\ n # 1
      OBVIOUS
    <3> QED BY <1>2, <3>1
  <2>2. t.at # "options" /\ t.at # "value" /\ t.at # "command"
    BY <1>1, <1>2, <1>3, <2>1 DEF Read
  <2>3. t.at \notin Asides
    BY <1>1, <1>2, <2>1 DEF Read
  <2> QED BY <1>1, <2>2, <2>3 DEF States, Asides
<1>5. a[2] = Empty
  BY <1>1, <1>2, <1>3, <1>4 DEF Read, Wrong
<1> QED BY <1>4, <1>5 DEF Asked

LEMMA ParsesLine ==
  ASSUME NEW a \in Seq(Words), Describes(a, Scan(a))
  PROVE  ParseArgs(a) = Usage(a)
<1> DEFINE t == Scan(a)
<1>1. t \in States /\ SocketRead(a, t) /\ Describes(a, t)
  BY DEF Describes
<1>2. ParseArgs(a) = {[socket |-> t.socket, command |-> c] : c \in Asked(t)}
  BY ParseArgsIs
<1> HIDE DEF t
<1>3. CASE t.saw \/ ~(Len(a) > 1 /\ a[1] \in Sockets)
  <2>1. Usage(a) = Requests(t.socket, Line(a, t))
    BY <1>1, <1>3, UsageOfLine
  <2>2. Forms(Line(a, t)) = Asked(t)
    BY <1>1, <1>3, LineRead
  <2> QED BY <1>2, <2>1, <2>2 DEF Requests
<1>4. CASE ~t.saw /\ Len(a) > 1 /\ a[1] \in Sockets
  <2>1. a[2] = Empty /\ Asked(t) = {}
    BY <1>1, <1>4, NothingAsked
  <2>2. Usage(a) = {}
    BY <1>4, <2>1 DEF Usage, Sockets
  <2> QED BY <1>2, <2>1, <2>2
<1> QED BY <1>3, <1>4

(***************************************************************************)
(* The configuration                                                       *)
(***************************************************************************)
LEMMA ParsedIs ==
  ASSUME NEW doc \in Documents
  PROVE  LET p == Parsed(doc)
         IN  /\ Rejected(doc) => p = Defaults(TRUE)
             /\ ~Rejected(doc) => p.templates = ParseTemplates(doc) /\ p.defaulted = FALSE
             /\ p.defaulted => p.warned /\ p.templates = {}
             /\ p.defaulted <=> Rejected(doc)
             /\ Empty \notin p.templates
BY DEF Parsed, Defaults, ParseTemplates

\* Whether a template is to be had depends on nothing the file says of others.
LEMMA Isolation ==
  ASSUME NEW doc \in Documents, NEW name \in Named(doc)
  PROVE  name \in Parsed(doc).templates <=>
           Parsed(Alone(doc, name)) = [templates |-> {name}, warned |-> FALSE, defaulted |-> FALSE]
<1> DEFINE one == Alone(doc, name)
           fine == name # Empty /\ ParsesAsTemplate(doc.templates[name])
<1>1. /\ one.toml = doc.toml /\ one.unknown = doc.unknown /\ one.badTheme = doc.badTheme
      /\ one.badTemplates = doc.badTemplates
      /\ one.templates = [n \in {name} |-> doc.templates[name]]
  BY DocumentsAssumption DEF Alone
<1> HIDE DEF one
<1>2. Rejected(one) <=> Rejected(doc)
  BY <1>1 DEF Rejected, WrongTheme
<1>3. Named(one) = {name} /\ one.templates[name] = doc.templates[name]
  BY <1>1 DEF Named
<1>4. ParseTemplates(one) = IF fine THEN {name} ELSE {}
  BY <1>3 DEF ParseTemplates
<1>5. name \in ParseTemplates(doc) <=> fine
  BY DEF ParseTemplates
<1> HIDE DEF fine
<1>6. CASE Rejected(doc)
  BY <1>2, <1>6 DEF Parsed, Defaults, one
<1>7. CASE ~Rejected(doc) /\ fine
  <2>1. Parsed(one) = [templates |-> {name}, warned |-> FALSE, defaulted |-> FALSE]
    BY <1>2, <1>3, <1>4, <1>7 DEF Parsed
  <2>2. name \in Parsed(doc).templates
    BY <1>5, <1>7 DEF Parsed
  <2> QED BY <2>1, <2>2 DEF one
<1>8. CASE ~Rejected(doc) /\ ~fine
  <2>1. Parsed(one).templates = {}
    BY <1>2, <1>3, <1>4, <1>8 DEF Parsed
  <2>2. name \notin Parsed(doc).templates
    BY <1>5, <1>8 DEF Parsed
  <2> QED BY <2>1, <2>2 DEF one
<1> QED BY <1>6, <1>7, <1>8

(***************************************************************************)
(* The inductive invariant                                                 *)
(***************************************************************************)
\* The arguments are what the fold over them describes.
Scanned == Describes(args, Scan(args))

\* Only what has been reached has left something behind.
Fresh ==
  /\ pc # "exit" => printed = {} /\ exit = 0
  /\ pc \notin {"read", "use", "materialize", "exit"} =>
       there = Missing /\ seen = Missing /\ loaded = Defaults(FALSE)
  /\ pc \in {"typing", "print", "exists", "read", "use"} => asked = {}
  /\ pc = "read" => seen = Missing

\* What is loaded is what the file seen parses to.
LoadedFromSeen ==
  /\ seen \in Documents => loaded = Parsed(seen)
  /\ seen = Failing => \E doc \in Documents : loaded = Parsed(doc)

Found == there \notin {Missing, Hidden}

\* A file found is either read, or its loss is noticed; and past that check
\* nothing is the defaults'.
LossIsNoticed ==
  /\ Found /\ pc \in {"use", "materialize", "exit"} =>
       seen \in Documents \cup {Failing} \/ loaded.defaulted
  /\ Found /\ (pc = "materialize" \/ (pc = "exit" /\ (exit = 0 \/ asked # {}))) =>
       ~loaded.defaulted

IInv == TypeOK /\ Scanned /\ Fresh /\ LoadedFromSeen /\ LossIsNoticed

LEMMA InitInductive == Init => IInv
<1> SUFFICES ASSUME Init PROVE IInv
  OBVIOUS
<1>1. args = <<>> /\ args \in Seq(Words) /\ Len(args) = 0 /\ MaxArgs \in Nat
  BY CliAssumption DEF Init
<1>2. Scanned
  BY <1>1, ScanNothing, DescribesStart DEF Scanned
<1>3. /\ request.socket = <<"default", Empty>> /\ request.command.kind = "none"
      /\ Empty \in Words
  BY WordsOfOptions DEF Init, NoRequest, DefaultSocket, Command
<1>4. TypeOK
  <2>1. pc \in Places
    BY DEF Init, Places
  <2> QED BY <1>1, <1>3, <2>1 DEF TypeOK, Init, Files, Defaults
<1>5. Fresh /\ LossIsNoticed
  BY DEF Fresh, LossIsNoticed, Found, Init
<1>6. LoadedFromSeen
  BY FilesAssumption DEF LoadedFromSeen, Init
<1> QED BY <1>2, <1>4, <1>5, <1>6 DEF IInv

\* What the program is asked to do is one of the usage text's forms.
LEMMA RequestTyped ==
  ASSUME args \in Seq(Words), Scanned, NEW r \in ParseArgs(args)
  PROVE  /\ r.socket[1] \in {"default", "-L", "-S"} /\ r.socket[2] \in Words
         /\ r.command.kind \in Subcommands \cup {"help", "version"}
         /\ r.command.kind = "attach" => r.command.name \in Words \ NotSessionNames
         /\ r.command.kind = "materialize" => r.command.name \in Words \ {Empty}
<1> DEFINE t == Scan(args)
<1>1. t \in States /\ SocketRead(args, t) /\ Describes(args, t)
  BY DEF Scanned, Describes
<1>2. PICK c \in Asked(t) : r = [socket |-> t.socket, command |-> c]
  BY ParseArgsIs
<1> HIDE DEF t
<1>3. r.socket = t.socket /\ r.command = c
  BY <1>2
<1>4. r.socket[1] \in {"default", "-L", "-S"} /\ r.socket[2] \in Words
  BY <1>1, <1>3 DEF States
<1>5. CASE ~t.saw /\ Len(args) > 1 /\ args[1] \in Sockets
  <2>1. Asked(t) = {}
    BY <1>1, <1>5, NothingAsked
  <2> QED BY <1>2, <2>1
<1>6. CASE t.saw \/ ~(Len(args) > 1 /\ args[1] \in Sockets)
  <2> DEFINE line == Line(args, t)
  <2>1. line \in Seq(Words)
    BY <1>1, LineOf
  <2>2. c \in Forms(line)
    BY <1>1, <1>2, <1>6, LineRead
  <2> HIDE DEF line
  <2>3. Len(line) \in {2, 3} => line[2] \in Words
    <3>1. \A n \in {2, 3} : 2 \in 1 .. n
      OBVIOUS
    <3>2. \A i \in 1 .. Len(line) : line[i] \in Words
      BY <2>1
    <3> QED BY <3>1, <3>2
  <2>4. /\ c.kind \in Subcommands \cup {"help", "version"}
        /\ c.kind = "attach" => c.name \in Words \ NotSessionNames
        /\ c.kind = "materialize" => c.name \in Words \ {Empty}
    <3>1. CASE line \in {<<>>, <<"--help">>} /\ c = Command("help", Empty)
      BY <3>1 DEF Command
    <3>2. CASE line = <<"--version">> /\ c = Command("version", Empty)
      BY <3>2 DEF Command
    <3>3. CASE line \in {<<"save">>, <<"list-templates">>} /\ c = Command(line[1], Empty)
      <4>1. line[1] \in {"save", "list-templates"}
        BY <3>3
      <4> QED BY <3>3, <4>1 DEF Command, Subcommands
    <3>4. CASE /\ Len(line) = 2 /\ line[1] = "attach"
               /\ line[2] \notin NotSessionNames /\ line[2] \notin Globals
               /\ c = Command("attach", line[2])
      BY <2>3, <3>4 DEF Command, Subcommands
    <3>5. CASE /\ Len(line) = 3 /\ line[1] = "materialize"
               /\ \A i \in {2, 3} : line[i] # Empty /\ line[i] \notin Globals
               /\ c = Command("materialize", line[2])
      BY <2>3, <3>5 DEF Command, Subcommands
    <3> QED BY <2>2, <3>1, <3>2, <3>3, <3>4, <3>5, FormsAre
  <2> QED BY <1>3, <1>4, <2>4
<1> QED BY <1>5, <1>6


LEMMA ScannedNext ==
  ASSUME args \in Seq(Words), Scanned, NEW word \in Words, args' = Append(args, word)
  PROVE  args' \in Seq(Words) /\ Scanned'
<1>1. args' \in Seq(Words)
  BY Longer
<1>2. Scan(args') = ParseArg(Scan(args), word)
  BY ScanOneMore
<1>3. Describes(args', Scan(args'))
  BY <1>2, DescribesNext DEF Scanned
<1> QED BY <1>1, <1>3 DEF Scanned

LEMMA ScannedForgotten ==
  ASSUME args' = <<>>
  PROVE  args' \in Seq(Words) /\ Len(args') <= MaxArgs /\ Scanned'
BY ScanNothing, DescribesStart, CliAssumption DEF Scanned

LEMMA ScannedKept ==
  ASSUME UNCHANGED args, Scanned
  PROVE  Scanned'
BY DEF Scanned

LEMMA TypeKept ==
  ASSUME TypeOK, UNCHANGED <<args, request, file, loaded, printed, seen, there>>,
         pc' \in Places, exit' \in 0 .. 2, asked' \subseteq TmuxCommands
  PROVE  TypeOK'
BY DEF TypeOK

LEMMA StepInductive == IInv /\ [Next]_vars => IInv'
<1> SUFFICES ASSUME IInv, [Next]_vars PROVE IInv'
  OBVIOUS
<1> USE DEF IInv
<1>1. ASSUME NEW word \in Words, Argument(word) PROVE IInv'
  <2>1. args' \in Seq(Words) /\ Scanned'
    BY <1>1, ScannedNext DEF Argument, TypeOK
  <2>2. Len(args') <= MaxArgs
    <3>1. Len(args) \in Nat /\ Len(args') = Len(args) + 1 /\ Len(args) < MaxArgs
      BY <1>1 DEF Argument, TypeOK
    <3> QED BY <3>1, CliAssumption
  <2>3. UNCHANGED <<pc, request, file, loaded, printed, exit, seen, there, asked>>
    BY <1>1 DEF Argument, outcome, history
  <2>4. TypeOK'
    BY <2>1, <2>2, <2>3 DEF TypeOK
  <2>5. Fresh' /\ LoadedFromSeen' /\ LossIsNoticed'
    BY <2>3 DEF Fresh, LoadedFromSeen, LossIsNoticed, Found
  <2> QED BY <2>1, <2>4, <2>5
<1>2. CASE UsageError
  <2>1. args' \in Seq(Words) /\ Len(args') <= MaxArgs /\ Scanned'
    BY <1>2, ScannedForgotten DEF UsageError
  <2>2. /\ pc = "typing" /\ pc' = "exit" /\ exit' = 2
        /\ UNCHANGED <<request, file, loaded, printed, seen, there, asked>>
    BY <1>2 DEF UsageError, Exit, Goto, history
  <2>3. TypeOK'
    <3>1. pc' \in Places
      BY <2>2 DEF Places
    <3>2. exit' \in 0 .. 2
      BY <2>2
    <3> QED BY <2>1, <2>2, <3>1, <3>2 DEF TypeOK
  <2>4. Fresh' /\ LoadedFromSeen'
    BY <2>2 DEF Fresh, LoadedFromSeen
  <2>5. LossIsNoticed'
    BY <2>2 DEF Fresh, LossIsNoticed, Found
  <2> QED BY <2>1, <2>3, <2>4, <2>5
<1>3. CASE RunRequest
  <2>1. args' \in Seq(Words) /\ Len(args') <= MaxArgs /\ Scanned'
    BY <1>3, ScannedForgotten DEF RunRequest
  <2>2. PICK r \in ParseArgs(args) :
          request' = r /\ Goto("typing", FirstStep(r.command.kind))
    BY <1>3 DEF RunRequest
  <2>3. /\ pc = "typing" /\ pc' \in {"print", "lookup", "locate", "exists"}
        /\ UNCHANGED <<file, loaded, printed, exit, seen, there, asked>>
    BY <1>3, <2>2 DEF RunRequest, Goto, FirstStep, outcome, history
  <2>4. /\ r.socket[1] \in {"default", "-L", "-S"} /\ r.socket[2] \in Words
        /\ r.command.kind \in Subcommands \cup {"help", "version"}
        /\ r.command.kind = "attach" => r.command.name \in Words \ NotSessionNames
        /\ r.command.kind = "materialize" => r.command.name \in Words \ {Empty}
    BY RequestTyped DEF TypeOK
  <2>5. TypeOK'
    <3>1. pc' \in Places
      BY <2>3 DEF Places
    <3> QED BY <2>1, <2>2, <2>3, <2>4, <3>1 DEF TypeOK
  <2>6. Fresh' /\ LoadedFromSeen' /\ LossIsNoticed'
    BY <2>3 DEF Fresh, LoadedFromSeen, LossIsNoticed, Found
  <2> QED BY <2>1, <2>5, <2>6
<1>4. CASE PrintUsage
  <2>1. /\ pc = "print" /\ pc' = "exit" /\ exit' = 0
        /\ UNCHANGED <<args, request, file, loaded, printed, seen, there, asked>>
    BY <1>4 DEF PrintUsage, Exit, Goto, history
  <2>2. TypeOK'
    <3>1. pc' \in Places
      BY <2>1 DEF Places
    <3>2. exit' \in 0 .. 2
      BY <2>1 DEF TypeOK
    <3>3. asked' \subseteq TmuxCommands
      BY <2>1 DEF TypeOK, TmuxCommands
    <3> QED BY <2>1, <3>1, <3>2, <3>3, TypeKept
  <2>3. Fresh' /\ LoadedFromSeen' /\ LossIsNoticed'
    BY <2>1 DEF Fresh, LoadedFromSeen, LossIsNoticed, Found
  <2> QED BY <2>1, <2>2, <2>3, ScannedKept
<1>5. CASE ConfigExists
  <2>1. /\ pc = "exists" /\ pc' = (IF file \in {Missing, Hidden} THEN "use" ELSE "read")
        /\ loaded' = Defaults(FALSE) /\ there' = file
        /\ UNCHANGED <<args, request, file, printed, exit, seen, asked>>
    BY <1>5 DEF ConfigExists, Goto, outcome
  <2>2. TypeOK'
    <3>1. printed' = {}
      BY <2>1 DEF Fresh
    <3>2. pc' \in Places
      BY <2>1 DEF Places
    <3> QED BY <2>1, <3>1, <3>2 DEF TypeOK, Defaults
  <2>3. Fresh' /\ LoadedFromSeen' /\ LossIsNoticed'
    BY <2>1, FilesAssumption DEF Fresh, LoadedFromSeen, LossIsNoticed, Found
  <2> QED BY <2>1, <2>2, <2>3, ScannedKept
<1>6. CASE ReadConfig
  <2>1. /\ pc = "read" /\ pc' = "use" /\ seen' = file
        /\ UNCHANGED <<args, request, file, printed, exit, there, asked>>
    BY <1>6 DEF ReadConfig, Goto, outcome
  <2>2. \/ file \in Documents /\ loaded' = Parsed(file)
        \/ file = Failing /\ \E doc \in Documents : loaded' = Parsed(doc)
        \/ file \in {Missing, Hidden, Unreadable} /\ loaded' = Defaults(TRUE)
    BY <1>6 DEF ReadConfig
  <2>3. TypeOK'
    <3>1. printed' = {}
      BY <2>1 DEF Fresh
    <3>2. loaded' \in {Defaults(FALSE), Defaults(TRUE)} \cup {Parsed(doc) : doc \in Documents}
      BY <2>2
    <3>3. loaded'.defaulted => loaded'.warned /\ loaded'.templates = {}
      <4>1. \A doc \in Documents :
              Parsed(doc).defaulted => Parsed(doc).warned /\ Parsed(doc).templates = {}
        BY ParsedIs
      <4>2. Defaults(TRUE).warned /\ Defaults(TRUE).templates = {}
        BY DEF Defaults
      <4> QED BY <2>2, <4>1, <4>2
    <3>4. pc' \in Places
      BY <2>1 DEF Places
    <3> QED BY <2>1, <3>1, <3>2, <3>3, <3>4 DEF TypeOK
  <2>4. Fresh'
    BY <2>1 DEF Fresh
  <2>5. LoadedFromSeen'
    BY <2>1, <2>2, FilesAssumption DEF LoadedFromSeen
  <2>6. LossIsNoticed'
    BY <2>1, <2>2 DEF LossIsNoticed, Found, Fresh, Defaults
  <2> QED BY <2>1, <2>3, <2>4, <2>5, <2>6, ScannedKept
<1>7. CASE Edit
  <2>1. /\ file' \in Files
        /\ UNCHANGED <<args, pc, request, loaded, printed, exit, seen, there, asked>>
    BY <1>7 DEF Edit, outcome, history
  <2>2. TypeOK'
    BY <2>1 DEF TypeOK
  <2>3. Fresh' /\ LoadedFromSeen' /\ LossIsNoticed'
    BY <2>1 DEF Fresh, LoadedFromSeen, LossIsNoticed, Found
  <2> QED BY <2>1, <2>2, <2>3, ScannedKept
<1>8. CASE RefuseDefaults
  <2>1. /\ pc = "use" /\ pc' = "exit" /\ exit' = 1
        /\ UNCHANGED <<args, request, file, loaded, printed, seen, there, asked>>
    BY <1>8 DEF RefuseDefaults, Exit, Goto, history
  <2>2. TypeOK'
    <3>1. pc' \in Places
      BY <2>1 DEF Places
    <3>2. exit' \in 0 .. 2
      BY <2>1 DEF TypeOK
    <3>3. asked' \subseteq TmuxCommands
      BY <2>1 DEF TypeOK, TmuxCommands
    <3> QED BY <2>1, <3>1, <3>2, <3>3, TypeKept
  <2>3. Fresh' /\ LoadedFromSeen' /\ LossIsNoticed'
    BY <2>1 DEF Fresh, LoadedFromSeen, LossIsNoticed, Found
  <2> QED BY <2>1, <2>2, <2>3, ScannedKept
<1>9. CASE ListTemplates
  <2>1. /\ pc = "use" /\ pc' = "exit" /\ exit' = 0 /\ printed' = loaded.templates
        /\ ~loaded.defaulted
        /\ UNCHANGED <<args, request, file, loaded, seen, there, asked>>
    BY <1>9 DEF ListTemplates, Exit, Goto, history
  <2>2. TypeOK'
    <3>1. Empty \notin loaded.templates
      <4>1. \A doc \in Documents : Empty \notin Parsed(doc).templates
        BY ParsedIs
      <4>2. \A defaulted : Empty \notin Defaults(defaulted).templates
        BY DEF Defaults
      <4> QED BY <4>1, <4>2 DEF TypeOK
    <3>2. pc' \in Places
      BY <2>1 DEF Places
    <3>3. exit' \in 0 .. 2
      BY <2>1
    <3> QED BY <2>1, <3>1, <3>2, <3>3 DEF TypeOK
  <2>3. Fresh' /\ LoadedFromSeen' /\ LossIsNoticed'
    BY <2>1 DEF Fresh, LoadedFromSeen, LossIsNoticed, Found
  <2> QED BY <2>1, <2>2, <2>3, ScannedKept
<1>10. CASE FindTemplate
  <2>1. /\ pc = "use" /\ ~loaded.defaulted
        /\ \/ pc' = "materialize" /\ UNCHANGED exit
           \/ pc' = "exit" /\ exit' = 1
        /\ UNCHANGED <<args, request, file, loaded, printed, seen, there, asked>>
    BY <1>10 DEF FindTemplate, Exit, Goto, history
  <2>2. TypeOK'
    <3>1. pc' \in Places
      BY <2>1 DEF Places
    <3>2. exit' \in 0 .. 2
      BY <2>1 DEF TypeOK
    <3>3. asked' \subseteq TmuxCommands
      BY <2>1 DEF TypeOK, TmuxCommands
    <3> QED BY <2>1, <3>1, <3>2, <3>3, TypeKept
  <2>3. Fresh' /\ LoadedFromSeen' /\ LossIsNoticed'
    BY <2>1 DEF Fresh, LoadedFromSeen, LossIsNoticed, Found
  <2> QED BY <2>1, <2>2, <2>3, ScannedKept
<1>11. CASE MaterializeTemplate
  <2>1. /\ pc = "materialize" /\ pc' = "exit" /\ exit' \in {0, 1}
        /\ asked' = asked \cup {"materialize"}
        /\ UNCHANGED <<args, request, file, loaded, printed, seen, there>>
    BY <1>11 DEF MaterializeTemplate, Exit, Goto, Ask
  <2>2. TypeOK'
    <3>1. pc' \in Places
      BY <2>1 DEF Places
    <3>2. exit' \in 0 .. 2
      BY <2>1 DEF TypeOK
    <3>3. asked' \subseteq TmuxCommands
      BY <2>1 DEF TypeOK, TmuxCommands
    <3> QED BY <2>1, <3>1, <3>2, <3>3, TypeKept
  <2>3. Fresh' /\ LoadedFromSeen' /\ LossIsNoticed'
    BY <2>1 DEF Fresh, LoadedFromSeen, LossIsNoticed, Found
  <2> QED BY <2>1, <2>2, <2>3, ScannedKept
<1>12. CASE LocateSaveScript \/ RunShell \/ SessionExists \/ ReplaceProcess
  <2>1. /\ pc \in {"locate", "shell", "lookup", "exec"}
        /\ \/ pc' \in {"shell", "exec", "replaced"} /\ UNCHANGED exit
           \/ pc' = "exit" /\ exit' \in {0, 1}
        /\ asked' \subseteq asked \cup {"run-shell", "has-session", "attach-session"}
        /\ UNCHANGED <<args, request, file, loaded, printed, seen, there>>
    BY <1>12 DEF LocateSaveScript, RunShell, SessionExists, ReplaceProcess, Exit, Goto, Ask,
                 history
  <2>2. TypeOK'
    <3>1. pc' \in Places
      BY <2>1 DEF Places
    <3>2. exit' \in 0 .. 2
      BY <2>1 DEF TypeOK
    <3>3. asked' \subseteq TmuxCommands
      BY <2>1 DEF TypeOK, TmuxCommands
    <3> QED BY <2>1, <3>1, <3>2, <3>3, TypeKept
  <2>3. Fresh' /\ LoadedFromSeen' /\ LossIsNoticed'
    BY <2>1 DEF Fresh, LoadedFromSeen, LossIsNoticed, Found
  <2> QED BY <2>1, <2>2, <2>3, ScannedKept
<1>13. CASE UNCHANGED vars
  <2>1. UNCHANGED <<args, pc, request, file, loaded, printed, exit, seen, there, asked>>
    BY <1>13 DEF vars
  <2>2. TypeOK'
    BY <2>1 DEF TypeOK
  <2>3. Fresh' /\ LoadedFromSeen' /\ LossIsNoticed'
    BY <2>1 DEF Fresh, LoadedFromSeen, LossIsNoticed, Found
  <2> QED BY <2>1, <2>2, <2>3, ScannedKept
<1> QED BY <1>1, <1>2, <1>3, <1>4, <1>5, <1>6, <1>7, <1>8, <1>9, <1>10, <1>11, <1>12, <1>13
        DEF Next

\* The inductive invariant holds throughout.
THEOREM Inductive == Spec => []IInv
BY InitInductive, StepInductive, PTL DEF Spec

\* Every variable stays in its type: among the rest, whatever the arguments are,
\* what is asked for is a subcommand with a name it may have.
THEOREM TypeCorrect == Spec => []TypeOK
<1>1. IInv => TypeOK
  BY DEF IInv
<1> QED BY <1>1, Inductive, PTL

\* parse_args accepts the lines of the usage text and no other, of any length.
THEOREM UsageParsed == Spec => []ParsesTheUsage
<1>1. IInv => ParsesTheUsage
  <2>1. ASSUME IInv PROVE ParseArgs(args) = Usage(args)
    BY <2>1, ParsesLine DEF IInv, TypeOK, Scanned
  <2> QED BY <2>1 DEF ParsesTheUsage, Usage
<1> QED BY <1>1, Inductive, PTL

\* parse_templates gives each template on its own merits.
THEOREM TemplatesIsolated == Spec => []TemplatesAreIsolated
<1>1. IInv => TemplatesAreIsolated
  BY Isolation DEF IInv, LoadedFromSeen, TemplatesAreIsolated
<1> QED BY <1>1, Inductive, PTL

\* A command that needs the configuration does nothing with the defaults that
\* stand for a file exists() found and that could then not be opened or parsed.
\* It may run on a file cut short by a failure of reading, and on the defaults
\* when exists() does not find the file: neither is excluded.
THEOREM DefaultsRefused == Spec => []NothingOnDefaults
<1>1. IInv => NothingOnDefaults
  <2> SUFFICES ASSUME IInv, Found, pc = "exit", exit = 0 \/ asked # {}
               PROVE  \E doc \in Documents :
                        ~Rejected(doc) /\ loaded = Parsed(doc) /\ seen \in {doc, Failing}
    BY DEF NothingOnDefaults, Found
  <2>1. ~loaded.defaulted /\ seen \in Documents \cup {Failing}
    BY DEF IInv, LossIsNoticed
  <2>2. PICK doc \in Documents : loaded = Parsed(doc) /\ seen \in {doc, Failing}
    BY <2>1 DEF IInv, LoadedFromSeen
  <2>3. Parsed(doc).defaulted <=> Rejected(doc)
    BY ParsedIs
  <2> QED BY <2>1, <2>2, <2>3
<1> QED BY <1>1, Inductive, PTL

=============================================================================

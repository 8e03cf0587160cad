------------------------------ MODULE Commands_proofs ------------------------------
(***************************************************************************)
(* A command the caller aims at what it was shown touches nothing else, a  *)
(* name that is a session's means that session, an answer says what the    *)
(* server did, and a listing is read as what the server printed: on every  *)
(* server, for any number of calls, given up or not, whatever other clients*)
(* do in between.                                                          *)
(*                                                                         *)
(* Texts.  A fold over a sequence takes a step more for an element more    *)
(* (FoldOneMore); a text that words are laid out in, each followed by a    *)
(* delimiter it cannot be confused with, is split into these words         *)
(* (SplitLaid); so rows are read as the records they were made of          *)
(* (RowsRead), and the short answers too (AnswerRead).  Induction is over  *)
(* the lengths in a set (SetInduction), FoldLeft and Split are recursive   *)
(* functions whose values are taken step by step.                          *)
(*                                                                         *)
(* Servers.  What every command does is shown once (the lemmas named for   *)
(* commands): it makes a server of a server (IsServer), changes no more    *)
(* than some sessions, windows and panes (Touches), and leaves names and   *)
(* numbers that can be printed (Lettered).                                 *)
(*                                                                         *)
(* Calls.  What the functions make of names and ids (Fits), the inductive  *)
(* invariant (IInv), and the properties.                                   *)
(***************************************************************************)
EXTENDS Commands, SequenceTheorems, FiniteSetTheorems, WellFoundedInduction, TLAPS

\* A set of numbers that is not empty has a least one.
LEMMA LeastNumber ==
  ASSUME NEW T, T \subseteq Nat, T # {}
  PROVE  \E x \in T : \A y \in T : x <= y
<1> DEFINE R == {ss \in Nat \X Nat : ss[1] < ss[2]}
<1>1. IsWellFoundedOn(R, Nat)
  BY NatLessThanWellFounded DEF OpToRel
<1>2. ASSUME NEW y \in Nat, NEW x \in Nat, y < x
      PROVE  <<y, x>> \in R
  BY <1>2
<1> HIDE DEF R
<1>3. PICK x \in T : \A y \in T : ~(<<y, x>> \in R)
  BY <1>1, WFMin
<1>4. \A y \in T : ~(y < x)
  BY <1>3, <1>2
<1> QED BY <1>4

\* Induction, for a set in place of a property.
LEMMA SetInduction ==
  ASSUME NEW S, 0 \in S, \A n \in Nat : n \in S => n + 1 \in S
  PROVE  Nat \subseteq S
<1>1. SUFFICES ASSUME Nat \ S # {} PROVE FALSE
  OBVIOUS
<1>2. PICK x \in Nat \ S : \A y \in Nat \ S : x <= y
  BY <1>1, LeastNumber
<1>3. x # 0 /\ x - 1 \in Nat
  BY <1>2
<1>4. x - 1 \in S
  BY <1>2, <1>3
<1> QED BY <1>3, <1>4

(***************************************************************************)
(* The folds over fields, records and lines                                *)
(***************************************************************************)
Hows == {"join", "print", "parse"}

\* One more field of a row, one more record printed, one more line parsed.
Step(how, kind, t, x) ==
  IF how = "join" THEN t \o Delim \o x
  ELSE IF how = "print" THEN t \o Join(Fields(kind, x)) \o NewLine
  ELSE IF x = <<>> THEN t
  ELSE {Append(rows, row) : rows \in t, row \in ParseRow(kind, x)}

JoinedTo(t, s) == FoldLeft(LAMBDA row, field : row \o Delim \o field, t, s)
PrintedTo(kind, t, s) ==
  FoldLeft(LAMBDA out, r : out \o Join(Fields(kind, r)) \o NewLine, t, s)
ParsedTo(kind, t, s) ==
  FoldLeft(LAMBDA read, line :
             IF line = <<>> THEN read
             ELSE {Append(rows, row) : rows \in read, row \in ParseRow(kind, line)}, t, s)
RowFold(how, kind, t, s) ==
  IF how = "join" THEN JoinedTo(t, s)
  ELSE IF how = "print" THEN PrintedTo(kind, t, s) ELSE ParsedTo(kind, t, s)

\* The recursive function FoldLeft takes the value of, on the indices S.
Folds(g, how, kind, t, a, S) ==
  g = [s \in SUBSET S |-> IF s = {} THEN t ELSE Step(how, kind, g[s \ {Max(s)}], a[Max(s)])]

\* FoldLeft takes the value of such a function at all the indices.
LEMMA FoldChosen ==
  ASSUME NEW how \in Hows, NEW kind, NEW t, NEW a
  PROVE  RowFold(how, kind, t, a) = (CHOOSE g : Folds(g, how, kind, t, a, DOMAIN a))[DOMAIN a]
<1>1. CASE how = "join"
  BY <1>1 DEF RowFold, JoinedTo, FoldLeft, MapThenFoldSet, Folds, Step
<1>2. CASE how = "print"
  BY <1>2 DEF RowFold, PrintedTo, FoldLeft, MapThenFoldSet, Folds, Step
<1>3. CASE how = "parse"
  BY <1>3 DEF RowFold, ParsedTo, FoldLeft, MapThenFoldSet, Folds, Step
<1> QED BY <1>1, <1>2, <1>3 DEF Hows

\* The first n + 1 numbers, and without the last of them.
LEMMA Interval ==
  ASSUME NEW n \in Nat
  PROVE  /\ 1 .. n + 1 \in SUBSET (1 .. n + 1)
         /\ n + 1 \in 1 .. n + 1
         /\ 1 .. n + 1 # {}
         /\ (1 .. n + 1) \ {n + 1} = 1 .. n
<1>1. n + 1 \in 1 .. n + 1
  OBVIOUS
<1>2. ASSUME NEW i \in 1 .. n + 1, i # n + 1
      PROVE  i \in 1 .. n
  BY <1>2
<1>3. \A i \in 1 .. n : i \in 1 .. n + 1 /\ i # n + 1
  OBVIOUS
<1>4. (1 .. n + 1) \ {n + 1} = 1 .. n
  BY <1>2, <1>3
<1> QED BY <1>1, <1>4

\* FoldLeft takes the elements from the greatest index down.
LEMMA Greatest ==
  ASSUME NEW n \in Nat, NEW s \in SUBSET (1 .. n + 1), n + 1 \in s
  PROVE  Max(s) = n + 1
<1>1. \A y \in s : n + 1 >= y
  OBVIOUS
<1>2. \A x \in s : (\A y \in s : x >= y) => x = n + 1
  BY <1>1
<1> QED BY <1>1, <1>2 DEF Max

\* There is such a function, ...
LEMMA FoldExists ==
  ASSUME NEW how \in Hows, NEW kind, NEW t, NEW a
  PROVE  \A n \in Nat : \E g : Folds(g, how, kind, t, a, 1 .. n)
<1> DEFINE S == {n \in Nat : \E g : Folds(g, how, kind, t, a, 1 .. n)}
<1>1. 0 \in S
  <2> DEFINE g == [s \in SUBSET (1 .. 0) |-> t]
  <2>1. \A s \in SUBSET (1 .. 0) : s = {}
    OBVIOUS
  <2>2. Folds(g, how, kind, t, a, 1 .. 0)
    BY <2>1 DEF Folds
  <2> QED BY <2>2
<1>2. ASSUME NEW n \in Nat, n \in S
      PROVE  n + 1 \in S
  <2>1. PICK g : Folds(g, how, kind, t, a, 1 .. n)
    BY <1>2
  <2> DEFINE h == [s \in SUBSET (1 .. n + 1) |->
                     IF n + 1 \in s THEN Step(how, kind, g[s \ {n + 1}], a[n + 1]) ELSE g[s]]
             Next1(s) == IF s = {} THEN t ELSE Step(how, kind, h[s \ {Max(s)}], a[Max(s)])
  <2>2. ASSUME NEW s \in SUBSET (1 .. n + 1), n + 1 \in s
        PROVE  h[s] = Next1(s)
    <3>1. Max(s) = n + 1
      BY <2>2, Greatest
    <3>2. s \ {n + 1} \in SUBSET (1 .. n + 1) /\ n + 1 \notin s \ {n + 1}
      OBVIOUS
    <3>3. h[s \ {n + 1}] = g[s \ {n + 1}]
      BY <3>2
    <3>4. h[s] = Step(how, kind, g[s \ {n + 1}], a[n + 1])
      BY <2>2
    <3> HIDE DEF h
    <3> QED BY <3>1, <3>3, <3>4, <2>2
  <2>3. ASSUME NEW s \in SUBSET (1 .. n + 1), n + 1 \notin s
        PROVE  h[s] = Next1(s)
    <3>1. s \in SUBSET (1 .. n)
      BY <2>3
    <3>2. h[s] = g[s]
      BY <2>3
    <3>3. g[s] = IF s = {} THEN t ELSE Step(how, kind, g[s \ {Max(s)}], a[Max(s)])
      BY <3>1, <2>1 DEF Folds
    <3>4. s \ {Max(s)} \in SUBSET (1 .. n + 1) /\ n + 1 \notin s \ {Max(s)}
      BY <2>3
    <3>5. h[s \ {Max(s)}] = g[s \ {Max(s)}]
      BY <3>4
    <3> HIDE DEF h
    <3> QED BY <3>2, <3>3, <3>5
  <2>4. \A s \in SUBSET (1 .. n + 1) : h[s] = Next1(s)
    BY <2>2, <2>3
  <2>5. h = [s \in SUBSET (1 .. n + 1) |-> h[s]]
    OBVIOUS
  <2>6. h = [s \in SUBSET (1 .. n + 1) |-> Next1(s)]
    <3> HIDE DEF h
    <3> QED BY <2>4, <2>5
  <2>7. Folds(h, how, kind, t, a, 1 .. n + 1)
    <3> HIDE DEF h
    <3> QED BY <2>6 DEF Folds
  <2>8. \E f : Folds(f, how, kind, t, a, 1 .. n + 1)
    <3> HIDE DEF h
    <3> QED BY <2>7
  <2> QED BY <2>8
<1>3. Nat \subseteq S
  <2> HIDE DEF S
  <2> QED BY <1>1, <1>2, SetInduction
<1> QED BY <1>3

\* ... and on the first indices two of them agree if the elements do.
LEMMA FoldsAgree ==
  ASSUME NEW how \in Hows, NEW kind, NEW t, NEW a, NEW b, NEW n \in Nat, NEW m \in Nat, n <= m,
         \A i \in 1 .. n : a[i] = b[i],
         NEW g, NEW h, Folds(g, how, kind, t, a, 1 .. n), Folds(h, how, kind, t, b, 1 .. m)
  PROVE  g[1 .. n] = h[1 .. n]
<1> DEFINE S == {j \in Nat : j <= n => g[1 .. j] = h[1 .. j]}
<1>1. ASSUME NEW j \in Nat, j <= n
      PROVE  /\ 1 .. j \in SUBSET (1 .. n)
             /\ 1 .. j \in SUBSET (1 .. m)
  BY <1>1
<1>2. 0 \in S
  <2>1. 1 .. 0 = {}
    OBVIOUS
  <2>2. {} \in SUBSET (1 .. n) /\ {} \in SUBSET (1 .. m)
    OBVIOUS
  <2>3. g[{}] = t /\ h[{}] = t
    BY <2>2 DEF Folds
  <2> QED BY <2>1, <2>3
<1>3. ASSUME NEW j \in Nat, j \in S
      PROVE  j + 1 \in S
  <2> SUFFICES ASSUME j + 1 <= n PROVE g[1 .. j + 1] = h[1 .. j + 1]
    OBVIOUS
  <2>1. Max(1 .. j + 1) = j + 1
    BY Interval, Greatest
  <2>2. (1 .. j + 1) \ {j + 1} = 1 .. j /\ 1 .. j + 1 # {}
    BY Interval
  <2> DEFINE J == 1 .. j + 1
  <2>3. J \in SUBSET (1 .. n) /\ J \in SUBSET (1 .. m)
    BY <1>1
  <2>4. Max(J) = j + 1 /\ J \ {Max(J)} = 1 .. j /\ J # {}
    BY <2>1, <2>2
  <2> HIDE DEF J
  <2>5. g[J] = Step(how, kind, g[1 .. j], a[j + 1])
    BY <2>3, <2>4 DEF Folds
  <2>6. h[J] = Step(how, kind, h[1 .. j], b[j + 1])
    BY <2>3, <2>4 DEF Folds
  <2>7. a[j + 1] = b[j + 1] /\ g[1 .. j] = h[1 .. j]
    BY <1>3
  <2> QED BY <2>5, <2>6, <2>7 DEF J
<1>4. Nat \subseteq S
  <2> HIDE DEF S
  <2> QED BY <1>2, <1>3, SetInduction
<1> QED BY <1>4

\* The folds are values of these functions.
LEMMA RowFoldIs ==
  ASSUME NEW how \in Hows, NEW kind, NEW t, NEW a, NEW n \in Nat, DOMAIN a = 1 .. n
  PROVE  \E g : Folds(g, how, kind, t, a, 1 .. n) /\ RowFold(how, kind, t, a) = g[1 .. n]
<1> DEFINE g == CHOOSE f : Folds(f, how, kind, t, a, 1 .. n)
<1>1. Folds(g, how, kind, t, a, 1 .. n)
  BY FoldExists
<1>2. RowFold(how, kind, t, a) = g[1 .. n]
  BY FoldChosen
<1> HIDE DEF g
<1> QED BY <1>1, <1>2

\* No element changes nothing, and one more is one more step.
LEMMA FoldNothing ==
  ASSUME NEW how \in Hows, NEW kind, NEW t
  PROVE  RowFold(how, kind, t, <<>>) = t
<1> DEFINE none == <<>>
<1>1. DOMAIN none = 1 .. 0 /\ 0 \in Nat /\ 1 .. 0 = {} /\ {} \in SUBSET (1 .. 0)
  OBVIOUS
<1> HIDE DEF none
<1>2. PICK g : Folds(g, how, kind, t, none, 1 .. 0) /\ RowFold(how, kind, t, none) = g[1 .. 0]
  BY <1>1, RowFoldIs
<1>3. RowFold(how, kind, t, none) = t
  BY <1>1, <1>2 DEF Folds
<1> QED BY <1>3 DEF none

\* ... which is the step of the last element.
LEMMA FoldOneMore ==
  ASSUME NEW how \in Hows, NEW kind, NEW t, NEW T, NEW a \in Seq(T), NEW x \in T
  PROVE  RowFold(how, kind, t, Append(a, x)) = Step(how, kind, RowFold(how, kind, t, a), x)
<1> DEFINE n == Len(a)
           b == Append(a, x)
<1>1. /\ n \in Nat /\ DOMAIN a = 1 .. n /\ DOMAIN b = 1 .. n + 1
      /\ \A i \in 1 .. n : b[i] = a[i]
      /\ b[n + 1] = x
  OBVIOUS
<1> HIDE DEF n, b
<1>2. PICK g : Folds(g, how, kind, t, a, 1 .. n) /\ RowFold(how, kind, t, a) = g[1 .. n]
  BY <1>1, RowFoldIs
<1>3. PICK h : Folds(h, how, kind, t, b, 1 .. n + 1) /\ RowFold(how, kind, t, b) = h[1 .. n + 1]
  BY <1>1, RowFoldIs
<1>4. h[1 .. n] = g[1 .. n]
  <2>1. n <= n + 1 /\ n + 1 \in Nat
    BY <1>1
  <2>2. \A i \in 1 .. n : a[i] = b[i]
    BY <1>1
  <2>3. Folds(g, how, kind, t, a, 1 .. n) /\ Folds(h, how, kind, t, b, 1 .. n + 1)
    BY <1>2, <1>3
  <2>4. g[1 .. n] = h[1 .. n]
    <3> HIDE DEF Folds
    <3> QED BY <1>1, <2>1, <2>2, <2>3, FoldsAgree
  <2> QED BY <2>4
<1>5. /\ 1 .. n + 1 \in SUBSET (1 .. n + 1) /\ n + 1 \in 1 .. n + 1
      /\ 1 .. n + 1 # {} /\ (1 .. n + 1) \ {n + 1} = 1 .. n
  BY <1>1, Interval
<1>6. Max(1 .. n + 1) = n + 1
  BY <1>1, <1>5, Greatest
<1>7. h[1 .. n + 1] = Step(how, kind, h[1 .. n], b[n + 1])
  BY <1>3, <1>5, <1>6 DEF Folds
<1> QED BY <1>1, <1>2, <1>3, <1>4, <1>7 DEF b

\* Induction over texts, for a set in place of a property.
LEMMA TextInduction ==
  ASSUME NEW T, NEW S, <<>> \in S,
         \A s \in Seq(T) : s \in S => \A c \in T : Append(s, c) \in S
  PROVE  Seq(T) \subseteq S
<1> DEFINE N == {n \in Nat : \A s \in Seq(T) : Len(s) = n => s \in S}
<1>1. 0 \in N
  <2>1. \A s \in Seq(T) : Len(s) = 0 => s = <<>>
    OBVIOUS
  <2> QED BY <2>1
<1>2. ASSUME NEW n \in Nat, n \in N
      PROVE  n + 1 \in N
  <2> SUFFICES ASSUME NEW s \in Seq(T), Len(s) = n + 1 PROVE s \in S
    OBVIOUS
  <2> DEFINE b == SubSeq(s, 1, n)
  <2>1. b \in Seq(T) /\ Len(b) = n /\ s[n + 1] \in T /\ s = Append(b, s[n + 1])
    OBVIOUS
  <2> HIDE DEF b
  <2>2. b \in S
    BY <1>2, <2>1
  <2> QED BY <2>1, <2>2
<1>3. Nat \subseteq N
  <2> HIDE DEF N
  <2> QED BY <1>1, <1>2, SetInduction
<1> QED BY <1>3

(***************************************************************************)
(* Splitting                                                               *)
(***************************************************************************)
Part(f, t, d, i) ==
  LET hits == Finds(t, d, i)
  IN IF hits = {} THEN <<SubSeq(t, i, Len(t))>>
     ELSE <<SubSeq(t, i, Min(hits) - 1)>> \o f[Min(hits) + Len(d)]

\* The recursive function Split takes the value of.
Steps(f, t, d) == f = [i \in 1 .. Len(t) + 1 |-> Part(f, t, d, i)]

\* Split takes the value of such a function at 1.
LEMMA SplitIs ==
  ASSUME NEW t, NEW d
  PROVE  Split(t, d) = (CHOOSE f : Steps(f, t, d))[1]
BY DEF Split, Steps, Part

\* The first of the places where d is found.
LEMMA FirstHit ==
  ASSUME NEW C, NEW t \in Seq(C), NEW d \in Seq(C), d # <<>>, NEW i \in 1 .. Len(t) + 1,
         Finds(t, d, i) # {}
  PROVE  /\ Min(Finds(t, d, i)) \in Finds(t, d, i)
         /\ \A j \in Finds(t, d, i) : Min(Finds(t, d, i)) <= j
         /\ Min(Finds(t, d, i)) \in Nat /\ i <= Min(Finds(t, d, i))
         /\ Min(Finds(t, d, i)) + Len(d) <= Len(t) + 1
<1> DEFINE H == Finds(t, d, i)
<1>1. Len(t) \in Nat /\ Len(d) \in Nat /\ Len(d) # 0 /\ i \in Nat
  BY LenProperties, EmptySeq
<1>2. \A j \in H : j \in Nat /\ i <= j /\ j + Len(d) <= Len(t) + 1
  BY <1>1 DEF Finds
<1> HIDE DEF H
<1>3. PICK m \in H : \A j \in H : m <= j
  <2>1. H \subseteq Nat
    BY <1>2
  <2> QED BY <2>1, LeastNumber DEF H
<1>4. Min(H) \in H /\ \A j \in H : Min(H) <= j
  BY <1>3 DEF Min
<1> QED BY <1>2, <1>4 DEF H

\* There is such a function: from the end of the text on.
LEMMA SplitSteps ==
  ASSUME NEW C, NEW t \in Seq(C), NEW d \in Seq(C), d # <<>>
  PROVE  \E f : Steps(f, t, d)
<1> DEFINE L == Len(t)
           I == 1 .. L + 1
           Upto(f, k) == \A i \in I : L + 1 < i + k => f[i] = Part(f, t, d, i)
           S == {k \in Nat : \E f : f = [i \in I |-> f[i]] /\ Upto(f, k)}
<1>1. L \in Nat
  BY LenProperties
<1> HIDE DEF L
<1>2. 0 \in S
  <2> DEFINE f == [i \in I |-> 0]
  <2>1. f = [i \in I |-> f[i]]
    OBVIOUS
  <2>2. \A i \in I : ~(L + 1 < i + 0)
    BY <1>1
  <2>3. Upto(f, 0)
    BY <2>2
  <2> HIDE DEF f, Upto
  <2> QED BY <2>1, <2>3
<1>3. ASSUME NEW k \in Nat, k \in S
      PROVE  k + 1 \in S
  <2>1. PICK f : f = [i \in I |-> f[i]] /\ Upto(f, k)
    BY <1>3
  <2> DEFINE n == L + 1 - k
             g == [f EXCEPT ![n] = Part(f, t, d, n)]
  <2>2. g = [i \in I |-> g[i]]
    BY <2>1
  <2>3. \A i \in I : i # n => g[i] = f[i]
    BY <2>1
  <2>4. n \in I => g[n] = Part(f, t, d, n)
    BY <2>1
  <2> HIDE DEF g
  <2>5. ASSUME NEW i \in I, n <= i
        PROVE  Part(g, t, d, i) = Part(f, t, d, i)
    <3>1. CASE Finds(t, d, i) = {}
      BY <3>1 DEF Part
    <3>2. CASE Finds(t, d, i) # {}
      <4> DEFINE m == Min(Finds(t, d, i)) + Len(d)
      <4>1. m \in I /\ m # n
        <5>1. Len(d) \in Nat /\ Len(d) # 0
          BY LenProperties, EmptySeq
        <5>2. /\ Min(Finds(t, d, i)) \in Nat /\ i <= Min(Finds(t, d, i))
              /\ Min(Finds(t, d, i)) + Len(d) <= L + 1
          BY <3>2, FirstHit DEF L
        <5> QED BY <1>1, <2>5, <5>1, <5>2
      <4>2. g[m] = f[m]
        BY <2>3, <4>1
      <4> QED BY <3>2, <4>2 DEF Part
    <3> QED BY <3>1, <3>2
  <2>6. Upto(g, k + 1)
    <3> SUFFICES ASSUME NEW i \in I, L + 1 < i + (k + 1) PROVE g[i] = Part(g, t, d, i)
      OBVIOUS
    <3>1. n <= i /\ (i # n => L + 1 < i + k)
      BY <1>1
    <3>2. Part(g, t, d, i) = Part(f, t, d, i)
      BY <2>5, <3>1
    <3>3. CASE i = n
      BY <2>4, <3>2, <3>3
    <3>4. CASE i # n
      BY <2>1, <2>3, <3>1, <3>2, <3>4
    <3> QED BY <3>3, <3>4
  <2> HIDE DEF Upto, n, I
  <2>7. \E h : h = [i \in I |-> h[i]] /\ Upto(h, k + 1)
    BY <2>2, <2>6
  <2> QED BY <2>7
<1>4. Nat \subseteq S
  <2> HIDE DEF S
  <2> QED BY <1>2, <1>3, SetInduction
<1>5. PICK f : f = [i \in I |-> f[i]] /\ Upto(f, L + 1)
  <2>1. L + 1 \in S
    BY <1>1, <1>4
  <2> QED BY <2>1
<1>6. \A i \in I : f[i] = Part(f, t, d, i)
  BY <1>1, <1>5
<1>7. f = [i \in I |-> Part(f, t, d, i)]
  <2> DEFINE P(i) == Part(f, t, d, i)
  <2>1. \A i \in I : f[i] = P(i)
    BY <1>6
  <2> HIDE DEF P
  <2>2. f = [i \in I |-> P(i)]
    BY <1>5, <2>1
  <2> QED BY <2>2 DEF P
<1> QED BY <1>7 DEF Steps, L

\* Text x stands in t behind its first p characters.
Occurs(x, t, p) == \A j \in 1 .. Len(x) : t[p + j] = x[j]

\* A part of a text is x where the characters of x stand.
LEMMA PieceIs ==
  ASSUME NEW C, NEW t \in Seq(C), NEW x \in Seq(C), NEW p \in Nat, p + Len(x) <= Len(t)
  PROVE  SubSeq(t, p + 1, p + Len(x)) = x <=> Occurs(x, t, p)
<1> DEFINE u == SubSeq(t, p + 1, p + Len(x))
           n == Len(x)
<1>1. n \in Nat /\ Len(t) \in Nat
  BY LenProperties
<1>2. u \in Seq(C) /\ Len(u) = n /\ \A j \in 1 .. n : u[j] = t[p + j]
  <2>1. p + 1 \in Int /\ p + n \in Int /\ \A i \in p + 1 .. p + n : i \in 1 .. Len(t)
    BY <1>1
  <2>2. \A i \in p + 1 .. p + n : t[i] \in C
    BY <2>1, ElementOfSeq
  <2>3. /\ u \in Seq(C) /\ Len(u) = IF p + 1 <= p + n THEN (p + n) - (p + 1) + 1 ELSE 0
        /\ \A i \in 1 .. (p + n) - (p + 1) + 1 : u[i] = t[(p + 1) + i - 1]
    BY <2>1, <2>2, SubSeqProperties
  <2>4. (IF p + 1 <= p + n THEN (p + n) - (p + 1) + 1 ELSE 0) = n /\ (p + n) - (p + 1) + 1 = n
    BY <1>1
  <2>5. \A j \in 1 .. n : (p + 1) + j - 1 = p + j
    BY <1>1
  <2> HIDE DEF u, n
  <2> QED BY <2>3, <2>4, <2>5
<1> HIDE DEF u, n
<1>3. (\A j \in 1 .. n : t[p + j] = x[j]) => u = x
  <2>1. ASSUME \A j \in 1 .. n : t[p + j] = x[j] PROVE \A j \in 1 .. Len(u) : u[j] = x[j]
    BY <1>2, <2>1
  <2>2. Len(u) = Len(x)
    BY <1>2 DEF n
  <2> QED BY <1>2, <2>1, <2>2, SeqEqual
<1>4. u = x => \A j \in 1 .. n : t[p + j] = x[j]
  BY <1>2
<1> QED BY <1>3, <1>4 DEF Occurs, u, n

\* Words, each followed by d, and a last one: where they are in a text.
Laid(t, d, ws, w, P) ==
  /\ P \in [1 .. Len(ws) + 1 -> 0 .. Len(t)] /\ P[1] = 0
  /\ \A k \in 1 .. Len(ws) :
       /\ P[k + 1] = P[k] + Len(ws[k]) + Len(d)
       /\ Occurs(ws[k], t, P[k]) /\ Occurs(d, t, P[k] + Len(ws[k]))
  /\ Len(t) = P[Len(ws) + 1] + Len(w)
  /\ Occurs(w, t, P[Len(ws) + 1])

\* The first d behind a word is the one that follows it.
Apart(x, d) ==
  \A j \in 1 .. Len(x) : \E m \in 1 .. Len(d) :
    (IF j + m - 1 <= Len(x) THEN x[j + m - 1] ELSE d[j + m - 1 - Len(x)]) # d[m]

\* Behind the last word there is no d.
LEMMA NoneLast ==
  ASSUME NEW C, NEW t \in Seq(C), NEW d \in Seq(C), d # <<>>, NEW x \in Seq(C), Apart(x, d),
         NEW p \in Nat, Len(t) = p + Len(x), Occurs(x, t, p)
  PROVE  Finds(t, d, p + 1) = {}
<1> DEFINE n == Len(x)
           l == Len(d)
<1>1. n \in Nat /\ l \in Nat /\ l # 0 /\ Len(t) = p + n
  BY LenProperties, EmptySeq
<1> HIDE DEF n, l
<1> SUFFICES ASSUME NEW i \in Finds(t, d, p + 1) PROVE FALSE
  OBVIOUS
<1>2. i \in p + 1 .. Len(t) - l + 1 /\ SubSeq(t, i, i + l - 1) = d
  BY DEF Finds, l
<1>3. i \in Nat /\ i - 1 \in Nat /\ (i - 1) + l <= Len(t) /\ i - p \in 1 .. n
      /\ (i - 1) + 1 = i /\ (i - 1) + l = i + l - 1
  BY <1>1, <1>2
<1>4. \A m \in 1 .. l : t[(i - 1) + m] = d[m]
  <2> DEFINE r == i - 1
  <2>1. r \in Nat /\ r + Len(d) <= Len(t) /\ SubSeq(t, r + 1, r + Len(d)) = d
    BY <1>2, <1>3 DEF l
  <2> HIDE DEF r
  <2>2. Occurs(d, t, r)
    BY <2>1, PieceIs
  <2> QED BY <2>2 DEF Occurs, r, l
<1>5. PICK m \in 1 .. l :
        (IF (i - p) + m - 1 <= n THEN x[(i - p) + m - 1] ELSE d[(i - p) + m - 1 - n]) # d[m]
  BY <1>3 DEF Apart, n, l
<1>6. (i - p) + m - 1 \in 1 .. n /\ p + ((i - p) + m - 1) = (i - 1) + m
  BY <1>1, <1>3
<1>7. x[(i - p) + m - 1] = t[(i - 1) + m]
  BY <1>6 DEF Occurs, n
<1> QED BY <1>4, <1>5, <1>6, <1>7

\* The d behind a word is found where the word ends.
LEMMA NextHit ==
  ASSUME NEW C, NEW t \in Seq(C), NEW d \in Seq(C), d # <<>>, NEW x \in Seq(C), Apart(x, d),
         NEW p \in Nat, p + Len(x) + Len(d) <= Len(t),
         Occurs(x, t, p), Occurs(d, t, p + Len(x))
  PROVE  Finds(t, d, p + 1) # {} /\ Min(Finds(t, d, p + 1)) = p + Len(x) + 1
<1> DEFINE n == Len(x)
           l == Len(d)
           H == Finds(t, d, p + 1)
           q == p + n + 1
<1>1. n \in Nat /\ l \in Nat /\ l # 0 /\ p + n + l <= Len(t) /\ Len(t) \in Nat
  BY LenProperties, EmptySeq
<1> HIDE DEF n, l
<1>2. q \in H
  <2>1. p + n \in Nat /\ (p + n) + l <= Len(t)
    BY <1>1
  <2>2. SubSeq(t, (p + n) + 1, (p + n) + l) = d
    BY <2>1, PieceIs DEF n, l
  <2>3. q \in p + 1 .. Len(t) - l + 1 /\ q + l - 1 = (p + n) + l
    BY <1>1
  <2> QED BY <2>2, <2>3 DEF Finds, l
<1>3. ASSUME NEW i \in H PROVE q <= i
  <2>1. i \in p + 1 .. Len(t) - l + 1 /\ SubSeq(t, i, i + l - 1) = d
    BY DEF Finds, l
  <2> SUFFICES ASSUME ~(q <= i) PROVE FALSE
    OBVIOUS
  <2>2. i \in Nat /\ i - 1 \in Nat /\ (i - 1) + l <= Len(t) /\ i - p \in 1 .. n
        /\ (i - 1) + 1 = i /\ (i - 1) + l = i + l - 1
    BY <1>1, <2>1
  <2>3. \A m \in 1 .. l : t[(i - 1) + m] = d[m]
    <3> DEFINE r == i - 1
    <3>1. r \in Nat /\ r + Len(d) <= Len(t) /\ SubSeq(t, r + 1, r + Len(d)) = d
      BY <2>1, <2>2 DEF l
    <3> HIDE DEF r
    <3>2. Occurs(d, t, r)
      BY <3>1, PieceIs
    <3> QED BY <3>2 DEF Occurs, r, l
  <2>4. PICK m \in 1 .. l :
          (IF (i - p) + m - 1 <= n THEN x[(i - p) + m - 1] ELSE d[(i - p) + m - 1 - n]) # d[m]
    BY <2>2 DEF Apart, n, l
  <2>5. CASE (i - p) + m - 1 <= n
    <3>1. (i - p) + m - 1 \in 1 .. n /\ p + ((i - p) + m - 1) = (i - 1) + m
      BY <1>1, <2>2, <2>5
    <3>2. x[(i - p) + m - 1] = t[(i - 1) + m]
      BY <3>1 DEF Occurs, n
    <3> QED BY <2>3, <2>4, <2>5, <3>2
  <2>6. CASE ~((i - p) + m - 1 <= n)
    <3>1. (i - p) + m - 1 - n \in 1 .. l /\ p + n + ((i - p) + m - 1 - n) = (i - 1) + m
      BY <1>1, <2>2, <2>6
    <3>2. d[(i - p) + m - 1 - n] = t[(i - 1) + m]
      BY <3>1 DEF Occurs, n, l
    <3> QED BY <2>3, <2>4, <2>6, <3>2
  <2> QED BY <2>5, <2>6
<1>4. Min(H) \in H /\ \A i \in H : Min(H) <= i
  <2>1. \E m \in H : \A i \in H : m <= i
    BY <1>2, <1>3
  <2> QED BY <2>1 DEF Min
<1>5. Min(H) = q
  <2>1. Min(H) \in Int
    BY <1>1, <1>4 DEF Finds, l
  <2>2. Min(H) <= q /\ q <= Min(H)
    BY <1>2, <1>3, <1>4
  <2>3. q \in Int
    BY <1>1
  <2> HIDE DEF H, q
  <2> QED BY <2>1, <2>2, <2>3
<1> QED BY <1>2, <1>5 DEF n

\* A sequence from its i-th element on is that element and the rest.
LEMMA OnePiece ==
  ASSUME NEW V, NEW v \in Seq(V), NEW i \in 1 .. Len(v)
  PROVE  SubSeq(v, i, Len(v)) = <<v[i]>> \o SubSeq(v, i + 1, Len(v))
<1> DEFINE a == SubSeq(v, i, Len(v))
           b == SubSeq(v, i + 1, Len(v))
           n == Len(v)
           u == <<v[i]>> \o b
<1>1. n \in Nat /\ i \in Nat /\ 1 <= i /\ i <= n
  BY LenProperties
<1>2. \A j \in 1 .. n : v[j] \in V
  BY ElementOfSeq
<1>3. a \in Seq(V) /\ Len(a) = n - i + 1 /\ \A j \in 1 .. n - i + 1 : a[j] = v[i + j - 1]
  <2>1. \A j \in i .. n : v[j] \in V
    BY <1>1, <1>2
  <2>2. /\ a \in Seq(V) /\ Len(a) = IF i <= n THEN n - i + 1 ELSE 0
        /\ \A j \in 1 .. n - i + 1 : a[j] = v[i + j - 1]
    BY <1>1, <2>1, SubSeqProperties
  <2> HIDE DEF a, n
  <2> QED BY <1>1, <2>2
<1>4. b \in Seq(V) /\ Len(b) = n - i /\ \A j \in 1 .. n - i : b[j] = v[i + j]
  <2>1. i + 1 \in Int /\ \A j \in i + 1 .. n : v[j] \in V
    BY <1>1, <1>2
  <2>2. /\ b \in Seq(V) /\ Len(b) = IF i + 1 <= n THEN n - (i + 1) + 1 ELSE 0
        /\ \A j \in 1 .. n - (i + 1) + 1 : b[j] = v[(i + 1) + j - 1]
    BY <1>1, <2>1, SubSeqProperties
  <2> HIDE DEF b, n
  <2>3. n - (i + 1) + 1 = n - i /\ (~(i + 1 <= n) => n - i = 0)
        /\ \A j \in 1 .. n - i : (i + 1) + j - 1 = i + j
    BY <1>1
  <2> QED BY <2>2, <2>3
<1>5. <<v[i]>> \in Seq(V) /\ Len(<<v[i]>>) = 1 /\ <<v[i]>>[1] = v[i]
  BY <1>1, <1>2
<1> HIDE DEF a, b, n
<1>6. /\ u \in Seq(V) /\ Len(u) = 1 + (n - i)
      /\ \A j \in 1 .. 1 + (n - i) : u[j] = IF j <= 1 THEN v[i] ELSE b[j - 1]
  <2>1. /\ u \in Seq(V) /\ Len(u) = Len(<<v[i]>>) + Len(b)
        /\ \A j \in 1 .. Len(<<v[i]>>) + Len(b) :
             u[j] = IF j <= Len(<<v[i]>>) THEN <<v[i]>>[j] ELSE b[j - Len(<<v[i]>>)]
    BY <1>4, <1>5, ConcatProperties
  <2>2. \A j \in 1 .. 1 + (n - i) : j <= 1 => j = 1
    BY <1>1
  <2> HIDE DEF u
  <2> QED BY <1>4, <1>5, <2>1, <2>2
<1> HIDE DEF u
<1>7. \A j \in 1 .. Len(a) : a[j] = u[j]
  <2> SUFFICES ASSUME NEW j \in 1 .. n - i + 1 PROVE a[j] = u[j]
    BY <1>3
  <2>1. CASE j = 1
    BY <1>1, <1>3, <1>6, <2>1
  <2>2. CASE j # 1
    <3>1. j - 1 \in 1 .. n - i /\ i + (j - 1) = i + j - 1 /\ ~(j <= 1) /\ j \in 1 .. 1 + (n - i)
      BY <1>1, <2>2
    <3> QED BY <1>3, <1>4, <1>6, <3>1
  <2> QED BY <2>1, <2>2
<1>8. a = u
  <2>1. a \in Seq(V) /\ u \in Seq(V)
    BY <1>3, <1>6
  <2>2. Len(a) = Len(u)
    BY <1>1, <1>3, <1>6
  <2> QED BY <1>7, <2>1, <2>2, SeqEqual
<1> QED BY <1>8 DEF a, b, u, n

\* A text that words are laid out in is split into these words.
THEOREM SplitLaid ==
  ASSUME NEW C, NEW t \in Seq(C), NEW d \in Seq(C), d # <<>>,
         NEW ws \in Seq(Seq(C)), NEW w \in Seq(C),
         \A k \in 1 .. Len(ws) : Apart(ws[k], d), Apart(w, d),
         NEW P, Laid(t, d, ws, w, P)
  PROVE  Split(t, d) = Append(ws, w)
<1> DEFINE n == Len(ws)
           v == Append(ws, w)
           f == CHOOSE h : Steps(h, t, d)
           Rest(i) == SubSeq(v, i, n + 1)
           Done(i) == P[i] <= Len(t) /\ f[P[i] + 1] = Rest(i)
           S == {k \in Nat : k <= n => Done(n + 1 - k)}
<1>1. Steps(f, t, d)
  BY SplitSteps
<1> HIDE DEF f
<1>2. n \in Nat /\ Len(t) \in Nat /\ Len(d) \in Nat /\ Len(d) # 0
  BY LenProperties, EmptySeq
<1>3. \A i \in 1 .. Len(t) + 1 : f[i] = Part(f, t, d, i)
  BY <1>1 DEF Steps
<1>4. v \in Seq(Seq(C)) /\ Len(v) = n + 1 /\ v[n + 1] = w /\ \A i \in 1 .. n : v[i] = ws[i]
  BY AppendProperties
<1>5. \A i \in 1 .. n : ws[i] \in Seq(C) /\ Len(ws[i]) \in Nat
  BY ElementOfSeq, LenProperties
<1>6. /\ P \in [1 .. n + 1 -> 0 .. Len(t)] /\ P[1] = 0
      /\ Len(t) = P[n + 1] + Len(w) /\ Occurs(w, t, P[n + 1])
  BY DEF Laid
<1>7. \A i \in 1 .. n : /\ P[i + 1] = P[i] + Len(ws[i]) + Len(d)
                        /\ Occurs(ws[i], t, P[i]) /\ Occurs(d, t, P[i] + Len(ws[i]))
  BY DEF Laid
<1> HIDE DEF n, v
<1>8. \A i \in 1 .. n + 1 : P[i] \in Nat
  <2>1. \A i \in 1 .. n + 1 : P[i] \in 0 .. Len(t)
    BY <1>6
  <2> QED BY <1>2, <2>1
<1>9. 0 \in S
  <2> DEFINE p == P[n + 1]
  <2>1. n + 1 \in 1 .. n + 1 /\ p \in Nat /\ Len(w) \in Nat /\ Len(t) = p + Len(w)
    BY <1>2, <1>6, <1>8, LenProperties
  <2>2. Occurs(w, t, p)
    BY <1>6
  <2> HIDE DEF p
  <2>3. Finds(t, d, p + 1) = {}
    BY <2>1, <2>2, NoneLast
  <2>4. SubSeq(t, p + 1, p + Len(w)) = w
    <3>1. p + Len(w) <= Len(t)
      BY <1>2, <2>1
    <3> QED BY <2>1, <2>2, <3>1, PieceIs
  <2>5. f[p + 1] = <<w>>
    <3>1. p + 1 \in 1 .. Len(t) + 1
      BY <1>2, <2>1
    <3> QED BY <1>3, <2>1, <2>3, <2>4, <3>1 DEF Part
  <2>6. Rest(n + 1) = <<w>>
    <3> DEFINE r == SubSeq(v, n + 1, n + 1)
    <3>1. n + 1 \in Int /\ (\A i \in n + 1 .. n + 1 : v[i] \in Seq(C))
      BY <1>2, <1>4
    <3>2. /\ r \in Seq(Seq(C)) /\ Len(r) = IF n + 1 <= n + 1 THEN (n + 1) - (n + 1) + 1 ELSE 0
          /\ \A i \in 1 .. (n + 1) - (n + 1) + 1 : r[i] = v[(n + 1) + i - 1]
      BY <1>4, <3>1, SubSeqProperties
    <3> HIDE DEF r
    <3>3. Len(r) = 1 /\ 1 \in 1 .. (n + 1) - (n + 1) + 1 /\ (n + 1) + 1 - 1 = n + 1
      BY <1>2, <3>2
    <3>4. r[1] = w
      BY <1>4, <3>2, <3>3
    <3>5. r = <<w>>
      BY <3>2, <3>3, <3>4
    <3> QED BY <3>5 DEF r
  <2>7. p <= Len(t)
    BY <2>1
  <2>8. n + 1 - 0 = n + 1
    BY <1>2
  <2> HIDE DEF Rest
  <2> QED BY <2>5, <2>6, <2>7, <2>8 DEF p
<1>10. ASSUME NEW k \in Nat, k \in S
       PROVE  k + 1 \in S
  <2> SUFFICES ASSUME k + 1 <= n PROVE Done(n + 1 - (k + 1))
    OBVIOUS
  <2> DEFINE i == n + 1 - (k + 1)
             x == ws[i]
             p == P[i]
  <2>1. i \in 1 .. n /\ i + 1 = n + 1 - k /\ i \in 1 .. n + 1
    BY <1>2
  <2>2. Done(i + 1)
    <3>1. k <= n => Done(n + 1 - k)
      BY <1>10
    <3> HIDE DEF Done, i
    <3> QED BY <1>2, <2>1, <3>1
  <2> HIDE DEF i
  <2>3. x \in Seq(C) /\ Len(x) \in Nat /\ p \in Nat /\ Apart(x, d)
    BY <1>5, <1>8, <2>1 DEF n
  <2>4. /\ P[i + 1] = p + Len(x) + Len(d)
        /\ Occurs(x, t, p) /\ Occurs(d, t, p + Len(x))
    BY <1>7, <2>1
  <2>5. v[i] = x
    BY <1>4, <2>1
  <2> HIDE DEF x, p
  <2>6. p + Len(x) + Len(d) <= Len(t)
    BY <2>2, <2>4
  <2>7. Finds(t, d, p + 1) # {} /\ Min(Finds(t, d, p + 1)) = p + Len(x) + 1
    BY <2>3, <2>4, <2>6, NextHit
  <2>8. SubSeq(t, p + 1, p + Len(x)) = x
    <3>1. p + Len(x) <= Len(t)
      BY <1>2, <2>3, <2>6
    <3> QED BY <2>3, <2>4, <3>1, PieceIs
  <2>9. f[p + 1] = <<x>> \o f[P[i + 1] + 1]
    <3>1. p + 1 \in 1 .. Len(t) + 1
      BY <1>2, <2>3, <2>6
    <3>2. (p + Len(x) + 1) - 1 = p + Len(x) /\ (p + Len(x) + 1) + Len(d) = P[i + 1] + 1
      BY <1>2, <2>3, <2>4
    <3>3. f[p + 1] = <<SubSeq(t, p + 1, (p + Len(x) + 1) - 1)>> \o f[(p + Len(x) + 1) + Len(d)]
      BY <1>3, <2>7, <3>1 DEF Part
    <3> QED BY <2>8, <3>2, <3>3
  <2>10. Rest(i) = <<x>> \o Rest(i + 1)
    <3>1. i \in 1 .. Len(v)
      BY <1>2, <1>4, <2>1
    <3>2. SubSeq(v, i, Len(v)) = <<v[i]>> \o SubSeq(v, i + 1, Len(v))
      BY <1>4, <3>1, OnePiece
    <3> QED BY <1>4, <2>5, <3>2
  <2>11. p <= Len(t)
    BY <1>2, <2>3, <2>6
  <2> HIDE DEF Rest
  <2> QED BY <2>2, <2>9, <2>10, <2>11 DEF i, p
<1>11. Nat \subseteq S
  <2> HIDE DEF S
  <2> QED BY <1>9, <1>10, SetInduction
<1>12. Done(1)
  <2>1. n \in S
    <3> HIDE DEF S
    <3> QED BY <1>2, <1>11
  <2>2. n <= n /\ n + 1 - n = 1
    BY <1>2
  <2>3. n <= n => Done(n + 1 - n)
    <3> HIDE DEF Done
    <3> QED BY <2>1
  <2> HIDE DEF Done
  <2> QED BY <2>2, <2>3
<1>13. Rest(1) = v
  <2>1. SubSeq(v, 1, Len(v)) = v
    BY <1>4
  <2> QED BY <1>4, <2>1
<1>14. f[1] = v
  <2>1. P[1] + 1 = 1
    BY <1>6
  <2> HIDE DEF Rest
  <2> QED BY <1>12, <1>13, <2>1
<1> QED BY <1>14, SplitIs DEF f, v

(***************************************************************************)
(* Laying out                                                              *)
(***************************************************************************)
\* What stands in a text stands in a longer one, ...
LEMMA OccursMore ==
  ASSUME NEW C, NEW t \in Seq(C), NEW u \in Seq(C), NEW x \in Seq(C), NEW p \in Nat,
         p + Len(x) <= Len(t), Occurs(x, t, p)
  PROVE  Occurs(x, t \o u, p)
<1>1. Len(x) \in Nat /\ Len(t) \in Nat /\ Len(u) \in Nat
  BY LenProperties
<1>2. \A i \in 1 .. Len(t) + Len(u) : (t \o u)[i] = IF i <= Len(t) THEN t[i] ELSE u[i - Len(t)]
  BY ConcatProperties
<1>3. \A j \in 1 .. Len(x) : p + j \in 1 .. Len(t) + Len(u) /\ p + j <= Len(t)
  BY <1>1
<1> QED BY <1>2, <1>3 DEF Occurs

\* ... and the added text stands behind it.
LEMMA OccursAfter ==
  ASSUME NEW C, NEW t \in Seq(C), NEW u \in Seq(C)
  PROVE  Occurs(u, t \o u, Len(t))
<1>1. Len(t) \in Nat /\ Len(u) \in Nat
  BY LenProperties
<1>2. \A i \in 1 .. Len(t) + Len(u) : (t \o u)[i] = IF i <= Len(t) THEN t[i] ELSE u[i - Len(t)]
  BY ConcatProperties
<1>3. \A j \in 1 .. Len(u) : /\ Len(t) + j \in 1 .. Len(t) + Len(u)
                             /\ ~(Len(t) + j <= Len(t)) /\ (Len(t) + j) - Len(t) = j
  BY <1>1
<1> QED BY <1>2, <1>3 DEF Occurs

\* More of the last word.
LEMMA LaidOn ==
  ASSUME NEW C, NEW t \in Seq(C), NEW d \in Seq(C), NEW ws \in Seq(Seq(C)), NEW w \in Seq(C),
         NEW u \in Seq(C), NEW P, Laid(t, d, ws, w, P)
  PROVE  Laid(t \o u, d, ws, w \o u, P)
<1> DEFINE n == Len(ws)
           v == t \o u
           p == P[n + 1]
<1>1. n \in Nat /\ Len(t) \in Nat /\ Len(u) \in Nat /\ Len(w) \in Nat /\ Len(d) \in Nat
  BY LenProperties
<1>2. P \in [1 .. n + 1 -> 0 .. Len(t)] /\ P[1] = 0
  BY DEF Laid
<1>3. \A k \in 1 .. n : /\ P[k + 1] = P[k] + Len(ws[k]) + Len(d)
                        /\ Occurs(ws[k], t, P[k]) /\ Occurs(d, t, P[k] + Len(ws[k]))
  BY DEF Laid
<1>4. Len(t) = p + Len(w) /\ Occurs(w, t, p)
  BY DEF Laid
<1>5. Len(v) = Len(t) + Len(u) /\ Len(w \o u) = Len(w) + Len(u)
  BY ConcatProperties
<1>6. \A k \in 1 .. n : ws[k] \in Seq(C) /\ Len(ws[k]) \in Nat
  BY ElementOfSeq, LenProperties
<1> HIDE DEF n, v, p
<1>7. \A k \in 1 .. n + 1 : P[k] \in 0 .. Len(t)
  BY <1>2
<1>8. P \in [1 .. n + 1 -> 0 .. Len(v)]
  <2>1. \A k \in 1 .. n + 1 : P[k] \in 0 .. Len(v)
    BY <1>1, <1>5, <1>7
  <2> QED BY <1>2, <2>1
<1>9. ASSUME NEW k \in 1 .. n
      PROVE  Occurs(ws[k], v, P[k]) /\ Occurs(d, v, P[k] + Len(ws[k]))
  <2> DEFINE x == ws[k]
             q == P[k]
  <2>1. x \in Seq(C) /\ Len(x) \in Nat /\ q \in Nat /\ q + Len(x) + Len(d) <= Len(t)
    <3>1. k \in 1 .. n + 1 /\ k + 1 \in 1 .. n + 1
      BY <1>1
    <3>2. P[k + 1] \in 0 .. Len(t) /\ P[k] \in 0 .. Len(t)
      BY <1>7, <3>1
    <3> QED BY <1>1, <1>3, <1>6, <3>2
  <2>2. Occurs(x, t, q) /\ Occurs(d, t, q + Len(x))
    BY <1>3
  <2> HIDE DEF x, q
  <2>3. q + Len(x) <= Len(t) /\ q + Len(x) \in Nat /\ (q + Len(x)) + Len(d) <= Len(t)
    BY <1>1, <2>1
  <2>4. Occurs(x, t \o u, q)
    BY <2>1, <2>2, <2>3, OccursMore
  <2>5. Occurs(d, t \o u, q + Len(x))
    <3> DEFINE r == q + Len(x)
    <3>1. r \in Nat /\ r + Len(d) <= Len(t) /\ Occurs(d, t, r)
      BY <2>2, <2>3
    <3> HIDE DEF r
    <3>2. Occurs(d, t \o u, r)
      BY <3>1, OccursMore
    <3> QED BY <3>2 DEF r
  <2> QED BY <2>4, <2>5 DEF x, q, v
<1>10. n + 1 \in 1 .. n + 1 /\ p \in Nat
  BY <1>1, <1>7 DEF p
<1>11. Len(v) = p + Len(w \o u)
  BY <1>1, <1>4, <1>5, <1>10
<1>12. Occurs(w \o u, v, p)
  <2>1. Occurs(w, v, p)
    <3>1. p + Len(w) <= Len(t)
      BY <1>1, <1>4
    <3> QED BY <1>4, <1>10, <3>1, OccursMore DEF v
  <2>2. Occurs(u, v, Len(t))
    BY OccursAfter DEF v
  <2>3. \A i \in 1 .. Len(w) + Len(u) :
          (w \o u)[i] = IF i <= Len(w) THEN w[i] ELSE u[i - Len(w)]
    BY ConcatProperties
  <2>4. ASSUME NEW j \in 1 .. Len(w) + Len(u)
        PROVE  v[p + j] = (w \o u)[j]
    <3>1. CASE j <= Len(w)
      <4>1. j \in 1 .. Len(w)
        BY <1>1, <3>1
      <4> QED BY <2>1, <2>3, <3>1, <4>1 DEF Occurs
    <3>2. CASE ~(j <= Len(w))
      <4>1. j - Len(w) \in 1 .. Len(u) /\ Len(t) + (j - Len(w)) = p + j
        BY <1>1, <1>4, <1>10, <3>2
      <4> QED BY <2>2, <2>3, <3>2, <4>1 DEF Occurs
    <3> QED BY <3>1, <3>2
  <2> QED BY <1>5, <2>4 DEF Occurs
<1> QED BY <1>2, <1>3, <1>8, <1>9, <1>11, <1>12 DEF Laid, n, v, p

\* The last word is ended, and there is an empty one.
LEMMA LaidNext ==
  ASSUME NEW C, NEW t \in Seq(C), NEW d \in Seq(C), NEW ws \in Seq(Seq(C)), NEW w \in Seq(C),
         NEW P, Laid(t, d, ws, w, P)
  PROVE  \E Q : Laid(t \o d, d, Append(ws, w), <<>>, Q)
<1> DEFINE n == Len(ws)
           v == t \o d
           vs == Append(ws, w)
           l == Len(t) + Len(d)
           Q == [k \in 1 .. n + 2 |-> IF k <= n + 1 THEN P[k] ELSE l]
<1>1. n \in Nat /\ Len(t) \in Nat /\ Len(w) \in Nat /\ Len(d) \in Nat
  BY LenProperties
<1>2. P \in [1 .. n + 1 -> 0 .. Len(t)] /\ P[1] = 0
  BY DEF Laid
<1>3. \A k \in 1 .. n : /\ P[k + 1] = P[k] + Len(ws[k]) + Len(d)
                        /\ Occurs(ws[k], t, P[k]) /\ Occurs(d, t, P[k] + Len(ws[k]))
  BY DEF Laid
<1>4. Len(t) = P[n + 1] + Len(w) /\ Occurs(w, t, P[n + 1])
  BY DEF Laid
<1>5. Len(v) = l
  BY ConcatProperties
<1>6. \A k \in 1 .. n : ws[k] \in Seq(C) /\ Len(ws[k]) \in Nat
  BY ElementOfSeq, LenProperties
<1>7. Len(vs) = n + 1 /\ vs[n + 1] = w /\ \A k \in 1 .. n : vs[k] = ws[k]
  BY AppendProperties
<1>8. /\ \A k \in 1 .. n + 1 : Q[k] = P[k]
      /\ Q[n + 2] = l /\ Q = [k \in 1 .. n + 2 |-> Q[k]]
  BY <1>1
<1> HIDE DEF n, v, vs, Q
<1>9. \A k \in 1 .. n + 1 : P[k] \in 0 .. Len(t)
  BY <1>2
<1>10. Q \in [1 .. n + 2 -> 0 .. l] /\ Q[1] = 0
  <2>1. \A k \in 1 .. n + 2 : k \in 1 .. n + 1 \/ k = n + 2
    BY <1>1
  <2>2. ASSUME NEW k \in 1 .. n + 2
        PROVE  Q[k] \in 0 .. l
    <3>1. CASE k \in 1 .. n + 1
      <4>1. Q[k] \in 0 .. Len(t)
        BY <1>8, <1>9, <3>1
      <4> QED BY <1>1, <4>1
    <3>2. CASE k = n + 2
      BY <1>1, <1>8, <3>2
    <3> QED BY <2>1, <3>1, <3>2
  <2>3. 1 \in 1 .. n + 1
    BY <1>1
  <2> QED BY <1>2, <1>8, <2>2, <2>3
<1>11. ASSUME NEW k \in 1 .. n + 1
       PROVE  /\ Q[k + 1] = Q[k] + Len(vs[k]) + Len(d)
              /\ Occurs(vs[k], v, Q[k]) /\ Occurs(d, v, Q[k] + Len(vs[k]))
  <2> DEFINE x == vs[k]
             q == Q[k]
  <2>1. /\ x \in Seq(C) /\ Len(x) \in Nat /\ q \in Nat /\ q + Len(x) <= Len(t)
        /\ Q[k + 1] = q + Len(x) + Len(d) /\ Occurs(x, t, q)
        /\ (k \in 1 .. n /\ q + Len(x) + Len(d) <= Len(t) /\ Occurs(d, t, q + Len(x)))
             \/ q + Len(x) = Len(t)
    <3>1. CASE k \in 1 .. n
      <4>1. k + 1 \in 1 .. n + 1
        BY <1>1, <3>1
      <4>2. P[k + 1] \in 0 .. Len(t) /\ P[k] \in 0 .. Len(t) /\ Q[k + 1] = P[k + 1] /\ q = P[k]
        BY <1>8, <1>9, <4>1
      <4>3. x = ws[k] /\ x \in Seq(C) /\ Len(x) \in Nat
        BY <1>6, <1>7, <3>1
      <4> HIDE DEF x, q
      <4>4. P[k + 1] = q + Len(x) + Len(d) /\ Occurs(x, t, q) /\ Occurs(d, t, q + Len(x))
        BY <1>3, <3>1, <4>2, <4>3
      <4> QED BY <1>1, <3>1, <4>2, <4>3, <4>4
    <3>2. CASE k = n + 1
      <4>1. x = w /\ q = P[n + 1] /\ q \in 0 .. Len(t)
        BY <1>7, <1>8, <1>9, <3>2
      <4>2. k + 1 = n + 2 /\ Q[k + 1] = l
        BY <1>1, <1>8, <3>2
      <4> HIDE DEF x, q
      <4> QED BY <1>1, <1>4, <4>1, <4>2
    <3> QED BY <1>1, <3>1, <3>2
  <2> HIDE DEF x, q
  <2>2. Occurs(x, t \o d, q)
    BY <2>1, OccursMore
  <2>3. Occurs(d, t \o d, q + Len(x))
    <3>1. CASE q + Len(x) = Len(t)
      BY <3>1, OccursAfter
    <3>2. CASE q + Len(x) + Len(d) <= Len(t) /\ Occurs(d, t, q + Len(x))
      <4> DEFINE r == q + Len(x)
      <4>1. r \in Nat /\ r + Len(d) <= Len(t) /\ Occurs(d, t, r)
        BY <1>1, <2>1, <3>2
      <4> HIDE DEF r
      <4>2. Occurs(d, t \o d, r)
        BY <4>1, OccursMore
      <4> QED BY <4>2 DEF r
    <3> QED BY <2>1, <3>1, <3>2
  <2> QED BY <2>1, <2>2, <2>3 DEF x, q, v
<1>12. /\ Len(vs) + 1 = n + 2 /\ Len(v) = Q[Len(vs) + 1] + Len(<<>>)
       /\ Occurs(<<>>, v, Q[Len(vs) + 1])
  <2>1. Len(<<>>) = 0 /\ (n + 1) + 1 = n + 2 /\ l + 0 = l
    BY <1>1
  <2>2. \A j \in 1 .. 0 : FALSE
    OBVIOUS
  <2> QED BY <1>5, <1>7, <1>8, <2>1, <2>2 DEF Occurs
<1>13. Laid(v, d, vs, <<>>, Q)
  <2>1. \A k \in 1 .. Len(vs) : /\ Q[k + 1] = Q[k] + Len(vs[k]) + Len(d)
                                /\ Occurs(vs[k], v, Q[k]) /\ Occurs(d, v, Q[k] + Len(vs[k]))
    BY <1>7, <1>11
  <2> HIDE DEF Q, l
  <2>2. Q \in [1 .. Len(vs) + 1 -> 0 .. Len(v)] /\ Q[1] = 0
    BY <1>5, <1>10, <1>12
  <2> QED BY <1>12, <2>1, <2>2 DEF Laid
<1> QED BY <1>13 DEF v, vs

\* A text without d in it, alone.
LEMMA LaidFirst ==
  ASSUME NEW C, NEW t \in Seq(C), NEW d
  PROVE  \E P : Laid(t, d, <<>>, t, P)
<1> DEFINE P == [k \in 1 .. 1 |-> 0]
<1>1. Len(t) \in Nat
  BY LenProperties
<1>2. Laid(t, d, <<>>, t, P)
  <2>1. Len(<<>>) = 0 /\ 0 + 1 = 1 /\ P \in [1 .. 1 -> 0 .. Len(t)] /\ P[1] = 0
        /\ Len(t) = 0 + Len(t) /\ (\A k \in 1 .. 0 : FALSE)
    BY <1>1
  <2>2. Occurs(t, t, 0)
    <3>1. \A j \in 1 .. Len(t) : 0 + j = j
      BY <1>1
    <3> QED BY <3>1 DEF Occurs
  <2> HIDE DEF P
  <2> QED BY <2>1, <2>2 DEF Laid
<1> QED BY <1>2

(***************************************************************************)
(* Rows                                                                    *)
(***************************************************************************)
\* A clean text is not taken for the delimiter, nor for its beginning, ...
LEMMA CleanApart ==
  ASSUME NEW C, "|" \in C, NEW x \in Seq(C), Clean(x)
  PROVE  Apart(x, Delim)
<1> DEFINE n == Len(x)
<1>1. n \in Nat
  BY LenProperties
<1>2. Delim \in Seq(C) /\ Len(Delim) = 3 /\ Delim[1] = "|" /\ Delim[2] = "|" /\ Delim[3] = "|"
  BY DEF Delim
<1> SUFFICES ASSUME NEW j \in 1 .. n
             PROVE  \E m \in 1 .. 3 :
                      (IF j + m - 1 <= n THEN x[j + m - 1] ELSE Delim[j + m - 1 - n]) # Delim[m]
  BY <1>2 DEF Apart
<1> HIDE DEF n
<1>3. CASE j + 2 <= n
  <2> DEFINE p == j - 1
  <2>1. p \in Nat /\ p + 3 <= n /\ p + 1 = j /\ p + 3 = j + 3 - 1 /\ j \in 1 .. n - 3 + 1
        /\ \A m \in 1 .. 3 : p + m = j + m - 1 /\ j + m - 1 <= n
    BY <1>1, <1>3
  <2>2. Finds(x, Delim, 1) = {}
    BY DEF Clean
  <2>3. SubSeq(x, j, j + 3 - 1) # Delim
    BY <1>2, <2>1, <2>2 DEF Finds, n
  <2>4. SubSeq(x, p + 1, p + 3) # Delim
    BY <2>1, <2>3
  <2> HIDE DEF p
  <2>5. ~Occurs(Delim, x, p)
    BY <1>2, <2>1, <2>4, PieceIs DEF n
  <2>6. PICK m \in 1 .. 3 : x[p + m] # Delim[m]
    BY <1>2, <2>5 DEF Occurs
  <2>7. j + m - 1 <= n /\ p + m = j + m - 1
    BY <2>1
  <2> QED BY <2>6, <2>7
<1>4. CASE ~(j + 2 <= n)
  <2> DEFINE m == n - j + 1
  <2>1. m \in 1 .. 3 /\ j + m - 1 = n
    BY <1>1, <1>4
  <2>2. x[n] # "|"
    <3>1. x # <<>>
      BY <1>1 DEF n
    <3> QED BY <3>1 DEF Clean, Last, n
  <2>3. Delim[m] = "|"
    <3> HIDE DEF m
    <3>1. m = 1 \/ m = 2 \/ m = 3
      BY <2>1
    <3> QED BY <1>2, <3>1
  <2> HIDE DEF m
  <2> QED BY <1>1, <2>1, <2>2, <2>3
<1> QED BY <1>3, <1>4

\* ... and a text without a line break not for one.
LEMMA LineApart ==
  ASSUME NEW C, "\n" \notin C, NEW x \in Seq(C)
  PROVE  Apart(x, NewLine)
<1>1. Len(NewLine) = 1 /\ NewLine[1] = "\n" /\ Len(x) \in Nat
  BY LenProperties DEF NewLine
<1>2. ASSUME NEW j \in 1 .. Len(x)
      PROVE  x[j] # "\n" /\ j + 1 - 1 <= Len(x) /\ j + 1 - 1 = j /\ 1 \in 1 .. 1
  <2>1. x[j] \in C
    BY ElementOfSeq
  <2> QED BY <1>1, <2>1
<1> QED BY <1>1, <1>2 DEF Apart

\* One field more in a row.
LEMMA JoinMore ==
  ASSUME NEW f, NEW T, NEW a \in Seq(T), NEW x \in T
  PROVE  /\ JoinedTo(f, Append(a, x)) = JoinedTo(f, a) \o Delim \o x
         /\ JoinedTo(f, <<>>) = f
<1>1. "join" \in Hows
  BY DEF Hows
<1>2. \A b : JoinedTo(f, b) = RowFold("join", f, f, b)
  BY DEF RowFold
<1>3. RowFold("join", f, f, Append(a, x)) = Step("join", f, RowFold("join", f, f, a), x)
  BY <1>1, FoldOneMore
<1>4. \A u : Step("join", f, u, x) = u \o Delim \o x
  BY DEF Step
<1>5. RowFold("join", f, f, <<>>) = f
  BY <1>1, FoldNothing
<1> QED BY <1>2, <1>3, <1>4, <1>5

\* Fields are laid out in their row.
LEMMA JoinedLaid ==
  ASSUME NEW C, "|" \in C, NEW f \in Seq(C)
  PROVE  \A a \in Seq(Seq(C)) :
           /\ JoinedTo(f, a) \in Seq(C)
           /\ \E ws \in Seq(Seq(C)), w \in Seq(C) :
                /\ \E P : Laid(JoinedTo(f, a), Delim, ws, w, P)
                /\ Append(ws, w) = <<f>> \o a
<1> DEFINE Good(t, a) ==
             /\ t \in Seq(C)
             /\ \E ws \in Seq(Seq(C)), w \in Seq(C) :
                  /\ \E P : Laid(t, Delim, ws, w, P)
                  /\ Append(ws, w) = <<f>> \o a
           S == {a \in Seq(Seq(C)) : Good(JoinedTo(f, a), a)}
<1>0. Delim \in Seq(C)
  BY DEF Delim
<1>2. <<>> \in S
  <2>1. JoinedTo(f, <<>>) = f
    <3>1. <<>> \in Seq({f}) /\ f \in {f}
      OBVIOUS
    <3> QED BY <3>1, JoinMore
  <2>2. PICK P : Laid(f, Delim, <<>>, f, P)
    BY LaidFirst
  <2>3. <<>> \in Seq(Seq(C)) /\ Append(<<>>, f) = <<f>> /\ <<f>> \o <<>> = <<f>>
    <3>1. <<f>> \in Seq({f})
      OBVIOUS
    <3>2. <<f>> \o <<>> = <<f>>
      BY <3>1, ConcatEmptySeq
    <3> QED BY <3>2
  <2>4. Append(<<>>, f) = <<f>> \o <<>>
    BY <2>3
  <2>5. Good(f, <<>>)
    BY <2>2, <2>3, <2>4
  <2> HIDE DEF Good
  <2> QED BY <2>1, <2>3, <2>5
<1>3. ASSUME NEW a \in Seq(Seq(C)), a \in S, NEW x \in Seq(C)
      PROVE  Append(a, x) \in S
  <2> DEFINE t == JoinedTo(f, a)
  <2>1. t \in Seq(C)
    BY <1>3
  <2>2. PICK ws \in Seq(Seq(C)), w \in Seq(C) :
          /\ \E P : Laid(t, Delim, ws, w, P)
          /\ Append(ws, w) = <<f>> \o a
    BY <1>3
  <2> HIDE DEF S, Good
  <2>3. JoinedTo(f, Append(a, x)) = t \o Delim \o x
    <3> DEFINE T == Seq(C)
    <3>1. a \in Seq(T) /\ x \in T
      OBVIOUS
    <3> HIDE DEF T
    <3> QED BY <3>1, JoinMore
  <2> HIDE DEF t
  <2>4. PICK P : Laid(t, Delim, ws, w, P)
    BY <2>2
  <2>5. PICK Q : Laid(t \o Delim, Delim, Append(ws, w), <<>>, Q)
    BY <1>0, <2>1, <2>4, LaidNext
  <2>6. t \o Delim \in Seq(C) /\ Append(ws, w) \in Seq(Seq(C)) /\ <<>> \in Seq(C)
    BY <1>0, <2>1, ConcatProperties, AppendProperties
  <2>7. Laid((t \o Delim) \o x, Delim, Append(ws, w), <<>> \o x, Q)
    BY <1>0, <2>5, <2>6, LaidOn
  <2>8. <<>> \o x = x
    BY ConcatEmptySeq
  <2>9. Laid(t \o Delim \o x, Delim, Append(ws, w), x, Q)
    BY <2>7, <2>8
  <2>10. Append(Append(ws, w), x) = <<f>> \o Append(a, x)
    <3>1. <<f>> \in Seq(Seq(C)) /\ <<x>> \in Seq(Seq(C)) /\ <<f>> \o a \in Seq(Seq(C))
      <4>1. <<f>> \in Seq(Seq(C)) /\ <<x>> \in Seq(Seq(C))
        OBVIOUS
      <4> QED BY <4>1, ConcatProperties
    <3>2. Append(<<f>> \o a, x) = (<<f>> \o a) \o <<x>>
      BY <3>1, AppendIsConcat
    <3>3. Append(a, x) = a \o <<x>>
      BY AppendIsConcat
    <3>4. (<<f>> \o a) \o <<x>> = <<f>> \o (a \o <<x>>)
      BY <3>1, ConcatAssociative
    <3> QED BY <2>2, <3>2, <3>3, <3>4
  <2>11. t \o Delim \o x \in Seq(C)
    BY <2>6, ConcatProperties
  <2>12. Good(t \o Delim \o x, Append(a, x))
    BY <2>6, <2>9, <2>10, <2>11 DEF Good
  <2>13. Append(a, x) \in Seq(Seq(C))
    BY AppendProperties
  <2> QED BY <2>3, <2>12, <2>13 DEF S
<1>4. Seq(Seq(C)) \subseteq S
  <2> HIDE DEF S
  <2> QED BY <1>2, <1>3, TextInduction
<1> QED BY <1>4

\* A row is split into the fields it was made of.
LEMMA RowSplit ==
  ASSUME NEW C, "|" \in C, NEW fs \in Seq(Seq(C)), fs # <<>>,
         \A k \in 1 .. Len(fs) : Clean(fs[k])
  PROVE  /\ Join(fs) \in Seq(C)
         /\ Split(Join(fs), Delim) = fs
         /\ Len(fs) > 1 => Join(fs) # <<>>
<1> DEFINE f == Head(fs)
           a == Tail(fs)
           t == JoinedTo(f, a)
<1>1. Join(fs) = t
  BY DEF Join, JoinedTo
<1>2. Delim \in Seq(C) /\ Delim # <<>> /\ Len(Delim) = 3
  BY DEF Delim
<1>3. f \in Seq(C) /\ a \in Seq(Seq(C)) /\ <<f>> \o a = fs
  <2> DEFINE V == Seq(C)
  <2>1. fs \in Seq(V)
    OBVIOUS
  <2> HIDE DEF V
  <2>2. f \in V /\ a \in Seq(V) /\ a = SubSeq(fs, 2, Len(fs))
    BY <2>1, HeadTailProperties, TailIsSubSeq
  <2>3. Len(fs) \in Nat \ {0} /\ 1 \in 1 .. Len(fs) /\ 1 + 1 = 2
    BY <2>1, EmptySeq
  <2>4. SubSeq(fs, 1, Len(fs)) = <<fs[1]>> \o SubSeq(fs, 2, Len(fs))
    BY <2>1, <2>3, OnePiece
  <2>5. SubSeq(fs, 1, Len(fs)) = fs
    BY <2>1, SubSeqFull
  <2>6. f = fs[1]
    BY <2>1, <2>3
  <2> HIDE DEF f, a
  <2> QED BY <2>2, <2>4, <2>5, <2>6 DEF V
<1> HIDE DEF f, a
<1>4. t \in Seq(C) /\ \E ws \in Seq(Seq(C)), w \in Seq(C) :
        (\E P : Laid(t, Delim, ws, w, P)) /\ Append(ws, w) = <<f>> \o a
  BY <1>3, JoinedLaid
<1>5. PICK ws \in Seq(Seq(C)), w \in Seq(C) :
        (\E P : Laid(t, Delim, ws, w, P)) /\ Append(ws, w) = <<f>> \o a
  BY <1>4
<1>6. PICK P : Laid(t, Delim, ws, w, P)
  BY <1>5
<1> HIDE DEF t
<1>7. Append(ws, w) = fs
  BY <1>3, <1>5
<1>8. Len(fs) = Len(ws) + 1 /\ fs[Len(ws) + 1] = w /\ \A k \in 1 .. Len(ws) : fs[k] = ws[k]
  <2> DEFINE V == Seq(C)
  <2>1. ws \in Seq(V) /\ w \in V
    OBVIOUS
  <2> HIDE DEF V
  <2> DEFINE v == Append(ws, w)
  <2>2. Len(v) = Len(ws) + 1 /\ v[Len(ws) + 1] = w /\ \A k \in 1 .. Len(ws) : v[k] = ws[k]
    BY <2>1, AppendProperties
  <2>3. v = fs
    BY <1>7
  <2> HIDE DEF v
  <2> QED BY <2>2, <2>3
<1>9. Len(ws) \in Nat /\ Len(t) \in Nat
  BY <1>4, LenProperties
<1>10. Apart(w, Delim) /\ \A k \in 1 .. Len(ws) : Apart(ws[k], Delim)
  <2>1. Len(ws) + 1 \in 1 .. Len(fs) /\ \A k \in 1 .. Len(ws) : k \in 1 .. Len(fs)
    BY <1>8, <1>9
  <2>2. Clean(w) /\ \A k \in 1 .. Len(ws) : Clean(ws[k]) /\ ws[k] \in Seq(C)
    BY <1>8, <2>1, ElementOfSeq
  <2> QED BY <2>2, CleanApart
<1>11. Split(t, Delim) = Append(ws, w)
  <2> DEFINE d == Delim
  <2>1. t \in Seq(C) /\ d \in Seq(C) /\ d # <<>>
    BY <1>2, <1>4
  <2>2. Apart(w, d) /\ Laid(t, d, ws, w, P) /\ \A k \in 1 .. Len(ws) : Apart(ws[k], d)
    BY <1>6, <1>10
  <2> HIDE DEF d
  <2>3. Split(t, d) = Append(ws, w)
    BY <2>1, <2>2, SplitLaid
  <2> QED BY <2>3 DEF d
<1>12. ASSUME Len(fs) > 1 PROVE t # <<>>
  <2> DEFINE n == Len(ws)
  <2>1. n \in 1 .. n /\ n + 1 \in 1 .. n + 1 /\ n \in 1 .. n + 1
    BY <1>8, <1>9, <1>12
  <2>2. P \in [1 .. n + 1 -> 0 .. Len(t)] /\ P[n + 1] = P[n] + Len(ws[n]) + Len(Delim)
    BY <1>6, <2>1 DEF Laid
  <2>3. P[n + 1] \in 0 .. Len(t) /\ P[n] \in 0 .. Len(t) /\ Len(ws[n]) \in Nat
    BY <2>1, <2>2, ElementOfSeq, LenProperties
  <2>4. Len(Delim) = 3
    BY <1>2
  <2> DEFINE p == P[n]
             q == P[n + 1]
             l == Len(ws[n])
             m == Len(t)
  <2>5. q = p + l + 3 /\ q \in 0 .. m /\ p \in 0 .. m /\ l \in Nat
    BY <2>2, <2>3, <2>4
  <2> HIDE DEF n, p, q, l, m
  <2>6. m # 0
    BY <2>5
  <2>7. Len(t) # 0
    BY <2>6 DEF m
  <2> QED BY <2>7
<1> QED BY <1>1, <1>4, <1>7, <1>11, <1>12

(***************************************************************************)
(* Records                                                                 *)
(***************************************************************************)
\* A digit is read as its number.
LEMMA DigitIs ==
  ASSUME NEW n \in 0 .. 9
  PROVE  Number(Digit(n)) = {n}
<1> DEFINE Is(k, d) == Digits[k] = d
<1>1. ASSUME NEW k \in 1 .. 10, NEW m \in 1 .. 10, Digits[k] = Digits[m]
      PROVE  k = m
  <2>1. /\ Digits[1] = "0" /\ Digits[2] = "1" /\ Digits[3] = "2" /\ Digits[4] = "3"
        /\ Digits[5] = "4" /\ Digits[6] = "5" /\ Digits[7] = "6" /\ Digits[8] = "7"
        /\ Digits[9] = "8" /\ Digits[10] = "9"
    BY DEF Digits
  <2>2. k = 1 \/ k = 2 \/ k = 3 \/ k = 4 \/ k = 5 \/ k = 6 \/ k = 7 \/ k = 8 \/ k = 9 \/ k = 10
    OBVIOUS
  <2>3. m = 1 \/ m = 2 \/ m = 3 \/ m = 4 \/ m = 5 \/ m = 6 \/ m = 7 \/ m = 8 \/ m = 9 \/ m = 10
    OBVIOUS
  <2> QED BY <1>1, <2>1, <2>2, <2>3
<1>2. ASSUME NEW m \in 0 .. 9, Digit(m) = Digit(n)
      PROVE  m = n
  <2>1. Digits[m + 1] = Digits[n + 1]
    BY <1>2 DEF Digit
  <2>2. m + 1 \in 1 .. 10 /\ n + 1 \in 1 .. 10
    OBVIOUS
  <2>3. m + 1 = n + 1
    BY <1>1, <2>1, <2>2
  <2> QED BY <2>3
<1> QED BY <1>2 DEF Number

Kinds == {"session", "window", "pane", "client", "info"}

Records(kind) ==
  CASE kind = "session" -> [id : Text, name : Text, windows : 0 .. 9, attached : BOOLEAN,
                            last_activity : 0 .. 9]
    [] kind = "window" -> [session : Text, index : 0 .. 9, id : Text, name : Text,
                           active : BOOLEAN, panes : 0 .. 9]
    [] kind = "pane" -> [window : Text, index : 0 .. 9, id : Text, command : Text, path : Text,
                         active : BOOLEAN]
    [] kind = "client" -> [pid : 0 .. 9, session : Text, tty : Text, term : Text]
    [] kind = "info" -> [pid : 0 .. 9, sessions : 0 .. 9, start : 0 .. 9]

CleanRow(kind, r) == \A x \in Range(Fields(kind, r)) : Clean(x)

\* Numbers and flags are texts.
LEMMA DigitText ==
  ASSUME Signs \subseteq Characters
  PROVE  /\ \A n \in 0 .. 9 : Digit(n) \in Text
         /\ \A b \in BOOLEAN : Flag(b) \in Text
<1>1. \A n \in 0 .. 9 : Digits[n + 1] \in Characters
  <2>1. DOMAIN Digits = 1 .. 10
    BY DEF Digits
  <2>2. \A n \in 0 .. 9 : n + 1 \in DOMAIN Digits
    BY <2>1
  <2>3. \A k \in DOMAIN Digits : Digits[k] \in Range(Digits)
    BY DEF Range
  <2> QED BY <2>2, <2>3 DEF Signs
<1>2. \A n \in 0 .. 9 : Digit(n) \in Text
  BY <1>1 DEF Digit, Text
<1>3. Flag(TRUE) = Digit(1) /\ Flag(FALSE) = Digit(0)
  BY DEF Flag, Digit, Digits
<1>4. \A b \in BOOLEAN : Flag(b) = Digit(1) \/ Flag(b) = Digit(0)
  BY <1>3, Zenon
<1>5. 0 \in 0 .. 9 /\ 1 \in 0 .. 9
  OBVIOUS
<1> QED BY <1>2, <1>4, <1>5

\* A flag is read as its Boolean.
LEMMA FlagIs ==
  ASSUME NEW b \in BOOLEAN
  PROVE  (Flag(b) = Flag(TRUE)) = b
BY DEF Flag

\* A row has two fields or more, and they are texts.
LEMMA FieldsText ==
  ASSUME Signs \subseteq Characters, NEW kind \in Kinds, NEW r \in Records(kind)
  PROVE  Fields(kind, r) \in Seq(Text) /\ Len(Fields(kind, r)) > 1
<1>1. CASE kind = "session"
  BY <1>1, DigitText DEF Fields, Records
<1>2. CASE kind = "window"
  BY <1>2, DigitText DEF Fields, Records
<1>3. CASE kind = "pane"
  BY <1>3, DigitText DEF Fields, Records
<1>4. CASE kind = "client"
  BY <1>4, DigitText DEF Fields, Records
<1>5. CASE kind = "info"
  BY <1>5, DigitText DEF Fields, Records
<1> QED BY <1>1, <1>2, <1>3, <1>4, <1>5 DEF Kinds

\* The elements of the tuples that rows are.
LEMMA Elements ==
  \A a, b, c, d, e, g :
    /\ /\ Len(<<a, b, c>>) = 3
       /\ <<a, b, c>>[1] = a /\ <<a, b, c>>[2] = b /\ <<a, b, c>>[3] = c
    /\ /\ Len(<<a, b, c, d>>) = 4 /\ <<a, b, c, d>>[1] = a /\ <<a, b, c, d>>[2] = b
       /\ <<a, b, c, d>>[3] = c /\ <<a, b, c, d>>[4] = d
    /\ /\ Len(<<a, b, c, d, e>>) = 5 /\ <<a, b, c, d, e>>[1] = a /\ <<a, b, c, d, e>>[2] = b
       /\ <<a, b, c, d, e>>[3] = c /\ <<a, b, c, d, e>>[4] = d /\ <<a, b, c, d, e>>[5] = e
    /\ /\ Len(<<a, b, c, d, e, g>>) = 6
       /\ <<a, b, c, d, e, g>>[1] = a /\ <<a, b, c, d, e, g>>[2] = b
       /\ <<a, b, c, d, e, g>>[3] = c /\ <<a, b, c, d, e, g>>[4] = d
       /\ <<a, b, c, d, e, g>>[5] = e /\ <<a, b, c, d, e, g>>[6] = g
OBVIOUS

\* A row of clean fields is read back, and is a line.
LEMMA SessionRead ==
  ASSUME NEW r \in Records("session"), NEW f, f = Fields("session", r)
  PROVE  ParseSession(f) = {r}
<1>1. r \in [id : Text, name : Text, windows : 0 .. 9, attached : BOOLEAN, last_activity : 0 .. 9]
  BY DEF Records
<1>2. f = <<r.id, r.name, Digit(r.windows), Flag(r.attached), Digit(r.last_activity)>>
  BY DEF Fields
<1>3. Len(f) = 5 /\ f[1] = r.id /\ f[2] = r.name /\ f[3] = Digit(r.windows)
      /\ f[4] = Flag(r.attached) /\ f[5] = Digit(r.last_activity)
  BY <1>2, Elements
<1>4. Number(f[3]) = {r.windows} /\ Number(f[5]) = {r.last_activity}
      /\ (f[4] = Flag(TRUE)) = r.attached
  BY <1>1, <1>3, DigitIs, FlagIs
<1>5. ParseSession(f) = {[id |-> r.id, name |-> r.name, windows |-> w, attached |-> r.attached,
                          last_activity |-> a] : w \in {r.windows}, a \in {r.last_activity}}
  <2> DEFINE A == Number(f[3])
             B == Number(f[5])
             b == f[4] = Flag(TRUE)
  <2>1. ParseSession(f) = {[id |-> f[1], name |-> f[2], windows |-> w, attached |-> b,
                            last_activity |-> a] : w \in A, a \in B}
    BY <1>3 DEF ParseSession
  <2>2. A = {r.windows} /\ B = {r.last_activity} /\ b = r.attached
    BY <1>4
  <2> HIDE DEF A, B, b
  <2> QED BY <1>3, <2>1, <2>2
<1>6. r = [id |-> r.id, name |-> r.name, windows |-> r.windows, attached |-> r.attached,
           last_activity |-> r.last_activity]
  BY <1>1
<1> QED BY <1>5, <1>6

\* The fields of a window's row, ...
LEMMA WindowRead ==
  ASSUME NEW r \in Records("window"), NEW f, f = Fields("window", r)
  PROVE  ParseWindow(f) = {r}
<1>1. r \in [session : Text, index : 0 .. 9, id : Text, name : Text, active : BOOLEAN,
             panes : 0 .. 9]
  BY DEF Records
<1>2. f = <<r.session, Digit(r.index), r.id, r.name, Flag(r.active), Digit(r.panes)>>
  BY DEF Fields
<1>3. Len(f) = 6 /\ f[1] = r.session /\ f[2] = Digit(r.index) /\ f[3] = r.id /\ f[4] = r.name
      /\ f[5] = Flag(r.active) /\ f[6] = Digit(r.panes)
  BY <1>2, Elements
<1>4. Number(f[2]) = {r.index} /\ Number(f[6]) = {r.panes} /\ (f[5] = Flag(TRUE)) = r.active
  BY <1>1, <1>3, DigitIs, FlagIs
<1>5. ParseWindow(f) = {[session |-> r.session, index |-> i, id |-> r.id, name |-> r.name,
                         active |-> r.active, panes |-> p] : i \in {r.index}, p \in {r.panes}}
  <2> DEFINE A == Number(f[2])
             B == Number(f[6])
             b == f[5] = Flag(TRUE)
  <2>1. ParseWindow(f) = {[session |-> f[1], index |-> i, id |-> f[3], name |-> f[4],
                           active |-> b, panes |-> p] : i \in A, p \in B}
    BY <1>3 DEF ParseWindow
  <2>2. A = {r.index} /\ B = {r.panes} /\ b = r.active
    BY <1>4
  <2> HIDE DEF A, B, b
  <2> QED BY <1>3, <2>1, <2>2
<1>6. r = [session |-> r.session, index |-> r.index, id |-> r.id, name |-> r.name,
           active |-> r.active, panes |-> r.panes]
  BY <1>1
<1> QED BY <1>5, <1>6

\* ... of a pane's, ...
LEMMA PaneRead ==
  ASSUME NEW r \in Records("pane"), NEW f, f = Fields("pane", r)
  PROVE  ParsePane(f) = {r}
<1>1. r \in [window : Text, index : 0 .. 9, id : Text, command : Text, path : Text,
             active : BOOLEAN]
  BY DEF Records
<1>2. f = <<r.window, Digit(r.index), r.id, r.command, r.path, Flag(r.active)>>
  BY DEF Fields
<1>3. Len(f) = 6 /\ f[1] = r.window /\ f[2] = Digit(r.index) /\ f[3] = r.id
      /\ f[4] = r.command /\ f[5] = r.path /\ f[6] = Flag(r.active)
  BY <1>2, Elements
<1>4. Number(f[2]) = {r.index} /\ (f[6] = Flag(TRUE)) = r.active
  BY <1>1, <1>3, DigitIs, FlagIs
<1>5. ParsePane(f) = {[window |-> r.window, index |-> i, id |-> r.id, command |-> r.command,
                       path |-> r.path, active |-> r.active] : i \in {r.index}}
  BY <1>3, <1>4 DEF ParsePane
<1>6. r = [window |-> r.window, index |-> r.index, id |-> r.id, command |-> r.command,
           path |-> r.path, active |-> r.active]
  BY <1>1
<1> QED BY <1>5, <1>6

\* ... of a client's, ...
LEMMA ClientRead ==
  ASSUME NEW r \in Records("client"), NEW f, f = Fields("client", r)
  PROVE  ParseClient(f) = {r}
<1>1. r \in [pid : 0 .. 9, session : Text, tty : Text, term : Text]
  BY DEF Records
<1>2. f = <<Digit(r.pid), r.session, r.tty, r.term>>
  BY DEF Fields
<1>3. Len(f) = 4 /\ f[1] = Digit(r.pid) /\ f[2] = r.session /\ f[3] = r.tty /\ f[4] = r.term
  BY <1>2, Elements
<1>4. Number(f[1]) = {r.pid}
  BY <1>1, <1>3, DigitIs
<1>5. ParseClient(f) = {[pid |-> p, session |-> r.session, tty |-> r.tty, term |-> r.term] :
                          p \in {r.pid}}
  BY <1>3, <1>4 DEF ParseClient
<1>6. r = [pid |-> r.pid, session |-> r.session, tty |-> r.tty, term |-> r.term]
  BY <1>1
<1> QED BY <1>5, <1>6

\* ... and of the server's.
LEMMA InfoRead ==
  ASSUME NEW r \in Records("info"), NEW f, f = Fields("info", r)
  PROVE  ParseServerInfo(f) = {r}
<1>1. r \in [pid : 0 .. 9, sessions : 0 .. 9, start : 0 .. 9]
  BY DEF Records
<1>2. f = <<Digit(r.pid), Digit(r.sessions), Digit(r.start)>>
  BY DEF Fields
<1>3. Len(f) = 3 /\ f[1] = Digit(r.pid) /\ f[2] = Digit(r.sessions) /\ f[3] = Digit(r.start)
  BY <1>2, Elements
<1>4. Number(f[1]) = {r.pid} /\ Number(f[2]) = {r.sessions} /\ Number(f[3]) = {r.start}
  BY <1>1, <1>3, DigitIs
<1>5. ParseServerInfo(f) = {[pid |-> p, sessions |-> s, start |-> t] :
                              p \in {r.pid}, s \in {r.sessions}, t \in {r.start}}
  BY <1>3, <1>4 DEF ParseServerInfo
<1>6. r = [pid |-> r.pid, sessions |-> r.sessions, start |-> r.start]
  BY <1>1
<1> QED BY <1>5, <1>6

\* A function on 1 .. n is a sequence.
LEMMA IsSeq ==
  ASSUME NEW V, NEW n \in Nat, NEW s \in [1 .. n -> V]
  PROVE  s \in Seq(V)
BY SeqDef

\* Fields that are clean have no line break, and neither has their row.
LEMMA OneLine ==
  ASSUME NEW C, "|" \in C, "\n" \in C, NEW fs \in Seq(Seq(C)), Len(fs) > 1,
         \A x \in Range(fs) : Clean(x)
  PROVE  /\ Join(fs) \in Seq(C \ {"\n"}) /\ Join(fs) # <<>>
         /\ Split(Join(fs), Delim) = fs
<1> DEFINE D == C \ {"\n"}
           V == Seq(D)
<1>1. DOMAIN fs = 1 .. Len(fs)
  BY LenProperties
<1>2. \A k \in 1 .. Len(fs) : Clean(fs[k])
  BY <1>1 DEF Range
<1>3. ASSUME NEW k \in 1 .. Len(fs) PROVE fs[k] \in V
  <2> DEFINE x == fs[k]
  <2>1. x \in Seq(C) /\ Clean(x)
    BY <1>2, ElementOfSeq
  <2> HIDE DEF x
  <2>2. \A i \in DOMAIN x : x[i] \in C /\ x[i] # "\n"
    <3>1. DOMAIN x = 1 .. Len(x) /\ "\n" \notin ToSet(x)
      BY <2>1, LenProperties DEF Clean
    <3> QED BY <2>1, <3>1, ElementOfSeq DEF ToSet
  <2>3. x \in Seq(D)
    <3>1. x \in [1 .. Len(x) -> C] /\ Len(x) \in Nat
      BY <2>1, LenProperties
    <3>2. x \in [1 .. Len(x) -> D]
      BY <2>2, <3>1
    <3> QED BY <3>1, <3>2, SeqDef
  <2> QED BY <2>3 DEF x
<1> HIDE DEF V
<1>4. fs \in Seq(V)
  <2> DEFINE n == Len(fs)
  <2>1. n \in Nat /\ fs \in [1 .. n -> Seq(C)]
    BY LenProperties
  <2>2. fs \in [1 .. n -> V]
    BY <1>3, <2>1
  <2> HIDE DEF n
  <2> QED BY <2>1, <2>2, IsSeq
<1>5. fs \in Seq(Seq(D)) /\ "|" \in D /\ fs # <<>>
  BY <1>4 DEF V
<1> HIDE DEF D
<1>6. Join(fs) \in Seq(D) /\ Split(Join(fs), Delim) = fs /\ (Len(fs) > 1 => Join(fs) # <<>>)
  BY <1>2, <1>5, RowSplit
<1> QED BY <1>6 DEF D

\* A row of clean fields is read as the record it was made of.
LEMMA RowRead ==
  ASSUME Signs \subseteq Characters, NEW kind \in Kinds, NEW r \in Records(kind),
         CleanRow(kind, r)
  PROVE  /\ Join(Fields(kind, r)) \in Seq(Characters \ {"\n"}) /\ Join(Fields(kind, r)) # <<>>
         /\ kind # "info" => ParseRow(kind, Join(Fields(kind, r))) = {r}
         /\ kind = "info" => ParseServerInfo(Split(Join(Fields(kind, r)), Delim)) = {r}
<1> DEFINE f == Fields(kind, r)
           row == Join(f)
<1>1. f \in Seq(Seq(Characters)) /\ Len(f) > 1
  BY FieldsText DEF Text
<1>2. "|" \in Characters /\ "\n" \in Characters
  BY DEF Signs
<1>3. \A x \in Range(f) : Clean(x)
  BY DEF CleanRow
<1> HIDE DEF f
<1>4. row \in Seq(Characters \ {"\n"}) /\ row # <<>> /\ Split(row, Delim) = f
  BY <1>1, <1>2, <1>3, OneLine
<1> HIDE DEF row
<1>5. CASE kind = "session"
  <2>1. ParseSession(f) = {r}
    BY <1>5, SessionRead DEF f
  <2> QED BY <1>4, <1>5, <2>1 DEF ParseRow, f, row
<1>6. CASE kind = "window"
  <2>1. ParseWindow(f) = {r}
    BY <1>6, WindowRead DEF f
  <2> QED BY <1>4, <1>6, <2>1 DEF ParseRow, f, row
<1>7. CASE kind = "pane"
  <2>1. ParsePane(f) = {r}
    BY <1>7, PaneRead DEF f
  <2> QED BY <1>4, <1>7, <2>1 DEF ParseRow, f, row
<1>8. CASE kind = "client"
  <2>1. ParseClient(f) = {r}
    BY <1>8, ClientRead DEF f
  <2> QED BY <1>4, <1>8, <2>1 DEF ParseRow, f, row
<1>9. CASE kind = "info"
  <2>1. ParseServerInfo(f) = {r}
    BY <1>9, InfoRead DEF f
  <2> QED BY <1>4, <1>9, <2>1 DEF f, row
<1> QED BY <1>5, <1>6, <1>7, <1>8, <1>9 DEF Kinds

(***************************************************************************)
(* What is printed for records is read as these records                    *)
(***************************************************************************)
\* A line break is a text.
LEMMA NewLineText ==
  ASSUME Signs \subseteq Characters
  PROVE  NewLine \in Text /\ NewLine # <<>> /\ <<>> \in Text
<1>1. "\n" \in Characters
  BY DEF Signs
<1> QED BY <1>1 DEF NewLine, Text

\* No record is printed as nothing, ...
LEMMA PrintNothing ==
  ASSUME NEW kind
  PROVE  Printed(kind, <<>>) = <<>>
<1>1. "print" \in Hows
  BY DEF Hows
<1>2. RowFold("print", kind, <<>>, <<>>) = <<>>
  BY <1>1, FoldNothing
<1> QED BY <1>2 DEF Printed, PrintedTo, RowFold

\* ... one more is a line more.
LEMMA PrintMore ==
  ASSUME NEW kind, NEW T, NEW a \in Seq(T), NEW x \in T
  PROVE  Printed(kind, Append(a, x)) = Printed(kind, a) \o Join(Fields(kind, x)) \o NewLine
<1>1. "print" \in Hows
  BY DEF Hows
<1>2. \A b : Printed(kind, b) = RowFold("print", kind, <<>>, b)
  BY DEF Printed, PrintedTo, RowFold
<1>3. RowFold("print", kind, <<>>, Append(a, x))
        = Step("print", kind, RowFold("print", kind, <<>>, a), x)
  BY <1>1, FoldOneMore
<1>4. \A u : Step("print", kind, u, x) = u \o Join(Fields(kind, x)) \o NewLine
  BY DEF Step
<1> QED BY <1>2, <1>3, <1>4

\* No line is read as no record, ...
LEMMA ParseNothing ==
  ASSUME NEW kind, NEW t
  PROVE  ParsedTo(kind, t, <<>>) = t
<1>1. "parse" \in Hows
  BY DEF Hows
<1>2. RowFold("parse", kind, t, <<>>) = t
  BY <1>1, FoldNothing
<1> QED BY <1>2 DEF RowFold

\* An empty line is skipped, another one is a record more.
LEMMA LineSkipped ==
  ASSUME NEW kind, NEW t, NEW T, NEW a \in Seq(T), <<>> \in T
  PROVE  ParsedTo(kind, t, Append(a, <<>>)) = ParsedTo(kind, t, a)
<1>1. "parse" \in Hows
  BY DEF Hows
<1>2. \A b : ParsedTo(kind, t, b) = RowFold("parse", kind, t, b)
  BY DEF RowFold
<1>3. RowFold("parse", kind, t, Append(a, <<>>))
        = Step("parse", kind, RowFold("parse", kind, t, a), <<>>)
  BY <1>1, FoldOneMore
<1>4. \A u : Step("parse", kind, u, <<>>) = u
  BY DEF Step
<1> QED BY <1>2, <1>3, <1>4

OneMore(rs, r) == Append(rs, r)

\* A line is one record more.
LEMMA LineParsed ==
  ASSUME NEW kind, NEW t, NEW a \in Seq(Text), NEW x \in Text, x # <<>>,
         NEW rs, ParsedTo(kind, t, a) = {rs}, NEW r, ParseRow(kind, x) = {r}
  PROVE  ParsedTo(kind, t, Append(a, x)) = {OneMore(rs, r)}
<1>1. "parse" \in Hows
  BY DEF Hows
<1>2. \A b : ParsedTo(kind, t, b) = RowFold("parse", kind, t, b)
  BY DEF RowFold
<1>3. RowFold("parse", kind, t, Append(a, x))
        = Step("parse", kind, RowFold("parse", kind, t, a), x)
  BY <1>1, FoldOneMore
<1>4. Step("parse", kind, {rs}, x) = {OneMore(rs, r)}
  BY DEF Step, OneMore
<1> QED BY <1>2, <1>3, <1>4

CleanRecords(kind) == {r \in Records(kind) : CleanRow(kind, r)}

\* What is printed for clean records are lines, laid out, and what they are read as.
LEMMA PrintedLaid ==
  ASSUME Signs \subseteq Characters, NEW kind \in Kinds \ {"info"}
  PROVE  \A rs \in Seq(CleanRecords(kind)) :
           /\ Printed(kind, rs) \in Text
           /\ \E ws \in Seq(Text) :
                /\ \A k \in 1 .. Len(ws) : ws[k] \in Seq(Characters \ {"\n"})
                /\ \E P : Laid(Printed(kind, rs), NewLine, ws, <<>>, P)
                /\ ParsedTo(kind, {<<>>}, ws) = {rs}
<1> DEFINE R == CleanRecords(kind)
           D == Characters \ {"\n"}
           Good(t, rs) ==
             /\ t \in Text
             /\ \E ws \in Seq(Text) :
                  /\ \A k \in 1 .. Len(ws) : ws[k] \in Seq(D)
                  /\ \E P : Laid(t, NewLine, ws, <<>>, P)
                  /\ ParsedTo(kind, {<<>>}, ws) = {rs}
           S == {rs \in Seq(R) : Good(Printed(kind, rs), rs)}
<1>0. NewLine \in Text /\ <<>> \in Text
  BY NewLineText
<1>1. <<>> \in S
  <2>1. Printed(kind, <<>>) = <<>> /\ ParsedTo(kind, {<<>>}, <<>>) = {<<>>}
    BY PrintNothing, ParseNothing
  <2>2. \E P : Laid(<<>>, NewLine, <<>>, <<>>, P)
    <3>1. <<>> \in Seq(Characters)
      OBVIOUS
    <3> QED BY <3>1, LaidFirst
  <2>3. <<>> \in Seq(Text) /\ \A k \in 1 .. Len(<<>>) : <<>>[k] \in Seq(D)
    <3>1. Len(<<>>) = 0 /\ (\A k \in 1 .. 0 : FALSE)
      OBVIOUS
    <3> QED BY <3>1
  <2>4. Good(<<>>, <<>>)
    BY <1>0, <2>1, <2>2, <2>3
  <2>5. <<>> \in Seq(R)
    OBVIOUS
  <2> HIDE DEF Good
  <2> QED BY <2>1, <2>4, <2>5
<1>2. ASSUME NEW rs \in Seq(R), rs \in S, NEW r \in R
      PROVE  Append(rs, r) \in S
  <2> DEFINE t == Printed(kind, rs)
             row == Join(Fields(kind, r))
  <2>1. /\ t \in Seq(Characters)
        /\ \E ws \in Seq(Text) :
             /\ \A k \in 1 .. Len(ws) : ws[k] \in Seq(D)
             /\ \E P : Laid(t, NewLine, ws, <<>>, P)
             /\ ParsedTo(kind, {<<>>}, ws) = {rs}
    BY <1>2 DEF Text
  <2>2. row \in Seq(D) /\ row # <<>> /\ ParseRow(kind, row) = {r}
    <3>1. r \in Records(kind) /\ CleanRow(kind, r) /\ kind \in Kinds /\ kind # "info"
      BY DEF CleanRecords
    <3> HIDE DEF row, D
    <3> QED BY <3>1, RowRead DEF row, D
  <2>3. Printed(kind, Append(rs, r)) = t \o row \o NewLine
    <3> HIDE DEF R
    <3> QED BY PrintMore
  <2>4. row \in Seq(Characters)
    BY <2>2, SeqMonotonic
  <2> HIDE DEF t, row, S, Good
  <2>5. PICK ws \in Seq(Text) :
          /\ \A k \in 1 .. Len(ws) : ws[k] \in Seq(D)
          /\ \E P : Laid(t, NewLine, ws, <<>>, P)
          /\ ParsedTo(kind, {<<>>}, ws) = {rs}
    BY <2>1
  <2>6. PICK P : Laid(t, NewLine, ws, <<>>, P)
    BY <2>5
  <2> HIDE DEF D
  <2>7. Laid(t \o row, NewLine, ws, row, P)
    <3>1. ws \in Seq(Seq(Characters)) /\ NewLine \in Seq(Characters) /\ <<>> \in Seq(Characters)
      BY <1>0 DEF Text
    <3>2. Laid(t \o row, NewLine, ws, <<>> \o row, P)
      BY <2>1, <2>4, <2>6, <3>1, LaidOn
    <3>3. <<>> \o row = row
      BY <2>4, ConcatEmptySeq
    <3> QED BY <3>2, <3>3
  <2>8. t \o row \in Seq(Characters) /\ t \o row \o NewLine \in Text
    BY <1>0, <2>1, <2>4, ConcatProperties DEF Text
  <2>9. \E Q : Laid(t \o row \o NewLine, NewLine, Append(ws, row), <<>>, Q)
    <3>1. ws \in Seq(Seq(Characters)) /\ NewLine \in Seq(Characters)
      BY <1>0 DEF Text
    <3> QED BY <2>4, <2>7, <2>8, <3>1, LaidNext
  <2>10. ws \in Seq(Text) /\ row \in Text
    BY <2>4 DEF Text
  <2>11. ParsedTo(kind, {<<>>}, Append(ws, row)) = {Append(rs, r)}
    <3>1. ParsedTo(kind, {<<>>}, ws) = {rs}
      BY <2>5
    <3>2. row # <<>> /\ ParseRow(kind, row) = {r} /\ row \in Text
      BY <2>2, <2>10
    <3> HIDE DEF R
    <3>3. ParsedTo(kind, {<<>>}, Append(ws, row)) = {OneMore(rs, r)}
      BY <3>1, <3>2, LineParsed
    <3> QED BY <3>3 DEF OneMore
  <2>12. Append(ws, row) \in Seq(Text) /\ \A k \in 1 .. Len(Append(ws, row)) :
                                           Append(ws, row)[k] \in Seq(D)
    <3> DEFINE v == Append(ws, row)
               V == Text
    <3>1. ws \in Seq(V) /\ row \in V
      BY <2>10
    <3> HIDE DEF V
    <3>2. /\ v \in Seq(V) /\ Len(v) = Len(ws) + 1 /\ v[Len(ws) + 1] = row
          /\ \A k \in 1 .. Len(ws) : v[k] = ws[k]
      BY <3>1, AppendProperties
    <3>3. Len(ws) \in Nat
      BY <3>1, LenProperties
    <3> HIDE DEF v
    <3>4. \A k \in 1 .. Len(v) : k \in 1 .. Len(ws) \/ k = Len(ws) + 1
      BY <3>2, <3>3
    <3>5. \A k \in 1 .. Len(v) : v[k] \in Seq(D)
      BY <2>2, <2>5, <3>2, <3>4
    <3> QED BY <3>2, <3>5 DEF v, V
  <2>13. Good(t \o row \o NewLine, Append(rs, r))
    BY <2>8, <2>9, <2>11, <2>12 DEF Good
  <2>14. Append(rs, r) \in Seq(R)
    <3> HIDE DEF R
    <3> QED BY AppendProperties
  <2> QED BY <2>3, <2>13, <2>14 DEF S
<1>3. Seq(R) \subseteq S
  <2> HIDE DEF S, R
  <2> QED BY <1>1, <1>2, TextInduction
<1> QED BY <1>3

\* What is printed for clean records is read as these records.
LEMMA RowsRead ==
  ASSUME Signs \subseteq Characters, NEW kind \in Kinds \ {"info"},
         NEW rs \in Seq(CleanRecords(kind))
  PROVE  ParseRows(kind, Printed(kind, rs)) = {rs}
<1> DEFINE t == Printed(kind, rs)
           D == Characters \ {"\n"}
<1>1. t \in Seq(Characters) /\ \E ws \in Seq(Text) :
        /\ \A k \in 1 .. Len(ws) : ws[k] \in Seq(D)
        /\ \E P : Laid(t, NewLine, ws, <<>>, P)
        /\ ParsedTo(kind, {<<>>}, ws) = {rs}
  BY PrintedLaid DEF Text
<1>2. PICK ws \in Seq(Text) :
        /\ \A k \in 1 .. Len(ws) : ws[k] \in Seq(D)
        /\ \E P : Laid(t, NewLine, ws, <<>>, P)
        /\ ParsedTo(kind, {<<>>}, ws) = {rs}
  BY <1>1
<1>3. PICK P : Laid(t, NewLine, ws, <<>>, P)
  BY <1>2
<1>4. "\n" \notin D /\ <<>> \in Seq(D)
  OBVIOUS
<1>5. NewLine \in Seq(Characters) /\ NewLine # <<>> /\ <<>> \in Seq(Characters)
  BY NewLineText DEF Text
<1> HIDE DEF t, D
<1>6. Apart(<<>>, NewLine) /\ \A k \in 1 .. Len(ws) : Apart(ws[k], NewLine)
  BY <1>2, <1>4, LineApart
<1>7. Split(t, NewLine) = Append(ws, <<>>)
  <2> DEFINE e == <<>>
             d == NewLine
  <2>1. e \in Seq(Characters) /\ d \in Seq(Characters) /\ d # <<>> /\ ws \in Seq(Seq(Characters))
    BY <1>5 DEF Text
  <2>2. Apart(e, d) /\ Laid(t, d, ws, e, P) /\ \A k \in 1 .. Len(ws) : Apart(ws[k], d)
    BY <1>3, <1>6
  <2> HIDE DEF e, d
  <2>3. Split(t, d) = Append(ws, e)
    BY <1>1, <2>1, <2>2, SplitLaid
  <2> QED BY <2>3 DEF e, d
<1>8. ParsedTo(kind, {<<>>}, Append(ws, <<>>)) = ParsedTo(kind, {<<>>}, ws)
  <2> DEFINE V == Text
  <2>1. ws \in Seq(V) /\ <<>> \in V
    BY <1>5 DEF Text
  <2> HIDE DEF V
  <2> QED BY <2>1, LineSkipped
<1>9. ParseRows(kind, t) = ParsedTo(kind, {<<>>}, Split(t, NewLine))
  BY DEF ParseRows, ParsedTo, FoldLeft, MapThenFoldSet
<1> QED BY <1>2, <1>7, <1>8, <1>9 DEF t

Blanks == {" ", "\t", "\n", "\r"}

\* A text with a line break behind it.
LEMMA Broken ==
  ASSUME NEW S, NEW s \in Seq(S), NEW t, t = s \o NewLine
  PROVE  /\ DOMAIN t = 1 .. Len(s) + 1 /\ t[Len(s) + 1] = "\n"
         /\ \A i \in 1 .. Len(s) : t[i] = s[i]
<1> DEFINE T == S \cup {"\n"}
<1>1. NewLine \in Seq(T) /\ Len(NewLine) = 1 /\ NewLine[1] = "\n"
  BY DEF NewLine
<1>2. s \in Seq(T) /\ Len(s) \in Nat
  <2>1. \A i \in 1 .. Len(s) : s[i] \in T
    BY ElementOfSeq
  <2> QED BY <2>1, SeqDef, LenProperties
<1> HIDE DEF T
<1>3. /\ s \o NewLine \in Seq(T) /\ Len(s \o NewLine) = Len(s) + Len(NewLine)
      /\ \A i \in 1 .. Len(s) + Len(NewLine) :
           (s \o NewLine)[i] = IF i <= Len(s) THEN s[i] ELSE NewLine[i - Len(s)]
  BY <1>1, <1>2, ConcatProperties
<1>4. t \in Seq(T) /\ Len(t) = Len(s) + 1
  BY <1>1, <1>3
<1>5. \A i \in 1 .. Len(s) + 1 : t[i] = IF i <= Len(s) THEN s[i] ELSE NewLine[i - Len(s)]
  BY <1>1, <1>3
<1>6. DOMAIN t = 1 .. Len(s) + 1
  BY <1>4, LenProperties
<1>7. t[Len(s) + 1] = "\n"
  <2>1. Len(s) + 1 \in 1 .. Len(s) + 1 /\ ~(Len(s) + 1 <= Len(s)) /\ (Len(s) + 1) - Len(s) = 1
    BY <1>2
  <2> QED BY <1>1, <1>5, <2>1
<1>8. \A i \in 1 .. Len(s) : t[i] = s[i]
  <2>1. \A i \in 1 .. Len(s) : i \in 1 .. Len(s) + 1 /\ i <= Len(s)
    BY <1>2
  <2> QED BY <1>5, <2>1
<1> QED BY <1>6, <1>7, <1>8

\* A line break at the end is trimmed, and nothing else is if the rest has no blanks.
LEMMA Trimmed ==
  ASSUME NEW S, NEW s \in Seq(S), s # <<>>, S \cap Blanks = {}
  PROVE  Trim(s \o NewLine) = s
<1> DEFINE t == s \o NewLine
           kept == {i \in DOMAIN t : t[i] \notin {" ", "\t", "\n", "\r"}}
           n == Len(s)
<1>1. n \in Nat /\ n # 0
  BY EmptySeq
<1>2. \A i \in 1 .. n : s[i] \in S
  BY ElementOfSeq
<1>3. /\ DOMAIN t = 1 .. n + 1 /\ t[n + 1] = "\n"
      /\ \A i \in 1 .. n : t[i] = s[i]
  BY Broken
<1> HIDE DEF t, n
<1>4. kept \subseteq 1 .. n
  <2>1. \A i \in 1 .. n + 1 : i \in 1 .. n \/ i = n + 1
    BY <1>1
  <2> QED BY <1>3, <2>1
<1>5. 1 .. n \subseteq kept
  <2>1. \A i \in 1 .. n : i \in 1 .. n + 1
    BY <1>1
  <2> QED BY <1>2, <1>3, <2>1 DEF Blanks
<1>6. kept = 1 .. n
  BY <1>4, <1>5
<1> HIDE DEF kept
<1>7. Trim(t) = SubSeq(t, Min(kept), Max(kept))
  <2>1. 1 \in kept
    BY <1>1, <1>6
  <2> QED BY <2>1 DEF Trim, kept
<1>8. Min(kept) = 1 /\ Max(kept) = n
  <2>1. 1 \in kept /\ n \in kept /\ \A i \in kept : 1 <= i /\ i <= n
    BY <1>1, <1>6
  <2>2. \A i \in kept : i \in Int
    BY <1>1, <1>6
  <2>3. Min(kept) \in kept /\ \A i \in kept : Min(kept) <= i
    BY <2>1 DEF Min
  <2>4. Max(kept) \in kept /\ \A i \in kept : Max(kept) >= i
    BY <2>1 DEF Max
  <2>5. Min(kept) <= 1 /\ 1 <= Min(kept) /\ Max(kept) <= n /\ n <= Max(kept)
    BY <2>1, <2>3, <2>4
  <2>6. Min(kept) \in Int /\ Max(kept) \in Int
    BY <2>2, <2>3, <2>4
  <2> QED BY <1>1, <2>5, <2>6
<1>9. SubSeq(t, 1, n) = s
  <2>1. \A i \in 1 .. n : t[i] \in S
    BY <1>2, <1>3
  <2>2. /\ SubSeq(t, 1, n) \in Seq(S)
        /\ Len(SubSeq(t, 1, n)) = IF 1 <= n THEN n - 1 + 1 ELSE 0
        /\ \A i \in 1 .. n - 1 + 1 : SubSeq(t, 1, n)[i] = t[1 + i - 1]
    BY <1>1, <2>1, SubSeqProperties
  <2>3. 1 <= n /\ n - 1 + 1 = n /\ \A i \in 1 .. n : 1 + i - 1 = i
    BY <1>1
  <2>4. Len(SubSeq(t, 1, n)) = n /\ \A i \in 1 .. n : SubSeq(t, 1, n)[i] = s[i]
    BY <1>3, <2>2, <2>3
  <2> QED BY <2>2, <2>4, SeqEqual DEF n
<1> QED BY <1>7, <1>8, <1>9 DEF t

\* An id is its sigil and its digit, and a digit is no blank.
LEMMA IdText ==
  ASSUME NEW sigil, NEW n \in 0 .. 9
  PROVE  /\ Digits[n + 1] \notin Blanks \cup {"|"}
         /\ Id(sigil, n) = <<sigil, Digits[n + 1]>>
         /\ Id(sigil, n) \in Seq({sigil, Digits[n + 1]}) /\ Id(sigil, n) # <<>>
<1> DEFINE d == Digits[n + 1]
<1>1. d \notin Blanks \cup {"|"}
  <2>1. n + 1 \in 1 .. 10
    OBVIOUS
  <2> DEFINE k == n + 1
  <2>2. \/ k = 1 \/ k = 2 \/ k = 3 \/ k = 4 \/ k = 5 \/ k = 6 \/ k = 7 \/ k = 8 \/ k = 9 \/ k = 10
    BY <2>1
  <2> HIDE DEF k
  <2>3. Digits[k] \in {"0", "1", "2", "3", "4", "5", "6", "7", "8", "9"}
    BY <2>2 DEF Digits
  <2> QED BY <2>3 DEF k, Blanks
<1> HIDE DEF d
<1>2. <<sigil>> \o <<d>> = <<sigil, d>>
  <2> DEFINE S == {sigil, d}
             u == <<sigil>> \o <<d>>
             v == <<sigil, d>>
  <2>1. /\ <<sigil>> \in Seq(S) /\ <<d>> \in Seq(S) /\ Len(<<sigil>>) = 1 /\ Len(<<d>>) = 1
        /\ v \in Seq(S) /\ Len(v) = 2 /\ v[1] = sigil /\ v[2] = d
    OBVIOUS
  <2> HIDE DEF S
  <2>2. /\ u \in Seq(S) /\ Len(u) = 1 + 1
        /\ \A i \in 1 .. 1 + 1 : u[i] = IF i <= 1 THEN <<sigil>>[i] ELSE <<d>>[i - 1]
    BY <2>1, ConcatProperties
  <2> HIDE DEF u, v
  <2>3. u[1] = sigil /\ u[2] = d
    BY <2>2
  <2>4. \A i \in 1 .. 2 : i = 1 \/ i = 2
    OBVIOUS
  <2>5. u = v
    BY <2>1, <2>2, <2>3, <2>4, SeqEqual
  <2> QED BY <2>5 DEF u, v
<1>3. Id(sigil, n) = <<sigil, d>>
  BY <1>2 DEF Id, Digit, d
<1> QED BY <1>1, <1>3 DEF d

(***************************************************************************)
(* Short answers                                                           *)
(***************************************************************************)
\* Two initial segments of the numbers that are equal are equally long.
LEMMA SameLength ==
  ASSUME NEW m \in Nat, NEW n \in Nat, 1 .. m = 1 .. n
  PROVE  m = n
<1>1. CASE m < n
  <2>1. n \in 1 .. n /\ n \notin 1 .. m
    BY <1>1
  <2> QED BY <2>1
<1>2. CASE n < m
  <2>1. m \in 1 .. m /\ m \notin 1 .. n
    BY <1>2
  <2> QED BY <2>1
<1> QED BY <1>1, <1>2

\* A function on 1 .. n is a sequence of length n.
LEMMA FunctionSeq ==
  ASSUME NEW V, NEW n \in Nat, NEW s \in [1 .. n -> V]
  PROVE  s \in Seq(V) /\ Len(s) = n
<1>1. s \in Seq(V)
  BY IsSeq
<1>2. Len(s) \in Nat /\ DOMAIN s = 1 .. Len(s) /\ DOMAIN s = 1 .. n
  BY <1>1, LenProperties
<1> QED BY <1>1, <1>2, SameLength

\* A text without the characters of the delimiter and the line break.
LEMMA ShortClean ==
  ASSUME NEW S, "|" \notin S, "\n" \notin S, NEW s \in Seq(S)
  PROVE  Clean(s)
<1> DEFINE n == Len(s)
           C == S \cup {"|"}
<1>1. n \in Nat /\ \A i \in 1 .. n : s[i] \in S
  BY ElementOfSeq, LenProperties
<1>2. s \in Seq(C) /\ Delim \in Seq(C) /\ Len(Delim) = 3 /\ Delim[1] = "|"
  <2>1. s \in Seq(C)
    BY SeqMonotonic
  <2>2. Delim \in Seq(C) /\ Len(Delim) = 3 /\ Delim[1] = "|"
    BY DEF Delim
  <2> QED BY <2>1, <2>2
<1> HIDE DEF C, n
<1>3. ASSUME NEW j \in 1 .. n - 3 + 1
      PROVE  SubSeq(s, j, j + 3 - 1) # Delim
  <2> DEFINE p == j - 1
  <2>1. p \in Nat /\ p + 3 <= n /\ p + 1 = j /\ p + 3 = j + 3 - 1 /\ j \in 1 .. n
    BY <1>1
  <2> HIDE DEF p
  <2>2. SubSeq(s, p + 1, p + 3) = Delim => Occurs(Delim, s, p)
    BY <1>2, <2>1, PieceIs DEF n
  <2>3. ~Occurs(Delim, s, p)
    <3>1. s[p + 1] \in S
      BY <1>1, <2>1
    <3> QED BY <1>2, <3>1 DEF Occurs
  <2> QED BY <2>1, <2>2, <2>3
<1>4. Finds(s, Delim, 1) = {}
  BY <1>2, <1>3 DEF Finds, n
<1>5. "\n" \notin ToSet(s)
  <2>1. DOMAIN s = 1 .. n
    BY LenProperties DEF n
  <2> QED BY <1>1, <2>1 DEF ToSet
<1>6. s # <<>> => Last(s) # "|"
  <2> SUFFICES ASSUME s # <<>> PROVE s[n] \in S
    BY DEF Last, n
  <2>1. n # 0
    BY EmptySeq DEF n
  <2> QED BY <1>1, <2>1
<1> QED BY <1>4, <1>5, <1>6 DEF Clean

\* The character of a digit.
LEMMA DigitSign ==
  ASSUME NEW n \in 0 .. 9
  PROVE  /\ Digits[n + 1] \notin Blanks \cup {"|"}
         /\ Digit(n) \in Seq({Digits[n + 1]}) /\ Digit(n) # <<>>
         /\ Clean(Digit(n))
<1> DEFINE d == Digits[n + 1]
<1>1. d \notin Blanks \cup {"|"}
  BY IdText
<1> HIDE DEF d
<1>2. <<d>> \in Seq({d}) /\ <<d>> # <<>>
  OBVIOUS
<1>3. "|" \notin {d} /\ "\n" \notin {d}
  BY <1>1 DEF Blanks
<1>4. Clean(<<d>>)
  BY <1>2, <1>3, ShortClean
<1> QED BY <1>1, <1>2, <1>4 DEF Digit, d

\* The id of a pane, as it is printed, is read.
LEMMA PaneIdRead ==
  ASSUME NEW n \in 0 .. 9
  PROVE  ParseCreatedPaneId(Id("%", n) \o NewLine) = {[pane |-> Id("%", n)]}
<1> DEFINE d == Digits[n + 1]
<1>1. d \notin Blanks /\ Id("%", n) \in Seq({"%", d}) /\ Id("%", n) # <<>>
  BY IdText
<1>2. {"%", d} \cap Blanks = {}
  BY <1>1 DEF Blanks
<1>3. Trim(Id("%", n) \o NewLine) = Id("%", n)
  BY <1>1, <1>2, Trimmed
<1> QED BY <1>1, <1>3 DEF ParseCreatedPaneId

\* The ids of a window and a pane, as they are printed, are read.
LEMMA CreatedRead ==
  ASSUME NEW w \in 0 .. 9, NEW p \in 0 .. 9
  PROVE  ParseCreatedPane(Join(<<Id("@", w), Id("%", p)>>) \o NewLine)
           = {[window |-> Id("@", w), pane |-> Id("%", p)]}
<1> DEFINE b == Digits[w + 1]
           d == Digits[p + 1]
           x == Id("@", w)
           y == Id("%", p)
           C == {"@", "%", "|", "\n", b, d}
           D == C \ {"\n"}
           fs == <<x, y>>
           s == Join(fs)
<1>1. /\ b \notin Blanks \cup {"|"} /\ x \in Seq({"@", b})
      /\ d \notin Blanks \cup {"|"} /\ y \in Seq({"%", d})
  BY IdText
<1>2. Clean(x) /\ Clean(y)
  <2>1. "|" \notin {"@", b} /\ "\n" \notin {"@", b} /\ "|" \notin {"%", d} /\ "\n" \notin {"%", d}
    BY <1>1 DEF Blanks
  <2> HIDE DEF b, d, x, y
  <2> QED BY <1>1, <2>1, ShortClean
<1>3. x \in Seq(C) /\ y \in Seq(C) /\ "|" \in C /\ "\n" \in C
  <2> HIDE DEF b, d, x, y
  <2> QED BY <1>1, SeqMonotonic
<1>4. D \cap Blanks = {}
  <2> HIDE DEF b, d
  <2> QED BY <1>1 DEF Blanks
<1> HIDE DEF C, x, y
<1>5. fs \in Seq(Seq(C)) /\ Len(fs) = 2 /\ fs[1] = x /\ fs[2] = y /\ Range(fs) = {x, y}
  <2> DEFINE V == Seq(C)
  <2>1. x \in V /\ y \in V
    BY <1>3
  <2> HIDE DEF V
  <2>2. fs \in Seq(V) /\ Len(fs) = 2 /\ fs[1] = x /\ fs[2] = y /\ DOMAIN fs = {1, 2}
    BY <2>1
  <2>3. Range(fs) = {x, y}
    <3> HIDE DEF fs
    <3> QED BY <2>2 DEF Range
  <2> QED BY <2>2, <2>3 DEF V
<1> HIDE DEF fs
<1>6. s \in Seq(D) /\ s # <<>> /\ Split(s, Delim) = fs
  <2>1. Len(fs) > 1 /\ \A z \in Range(fs) : Clean(z)
    BY <1>2, <1>5
  <2> QED BY <1>3, <1>5, <2>1, OneLine
<1> HIDE DEF s, D
<1>7. Trim(s \o NewLine) = s
  BY <1>4, <1>6, Trimmed
<1>8. ParseCreatedPane(s \o NewLine) = {[window |-> x, pane |-> y]}
  BY <1>5, <1>6, <1>7 DEF ParseCreatedPane
<1> QED BY <1>8 DEF s, fs, x, y

\* The time of the last save, or none.
LEMMA OptionRead ==
  ASSUME NEW saved \in {{}, {5}}
  PROVE  ParseLastSave((IF saved = {} THEN <<>> ELSE Digit(5)) \o NewLine) = {[saved |-> saved]}
<1>1. CASE saved = {}
  <2> DEFINE t == <<>> \o NewLine
  <2>1. DOMAIN t = 1 .. 1 /\ t[1] = "\n"
    <3> DEFINE e == <<>>
    <3>1. e \in Seq({}) /\ Len(e) = 0
      OBVIOUS
    <3> HIDE DEF e
    <3>2. DOMAIN (e \o NewLine) = 1 .. Len(e) + 1 /\ (e \o NewLine)[Len(e) + 1] = "\n"
      BY <3>1, Broken
    <3> QED BY <3>1, <3>2 DEF e
  <2> HIDE DEF t
  <2>2. {i \in DOMAIN t : t[i] \notin {" ", "\t", "\n", "\r"}} = {}
    <3>1. \A i \in DOMAIN t : t[i] = "\n"
      BY <2>1
    <3> QED BY <3>1, Zenon
  <2>3. Trim(t) = <<>>
    BY <2>2 DEF Trim
  <2>4. ParseLastSave(t) = {[saved |-> {}]}
    BY <2>3 DEF ParseLastSave
  <2> QED BY <1>1, <2>4 DEF t
<1>2. CASE saved = {5}
  <2> DEFINE d == Digits[5 + 1]
             s == Digit(5)
  <2>1. 5 \in 0 .. 9
    OBVIOUS
  <2>2. d \notin Blanks /\ s \in Seq({d}) /\ s # <<>> /\ Number(s) = {5}
    BY <2>1, DigitSign, DigitIs
  <2>3. {d} \cap Blanks = {}
    BY <2>2
  <2> HIDE DEF d, s
  <2>4. Trim(s \o NewLine) = s
    BY <2>2, <2>3, Trimmed
  <2>5. ParseLastSave(s \o NewLine) = {[saved |-> {5}]}
    BY <2>2, <2>4 DEF ParseLastSave
  <2> QED BY <1>2, <2>5 DEF s
<1> QED BY <1>1, <1>2

\* The line break behind a text is its end, and what is before it is the text.
LEMMA LineEnds ==
  ASSUME NEW S, NEW s \in Seq(S)
  PROVE  IsSuffix(NewLine, s \o NewLine) /\ Front(s \o NewLine) = s
<1> DEFINE t == s \o NewLine
           n == Len(s)
           T == S \cup {"\n"}
<1>1. n \in Nat /\ \A i \in 1 .. n : s[i] \in S
  BY ElementOfSeq, LenProperties
<1>2. DOMAIN t = 1 .. n + 1 /\ t[n + 1] = "\n" /\ \A i \in 1 .. n : t[i] = s[i]
  BY Broken
<1>3. t \in Seq(T)
  <2>1. s \in Seq(T)
    BY SeqMonotonic
  <2>2. NewLine \in Seq(T)
    BY DEF NewLine
  <2> HIDE DEF T
  <2> QED BY <2>1, <2>2, ConcatProperties
<1> HIDE DEF t, n, T
<1>4. Len(t) = n + 1
  <2>1. Len(t) \in Nat /\ DOMAIN t = 1 .. Len(t)
    BY <1>3, LenProperties
  <2> QED BY <1>1, <1>2, <2>1, SameLength
<1>5. Front(t) = s
  <2> DEFINE u == SubSeq(t, 1, n)
  <2>1. \A i \in 1 .. n : t[i] \in S
    BY <1>1, <1>2
  <2>2. u \in Seq(S) /\ Len(u) = (IF 1 <= n THEN n - 1 + 1 ELSE 0)
        /\ \A i \in 1 .. n - 1 + 1 : u[i] = t[1 + i - 1]
    BY <1>1, <2>1, SubSeqProperties
  <2>3. n - 1 + 1 = n /\ (IF 1 <= n THEN n - 1 + 1 ELSE 0) = n /\ \A i \in 1 .. n : 1 + i - 1 = i
    BY <1>1
  <2> HIDE DEF u
  <2>4. Len(u) = Len(s) /\ \A i \in 1 .. Len(u) : u[i] = s[i]
    BY <1>2, <2>2, <2>3 DEF n
  <2>5. u = s
    BY <2>2, <2>4, SeqEqual
  <2>6. Len(t) - 1 = n
    BY <1>1, <1>4
  <2>7. Front(t) = SubSeq(t, 1, Len(t) - 1)
    BY DEF Front
  <2> QED BY <2>5, <2>6, <2>7 DEF u
<1>6. IsSuffix(NewLine, t)
  <2> DEFINE a == Reverse(NewLine)
             b == Reverse(t)
             P == {"\n"}
  <2>1. Len(NewLine) = 1 /\ NewLine[1] = "\n"
    BY DEF NewLine
  <2>2. a = [i \in 1 .. 1 |-> NewLine[1 - i + 1]]
    BY <2>1 DEF Reverse
  <2>3. a \in Seq(P) /\ Len(a) = 1 /\ a[1] = "\n"
    <3>1. 1 \in 1 .. 1 /\ (\A i \in 1 .. 1 : i = 1) /\ 1 - 1 + 1 = 1
      OBVIOUS
    <3>2. a \in [1 .. 1 -> P] /\ a[1] = "\n"
      BY <2>1, <2>2, <3>1
    <3> HIDE DEF a
    <3>3. a \in Seq(P) /\ Len(a) = 1
      BY <3>2, FunctionSeq
    <3> QED BY <3>2, <3>3
  <2>4. b \in Seq(T) /\ Len(b) >= 1 /\ b[1] = "\n"
    <3> DEFINE m == n + 1
    <3>0. m \in Nat /\ m >= 1
      BY <1>1
    <3>1. b = [i \in 1 .. m |-> t[m - i + 1]]
      BY <1>4 DEF Reverse
    <3>2. \A i \in 1 .. m : t[i] \in T
      BY <1>3, <1>4, ElementOfSeq
    <3> HIDE DEF m
    <3>3. \A i \in 1 .. m : m - i + 1 \in 1 .. m
      BY <3>0
    <3>4. b \in [1 .. m -> T]
      BY <3>1, <3>2, <3>3
    <3>5. b[1] = t[m]
      <4>1. 1 \in 1 .. m /\ m - 1 + 1 = m
        BY <3>0
      <4> QED BY <3>1, <4>1
    <3> HIDE DEF b
    <3>6. b \in Seq(T) /\ Len(b) = m
      BY <3>0, <3>4, FunctionSeq
    <3> QED BY <1>2, <3>0, <3>5, <3>6 DEF m
  <2> HIDE DEF a, b, P
  <2>5. SubSeq(a, 1, 1) = SubSeq(b, 1, 1)
    <3> DEFINE Q == T \cup P
    <3>1. ASSUME NEW c \in {a, b}
          PROVE  /\ SubSeq(c, 1, 1) \in Seq(Q) /\ Len(SubSeq(c, 1, 1)) = 1
                 /\ \A i \in 1 .. 1 : SubSeq(c, 1, 1)[i] = "\n"
      <4>1. c[1] = "\n" /\ \A i \in 1 .. 1 : c[i] \in Q
        <5>1. "\n" \in Q /\ \A i \in 1 .. 1 : i = 1
          BY DEF P
        <5> QED BY <2>3, <2>4, <5>1
      <4> HIDE DEF Q
      <4>2. /\ SubSeq(c, 1, 1) \in Seq(Q) /\ Len(SubSeq(c, 1, 1)) = IF 1 <= 1 THEN 1 - 1 + 1 ELSE 0
            /\ \A i \in 1 .. 1 - 1 + 1 : SubSeq(c, 1, 1)[i] = c[1 + i - 1]
        BY <4>1, SubSeqProperties
      <4> QED BY <4>1, <4>2
    <3> HIDE DEF Q
    <3> DEFINE u == SubSeq(a, 1, 1)
               v == SubSeq(b, 1, 1)
    <3>2. /\ u \in Seq(Q) /\ Len(u) = 1 /\ v \in Seq(Q) /\ Len(v) = 1
          /\ \A i \in 1 .. 1 : u[i] = v[i]
      BY <3>1
    <3> HIDE DEF u, v
    <3>3. u = v
      BY <3>2, SeqEqual
    <3> QED BY <3>3 DEF u, v
  <2> QED BY <2>3, <2>4, <2>5 DEF IsSuffix, IsPrefix, a, b
<1> QED BY <1>5, <1>6 DEF t

\* The answer of display-message is read as the record it was made of.
LEMMA ServerInfoRead ==
  ASSUME Signs \subseteq Characters, NEW r \in Records("info")
  PROVE  ParseInfo(Join(Fields("info", r)) \o NewLine) = {r}
<1> DEFINE s == Join(Fields("info", r))
<1>1. CleanRow("info", r)
  <2>1. r.pid \in 0 .. 9 /\ r.sessions \in 0 .. 9 /\ r.start \in 0 .. 9
    BY DEF Records
  <2>2. Clean(Digit(r.pid)) /\ Clean(Digit(r.sessions)) /\ Clean(Digit(r.start))
    BY <2>1, DigitSign
  <2> DEFINE f == Fields("info", r)
  <2>3. f = <<Digit(r.pid), Digit(r.sessions), Digit(r.start)>>
    BY DEF Fields
  <2>4. /\ DOMAIN f = 1 .. 3
        /\ f[1] = Digit(r.pid) /\ f[2] = Digit(r.sessions) /\ f[3] = Digit(r.start)
    BY <2>3
  <2> HIDE DEF f
  <2>5. \A i \in 1 .. 3 : i = 1 \/ i = 2 \/ i = 3
    OBVIOUS
  <2>6. \A x \in Range(f) : Clean(x)
    BY <2>2, <2>4, <2>5 DEF Range
  <2> QED BY <2>6 DEF CleanRow, f
<1>2. "info" \in Kinds
  BY DEF Kinds
<1>3. s \in Seq(Characters \ {"\n"}) /\ ParseServerInfo(Split(s, Delim)) = {r}
  BY <1>1, <1>2, RowRead
<1> HIDE DEF s
<1>4. IsSuffix(NewLine, s \o NewLine) /\ Front(s \o NewLine) = s
  BY <1>3, LineEnds
<1> QED BY <1>3, <1>4 DEF ParseInfo, s

\* What a command prints that is read as reads: records, two ids, or nothing.
Printable(reads, rows) ==
  CASE reads \in {"session", "window", "pane", "client"} -> rows \in Seq(Records(reads))
    [] reads = "info" -> \E r \in Records("info") : rows = <<r>>
    [] reads = "option" -> \E saved \in {{}, {5}} : rows = <<[saved |-> saved]>>
    [] reads \in {"created", "pane_id"} ->
         \E w, p \in 0 .. 9 : rows = <<[window |-> Id("@", w), pane |-> Id("%", p)]>>
    [] OTHER -> reads = "text"

\* The answer to a command that succeeded is read as what the server printed.
THEOREM AnswerRead ==
  ASSUME Signs \subseteq Characters, NEW reads, NEW o, o.ok, Printable(reads, o.rows),
         AllClean(reads, o)
  PROVE  Parsed(reads, Output(reads, o)) = Value(Seen(reads, o))
<1> DEFINE text == Output(reads, o)
<1>1. CASE reads \in {"session", "window", "pane", "client"}
  <2> DEFINE rs == o.rows
             n == Len(rs)
  <2>1. rs \in Seq(Records(reads))
    BY <1>1 DEF Printable
  <2>2. n \in Nat /\ DOMAIN rs = 1 .. n /\ rs \in [1 .. n -> Records(reads)]
    BY <2>1, LenProperties
  <2>3. \A i \in DOMAIN rs : CleanRow(reads, rs[i])
    BY <1>1 DEF AllClean, CleanRow
  <2> HIDE DEF n, rs
  <2>4. rs \in [1 .. n -> CleanRecords(reads)]
    BY <2>2, <2>3 DEF CleanRecords
  <2>5. rs \in Seq(CleanRecords(reads))
    BY <2>2, <2>4, IsSeq
  <2>6. reads \in Kinds \ {"info"}
    BY <1>1 DEF Kinds
  <2>7. ParseRows(reads, Printed(reads, rs)) = {rs}
    BY <2>5, <2>6, RowsRead
  <2>8. text = Printed(reads, rs)
    BY <1>1 DEF Output, rs
  <2>9. Seen(reads, o) = rs
    BY <1>1 DEF Seen, rs
  <2> HIDE DEF text
  <2>10. Parsed(reads, text) = [ok |-> TRUE, value |-> {rs}]
    BY <1>1, <2>7, <2>8 DEF Parsed
  <2> QED BY <2>9, <2>10 DEF Value, text
<1>2. CASE reads = "info"
  <2>1. PICK r \in Records("info") : o.rows = <<r>>
    BY <1>2 DEF Printable
  <2>2. o.rows[1] = r
    BY <2>1
  <2>3. text = Join(Fields("info", r)) \o NewLine /\ Seen(reads, o) = r
    BY <1>2, <2>2 DEF Output, Seen
  <2> HIDE DEF text
  <2>4. Parsed(reads, text) = [ok |-> TRUE, value |-> {r}]
    BY <1>2, <2>3, ServerInfoRead DEF Parsed
  <2> QED BY <2>3, <2>4 DEF Value, text
<1>3. CASE reads = "option"
  <2>1. PICK saved \in {{}, {5}} : o.rows = <<[saved |-> saved]>>
    BY <1>3 DEF Printable
  <2>2. o.rows[1] = [saved |-> saved] /\ o.rows[1].saved = saved
    BY <2>1
  <2>3. text = (IF saved = {} THEN <<>> ELSE Digit(5)) \o NewLine
        /\ Seen(reads, o) = [saved |-> saved]
    BY <1>3, <2>2 DEF Output, Seen
  <2>4. ParseLastSave(text) = {[saved |-> saved]}
    BY <2>3, OptionRead
  <2> HIDE DEF text
  <2>5. Parsed(reads, text) = [ok |-> TRUE, value |-> {[saved |-> saved]}]
    BY <1>3, <2>4 DEF Parsed
  <2> QED BY <2>3, <2>5 DEF Value, text
<1>4. CASE reads \in {"created", "pane_id"}
  <2>1. PICK w \in 0 .. 9, p \in 0 .. 9 :
          o.rows = <<[window |-> Id("@", w), pane |-> Id("%", p)]>>
    BY <1>4 DEF Printable
  <2> DEFINE x == Id("@", w)
             y == Id("%", p)
  <2>2. /\ ParseCreatedPane(Join(<<x, y>>) \o NewLine) = {[window |-> x, pane |-> y]}
        /\ ParseCreatedPaneId(y \o NewLine) = {[pane |-> y]}
    BY CreatedRead, PaneIdRead
  <2> HIDE DEF x, y
  <2>3. o.rows[1] = [window |-> x, pane |-> y]
    BY <2>1 DEF x, y
  <2>4. CASE reads = "created"
    <3>1. text = Join(<<x, y>>) \o NewLine /\ Seen(reads, o) = [window |-> x, pane |-> y]
      BY <2>3, <2>4 DEF Output, Seen
    <3> HIDE DEF text
    <3>2. Parsed(reads, text) = [ok |-> TRUE, value |-> {[window |-> x, pane |-> y]}]
      BY <2>2, <2>4, <3>1 DEF Parsed
    <3> QED BY <3>1, <3>2 DEF Value, text
  <2>5. CASE reads = "pane_id"
    <3>1. text = y \o NewLine /\ Seen(reads, o) = [pane |-> y]
      BY <2>3, <2>5 DEF Output, Seen
    <3> HIDE DEF text
    <3>2. Parsed(reads, text) = [ok |-> TRUE, value |-> {[pane |-> y]}]
      BY <2>2, <2>5, <3>1 DEF Parsed
    <3> QED BY <3>1, <3>2 DEF Value, text
  <2> QED BY <1>4, <2>4, <2>5
<1>5. CASE reads = "text"
  BY <1>5 DEF Output, Seen, Parsed, Value
<1>6. reads \in {"session", "window", "pane", "client", "info", "option", "created", "pane_id",
                  "text"}
  BY DEF Printable
<1> QED BY <1>1, <1>2, <1>3, <1>4, <1>5, <1>6

(***************************************************************************)
(* Servers                                                                 *)
(***************************************************************************)
\* What t had is in u as it was, except for the sessions S, the windows W with
\* their panes, and the panes P; a window may be laid out anew, a session may be
\* gone, and so may a window all of whose panes are in P.
SameWindow(v, w) == v.session = w.session /\ v.index = w.index /\ v.name = w.name

Touches(t, u, S, W, P) ==
  /\ \A p \in DOMAIN t.panes :
       \/ p \in P \/ t.panes[p].window \in W
       \/ p \in DOMAIN u.panes /\ u.panes[p] = t.panes[p]
  /\ \A w \in DOMAIN t.windows :
       \/ w \in W \/ PanesIn(t, w) \subseteq P
       \/ w \in DOMAIN u.windows /\ SameWindow(u.windows[w], t.windows[w])
  /\ \A s \in DOMAIN t.sessions \cap DOMAIN u.sessions : s \in S \/ u.sessions[s] = t.sessions[s]
  /\ u.client \subseteq t.client \cup S

\* The fields of well-formed servers.
LEMMA FieldsOf ==
  ASSUME NEW t, WellFormed(t)
  PROVE  /\ t.next \in Nat /\ t.born \in Nat
         /\ \A w \in DOMAIN t.windows :
              t.windows[w].session \in DOMAIN t.sessions /\ t.windows[w].layout \in {0, 1}
         /\ \A p \in DOMAIN t.panes :
              t.panes[p].window \in DOMAIN t.windows /\ t.panes[p].keys \in {0, 1}
         /\ DOMAIN t.sessions \subseteq Nat /\ DOMAIN t.windows \subseteq Nat
         /\ DOMAIN t.panes \subseteq Nat
         /\ t.next \notin DOMAIN t.sessions \cup DOMAIN t.windows \cup DOMAIN t.panes
BY DEF WellFormed

\* A server with these fields; what makes them a well-formed one.
Holds(t, S, W, P, C, n, b) ==
  t \in [sessions : {S}, windows : {W}, panes : {P}, client : {C}, next : {n}, born : {b}]

Parts(S, W, P, C, n) ==
  /\ S = [s \in DOMAIN S |-> S[s]] /\ W = [w \in DOMAIN W |-> W[w]] /\ P = [p \in DOMAIN P |-> P[p]]
  /\ \A w \in DOMAIN W : W[w] \in [session : DOMAIN S, index : {W[w].index},
                                   name : {W[w].name}, layout : {0, 1}]
  /\ \A p \in DOMAIN P : P[p] \in [window : DOMAIN W, path : {P[p].path}, keys : {0, 1}]
  /\ DOMAIN S \cup DOMAIN W \cup DOMAIN P \subseteq 0 .. (n - 1)
  /\ C \subseteq DOMAIN S
  /\ \A r, s \in DOMAIN S : S[r] = S[s] => r = s

\* What the fields are.
LEMMA FieldsHeld ==
  ASSUME NEW t, NEW S, NEW W, NEW P, NEW C, NEW n, NEW b, Holds(t, S, W, P, C, n, b)
  PROVE  /\ t.sessions = S /\ t.windows = W /\ t.panes = P
         /\ t.client = C /\ t.next = n /\ t.born = b
BY DEF Holds

\* The parts of a well-formed server, ...
LEMMA PartsOf ==
  ASSUME NEW t, WellFormed(t)
  PROVE  /\ Holds(t, t.sessions, t.windows, t.panes, t.client, t.next, t.born)
         /\ Parts(t.sessions, t.windows, t.panes, t.client, t.next)
<1>1. Holds(t, t.sessions, t.windows, t.panes, t.client, t.next, t.born)
  BY DEF WellFormed, Holds
<1>2. Parts(t.sessions, t.windows, t.panes, t.client, t.next)
  BY Zenon DEF WellFormed, Parts
<1> QED BY <1>1, <1>2

\* ... and what has such parts is one.
LEMMA WellFormedIs ==
  ASSUME NEW t, NEW S, NEW W, NEW P, NEW C, NEW n \in Nat, NEW b \in Nat,
         Holds(t, S, W, P, C, n, b), Parts(S, W, P, C, n)
  PROVE  WellFormed(t)
<1>1. /\ t.sessions = S /\ t.windows = W /\ t.panes = P
      /\ t.client = C /\ t.next = n /\ t.born = b
  BY FieldsHeld
<1>2. t \in [sessions : {t.sessions}, windows : {t.windows}, panes : {t.panes},
             client : {t.client}, next : Nat, born : Nat]
  BY <1>1 DEF Holds
<1>3. Parts(t.sessions, t.windows, t.panes, t.client, t.next)
  BY <1>1
<1> QED BY <1>2, <1>3, Zenon DEF WellFormed, Parts

\* Before and after a server there is none with a session.
LEMMA DownIs ==
  ASSUME NEW n \in Nat
  PROVE  IsServer(Down(n)) /\ DOMAIN Down(n).sessions = {} /\ Down(n).client = {}
<1>1. /\ DOMAIN NoWindows = {}
      /\ NoWindows = [x \in DOMAIN NoWindows |-> NoWindows[x]]
  BY DEF NoWindows
<1> QED BY <1>1 DEF Down, IsServer, WellFormed, NothingEmpty

\* What is left when only some panes are is a server.
LEMMA KeepingIs ==
  ASSUME NEW t, WellFormed(t), NEW P, P \subseteq DOMAIN t.panes
  PROVE  LET u == Keeping(t, P)
         IN /\ IsServer(u)
            /\ \A p \in P : p \in DOMAIN u.panes /\ u.panes[p] = t.panes[p]
            /\ \A p \in P : LET w == t.panes[p].window
                            IN w \in DOMAIN u.windows /\ u.windows[w] = t.windows[w]
            /\ \A s \in DOMAIN t.sessions \cap DOMAIN u.sessions : u.sessions[s] = t.sessions[s]
            /\ u.client \subseteq t.client
<1> DEFINE p == Only(t.panes, P)
           w == Only(t.windows, {p[x].window : x \in DOMAIN p})
           s == Only(t.sessions, {w[x].session : x \in DOMAIN w})
           left == [t EXCEPT !.panes = p, !.windows = w, !.sessions = s, !.client = @ \cap DOMAIN s]
           u == Keeping(t, P)
<1>1. u = IF DOMAIN s = {} THEN Down(t.born + 1) ELSE left
  BY DEF Keeping
<1>2. DOMAIN p = P /\ (\A x \in P : p[x] = t.panes[x]) /\ p = [x \in DOMAIN p |-> p[x]]
  BY DEF Only
<1> HIDE DEF p
<1>3. /\ \A x \in P : t.panes[x].window \in DOMAIN t.windows
      /\ \A x \in DOMAIN t.windows : t.windows[x].session \in DOMAIN t.sessions
  BY FieldsOf
<1>4. /\ DOMAIN w = {t.panes[x].window : x \in P}
      /\ DOMAIN w \subseteq DOMAIN t.windows
      /\ \A x \in DOMAIN w : w[x] = t.windows[x]
      /\ w = [x \in DOMAIN w |-> w[x]]
  BY <1>2, <1>3 DEF Only
<1> HIDE DEF w
<1>5. /\ DOMAIN s = {t.windows[x].session : x \in DOMAIN w}
      /\ DOMAIN s \subseteq DOMAIN t.sessions
      /\ \A x \in DOMAIN s : s[x] = t.sessions[x]
      /\ s = [x \in DOMAIN s |-> s[x]]
  BY <1>3, <1>4 DEF Only
<1> HIDE DEF s
<1>6. CASE DOMAIN s = {}
  <2>1. DOMAIN w = {}
    <3>1. \A x \in DOMAIN w : t.windows[x].session \in DOMAIN s
      BY <1>5
    <3> QED BY <1>6, <3>1
  <2>2. P = {}
    <3>1. \A x \in P : t.panes[x].window \in DOMAIN w
      BY <1>4
    <3> QED BY <2>1, <3>1
  <2>3. u = Down(t.born + 1) /\ t.born + 1 \in Nat
    BY <1>1, <1>6, FieldsOf
  <2> HIDE DEF u
  <2>4. IsServer(u) /\ DOMAIN u.sessions = {} /\ u.client = {}
    BY <2>3, DownIs
  <2> QED BY <2>2, <2>4 DEF u
<1>7. CASE DOMAIN s # {}
  <2>1. u = left
    BY <1>1, <1>7
  <2>2. Holds(left, s, w, p, t.client \cap DOMAIN s, t.next, t.born)
    BY DEF WellFormed, Holds
  <2> HIDE DEF left
  <2>3. \A x \in DOMAIN w : w[x] \in [session : DOMAIN s, index : {w[x].index},
                                      name : {w[x].name}, layout : {0, 1}]
    <3>1. \A x \in DOMAIN t.windows : t.windows[x] \in
            [session : DOMAIN t.sessions, index : {t.windows[x].index},
             name : {t.windows[x].name}, layout : {0, 1}]
      BY DEF WellFormed
    <3>2. \A x \in DOMAIN w : t.windows[x].session \in DOMAIN s
      BY <1>5
    <3> QED BY <1>4, <3>1, <3>2
  <2>4. \A x \in DOMAIN p : p[x] \in [window : DOMAIN w, path : {p[x].path}, keys : {0, 1}]
    <3>1. \A x \in DOMAIN t.panes : t.panes[x] \in
            [window : DOMAIN t.windows, path : {t.panes[x].path}, keys : {0, 1}]
      BY DEF WellFormed
    <3>2. \A x \in P : t.panes[x].window \in DOMAIN w
      BY <1>4
    <3> QED BY <1>2, <3>1, <3>2
  <2>5. DOMAIN s \cup DOMAIN w \cup DOMAIN p \subseteq 0 .. (t.next - 1)
    BY <1>2, <1>4, <1>5 DEF WellFormed
  <2>6. \A r, x \in DOMAIN s : s[r] = s[x] => r = x
    BY <1>5 DEF WellFormed
  <2>7. WellFormed(left)
    <3>1. Parts(s, w, p, t.client \cap DOMAIN s, t.next)
      BY <1>2, <1>4, <1>5, <2>3, <2>4, <2>5, <2>6 DEF Parts
    <3> QED BY <2>2, <3>1, FieldsOf, WellFormedIs
  <2>9. /\ left.sessions = s /\ left.windows = w /\ left.panes = p
        /\ left.client = t.client \cap DOMAIN s
    BY <2>2, FieldsHeld
  <2>8. NothingEmpty(left)
    BY <1>2, <1>4, <1>5, <2>9 DEF NothingEmpty, PanesIn, WindowsIn
  <2>10. \A x \in P : t.panes[x].window \in DOMAIN w
    BY <1>4
  <2>11. IsServer(left)
    BY <2>7, <2>8 DEF IsServer
  <2> HIDE DEF u
  <2>12. /\ \A x \in P : x \in DOMAIN u.panes /\ u.panes[x] = t.panes[x]
         /\ \A x \in P : LET y == t.panes[x].window
                         IN y \in DOMAIN u.windows /\ u.windows[y] = t.windows[y]
    BY <1>2, <1>4, <2>1, <2>9, <2>10
  <2>13. /\ \A x \in DOMAIN t.sessions \cap DOMAIN u.sessions : u.sessions[x] = t.sessions[x]
         /\ u.client \subseteq t.client
    BY <1>5, <2>1, <2>9
  <2> QED BY <2>1, <2>11, <2>12, <2>13 DEF u
<1> QED BY <1>6, <1>7

\* A server changed in its sessions, its windows or its panes alone.
LEMMA Replaced ==
  ASSUME NEW t, NEW S, NEW W, NEW P, NEW C, NEW n, NEW b, Holds(t, S, W, P, C, n, b), NEW x
  PROVE  /\ Holds([t EXCEPT !.sessions = x], x, W, P, C, n, b)
         /\ Holds([t EXCEPT !.windows = x], S, x, P, C, n, b)
         /\ Holds([t EXCEPT !.panes = x], S, W, x, C, n, b)
         /\ Holds([t EXCEPT !.client = x], S, W, P, x, n, b)
BY DEF Holds

\* A server in which a pane can be opened, and the server with the pane in it.
Room(t, S, W, P, C, n, b, window, s) ==
  /\ n \in Nat /\ b \in Nat /\ n \notin DOMAIN W \cup DOMAIN P
  /\ Holds(t, S, W, P, C, n, b) /\ Parts(S, W, P, C, n + 1)
  /\ window \in DOMAIN W \/ (window = n /\ s \in DOMAIN S)
  /\ \A w \in DOMAIN W : PanesIn(t, w) # {}
  /\ \A x \in DOMAIN S : WindowsIn(t, x) # {} \/ (window = n /\ x = s)

Grown(o, S, W, P, C, n, window) ==
  /\ IsServer(o.tree)
  /\ o.tree.sessions = S /\ o.tree.client = C /\ o.tree.next = n + 1
  /\ \A w \in DOMAIN W : w \in DOMAIN o.tree.windows /\ o.tree.windows[w] = W[w]
  /\ \A p \in DOMAIN P : p \in DOMAIN o.tree.panes /\ o.tree.panes[p] = P[p]
  /\ o.ok /\ o.rows = <<[window |-> Id("@", window), pane |-> Id("%", n)]>>

\* A server is one with the new pane in it.
LEMMA OpenedIs ==
  ASSUME NEW t, NEW S, NEW W, NEW P, NEW C, NEW n, NEW b,
         NEW window, NEW name, NEW path, NEW s, NEW index,
         Room(t, S, W, P, C, n, b, window, s), NEW o \in Opened(t, window, name, path, s, index)
  PROVE  Grown(o, S, W, P, C, n, window)
<1>0. /\ n \in Nat /\ b \in Nat /\ n \notin DOMAIN W \cup DOMAIN P
      /\ Holds(t, S, W, P, C, n, b) /\ Parts(S, W, P, C, n + 1)
      /\ window \in DOMAIN W \/ (window = n /\ s \in DOMAIN S)
      /\ \A w \in DOMAIN W : PanesIn(t, w) # {}
      /\ \A x \in DOMAIN S : WindowsIn(t, x) # {} \/ (window = n /\ x = s)
  BY DEF Room
<1> DEFINE new == [session |-> s, index |-> index, name |-> name, layout |-> 0]
           w == IF window = n THEN With(W, n, new) ELSE W
           p == With(P, n, [window |-> window, path |-> path, keys |-> 0])
           u == [t EXCEPT !.windows = w, !.next = n + 1, !.panes = p]
<1>1. /\ t.sessions = S /\ t.windows = W /\ t.panes = P
      /\ t.client = C /\ t.next = n /\ t.born = b
  BY <1>0, FieldsHeld
<1>2. o = [tree |-> u, ok |-> TRUE, kind |-> "created",
           rows |-> <<[window |-> Id("@", window), pane |-> Id("%", n)]>>]
  BY <1>1 DEF Opened, Prints
<1>3. Holds(u, S, w, p, C, n + 1, b)
  BY <1>0 DEF Holds
<1> HIDE DEF u
<1>4. /\ DOMAIN w = IF window = n THEN DOMAIN W \cup {n} ELSE DOMAIN W
      /\ \A x \in DOMAIN W : w[x] = W[x]
      /\ window = n => w[n] = new
      /\ w = [x \in DOMAIN w |-> w[x]]
  <2>1. W = [x \in DOMAIN W |-> W[x]]
    BY <1>0, Zenon DEF Parts
  <2>2. CASE window = n
    BY <1>0, <2>2 DEF With
  <2>3. CASE window # n
    BY <2>1, <2>3
  <2> QED BY <2>2, <2>3
<1>5. /\ DOMAIN p = DOMAIN P \cup {n}
      /\ \A x \in DOMAIN P : p[x] = P[x]
      /\ p[n] = [window |-> window, path |-> path, keys |-> 0]
      /\ p = [x \in DOMAIN p |-> p[x]]
  BY <1>0 DEF With
<1> HIDE DEF w, p
<1>6. Parts(S, w, p, C, n + 1)
  <2>1. \A x \in DOMAIN w : w[x] \in [session : DOMAIN S, index : {w[x].index},
                                      name : {w[x].name}, layout : {0, 1}]
    <3>1. \A x \in DOMAIN W : W[x] \in [session : DOMAIN S, index : {W[x].index},
                                        name : {W[x].name}, layout : {0, 1}]
      BY <1>0 DEF Parts
    <3>2. window = n => s \in DOMAIN S
      BY <1>0
    <3> QED BY <1>0, <1>4, <3>1, <3>2
  <2>2. \A x \in DOMAIN p : p[x] \in [window : DOMAIN w, path : {p[x].path}, keys : {0, 1}]
    <3>1. \A x \in DOMAIN P : P[x] \in [window : DOMAIN W, path : {P[x].path}, keys : {0, 1}]
      BY <1>0 DEF Parts
    <3>2. window \in DOMAIN w /\ DOMAIN W \subseteq DOMAIN w
      BY <1>0, <1>4
    <3> QED BY <1>5, <3>1, <3>2
  <2>3. DOMAIN S \cup DOMAIN w \cup DOMAIN p \subseteq 0 .. ((n + 1) - 1)
    <3>1. DOMAIN S \cup DOMAIN W \cup DOMAIN P \subseteq 0 .. ((n + 1) - 1)
      BY <1>0 DEF Parts
    <3> QED BY <1>0, <1>4, <1>5, <3>1
  <2>4. /\ S = [x \in DOMAIN S |-> S[x]] /\ C \subseteq DOMAIN S
        /\ \A r, x \in DOMAIN S : S[r] = S[x] => r = x
    BY <1>0, Zenon DEF Parts
  <2> QED BY <1>4, <1>5, <2>1, <2>2, <2>3, <2>4, Zenon DEF Parts
<1>7. WellFormed(u)
  BY <1>0, <1>3, <1>6, WellFormedIs
<1>8. u.sessions = S /\ u.windows = w /\ u.panes = p /\ u.client = C /\ u.next = n + 1
  BY <1>3, FieldsHeld
<1>9. NothingEmpty(u)
  <2>1. ASSUME NEW x \in DOMAIN w PROVE PanesIn(u, x) # {}
    <3>1. CASE x = window
      BY <1>5, <1>8, <3>1 DEF PanesIn
    <3>2. CASE x # window
      <4>1. x \in DOMAIN W
        BY <1>4, <2>1, <3>2
      <4>2. PICK y \in DOMAIN P : P[y].window = x
        BY <1>0, <1>1, <4>1 DEF PanesIn
      <4> QED BY <1>5, <1>8, <4>2 DEF PanesIn
    <3> QED BY <3>1, <3>2
  <2>2. ASSUME NEW x \in DOMAIN S PROVE WindowsIn(u, x) # {}
    <3>0. WindowsIn(t, x) # {} \/ (window = n /\ x = s)
      BY <1>0
    <3>1. CASE WindowsIn(t, x) # {}
      <4>1. PICK y \in DOMAIN W : W[y].session = x
        BY <1>1, <3>1 DEF WindowsIn
      <4> QED BY <1>4, <1>8, <4>1 DEF WindowsIn
    <3>2. CASE window = n /\ x = s
      BY <1>4, <1>8, <3>2 DEF WindowsIn
    <3> QED BY <3>0, <3>1, <3>2
  <2> QED BY <1>8, <2>1, <2>2 DEF NothingEmpty
<1>10. IsServer(u)
  BY <1>7, <1>9 DEF IsServer
<1> QED BY <1>2, <1>4, <1>5, <1>8, <1>10 DEF Grown

(***************************************************************************)
(* Targets                                                                 *)
(***************************************************************************)
\* Max is an element.
LEMMA LargestIsOne ==
  ASSUME NEW n \in Nat, NEW T, T \subseteq 0 .. n, T # {}
  PROVE  Max(T) \in T
<1> DEFINE D == {n - x : x \in T}
<1>1. PICK d \in D : \A e \in D : d <= e
  <2>1. D \subseteq Nat /\ D # {}
    <3>1. \A x \in T : n - x \in Nat
      OBVIOUS
    <3> QED BY <3>1
  <2> HIDE DEF D
  <2> QED BY <2>1, LeastNumber
<1>2. PICK x \in T : d = n - x
  BY <1>1
<1>3. \A y \in T : x >= y
  <2>1. \A y \in T : n - x <= n - y
    BY <1>1, <1>2
  <2> QED BY <1>2, <2>1
<1> QED BY <1>3 DEF Max

\* A command acts on what is there.
LEMMA TargetsIn ==
  ASSUME NEW t, IsServer(t), NEW text
  PROVE  /\ PanesOf(t, text) \subseteq DOMAIN t.panes
         /\ WindowsOf(t, text) \subseteq DOMAIN t.windows
         /\ SessionsOf(t, text) \subseteq DOMAIN t.sessions
<1>1. WellFormed(t) /\ NothingEmpty(t)
  BY DEF IsServer
<1>2. PanesOf(t, text) \subseteq DOMAIN t.panes
  BY DEF PanesOf, Known
<1>3. ASSUME NEW s \in DOMAIN t.sessions PROVE Max(WindowsIn(t, s)) \in DOMAIN t.windows
  <2>1. WindowsIn(t, s) # {} /\ WindowsIn(t, s) \subseteq DOMAIN t.windows
    BY <1>1 DEF NothingEmpty, WindowsIn
  <2>2. DOMAIN t.windows \subseteq 0 .. t.next
    BY <1>1 DEF WellFormed
  <2> QED BY <1>1, <2>1, <2>2, FieldsOf, LargestIsOne
<1>4. \A p \in DOMAIN t.panes : t.panes[p].window \in DOMAIN t.windows
  BY <1>1, FieldsOf
<1>5. \A w \in DOMAIN t.windows : t.windows[w].session \in DOMAIN t.sessions
  BY <1>1, FieldsOf
<1>6. WindowsOf(t, text) \subseteq DOMAIN t.windows
  BY <1>2, <1>3, <1>4 DEF WindowsOf, Known
<1> HIDE DEF WindowsOf
<1>7. SessionsOf(t, text) \subseteq DOMAIN t.sessions
  <2>1. t.client \subseteq DOMAIN t.sessions
    BY <1>1 DEF WellFormed
  <2> QED BY <1>5, <1>6, <2>1 DEF SessionsOf, Known
<1> QED BY <1>2, <1>6, <1>7

(***************************************************************************)
(* Commands.  Good: u is a server, and what it leaves alone.               *)
(***************************************************************************)
Good(t, u, S, W, P) == IsServer(u) /\ Touches(t, u, S, W, P)

\* Nothing is changed.
LEMMA Stays ==
  ASSUME NEW t, IsServer(t), NEW S, NEW W, NEW P
  PROVE  Good(t, t, S, W, P)
BY DEF Good, Touches, SameWindow

\* Windows, or panes, of the same numbers.
LEMMA WindowsReplaced ==
  ASSUME NEW t, WellFormed(t), NEW f, f = [w \in DOMAIN f |-> f[w]], DOMAIN f = DOMAIN t.windows,
         \A w \in DOMAIN f : f[w] \in [session : DOMAIN t.sessions, index : {f[w].index},
                                       name : {f[w].name}, layout : {0, 1}]
  PROVE  LET u == [t EXCEPT !.windows = f]
         IN /\ WellFormed(u) /\ u.sessions = t.sessions /\ u.windows = f /\ u.panes = t.panes
            /\ u.client = t.client /\ u.next = t.next
<1> DEFINE u == [t EXCEPT !.windows = f]
<1>1. Holds(u, t.sessions, f, t.panes, t.client, t.next, t.born)
  BY PartsOf, Replaced
<1> HIDE DEF u
<1>2. Parts(t.sessions, f, t.panes, t.client, t.next)
  <2>1. Parts(t.sessions, t.windows, t.panes, t.client, t.next)
    BY PartsOf
  <2> QED BY <2>1, Zenon DEF Parts
<1>3. WellFormed(u)
  BY <1>1, <1>2, FieldsOf, WellFormedIs
<1> QED BY <1>1, <1>3, FieldsHeld DEF u

\* The same for panes.
LEMMA PanesReplaced ==
  ASSUME NEW t, WellFormed(t), NEW f, f = [p \in DOMAIN f |-> f[p]], DOMAIN f = DOMAIN t.panes,
         \A p \in DOMAIN f : f[p] \in [window : DOMAIN t.windows, path : {f[p].path}, keys : {0, 1}]
  PROVE  LET u == [t EXCEPT !.panes = f]
         IN /\ WellFormed(u) /\ u.sessions = t.sessions /\ u.windows = t.windows /\ u.panes = f
            /\ u.client = t.client /\ u.next = t.next
<1> DEFINE u == [t EXCEPT !.panes = f]
<1>1. Holds(u, t.sessions, t.windows, f, t.client, t.next, t.born)
  BY PartsOf, Replaced
<1> HIDE DEF u
<1>2. Parts(t.sessions, t.windows, f, t.client, t.next)
  <2>1. Parts(t.sessions, t.windows, t.panes, t.client, t.next)
    BY PartsOf
  <2> QED BY <2>1, Zenon DEF Parts
<1>3. WellFormed(u)
  BY <1>1, <1>2, FieldsOf, WellFormedIs
<1> QED BY <1>1, <1>3, FieldsHeld DEF u

\* Windows changed in a server.
LEMMA WindowsEdited ==
  ASSUME NEW t, IsServer(t), NEW f, f = [w \in DOMAIN f |-> f[w]], DOMAIN f = DOMAIN t.windows,
         \A w \in DOMAIN f : f[w] \in [session : DOMAIN t.sessions, index : {f[w].index},
                                       name : {f[w].name}, layout : {0, 1}],
         \A s \in DOMAIN t.sessions : \E w \in DOMAIN f : f[w].session = s,
         NEW W, \A w \in DOMAIN f : w \in W \/ SameWindow(f[w], t.windows[w])
  PROVE  Good(t, [t EXCEPT !.windows = f], {}, W, {})
<1> DEFINE u == [t EXCEPT !.windows = f]
<1>1. WellFormed(t) /\ NothingEmpty(t)
  BY DEF IsServer
<1>2. /\ WellFormed(u) /\ u.sessions = t.sessions /\ u.windows = f /\ u.panes = t.panes
      /\ u.client = t.client /\ u.next = t.next
  BY <1>1, WindowsReplaced
<1> HIDE DEF u
<1>3. NothingEmpty(u)
  <2>1. \A w \in DOMAIN u.windows : PanesIn(u, w) # {}
    BY <1>1, <1>2 DEF NothingEmpty, PanesIn
  <2>2. \A s \in DOMAIN u.sessions : WindowsIn(u, s) # {}
    BY <1>2 DEF WindowsIn
  <2> QED BY <2>1, <2>2 DEF NothingEmpty
<1>4. Touches(t, u, {}, W, {})
  BY <1>2 DEF Touches
<1> QED BY <1>2, <1>3, <1>4 DEF Good, IsServer, u

\* rename-window, rotate-window, select-layout, resize-pane.
LEMMA LabelGood ==
  ASSUME NEW t, IsServer(t), NEW w \in DOMAIN t.windows, NEW x
  PROVE  /\ Good(t, [t EXCEPT !.windows[w].name = x], {}, {w}, {})
         /\ x \in {0, 1} => Good(t, [t EXCEPT !.windows[w].layout = x], {}, {}, {})
<1> DEFINE named == [t.windows EXCEPT ![w] = [t.windows[w] EXCEPT !.name = x]]
           laid == [t.windows EXCEPT ![w] = [t.windows[w] EXCEPT !.layout = x]]
<1>1. \A v \in DOMAIN t.windows : t.windows[v] \in
        [session : DOMAIN t.sessions, index : {t.windows[v].index},
         name : {t.windows[v].name}, layout : {0, 1}]
  BY DEF IsServer, WellFormed
<1>2. \A s \in DOMAIN t.sessions : \E v \in DOMAIN t.windows : t.windows[v].session = s
  BY DEF IsServer, NothingEmpty, WindowsIn
<1>3. Good(t, [t EXCEPT !.windows = named], {}, {w}, {})
  <2>1. /\ DOMAIN named = DOMAIN t.windows /\ named = [v \in DOMAIN named |-> named[v]]
        /\ \A v \in DOMAIN t.windows \ {w} : named[v] = t.windows[v]
        /\ named[w].session = t.windows[w].session /\ named[w].index = t.windows[w].index
        /\ named[w] \in [session : DOMAIN t.sessions, index : {t.windows[w].index},
                         name : {x}, layout : {0, 1}]
    BY <1>1
  <2> HIDE DEF named
  <2>2. \A v \in DOMAIN named : named[v] \in
          [session : DOMAIN t.sessions, index : {named[v].index},
           name : {named[v].name}, layout : {0, 1}]
    BY <1>1, <2>1
  <2>3. \A s \in DOMAIN t.sessions : \E v \in DOMAIN named : named[v].session = s
    BY <1>2, <2>1
  <2>4. \A v \in DOMAIN named : v \in {w} \/ SameWindow(named[v], t.windows[v])
    BY <2>1 DEF SameWindow
  <2> QED BY <2>1, <2>2, <2>3, <2>4, WindowsEdited
<1>4. ASSUME x \in {0, 1}
      PROVE  Good(t, [t EXCEPT !.windows = laid], {}, {}, {})
  <2>1. /\ DOMAIN laid = DOMAIN t.windows /\ laid = [v \in DOMAIN laid |-> laid[v]]
        /\ \A v \in DOMAIN t.windows \ {w} : laid[v] = t.windows[v]
        /\ laid[w].session = t.windows[w].session /\ laid[w].index = t.windows[w].index
        /\ laid[w].name = t.windows[w].name
        /\ laid[w] \in [session : DOMAIN t.sessions, index : {t.windows[w].index},
                        name : {t.windows[w].name}, layout : {0, 1}]
    BY <1>1, <1>4
  <2> HIDE DEF laid
  <2>2. \A v \in DOMAIN laid : laid[v] \in
          [session : DOMAIN t.sessions, index : {laid[v].index},
           name : {laid[v].name}, layout : {0, 1}]
    BY <1>1, <2>1
  <2>3. \A s \in DOMAIN t.sessions : \E v \in DOMAIN laid : laid[v].session = s
    BY <1>2, <2>1
  <2>4. \A v \in DOMAIN laid : v \in {} \/ SameWindow(laid[v], t.windows[v])
    BY <2>1 DEF SameWindow
  <2> QED BY <2>1, <2>2, <2>3, <2>4, WindowsEdited
<1> QED BY <1>3, <1>4

\* swap-window.
LEMMA SwapGood ==
  ASSUME NEW t, IsServer(t), NEW v \in DOMAIN t.windows, NEW w \in DOMAIN t.windows,
         NEW o \in SwapDoes(t, v, w)
  PROVE  Good(t, o.tree, {}, {v, w}, {}) /\ o.ok
<1> DEFINE f == [t.windows EXCEPT ![v] = InPlace(t, v, w), ![w] = InPlace(t, w, v)]
<1>1. o.tree = [t EXCEPT !.windows = f] /\ o.ok
  BY DEF SwapDoes, Does, Prints
<1>2. \A x \in DOMAIN t.windows : t.windows[x] \in
        [session : DOMAIN t.sessions, index : {t.windows[x].index},
         name : {t.windows[x].name}, layout : {0, 1}]
  BY DEF IsServer, WellFormed
<1>3. ASSUME NEW x \in {v, w}, NEW y \in {v, w}
      PROVE  /\ InPlace(t, x, y) \in
                  [session : DOMAIN t.sessions, index : {t.windows[y].index},
                   name : {t.windows[x].name}, layout : {0, 1}]
             /\ InPlace(t, x, y).session = t.windows[y].session
  BY <1>2 DEF InPlace
<1>4. /\ DOMAIN f = DOMAIN t.windows /\ f = [x \in DOMAIN f |-> f[x]]
      /\ \A x \in DOMAIN t.windows \ {v, w} : f[x] = t.windows[x]
      /\ f[w] = InPlace(t, w, v) /\ (v # w => f[v] = InPlace(t, v, w))
  OBVIOUS
<1> HIDE DEF f
<1>5. \A x \in DOMAIN f : f[x] \in
        [session : DOMAIN t.sessions, index : {f[x].index}, name : {f[x].name}, layout : {0, 1}]
  <2> TAKE x \in DOMAIN f
  <2>1. CASE x \notin {v, w}
    BY <1>2, <1>4, <2>1
  <2>2. CASE x \in {v, w}
    <3>1. PICK y \in {v, w} : f[x] = InPlace(t, x, y)
      BY <1>4, <2>2
    <3> QED BY <1>3, <2>2, <3>1
  <2> QED BY <2>1, <2>2
<1>6. \A s \in DOMAIN t.sessions : \E x \in DOMAIN f : f[x].session = s
  <2> TAKE s \in DOMAIN t.sessions
  <2>1. PICK x \in DOMAIN t.windows : t.windows[x].session = s
    BY DEF IsServer, NothingEmpty, WindowsIn
  <2>2. CASE x \notin {v, w}
    BY <1>4, <2>1, <2>2
  <2>3. CASE x = v
    BY <1>3, <1>4, <2>1, <2>3
  <2>4. CASE x = w
    BY <1>3, <1>4, <2>1, <2>4
  <2> QED BY <2>2, <2>3, <2>4
<1>7. \A x \in DOMAIN f : x \in {v, w} \/ SameWindow(f[x], t.windows[x])
  BY <1>4 DEF SameWindow
<1> QED BY <1>1, <1>4, <1>5, <1>6, <1>7, WindowsEdited

\* What Keeping leaves, of a well-formed server r that has the panes of t.
LEMMA KeepingGood ==
  ASSUME NEW t, IsServer(t), NEW r, WellFormed(r), NEW Q, Q \subseteq DOMAIN r.panes, NEW W, NEW P,
         r.sessions = t.sessions, r.client = t.client,
         \A p \in DOMAIN t.panes :
           p \in P \/ t.panes[p].window \in W \/ (p \in Q /\ r.panes[p] = t.panes[p]),
         \A w \in DOMAIN t.windows :
           w \in W \/ (w \in DOMAIN r.windows /\ r.windows[w] = t.windows[w])
  PROVE  Good(t, Keeping(r, Q), {}, W, P)
<1> DEFINE u == Keeping(r, Q)
<1>1. /\ IsServer(u)
      /\ \A p \in Q : p \in DOMAIN u.panes /\ u.panes[p] = r.panes[p]
      /\ \A p \in Q : LET w == r.panes[p].window
                      IN w \in DOMAIN u.windows /\ u.windows[w] = r.windows[w]
      /\ \A s \in DOMAIN r.sessions \cap DOMAIN u.sessions : u.sessions[s] = r.sessions[s]
      /\ u.client \subseteq r.client
  BY KeepingIs
<1> HIDE DEF u
<1>2. \A p \in DOMAIN t.panes :
        p \in P \/ t.panes[p].window \in W \/ (p \in DOMAIN u.panes /\ u.panes[p] = t.panes[p])
  BY <1>1
<1>3. ASSUME NEW w \in DOMAIN t.windows, w \notin W, ~(PanesIn(t, w) \subseteq P)
      PROVE  w \in DOMAIN u.windows /\ SameWindow(u.windows[w], t.windows[w])
  <2>1. PICK p \in DOMAIN t.panes : t.panes[p].window = w /\ p \notin P
    BY <1>3 DEF PanesIn
  <2>2. p \in Q /\ r.panes[p] = t.panes[p]
    BY <1>3, <2>1
  <2>3. w \in DOMAIN u.windows /\ u.windows[w] = r.windows[w]
    BY <1>1, <2>1, <2>2
  <2>4. r.windows[w] = t.windows[w]
    BY <1>3
  <2> QED BY <2>3, <2>4 DEF SameWindow
<1>4. Touches(t, u, {}, W, P)
  BY <1>1, <1>2, <1>3 DEF Touches
<1> QED BY <1>1, <1>4 DEF Good, u

\* kill-pane, kill-window, kill-session.
LEMMA KillGood ==
  ASSUME NEW t, IsServer(t)
  PROVE  /\ \A p \in DOMAIN t.panes : Good(t, Keeping(t, DOMAIN t.panes \ {p}), {}, {}, {p})
         /\ \A w \in DOMAIN t.windows :
              Good(t, Keeping(t, DOMAIN t.panes \ PanesIn(t, w)), {}, {w}, {})
         /\ \A s \in DOMAIN t.sessions :
              Good(t, Keeping(t, {p \in DOMAIN t.panes : t.windows[t.panes[p].window].session # s}),
                   {}, WindowsIn(t, s), {})
<1>1. WellFormed(t)
  BY DEF IsServer
<1>2. ASSUME NEW p \in DOMAIN t.panes
      PROVE  Good(t, Keeping(t, DOMAIN t.panes \ {p}), {}, {}, {p})
  BY <1>1, KeepingGood
<1>3. ASSUME NEW w \in DOMAIN t.windows
      PROVE  Good(t, Keeping(t, DOMAIN t.panes \ PanesIn(t, w)), {}, {w}, {})
  <2>1. \A p \in DOMAIN t.panes : t.panes[p].window \in {w} \/ p \in DOMAIN t.panes \ PanesIn(t, w)
    BY DEF PanesIn
  <2> QED BY <1>1, <2>1, KeepingGood
<1>4. ASSUME NEW s \in DOMAIN t.sessions
      PROVE  Good(t, Keeping(t, {p \in DOMAIN t.panes : t.windows[t.panes[p].window].session # s}),
                  {}, WindowsIn(t, s), {})
  <2> DEFINE Q == {p \in DOMAIN t.panes : t.windows[t.panes[p].window].session # s}
  <2>1. \A p \in DOMAIN t.panes : t.panes[p].window \in WindowsIn(t, s) \/ p \in Q
    BY <1>1, FieldsOf DEF WindowsIn
  <2>2. Q \subseteq DOMAIN t.panes
    OBVIOUS
  <2> HIDE DEF Q
  <2>3. Good(t, Keeping(t, Q), {}, WindowsIn(t, s), {})
    BY <1>1, <2>1, <2>2, KeepingGood
  <2> QED BY <2>3 DEF Q
<1> QED BY <1>2, <1>3, <1>4

\* move-window.
LEMMA MoveGood ==
  ASSUME NEW t, IsServer(t), NEW w \in DOMAIN t.windows, NEW s \in DOMAIN t.sessions,
         NEW o \in MoveDoes(t, w, s)
  PROVE  Good(t, o.tree, {}, {w}, {}) /\ o.ok
<1> DEFINE f == [t.windows EXCEPT
                   ![w] = [t.windows[w] EXCEPT !.session = s, !.index = FreeIndex(t, s)]]
           r == [t EXCEPT !.windows = f]
<1>1. [t EXCEPT !.windows[w].session = s, !.windows[w].index = FreeIndex(t, s)] = r
  OBVIOUS
<1>2. o \in Does(Keeping(r, DOMAIN t.panes))
  BY <1>1 DEF MoveDoes
<1>3. o.tree = Keeping(r, DOMAIN t.panes) /\ o.ok
  BY <1>2 DEF Does, Prints
<1>4. \A v \in DOMAIN t.windows : t.windows[v] \in
        [session : DOMAIN t.sessions, index : {t.windows[v].index},
         name : {t.windows[v].name}, layout : {0, 1}]
  BY DEF IsServer, WellFormed
<1>5. /\ DOMAIN f = DOMAIN t.windows /\ f = [v \in DOMAIN f |-> f[v]]
      /\ \A v \in DOMAIN t.windows \ {w} : f[v] = t.windows[v]
      /\ f[w] \in [session : DOMAIN t.sessions, index : {FreeIndex(t, s)},
                   name : {t.windows[w].name}, layout : {0, 1}]
  BY <1>4
<1> HIDE DEF f
<1>6. \A v \in DOMAIN f : f[v] \in
        [session : DOMAIN t.sessions, index : {f[v].index}, name : {f[v].name}, layout : {0, 1}]
  BY <1>4, <1>5
<1>7. /\ WellFormed(r) /\ r.sessions = t.sessions /\ r.windows = f /\ r.panes = t.panes
      /\ r.client = t.client
  BY <1>5, <1>6, WindowsReplaced DEF IsServer
<1> HIDE DEF r
<1>8. Good(t, Keeping(r, DOMAIN t.panes), {}, {w}, {})
  BY <1>5, <1>7, KeepingGood
<1> QED BY <1>3, <1>8

\* join-pane.
LEMMA JoinGood ==
  ASSUME NEW t, IsServer(t), NEW p \in DOMAIN t.panes, NEW w \in DOMAIN t.windows,
         NEW o \in JoinDoes(t, p, w)
  PROVE  Good(t, o.tree, {}, {}, {p}) /\ (~o.ok => o.tree = t)
<1> DEFINE f == [t.panes EXCEPT ![p] = [t.panes[p] EXCEPT !.window = w]]
           r == [t EXCEPT !.panes = f]
<1>1. CASE o \in Does(t) \cup Fails(t)
  <2>1. o.tree = t
    BY <1>1 DEF Does, Fails, Prints
  <2> QED BY <2>1, Stays
<1>2. CASE o \in Does(Keeping(r, DOMAIN t.panes))
  <2>1. o.tree = Keeping(r, DOMAIN t.panes) /\ o.ok
    BY <1>2 DEF Does, Prints
  <2>2. \A x \in DOMAIN t.panes :
          t.panes[x] \in [window : DOMAIN t.windows, path : {t.panes[x].path}, keys : {0, 1}]
    BY DEF IsServer, WellFormed
  <2>3. /\ DOMAIN f = DOMAIN t.panes /\ f = [x \in DOMAIN f |-> f[x]]
        /\ \A x \in DOMAIN t.panes \ {p} : f[x] = t.panes[x]
        /\ f[p] \in [window : DOMAIN t.windows, path : {t.panes[p].path}, keys : {0, 1}]
    BY <2>2
  <2> HIDE DEF f
  <2>4. \A x \in DOMAIN f : f[x] \in [window : DOMAIN t.windows, path : {f[x].path}, keys : {0, 1}]
    BY <2>2, <2>3
  <2>5. /\ WellFormed(r) /\ r.sessions = t.sessions /\ r.windows = t.windows /\ r.panes = f
        /\ r.client = t.client
    BY <2>3, <2>4, PanesReplaced DEF IsServer
  <2> HIDE DEF r
  <2>6. Good(t, Keeping(r, DOMAIN t.panes), {}, {}, {p})
    BY <2>3, <2>5, KeepingGood
  <2> QED BY <2>1, <2>6
<1> QED BY <1>1, <1>2 DEF JoinDoes

\* attach-session, switch-client, detach-client.
LEMMA ClientGood ==
  ASSUME NEW t, IsServer(t), NEW C, C \subseteq DOMAIN t.sessions,
         NEW S, C \subseteq t.client \cup S
  PROVE  Good(t, [t EXCEPT !.client = C], S, {}, {})
<1> DEFINE u == [t EXCEPT !.client = C]
<1>1. WellFormed(t) /\ NothingEmpty(t)
  BY DEF IsServer
<1>2. Holds(u, t.sessions, t.windows, t.panes, C, t.next, t.born)
  BY <1>1, PartsOf, Replaced
<1> HIDE DEF u
<1>3. Parts(t.sessions, t.windows, t.panes, C, t.next)
  <2>1. Parts(t.sessions, t.windows, t.panes, t.client, t.next)
    BY <1>1, PartsOf
  <2> QED BY <2>1, Zenon DEF Parts
<1>4. WellFormed(u)
  BY <1>1, <1>2, <1>3, FieldsOf, WellFormedIs
<1>5. u.sessions = t.sessions /\ u.windows = t.windows /\ u.panes = t.panes /\ u.client = C
  BY <1>2, FieldsHeld
<1>6. NothingEmpty(u)
  BY <1>1, <1>5 DEF NothingEmpty, PanesIn, WindowsIn
<1>7. Touches(t, u, S, {}, {})
  BY <1>5 DEF Touches, SameWindow
<1> QED BY <1>4, <1>6, <1>7 DEF Good, IsServer, u

\* rename-session, to a name no session has.
LEMMA RenameGood ==
  ASSUME NEW t, IsServer(t), NEW s \in DOMAIN t.sessions, NEW name, name \notin Range(t.sessions)
  PROVE  Good(t, [t EXCEPT !.sessions[s] = name], {s}, {}, {})
<1> DEFINE f == [t.sessions EXCEPT ![s] = name]
           u == [t EXCEPT !.sessions = f]
<1>1. WellFormed(t) /\ NothingEmpty(t)
  BY DEF IsServer
<1>2. Holds(u, f, t.windows, t.panes, t.client, t.next, t.born)
  BY <1>1, PartsOf, Replaced
<1> HIDE DEF u
<1>3. /\ DOMAIN f = DOMAIN t.sessions /\ f = [x \in DOMAIN f |-> f[x]]
      /\ f[s] = name /\ \A x \in DOMAIN t.sessions \ {s} : f[x] = t.sessions[x]
  OBVIOUS
<1>4. Parts(t.sessions, t.windows, t.panes, t.client, t.next)
  BY <1>1, PartsOf
<1>5. \A r, x \in DOMAIN f : f[r] = f[x] => r = x
  <2>1. \A x \in DOMAIN t.sessions : t.sessions[x] # name
    BY DEF Range
  <2>2. \A r, x \in DOMAIN t.sessions : t.sessions[r] = t.sessions[x] => r = x
    BY <1>1 DEF WellFormed
  <2> HIDE DEF f
  <2> QED BY <1>3, <2>1, <2>2
<1> HIDE DEF f
<1>6. Parts(f, t.windows, t.panes, t.client, t.next)
  BY <1>3, <1>4, <1>5, Zenon DEF Parts
<1>7. WellFormed(u)
  BY <1>1, <1>2, <1>6, FieldsOf, WellFormedIs
<1>8. u.sessions = f /\ u.windows = t.windows /\ u.panes = t.panes /\ u.client = t.client
  BY <1>2, FieldsHeld
<1>9. NothingEmpty(u)
  BY <1>1, <1>3, <1>8 DEF NothingEmpty, PanesIn, WindowsIn
<1>10. Touches(t, u, {s}, {}, {})
  BY <1>3, <1>8 DEF Touches, SameWindow
<1> QED BY <1>7, <1>9, <1>10 DEF Good, IsServer, u, f

\* send-keys.
LEMMA KeysGood ==
  ASSUME NEW t, IsServer(t), NEW p \in DOMAIN t.panes
  PROVE  Good(t, [t EXCEPT !.panes[p].keys = 1], {}, {}, {p})
<1> DEFINE f == [t.panes EXCEPT ![p] = [t.panes[p] EXCEPT !.keys = 1]]
           u == [t EXCEPT !.panes = f]
<1>1. \A x \in DOMAIN t.panes :
        t.panes[x] \in [window : DOMAIN t.windows, path : {t.panes[x].path}, keys : {0, 1}]
  BY DEF IsServer, WellFormed
<1>2. /\ DOMAIN f = DOMAIN t.panes /\ f = [x \in DOMAIN f |-> f[x]]
      /\ \A x \in DOMAIN t.panes \ {p} : f[x] = t.panes[x]
      /\ f[p] \in [window : DOMAIN t.windows, path : {t.panes[p].path}, keys : {0, 1}]
      /\ f[p].window = t.panes[p].window
  BY <1>1
<1> HIDE DEF f
<1>3. \A x \in DOMAIN f : f[x] \in [window : DOMAIN t.windows, path : {f[x].path}, keys : {0, 1}]
  BY <1>1, <1>2
<1>4. /\ WellFormed(u) /\ u.sessions = t.sessions /\ u.windows = t.windows /\ u.panes = f
      /\ u.client = t.client
  BY <1>2, <1>3, PanesReplaced DEF IsServer
<1> HIDE DEF u
<1>5. NothingEmpty(t)
  BY DEF IsServer
<1>6. NothingEmpty(u)
  <2>1. \A x \in DOMAIN f : f[x].window = t.panes[x].window
    BY <1>2
  <2>2. \A w \in DOMAIN u.windows : PanesIn(u, w) = PanesIn(t, w)
    BY <1>2, <1>4, <2>1 DEF PanesIn
  <2> QED BY <1>4, <1>5, <2>2 DEF NothingEmpty, WindowsIn
<1>7. Touches(t, u, {}, {}, {p})
  BY <1>2, <1>4 DEF Touches, SameWindow
<1> QED BY <1>4, <1>6, <1>7 DEF Good, IsServer, f, u

\* What a command opens in a server is a new pane, and prints its number.
Opening(t, o) ==
  /\ o.ok /\ o.tree.next = t.next + 1
  /\ \E w \in 0 .. t.next : o.rows = <<[window |-> Id("@", w), pane |-> Id("%", t.next)]>>

\* new-session.
LEMMA NewSessionGood ==
  ASSUME NEW t, IsServer(t), NEW c, NEW o \in NewSessionDoes(t, c)
  PROVE  Good(t, o.tree, {}, {}, {}) /\ (o.ok => Opening(t, o)) /\ (~o.ok => o.tree = t)
<1>1. CASE Kept(c.target) \in Range(t.sessions)
  <2>1. o.tree = t /\ ~o.ok
    BY <1>1 DEF NewSessionDoes, Fails
  <2> QED BY <2>1, Stays
<1>2. CASE Kept(c.target) \notin Range(t.sessions)
  <2> DEFINE n == t.next
             f == With(t.sessions, n, Kept(c.target))
             r == [t EXCEPT !.sessions = f]
  <2>1. WellFormed(t) /\ NothingEmpty(t)
    BY DEF IsServer
  <2>2. o \in Opened(r, n, c.name, c.path, n, 0)
    BY <1>2 DEF NewSessionDoes
  <2>3. Holds(r, f, t.windows, t.panes, t.client, n, t.born)
    BY <2>1, PartsOf, Replaced
  <2> HIDE DEF r
  <2>4. n \in Nat /\ t.born \in Nat /\ n \notin DOMAIN t.sessions
        /\ n \notin DOMAIN t.windows \cup DOMAIN t.panes
    BY <2>1, FieldsOf
  <2>5. /\ DOMAIN f = DOMAIN t.sessions \cup {n} /\ f = [x \in DOMAIN f |-> f[x]]
        /\ f[n] = Kept(c.target) /\ \A x \in DOMAIN t.sessions : f[x] = t.sessions[x]
    BY <2>4 DEF With
  <2> HIDE DEF f
  <2>6. Parts(f, t.windows, t.panes, t.client, n + 1)
    <3>1. Parts(t.sessions, t.windows, t.panes, t.client, n)
      BY <2>1, PartsOf
    <3>2. \A r1, x \in DOMAIN f : f[r1] = f[x] => r1 = x
      <4>1. \A x \in DOMAIN t.sessions : t.sessions[x] # Kept(c.target)
        BY <1>2 DEF Range
      <4>2. \A r1, x \in DOMAIN t.sessions : t.sessions[r1] = t.sessions[x] => r1 = x
        BY <2>1 DEF WellFormed
      <4> QED BY <2>5, <4>1, <4>2
    <3>3. DOMAIN f \cup DOMAIN t.windows \cup DOMAIN t.panes \subseteq 0 .. ((n + 1) - 1)
      <4>1. DOMAIN t.sessions \cup DOMAIN t.windows \cup DOMAIN t.panes \subseteq 0 .. (n - 1)
        BY <2>1 DEF WellFormed
      <4> QED BY <2>4, <2>5, <4>1
    <3>4. \A w \in DOMAIN t.windows : t.windows[w] \in
            [session : DOMAIN f, index : {t.windows[w].index},
             name : {t.windows[w].name}, layout : {0, 1}]
      <4>1. \A w \in DOMAIN t.windows : t.windows[w] \in
              [session : DOMAIN t.sessions, index : {t.windows[w].index},
               name : {t.windows[w].name}, layout : {0, 1}]
        BY <2>1 DEF WellFormed
      <4> QED BY <2>5, <4>1
    <3>5. t.client \subseteq DOMAIN f
      BY <2>1, <2>5 DEF WellFormed
    <3> HIDE DEF n
    <3> QED BY <2>5, <3>1, <3>2, <3>3, <3>4, <3>5, Zenon DEF Parts
  <2>7. r.sessions = f /\ r.windows = t.windows /\ r.panes = t.panes
    BY <2>3, FieldsHeld
  <2>8. \A w \in DOMAIN t.windows : PanesIn(r, w) # {}
    BY <2>1, <2>7 DEF NothingEmpty, PanesIn
  <2>9. \A x \in DOMAIN f : WindowsIn(r, x) # {} \/ (n = n /\ x = n)
    BY <2>1, <2>5, <2>7 DEF NothingEmpty, WindowsIn
  <2>10. n \in DOMAIN f
    BY <2>5
  <2> HIDE DEF n
  <2>11. Grown(o, f, t.windows, t.panes, t.client, n, n)
    <3>1. Room(r, f, t.windows, t.panes, t.client, n, t.born, n, n)
      BY <2>3, <2>4, <2>6, <2>8, <2>9, <2>10 DEF Room
    <3> QED BY <2>2, <3>1, OpenedIs
  <2>12. Touches(t, o.tree, {}, {}, {})
    BY <2>5, <2>11 DEF Touches, SameWindow, Grown
  <2>13. Opening(t, o)
    BY <2>4, <2>11 DEF Opening, Grown, n
  <2> QED BY <2>11, <2>12, <2>13 DEF Good, Grown, Opening
<1> QED BY <1>1, <1>2

\* A window in a session, or a pane in a window.
LEMMA OpenedGood ==
  ASSUME NEW t, IsServer(t), NEW window, NEW name, NEW path, NEW s, NEW index,
         window \in DOMAIN t.windows \/ (window = t.next /\ s \in DOMAIN t.sessions),
         NEW o \in Opened(t, window, name, path, s, index)
  PROVE  Good(t, o.tree, {}, {}, {}) /\ Opening(t, o)
<1> DEFINE n == t.next
<1>1. WellFormed(t) /\ NothingEmpty(t)
  BY DEF IsServer
<1>2. n \in Nat /\ t.born \in Nat /\ n \notin DOMAIN t.windows \cup DOMAIN t.panes
  BY <1>1, FieldsOf
<1>3. Holds(t, t.sessions, t.windows, t.panes, t.client, n, t.born)
  BY <1>1, PartsOf
<1>4. Parts(t.sessions, t.windows, t.panes, t.client, n + 1)
  <2>1. Parts(t.sessions, t.windows, t.panes, t.client, n)
    BY <1>1, PartsOf
  <2>2. DOMAIN t.sessions \cup DOMAIN t.windows \cup DOMAIN t.panes \subseteq 0 .. ((n + 1) - 1)
    BY <1>1, <1>2 DEF WellFormed
  <2> HIDE DEF n
  <2> QED BY <2>1, <2>2, Zenon DEF Parts
<1>5. /\ \A w \in DOMAIN t.windows : PanesIn(t, w) # {}
      /\ \A x \in DOMAIN t.sessions : WindowsIn(t, x) # {}
  BY <1>1 DEF NothingEmpty
<1>6. Grown(o, t.sessions, t.windows, t.panes, t.client, n, window)
  <2>1. Room(t, t.sessions, t.windows, t.panes, t.client, n, t.born, window, s)
    BY <1>2, <1>3, <1>4, <1>5 DEF Room
  <2> QED BY <2>1, OpenedIs
<1>7. Touches(t, o.tree, {}, {}, {})
  BY <1>6 DEF Touches, SameWindow, Grown
<1>8. window \in 0 .. n
  BY <1>1, <1>2 DEF WellFormed
<1>9. Opening(t, o)
  BY <1>6, <1>8 DEF Opening, Grown
<1> QED BY <1>6, <1>7, <1>9 DEF Good, Grown

\* break-pane.
LEMMA BreakGood ==
  ASSUME NEW t, IsServer(t), NEW p \in DOMAIN t.panes, NEW o \in BreakDoes(t, p)
  PROVE  Good(t, o.tree, {}, {}, {p}) /\ (~o.ok => o.tree = t)
<1> DEFINE n == t.next
           v == t.panes[p].window
           new == [t.windows[v] EXCEPT !.index = FreeIndex(t, t.windows[v].session)]
           w == With(t.windows, n, new)
           q == [t.panes EXCEPT ![p] = [t.panes[p] EXCEPT !.window = n]]
           u == [t EXCEPT !.windows = w, !.panes = q, !.next = n + 1]
<1>1. CASE o \in Fails(t)
  <2>1. o.tree = t
    BY <1>1 DEF Fails
  <2> QED BY <2>1, Stays
<1>2. CASE o \in Does(u) /\ PanesIn(t, v) # {p}
  <2>1. o.tree = u /\ o.ok
    BY <1>2 DEF Does, Prints
  <2>2. WellFormed(t) /\ NothingEmpty(t)
    BY DEF IsServer
  <2>3. Holds(u, t.sessions, w, q, t.client, n + 1, t.born)
    BY <2>2 DEF Holds, WellFormed
  <2> HIDE DEF u
  <2>4. n \in Nat /\ t.born \in Nat /\ n \notin DOMAIN t.windows \cup DOMAIN t.panes
    BY <2>2, FieldsOf
  <2>5. /\ \A x \in DOMAIN t.windows : t.windows[x] \in
             [session : DOMAIN t.sessions, index : {t.windows[x].index},
              name : {t.windows[x].name}, layout : {0, 1}]
        /\ \A x \in DOMAIN t.panes :
             t.panes[x] \in [window : DOMAIN t.windows, path : {t.panes[x].path}, keys : {0, 1}]
    BY <2>2 DEF WellFormed
  <2>6. v \in DOMAIN t.windows
    BY <2>2, FieldsOf
  <2>7. /\ new \in [session : DOMAIN t.sessions, index : {new.index},
                  name : {new.name}, layout : {0, 1}]
        /\ new.session = t.windows[v].session
    <3> HIDE DEF v
    <3> QED BY <2>5, <2>6
  <2> HIDE DEF new
  <2>8. /\ DOMAIN w = DOMAIN t.windows \cup {n} /\ w = [x \in DOMAIN w |-> w[x]]
        /\ w[n] = new /\ \A x \in DOMAIN t.windows : w[x] = t.windows[x]
    BY <2>4 DEF With
  <2>9. /\ DOMAIN q = DOMAIN t.panes /\ q = [x \in DOMAIN q |-> q[x]]
        /\ \A x \in DOMAIN t.panes \ {p} : q[x] = t.panes[x]
        /\ q[p] \in [window : {n}, path : {t.panes[p].path}, keys : {0, 1}]
    BY <2>5
  <2> HIDE DEF w, q
  <2>10. \A x \in DOMAIN w : w[x] \in
           [session : DOMAIN t.sessions, index : {w[x].index}, name : {w[x].name}, layout : {0, 1}]
    BY <2>5, <2>7, <2>8
  <2>11. \A x \in DOMAIN q : q[x] \in [window : DOMAIN w, path : {q[x].path}, keys : {0, 1}]
    BY <2>5, <2>8, <2>9
  <2>12. DOMAIN t.sessions \cup DOMAIN w \cup DOMAIN q \subseteq 0 .. ((n + 1) - 1)
    <3>1. DOMAIN t.sessions \cup DOMAIN t.windows \cup DOMAIN t.panes \subseteq 0 .. (n - 1)
      BY <2>2 DEF WellFormed
    <3> QED BY <2>4, <2>8, <2>9, <3>1
  <2>13. Parts(t.sessions, w, q, t.client, n + 1)
    <3>1. Parts(t.sessions, t.windows, t.panes, t.client, n)
      BY <2>2, PartsOf
    <3> HIDE DEF n
    <3> QED BY <2>8, <2>9, <2>10, <2>11, <2>12, <3>1, Zenon DEF Parts
  <2>14. WellFormed(u)
    BY <2>3, <2>4, <2>13, WellFormedIs
  <2>15. u.sessions = t.sessions /\ u.windows = w /\ u.panes = q /\ u.client = t.client
    BY <2>3, FieldsHeld
  <2>16. NothingEmpty(u)
    <3>1. ASSUME NEW x \in DOMAIN w PROVE PanesIn(u, x) # {}
      <4>1. CASE x = n
        BY <2>9, <2>15, <4>1 DEF PanesIn
      <4>2. CASE x # n
        <5>1. x \in DOMAIN t.windows
          BY <2>8, <3>1, <4>2
        <5>2. PICK y \in PanesIn(t, x) : y # p
          <6>1. PanesIn(t, x) # {}
            BY <2>2, <5>1 DEF NothingEmpty
          <6>2. CASE x = v
            <7>1. p \in PanesIn(t, v)
              BY DEF PanesIn
            <7> QED BY <1>2, <6>2, <7>1
          <6>3. CASE x # v
            BY <6>1, <6>3 DEF PanesIn
          <6> QED BY <6>2, <6>3
        <5> QED BY <2>9, <2>15, <5>2 DEF PanesIn
      <4> QED BY <4>1, <4>2
    <3>2. ASSUME NEW x \in DOMAIN t.sessions PROVE WindowsIn(u, x) # {}
      BY <2>2, <2>8, <2>15 DEF NothingEmpty, WindowsIn
    <3> QED BY <2>15, <3>1, <3>2 DEF NothingEmpty
  <2>17. Touches(t, u, {}, {}, {p})
    BY <2>8, <2>9, <2>15 DEF Touches, SameWindow
  <2> QED BY <2>1, <2>14, <2>16, <2>17 DEF Good, IsServer
<1> QED BY <1>1, <1>2 DEF BreakDoes

\* new-window.
LEMMA NewWindowGood ==
  ASSUME NEW t, IsServer(t), NEW c, NEW o \in NewWindowDoes(t, c)
  PROVE  Good(t, o.tree, {}, {}, {}) /\ (o.ok => Opening(t, o)) /\ (~o.ok => o.tree = t)
<1>1. CASE o \in Fails(t)
  <2>1. o.tree = t /\ ~o.ok
    BY <1>1 DEF Fails
  <2> QED BY <2>1, Stays
<1>2. ASSUME NEW s \in DOMAIN t.sessions, NEW i, o \in Opened(t, t.next, c.name, c.path, s, i)
      PROVE  Good(t, o.tree, {}, {}, {}) /\ Opening(t, o)
  BY <1>2, OpenedGood
<1>3. \/ o \in Fails(t)
      \/ \E s \in DOMAIN t.sessions : \E i : o \in Opened(t, t.next, c.name, c.path, s, i)
  <2>1. SessionsOf(t, c.target) \subseteq DOMAIN t.sessions
    BY TargetsIn
  <2> QED BY <2>1 DEF NewWindowDoes
<1>4. Opening(t, o) => o.ok
  BY DEF Opening
<1> QED BY <1>1, <1>2, <1>3, <1>4

\* rename-session.
LEMMA RenameSessionGood ==
  ASSUME NEW t, IsServer(t), NEW c, NEW o \in RenameSessionDoes(t, c)
  PROVE  Good(t, o.tree, SessionsOf(t, c.target), {}, {}) /\ (~o.ok => o.tree = t)
<1> DEFINE S == SessionsOf(t, c.target)
<1>1. CASE o \in Fails(t) \cup Does(t)
  <2>1. o.tree = t
    BY <1>1 DEF Fails, Does, Prints
  <2> QED BY <2>1, Stays
<1>2. ASSUME NEW s \in S, Kept(c.name) \notin Range(t.sessions),
             o \in Does([t EXCEPT !.sessions[s] = Kept(c.name)])
      PROVE  Good(t, o.tree, S, {}, {}) /\ o.ok
  <2>1. o.tree = [t EXCEPT !.sessions[s] = Kept(c.name)] /\ o.ok
    BY <1>2 DEF Does, Prints
  <2>2. s \in DOMAIN t.sessions
    BY TargetsIn
  <2>3. Good(t, o.tree, {s}, {}, {})
    <3>1. Good(t, [t EXCEPT !.sessions[s] = Kept(c.name)], {s}, {}, {})
      BY <1>2, <2>2, RenameGood, Zenon
    <3> QED BY <2>1, <3>1, Zenon
  <2> QED BY <2>1, <2>3 DEF Good, Touches
<1> QED BY <1>1, <1>2, Zenon DEF RenameSessionDoes

(***************************************************************************)
(* What a command may change, by what it does and what it is aimed at      *)
(***************************************************************************)
SessionsHit(t, c) ==
  IF c.op \in {"rename-session", "attach-session", "switch-client"}
  THEN SessionsOf(t, c.target) ELSE {}

WindowsHit(t, c) ==
  CASE c.op \in {"rename-window", "kill-window"} -> WindowsOf(t, c.target)
    [] c.op = "swap-window" -> WindowsOf(t, c.target) \cup WindowsOf(t, c.other)
    [] c.op = "move-window" -> WindowsOf(t, c.other)
    [] c.op = "kill-session" -> UNION {WindowsIn(t, s) : s \in SessionsOf(t, c.target)}
    [] OTHER -> {}

PanesHit(t, c) ==
  CASE c.op \in {"kill-pane", "break-pane", "send-keys"} -> PanesOf(t, c.target)
    [] c.op = "join-pane" -> PanesOf(t, c.other)
    [] OTHER -> {}

Hits(t, u, c) == Good(t, u, SessionsHit(t, c), WindowsHit(t, c), PanesHit(t, c))

\* Commands that print what they open, and commands that only look.
Openers == {"new-session", "new-window", "split-window"}
Looks == {"list-sessions", "list-windows", "list-windows-a", "list-panes", "list-panes-a",
          "list-clients", "display-message", "show-option", "has-session", "capture-pane"}

Proper(t, c, o) ==
  /\ Hits(t, o.tree, c)
  /\ ~o.ok => o.tree = t
  /\ c.op \in Openers /\ o.ok => Opening(t, o)
  /\ c.op \in Looks => o.tree = t

\* What leaves more alone leaves less alone.
LEMMA Wider ==
  ASSUME NEW t, NEW u, NEW S, NEW W, NEW P, Good(t, u, S, W, P),
         NEW T, NEW V, NEW Q, S \subseteq T, W \subseteq V, P \subseteq Q
  PROVE  Good(t, u, T, V, Q)
BY DEF Good, Touches

\* A command that leaves the server as it is.
LEMMA SameProper ==
  ASSUME NEW t, IsServer(t), NEW c, NEW o, o.tree = t, ~o.ok \/ c.op \notin Openers
  PROVE  Proper(t, c, o)
BY Stays DEF Proper, Hits

\* A command that does something.
Within(t, c, S, W, P) ==
  S \subseteq SessionsHit(t, c) /\ W \subseteq WindowsHit(t, c) /\ P \subseteq PanesHit(t, c)

\* ... to no more than what it is aimed at.
LEMMA DoesProper ==
  ASSUME NEW t, IsServer(t), NEW c, c.op \notin Openers \cup Looks, NEW o, o.ok,
         NEW S, NEW W, NEW P, Good(t, o.tree, S, W, P), Within(t, c, S, W, P)
  PROVE  Proper(t, c, o)
BY Wider DEF Proper, Hits, Within

\* Commands that print leave the server as it is.
LEMMA LookSame ==
  ASSUME NEW t, NEW c, c.op \in Looks \cup {"run-shell"}, NEW o \in Outcomes(t, c)
  PROVE  o.tree = t
<1>1. CASE c.op = "list-sessions"
  BY <1>1 DEF Outcomes, Prints, Does, Fails, DoesIf
<1>2. CASE c.op = "list-windows"
  <2>1. PICK s \in SessionsOf(t, c.target) :
          o \in Prints(t, "window", WindowRows(t, WindowsIn(t, s)))
    BY <1>2 DEF Outcomes
  <2> QED BY <2>1 DEF Prints
<1>3. CASE c.op = "list-windows-a"
  BY <1>3 DEF Outcomes, Prints, Does, Fails, DoesIf
<1>4. CASE c.op = "list-panes"
  <2>1. PICK w \in WindowsOf(t, c.target) : o \in Prints(t, "pane", PaneRows(t, PanesIn(t, w)))
    BY <1>4 DEF Outcomes
  <2> QED BY <2>1 DEF Prints
<1>5. CASE c.op = "list-panes-a"
  BY <1>5 DEF Outcomes, Prints, Does, Fails, DoesIf
<1>6. CASE c.op = "list-clients"
  BY <1>6 DEF Outcomes, Prints, Does, Fails, DoesIf
<1>7. CASE c.op = "display-message"
  BY <1>7 DEF Outcomes, Prints, Does, Fails, DoesIf
<1>8. CASE c.op = "show-option"
  BY <1>8 DEF Outcomes, Prints, Does, Fails, DoesIf
<1>9. CASE c.op = "has-session"
  BY <1>9 DEF Outcomes, Prints, Does, Fails, DoesIf
<1>10. CASE c.op = "capture-pane"
  BY <1>10 DEF Outcomes, Prints, Does, Fails, DoesIf
<1>11. CASE c.op = "run-shell"
  BY <1>11 DEF Outcomes, Prints, Does, Fails, DoesIf
<1> QED BY <1>1, <1>2, <1>3, <1>4, <1>5, <1>6, <1>7, <1>8, <1>9, <1>10, <1>11 DEF Looks

\* The commands, one kind after the other.
LEMMA LookProper ==
  ASSUME NEW t, IsServer(t), NEW c, c.op \in Looks \cup {"run-shell"}, NEW o \in Outcomes(t, c)
  PROVE  Proper(t, c, o)
<1>1. o.tree = t
  BY LookSame
<1> QED BY <1>1, SameProper DEF Looks, Openers

\* new-session, new-window, split-window.
LEMMA OpenerProper ==
  ASSUME NEW t, IsServer(t), NEW c, c.op \in Openers, NEW o \in Outcomes(t, c)
  PROVE  Proper(t, c, o)
<1>1. Good(t, o.tree, {}, {}, {}) /\ (o.ok => Opening(t, o)) /\ (~o.ok => o.tree = t)
  <2>1. CASE c.op = "new-session"
    <3>1. o \in NewSessionDoes(t, c)
      BY <2>1 DEF Outcomes
    <3> QED BY <3>1, NewSessionGood
  <2>2. CASE c.op = "new-window"
    <3>1. o \in NewWindowDoes(t, c)
      BY <2>2 DEF Outcomes
    <3> QED BY <3>1, NewWindowGood
  <2>3. CASE c.op = "split-window"
    <3>1. PICK p \in PanesOf(t, c.target) :
            o \in Opened(t, t.panes[p].window, <<>>, c.path, 0, 0)
      BY <2>3 DEF Outcomes
    <3>2. t.panes[p].window \in DOMAIN t.windows
      BY TargetsIn, FieldsOf DEF IsServer
    <3>3. Good(t, o.tree, {}, {}, {}) /\ Opening(t, o)
      BY <3>1, <3>2, OpenedGood
    <3> QED BY <3>3 DEF Opening
  <2> QED BY <2>1, <2>2, <2>3 DEF Openers
<1>2. Hits(t, o.tree, c)
  BY <1>1, Wider DEF Hits
<1> QED BY <1>1, <1>2 DEF Proper, Looks, Openers

\* The commands for sessions.
LEMMA SessionProper ==
  ASSUME NEW t, IsServer(t), NEW c, NEW o \in Outcomes(t, c),
         c.op \in {"rename-session", "kill-session", "attach-session", "switch-client",
                   "detach-client"}
  PROVE  Proper(t, c, o)
<1> DEFINE S == SessionsOf(t, c.target)
<1>0. S \subseteq DOMAIN t.sessions /\ c.op \notin Openers \cup Looks
  BY TargetsIn DEF Openers, Looks
<1>1. CASE c.op = "rename-session"
  <2>1. o \in RenameSessionDoes(t, c)
    BY <1>1 DEF Outcomes
  <2>2. Good(t, o.tree, S, {}, {}) /\ (~o.ok => o.tree = t)
    BY <2>1, RenameSessionGood
  <2>3. S = SessionsHit(t, c)
    BY <1>1 DEF SessionsHit
  <2>4. Hits(t, o.tree, c)
    BY <2>2, <2>3, Wider DEF Hits
  <2> QED BY <1>0, <2>2, <2>4 DEF Proper
<1>2. CASE c.op = "kill-session"
  <2>1. PICK s \in S : o \in Does(Keeping(t, {p \in DOMAIN t.panes :
                                              t.windows[t.panes[p].window].session # s}))
    BY <1>2 DEF Outcomes, KillSessionDoes
  <2>2. o.ok /\ o.tree = Keeping(t, {p \in DOMAIN t.panes :
                                     t.windows[t.panes[p].window].session # s})
    BY <2>1 DEF Does, Prints
  <2>3. Good(t, o.tree, {}, WindowsIn(t, s), {})
    BY <1>0, <2>2, KillGood
  <2>4. Within(t, c, {}, WindowsIn(t, s), {})
    BY <1>2 DEF WindowsHit, Within
  <2>5. o.ok
    BY <2>2
  <2> QED BY <1>0, <2>3, <2>4, <2>5, DoesProper
<1>3. CASE c.op \in {"attach-session", "switch-client"} /\ \E s \in S : o \in ClientDoes(t, {s})
  <2>1. PICK s \in S : o \in ClientDoes(t, {s})
    BY <1>3
  <2>2. o.ok /\ o.tree = [t EXCEPT !.client = {s}]
    BY <2>1 DEF ClientDoes, Does, Prints
  <2>3. Good(t, [t EXCEPT !.client = {s}], {s}, {}, {})
    <3>1. {s} \subseteq DOMAIN t.sessions /\ {s} \subseteq t.client \cup {s}
      BY <1>0
    <3> QED BY <3>1, ClientGood, Zenon
  <2>4. Within(t, c, {s}, {}, {})
    BY <1>3 DEF SessionsHit, Within
  <2>5. Good(t, o.tree, {s}, {}, {})
    BY <2>2, <2>3, Zenon
  <2> QED BY <1>0, <2>2, <2>4, <2>5, DoesProper
<1>4. CASE c.op = "detach-client"
  <2>1. o \in ClientDoes(t, {})
    BY <1>4 DEF Outcomes
  <2>2. o.ok /\ o.tree = [t EXCEPT !.client = {}]
    BY <2>1 DEF ClientDoes, Does, Prints
  <2>3. Good(t, [t EXCEPT !.client = {}], {}, {}, {})
    <3>1. {} \subseteq DOMAIN t.sessions /\ {} \subseteq t.client \cup {}
      OBVIOUS
    <3> QED BY <3>1, ClientGood, Zenon
  <2>4. Good(t, o.tree, {}, {}, {})
    BY <2>2, <2>3, Zenon
  <2>5. Within(t, c, {}, {}, {})
    BY DEF Within
  <2> QED BY <1>0, <2>2, <2>4, <2>5, DoesProper
<1>5. CASE o \in Fails(t)
  <2>1. o.tree = t
    BY <1>5 DEF Fails
  <2> QED BY <1>0, <2>1, SameProper
<1>6. c.op \in {"attach-session", "switch-client"} =>
        o \in Fails(t) \/ \E s \in S : o \in ClientDoes(t, {s})
  <2>1. CASE c.op = "attach-session"
    BY <2>1 DEF Outcomes
  <2>2. CASE c.op = "switch-client"
    BY <2>2 DEF Outcomes, SwitchDoes
  <2> QED BY <2>1, <2>2
<1> QED BY <1>1, <1>2, <1>3, <1>4, <1>5, <1>6

\* The commands for windows.
LEMMA WindowProper ==
  ASSUME NEW t, IsServer(t), NEW c, NEW o \in Outcomes(t, c),
         c.op \in {"rename-window", "kill-window", "swap-window", "move-window",
                   "rotate-window", "select-layout", "resize-pane"}
  PROVE  Proper(t, c, o)
<1> DEFINE W == WindowsOf(t, c.target)
<1>0. W \subseteq DOMAIN t.windows /\ c.op \notin Openers \cup Looks
  BY TargetsIn DEF Openers, Looks
<1> HIDE DEF W
<1>1. CASE c.op = "rename-window"
  <2>1. PICK w \in W : o \in LabelDoes(t, w, c.name)
    BY <1>1 DEF Outcomes, W
  <2>2. o.ok /\ o.tree = [t EXCEPT !.windows[w].name = c.name]
    BY <2>1 DEF LabelDoes, Does, Prints
  <2>3. Good(t, [t EXCEPT !.windows[w].name = c.name], {}, {w}, {})
    BY <1>0, LabelGood, Zenon
  <2>4. Good(t, o.tree, {}, {w}, {}) /\ o.ok
    BY <2>2, <2>3, Zenon
  <2>5. Within(t, c, {}, {w}, {})
    BY <1>1 DEF Within, WindowsHit, W
  <2> QED BY <1>0, <2>4, <2>5, DoesProper
<1>2. CASE c.op = "kill-window"
  <2>1. PICK w \in W : o \in Does(Keeping(t, DOMAIN t.panes \ PanesIn(t, w)))
    BY <1>2 DEF Outcomes, W
  <2>2. o.ok /\ o.tree = Keeping(t, DOMAIN t.panes \ PanesIn(t, w))
    BY <2>1 DEF Does, Prints
  <2>3. Good(t, o.tree, {}, {w}, {})
    BY <1>0, <2>2, KillGood
  <2>4. Within(t, c, {}, {w}, {})
    BY <1>2 DEF Within, WindowsHit, W
  <2> QED BY <1>0, <2>2, <2>3, <2>4, DoesProper
<1>3. CASE c.op = "swap-window"
  <2>1. PICK v \in WindowsOf(t, c.other), w \in W : o \in SwapDoes(t, v, w)
    BY <1>3 DEF Outcomes, W
  <2>2. v \in DOMAIN t.windows
    BY TargetsIn
  <2>3. Good(t, o.tree, {}, {v, w}, {}) /\ o.ok
    BY <1>0, <2>1, <2>2, SwapGood
  <2>4. Within(t, c, {}, {v, w}, {})
    BY <1>3 DEF Within, WindowsHit, W
  <2> QED BY <1>0, <2>3, <2>4, DoesProper
<1>4. CASE c.op = "move-window"
  <2>1. PICK w \in WindowsOf(t, c.other), s \in SessionsOf(t, c.target) : o \in MoveDoes(t, w, s)
    BY <1>4 DEF Outcomes
  <2>2. w \in DOMAIN t.windows /\ s \in DOMAIN t.sessions
    BY TargetsIn
  <2>3. Good(t, o.tree, {}, {w}, {}) /\ o.ok
    BY <2>1, <2>2, MoveGood
  <2>4. Within(t, c, {}, {w}, {})
    BY <1>4 DEF Within, WindowsHit
  <2> QED BY <1>0, <2>3, <2>4, DoesProper
<1>5. ASSUME NEW w \in DOMAIN t.windows, o \in LayoutDoes(t, w)
      PROVE  Proper(t, c, o)
  <2>1. o.ok /\ o.tree = [t EXCEPT !.windows[w].layout = 1]
    BY <1>5 DEF LayoutDoes, Does, Prints
  <2>2. Good(t, [t EXCEPT !.windows[w].layout = 1], {}, {}, {})
    <3>1. 1 \in {0, 1}
      OBVIOUS
    <3> QED BY <3>1, LabelGood, Zenon
  <2>3. Good(t, o.tree, {}, {}, {}) /\ o.ok
    BY <2>1, <2>2, Zenon
  <2>4. Within(t, c, {}, {}, {})
    BY DEF Within
  <2> QED BY <1>0, <2>3, <2>4, DoesProper
<1>6. CASE c.op \in {"rotate-window", "select-layout"}
  <2>1. PICK w \in W : o \in LayoutDoes(t, w)
    <3>1. CASE c.op = "rotate-window"
      BY <3>1 DEF Outcomes, W
    <3>2. CASE c.op = "select-layout"
      BY <3>2 DEF Outcomes, W
    <3> QED BY <1>6, <3>1, <3>2, Zenon
  <2> QED BY <1>0, <1>5, <2>1, Zenon
<1>7. CASE c.op = "resize-pane"
  <2>1. PICK p \in PanesOf(t, c.target) :
          o \in LayoutDoes(t, t.panes[p].window)
    BY <1>7 DEF Outcomes
  <2>2. t.panes[p].window \in DOMAIN t.windows
    BY TargetsIn, FieldsOf DEF IsServer
  <2> QED BY <1>5, <2>1, <2>2, Zenon
<1> QED BY <1>1, <1>2, <1>3, <1>4, <1>6, <1>7

\* The commands for panes.
LEMMA PaneProper ==
  ASSUME NEW t, IsServer(t), NEW c, NEW o \in Outcomes(t, c),
         c.op \in {"kill-pane", "break-pane", "join-pane", "send-keys"}
  PROVE  Proper(t, c, o)
<1> DEFINE P == PanesOf(t, c.target)
<1>0. P \subseteq DOMAIN t.panes /\ c.op \notin Openers \cup Looks
  BY TargetsIn DEF Openers, Looks
<1> HIDE DEF P
<1>1. CASE c.op = "kill-pane"
  <2>1. PICK p \in P : o \in Does(Keeping(t, DOMAIN t.panes \ {p}))
    BY <1>1 DEF Outcomes, P
  <2>2. o.ok /\ o.tree = Keeping(t, DOMAIN t.panes \ {p})
    BY <2>1 DEF Does, Prints
  <2>3. Good(t, o.tree, {}, {}, {p})
    BY <1>0, <2>2, KillGood
  <2>4. Within(t, c, {}, {}, {p})
    BY <1>1 DEF Within, PanesHit, P
  <2> QED BY <1>0, <2>2, <2>3, <2>4, DoesProper
<1>2. CASE c.op = "break-pane"
  <2>1. PICK p \in P : o \in BreakDoes(t, p)
    BY <1>2 DEF Outcomes, P
  <2>2. Good(t, o.tree, {}, {}, {p}) /\ (~o.ok => o.tree = t)
    BY <1>0, <2>1, BreakGood
  <2>3. Within(t, c, {}, {}, {p})
    BY <1>2 DEF Within, PanesHit, P
  <2>4. Hits(t, o.tree, c)
    BY <2>2, <2>3, Wider DEF Hits, Within
  <2> QED BY <1>0, <2>2, <2>4 DEF Proper
<1>3. CASE c.op = "join-pane"
  <2>1. PICK p \in PanesOf(t, c.other), w \in WindowsOf(t, c.target) : o \in JoinDoes(t, p, w)
    BY <1>3 DEF Outcomes
  <2>2. p \in DOMAIN t.panes /\ w \in DOMAIN t.windows
    BY TargetsIn
  <2>3. Good(t, o.tree, {}, {}, {p}) /\ (~o.ok => o.tree = t)
    <3>1. o \in JoinDoes(t, p, w)
      BY <2>1
    <3>2. Good(t, o.tree, {}, {}, {p})
      BY <2>2, <3>1, JoinGood
    <3>3. ~o.ok => o.tree = t
      BY <3>1 DEF JoinDoes, Does, Fails, Prints
    <3> QED BY <3>2, <3>3
  <2>4. Within(t, c, {}, {}, {p})
    BY <1>3 DEF Within, PanesHit
  <2>5. Hits(t, o.tree, c)
    BY <2>3, <2>4, Wider DEF Hits, Within
  <2> QED BY <1>0, <2>3, <2>5 DEF Proper
<1>4. CASE c.op = "send-keys"
  <2>1. PICK p \in P : o \in KeysDo(t, p)
    BY <1>4 DEF Outcomes, P
  <2>2. o.ok /\ o.tree = [t EXCEPT !.panes[p].keys = 1]
    BY <2>1 DEF KeysDo, Does, Prints
  <2>3. Good(t, [t EXCEPT !.panes[p].keys = 1], {}, {}, {p})
    BY <1>0, KeysGood, Zenon
  <2>4. Good(t, o.tree, {}, {}, {p}) /\ o.ok
    BY <2>2, <2>3, Zenon
  <2>5. Within(t, c, {}, {}, {p})
    BY <1>4 DEF Within, PanesHit, P
  <2> QED BY <1>0, <2>4, <2>5, DoesProper
<1> QED BY <1>1, <1>2, <1>3, <1>4

Ops == Openers \cup Looks
         \cup {"run-shell", "rename-session", "kill-session", "attach-session", "switch-client",
               "detach-client", "rename-window", "kill-window", "swap-window", "move-window",
               "rotate-window", "select-layout", "resize-pane", "kill-pane", "break-pane",
               "join-pane", "send-keys"}

\* There is no other command.
LEMMA NoOutcomes ==
  ASSUME NEW t, NEW c, c.op \notin Ops
  PROVE  Outcomes(t, c) = {}
<1>1. /\ c.op # "new-session" /\ c.op # "new-window" /\ c.op # "split-window"
      /\ c.op # "list-sessions" /\ c.op # "list-windows" /\ c.op # "list-windows-a"
      /\ c.op # "list-panes" /\ c.op # "list-panes-a" /\ c.op # "list-clients"
      /\ c.op # "display-message" /\ c.op # "show-option" /\ c.op # "has-session"
      /\ c.op # "capture-pane" /\ c.op # "run-shell" /\ c.op # "rename-session"
      /\ c.op # "kill-session" /\ c.op # "attach-session" /\ c.op # "switch-client"
      /\ c.op # "detach-client" /\ c.op # "rename-window" /\ c.op # "kill-window"
      /\ c.op # "swap-window" /\ c.op # "move-window" /\ c.op # "rotate-window"
      /\ c.op # "select-layout" /\ c.op # "resize-pane" /\ c.op # "kill-pane"
      /\ c.op # "break-pane" /\ c.op # "join-pane" /\ c.op # "send-keys"
  BY DEF Ops, Openers, Looks
<1> SUFFICES ASSUME NEW o \in Outcomes(t, c) PROVE FALSE
  OBVIOUS
<1> QED BY <1>1, SMTT(30) DEF Outcomes

\* What any command does, with or without its target.
THEOREM EffectsProper ==
  ASSUME NEW t, IsServer(t), NEW c, NEW o \in Effects(t, c)
  PROVE  Proper(t, c, o) /\ (o.ok => o.tree.next <= MaxIds)
<1>1. ASSUME o \in Outcomes(t, c), c.op \in Ops
      PROVE  Proper(t, c, o)
  <2>1. \/ c.op \in Openers \/ c.op \in Looks \cup {"run-shell"}
        \/ c.op \in {"rename-session", "kill-session", "attach-session", "switch-client",
                     "detach-client"}
        \/ c.op \in {"rename-window", "kill-window", "swap-window", "move-window",
                     "rotate-window", "select-layout", "resize-pane"}
        \/ c.op \in {"kill-pane", "break-pane", "join-pane", "send-keys"}
    BY <1>1 DEF Ops
  <2>2. o \in Outcomes(t, c)
    BY <1>1
  <2>3. c.op \in Openers => Proper(t, c, o)
    BY <2>2, OpenerProper, Zenon
  <2>4. c.op \in Looks \cup {"run-shell"} => Proper(t, c, o)
    BY <2>2, LookProper, Zenon
  <2>5. c.op \in {"rename-session", "kill-session", "attach-session", "switch-client",
                  "detach-client"} => Proper(t, c, o)
    BY <2>2, SessionProper, Zenon
  <2>6. c.op \in {"rename-window", "kill-window", "swap-window", "move-window",
                  "rotate-window", "select-layout", "resize-pane"} => Proper(t, c, o)
    BY <2>2, WindowProper, Zenon
  <2>7. c.op \in {"kill-pane", "break-pane", "join-pane", "send-keys"} => Proper(t, c, o)
    BY <2>2, PaneProper, Zenon
  <2> QED BY <1>1, <2>1, <2>3, <2>4, <2>5, <2>6, <2>7
<1>2. ASSUME o \in Fails(t)
      PROVE  Proper(t, c, o)
  <2>1. o.tree = t /\ ~o.ok
    BY <1>2 DEF Fails
  <2> QED BY <2>1, SameProper
<1>3. c.op \notin Ops => Outcomes(t, c) = {}
  BY NoOutcomes
<1>4. o \in Fails(t) \/ (o \in Outcomes(t, c) /\ o.tree.next <= MaxIds)
  BY DEF Effects
<1>5. o \in Fails(t) => ~o.ok
  BY DEF Fails
<1> QED BY <1>1, <1>2, <1>3, <1>4, <1>5

(***************************************************************************)
(* What is printed: records of texts and one-digit numbers                 *)
(***************************************************************************)
\* What is assumed of the characters, for the texts that are printed.
LEMMA Letters ==
  /\ MaxIds \in 0 .. 9 /\ Signs \subseteq Characters /\ Tty \in Text
  /\ <<>> \in Text /\ <<" ">> \in Text /\ <<"s", "h">> \in Text /\ <<"x">> \in Text
  /\ \A sigil \in Sigils : sigil \in Characters
  /\ "_" \in Characters
<1>1. MaxIds \in 0 .. 9 /\ Signs \subseteq Characters /\ " " \in Characters
  BY CommandsAssumption
<1>2. /\ "@" \in Characters /\ "%" \in Characters /\ "$" \in Characters
      /\ "_" \in Characters /\ "s" \in Characters /\ "h" \in Characters /\ "x" \in Characters
  BY <1>1 DEF Signs
<1>3. \A sigil \in Sigils : sigil \in Characters
  BY <1>2 DEF Sigils
<1>4. \A c \in Characters : <<c>> \in Text
  BY DEF Text
<1>5. <<>> \in Text /\ <<"s", "h">> \in Text
  <2>1. <<"s", "h">> = <<"s">> \o <<"h">>
    OBVIOUS
  <2>2. <<"s">> \in Text /\ <<"h">> \in Text
    BY <1>2, <1>4
  <2> QED BY <2>1, <2>2, EmptySeq, ConcatProperties DEF Text
<1>6. <<" ">> \in Text /\ <<"x">> \in Text /\ Tty \in Text
  BY <1>1, <1>2, <1>4, CommandsAssumption
<1> QED BY <1>1, <1>2, <1>3, <1>5, <1>6, Zenon

\* Ids are texts.
LEMMA IdInText ==
  ASSUME NEW sigil \in Sigils, NEW n \in 0 .. 9
  PROVE  Id(sigil, n) \in Text
<1>1. <<sigil>> \in Text
  <2>1. sigil \in Characters
    BY Letters
  <2> QED BY <2>1 DEF Text
<1>2. Digit(n) \in Text
  BY Letters, DigitText
<1> QED BY <1>1, <1>2, ConcatProperties DEF Id, Text

\* Numbers below MaxIds, and how many there are, have one digit.
LEMMA FewNumbers ==
  ASSUME NEW n \in 0 .. 9, NEW S, S \subseteq 0 .. n - 1
  PROVE  /\ IsFiniteSet(S) /\ Cardinality(S) \in 0 .. 9
         /\ \A x \in S : x \in 0 .. 9
<1>1. IsFiniteSet(0 .. n - 1) /\ Cardinality(0 .. n - 1) = n
  <2>1. 0 \in Int /\ n - 1 \in Int /\ (IF 0 > n - 1 THEN 0 ELSE (n - 1) - 0 + 1) = n
    OBVIOUS
  <2> QED BY <2>1, FS_Interval
<1>2. IsFiniteSet(S) /\ Cardinality(S) <= n
  BY <1>1, FS_Subset
<1>3. Cardinality(S) \in Nat
  BY <1>2, FS_CardinalityType
<1> QED BY <1>2, <1>3

\* SetToSeq lists as many elements as there are.
LEMMA Ordered ==
  ASSUME NEW S, IsFiniteSet(S)
  PROVE  SetToSeq(S) \in [1 .. Cardinality(S) -> S] /\ Cardinality(S) \in Nat
<1> DEFINE n == Cardinality(S)
<1>1. n \in Nat /\ ExistsBijection(1 .. n, S)
  BY FS_CardinalityType
<1> HIDE DEF n
<1>2. \E f \in [1 .. n -> S] : IsInjective(f)
  BY <1>1 DEF ExistsBijection, Bijection, Injection, Surjection, IsInjective
<1> QED BY <1>1, <1>2 DEF SetToSeq, n

\* A server whose texts and numbers can be printed.
Lettered(t) == IsServer(t) /\ IsLettered(t)

\* Of a server's sessions, windows or panes there are at most nine.
LEMMA FewOf ==
  ASSUME NEW t, Lettered(t), NEW S,
         S \subseteq DOMAIN t.sessions \/ S \subseteq DOMAIN t.windows \/ S \subseteq DOMAIN t.panes
  PROVE  /\ IsFiniteSet(S) /\ Cardinality(S) \in 0 .. 9
         /\ \A x \in S : x \in 0 .. 9
<1>1. WellFormed(t) /\ IsLettered(t)
  BY DEF Lettered, IsServer
<1>2. t.next \in 0 .. 9
  <2>1. t.next <= MaxIds
    BY <1>1 DEF IsLettered
  <2>2. t.next \in Nat
    BY <1>1, FieldsOf
  <2>3. MaxIds \in 0 .. 9
    BY CommandsAssumption
  <2> QED BY <2>1, <2>2, <2>3
<1>3. DOMAIN t.sessions \cup DOMAIN t.windows \cup DOMAIN t.panes \subseteq 0 .. t.next - 1
  BY <1>1 DEF WellFormed
<1> DEFINE n == t.next
<1>4. S \subseteq 0 .. n - 1
  BY <1>3
<1>5. n \in 0 .. 9
  BY <1>2
<1> HIDE DEF n
<1> QED BY <1>4, <1>5, FewNumbers

\* The fields of such a server.
LEMMA FieldsLettered ==
  ASSUME NEW t, Lettered(t)
  PROVE  /\ t.next \in 0 .. 9
         /\ \A s \in DOMAIN t.sessions : t.sessions[s] \in Text
         /\ \A w \in DOMAIN t.windows :
              t.windows[w].name \in Text /\ t.windows[w].index \in 0 .. 9
              /\ t.windows[w].session \in DOMAIN t.sessions
         /\ \A p \in DOMAIN t.panes :
              t.panes[p].path \in Text /\ t.panes[p].window \in DOMAIN t.windows
         /\ t.client \subseteq DOMAIN t.sessions /\ t.born \in Nat
<1>1. WellFormed(t) /\ IsLettered(t)
  BY DEF Lettered, IsServer
<1>2. t.next \in 0 .. 9
  <2>1. t.next <= MaxIds
    BY <1>1 DEF IsLettered
  <2>2. t.next \in Nat
    BY <1>1, FieldsOf
  <2>3. MaxIds \in 0 .. 9
    BY CommandsAssumption
  <2> QED BY <2>1, <2>2, <2>3
<1>3. t.client \subseteq DOMAIN t.sessions /\ t.born \in Nat
  BY <1>1, FieldsOf DEF WellFormed
<1>4. /\ \A s \in DOMAIN t.sessions : t.sessions[s] \in Text
      /\ \A w \in DOMAIN t.windows : t.windows[w].name \in Text /\ t.windows[w].index \in 0 .. 9
      /\ \A p \in DOMAIN t.panes : t.panes[p].path \in Text
  BY <1>1 DEF IsLettered
<1>5. /\ \A w \in DOMAIN t.windows : t.windows[w].session \in DOMAIN t.sessions
      /\ \A p \in DOMAIN t.panes : t.panes[p].window \in DOMAIN t.windows
  BY <1>1, FieldsOf
<1>6. \A w \in DOMAIN t.windows :
        t.windows[w].name \in Text /\ t.windows[w].index \in 0 .. 9
        /\ t.windows[w].session \in DOMAIN t.sessions
  BY <1>4, <1>5, Zenon
<1>7. \A p \in DOMAIN t.panes :
        t.panes[p].path \in Text /\ t.panes[p].window \in DOMAIN t.windows
  BY <1>4, <1>5, Zenon
<1> QED BY <1>2, <1>3, <1>4, <1>6, <1>7, Zenon

\* What is listed are records of texts and digits: sessions, ...
LEMMA SessionRowsIn ==
  ASSUME NEW t, Lettered(t)
  PROVE  SessionRows(t) \in Seq(Records("session"))
<1> DEFINE S == DOMAIN t.sessions
           order == SetToSeq(S)
           row(s) == [id |-> Id("$", s), name |-> t.sessions[s],
                      windows |-> Cardinality(WindowsIn(t, s)), attached |-> s \in t.client,
                      last_activity |-> 5]
           n == Cardinality(S)
<1>1. \A s \in S : row(s) \in Records("session")
  <2> TAKE s \in S
  <2>1. Id("$", s) \in Text /\ t.sessions[s] \in Text
    <3>1. s \in 0 .. 9
      BY FewOf
    <3>2. "$" \in Sigils
      BY DEF Sigils
    <3> QED BY <3>1, <3>2, FieldsLettered, IdInText
  <2>2. Cardinality(WindowsIn(t, s)) \in 0 .. 9
    <3>1. WindowsIn(t, s) \subseteq DOMAIN t.windows
      BY DEF WindowsIn
    <3> QED BY <3>1, FewOf
  <2>3. Records("session") = [id : Text, name : Text, windows : 0 .. 9, attached : BOOLEAN,
                              last_activity : 0 .. 9]
    BY DEF Records
  <2>4. (s \in t.client) \in BOOLEAN /\ 5 \in 0 .. 9
    OBVIOUS
  <2> QED BY <2>1, <2>2, <2>3, <2>4
<1>2. order \in [1 .. n -> S] /\ n \in Nat
  BY FewOf, Ordered
<1>3. SessionRows(t) = [i \in DOMAIN order |-> row(order[i])]
  BY DEF SessionRows, Each
<1> HIDE DEF row, n, S, order
<1>4. SessionRows(t) \in [1 .. n -> Records("session")]
  BY <1>1, <1>2, <1>3
<1> QED BY <1>2, <1>4, IsSeq

\* ... windows, ...
LEMMA WindowRowsIn ==
  ASSUME NEW t, Lettered(t), NEW S, S \subseteq DOMAIN t.windows
  PROVE  WindowRows(t, S) \in Seq(Records("window"))
<1> DEFINE order == SetToSeq(S)
           row(w) == [session |-> t.sessions[t.windows[w].session], index |-> t.windows[w].index,
                      id |-> Id("@", w), name |-> t.windows[w].name,
                      active |-> w = Max(WindowsIn(t, t.windows[w].session)),
                      panes |-> Cardinality(PanesIn(t, w))]
           n == Cardinality(S)
<1>1. \A w \in S : row(w) \in Records("window")
  <2> TAKE w \in S
  <2>1. Id("@", w) \in Text /\ t.sessions[t.windows[w].session] \in Text
    BY FieldsLettered, FewOf, IdInText DEF Sigils
  <2>2. Cardinality(PanesIn(t, w)) \in 0 .. 9
    <3>1. PanesIn(t, w) \subseteq DOMAIN t.panes
      BY DEF PanesIn
    <3> QED BY <3>1, FewOf
  <2>3. t.windows[w].name \in Text /\ t.windows[w].index \in 0 .. 9
    BY FieldsLettered
  <2>4. Records("window") = [session : Text, index : 0 .. 9, id : Text, name : Text,
                             active : BOOLEAN, panes : 0 .. 9]
    BY DEF Records
  <2> QED BY <2>1, <2>2, <2>3, <2>4
<1>2. order \in [1 .. n -> S] /\ n \in Nat
  BY FewOf, Ordered
<1>3. WindowRows(t, S) = [i \in DOMAIN order |-> row(order[i])]
  BY DEF WindowRows, Each
<1> HIDE DEF row, n, order
<1>4. WindowRows(t, S) \in [1 .. n -> Records("window")]
  BY <1>1, <1>2, <1>3
<1> QED BY <1>2, <1>4, IsSeq

\* ... panes, ...
LEMMA PaneRowsIn ==
  ASSUME NEW t, Lettered(t), NEW S, S \subseteq DOMAIN t.panes
  PROVE  PaneRows(t, S) \in Seq(Records("pane"))
<1> DEFINE order == SetToSeq(S)
           before(p) == {q \in PanesIn(t, t.panes[p].window) : q < p}
           row(p) == [window |-> Id("@", t.panes[p].window), index |-> Cardinality(before(p)),
                      id |-> Id("%", p), command |-> <<"s", "h">>, path |-> t.panes[p].path,
                      active |-> p = Max(PanesIn(t, t.panes[p].window))]
           n == Cardinality(S)
<1>1. \A p \in S : row(p) \in Records("pane")
  <2> TAKE p \in S
  <2>0. p \in 0 .. 9 /\ t.panes[p].window \in 0 .. 9
    BY FieldsLettered, FewOf
  <2>1. Id("%", p) \in Text /\ Id("@", t.panes[p].window) \in Text
    BY <2>0, IdInText DEF Sigils
  <2>2. Cardinality(before(p)) \in 0 .. 9
    <3>1. before(p) \subseteq DOMAIN t.panes
      BY DEF PanesIn
    <3> HIDE DEF before
    <3> QED BY <3>1, FewOf
  <2>3. t.panes[p].path \in Text /\ <<"s", "h">> \in Text
    BY FieldsLettered, Letters
  <2>4. Records("pane") = [window : Text, index : 0 .. 9, id : Text, command : Text, path : Text,
                           active : BOOLEAN]
    BY DEF Records
  <2> HIDE DEF before
  <2> QED BY <2>1, <2>2, <2>3, <2>4
<1>2. order \in [1 .. n -> S] /\ n \in Nat
  BY FewOf, Ordered
<1>3. PaneRows(t, S) = [i \in DOMAIN order |-> row(order[i])]
  BY DEF PaneRows, Each
<1> HIDE DEF row, n, order
<1>4. PaneRows(t, S) \in [1 .. n -> Records("pane")]
  BY <1>1, <1>2, <1>3
<1> QED BY <1>2, <1>4, IsSeq

\* ... the client, ...
LEMMA ClientRowsIn ==
  ASSUME NEW t, Lettered(t)
  PROVE  ClientRows(t) \in Seq(Records("client"))
<1> DEFINE S == t.client
           order == SetToSeq(S)
           row(s) == [pid |-> 7, session |-> t.sessions[s], tty |-> Tty, term |-> <<"x">>]
           n == Cardinality(S)
<1>1. \A s \in S : row(s) \in Records("client")
  <2> TAKE s \in S
  <2>1. /\ t.sessions[s] \in Text
        /\ Tty \in Text /\ <<"x">> \in Text /\ 7 \in 0 .. 9
    <3>1. s \in DOMAIN t.sessions
      BY FieldsLettered
    <3>2. t.sessions[s] \in Text
      BY <3>1, FieldsLettered
    <3>3. Tty \in Text /\ <<"x">> \in Text
      BY Letters
    <3> QED BY <3>2, <3>3
  <2>2. Records("client") = [pid : 0 .. 9, session : Text, tty : Text, term : Text]
    BY DEF Records
  <2> QED BY <2>1, <2>2
<1>2. order \in [1 .. n -> S] /\ n \in Nat
  <2>1. IsFiniteSet(S)
    BY FieldsLettered, FewOf
  <2> QED BY <2>1, Ordered
<1>3. ClientRows(t) = [i \in DOMAIN order |-> row(order[i])]
  BY DEF ClientRows, Each
<1> HIDE DEF row, n, order, S
<1>4. ClientRows(t) \in [1 .. n -> Records("client")]
  BY <1>1, <1>2, <1>3
<1> QED BY <1>2, <1>4, IsSeq

\* ... and the server.
LEMMA InfoRowsIn ==
  ASSUME NEW t, Lettered(t)
  PROVE  \E r \in Records("info") : InfoRows(t) = <<r>>
<1> DEFINE pid == t.born % 10
           r == [pid |-> pid, sessions |-> Cardinality(DOMAIN t.sessions), start |-> pid]
<1>1. pid \in 0 .. 9
  <2>1. t.born \in Nat
    BY FieldsLettered
  <2> QED BY <2>1
<1>2. Cardinality(DOMAIN t.sessions) \in 0 .. 9
  BY FewOf
<1>3. InfoRows(t) = <<r>>
  BY DEF InfoRows
<1> DEFINE many == Cardinality(DOMAIN t.sessions)
<1>6. many \in 0 .. 9
  BY <1>2
<1> HIDE DEF pid, many
<1>4. [pid |-> pid, sessions |-> many, start |-> pid]
        \in [pid : 0 .. 9, sessions : 0 .. 9, start : 0 .. 9]
  BY <1>1, <1>6
<1> USE DEF many
<1>5. Records("info") = [pid : 0 .. 9, sessions : 0 .. 9, start : 0 .. 9]
  BY DEF Records
<1> QED BY <1>3, <1>4, <1>5

(***************************************************************************)
(* Servers stay lettered                                                   *)
(***************************************************************************)
Words(S, W, P) ==
  /\ \A s \in DOMAIN S : S[s] \in Text
  /\ \A w \in DOMAIN W : W[w].name \in Text /\ W[w].index \in 0 .. 9
  /\ \A p \in DOMAIN P : P[p].path \in Text

Worded(t) == Words(t.sessions, t.windows, t.panes)

\* The texts of a server with these fields.
LEMMA WordedIs ==
  ASSUME NEW t, NEW S, NEW W, NEW P, NEW C, NEW n, NEW b, Holds(t, S, W, P, C, n, b),
         Words(S, W, P)
  PROVE  Worded(t)
BY FieldsHeld DEF Worded

\* A server is lettered if its texts are, and its ids are bounded.
LEMMA LetteredIs ==
  ASSUME NEW t
  PROVE  IsLettered(t) <=> t.next <= MaxIds /\ Worded(t)
BY DEF IsLettered, Worded, Words

\* What is left of it is.
LEMMA KeepingWorded ==
  ASSUME NEW t, WellFormed(t), Worded(t), NEW P
  PROVE  Worded(Keeping(t, P))
<1> DEFINE p == Only(t.panes, P)
           w == Only(t.windows, {p[x].window : x \in DOMAIN p})
           s == Only(t.sessions, {w[x].session : x \in DOMAIN w})
           left == [t EXCEPT !.panes = p, !.windows = w, !.sessions = s, !.client = @ \cap DOMAIN s]
           u == Keeping(t, P)
<1>1. u = IF DOMAIN s = {} THEN Down(t.born + 1) ELSE left
  BY DEF Keeping
<1>2. DOMAIN p \subseteq DOMAIN t.panes /\ \A x \in DOMAIN p : p[x] = t.panes[x]
  BY DEF Only
<1>3. DOMAIN w \subseteq DOMAIN t.windows /\ \A x \in DOMAIN w : w[x] = t.windows[x]
  BY DEF Only
<1>4. DOMAIN s \subseteq DOMAIN t.sessions /\ \A x \in DOMAIN s : s[x] = t.sessions[x]
  BY DEF Only
<1> HIDE DEF p, w, s
<1>5. Holds(left, s, w, p, t.client \cap DOMAIN s, t.next, t.born)
  BY DEF WellFormed, Holds
<1>6. Words(s, w, p)
  BY <1>2, <1>3, <1>4 DEF Worded, Words
<1> HIDE DEF left
<1>7. Worded(left)
  BY <1>5, <1>6, WordedIs
<1>8. Worded(Down(t.born + 1))
  BY DEF Down, NoWindows, Worded, Words
<1> HIDE DEF u
<1> QED BY <1>1, <1>7, <1>8 DEF u

\* The windows of a session leave one of the ten indices free.
LEMMA FreeIndexIs ==
  ASSUME NEW t, Lettered(t), NEW s
  PROVE  FreeIndex(t, s) \in 0 .. 9
<1> DEFINE W == WindowsIn(t, s)
           index == [w \in W |-> t.windows[w].index]
           used == {t.windows[w].index : w \in W}
           Free == {i \in 0 .. 9 : i \notin used}
<1>1. IsFiniteSet(W) /\ Cardinality(W) \in 0 .. 9
  <2>1. W \subseteq DOMAIN t.windows
    BY DEF WindowsIn
  <2> HIDE DEF W
  <2> QED BY <2>1, FewOf
<1> HIDE DEF W
<1>2. IsFiniteSet(used) /\ Cardinality(used) <= Cardinality(W)
  <2>1. index \in Surjection(W, used)
    BY DEF Surjection
  <2> HIDE DEF index, used
  <2> QED BY <1>1, <2>1, FS_Surjection
<1>3. Free # {}
  <2> SUFFICES ASSUME Free = {} PROVE FALSE
    OBVIOUS
  <2> HIDE DEF used
  <2>1. 0 .. 9 \subseteq used
    OBVIOUS
  <2>2. Cardinality(0 .. 9) = 10
    <3>1. 0 \in Int /\ 9 \in Int /\ (IF 0 > 9 THEN 0 ELSE 9 - 0 + 1) = 10
      OBVIOUS
    <3> QED BY <3>1, FS_Interval
  <2>3. Cardinality(0 .. 9) <= Cardinality(used)
    BY <1>2, <2>1, FS_Subset
  <2>4. Cardinality(used) \in Nat
    BY <1>2, FS_CardinalityType
  <2> QED BY <1>1, <1>2, <2>2, <2>3, <2>4
<1>4. PICK i \in Free : \A j \in Free : i <= j
  <2>1. Free \subseteq Nat
    OBVIOUS
  <2> HIDE DEF Free
  <2> QED BY <1>3, <2>1, LeastNumber
<1>5. /\ \A w \in W : t.windows[w].index # i
      /\ \A j \in 0 .. (i - 1) : \E w \in W : t.windows[w].index = j
  <2>1. ASSUME NEW j \in 0 .. (i - 1)
        PROVE  \E w \in W : t.windows[w].index = j
    <3>1. j \in 0 .. 9 /\ ~(i <= j)
      BY <1>4
    <3> QED BY <1>4, <3>1
  <2> QED BY <1>4, <2>1
<1>6. i \in 0 .. 9
  BY <1>4
<1> QED BY <1>5, <1>6 DEF FreeIndex, W

\* The name a session gets is a text.
LEMMA KeptText ==
  ASSUME NEW name \in Text
  PROVE  Kept(name) \in Text
<1> DEFINE n == Len(name)
<1>1. n \in Nat /\ DOMAIN name = 1 .. n /\ name \in [1 .. n -> Characters]
  BY LenProperties DEF Text
<1>2. "_" \in Characters
  BY Letters
<1> HIDE DEF n
<1>3. Kept(name) \in [1 .. n -> Characters]
  BY <1>1, <1>2 DEF Kept
<1> QED BY <1>1, <1>3, IsSeq DEF Text

\* So is a server with a pane and a window more.
LEMMA OpenedWorded ==
  ASSUME NEW t, NEW S, NEW W, NEW P, NEW C, NEW n, NEW b, Holds(t, S, W, P, C, n, b),
         Words(S, W, P), NEW window, NEW name \in Text, NEW path \in Text, NEW s,
         NEW index \in 0 .. 9, NEW o \in Opened(t, window, name, path, s, index)
  PROVE  Worded(o.tree)
<1> DEFINE new == [session |-> s, index |-> index, name |-> name, layout |-> 0]
           pane == [window |-> window, path |-> path, keys |-> 0]
           w == IF window = n THEN With(W, n, new) ELSE W
           p == With(P, n, pane)
           u == [t EXCEPT !.windows = w, !.next = n + 1, !.panes = p]
<1>1. /\ t.sessions = S /\ t.windows = W /\ t.panes = P
      /\ t.client = C /\ t.next = n /\ t.born = b
  BY FieldsHeld
<1>2. o.tree = u
  BY <1>1 DEF Opened, Prints
<1>3. Holds(u, S, w, p, C, n + 1, b)
  BY DEF Holds
<1> HIDE DEF u
<1>4. DOMAIN p = DOMAIN P \cup {n} /\ \A x \in DOMAIN p : p[x] = IF x = n THEN pane ELSE P[x]
  BY DEF With
<1>5. /\ DOMAIN w \subseteq DOMAIN W \cup {n}
      /\ \A x \in DOMAIN w : w[x] = new \/ (x \in DOMAIN W /\ w[x] = W[x])
  BY DEF With
<1>6. new.name \in Text /\ new.index \in 0 .. 9 /\ pane.path \in Text
  OBVIOUS
<1> HIDE DEF w, p, new, pane
<1>7. Words(S, w, p)
  <2>1. \A x \in DOMAIN w : w[x].name \in Text /\ w[x].index \in 0 .. 9
    BY <1>5, <1>6 DEF Words
  <2>2. \A x \in DOMAIN p : p[x].path \in Text
    BY <1>4, <1>6 DEF Words
  <2> QED BY <2>1, <2>2 DEF Words
<1> QED BY <1>2, <1>3, <1>7, WordedIs

\* A server changed in its windows, its panes, its sessions or its client alone.
LEMMA ChangedWorded ==
  ASSUME NEW t, Lettered(t), NEW f
  PROVE  /\ Words(t.sessions, f, t.panes) => Worded([t EXCEPT !.windows = f])
         /\ Words(t.sessions, t.windows, f) => Worded([t EXCEPT !.panes = f])
         /\ Words(f, t.windows, t.panes) => Worded([t EXCEPT !.sessions = f])
         /\ Worded([t EXCEPT !.client = f])
<1>1. Holds(t, t.sessions, t.windows, t.panes, t.client, t.next, t.born)
  BY PartsOf DEF Lettered, IsServer
<1>2. Words(t.sessions, t.windows, t.panes)
  BY LetteredIs DEF Lettered, Worded
<1>3. /\ Holds([t EXCEPT !.sessions = f], f, t.windows, t.panes, t.client, t.next, t.born)
      /\ Holds([t EXCEPT !.windows = f], t.sessions, f, t.panes, t.client, t.next, t.born)
      /\ Holds([t EXCEPT !.panes = f], t.sessions, t.windows, f, t.client, t.next, t.born)
  BY <1>1, Replaced
<1>4. Holds([t EXCEPT !.client = f], t.sessions, t.windows, t.panes, f, t.next, t.born)
  BY <1>1, Replaced
<1>5. Words(t.sessions, f, t.panes) => Worded([t EXCEPT !.windows = f])
  BY <1>3, WordedIs
<1>6. Words(t.sessions, t.windows, f) => Worded([t EXCEPT !.panes = f])
  BY <1>3, WordedIs
<1>7. Words(f, t.windows, t.panes) => Worded([t EXCEPT !.sessions = f])
  BY <1>3, WordedIs
<1>8. Worded([t EXCEPT !.client = f])
  BY <1>2, <1>4, WordedIs
<1> QED BY <1>5, <1>6, <1>7, <1>8, Zenon

\* rename-window, rotate-window, select-layout, resize-pane; send-keys; rename-session.
LEMMA LabelWorded ==
  ASSUME NEW t, Lettered(t)
  PROVE  /\ \A w \in DOMAIN t.windows, x \in Text : Worded([t EXCEPT !.windows[w].name = x])
         /\ \A w \in DOMAIN t.windows : Worded([t EXCEPT !.windows[w].layout = 1])
         /\ \A p \in DOMAIN t.panes : Worded([t EXCEPT !.panes[p].keys = 1])
         /\ \A s \in DOMAIN t.sessions, x \in Text : Worded([t EXCEPT !.sessions[s] = x])
<1>1. WellFormed(t) /\ Words(t.sessions, t.windows, t.panes)
  BY LetteredIs DEF Lettered, IsServer, Worded
<1>2. /\ \A w \in DOMAIN t.windows : t.windows[w] \in
           [session : DOMAIN t.sessions, index : {t.windows[w].index},
            name : {t.windows[w].name}, layout : {0, 1}]
      /\ \A p \in DOMAIN t.panes :
           t.panes[p] \in [window : DOMAIN t.windows, path : {t.panes[p].path}, keys : {0, 1}]
  BY <1>1 DEF WellFormed
<1>3. ASSUME NEW w \in DOMAIN t.windows, NEW x \in Text
      PROVE  Worded([t EXCEPT !.windows[w].name = x])
  <2> DEFINE v == [t.windows[w] EXCEPT !.name = x]
             f == [t.windows EXCEPT ![w] = v]
  <2>1. v.name = x /\ v.index = t.windows[w].index
    BY <1>2
  <2> HIDE DEF v
  <2>2. DOMAIN f = DOMAIN t.windows /\ \A y \in DOMAIN f : f[y] = IF y = w THEN v ELSE t.windows[y]
    OBVIOUS
  <2> HIDE DEF f
  <2>3. Words(t.sessions, f, t.panes)
    BY <1>1, <2>1, <2>2 DEF Words
  <2>4. Worded([t EXCEPT !.windows = f])
    BY <2>3, ChangedWorded
  <2> QED BY <2>4 DEF f, v
<1>4. ASSUME NEW w \in DOMAIN t.windows
      PROVE  Worded([t EXCEPT !.windows[w].layout = 1])
  <2> DEFINE v == [t.windows[w] EXCEPT !.layout = 1]
             f == [t.windows EXCEPT ![w] = v]
  <2>1. v.name = t.windows[w].name /\ v.index = t.windows[w].index
    BY <1>2
  <2> HIDE DEF v
  <2>2. DOMAIN f = DOMAIN t.windows /\ \A y \in DOMAIN f : f[y] = IF y = w THEN v ELSE t.windows[y]
    OBVIOUS
  <2> HIDE DEF f
  <2>3. Words(t.sessions, f, t.panes)
    BY <1>1, <2>1, <2>2 DEF Words
  <2>4. Worded([t EXCEPT !.windows = f])
    BY <2>3, ChangedWorded
  <2> QED BY <2>4 DEF f, v
<1>5. ASSUME NEW p \in DOMAIN t.panes
      PROVE  Worded([t EXCEPT !.panes[p].keys = 1])
  <2> DEFINE q == [t.panes[p] EXCEPT !.keys = 1]
             f == [t.panes EXCEPT ![p] = q]
  <2>1. q.path = t.panes[p].path
    BY <1>2
  <2> HIDE DEF q
  <2>2. DOMAIN f = DOMAIN t.panes /\ \A y \in DOMAIN f : f[y] = IF y = p THEN q ELSE t.panes[y]
    OBVIOUS
  <2> HIDE DEF f
  <2>3. Words(t.sessions, t.windows, f)
    BY <1>1, <2>1, <2>2 DEF Words
  <2>4. Worded([t EXCEPT !.panes = f])
    BY <2>3, ChangedWorded
  <2> QED BY <2>4 DEF f, q
<1>6. ASSUME NEW s \in DOMAIN t.sessions, NEW x \in Text
      PROVE  Worded([t EXCEPT !.sessions[s] = x])
  <2> DEFINE f == [t.sessions EXCEPT ![s] = x]
  <2>1. /\ DOMAIN f = DOMAIN t.sessions
        /\ \A y \in DOMAIN f : f[y] = IF y = s THEN x ELSE t.sessions[y]
    OBVIOUS
  <2> HIDE DEF f
  <2>2. Words(f, t.windows, t.panes)
    BY <1>1, <2>1 DEF Words
  <2>3. Worded([t EXCEPT !.sessions = f])
    BY <2>2, ChangedWorded
  <2> QED BY <2>3 DEF f
<1> QED BY <1>3, <1>4, <1>5, <1>6, Zenon

\* swap-window.
LEMMA SwapWorded ==
  ASSUME NEW t, Lettered(t), NEW v \in DOMAIN t.windows, NEW w \in DOMAIN t.windows,
         NEW o \in SwapDoes(t, v, w)
  PROVE  Worded(o.tree)
<1> DEFINE f == [t.windows EXCEPT ![v] = InPlace(t, v, w), ![w] = InPlace(t, w, v)]
<1>1. o.tree = [t EXCEPT !.windows = f]
  BY DEF SwapDoes, Does, Prints
<1>2. WellFormed(t) /\ Words(t.sessions, t.windows, t.panes)
  BY LetteredIs DEF Lettered, IsServer, Worded
<1>3. ASSUME NEW x \in {v, w}, NEW y \in {v, w}
      PROVE  /\ InPlace(t, x, y).name = t.windows[x].name
             /\ InPlace(t, x, y).index = t.windows[y].index
  <2>1. \A z \in DOMAIN t.windows : t.windows[z] \in
          [session : DOMAIN t.sessions, index : {t.windows[z].index},
           name : {t.windows[z].name}, layout : {0, 1}]
    BY <1>2 DEF WellFormed
  <2> QED BY <2>1 DEF InPlace
<1>4. /\ DOMAIN f = DOMAIN t.windows
      /\ \A x \in DOMAIN f : \/ f[x] = t.windows[x]
                             \/ x \in {v, w} /\ \E y \in {v, w} : f[x] = InPlace(t, x, y)
  OBVIOUS
<1> HIDE DEF f
<1>5. Words(t.sessions, f, t.panes)
  <2>1. ASSUME NEW x \in DOMAIN f
        PROVE  f[x].name \in Text /\ f[x].index \in 0 .. 9
    <3>1. CASE f[x] = t.windows[x]
      BY <1>2, <1>4, <3>1 DEF Words
    <3>2. ASSUME x \in {v, w}, NEW y \in {v, w}, f[x] = InPlace(t, x, y)
          PROVE  f[x].name \in Text /\ f[x].index \in 0 .. 9
      BY <1>2, <1>3, <3>2 DEF Words
    <3> QED BY <1>4, <3>1, <3>2
  <2> QED BY <1>2, <2>1 DEF Words
<1>6. Worded([t EXCEPT !.windows = f])
  BY <1>5, ChangedWorded
<1> QED BY <1>1, <1>6, Zenon

\* move-window, to a free index.
LEMMA MoveWorded ==
  ASSUME NEW t, Lettered(t), NEW w \in DOMAIN t.windows, NEW s \in DOMAIN t.sessions,
         NEW o \in MoveDoes(t, w, s)
  PROVE  Worded(o.tree)
<1> DEFINE i == FreeIndex(t, s)
           v == [t.windows[w] EXCEPT !.session = s, !.index = i]
           f == [t.windows EXCEPT ![w] = v]
           r == [t EXCEPT !.windows = f]
<1>1. [t EXCEPT !.windows[w].session = s, !.windows[w].index = FreeIndex(t, s)] = r
  OBVIOUS
<1>2. o \in Does(Keeping(r, DOMAIN t.panes))
  BY <1>1 DEF MoveDoes
<1>3. o.tree = Keeping(r, DOMAIN t.panes)
  BY <1>2 DEF Does, Prints
<1>4. WellFormed(t) /\ Words(t.sessions, t.windows, t.panes)
  BY LetteredIs DEF Lettered, IsServer, Worded
<1>5. \A x \in DOMAIN t.windows : t.windows[x] \in
        [session : DOMAIN t.sessions, index : {t.windows[x].index},
         name : {t.windows[x].name}, layout : {0, 1}]
  BY <1>4 DEF WellFormed
<1>6. i \in 0 .. 9
  BY FreeIndexIs
<1> HIDE DEF i
<1>7. v \in [session : DOMAIN t.sessions, index : {i}, name : {t.windows[w].name}, layout : {0, 1}]
  BY <1>5
<1> HIDE DEF v
<1>8. /\ DOMAIN f = DOMAIN t.windows /\ f = [x \in DOMAIN f |-> f[x]]
      /\ \A x \in DOMAIN f : f[x] = IF x = w THEN v ELSE t.windows[x]
  OBVIOUS
<1> HIDE DEF f
<1>9. \A x \in DOMAIN f : f[x] \in
        [session : DOMAIN t.sessions, index : {f[x].index}, name : {f[x].name}, layout : {0, 1}]
  BY <1>5, <1>7, <1>8
<1>10. WellFormed(r)
  BY <1>4, <1>8, <1>9, WindowsReplaced
<1>11. Words(t.sessions, f, t.panes)
  <2>1. v.name \in Text /\ v.index \in 0 .. 9
    BY <1>4, <1>6, <1>7 DEF Words
  <2> QED BY <1>4, <1>8, <2>1 DEF Words
<1>12. Worded(r)
  BY <1>11, ChangedWorded
<1> HIDE DEF r
<1> QED BY <1>3, <1>10, <1>12, KeepingWorded

\* join-pane.
LEMMA JoinWorded ==
  ASSUME NEW t, Lettered(t), NEW p \in DOMAIN t.panes, NEW w \in DOMAIN t.windows,
         NEW o \in JoinDoes(t, p, w)
  PROVE  Worded(o.tree)
<1> DEFINE q == [t.panes[p] EXCEPT !.window = w]
           f == [t.panes EXCEPT ![p] = q]
           r == [t EXCEPT !.panes = f]
<1>1. WellFormed(t) /\ Words(t.sessions, t.windows, t.panes) /\ Worded(t)
  BY LetteredIs DEF Lettered, IsServer, Worded
<1>2. CASE o \in Does(t) \cup Fails(t)
  BY <1>1, <1>2 DEF Does, Fails, Prints
<1>3. CASE o \in Does(Keeping(r, DOMAIN t.panes))
  <2>1. o.tree = Keeping(r, DOMAIN t.panes)
    BY <1>3 DEF Does, Prints
  <2>2. \A x \in DOMAIN t.panes :
          t.panes[x] \in [window : DOMAIN t.windows, path : {t.panes[x].path}, keys : {0, 1}]
    BY <1>1 DEF WellFormed
  <2>3. q \in [window : DOMAIN t.windows, path : {t.panes[p].path}, keys : {0, 1}]
    BY <2>2
  <2> HIDE DEF q
  <2>4. /\ DOMAIN f = DOMAIN t.panes /\ f = [x \in DOMAIN f |-> f[x]]
        /\ \A x \in DOMAIN f : f[x] = IF x = p THEN q ELSE t.panes[x]
    OBVIOUS
  <2> HIDE DEF f
  <2>5. \A x \in DOMAIN f : f[x] \in [window : DOMAIN t.windows, path : {f[x].path}, keys : {0, 1}]
    BY <2>2, <2>3, <2>4
  <2>6. WellFormed(r)
    BY <1>1, <2>4, <2>5, PanesReplaced
  <2>7. Words(t.sessions, t.windows, f)
    <3>1. q.path \in Text
      BY <1>1, <2>3 DEF Words
    <3> QED BY <1>1, <2>4, <3>1 DEF Words
  <2>8. Worded(r)
    BY <2>7, ChangedWorded
  <2> HIDE DEF r
  <2> QED BY <2>1, <2>6, <2>8, KeepingWorded
<1> QED BY <1>2, <1>3 DEF JoinDoes

\* break-pane, to a free index.
LEMMA BreakWorded ==
  ASSUME NEW t, Lettered(t), NEW p \in DOMAIN t.panes, NEW o \in BreakDoes(t, p)
  PROVE  Worded(o.tree)
<1> DEFINE n == t.next
           v == t.windows[t.panes[p].window]
           i == FreeIndex(t, v.session)
           new == [v EXCEPT !.index = i]
           q == [t.panes[p] EXCEPT !.window = n]
           W == With(t.windows, n, new)
           P == [t.panes EXCEPT ![p] = q]
           u == [t EXCEPT !.windows = W, !.panes = P, !.next = n + 1]
<1>1. WellFormed(t) /\ Words(t.sessions, t.windows, t.panes) /\ Worded(t)
  BY LetteredIs DEF Lettered, IsServer, Worded
<1>2. CASE o \in Fails(t)
  BY <1>1, <1>2 DEF Fails
<1>3. CASE o \in Does(u)
  <2>1. o.tree = u
    BY <1>3 DEF Does, Prints
  <2>2. Holds(u, t.sessions, W, P, t.client, n + 1, t.born)
    BY <1>1 DEF Holds, WellFormed
  <2> HIDE DEF u
  <2>3. /\ t.panes[p].window \in DOMAIN t.windows
        /\ v \in [session : DOMAIN t.sessions, index : {v.index}, name : {v.name}, layout : {0, 1}]
        /\ t.panes[p] \in [window : DOMAIN t.windows, path : {t.panes[p].path}, keys : {0, 1}]
    <3>1. t.panes[p].window \in DOMAIN t.windows
      BY <1>1, FieldsOf
    <3> HIDE DEF v
    <3> QED BY <1>1, <3>1 DEF WellFormed, v
  <2>4. v.name \in Text /\ t.panes[p].path \in Text
    BY <1>1, <2>3 DEF Words
  <2> HIDE DEF v
  <2>5. i \in 0 .. 9
    BY FreeIndexIs
  <2> HIDE DEF i
  <2>6. new.name \in Text /\ new.index \in 0 .. 9 /\ q.path \in Text
    BY <2>3, <2>4, <2>5
  <2> HIDE DEF new, q
  <2>7. /\ DOMAIN W = DOMAIN t.windows \cup {n}
        /\ \A x \in DOMAIN W : W[x] = IF x = n THEN new ELSE t.windows[x]
    BY DEF With
  <2>8. DOMAIN P = DOMAIN t.panes /\ \A x \in DOMAIN P : P[x] = IF x = p THEN q ELSE t.panes[x]
    OBVIOUS
  <2> HIDE DEF W, P
  <2>9. Words(t.sessions, W, P)
    <3>1. \A x \in DOMAIN W : W[x].name \in Text /\ W[x].index \in 0 .. 9
      BY <1>1, <2>6, <2>7 DEF Words
    <3>2. \A x \in DOMAIN P : P[x].path \in Text
      BY <1>1, <2>6, <2>8 DEF Words
    <3> QED BY <1>1, <3>1, <3>2 DEF Words
  <2> QED BY <2>1, <2>2, <2>9, WordedIs
<1> QED BY <1>2, <1>3 DEF BreakDoes

\* What is said to a server are texts.
Wordy(c) == c.name \in Text /\ c.path \in Text /\ (c.op = "new-session" => c.target \in Text)

\* new-session, new-window, split-window.
LEMMA OpenerWorded ==
  ASSUME NEW t, Lettered(t), NEW c, Wordy(c), c.op \in Openers, NEW o \in Outcomes(t, c)
  PROVE  Worded(o.tree)
<1>1. IsServer(t) /\ Worded(t) /\ Words(t.sessions, t.windows, t.panes)
  BY LetteredIs DEF Lettered, Worded
<1>2. Holds(t, t.sessions, t.windows, t.panes, t.client, t.next, t.born)
  BY <1>1, PartsOf DEF IsServer
<1>3. c.name \in Text /\ c.path \in Text
  BY DEF Wordy
<1>4. CASE o \in Fails(t)
  BY <1>1, <1>4 DEF Fails
<1>5. ASSUME NEW window, NEW name \in Text, NEW s, NEW i \in 0 .. 9,
             o \in Opened(t, window, name, c.path, s, i)
      PROVE  Worded(o.tree)
  BY <1>1, <1>2, <1>3, <1>5, OpenedWorded
<1>6. CASE c.op = "new-session"
  <2> DEFINE f == With(t.sessions, t.next, Kept(c.target))
             r == [t EXCEPT !.sessions = f]
  <2>1. CASE Kept(c.target) \in Range(t.sessions)
    BY <1>4, <1>6, <2>1 DEF Outcomes, NewSessionDoes
  <2>2. CASE Kept(c.target) \notin Range(t.sessions)
    <3>1. o \in Opened(r, t.next, c.name, c.path, t.next, 0)
      BY <1>6, <2>2 DEF Outcomes, NewSessionDoes
    <3>2. Holds(r, f, t.windows, t.panes, t.client, t.next, t.born)
      BY <1>2, Replaced
    <3> HIDE DEF r
    <3>3. Kept(c.target) \in Text
      BY <1>6, KeptText DEF Wordy
    <3>4. DOMAIN f = DOMAIN t.sessions \cup {t.next}
          /\ \A x \in DOMAIN f : f[x] = IF x = t.next THEN Kept(c.target) ELSE t.sessions[x]
      BY DEF With
    <3> HIDE DEF f
    <3>5. Words(f, t.windows, t.panes)
      BY <1>1, <3>3, <3>4 DEF Words
    <3>6. 0 \in 0 .. 9
      OBVIOUS
    <3> QED BY <1>3, <3>1, <3>2, <3>5, <3>6, OpenedWorded
  <2> QED BY <2>1, <2>2
<1>7. CASE c.op = "new-window"
  <2>1. o \in NewWindowDoes(t, c)
    BY <1>7 DEF Outcomes
  <2>2. \A s \in DOMAIN t.sessions : FreeIndex(t, s) \in 0 .. 9
    BY FreeIndexIs
  <2>3. Number(c.target) \subseteq 0 .. 9
    BY DEF Number
  <2>4. SessionsOf(t, c.target) \subseteq DOMAIN t.sessions
    BY <1>1, TargetsIn
  <2>5. \/ o \in Fails(t)
        \/ \E s \in DOMAIN t.sessions : \E i \in 0 .. 9 :
             o \in Opened(t, t.next, c.name, c.path, s, i)
    <3>1. PICK here \in DOMAIN t.sessions :
            o \in LET windows == WindowsIn(t, here)
                      indices == {t.windows[w].index : w \in windows}
                  IN IF Number(c.target) # {} THEN
                       UNION {IF i \in indices THEN Fails(t)
                              ELSE Opened(t, t.next, c.name, c.path, here, i) :
                              i \in Number(c.target)}
                     ELSE IF Meant(c.target, {t.windows[w].name : w \in windows}) # {} THEN Fails(t)
                     ELSE IF SessionsOf(t, c.target) = {} THEN Fails(t)
                     ELSE UNION {Opened(t, t.next, c.name, c.path, s, FreeIndex(t, s)) :
                                   s \in SessionsOf(t, c.target)}
      BY <2>1 DEF NewWindowDoes
    <3> QED BY <2>2, <2>3, <2>4, <3>1
  <2> QED BY <1>3, <1>4, <1>5, <2>5
<1>8. CASE c.op = "split-window"
  <2>1. PICK p \in PanesOf(t, c.target) : o \in Opened(t, t.panes[p].window, <<>>, c.path, 0, 0)
    BY <1>8 DEF Outcomes
  <2>2. <<>> \in Text
    BY Letters
  <2>3. 0 \in 0 .. 9
    OBVIOUS
  <2> QED BY <1>5, <2>1, <2>2, <2>3
<1> QED BY <1>6, <1>7, <1>8 DEF Openers

\* The commands for sessions.
LEMMA SessionWorded ==
  ASSUME NEW t, Lettered(t), NEW c, Wordy(c), NEW o \in Outcomes(t, c),
         c.op \in {"rename-session", "kill-session", "attach-session", "switch-client",
                   "detach-client"}
  PROVE  Worded(o.tree)
<1>1. IsServer(t) /\ WellFormed(t) /\ Worded(t)
  BY LetteredIs DEF Lettered, IsServer
<1>2. SessionsOf(t, c.target) \subseteq DOMAIN t.sessions
  BY <1>1, TargetsIn
<1>3. CASE o \in Fails(t) \cup Does(t)
  BY <1>1, <1>3 DEF Fails, Does, Prints
<1>4. CASE c.op = "rename-session"
  <2>1. \/ o \in Fails(t) \cup Does(t)
        \/ \E s \in DOMAIN t.sessions : o \in Does([t EXCEPT !.sessions[s] = Kept(c.name)])
    <3>1. o \in RenameSessionDoes(t, c)
      BY <1>4 DEF Outcomes
    <3>2. PICK s \in SessionsOf(t, c.target) :
            o \in IF t.sessions[s] = Kept(c.name) THEN Does(t)
                  ELSE IF Kept(c.name) \in Range(t.sessions) THEN Fails(t)
                  ELSE Does([t EXCEPT !.sessions[s] = Kept(c.name)])
      BY <3>1 DEF RenameSessionDoes
    <3> QED BY <1>2, <3>2, Zenon
  <2>2. Kept(c.name) \in Text
    BY KeptText DEF Wordy
  <2>3. ASSUME NEW s \in DOMAIN t.sessions, o \in Does([t EXCEPT !.sessions[s] = Kept(c.name)])
        PROVE  Worded(o.tree)
    <3>1. o.tree = [t EXCEPT !.sessions[s] = Kept(c.name)]
      BY <2>3 DEF Does, Prints
    <3>2. Worded([t EXCEPT !.sessions[s] = Kept(c.name)])
      BY <2>2, LabelWorded, Zenon
    <3> QED BY <3>1, <3>2, Zenon
  <2> QED BY <1>3, <2>1, <2>3
<1>5. CASE c.op = "kill-session"
  <2>1. PICK s \in SessionsOf(t, c.target) :
          o \in Does(Keeping(t, {p \in DOMAIN t.panes : t.windows[t.panes[p].window].session # s}))
    BY <1>5 DEF Outcomes, KillSessionDoes
  <2>2. \E Q : o.tree = Keeping(t, Q)
    BY <2>1 DEF Does, Prints
  <2> QED BY <1>1, <2>2, KeepingWorded
<1>6. ASSUME NEW C, o \in ClientDoes(t, C)
      PROVE  Worded(o.tree)
  <2>1. o.tree = [t EXCEPT !.client = C]
    BY <1>6 DEF ClientDoes, Does, Prints
  <2>2. Worded([t EXCEPT !.client = C])
    BY ChangedWorded
  <2> QED BY <2>1, <2>2, Zenon
<1>7. c.op \in {"attach-session", "switch-client", "detach-client"} =>
        o \in Fails(t) \/ \E C : o \in ClientDoes(t, C)
  <2>1. CASE c.op = "attach-session"
    <3>1. \E s \in SessionsOf(t, c.target) : o \in ClientDoes(t, {s})
      BY <2>1, SMTT(30) DEF Outcomes
    <3> QED BY <3>1
  <2>2. CASE c.op = "switch-client"
    <3>1. o \in SwitchDoes(t, c)
      BY <2>2, SMTT(30) DEF Outcomes
    <3> QED BY <3>1 DEF SwitchDoes
  <2>3. CASE c.op = "detach-client"
    BY <2>3, SMTT(30) DEF Outcomes
  <2> QED BY <2>1, <2>2, <2>3
<1> QED BY <1>3, <1>4, <1>5, <1>6, <1>7

\* The commands for windows.
LEMMA WindowWorded ==
  ASSUME NEW t, Lettered(t), NEW c, Wordy(c), NEW o \in Outcomes(t, c),
         c.op \in {"rename-window", "kill-window", "swap-window", "move-window",
                   "rotate-window", "select-layout", "resize-pane"}
  PROVE  Worded(o.tree)
<1>1. IsServer(t) /\ WellFormed(t)
  BY DEF Lettered, IsServer
<1>2. /\ WindowsOf(t, c.target) \subseteq DOMAIN t.windows
      /\ WindowsOf(t, c.other) \subseteq DOMAIN t.windows
      /\ SessionsOf(t, c.target) \subseteq DOMAIN t.sessions
      /\ PanesOf(t, c.target) \subseteq DOMAIN t.panes
  BY <1>1, TargetsIn
<1>3. CASE c.op = "rename-window"
  <2>1. PICK w \in DOMAIN t.windows : o \in LabelDoes(t, w, c.name)
    BY <1>2, <1>3 DEF Outcomes
  <2>2. o.tree = [t EXCEPT !.windows[w].name = c.name]
    BY <2>1 DEF LabelDoes, Does, Prints
  <2>3. Worded([t EXCEPT !.windows[w].name = c.name])
    BY LabelWorded, Zenon DEF Wordy
  <2> QED BY <2>2, <2>3, Zenon
<1>4. CASE c.op = "kill-window"
  <2>1. PICK w \in WindowsOf(t, c.target) : o \in Does(Keeping(t, DOMAIN t.panes \ PanesIn(t, w)))
    BY <1>4 DEF Outcomes
  <2>2. \E Q : o.tree = Keeping(t, Q)
    BY <2>1 DEF Does, Prints
  <2>3. Worded(t)
    BY LetteredIs DEF Lettered
  <2> QED BY <1>1, <2>2, <2>3, KeepingWorded
<1>5. CASE c.op = "swap-window"
  <2>1. \E v \in DOMAIN t.windows, w \in DOMAIN t.windows : o \in SwapDoes(t, v, w)
    BY <1>2, <1>5 DEF Outcomes
  <2> QED BY <2>1, SwapWorded
<1>6. CASE c.op = "move-window"
  <2>1. \E w \in DOMAIN t.windows, s \in DOMAIN t.sessions : o \in MoveDoes(t, w, s)
    BY <1>2, <1>6 DEF Outcomes
  <2> QED BY <2>1, MoveWorded
<1>7. CASE c.op \in {"rotate-window", "select-layout", "resize-pane"}
  <2>1. PICK w \in DOMAIN t.windows : o \in LayoutDoes(t, w)
    <3>1. \A p \in DOMAIN t.panes : t.panes[p].window \in DOMAIN t.windows
      BY <1>1, FieldsOf
    <3>2. CASE c.op = "rotate-window"
      BY <1>2, <3>2 DEF Outcomes
    <3>3. CASE c.op = "select-layout"
      BY <1>2, <3>3 DEF Outcomes
    <3>4. CASE c.op = "resize-pane"
      BY <1>2, <3>1, <3>4 DEF Outcomes
    <3> QED BY <1>7, <3>2, <3>3, <3>4, Zenon
  <2>2. o.tree = [t EXCEPT !.windows[w].layout = 1]
    BY <2>1 DEF LayoutDoes, Does, Prints
  <2>3. Worded([t EXCEPT !.windows[w].layout = 1])
    BY LabelWorded, Zenon
  <2> QED BY <2>2, <2>3, Zenon
<1> QED BY <1>3, <1>4, <1>5, <1>6, <1>7

\* The commands for panes.
LEMMA PaneWorded ==
  ASSUME NEW t, Lettered(t), NEW c, NEW o \in Outcomes(t, c),
         c.op \in {"kill-pane", "break-pane", "join-pane", "send-keys"}
  PROVE  Worded(o.tree)
<1>1. IsServer(t) /\ WellFormed(t) /\ Worded(t)
  BY LetteredIs DEF Lettered, IsServer
<1>2. /\ WindowsOf(t, c.target) \subseteq DOMAIN t.windows
      /\ PanesOf(t, c.target) \subseteq DOMAIN t.panes
      /\ PanesOf(t, c.other) \subseteq DOMAIN t.panes
  BY <1>1, TargetsIn
<1>3. CASE c.op = "kill-pane"
  <2>1. PICK p \in PanesOf(t, c.target) : o \in Does(Keeping(t, DOMAIN t.panes \ {p}))
    BY <1>3 DEF Outcomes
  <2>2. \E Q : o.tree = Keeping(t, Q)
    BY <2>1 DEF Does, Prints
  <2> QED BY <1>1, <2>2, KeepingWorded
<1>4. CASE c.op = "break-pane"
  <2>1. \E p \in DOMAIN t.panes : o \in BreakDoes(t, p)
    BY <1>2, <1>4 DEF Outcomes
  <2> QED BY <2>1, BreakWorded
<1>5. CASE c.op = "join-pane"
  <2>1. \E p \in DOMAIN t.panes, w \in DOMAIN t.windows : o \in JoinDoes(t, p, w)
    BY <1>2, <1>5 DEF Outcomes
  <2> QED BY <2>1, JoinWorded
<1>6. CASE c.op = "send-keys"
  <2>1. PICK p \in DOMAIN t.panes : o \in KeysDo(t, p)
    BY <1>2, <1>6 DEF Outcomes
  <2>2. o.tree = [t EXCEPT !.panes[p].keys = 1]
    BY <2>1 DEF KeysDo, Does, Prints
  <2>3. Worded([t EXCEPT !.panes[p].keys = 1])
    BY LabelWorded, Zenon
  <2> QED BY <2>2, <2>3, Zenon
<1> QED BY <1>3, <1>4, <1>5, <1>6

\* Whatever is said to it in texts, a server stays one whose texts can be printed.
THEOREM EffectsLettered ==
  ASSUME NEW t, Lettered(t), NEW c, Wordy(c), NEW o \in Effects(t, c)
  PROVE  Lettered(o.tree)
<1>0. IsServer(t) /\ IsLettered(t) /\ Worded(t)
  BY LetteredIs DEF Lettered
<1>1. Proper(t, c, o)
  BY <1>0, EffectsProper
<1>2. IsServer(o.tree)
  BY <1>1 DEF Proper, Hits, Good
<1>3. CASE o.tree = t
  BY <1>0, <1>3 DEF Lettered
<1>4. CASE o \in Outcomes(t, c) /\ o.tree.next <= MaxIds
  <2>1. CASE c.op \in Openers
    BY <1>4, <2>1, OpenerWorded, LetteredIs, <1>2 DEF Lettered
  <2>2. CASE c.op \in Looks \cup {"run-shell"}
    <3>1. o.tree = t
      BY <1>0, <1>4, <2>2, LookSame
    <3> QED BY <1>3, <3>1
  <2>3. CASE c.op \in {"rename-session", "kill-session", "attach-session", "switch-client",
                       "detach-client"}
    BY <1>2, <1>4, <2>3, SessionWorded, LetteredIs DEF Lettered
  <2>4. CASE c.op \in {"rename-window", "kill-window", "swap-window", "move-window",
                       "rotate-window", "select-layout", "resize-pane"}
    BY <1>2, <1>4, <2>4, WindowWorded, LetteredIs DEF Lettered
  <2>5. CASE c.op \in {"kill-pane", "break-pane", "join-pane", "send-keys"}
    BY <1>2, <1>4, <2>5, PaneWorded, LetteredIs DEF Lettered
  <2>6. c.op \in Ops
    <3> SUFFICES ASSUME c.op \notin Ops PROVE FALSE
      OBVIOUS
    <3>1. Outcomes(t, c) = {}
      BY NoOutcomes
    <3> QED BY <1>4, <3>1
  <2> QED BY <2>1, <2>2, <2>3, <2>4, <2>5, <2>6 DEF Ops
<1>5. o.tree = t \/ (o \in Outcomes(t, c) /\ o.tree.next <= MaxIds)
  BY DEF Effects, Fails
<1> QED BY <1>3, <1>4, <1>5

(***************************************************************************)
(* What is read is what was printed                                        *)
(***************************************************************************)
\* How the answer to a command may be read.
ReadsOf(op) ==
  CASE op = "list-sessions" -> {"session"}
    [] op \in {"list-windows", "list-windows-a"} -> {"window"}
    [] op \in {"list-panes", "list-panes-a"} -> {"pane"}
    [] op = "list-clients" -> {"client"}
    [] op = "display-message" -> {"info"}
    [] op = "show-option" -> {"option"}
    [] op = "capture-pane" -> {"text"}
    [] op = "has-session" -> {"bool"}
    [] op \in {"new-session", "new-window"} -> {"status", "created"}
    [] op = "split-window" -> {"status", "pane_id"}
    [] OTHER -> {"status"}

\* Commands that only look.
LEMMA LookPrintable ==
  ASSUME NEW t, Lettered(t), NEW c, c.op \in Looks \ {"has-session"}, NEW o \in Outcomes(t, c),
         NEW reads \in ReadsOf(c.op)
  PROVE  Printable(reads, o.rows)
<1>0. WellFormed(t)
  BY DEF Lettered, IsServer
<1>1. CASE c.op = "list-sessions"
  <2>1. o.rows = SessionRows(t) /\ reads = "session"
    BY <1>1 DEF Outcomes, Prints, ReadsOf
  <2> QED BY <2>1, SessionRowsIn DEF Printable
<1>2. ASSUME NEW S, S \subseteq DOMAIN t.windows, o \in Prints(t, "window", WindowRows(t, S)),
             reads = "window"
      PROVE  Printable(reads, o.rows)
  <2>1. o.rows = WindowRows(t, S)
    BY <1>2 DEF Prints
  <2> QED BY <1>2, <2>1, WindowRowsIn DEF Printable
<1>3. ASSUME NEW S, S \subseteq DOMAIN t.panes, o \in Prints(t, "pane", PaneRows(t, S)),
             reads = "pane"
      PROVE  Printable(reads, o.rows)
  <2>1. o.rows = PaneRows(t, S)
    BY <1>3 DEF Prints
  <2> QED BY <1>3, <2>1, PaneRowsIn DEF Printable
<1>4. CASE c.op = "list-windows"
  <2>1. PICK s \in SessionsOf(t, c.target) :
          o \in Prints(t, "window", WindowRows(t, WindowsIn(t, s)))
    BY <1>4 DEF Outcomes
  <2>2. WindowsIn(t, s) \subseteq DOMAIN t.windows
    BY DEF WindowsIn
  <2>3. reads = "window"
    BY <1>4 DEF ReadsOf
  <2> QED BY <1>2, <2>1, <2>2, <2>3
<1>5. CASE c.op = "list-windows-a"
  <2>1. o \in Prints(t, "window", WindowRows(t, DOMAIN t.windows))
    BY <1>5 DEF Outcomes
  <2>2. reads = "window"
    BY <1>5 DEF ReadsOf
  <2> QED BY <1>2, <2>1, <2>2
<1>6. CASE c.op = "list-panes"
  <2>1. PICK w \in WindowsOf(t, c.target) : o \in Prints(t, "pane", PaneRows(t, PanesIn(t, w)))
    BY <1>6 DEF Outcomes
  <2>2. PanesIn(t, w) \subseteq DOMAIN t.panes
    BY DEF PanesIn
  <2>3. reads = "pane"
    BY <1>6 DEF ReadsOf
  <2> QED BY <1>3, <2>1, <2>2, <2>3
<1>7. CASE c.op = "list-panes-a"
  <2>1. o \in Prints(t, "pane", PaneRows(t, DOMAIN t.panes))
    BY <1>7 DEF Outcomes
  <2>2. reads = "pane"
    BY <1>7 DEF ReadsOf
  <2> QED BY <1>3, <2>1, <2>2
<1>8. CASE c.op = "list-clients"
  <2>1. o.rows = ClientRows(t) /\ reads = "client"
    BY <1>8 DEF Outcomes, Prints, ReadsOf
  <2> QED BY <2>1, ClientRowsIn DEF Printable
<1>9. CASE c.op = "display-message"
  <2>1. o.rows = InfoRows(t) /\ reads = "info"
    BY <1>9 DEF Outcomes, Prints, ReadsOf
  <2> QED BY <2>1, InfoRowsIn DEF Printable
<1>10. CASE c.op = "show-option"
  <2>1. PICK saved \in {{}, {5}} : o \in Prints(t, "option", <<[saved |-> saved]>>)
    BY <1>10 DEF Outcomes
  <2>2. o.rows = <<[saved |-> saved]>> /\ reads = "option"
    BY <1>10, <2>1 DEF Prints, ReadsOf
  <2> QED BY <2>2 DEF Printable
<1>11. CASE c.op = "capture-pane"
  <2>1. reads = "text"
    BY <1>11 DEF ReadsOf
  <2> QED BY <2>1 DEF Printable
<1> QED BY <1>1, <1>4, <1>5, <1>6, <1>7, <1>8, <1>9, <1>10, <1>11 DEF Looks

\* A command that succeeds prints what its answer is read for.
LEMMA EffectsPrintable ==
  ASSUME NEW t, Lettered(t), NEW c, NEW o \in Effects(t, c), o.ok,
         NEW reads \in ReadsOf(c.op), reads \notin {"status", "bool"}
  PROVE  Printable(reads, o.rows)
<1>1. o \in Outcomes(t, c)
  BY DEF Effects, Fails
<1>2. c.op \in Looks \ {"has-session"} \/ (c.op \in Openers /\ reads \in {"created", "pane_id"})
  <2>1. c.op \in Looks \cup Openers
    <3> SUFFICES ASSUME c.op \notin Looks \cup Openers PROVE FALSE
      OBVIOUS
    <3>1. ReadsOf(c.op) = {"status"}
      BY DEF ReadsOf, Looks, Openers
    <3> QED BY <3>1
  <2>2. c.op # "has-session"
    BY DEF ReadsOf
  <2>3. c.op \in Openers => reads \in {"created", "pane_id"}
    BY DEF ReadsOf, Openers
  <2> QED BY <2>1, <2>2, <2>3
<1>3. CASE c.op \in Looks \ {"has-session"}
  BY <1>1, <1>3, LookPrintable
<1>4. CASE c.op \in Openers /\ reads \in {"created", "pane_id"}
  <2>1. IsServer(t) /\ t.next \in Nat
    BY FieldsOf DEF Lettered, IsServer
  <2>2. Opening(t, o) /\ o.tree.next <= MaxIds
    BY <1>4, <2>1, EffectsProper DEF Proper
  <2>3. PICK w \in 0 .. t.next : o.rows = <<[window |-> Id("@", w), pane |-> Id("%", t.next)]>>
    BY <2>2 DEF Opening
  <2> DEFINE n == t.next
  <2>4. w \in 0 .. 9 /\ n \in 0 .. 9
    <3>1. n + 1 <= MaxIds /\ MaxIds \in 0 .. 9 /\ n \in Nat /\ w \in 0 .. n
      BY <2>1, <2>2, CommandsAssumption DEF Opening
    <3> QED BY <3>1
  <2>5. o.rows = <<[window |-> Id("@", w), pane |-> Id("%", n)]>>
    BY <2>3
  <2> HIDE DEF n
  <2>6. \E x, y \in 0 .. 9 : o.rows = <<[window |-> Id("@", x), pane |-> Id("%", y)]>>
    BY <2>4, <2>5
  <2> QED BY <1>4, <2>6 DEF Printable
<1> QED BY <1>2, <1>3, <1>4

(***************************************************************************)
(* Calls                                                                   *)
(***************************************************************************)
\* What the functions of the library make of names N and ids I: which of them a
\* command is aimed at, that it is said in texts, and how its answer is read.
Fits(N, I, c) ==
  /\ c.op \in {"rename-window", "kill-window", "swap-window"} =>
       c.target \in I /\ c.target[1] = "@"
  /\ c.op \in {"swap-window", "move-window"} => c.other \in I /\ c.other[1] = "@"
  /\ c.op \in {"kill-pane", "break-pane", "send-keys"} => c.target \in I /\ N = {}
  /\ c.op = "join-pane" => c.other \in I /\ N = {}
  /\ c.op = "kill-session" => I = {}
  /\ c.op \in {"rename-session", "attach-session", "kill-session", "switch-client"} /\ N # {} =>
       N = {c.target}
  /\ c.reads \in ReadsOf(c.op) /\ Wordy(c)

IsCall(c) ==
  /\ c \in [names : {c.names}, ids : {c.ids}, command : {c.command}]
  /\ Fits(c.names, c.ids, c.command)

\* What run_attach asks first.
IsAttach(c) == c.ids = {} /\ c.names = {c.command.target} /\ c.command.op = "has-session"

\* A command that changed something succeeded, and what it printed is read; so is, if
\* it is clean, what one prints that only looks.
Matches(c, a, o) ==
  /\ a.ok = o.ok
  /\ o.changed => o.ok /\ (c.reads \in {"status", "bool"} \/ Parsed(c.reads, a.text).ok)
  /\ o.ok /\ o.clean /\ c.reads \notin {"status", "bool"} =>
       Parsed(c.reads, a.text) = Value(o.value)

\* The call that is under way: its command is still to be executed, or was.
UnderWay ==
  \E c \in call :
    /\ call = {c} /\ result = {} /\ ~gaveUp
    /\ \/ pending = {c} /\ answer = {} /\ outcome = {}
       \/ /\ pending = {}
          /\ \E a \in answer, o \in outcome :
               /\ answer = {a} /\ outcome = {o}
               /\ Matches(c.command, a, o) /\ (attach => ~o.changed)

IInv ==
  /\ Lettered(tree)
  /\ \A c \in call \cup pending \cup late : IsCall(c)
  /\ attach => \A c \in call : IsAttach(c)
  /\ \A c, d \in pending : c = d
  /\ pc = "idle" => pending = {}
  /\ pc = "waits" => UnderWay
  /\ AnswersAreTrue
  /\ ListingIsTrue

\* What the caller says are texts.
LEMMA TextsSaid ==
  /\ \A n \in Names : n \in Text
  /\ \A n \in WindowNames : n \in Text
  /\ \A d \in Paths : d \in Text
  /\ <<>> \in Text /\ <<" ">> \in Text /\ Tty \in Text
<1>1. Texts \cup WindowNames \cup Paths \subseteq Text
  BY CommandsAssumption
<1>2. \A n \in Names : n \in Texts
  BY DEF Names, MakeId
<1>3. <<>> \in Text /\ <<" ">> \in Text /\ Tty \in Text
  BY Letters
<1> QED BY <1>1, <1>2, <1>3

\* A call is one if the commands it is made of fit.
LEMMA CallIs ==
  ASSUME NEW N, NEW I, NEW K, \A x \in K : Fits(N, I, x), NEW c \in Calls(N, I, K)
  PROVE  IsCall(c)
<1>1. PICK x \in K : c = [names |-> N, ids |-> I, command |-> x]
  BY DEF Calls
<1>2. c.names = N /\ c.ids = I /\ c.command = x
  BY <1>1
<1>3. c \in [names : {c.names}, ids : {c.ids}, command : {c.command}]
  BY <1>1
<1> QED BY <1>2, <1>3 DEF IsCall

\* The functions without a target, ...
LEMMA UnaimedFits ==
  ASSUME NEW c \in Unaimed
  PROVE  IsCall(c)
<1> DEFINE K == {ListSessions, ListWindowsAll, ListPanesAll, ListClients, ServerInfo,
                 ContinuumLastSave, RunShell, DetachClient(Tty)}
<1>1. /\ Fits({}, {}, ListSessions) /\ Fits({}, {}, ListWindowsAll) /\ Fits({}, {}, ListPanesAll)
      /\ Fits({}, {}, ListClients) /\ Fits({}, {}, ServerInfo) /\ Fits({}, {}, ContinuumLastSave)
  BY TextsSaid DEF Fits, ReadsOf, Wordy, ListSessions, ListWindowsAll, ListPanesAll,
                   ListClients, ServerInfo, ContinuumLastSave, Plain, At, Command
<1>2. Fits({}, {}, RunShell) /\ Fits({}, {}, DetachClient(Tty))
  BY TextsSaid DEF Fits, ReadsOf, Wordy, RunShell, DetachClient, Plain, At, Command
<1>3. \A x \in K : Fits({}, {}, x)
  BY <1>1, <1>2
<1>4. c \in Calls({}, {}, K)
  BY DEF Unaimed
<1> HIDE DEF K
<1> QED BY <1>3, <1>4, CallIs

\* ... for a session by its name, ...
LEMMA ByNameFits ==
  ASSUME NEW n \in Names, NEW c \in ByName(n)
  PROVE  IsCall(c)
<1> DEFINE K == {ListWindows(n), SwitchClient(n), SessionExists(n), KillSession(n)}
                  \cup {NewSession(n, d) : d \in Paths} \cup {RenameSession(n, m) : m \in Names}
                  \cup UNION {{NewSessionWithIds(n, w, d), NewWindow(n, w, d),
                                 NewWindowWithIds(n, w, d)} : w \in WindowNames, d \in Paths}
<1>1. /\ Fits({n}, {}, ListWindows(n)) /\ Fits({n}, {}, SwitchClient(n))
      /\ Fits({n}, {}, SessionExists(n)) /\ Fits({n}, {}, KillSession(n))
  BY TextsSaid DEF Fits, ReadsOf, Wordy, ListWindows, SwitchClient, SessionExists,
                   KillSession, At, Command
<1>2. /\ \A d \in Paths : Fits({n}, {}, NewSession(n, d))
      /\ \A m \in Names : Fits({n}, {}, RenameSession(n, m))
  BY TextsSaid DEF Fits, ReadsOf, Wordy, NewSession, RenameSession, Command
<1>3. ASSUME NEW w \in WindowNames, NEW d \in Paths
      PROVE  /\ Fits({n}, {}, NewSessionWithIds(n, w, d)) /\ Fits({n}, {}, NewWindow(n, w, d))
             /\ Fits({n}, {}, NewWindowWithIds(n, w, d))
  <2>1. n \in Text /\ w \in Text /\ d \in Text
    BY TextsSaid
  <2>2. Fits({n}, {}, NewSessionWithIds(n, w, d))
    BY <2>1 DEF Fits, ReadsOf, Wordy, NewSessionWithIds, Command
  <2>3. Fits({n}, {}, NewWindow(n, w, d))
    BY <2>1 DEF Fits, ReadsOf, Wordy, NewWindow, Command
  <2>4. Fits({n}, {}, NewWindowWithIds(n, w, d))
    BY <2>1 DEF Fits, ReadsOf, Wordy, NewWindowWithIds, Command
  <2> QED BY <2>2, <2>3, <2>4
<1>4. \A x \in K : Fits({n}, {}, x)
  <2> TAKE x \in K
  <2>1. CASE x \in {ListWindows(n), SwitchClient(n), SessionExists(n), KillSession(n)}
    BY <1>1, <2>1
  <2>2. CASE \E d \in Paths : x = NewSession(n, d)
    BY <1>2, <2>2
  <2>3. CASE \E m \in Names : x = RenameSession(n, m)
    BY <1>2, <2>3
  <2>4. CASE \E w \in WindowNames : \E d \in Paths :
               x \in {NewSessionWithIds(n, w, d), NewWindow(n, w, d), NewWindowWithIds(n, w, d)}
    BY <1>3, <2>4
  <2> QED BY <2>1, <2>2, <2>3, <2>4
<1>5. c \in Calls({n}, {}, K)
  BY DEF ByName
<1> HIDE DEF K
<1> QED BY <1>4, <1>5, CallIs

\* These are ids of windows.
Windows(V) == \A v \in V : v[1] = "@"

\* The functions for a window, ...
LEMMA ByWindowFits ==
  ASSUME NEW V, Windows(V), NEW v \in V, NEW c \in ByWindow(v, V)
  PROVE  IsCall(c)
<1> DEFINE K == {ListPanes(v), SwitchClient(v), KillWindow(v), RotatePanes(v), SelectLayout(v)}
                  \cup {RenameWindow(v, n) : n \in WindowNames}
<1>0. \A w \in V : w[1] = "@"
  BY DEF Windows
<1>1. /\ Fits({}, {v}, ListPanes(v)) /\ Fits({}, {v}, SwitchClient(v))
      /\ Fits({}, {v}, KillWindow(v)) /\ Fits({}, {v}, RotatePanes(v))
      /\ Fits({}, {v}, SelectLayout(v))
  BY <1>0, TextsSaid DEF Fits, ReadsOf, Wordy, ListPanes, SwitchClient, KillWindow,
                         RotatePanes, SelectLayout, At, Command
<1>2. /\ \A n \in WindowNames : Fits({}, {v}, RenameWindow(v, n))
      /\ \A n : Fits({n}, {v}, MoveWindow(v, n))
  BY <1>0, TextsSaid DEF Fits, ReadsOf, Wordy, RenameWindow, MoveWindow, Command
<1>3. \A x \in K : Fits({}, {v}, x)
  <2> TAKE x \in K
  <2>1. CASE x \in {ListPanes(v), SwitchClient(v), KillWindow(v), RotatePanes(v), SelectLayout(v)}
    BY <1>1, <2>1
  <2>2. CASE \E n \in WindowNames : x = RenameWindow(v, n)
    BY <1>2, <2>2
  <2> QED BY <2>1, <2>2
<1>4. \/ c \in Calls({}, {v}, K) \/ \E n \in Names : c \in Calls({n}, {v}, {MoveWindow(v, n)})
      \/ \E w \in V : c \in Calls({}, {w, v}, {SwapWindows(w, v)})
  BY DEF ByWindow
<1> HIDE DEF K
<1>5. ASSUME NEW n, c \in Calls({n}, {v}, {MoveWindow(v, n)})
      PROVE  IsCall(c)
  <2>1. \A x \in {MoveWindow(v, n)} : Fits({n}, {v}, x)
    BY <1>2
  <2> QED BY <1>5, <2>1, CallIs
<1>6. ASSUME NEW w \in V, c \in Calls({}, {w, v}, {SwapWindows(w, v)})
      PROVE  IsCall(c)
  <2>1. Fits({}, {w, v}, SwapWindows(w, v))
    BY <1>0, TextsSaid DEF Fits, ReadsOf, Wordy, SwapWindows, Command
  <2>2. \A x \in {SwapWindows(w, v)} : Fits({}, {w, v}, x)
    BY <2>1
  <2> QED BY <1>6, <2>2, CallIs
<1>7. c \in Calls({}, {v}, K) => IsCall(c)
  BY <1>3, CallIs
<1> QED BY <1>4, <1>5, <1>6, <1>7

\* ... and for a pane.
LEMMA ByPaneFits ==
  ASSUME NEW V, NEW p, NEW c \in ByPane(p, V)
  PROVE  IsCall(c)
<1> DEFINE K == {CapturePane(p), SwitchClient(p), KillPane(p), BreakPane(p), ToggleZoom(p),
                 SendKeys(p)}
                  \cup UNION {{SplitPane(p, d), SplitPaneWithId(p, d)} : d \in Paths}
<1>1. /\ Fits({}, {p}, CapturePane(p)) /\ Fits({}, {p}, SwitchClient(p))
      /\ Fits({}, {p}, KillPane(p)) /\ Fits({}, {p}, BreakPane(p))
      /\ Fits({}, {p}, ToggleZoom(p)) /\ Fits({}, {p}, SendKeys(p))
  BY TextsSaid DEF Fits, ReadsOf, Wordy, CapturePane, SwitchClient, KillPane, BreakPane,
                   ToggleZoom, SendKeys, At, Command
<1>2. \A d \in Paths : Fits({}, {p}, SplitPane(p, d)) /\ Fits({}, {p}, SplitPaneWithId(p, d))
  BY TextsSaid DEF Fits, ReadsOf, Wordy, SplitPane, SplitPaneWithId, Command
<1>3. \A x \in K : Fits({}, {p}, x)
  <2> TAKE x \in K
  <2>1. CASE x \in {CapturePane(p), SwitchClient(p), KillPane(p), BreakPane(p), ToggleZoom(p),
                    SendKeys(p)}
    BY <1>1, <2>1
  <2>2. CASE \E d \in Paths : x \in {SplitPane(p, d), SplitPaneWithId(p, d)}
    BY <1>2, <2>2
  <2> QED BY <2>1, <2>2
<1>4. c \in Calls({}, {p}, K) \/ \E w \in V : c \in Calls({}, {p, w}, {JoinPane(p, w)})
  BY DEF ByPane
<1> HIDE DEF K
<1>5. ASSUME NEW w \in V, c \in Calls({}, {p, w}, {JoinPane(p, w)})
      PROVE  IsCall(c)
  <2>1. Fits({}, {p, w}, JoinPane(p, w))
    BY TextsSaid DEF Fits, ReadsOf, Wordy, JoinPane, Command
  <2>2. \A x \in {JoinPane(p, w)} : Fits({}, {p, w}, x)
    BY <2>1
  <2> QED BY <1>5, <2>2, CallIs
<1>6. c \in Calls({}, {p}, K) => IsCall(c)
  BY <1>3, CallIs
<1> QED BY <1>4, <1>5, <1>6

\* Whatever the library is asked to do, with windows and panes the caller has been
\* shown, is such a call.
LEMMA OfferedFits ==
  ASSUME NEW V, Windows(V), NEW P, NEW c \in Offered(V, P)
  PROVE  IsCall(c)
<1>1. \/ c \in Unaimed \/ \E n \in Names : c \in ByName(n)
      \/ \E v \in V : c \in ByWindow(v, V)
      \/ \E p \in P : c \in ByPane(p, V)
  BY DEF Offered
<1> QED BY <1>1, UnaimedFits, ByNameFits, ByWindowFits, ByPaneFits

\* What run_attach asks.
LEMMA AttachFits ==
  ASSUME NEW n \in Names, NEW c \in Calls({n}, {}, {SessionExists(n)})
  PROVE  IsCall(c) /\ IsAttach(c)
<1>0. Fits({n}, {}, SessionExists(n))
  BY TextsSaid DEF Fits, ReadsOf, Wordy, SessionExists, At, Command
<1>1. \A x \in {SessionExists(n)} : Fits({n}, {}, x)
  BY <1>0
<1>2. IsCall(c)
  BY <1>1, CallIs
<1>3. c.names = {n} /\ c.ids = {} /\ c.command = SessionExists(n)
  BY DEF Calls
<1> QED BY <1>2, <1>3 DEF IsAttach, SessionExists, At, Command

(***************************************************************************)
(* The inductive invariant                                                 *)
(***************************************************************************)
\* What executing the command of a call does to the server, and what the answer to
\* it has to do with that.
LEMMA Served ==
  ASSUME NEW t, Lettered(t), NEW c, IsCall(c), NEW o \in Effects(t, c.command)
  PROVE  LET a == [ok |-> o.ok, text |-> Output(c.command.reads, o)]
             out == [ok |-> o.ok, changed |-> o.tree # t, born |-> t.born,
                     value |-> Seen(c.command.reads, o), clean |-> AllClean(c.command.reads, o)]
         IN /\ Lettered(o.tree)
            /\ Matches(c.command, a, out)
            /\ c.command.op \in Looks => ~out.changed
<1> DEFINE x == c.command
           text == Output(x.reads, o)
           changed == o.tree # t
           value == Seen(x.reads, o)
           clean == AllClean(x.reads, o)
<1>0. Fits(c.names, c.ids, x)
  BY DEF IsCall
<1>1. Proper(t, x, o)
  BY EffectsProper DEF Lettered
<1>2. Lettered(o.tree)
  BY <1>0, EffectsLettered DEF Fits
<1>3. x.op \in Looks => ~changed
  BY <1>1 DEF Proper
<1>4. changed => o.ok
  BY <1>1 DEF Proper
<1>5. ASSUME o.ok, clean, x.reads \notin {"status", "bool"}
      PROVE  Parsed(x.reads, text) = Value(value)
  <2>1. x.reads \in ReadsOf(x.op)
    BY <1>0 DEF Fits
  <2>2. Printable(x.reads, o.rows)
    BY <1>5, <2>1, EffectsPrintable
  <2>3. Signs \subseteq Characters
    BY CommandsAssumption
  <2> QED BY <1>5, <2>2, <2>3, AnswerRead
<1>6. ASSUME changed, x.reads \notin {"status", "bool"}
      PROVE  Parsed(x.reads, text).ok
  <2>1. x.reads \in {"created", "pane_id"}
    <3>1. x.reads \in ReadsOf(x.op)
      BY <1>0 DEF Fits
    <3>2. x.op \in Openers \/ ReadsOf(x.op) = {"status"}
      BY <1>3, <1>6 DEF ReadsOf, Openers, Looks
    <3> QED BY <1>6, <3>1, <3>2 DEF ReadsOf, Openers
  <2>2. clean
    BY <2>1 DEF AllClean
  <2> HIDE DEF clean, text, value
  <2>3. Parsed(x.reads, text) = Value(value)
    BY <1>4, <1>5, <1>6, <2>2
  <2>4. Value(value).ok = TRUE
    BY DEF Value
  <2> QED BY <2>3, <2>4
<1> HIDE DEF x, text, changed, value, clean
<1>7. Matches(x, [ok |-> o.ok, text |-> text],
              [ok |-> o.ok, changed |-> changed, born |-> t.born, value |-> value, clean |-> clean])
  BY <1>4, <1>5, <1>6 DEF Matches
<1> QED BY <1>2, <1>3, <1>7 DEF x, text, changed, value, clean

\* An answer that matches what was done is read truly.
LEMMA ReadTruly ==
  ASSUME NEW c, NEW a, NEW o, Matches(c, a, o)
  PROVE  LET r == Read(c.reads, a)
         IN /\ r.ok => IF c.reads = "bool" THEN r.value = {o.ok} ELSE o.ok
            /\ ~r.ok => ~o.changed
            /\ o.ok /\ o.clean /\ c.reads \notin {"status", "bool"} => r = Value(o.value)
<1> DEFINE r == Read(c.reads, a)
<1>1. CASE c.reads = "bool"
  <2>1. r.ok = TRUE /\ r.value = {a.ok}
    BY <1>1 DEF Read, Value
  <2> QED BY <1>1, <2>1 DEF Matches
<1>2. CASE c.reads = "status"
  <2>1. r.ok <=> a.ok
    BY <1>2 DEF Read, Value, Error
  <2> QED BY <1>2, <2>1 DEF Matches
<1>3. CASE c.reads \notin {"bool", "status"}
  <2>1. r = IF a.ok THEN Parsed(c.reads, a.text) ELSE Error
    BY <1>3 DEF Read
  <2>2. ~Error.ok
    BY DEF Error
  <2> QED BY <1>3, <2>1, <2>2 DEF Matches
<1> QED BY <1>1, <1>2, <1>3

\* The invariant holds at first, ...
LEMMA InitInv ==
  ASSUME Init
  PROVE  IInv
<1>1. Lettered(tree)
  BY CommandsAssumption DEF Init, Lettered
<1> QED BY <1>1 DEF Init, IInv, AnswersAreTrue, ListingIsTrue, Returned

\* Ids of windows shown are such.
LEMMA ShownWindows == Windows(ShownWith("@"))
BY DEF Windows, ShownWith

\* ... and after every step: a call is made, ...
LEMMA BeginInv ==
  ASSUME IInv, NEW c, IsCall(c), NEW forAttach, forAttach => IsAttach(c), Begin(c, forAttach)
  PROVE  IInv'
<1>1. /\ tree' = tree /\ call' = {c} /\ pending' = {c} /\ late' = late /\ attach' = forAttach
      /\ pc' = "waits" /\ result' = {} /\ ~gaveUp' /\ answer' = {} /\ outcome' = {}
  BY DEF Begin
<1>2. UnderWay'
  BY <1>1 DEF UnderWay
<1>3. AnswersAreTrue' /\ ListingIsTrue'
  BY <1>1 DEF AnswersAreTrue, ListingIsTrue, Returned
<1>4. Lettered(tree)' /\ \A x \in call' \cup pending' \cup late' : IsCall(x)
  BY <1>1 DEF IInv
<1>5. attach' => \A x \in call' : IsAttach(x)
  BY <1>1
<1> QED BY <1>1, <1>2, <1>3, <1>4, <1>5 DEF IInv

\* Executing a command that is not the one waited for leaves the rest as it is.
LEMMA ElsewhereInv ==
  ASSUME IInv, NEW c, Wordy(c), NEW o \in Effects(tree, c), tree' = o.tree, late' \subseteq late,
         UNCHANGED <<caller, pending, answer, outcome>>
  PROVE  IInv'
<1>1. Lettered(tree)'
  BY EffectsLettered DEF IInv
<1>2. UNCHANGED <<pc, call, attach, result, gaveUp, pending, answer, outcome>>
  BY DEF caller
<1>3. UnderWay => UnderWay'
  BY <1>2 DEF UnderWay
<1>4. AnswersAreTrue' /\ ListingIsTrue'
  BY <1>2 DEF IInv, AnswersAreTrue, ListingIsTrue, Returned
<1> QED BY <1>1, <1>2, <1>3, <1>4 DEF IInv

\* ... is executed, ...
LEMMA ServeInv ==
  ASSUME IInv, Serve
  PROVE  IInv'
<1>0. PICK c \in pending : \E o \in Effects(tree, c.command) :
        /\ tree' = o.tree
        /\ answer' = {[ok |-> o.ok, text |-> Output(c.command.reads, o)]}
        /\ outcome' = {[ok |-> o.ok, changed |-> o.tree # tree, born |-> tree.born,
                        value |-> Seen(c.command.reads, o), clean |-> AllClean(c.command.reads, o)]}
  BY DEF Serve
<1>1. PICK o \in Effects(tree, c.command) :
        /\ tree' = o.tree
        /\ answer' = {[ok |-> o.ok, text |-> Output(c.command.reads, o)]}
        /\ outcome' = {[ok |-> o.ok, changed |-> o.tree # tree, born |-> tree.born,
                        value |-> Seen(c.command.reads, o), clean |-> AllClean(c.command.reads, o)]}
  BY <1>0
<1> DEFINE a == [ok |-> o.ok, text |-> Output(c.command.reads, o)]
           out == [ok |-> o.ok, changed |-> o.tree # tree, born |-> tree.born,
                   value |-> Seen(c.command.reads, o), clean |-> AllClean(c.command.reads, o)]
<1>2. pending' = {} /\ UNCHANGED <<pc, call, attach, result, gaveUp, late>>
  BY DEF Serve, caller
<1>3. IsCall(c) /\ Lettered(tree)
  BY DEF IInv
<1>4. Lettered(tree') /\ Matches(c.command, a, out) /\ (c.command.op \in Looks => ~out.changed)
  BY <1>1, <1>3, Served
<1> HIDE DEF a, out
<1>5. answer' = {a} /\ outcome' = {out}
  BY <1>1 DEF a, out
<1>6. pc # "idle"
  BY DEF IInv
<1>7. UnderWay => UnderWay'
  <2> SUFFICES ASSUME UnderWay PROVE UnderWay'
    OBVIOUS
  <2>1. call = {c} /\ result = {} /\ ~gaveUp
    BY DEF UnderWay
  <2>2. attach => ~out.changed
    BY <1>4, <2>1 DEF IInv, IsAttach, Looks
  <2> QED BY <1>2, <1>4, <1>5, <2>1, <2>2 DEF UnderWay
<1>8. AnswersAreTrue' /\ ListingIsTrue'
  BY <1>2, <1>6 DEF AnswersAreTrue, ListingIsTrue, Returned
<1> QED BY <1>2, <1>4, <1>6, <1>7, <1>8 DEF IInv

\* ... is answered, ...
LEMMA ReceiveInv ==
  ASSUME IInv, Receive
  PROVE  IInv'
<1>1. pc = "waits" /\ UnderWay
  BY DEF Receive, IInv
<1>2. PICK c \in call, a \in answer : result' = {Read(c.command.reads, a)}
  BY DEF Receive
<1>3. pc' = "idle" /\ UNCHANGED <<tree, call, attach, pending, late, outcome, gaveUp>>
  BY DEF Receive
<1>4. call = {c} /\ pending = {} /\ \E o \in outcome : outcome = {o} /\ Matches(c.command, a, o)
  BY <1>1 DEF UnderWay
<1>5. PICK o \in outcome : outcome = {o} /\ Matches(c.command, a, o)
  BY <1>4
<1>6. AnswersAreTrue' /\ ListingIsTrue'
  <2> DEFINE r == Read(c.command.reads, a)
  <2>1. /\ r.ok => IF c.command.reads = "bool" THEN r.value = {o.ok} ELSE o.ok
        /\ ~r.ok => ~o.changed
        /\ o.ok /\ o.clean /\ c.command.reads \notin {"status", "bool"} => r = Value(o.value)
    BY <1>5, ReadTruly
  <2> HIDE DEF r
  <2>2. result' = {r}
    BY <1>2 DEF r
  <2>3. AnswersAreTrue'
    BY <1>3, <1>4, <1>5, <2>1, <2>2 DEF AnswersAreTrue, Returned
  <2>4. ListingIsTrue'
    BY <1>3, <1>4, <1>5, <2>1, <2>2 DEF ListingIsTrue, Returned
  <2> QED BY <2>3, <2>4
<1> QED BY <1>3, <1>4, <1>6 DEF IInv

\* ... is run_attach's and goes on, ...
LEMMA ReplaceInv ==
  ASSUME IInv, ReplaceProcess
  PROVE  IInv'
<1>1. pc = "waits" /\ attach /\ (\E a \in answer : a.ok) /\ UnderWay
  BY DEF ReplaceProcess, IInv
<1>2. UNCHANGED <<tree, call, attach, late, gaveUp>>
  BY DEF ReplaceProcess
<1>3. PICK c \in call : call = {c} /\ pending = {} /\ result = {} /\ \A o \in outcome : ~o.changed
  BY <1>1 DEF UnderWay
<1>4. IsCall(c) /\ IsAttach(c)
  BY <1>1 DEF IInv
<1>5. CASE pc' = "replaced"
  <2> DEFINE x == At("attach-session", c.command.target, "status")
             d == [c EXCEPT !.command = x]
  <2>1. pending' = {d} /\ result' = {}
    BY <1>3, <1>5 DEF ReplaceProcess
  <2>2. IsCall(d)
    <3>1. x.op = "attach-session" /\ x.target = c.command.target /\ x.reads = "status"
      BY DEF At, Command
    <3>7. x.name \in Text /\ x.path \in Text
      BY TextsSaid DEF At, Command
    <3> HIDE DEF x
    <3>2. c \in [names : {c.names}, ids : {c.ids}, command : {c.command}]
      BY <1>4 DEF IsCall
    <3>3. d = [names |-> c.names, ids |-> c.ids, command |-> x]
      BY <3>2
    <3>4. d.names = c.names /\ d.ids = c.ids /\ d.command = x
      BY <3>3
    <3>5. d \in [names : {d.names}, ids : {d.ids}, command : {d.command}]
      BY <3>3
    <3> HIDE DEF d
    <3>6. Fits(d.names, d.ids, d.command)
      <4>1. x.reads \in ReadsOf(x.op) /\ Wordy(x)
        BY <3>1, <3>7 DEF ReadsOf, Wordy
      <4> QED BY <1>4, <3>1, <3>4, <4>1 DEF Fits, IsAttach
    <3> QED BY <3>5, <3>6 DEF IsCall
  <2> HIDE DEF d
  <2>3. AnswersAreTrue' /\ ListingIsTrue'
    BY <1>5 DEF AnswersAreTrue, ListingIsTrue, Returned
  <2> QED BY <1>2, <1>5, <2>1, <2>2, <2>3 DEF IInv
<1>6. CASE pc' = "idle"
  <2>1. result' = {Error} /\ UNCHANGED <<pending, answer, outcome>>
    BY <1>6 DEF ReplaceProcess
  <2>2. AnswersAreTrue' /\ ListingIsTrue'
    BY <1>1, <1>2, <1>3, <2>1 DEF AnswersAreTrue, ListingIsTrue, Returned, Error
  <2> QED BY <1>2, <1>3, <1>6, <2>1, <2>2 DEF IInv
<1>7. pc' = "replaced" \/ pc' = "idle"
  BY DEF ReplaceProcess
<1> QED BY <1>5, <1>6, <1>7

\* ... or is given up.
LEMMA GivesUpInv ==
  ASSUME IInv, GivesUp
  PROVE  IInv'
<1>1. /\ pc' = "idle" /\ result' = {Error} /\ gaveUp' /\ late' = late \cup pending /\ pending' = {}
      /\ UNCHANGED <<tree, call, attach>>
  BY DEF GivesUp
<1>2. AnswersAreTrue' /\ ListingIsTrue'
  BY <1>1 DEF AnswersAreTrue, ListingIsTrue, Returned, Error
<1> QED BY <1>1, <1>2 DEF IInv

\* Nothing happens.
LEMMA StutterInv ==
  ASSUME IInv, UNCHANGED vars
  PROVE  IInv'
<1>1. UNCHANGED <<tree, pc, call, attach, result, gaveUp, pending, answer, late, outcome>>
  BY DEF vars, caller
<1>2. UnderWay => UnderWay'
  BY <1>1 DEF UnderWay
<1>3. AnswersAreTrue' /\ ListingIsTrue'
  BY <1>1 DEF IInv, AnswersAreTrue, ListingIsTrue, Returned
<1> QED BY <1>1, <1>2, <1>3 DEF IInv

\* Whatever happens.
LEMMA NextInv ==
  ASSUME IInv, [Next]_vars
  PROVE  IInv'
<1>1. CASE CallFunction
  <2>1. PICK c \in Offered(ShownWith("@"), ShownWith("%")) : Begin(c, FALSE)
    BY <1>1 DEF CallFunction
  <2>2. IsCall(c)
    BY ShownWindows, OfferedFits
  <2> QED BY <2>1, <2>2, BeginInv
<1>2. CASE CallAttach
  <2>1. PICK n \in Names : \E c \in Calls({n}, {}, {SessionExists(n)}) : Begin(c, TRUE)
    BY <1>2 DEF CallAttach
  <2>2. PICK c \in Calls({n}, {}, {SessionExists(n)}) : Begin(c, TRUE)
    BY <2>1
  <2>3. IsCall(c) /\ IsAttach(c)
    BY AttachFits
  <2> QED BY <2>2, <2>3, BeginInv
<1>3. CASE Serve
  BY <1>3, ServeInv
<1>4. CASE Receive
  BY <1>4, ReceiveInv
<1>5. CASE ReplaceProcess
  BY <1>5, ReplaceInv
<1>6. CASE GivesUp
  BY <1>6, GivesUpInv
<1>7. CASE ServeLate
  <2>1. PICK c \in late : /\ late' = late \ {c}
                          /\ \E o \in Effects(tree, c.command) : tree' = o.tree
                          /\ UNCHANGED <<caller, pending, answer, others, outcome>>
    BY <1>7 DEF ServeLate
  <2>2. PICK o \in Effects(tree, c.command) : tree' = o.tree
    BY <2>1
  <2>3. Wordy(c.command)
    BY <2>1 DEF IInv, IsCall, Fits
  <2> QED BY <2>1, <2>2, <2>3, ElsewhereInv
<1>8. CASE Others
  <2>1. PICK c \in Elsewhere : \E o \in Effects(tree, c) : tree' = o.tree
    BY <1>8 DEF Others
  <2>2. PICK o \in Effects(tree, c) : tree' = o.tree
    BY <2>1
  <2>3. UNCHANGED <<caller, pending, answer, late, outcome>>
    BY <1>8 DEF Others
  <2>4. Wordy(c)
    BY CommandsAssumption DEF Wordy
  <2> QED BY <2>2, <2>3, <2>4, ElsewhereInv
<1>9. CASE UNCHANGED vars
  BY <1>9, StutterInv
<1> QED BY <1>1, <1>2, <1>3, <1>4, <1>5, <1>6, <1>7, <1>8, <1>9 DEF Next

\* Whatever the caller and the others do, the server is one, every command on its way
\* is aimed at what the caller passed, and an answer is one to the call waited for.
THEOREM Inductive == Spec => []IInv
<1>1. Init => IInv
  BY InitInv
<1>2. IInv /\ [Next]_vars => IInv'
  BY NextInv
<1> QED BY <1>1, <1>2, PTL DEF Spec

\* Success says that the work was done, an Error of a call not given up that nothing
\* was: the ids printed for what a call opens are always read.
THEOREM AnswersTrue == Spec => []AnswersAreTrue
<1>1. IInv => AnswersAreTrue
  BY DEF IInv
<1> QED BY <1>1, Inductive, PTL

\* What a function returns of a listing, of new ids or of the server is what the server
\* printed, for all texts that can be told apart from the delimiter: the fields of a
\* row are split where they were joined, and rows where they ended.
THEOREM ListingsTrue == Spec => []ListingIsTrue
<1>1. IInv => ListingIsTrue
  BY DEF IInv
<1> QED BY <1>1, Inductive, PTL

(***************************************************************************)
(* What commands act on                                                    *)
(***************************************************************************)
\* A command that is no longer on its way has had one of its effects.
LEMMA Executed ==
  ASSUME IInv, [Next]_vars, NEW c \in pending \cup late, Executes(c)
  PROVE  \E o \in Effects(tree, c.command) : tree' = o.tree
<1>0. c \notin pending' \cup late'
  BY DEF Executes
<1>1. ASSUME NEW d, NEW b, Begin(d, b)
      PROVE  FALSE
  <2>1. pending = {} /\ late' = late
    BY <1>1 DEF Begin, IInv
  <2> QED BY <1>0, <2>1
<1>2. CASE Serve
  <2>1. PICK d \in pending : \E o \in Effects(tree, d.command) : tree' = o.tree
    BY <1>2 DEF Serve
  <2>2. late' = late
    BY <1>2 DEF Serve
  <2>3. c = d
    BY <1>0, <2>2 DEF IInv
  <2> QED BY <2>1, <2>3
<1>3. CASE Receive
  BY <1>0, <1>3 DEF Receive
<1>4. CASE ReplaceProcess
  <2>1. late' = late /\ pending = {}
    BY <1>4 DEF ReplaceProcess, IInv, UnderWay
  <2> QED BY <1>0, <2>1
<1>5. CASE GivesUp
  BY <1>0, <1>5 DEF GivesUp
<1>6. CASE ServeLate
  <2>1. PICK d \in late : /\ late' = late \ {d}
                          /\ \E o \in Effects(tree, d.command) : tree' = o.tree
                          /\ pending' = pending
    BY <1>6 DEF ServeLate
  <2>2. c = d
    BY <1>0, <2>1
  <2> QED BY <2>1, <2>2
<1>7. CASE Others
  BY <1>0, <1>7 DEF Others
<1>8. CASE UNCHANGED vars
  BY <1>0, <1>8 DEF vars
<1> QED BY <1>1, <1>2, <1>3, <1>4, <1>5, <1>6, <1>7, <1>8 DEF Next, CallFunction, CallAttach

\* Which is to say: no more is touched than what the command is aimed at.
LEMMA ExecutedTouches ==
  ASSUME IInv, [Next]_vars, NEW c \in pending \cup late, Executes(c)
  PROVE  /\ IsServer(tree) /\ Fits(c.names, c.ids, c.command)
         /\ Touches(tree, tree', SessionsHit(tree, c.command), WindowsHit(tree, c.command),
                    PanesHit(tree, c.command))
<1>1. PICK o \in Effects(tree, c.command) : tree' = o.tree
  BY Executed
<1>2. IsServer(tree) /\ Fits(c.names, c.ids, c.command)
  BY DEF IInv, IsCall, Lettered
<1>3. Hits(tree, o.tree, c.command)
  BY <1>2, EffectsProper DEF Proper
<1> QED BY <1>1, <1>2, <1>3 DEF Hits, Good

\* The window an id stands for, and the panes.
LEMMA KnownIs ==
  ASSUME NEW t, NEW text
  PROVE  /\ \A p \in PanesOf(t, text) : text = Id("%", p)
         /\ text[1] = "@" => \A w \in WindowsOf(t, text) : text = Id("@", w)
<1>1. \A p \in PanesOf(t, text) : text = Id("%", p)
  BY DEF PanesOf, Known
<1>2. ASSUME text[1] = "@"
      PROVE  \A w \in WindowsOf(t, text) : text = Id("@", w)
  <2>1. ~IsId(text, "%") /\ ~IsId(text, "$")
    BY <1>2 DEF IsId
  <2> QED BY <2>1 DEF WindowsOf, Known
<1> QED BY <1>1, <1>2

\* What a command for ids may change is what they stand for.
LEMMA HitsTheListed ==
  ASSUME NEW t, NEW c, NEW N, NEW I, I # {}, Fits(N, I, c)
  PROVE  /\ \A w \in WindowsHit(t, c) : Id("@", w) \in I
         /\ \A p \in PanesHit(t, c) : Id("%", p) \in I
<1>1. ASSUME NEW w \in WindowsHit(t, c)
      PROVE  Id("@", w) \in I
  <2>1. c.op # "kill-session"
    BY DEF Fits
  <2>2. CASE c.op \in {"rename-window", "kill-window"}
    BY <2>2, KnownIs DEF WindowsHit, Fits
  <2>3. CASE c.op = "swap-window"
    BY <2>3, KnownIs DEF WindowsHit, Fits
  <2>4. CASE c.op = "move-window"
    BY <2>4, KnownIs DEF WindowsHit, Fits
  <2> QED BY <2>1, <2>2, <2>3, <2>4 DEF WindowsHit
<1>2. ASSUME NEW p \in PanesHit(t, c)
      PROVE  Id("%", p) \in I
  <2>1. CASE c.op \in {"kill-pane", "break-pane", "send-keys"}
    BY <2>1, KnownIs DEF PanesHit, Fits
  <2>2. CASE c.op = "join-pane"
    BY <2>2, KnownIs DEF PanesHit, Fits
  <2> QED BY <2>1, <2>2 DEF PanesHit
<1> QED BY <1>1, <1>2

\* A command for ids the caller was shown, by the server that executes it, changes
\* what they stand for and nothing else, however late it is executed.
THEOREM ListedOnly == Spec => ActsOnTheListed
<1>1. ASSUME IInv, [Next]_vars, NEW c \in pending \cup late, Executes(c), c.ids # {}
      PROVE  /\ \A p \in DOMAIN tree.panes :
                  PaneAimedAt(c, p) \/ AimedAt(c, tree.panes[p].window) \/ KeepsPane(p)
             /\ \A w \in DOMAIN tree.windows :
                  AimedAt(c, w) \/ KeepsWindow(w) \/ \A p \in PanesIn(tree, w) : PaneAimedAt(c, p)
  <2> DEFINE W == WindowsHit(tree, c.command)
             P == PanesHit(tree, c.command)
  <2>1. Fits(c.names, c.ids, c.command) /\ Touches(tree, tree', SessionsHit(tree, c.command), W, P)
    BY <1>1, ExecutedTouches
  <2>2. (\A w \in W : AimedAt(c, w)) /\ \A p \in P : PaneAimedAt(c, p)
    BY <1>1, <2>1, HitsTheListed DEF AimedAt, PaneAimedAt
  <2> HIDE DEF W, P
  <2>3. ASSUME NEW p \in DOMAIN tree.panes
        PROVE  PaneAimedAt(c, p) \/ AimedAt(c, tree.panes[p].window) \/ KeepsPane(p)
    BY <2>1, <2>2 DEF Touches, KeepsPane
  <2>4. ASSUME NEW w \in DOMAIN tree.windows
        PROVE  AimedAt(c, w) \/ KeepsWindow(w) \/ \A p \in PanesIn(tree, w) : PaneAimedAt(c, p)
    <3>1. \/ w \in W \/ PanesIn(tree, w) \subseteq P
          \/ w \in DOMAIN tree'.windows /\ SameWindow(tree'.windows[w], tree.windows[w])
      BY <2>1 DEF Touches
    <3> QED BY <2>2, <3>1 DEF KeepsWindow, SameWindow
  <2> QED BY <2>3, <2>4
<1>2. IInv /\ [Next]_vars =>
        (\A c \in pending \cup late :
           (Executes(c) /\ c.ids # {}
             /\ \A id \in c.ids : [id |-> id, born |-> tree.born] \in shown) =>
             /\ \A p \in DOMAIN tree.panes :
                  PaneAimedAt(c, p) \/ AimedAt(c, tree.panes[p].window) \/ KeepsPane(p)
             /\ \A w \in DOMAIN tree.windows :
                  AimedAt(c, w) \/ KeepsWindow(w) \/ \A p \in PanesIn(tree, w) : PaneAimedAt(c, p))
  BY <1>1
<1> QED BY <1>2, Inductive, PTL DEF Spec, ActsOnTheListed

\* A command for the name of a session may change that session.
LEMMA HitsTheNamed ==
  ASSUME NEW t, IsServer(t), NEW c, NEW N, NEW I, Fits(N, I, c), NEW n \in N,
         n[1] \notin Sigils \cup {"="}, NEW s \in DOMAIN t.sessions, t.sessions[s] = n
  PROVE  /\ SessionsHit(t, c) \subseteq {s} /\ PanesHit(t, c) = {}
         /\ \A w \in WindowsHit(t, c) : t.windows[w].session = s \/ Id("@", w) \in I
<1>1. SessionsOf(t, n) \subseteq {s}
  <2>1. n \in Range(t.sessions)
    BY DEF Range
  <2>2. Meant(n, Range(t.sessions)) = {n}
    BY <2>1 DEF Meant
  <2>3. \A r \in DOMAIN t.sessions : t.sessions[r] = n => r = s
    BY DEF IsServer, WellFormed
  <2>4. ~IsClient(t, n)
    <3>1. n # <<"=">> \o Tty
      <4>1. Tty \in Seq(Characters)
        BY CommandsAssumption DEF Text
      <4>2. (<<"=">> \o Tty)[1] = "="
        BY <4>1
      <4> QED BY <4>2
    <3> QED BY <2>1, <3>1 DEF IsClient
  <2>5. SessionsOf(t, n) \subseteq {r \in DOMAIN t.sessions : t.sessions[r] \in {n}}
    BY <2>2, <2>4 DEF SessionsOf
  <2> QED BY <2>3, <2>5
<1>2. c.op \in {"rename-session", "attach-session", "kill-session", "switch-client"} => c.target = n
  BY DEF Fits
<1>3. SessionsHit(t, c) \subseteq {s}
  BY <1>1, <1>2 DEF SessionsHit
<1>4. PanesHit(t, c) = {}
  BY DEF PanesHit, Fits
<1>5. ASSUME NEW w \in WindowsHit(t, c)
      PROVE  t.windows[w].session = s \/ Id("@", w) \in I
  <2>1. CASE c.op = "kill-session"
    <3>1. w \in UNION {WindowsIn(t, r) : r \in SessionsOf(t, n)}
      BY <1>2, <2>1 DEF WindowsHit
    <3> QED BY <1>1, <3>1 DEF WindowsIn
  <2>2. CASE c.op # "kill-session"
    <3>1. I # {}
      BY <2>2 DEF WindowsHit, Fits
    <3> QED BY <3>1, HitsTheListed
  <2> QED BY <2>1, <2>2
<1> QED BY <1>3, <1>4, <1>5

\* A command for a session acts on the one of exactly that name when there is one.
THEOREM NamedExactly == Spec => ExactNameWins
<1>1. ASSUME IInv, [Next]_vars, NEW c \in pending \cup late, NEW n \in c.names, NEW s \in Named(n),
             Executes(c), n[1] \notin Sigils \cup {"="}
      PROVE  /\ \A w \in DOMAIN tree.windows :
                  tree.windows[w].session = s \/ AimedAt(c, w) \/ KeepsWindow(w)
             /\ \A x \in DOMAIN tree.sessions \cap DOMAIN tree'.sessions :
                  x # s => tree'.sessions[x] = tree.sessions[x]
             /\ tree'.client \subseteq tree.client \cup {s}
  <2> DEFINE S == SessionsHit(tree, c.command)
             W == WindowsHit(tree, c.command)
             P == PanesHit(tree, c.command)
  <2>1. IsServer(tree) /\ Fits(c.names, c.ids, c.command) /\ Touches(tree, tree', S, W, P)
    BY <1>1, ExecutedTouches
  <2>2. s \in DOMAIN tree.sessions /\ tree.sessions[s] = n
    BY DEF Named
  <2>3. /\ S \subseteq {s} /\ P = {}
        /\ \A w \in W : tree.windows[w].session = s \/ AimedAt(c, w)
    BY <1>1, <2>1, <2>2, HitsTheNamed DEF AimedAt
  <2> HIDE DEF S, W, P
  <2>4. ASSUME NEW w \in DOMAIN tree.windows
        PROVE  tree.windows[w].session = s \/ AimedAt(c, w) \/ KeepsWindow(w)
    <3>1. PanesIn(tree, w) # {}
      BY <2>1 DEF IsServer, NothingEmpty
    <3>2. w \in W \/ (w \in DOMAIN tree'.windows /\ SameWindow(tree'.windows[w], tree.windows[w]))
      BY <2>1, <2>3, <3>1 DEF Touches
    <3> QED BY <2>3, <3>2 DEF KeepsWindow, SameWindow
  <2>5. \A x \in DOMAIN tree.sessions \cap DOMAIN tree'.sessions :
          x # s => tree'.sessions[x] = tree.sessions[x]
    BY <2>1, <2>3 DEF Touches
  <2>6. tree'.client \subseteq tree.client \cup {s}
    BY <2>1, <2>3 DEF Touches
  <2> QED BY <2>4, <2>5, <2>6
<1>2. IInv /\ [Next]_vars =>
        (\A c \in pending \cup late : \A n \in c.names : \A s \in Named(n) :
           (Executes(c) /\ c.command.op # "new-window" /\ n[1] \notin Sigils \cup {"="}) =>
             /\ \A w \in DOMAIN tree.windows :
                  tree.windows[w].session = s \/ AimedAt(c, w) \/ KeepsWindow(w)
             /\ \A x \in DOMAIN tree.sessions \cap DOMAIN tree'.sessions :
                  x # s => tree'.sessions[x] = tree.sessions[x]
             /\ tree'.client \subseteq tree.client \cup {s})
  BY <1>1
<1> QED BY <1>2, Inductive, PTL DEF Spec, ExactNameWins
=================================================================================

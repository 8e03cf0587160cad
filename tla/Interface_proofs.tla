----------------------------- MODULE Interface_proofs -----------------------------
(***************************************************************************)
(* What the user interface makes of what is typed: the filter and the      *)
(* command line.                                                           *)
(*                                                                         *)
(* The filter scores a row exactly if it matches the buffer as it is, a    *)
(* row that the buffer begins scores highest, and typing on never brings a *)
(* row back: for every alphabet, and buffers and rows of every length.     *)
(*                                                                         *)
(* The loop of score() is a fold, whose value is a CHOOSE.  States of the  *)
(* loop after each character are taken from it (LoopStates), and what they *)
(* are is shown by induction over the characters, as a loop invariant: the *)
(* characters matched are as many as can be found so far (Greedy), and no  *)
(* score is above that of a row which begins with them (Dominates).        *)
(*                                                                         *)
(* The command line reads any two words back that it has quoted, completes *)
(* a name without touching its arguments, and an argument without touching *)
(* the words before it.  Tokenizer and quoting are folds too; what they    *)
(* come to after one more character is ScanOneMore and EscapesOneMore, and *)
(* texts are taken apart by TextInduction.  Two facts carry the rest: a    *)
(* quoted word is read into the word begun, whatever stands before it      *)
(* (ScanQuoted), and the words before a blank do not matter to what        *)
(* follows it (ScannedBehind).                                             *)
(***************************************************************************)
EXTENDS Filter, Cmdmode, FiniteSets, WellFoundedInduction, TLAPS

\* A set of numbers that is not empty has a least one.
LEMMA LeastNumber ==
  ASSUME NEW T, T \subseteq Nat, T # {}
  PROVE  \E x \in T : \A y \in T : x <= y
<1> DEFINE R == {ss \in Nat \X Nat : ss[1] < ss[2]}
<1>1. IsWellFoundedOn(R, Nat)
  BY NatLessThanWellFounded DEF OpToRel
<1>2. ASSUME NEW y \in Nat, NEW x \in Nat, y < x
      PROVE  <<y, x>> \in R
  BY <1>2
<1> HIDE DEF R
<1>3. PICK x \in T : \A y \in T : ~(<<y, x>> \in R)
  BY <1>1, WFMin
<1>4. \A y \in T : ~(y < x)
  BY <1>3, <1>2
<1> QED BY <1>4

\* Induction, for a set in place of a property.
LEMMA SetInduction ==
  ASSUME NEW S, 0 \in S, \A n \in Nat : n \in S => n + 1 \in S
  PROVE  Nat \subseteq S
<1>1. SUFFICES ASSUME Nat \ S # {} PROVE FALSE
  OBVIOUS
<1>2. PICK x \in Nat \ S : \A y \in Nat \ S : x <= y
  BY <1>1, LeastNumber
<1>3. x # 0 /\ x - 1 \in Nat
  BY <1>2
<1>4. x - 1 \in S
  BY <1>2, <1>3
<1> QED BY <1>3, <1>4

(***************************************************************************)
(* The loop of score()                                                     *)
(***************************************************************************)
Unmatched == [matched |-> 0, score |-> 0, run |-> FALSE]

\* The recursive function the fold takes the value of, on the indices S.
Loops(g, c, hay, S) ==
  g = [s \in SUBSET S |-> IF s = {} THEN Unmatched
                          ELSE MatchAt(c, hay, g[s \ {Max(s)}], Max(s))]

Folded(c, hay) == FoldLeftDomain(LAMBDA t, hi : MatchAt(c, hay, t, hi), Unmatched, hay)

LEMMA ScoredIs ==
  ASSUME NEW c, NEW hay
  PROVE  Scored(c, hay) = IF Folded(c, hay).matched = Len(c.folded)
                          THEN {Folded(c, hay).score} ELSE {}
BY DEF Scored, Unmatched, Folded

\* That function as the library writes it: over the sequence of indices.
Indices(hay) == [i \in DOMAIN hay |-> i]
Indexed(g, c, hay, index) ==
  g = [s \in SUBSET DOMAIN index |->
         IF s = {} THEN Unmatched ELSE MatchAt(c, hay, g[s \ {Max(s)}], index[Max(s)])]

LEMMA FoldIs ==
  ASSUME NEW c, NEW hay
  PROVE  Folded(c, hay)
           = (CHOOSE g : Indexed(g, c, hay, Indices(hay)))[DOMAIN Indices(hay)]
BY DEF Folded, FoldLeftDomain, FoldLeft, MapThenFoldSet, Indexed, Indices

LEMMA Interval ==
  ASSUME NEW n \in Nat
  PROVE  /\ 1 .. n + 1 \in SUBSET (1 .. n + 1)
         /\ n + 1 \in 1 .. n + 1
         /\ 1 .. n + 1 # {}
         /\ (1 .. n + 1) \ {n + 1} = 1 .. n
<1>1. n + 1 \in 1 .. n + 1
  OBVIOUS
<1>2. ASSUME NEW i \in 1 .. n + 1, i # n + 1
      PROVE  i \in 1 .. n
  BY <1>2
<1>3. \A i \in 1 .. n : i \in 1 .. n + 1 /\ i # n + 1
  OBVIOUS
<1>4. (1 .. n + 1) \ {n + 1} = 1 .. n
  BY <1>2, <1>3
<1> QED BY <1>1, <1>4

LEMMA Greatest ==
  ASSUME NEW n \in Nat, NEW s \in SUBSET (1 .. n + 1), n + 1 \in s
  PROVE  Max(s) = n + 1
<1>1. \A y \in s : n + 1 >= y
  OBVIOUS
<1>2. \A x \in s : (\A y \in s : x >= y) => x = n + 1
  BY <1>1
<1> QED BY <1>1, <1>2 DEF Max

LEMMA GreatestIn ==
  ASSUME NEW n \in Nat, NEW s \in SUBSET (1 .. n), s # {}
  PROVE  Max(s) \in s /\ \A y \in s : Max(s) >= y
<1> DEFINE T == {n - x : x \in s}
<1>1. T \subseteq Nat /\ T # {}
  OBVIOUS
<1>2. PICK d \in T : \A y \in T : d <= y
  BY <1>1, LeastNumber
<1>3. PICK x \in s : d = n - x
  BY <1>2
<1>4. \A y \in s : x >= y
  <2> TAKE y \in s
  <2>1. d <= n - y
    BY <1>2
  <2> QED BY <2>1, <1>3
<1>5. \E m \in s : \A y \in s : m >= y
  BY <1>4
<1> QED BY <1>5 DEF Max

LEMMA LoopExists ==
  ASSUME NEW c, NEW hay
  PROVE  \A n \in Nat : \E g : Loops(g, c, hay, 1 .. n)
<1> DEFINE S == {n \in Nat : \E g : Loops(g, c, hay, 1 .. n)}
<1>1. 0 \in S
  <2> DEFINE g == [s \in SUBSET (1 .. 0) |-> Unmatched]
  <2>1. \A s \in SUBSET (1 .. 0) : s = {}
    OBVIOUS
  <2>2. Loops(g, c, hay, 1 .. 0)
    BY <2>1 DEF Loops
  <2> QED BY <2>2
<1>2. ASSUME NEW n \in Nat, n \in S
      PROVE  n + 1 \in S
  <2>1. PICK g : Loops(g, c, hay, 1 .. n)
    BY <1>2
  <2> DEFINE h == [s \in SUBSET (1 .. n + 1) |->
                     IF n + 1 \in s THEN MatchAt(c, hay, g[s \ {n + 1}], n + 1) ELSE g[s]]
             Next1(s) == IF s = {} THEN Unmatched ELSE MatchAt(c, hay, h[s \ {Max(s)}], Max(s))
  <2>2. ASSUME NEW s \in SUBSET (1 .. n + 1), n + 1 \in s
        PROVE  h[s] = Next1(s)
    <3>1. Max(s) = n + 1
      BY <2>2, Greatest
    <3>2. s \ {n + 1} \in SUBSET (1 .. n + 1) /\ n + 1 \notin s \ {n + 1}
      OBVIOUS
    <3>3. h[s \ {n + 1}] = g[s \ {n + 1}]
      BY <3>2
    <3>4. h[s] = MatchAt(c, hay, g[s \ {n + 1}], n + 1)
      BY <2>2
    <3> HIDE DEF h
    <3> QED BY <3>1, <3>3, <3>4, <2>2
  <2>3. ASSUME NEW s \in SUBSET (1 .. n + 1), n + 1 \notin s
        PROVE  h[s] = Next1(s)
    <3>1. s \in SUBSET (1 .. n)
      BY <2>3
    <3>2. h[s] = g[s]
      BY <2>3
    <3>3. g[s] = IF s = {} THEN Unmatched ELSE MatchAt(c, hay, g[s \ {Max(s)}], Max(s))
      BY <3>1, <2>1 DEF Loops
    <3>4. s \ {Max(s)} \in SUBSET (1 .. n + 1) /\ n + 1 \notin s \ {Max(s)}
      BY <2>3
    <3>5. h[s \ {Max(s)}] = g[s \ {Max(s)}]
      BY <3>4
    <3> HIDE DEF h
    <3> QED BY <3>2, <3>3, <3>5
  <2>4. \A s \in SUBSET (1 .. n + 1) : h[s] = Next1(s)
    BY <2>2, <2>3
  <2>5. h = [s \in SUBSET (1 .. n + 1) |-> h[s]]
    OBVIOUS
  <2>6. h = [s \in SUBSET (1 .. n + 1) |-> Next1(s)]
    <3> HIDE DEF h
    <3> QED BY <2>4, <2>5
  <2>7. Loops(h, c, hay, 1 .. n + 1)
    <3> HIDE DEF h
    <3> QED BY <2>6 DEF Loops
  <2>8. \E f : Loops(f, c, hay, 1 .. n + 1)
    <3> HIDE DEF h
    <3> QED BY <2>7
  <2> QED BY <2>8
<1>3. Nat \subseteq S
  <2> HIDE DEF S
  <2> QED BY <1>1, <1>2, SetInduction
<1> QED BY <1>3

\* after[n] is the state of the loop when n characters of hay were read.
IsRun(after, c, hay) ==
  /\ after[0] = Unmatched
  /\ \A n \in 0 .. Len(hay) - 1 : after[n + 1] = MatchAt(c, hay, after[n], n + 1)

LEMMA LoopStates ==
  ASSUME NEW c, NEW hay \in Seq(Chars)
  PROVE  \E after : /\ IsRun(after, c, hay)
                    /\ Scored(c, hay) = IF after[Len(hay)].matched = Len(c.folded)
                                        THEN {after[Len(hay)].score} ELSE {}
<1> DEFINE n == Len(hay)
           index == Indices(hay)
           g0 == CHOOSE g : Indexed(g, c, hay, Indices(hay))
<1>1. n \in Nat /\ DOMAIN hay = 1 .. n /\ DOMAIN index = 1 .. n
  BY DEF Indices
<1>2. \A s \in SUBSET (1 .. n) : s # {} => index[Max(s)] = Max(s)
  BY <1>1, GreatestIn DEF Indices
<1>3. ASSUME NEW g PROVE Indexed(g, c, hay, index) <=> Loops(g, c, hay, 1 .. n)
  <2> DEFINE A(s) == IF s = {} THEN Unmatched ELSE MatchAt(c, hay, g[s \ {Max(s)}], index[Max(s)])
             B(s) == IF s = {} THEN Unmatched ELSE MatchAt(c, hay, g[s \ {Max(s)}], Max(s))
  <2>1. \A s \in SUBSET (1 .. n) : A(s) = B(s)
    <3> HIDE DEF index
    <3> QED BY <1>2
  <2>2. [s \in SUBSET (1 .. n) |-> A(s)] = [s \in SUBSET (1 .. n) |-> B(s)]
    <3> HIDE DEF A, B
    <3> QED BY <2>1
  <2>3. Indexed(g, c, hay, index) <=> g = [s \in SUBSET (1 .. n) |-> A(s)]
    <3> HIDE DEF index
    <3> QED BY <1>1 DEF Indexed
  <2>4. Loops(g, c, hay, 1 .. n) <=> g = [s \in SUBSET (1 .. n) |-> B(s)]
    BY DEF Loops
  <2> HIDE DEF A, B
  <2> QED BY <2>2, <2>3, <2>4
<1>4. \E g : Indexed(g, c, hay, index)
  BY <1>1, <1>3, LoopExists
<1>5. Loops(g0, c, hay, 1 .. n)
  <2>1. Indexed(g0, c, hay, index)
    BY <1>4
  <2> HIDE DEF g0
  <2> QED BY <1>3, <2>1
<1>6. Folded(c, hay) = g0[1 .. n]
  <2>1. Folded(c, hay) = g0[DOMAIN index]
    BY FoldIs
  <2> HIDE DEF g0, index
  <2> QED BY <1>1, <2>1
<1> DEFINE after == [m \in 0 .. n |-> g0[1 .. m]]
<1> HIDE DEF g0
<1>7. after[0] = Unmatched
  <2>1. 1 .. 0 = {} /\ {} \in SUBSET (1 .. n) /\ 0 \in 0 .. n
    BY <1>1
  <2>2. g0[{}] = Unmatched
    BY <1>5, <2>1 DEF Loops
  <2> QED BY <2>1, <2>2
<1>8. ASSUME NEW m \in 0 .. n - 1
      PROVE  after[m + 1] = MatchAt(c, hay, after[m], m + 1)
  <2> DEFINE J == 1 .. m + 1
  <2>1. m \in Nat /\ m \in 0 .. n /\ m + 1 \in 0 .. n /\ J \in SUBSET (1 .. n)
    BY <1>1, <1>8
  <2>2. J # {} /\ J \ {m + 1} = 1 .. m
    BY <2>1, Interval
  <2>3. Max(J) = m + 1
    BY <2>1, Interval, Greatest
  <2> HIDE DEF J
  <2>4. g0[J] = MatchAt(c, hay, g0[1 .. m], m + 1)
    BY <1>5, <2>1, <2>2, <2>3 DEF Loops
  <2>5. after[m + 1] = g0[J] /\ after[m] = g0[1 .. m]
    BY <2>1 DEF J
  <2> HIDE DEF after
  <2> QED BY <2>4, <2>5
<1>9. after[n] = g0[1 .. n]
  BY <1>1
<1>10. Scored(c, hay) = IF after[n].matched = Len(c.folded) THEN {after[n].score} ELSE {}
  <2> HIDE DEF after
  <2> QED BY <1>6, <1>9, ScoredIs
<1> HIDE DEF after
<1>11. IsRun(after, c, hay)
  BY <1>7, <1>8 DEF IsRun
<1> QED BY <1>10, <1>11


(***************************************************************************)
(* The first occurrence of each character is as good as any                *)
(***************************************************************************)
\* The first m characters of the pattern are found among the first n of the row.
Places(c, hay, m, n, at) ==
  /\ at \in [1 .. m -> 1 .. n]
  /\ \A i, j \in 1 .. m : i < j => at[i] < at[j]
  /\ \A i \in 1 .. m : Seen(c, hay, at[i]) = c.folded[i]
Embeds(c, hay, m, n) == \E at : Places(c, hay, m, n, at)

LEMMA EmbedsNone ==
  ASSUME NEW c, NEW hay, NEW n \in Nat
  PROVE  Embeds(c, hay, 0, n)
<1>1. \A i \in 1 .. 0 : FALSE
  OBVIOUS
<1>2. Places(c, hay, 0, n, [i \in 1 .. 0 |-> i])
  BY <1>1 DEF Places
<1> QED BY <1>2 DEF Embeds

LEMMA EmbedsMore ==
  ASSUME NEW c, NEW hay, NEW m \in Nat, NEW n \in Nat,
         Embeds(c, hay, m, n), Seen(c, hay, n + 1) = c.folded[m + 1]
  PROVE  Embeds(c, hay, m + 1, n + 1)
<1>1. PICK at : Places(c, hay, m, n, at)
  BY DEF Embeds
<1> DEFINE at1 == [i \in 1 .. m + 1 |-> IF i = m + 1 THEN n + 1 ELSE at[i]]
<1>2. \A i \in 1 .. m + 1 : i = m + 1 \/ i \in 1 .. m
  OBVIOUS
<1>3. at1 \in [1 .. m + 1 -> 1 .. n + 1]
  BY <1>1, <1>2 DEF Places
<1>4. \A i \in 1 .. m : at1[i] = at[i] /\ at[i] \in 1 .. n
  BY <1>1 DEF Places
<1>5. at1[m + 1] = n + 1
  OBVIOUS
<1> HIDE DEF at1
<1>6. ASSUME NEW i \in 1 .. m + 1, NEW j \in 1 .. m + 1, i < j
      PROVE  at1[i] < at1[j]
  <2>1. i \in 1 .. m
    BY <1>6
  <2>2. CASE j = m + 1
    BY <1>4, <1>5, <2>1, <2>2
  <2>3. CASE j \in 1 .. m
    BY <1>1, <1>4, <1>6, <2>1, <2>3 DEF Places
  <2> QED BY <1>2, <2>2, <2>3
<1>7. ASSUME NEW i \in 1 .. m + 1
      PROVE  Seen(c, hay, at1[i]) = c.folded[i]
  <2>1. CASE i = m + 1
    BY <1>5, <2>1
  <2>2. CASE i \in 1 .. m
    BY <1>1, <1>4, <2>2 DEF Places
  <2> QED BY <1>2, <2>1, <2>2
<1>8. Places(c, hay, m + 1, n + 1, at1)
  BY <1>3, <1>6, <1>7 DEF Places
<1> QED BY <1>8 DEF Embeds

\* Without the last character, and without the last place if that is not it.
LEMMA EmbedsLess ==
  ASSUME NEW c, NEW hay, NEW m \in Nat, NEW n \in Nat, Embeds(c, hay, m + 1, n + 1)
  PROVE  /\ Embeds(c, hay, m, n)
         /\ Seen(c, hay, n + 1) # c.folded[m + 1] => Embeds(c, hay, m + 1, n)
<1>1. PICK at : Places(c, hay, m + 1, n + 1, at)
  BY DEF Embeds
<1>2. \A i \in 1 .. m : i \in 1 .. m + 1 /\ i < m + 1
  OBVIOUS
<1>3. m + 1 \in 1 .. m + 1 /\ at[m + 1] \in 1 .. n + 1
  BY <1>1 DEF Places
<1>4. \A i \in 1 .. m : at[i] \in 1 .. n + 1 /\ at[i] < at[m + 1]
  BY <1>1, <1>2, <1>3 DEF Places
<1>5. \A i \in 1 .. m : at[i] \in 1 .. n
  BY <1>3, <1>4
<1> DEFINE less == [i \in 1 .. m |-> at[i]]
<1>6. less \in [1 .. m -> 1 .. n] /\ \A i \in 1 .. m : less[i] = at[i]
  BY <1>5
<1> HIDE DEF less
<1>7. Places(c, hay, m, n, less)
  BY <1>1, <1>2, <1>6 DEF Places
<1>8. ASSUME Seen(c, hay, n + 1) # c.folded[m + 1]
      PROVE  Embeds(c, hay, m + 1, n)
  <2>1. at[m + 1] # n + 1
    BY <1>1, <1>3, <1>8 DEF Places
  <2>2. \A i \in 1 .. m + 1 : at[i] \in 1 .. n
    <3> TAKE i \in 1 .. m + 1
    <3>1. i = m + 1 \/ i \in 1 .. m
      OBVIOUS
    <3> QED BY <1>3, <1>5, <2>1, <3>1
  <2>3. at \in [1 .. m + 1 -> 1 .. n]
    BY <1>1, <2>2 DEF Places
  <2>4. Places(c, hay, m + 1, n, at)
    BY <1>1, <2>3 DEF Places
  <2> QED BY <2>4 DEF Embeds
<1> QED BY <1>7, <1>8 DEF Embeds

LEMMA EmbedsLater ==
  ASSUME NEW c, NEW hay, NEW m \in Nat, NEW n \in Nat, Embeds(c, hay, m, n)
  PROVE  Embeds(c, hay, m, n + 1)
<1>1. PICK at : Places(c, hay, m, n, at)
  BY DEF Embeds
<1>2. at \in [1 .. m -> 1 .. n + 1]
  BY <1>1 DEF Places
<1>3. Places(c, hay, m, n + 1, at)
  BY <1>1, <1>2 DEF Places
<1> QED BY <1>3 DEF Embeds

States == [matched : Nat, score : Nat, run : BOOLEAN]

\* In state t, after n characters, as much is matched as can be.
Greedy(c, hay, t, n) ==
  /\ t \in States
  /\ t.matched <= Len(c.folded)
  /\ Embeds(c, hay, t.matched, n)
  /\ \A k \in 0 .. Len(c.folded) : Embeds(c, hay, k, n) => k <= t.matched

LEMMA BonusIs ==
  ASSUME NEW hay, NEW t, NEW n \in Nat
  PROVE  /\ Bonus(hay, t, n + 1) \in Nat
         /\ Bonus(hay, t, n + 1) = 16 + (IF t.run THEN 32 ELSE 0)
              + (IF n = 0 THEN 32 ELSE IF hay[n] \in Boundaries THEN 8 ELSE 0)
<1>1. (n + 1 = 1 <=> n = 0) /\ n + 1 - 1 = n
  OBVIOUS
<1> QED BY <1>1 DEF Bonus, BaseBonus, RunBonus, PrefixBonus, WordBoundaryBonus

LEMMA MatchAtIs ==
  ASSUME NEW c, NEW hay, NEW t \in States, NEW n \in Nat
  PROVE  LET u == MatchAt(c, hay, t, n + 1)
         IN /\ u \in States
            /\ Hit(c, hay, t, n + 1) =>
                 u.matched = t.matched + 1 /\ u.score = t.score + Bonus(hay, t, n + 1) /\ u.run
            /\ ~Hit(c, hay, t, n + 1) => u.matched = t.matched /\ u.score = t.score /\ ~u.run
<1> DEFINE hit == [matched |-> t.matched + 1,
                   score |-> t.score + Bonus(hay, t, n + 1), run |-> TRUE]
           miss == [t EXCEPT !.run = FALSE]
<1>1. MatchAt(c, hay, t, n + 1) = IF Hit(c, hay, t, n + 1) THEN hit ELSE miss
  BY DEF MatchAt
<1>2. /\ hit \in States /\ hit.matched = t.matched + 1 /\ hit.run
      /\ hit.score = t.score + Bonus(hay, t, n + 1)
  <2>1. t.score + Bonus(hay, t, n + 1) \in Nat
    BY BonusIs DEF States
  <2>2. ASSUME NEW x \in Nat
        PROVE  LET r == [matched |-> t.matched + 1, score |-> x, run |-> TRUE]
               IN r \in States /\ r.matched = t.matched + 1 /\ r.score = x /\ r.run
    BY DEF States
  <2> QED BY <2>1, <2>2
<1>3. miss \in States /\ miss.matched = t.matched /\ miss.score = t.score /\ ~miss.run
  BY DEF States
<1> HIDE DEF hit, miss
<1> QED BY <1>1, <1>2, <1>3

LEMMA GreedyNext ==
  ASSUME NEW c, Len(c.folded) \in Nat, NEW hay, NEW n \in Nat, NEW t, Greedy(c, hay, t, n)
  PROVE  Greedy(c, hay, MatchAt(c, hay, t, n + 1), n + 1)
<1> DEFINE u == MatchAt(c, hay, t, n + 1)
           L == Len(c.folded)
           m == t.matched
<1> SUFFICES Greedy(c, hay, u, n + 1)
  OBVIOUS
<1>1. t \in States /\ m \in Nat /\ m <= L
  BY DEF Greedy, States
<1>2. CASE Hit(c, hay, t, n + 1)
  <2>1. u.matched = m + 1 /\ u \in States
    BY <1>1, <1>2, MatchAtIs, BonusIs DEF States
  <2> HIDE DEF u
  <2>2. Embeds(c, hay, m + 1, n + 1)
    BY <1>1, <1>2, EmbedsMore DEF Greedy, Hit
  <2>3. ASSUME NEW k \in 0 .. L, Embeds(c, hay, k, n + 1)
        PROVE  k <= m + 1
    <3>1. CASE k = 0
      BY <1>1, <3>1
    <3>2. CASE k # 0
      <4>1. k - 1 \in Nat /\ k - 1 \in 0 .. L /\ (k - 1) + 1 = k
        BY <3>2
      <4>2. Embeds(c, hay, k - 1, n)
        BY <2>3, <4>1, EmbedsLess
      <4>3. k - 1 <= m
        BY <4>1, <4>2 DEF Greedy
      <4> QED BY <1>1, <4>1, <4>3
    <3> QED BY <3>1, <3>2
  <2>4. m + 1 <= L
    BY <1>1, <1>2 DEF Hit
  <2> HIDE DEF L
  <2> QED BY <2>1, <2>2, <2>3, <2>4 DEF Greedy, L
<1>3. CASE ~Hit(c, hay, t, n + 1)
  <2>1. u.matched = m /\ u \in States
    BY <1>1, <1>3, MatchAtIs DEF States
  <2> HIDE DEF u
  <2>2. Embeds(c, hay, m, n + 1)
    BY <1>1, EmbedsLater DEF Greedy
  <2>3. ASSUME NEW k \in 0 .. L, Embeds(c, hay, k, n + 1)
        PROVE  k <= m
    <3>1. CASE k = 0
      BY <1>1, <3>1
    <3>2. CASE k # 0
      <4>1. k - 1 \in Nat /\ k - 1 \in 0 .. L /\ (k - 1) + 1 = k
        BY <3>2
      <4>2. Embeds(c, hay, k - 1, n)
        BY <2>3, <4>1, EmbedsLess
      <4>3. k - 1 <= m
        BY <4>1, <4>2 DEF Greedy
      <4>4. ASSUME k = m + 1 PROVE FALSE
        <5>1. m < L /\ Seen(c, hay, n + 1) # c.folded[m + 1]
          BY <1>1, <1>3, <4>4 DEF Hit
        <5>2. Embeds(c, hay, k, n)
          BY <1>1, <2>3, <4>4, <5>1, EmbedsLess
        <5>3. k <= m
          BY <5>2 DEF Greedy
        <5> QED BY <1>1, <4>4, <5>3
      <4> QED BY <1>1, <4>1, <4>3, <4>4
    <3> QED BY <3>1, <3>2
  <2> QED BY <1>1, <2>1, <2>2, <2>3 DEF Greedy
<1> QED BY <1>2, <1>3

LEMMA RunIsGreedy ==
  ASSUME NEW c, Len(c.folded) \in Nat, NEW hay \in Seq(Chars), NEW after, IsRun(after, c, hay)
  PROVE  \A n \in 0 .. Len(hay) : Greedy(c, hay, after[n], n)
<1> DEFINE S == {n \in Nat : n <= Len(hay) => Greedy(c, hay, after[n], n)}
<1>1. 0 \in S
  <2>1. Embeds(c, hay, 0, 0)
    BY EmbedsNone
  <2>2. \A k \in 0 .. Len(c.folded) : Embeds(c, hay, k, 0) => k <= 0
    <3> SUFFICES ASSUME NEW k \in 0 .. Len(c.folded), Embeds(c, hay, k, 0), k # 0 PROVE FALSE
      OBVIOUS
    <3>1. PICK at : Places(c, hay, k, 0, at)
      BY DEF Embeds
    <3>2. at[1] \in 1 .. 0
      BY <3>1 DEF Places
    <3> QED BY <3>2
  <2>3. Unmatched \in States /\ Unmatched.matched = 0
    BY DEF Unmatched, States
  <2>4. Greedy(c, hay, Unmatched, 0)
    BY <2>1, <2>2, <2>3 DEF Greedy
  <2> QED BY <2>4 DEF IsRun
<1>2. ASSUME NEW n \in Nat, n \in S
      PROVE  n + 1 \in S
  <2> SUFFICES ASSUME n + 1 <= Len(hay) PROVE Greedy(c, hay, after[n + 1], n + 1)
    OBVIOUS
  <2>1. n \in 0 .. Len(hay) - 1 /\ n <= Len(hay)
    OBVIOUS
  <2>2. after[n + 1] = MatchAt(c, hay, after[n], n + 1)
    BY <2>1 DEF IsRun
  <2> QED BY <1>2, <2>1, <2>2, GreedyNext
<1>3. Nat \subseteq S
  <2> HIDE DEF S
  <2> QED BY <1>1, <1>2, SetInduction
<1> QED BY <1>3

\* A row has a score exactly if the pattern is found in it.
LEMMA ScoredIfEmbeds ==
  ASSUME NEW c, Len(c.folded) \in Nat, NEW hay \in Seq(Chars)
  PROVE  Scored(c, hay) # {} <=> Embeds(c, hay, Len(c.folded), Len(hay))
<1>1. PICK after : /\ IsRun(after, c, hay)
                   /\ Scored(c, hay) = IF after[Len(hay)].matched = Len(c.folded)
                                       THEN {after[Len(hay)].score} ELSE {}
  BY LoopStates
<1>2. Greedy(c, hay, after[Len(hay)], Len(hay))
  BY <1>1, RunIsGreedy
<1>3. Scored(c, hay) # {} <=> after[Len(hay)].matched = Len(c.folded)
  BY <1>1
<1>4. Len(c.folded) \in 0 .. Len(c.folded) /\ after[Len(hay)].matched \in Nat
  BY <1>2 DEF Greedy, States
<1> QED BY <1>2, <1>3, <1>4 DEF Greedy


(***************************************************************************)
(* The pattern of a buffer                                                 *)
(***************************************************************************)
LEMMA FoldTypes ==
  /\ \A ch \in Chars : Fold(ch) \in Chars
  /\ \A ch \in Chars : Fold(ch) \in Boundaries <=> ch \in Boundaries
<1>1. ASSUME NEW ch \in Chars
      PROVE  Fold(ch) \in Chars /\ (Fold(ch) \in Boundaries <=> ch \in Boundaries)
  <2>1. CASE ch \in Upper
    <3>1. ToLower[ch] \in Lower
      BY <2>1, FilterAssumption
    <3> QED BY <2>1, <3>1, FilterAssumption DEF Fold, Chars
  <2>2. CASE ch \notin Upper
    BY <2>2 DEF Fold
  <2> QED BY <2>1, <2>2
<1> QED BY <1>1

LEMMA CompiledIs ==
  ASSUME NEW buf \in Seq(Chars)
  PROVE  LET c == Compiled(buf)
         IN /\ c.buffer = buf
            /\ c.caseSensitive <=> \E j \in DOMAIN buf : buf[j] \in Upper
            /\ Len(c.folded) = Len(buf)
            /\ \A i \in DOMAIN buf :
                 c.folded[i] = IF c.caseSensitive THEN buf[i] ELSE Fold(buf[i])
<1> DEFINE lower == [i \in DOMAIN buf |-> Fold(buf[i])]
<1>1. lower \in Seq(Chars) /\ Len(lower) = Len(buf)
  <2>1. \A i \in 1 .. Len(buf) : Fold(buf[i]) \in Chars
    BY FoldTypes
  <2>2. DOMAIN buf = 1 .. Len(buf) /\ Len(buf) \in Nat
    OBVIOUS
  <2> QED BY <2>1, <2>2
<1>2. \A i \in DOMAIN buf : lower[i] = Fold(buf[i])
  OBVIOUS
<1> HIDE DEF lower
<1>3. Compiled(buf) = [buffer |-> buf, caseSensitive |-> NeedsCaseSensitive(buf),
                       folded |-> IF NeedsCaseSensitive(buf) THEN buf ELSE lower]
  BY DEF Compiled, lower
<1> QED BY <1>1, <1>2, <1>3 DEF NeedsCaseSensitive

\* What is compared is the same character, as the filter sees it, ...
LEMMA SameCharacter ==
  ASSUME NEW buf \in Seq(Chars), NEW row \in Seq(Chars), NEW i \in DOMAIN buf, NEW n \in DOMAIN row
  PROVE  Seen(Compiled(buf), row, n) = Compiled(buf).folded[i]
           <=> IF \E j \in DOMAIN buf : buf[j] \in Upper THEN row[n] = buf[i]
               ELSE Fold(row[n]) = Fold(buf[i])
BY CompiledIs DEF Seen

\* ... and bounds a word only if it does.
LEMMA SameBoundary ==
  ASSUME NEW buf \in Seq(Chars), NEW row \in Seq(Chars), NEW i \in DOMAIN buf, NEW n \in DOMAIN row,
         Seen(Compiled(buf), row, n) = Compiled(buf).folded[i]
  PROVE  row[n] \in Boundaries <=> buf[i] \in Boundaries
<1>1. buf[i] \in Chars /\ row[n] \in Chars
  OBVIOUS
<1> QED BY <1>1, SameCharacter, FoldTypes

LEMMA MatchesIfEmbeds ==
  ASSUME NEW buf \in Seq(Chars), buf # <<>>, NEW row \in Seq(Chars)
  PROVE  Matches(buf, row) <=> Embeds(Compiled(buf), row, Len(buf), Len(row))
<1> DEFINE same(i, n) == IF \E j \in DOMAIN buf : buf[j] \in Upper THEN row[n] = buf[i]
                         ELSE Fold(row[n]) = Fold(buf[i])
<1>1. DOMAIN buf = 1 .. Len(buf) /\ DOMAIN row = 1 .. Len(row)
  OBVIOUS
<1>2. \A i \in DOMAIN buf, n \in DOMAIN row :
        Seen(Compiled(buf), row, n) = Compiled(buf).folded[i] <=> same(i, n)
  BY SameCharacter
<1>3. Matches(buf, row) <=>
        \E at \in [DOMAIN buf -> DOMAIN row] :
          /\ \A i, j \in DOMAIN buf : i < j => at[i] < at[j]
          /\ \A i \in DOMAIN buf : same(i, at[i])
  BY DEF Matches
<1> HIDE DEF same
<1>4. ASSUME NEW at \in [DOMAIN buf -> DOMAIN row], NEW i \in DOMAIN buf
      PROVE  same(i, at[i]) <=> Seen(Compiled(buf), row, at[i]) = Compiled(buf).folded[i]
  BY <1>2
<1> QED BY <1>1, <1>3, <1>4 DEF Embeds, Places

\* A row has a value exactly if it matches.
LEMMA ValueIfMatches ==
  ASSUME NEW row \in Seq(Chars), buffer \in Seq(Chars)
  PROVE  Value(row) # {} <=> Matches(buffer, row)
<1>1. CASE buffer = <<>>
  BY <1>1 DEF Value, Matches
<1>2. CASE buffer # <<>>
  <2>1. Len(Compiled(buffer).folded) = Len(buffer) /\ Len(buffer) \in Nat
    BY CompiledIs
  <2> QED BY <1>2, <2>1, MatchesIfEmbeds, ScoredIfEmbeds DEF Value
<1> QED BY <1>1, <1>2

ValuesAreMatches ==
  buffer \in Seq(Chars) => \A row \in Seq(Chars) : Value(row) # {} <=> Matches(buffer, row)

LEMMA AllValues == ValuesAreMatches
BY ValueIfMatches DEF ValuesAreMatches

\* What matches with one more character matches without it.
LEMMA MatchesLess ==
  ASSUME NEW buf \in Seq(Chars), buf # <<>>, NEW ch \in Chars, NEW row,
         Matches(Append(buf, ch), row)
  PROVE  Matches(buf, row)
<1> DEFINE more == Append(buf, ch)
           strict == \E j \in DOMAIN buf : buf[j] \in Upper
           strictly == \E j \in DOMAIN more : more[j] \in Upper
<1>1. /\ DOMAIN buf \subseteq DOMAIN more
      /\ \A i \in DOMAIN buf : more[i] = buf[i]
  OBVIOUS
<1> HIDE DEF more
<1>2. PICK at \in [DOMAIN more -> DOMAIN row] :
        /\ \A i, j \in DOMAIN more : i < j => at[i] < at[j]
        /\ \A i \in DOMAIN more :
             IF strictly THEN row[at[i]] = more[i] ELSE Fold(row[at[i]]) = Fold(more[i])
  BY DEF Matches, more
<1>3. strict => strictly
  BY <1>1
<1> DEFINE less == [i \in DOMAIN buf |-> at[i]]
<1>4. /\ less \in [DOMAIN buf -> DOMAIN row]
      /\ \A i \in DOMAIN buf : less[i] = at[i]
  BY <1>1
<1> HIDE DEF less
<1>5. \A i, j \in DOMAIN buf : i < j => less[i] < less[j]
  BY <1>1, <1>2, <1>4
<1>6. \A i \in DOMAIN buf :
        IF strict THEN row[less[i]] = buf[i] ELSE Fold(row[less[i]]) = Fold(buf[i])
  <2> HIDE DEF strict, strictly
  <2> QED BY <1>1, <1>2, <1>3, <1>4
<1> QED BY <1>4, <1>5, <1>6 DEF Matches


(***************************************************************************)
(* A row the buffer begins scores highest                                  *)
(***************************************************************************)
Begins(buf, row) == Len(buf) <= Len(row) /\ \A i \in 1 .. Len(buf) : row[i] = buf[i]

LEMMA PrefixBegins ==
  ASSUME NEW buf \in Seq(Chars), NEW row \in Seq(Chars), IsPrefix(buf, row)
  PROVE  Begins(buf, row)
<1>1. Len(buf) <= Len(row) /\ SubSeq(buf, 1, Len(buf)) = SubSeq(row, 1, Len(buf))
  BY DEF IsPrefix
<1>2. \A i \in 1 .. Len(buf) : /\ SubSeq(buf, 1, Len(buf))[i] = buf[i]
                               /\ SubSeq(row, 1, Len(buf))[i] = row[i]
  BY <1>1
<1> QED BY <1>1, <1>2 DEF Begins

\* On such a row every character is matched at once, in one run.
Perfect(buf, row, best, m) ==
  /\ best[m].matched = m
  /\ best[m].run <=> m # 0
  /\ best[m] \in States

LEMMA BestIsPerfect ==
  ASSUME NEW buf \in Seq(Chars), NEW row \in Seq(Chars), Begins(buf, row),
         NEW best, IsRun(best, Compiled(buf), row)
  PROVE  /\ \A m \in 0 .. Len(buf) : Perfect(buf, row, best, m)
         /\ \A m \in 0 .. Len(buf) - 1 :
              best[m + 1].score = best[m].score + Bonus(row, best[m], m + 1)
<1> DEFINE c == Compiled(buf)
           L == Len(buf)
           S == {m \in Nat : m <= L => Perfect(buf, row, best, m)}
<1>1. L \in Nat /\ Len(row) \in Nat /\ L <= Len(row) /\ Len(c.folded) = L
  BY CompiledIs DEF Begins
<1> HIDE DEF c
<1>2. ASSUME NEW m \in 0 .. L - 1, Perfect(buf, row, best, m)
      PROVE  /\ Perfect(buf, row, best, m + 1)
             /\ best[m + 1].score = best[m].score + Bonus(row, best[m], m + 1)
  <2>1. m \in Nat /\ m \in 0 .. Len(row) - 1 /\ m + 1 \in DOMAIN buf /\ m + 1 \in DOMAIN row
    BY <1>1
  <2>2. best[m + 1] = MatchAt(c, row, best[m], m + 1)
    BY <2>1 DEF IsRun, c
  <2>3. row[m + 1] = buf[m + 1]
    BY <1>1, <2>1 DEF Begins
  <2>4. Seen(c, row, m + 1) = c.folded[m + 1]
    BY <2>1, <2>3, SameCharacter DEF c
  <2>5. Hit(c, row, best[m], m + 1)
    BY <1>1, <1>2, <2>1, <2>4 DEF Hit, Perfect
  <2> QED BY <1>2, <2>1, <2>2, <2>5, MatchAtIs DEF Perfect
<1>3. 0 \in S
  <2>1. Unmatched \in States /\ Unmatched.matched = 0 /\ ~Unmatched.run
    BY DEF Unmatched, States
  <2> QED BY <2>1 DEF IsRun, Perfect
<1>4. ASSUME NEW m \in Nat, m \in S PROVE m + 1 \in S
  BY <1>1, <1>2, <1>4
<1>5. Nat \subseteq S
  <2> HIDE DEF S
  <2> QED BY <1>3, <1>4, SetInduction
<1>6. \A m \in 0 .. L : Perfect(buf, row, best, m)
  BY <1>1, <1>5
<1>7. \A m \in 0 .. L - 1 : best[m + 1].score = best[m].score + Bonus(row, best[m], m + 1)
  BY <1>1, <1>2, <1>6
<1> QED BY <1>6, <1>7

\* The rest of the row adds nothing.
LEMMA BestStays ==
  ASSUME NEW buf \in Seq(Chars), NEW row \in Seq(Chars), Begins(buf, row),
         NEW best, IsRun(best, Compiled(buf), row)
  PROVE  best[Len(row)].matched = Len(buf) /\ best[Len(row)].score = best[Len(buf)].score
<1> DEFINE c == Compiled(buf)
           L == Len(buf)
           Same(n) == /\ best[n] \in States /\ best[n].matched = L
                      /\ best[n].score = best[L].score
           S == {d \in Nat : L + d <= Len(row) => Same(L + d)}
<1>1. L \in Nat /\ Len(row) \in Nat /\ L <= Len(row) /\ Len(c.folded) = L
  BY CompiledIs DEF Begins
<1> HIDE DEF c
<1>2. Same(L)
  BY <1>1, BestIsPerfect DEF Perfect
<1>3. 0 \in S
  BY <1>1, <1>2
<1>4. ASSUME NEW d \in Nat, d \in S PROVE d + 1 \in S
  <2> SUFFICES ASSUME L + (d + 1) <= Len(row) PROVE Same(L + (d + 1))
    OBVIOUS
  <2> DEFINE n == L + d
  <2>1. n \in Nat /\ n \in 0 .. Len(row) - 1 /\ L + (d + 1) = n + 1 /\ Same(n)
    BY <1>1, <1>4
  <2> HIDE DEF n
  <2>2. best[n + 1] = MatchAt(c, row, best[n], n + 1)
    BY <2>1 DEF IsRun, c
  <2>3. ~Hit(c, row, best[n], n + 1)
    BY <1>1, <2>1 DEF Hit
  <2> QED BY <2>1, <2>2, <2>3, MatchAtIs
<1>5. Nat \subseteq S
  <2> HIDE DEF S
  <2> QED BY <1>3, <1>4, SetInduction
<1>6. Len(row) - L \in Nat /\ L + (Len(row) - L) = Len(row)
  BY <1>1
<1>7. Same(Len(row))
  <2>1. Len(row) - L \in S
    <3> HIDE DEF S
    <3> QED BY <1>5, <1>6
  <2> QED BY <1>6, <2>1, <1>1
<1> QED BY <1>7

\* On any other row the score never exceeds it for as many characters.
Dominated(buf, best, hay, t, n) ==
  /\ t \in States
  /\ t.matched <= Len(buf)
  /\ t.score <= best[t.matched].score
  /\ t.matched # 0 => n # 0
  /\ t.run => /\ t.matched # 0
              /\ Seen(Compiled(buf), hay, n) = Compiled(buf).folded[t.matched]

LEMMA DominatedNext ==
  ASSUME NEW buf \in Seq(Chars), NEW row \in Seq(Chars), Begins(buf, row),
         NEW best, IsRun(best, Compiled(buf), row),
         NEW hay \in Seq(Chars), NEW n \in 0 .. Len(hay) - 1, NEW t, Dominated(buf, best, hay, t, n)
  PROVE  Dominated(buf, best, hay, MatchAt(Compiled(buf), hay, t, n + 1), n + 1)
<1> DEFINE c == Compiled(buf)
           L == Len(buf)
           u == MatchAt(c, hay, t, n + 1)
           m == t.matched
<1> SUFFICES Dominated(buf, best, hay, u, n + 1)
  OBVIOUS
<1>1. /\ t \in States /\ m \in Nat /\ m <= L /\ t.score \in Nat /\ t.score <= best[m].score
      /\ m # 0 => n # 0
      /\ t.run => m # 0 /\ Seen(c, hay, n) = c.folded[m]
  BY DEF Dominated, States
<1>2. L \in Nat /\ Len(c.folded) = L /\ n \in Nat /\ n + 1 \in Nat
  BY CompiledIs
<1>3. Perfect(buf, row, best, m)
  BY <1>1, <1>2, BestIsPerfect
<1> HIDE DEF c
<1>4. CASE Hit(c, hay, t, n + 1)
  <2>1. /\ u \in States /\ u.matched = m + 1 /\ u.run
        /\ u.score = t.score + Bonus(hay, t, n + 1)
    BY <1>1, <1>2, <1>4, MatchAtIs
  <2>2. m + 1 <= L /\ Seen(c, hay, n + 1) = c.folded[m + 1]
    BY <1>1, <1>2, <1>4 DEF Hit
  <2>3. best[m + 1].score = best[m].score + Bonus(row, best[m], m + 1)
    BY <1>1, <1>2, <2>2, BestIsPerfect
  <2>4. best[m].run <=> m # 0
    BY <1>3 DEF Perfect
  <2>5. Bonus(hay, t, n + 1) = 16 + (IF t.run THEN 32 ELSE 0)
          + (IF n = 0 THEN 32 ELSE IF hay[n] \in Boundaries THEN 8 ELSE 0)
    BY <1>2, BonusIs
  <2>6. Bonus(row, best[m], m + 1) = 16 + (IF m # 0 THEN 32 ELSE 0)
          + (IF m = 0 THEN 32 ELSE IF row[m] \in Boundaries THEN 8 ELSE 0)
    BY <1>1, <2>4, BonusIs
  <2>7. Bonus(hay, t, n + 1) <= Bonus(row, best[m], m + 1)
    <3>1. CASE m = 0
      BY <1>1, <2>5, <2>6, <3>1
    <3>2. CASE m # 0 /\ ~t.run
      BY <1>1, <2>5, <2>6, <3>2
    <3>3. CASE m # 0 /\ t.run
      <4>1. m \in DOMAIN buf /\ n \in DOMAIN hay /\ n # 0
        BY <1>1, <1>2, <3>3
      <4>2. hay[n] \in Boundaries <=> buf[m] \in Boundaries
        BY <1>1, <3>3, <4>1, SameBoundary DEF c
      <4>3. row[m] = buf[m]
        BY <1>1, <1>2, <3>3 DEF Begins
      <4> QED BY <2>5, <2>6, <3>3, <4>1, <4>2, <4>3
    <3> QED BY <3>1, <3>2, <3>3
  <2>8. u.score <= best[m + 1].score
    <3>1. Bonus(hay, t, n + 1) \in Nat /\ Bonus(row, best[m], m + 1) \in Nat
      BY <1>1, <1>2, BonusIs
    <3>2. best[m].score \in Nat
      BY <1>3 DEF Perfect, States
    <3>3. u.score = t.score + Bonus(hay, t, n + 1) /\ t.score \in Nat /\ t.score <= best[m].score
      BY <1>1, <2>1
    <3> QED BY <2>3, <2>7, <3>1, <3>2, <3>3
  <2> HIDE DEF u
  <2>9. n + 1 # 0 /\ m + 1 # 0
    BY <1>1, <1>2
  <2> QED BY <2>1, <2>2, <2>8, <2>9 DEF Dominated, c
<1>5. CASE ~Hit(c, hay, t, n + 1)
  <2>1. u \in States /\ u.matched = m /\ u.score = t.score /\ ~u.run
    BY <1>1, <1>2, <1>5, MatchAtIs
  <2> HIDE DEF u
  <2>2. n + 1 # 0
    BY <1>2
  <2> QED BY <1>1, <2>1, <2>2 DEF Dominated
<1> QED BY <1>4, <1>5

LEMMA RunIsDominated ==
  ASSUME NEW buf \in Seq(Chars), NEW row \in Seq(Chars), Begins(buf, row),
         NEW best, IsRun(best, Compiled(buf), row),
         NEW hay \in Seq(Chars), NEW after, IsRun(after, Compiled(buf), hay)
  PROVE  Dominated(buf, best, hay, after[Len(hay)], Len(hay))
<1> DEFINE S == {n \in Nat : n <= Len(hay) => Dominated(buf, best, hay, after[n], n)}
<1>1. 0 \in S
  <2>1. Unmatched \in States /\ Unmatched.matched = 0 /\ Unmatched.score = 0 /\ ~Unmatched.run
    BY DEF Unmatched, States
  <2>2. after[0] = Unmatched /\ best[0] = Unmatched
    BY DEF IsRun
  <2>3. Dominated(buf, best, hay, Unmatched, 0)
    BY <2>1, <2>2 DEF Dominated
  <2> QED BY <2>2, <2>3
<1>2. ASSUME NEW n \in Nat, n \in S PROVE n + 1 \in S
  <2> SUFFICES ASSUME n + 1 <= Len(hay) PROVE Dominated(buf, best, hay, after[n + 1], n + 1)
    OBVIOUS
  <2>1. n \in 0 .. Len(hay) - 1 /\ Dominated(buf, best, hay, after[n], n)
    BY <1>2
  <2>2. after[n + 1] = MatchAt(Compiled(buf), hay, after[n], n + 1)
    BY <2>1 DEF IsRun
  <2> QED BY <2>1, <2>2, DominatedNext
<1>3. Nat \subseteq S
  <2> HIDE DEF S
  <2> QED BY <1>1, <1>2, SetInduction
<1>4. Len(hay) \in S
  <2> HIDE DEF S
  <2> QED BY <1>3
<1> QED BY <1>4

LEMMA BeginningIsBest ==
  ASSUME NEW buf \in Seq(Chars), NEW row \in Seq(Chars), IsPrefix(buf, row),
         NEW hay \in Seq(Chars), NEW s \in Scored(Compiled(buf), hay)
  PROVE  \E most \in Scored(Compiled(buf), row) : s <= most
<1> DEFINE c == Compiled(buf)
<1>1. PICK best : /\ IsRun(best, c, row)
                  /\ Scored(c, row) = IF best[Len(row)].matched = Len(c.folded)
                                      THEN {best[Len(row)].score} ELSE {}
  BY LoopStates
<1>2. PICK after : /\ IsRun(after, c, hay)
                   /\ Scored(c, hay) = IF after[Len(hay)].matched = Len(c.folded)
                                       THEN {after[Len(hay)].score} ELSE {}
  BY LoopStates
<1>3. Begins(buf, row)
  BY PrefixBegins
<1>4. Len(c.folded) = Len(buf)
  BY CompiledIs
<1> HIDE DEF c
<1>5. after[Len(hay)].matched = Len(buf) /\ s = after[Len(hay)].score
  <2>1. s \in Scored(c, hay)
    BY DEF c
  <2> QED BY <1>2, <1>4, <2>1
<1>6. Dominated(buf, best, hay, after[Len(hay)], Len(hay))
  BY <1>1, <1>2, <1>3, RunIsDominated DEF c
<1>7. s <= best[Len(buf)].score
  BY <1>5, <1>6 DEF Dominated
<1>8. best[Len(row)].matched = Len(buf) /\ best[Len(row)].score = best[Len(buf)].score
  BY <1>1, <1>3, BestStays DEF c
<1>9. Scored(c, row) = {best[Len(buf)].score}
  BY <1>1, <1>4, <1>8
<1> QED BY <1>7, <1>9 DEF c


(***************************************************************************)
(* Keys and scores                                                         *)
(***************************************************************************)
LEMMA BeginningOf ==
  ASSUME NEW s \in Seq(Chars), NEW n \in 0 .. Len(s)
  PROVE  SubSeq(s, 1, n) \in Seq(Chars) /\ Len(SubSeq(s, 1, n)) = n
OBVIOUS

LEMMA WithoutIs ==
  ASSUME NEW s \in Seq(Chars), NEW drop
  PROVE  Without(s, drop) \in Seq(Chars) /\ Len(Without(s, drop)) <= Len(s)
<1> DEFINE Right(n) == /\ \A i \in (n + 1)..Len(s) : s[i] \in drop
                       /\ n > 0 => s[n] \notin drop
           kept == {i \in 1 .. Len(s) : s[i] \notin drop}
<1>1. Len(s) \in Nat
  OBVIOUS
<1>2. \E n \in 0 .. Len(s) : Right(n)
  <2>1. CASE kept = {}
    <3>1. Right(0)
      BY <2>1
    <3> QED BY <1>1, <3>1
  <2>2. CASE kept # {}
    <3>1. kept \in SUBSET (1 .. Len(s))
      OBVIOUS
    <3>2. PICK m \in kept : \A y \in kept : m >= y
      <4> HIDE DEF kept
      <4> QED BY <1>1, <2>2, <3>1, GreatestIn
    <3>3. m \in 1 .. Len(s) /\ s[m] \notin drop
      BY <3>2
    <3>4. \A i \in (m + 1) .. Len(s) : s[i] \in drop
      <4> SUFFICES ASSUME NEW i \in (m + 1) .. Len(s), s[i] \notin drop PROVE FALSE
        OBVIOUS
      <4>1. i \in kept
        BY <1>1, <3>3
      <4> QED BY <1>1, <3>2, <3>3, <4>1
    <3> QED BY <3>3, <3>4
  <2> QED BY <2>1, <2>2
<1> DEFINE keep == CHOOSE n \in 0 .. Len(s) : Right(n)
<1>3. keep \in 0 .. Len(s)
  <2> HIDE DEF Right
  <2> QED BY <1>2
<1>4. Without(s, drop) = SubSeq(s, 1, keep)
  BY DEF Without
<1> HIDE DEF keep
<1>5. SubSeq(s, 1, keep) \in Seq(Chars) /\ Len(SubSeq(s, 1, keep)) = keep
  BY <1>1, <1>3, BeginningOf
<1> QED BY <1>1, <1>3, <1>4, <1>5

\* No key but a character makes the buffer longer, by that character.
LEMMA EditedIs ==
  ASSUME buffer \in Seq(Chars), NEW key \in Keys, key.code = "Char" => key.ch \in Chars
  PROVE  /\ Edited(key) \in Seq(Chars)
         /\ \/ Len(Edited(key)) <= Len(buffer)
            \/ \E ch \in Chars : Edited(key) = Append(buffer, ch)
<1>1. CASE key.code = "Backspace"
  <2>1. CASE buffer = <<>>
    BY <1>1, <2>1 DEF Edited
  <2>2. CASE buffer # <<>>
    <3>1. Edited(key) = SubSeq(buffer, 1, Len(buffer) - 1)
      BY <1>1, <2>2 DEF Edited, Front
    <3>2. Len(buffer) \in Nat /\ Len(buffer) # 0 /\ Len(buffer) - 1 \in 0 .. Len(buffer)
      BY <2>2
    <3>3. /\ SubSeq(buffer, 1, Len(buffer) - 1) \in Seq(Chars)
          /\ Len(SubSeq(buffer, 1, Len(buffer) - 1)) = Len(buffer) - 1
      BY <3>2, BeginningOf
    <3> QED BY <3>1, <3>2, <3>3
  <2> QED BY <2>1, <2>2
<1>2. CASE key.code = "Char"
  BY <1>2 DEF Edited
<1>3. CASE key.code = "CtrlChar" /\ key.ch = "u"
  <2>1. Edited(key) = <<>>
    BY <1>3 DEF Edited
  <2> QED BY <2>1
<1>4. CASE key.code = "CtrlChar" /\ key.ch = "w"
  <2> DEFINE s == Without(buffer, Blanks)
             t == Without(s, Chars \ Blanks)
  <2>1. s \in Seq(Chars) /\ Len(s) <= Len(buffer)
    BY WithoutIs
  <2>2. Edited(key) = t
    BY <1>4 DEF Edited
  <2> HIDE DEF s
  <2>3. t \in Seq(Chars) /\ Len(t) <= Len(s)
    BY <2>1, WithoutIs
  <2> HIDE DEF t
  <2>4. Len(s) \in Nat /\ Len(t) \in Nat /\ Len(buffer) \in Nat
    BY <2>1, <2>3
  <2> QED BY <2>1, <2>2, <2>3, <2>4
<1>5. CASE /\ key.code \notin {"Backspace", "Char"}
           /\ ~(key.code = "CtrlChar" /\ key.ch \in {"u", "w"})
  BY <1>5 DEF Edited
<1> QED BY <1>1, <1>2, <1>3, <1>4, <1>5

TypeOK == active \in BOOLEAN /\ buffer \in Seq(Chars)

\* The cache has one pattern at most, that of some buffer.
Cached ==
  /\ \A c, d \in cache : c = d
  /\ \A c \in cache : \E buf \in Seq(Chars) : c = Compiled(buf)

\* An answer is that of the buffer as it is.
Answered == \A a \in answered : a.row \in Rows /\ a.score = Value(a.row)

IInv == TypeOK /\ Cached /\ Answered

\* What is scored with is the pattern of the buffer, cached or not.
LEMMA EnsuredIs ==
  ASSUME IInv
  PROVE  Ensured = {Compiled(buffer)}
<1>1. CASE \E c \in cache : c.buffer = buffer
  <2>1. PICK c \in cache : c.buffer = buffer
    BY <1>1
  <2>2. PICK buf \in Seq(Chars) : c = Compiled(buf)
    BY <2>1 DEF IInv, Cached
  <2>3. buf = buffer
    BY <2>1, <2>2, CompiledIs
  <2>4. cache = {c}
    BY DEF IInv, Cached
  <2> QED BY <1>1, <2>2, <2>3, <2>4 DEF Ensured
<1>2. CASE ~\E c \in cache : c.buffer = buffer
  BY <1>2 DEF Ensured
<1> QED BY <1>1, <1>2

LEMMA InitInductive == Init => IInv
<1> SUFFICES ASSUME Init PROVE IInv
  OBVIOUS
<1>1. <<>> \in Seq(Chars)
  OBVIOUS
<1> QED BY <1>1 DEF Init, IInv, TypeOK, Cached, Answered

LEMMA StepInductive == IInv /\ [Next]_vars => IInv'
<1> SUFFICES ASSUME IInv, [Next]_vars PROVE IInv'
  OBVIOUS
<1>1. CASE Enter
  <2>1. UNCHANGED <<buffer, cache, answered>> /\ active' = TRUE
    BY <1>1 DEF Enter
  <2>2. \A row : Value(row)' = Value(row)
    BY <2>1 DEF Value
  <2> QED BY <2>1, <2>2 DEF IInv, TypeOK, Cached, Answered
<1>2. ASSUME NEW key \in Keys, HandleKey(key) PROVE IInv'
  <2>1. buffer' \in Seq(Chars)
    BY <1>2, EditedIs DEF HandleKey, IInv, TypeOK
  <2> QED BY <1>2, <2>1 DEF HandleKey, IInv, TypeOK, Cached, Answered
<1>3. ASSUME NEW hay \in Rows, Score(hay) PROVE IInv'
  <2>1. UNCHANGED <<active, buffer>>
    BY <1>3 DEF Score
  <2>2. Value(hay)' = Value(hay)
    BY <2>1 DEF Value
  <2>3. CASE buffer = <<>>
    <3>1. cache' = cache /\ answered' = {[row |-> hay, score |-> {}]}
      BY <1>3, <2>3 DEF Score
    <3> QED BY <2>1, <2>2, <2>3, <3>1 DEF IInv, TypeOK, Cached, Answered, Value
  <2>4. CASE buffer # <<>>
    <3>1. cache' = {Compiled(buffer)}
      BY <1>3, <2>4, EnsuredIs DEF Score
    <3>2. answered' = {[row |-> hay, score |-> Scored(Compiled(buffer), hay)]}
      BY <1>3, <2>4, EnsuredIs DEF Score
    <3>3. Value(hay) = Scored(Compiled(buffer), hay)
      BY <2>4 DEF Value
    <3>4. Cached'
      BY <3>1 DEF Cached, IInv, TypeOK
    <3>5. Answered'
      BY <2>2, <3>2, <3>3 DEF Answered
    <3> QED BY <2>1, <3>4, <3>5 DEF IInv, TypeOK
  <2> QED BY <2>3, <2>4
<1>4. CASE UNCHANGED vars
  <2>1. UNCHANGED <<active, buffer, cache, answered>>
    BY <1>4 DEF vars
  <2>2. \A row : Value(row)' = Value(row)
    BY <2>1 DEF Value
  <2> QED BY <2>1, <2>2 DEF IInv, TypeOK, Cached, Answered
<1> QED BY <1>1, <1>2, <1>3, <1>4 DEF Next

\* The cached pattern is that of a buffer the user had, and an answer is the
\* value the row has for the buffer as it is.
THEOREM Inductive == Spec => []IInv
BY InitInductive, StepInductive, PTL DEF Spec

\* A row is given a score exactly if it matches the buffer as it is now, whatever
\* was typed and scored before.
THEOREM CurrentAnswers == Spec => []AnswersAreCurrent
<1>1. IInv => AnswersAreCurrent
  <2> SUFFICES ASSUME IInv, NEW a \in answered
               PROVE  a.score # {} <=> Matches(buffer, a.row)
    BY DEF AnswersAreCurrent
  <2>1. a.row \in Seq(Chars) /\ a.score = Value(a.row) /\ buffer \in Seq(Chars)
    BY FilterAssumption DEF IInv, Answered, TypeOK
  <2> QED BY <2>1, ValueIfMatches
<1> QED BY <1>1, Inductive, PTL

\* A row the buffer begins, letter for letter, scores as high as any other.
THEOREM BeginningsFirst == Spec => []BeginningsScoreHighest
<1>1. IInv => BeginningsScoreHighest
  <2> SUFFICES ASSUME IInv, NEW row \in Rows, buffer # <<>>, IsPrefix(buffer, row),
                      NEW other \in Rows, NEW s \in Value(other)
               PROVE  \E best \in Value(row) : s <= best
    BY DEF BeginningsScoreHighest
  <2>1. row \in Seq(Chars) /\ other \in Seq(Chars) /\ buffer \in Seq(Chars)
    BY FilterAssumption DEF IInv, TypeOK
  <2>2. Value(row) = Scored(Compiled(buffer), row) /\ s \in Scored(Compiled(buffer), other)
    BY DEF Value
  <2> QED BY <2>1, <2>2, BeginningIsBest
<1> QED BY <1>1, Inductive, PTL

\* Typing on never brings a row back.
THEOREM TypingOnNarrows == Spec => TypingNarrows
<1>1. ASSUME IInv, IInv', [Next]_vars, buffer # <<>>, Len(buffer') > Len(buffer), NEW row \in Rows,
             Value(row)' # {}
      PROVE  Value(row) # {}
  <2>1. row \in Seq(Chars) /\ buffer \in Seq(Chars) /\ buffer' \in Seq(Chars)
    BY <1>1, FilterAssumption DEF IInv, TypeOK
  <2>2. PICK ch \in Chars : buffer' = Append(buffer, ch)
    <3>1. Len(buffer) \in Nat /\ buffer' # buffer
      BY <1>1, <2>1
    <3>2. PICK key \in Keys : HandleKey(key)
      BY <1>1, <3>1 DEF Next, Enter, Score, vars
    <3>3. Len(<<>>) = 0
      OBVIOUS
    <3>4. buffer' = Edited(key)
      BY <1>1, <3>1, <3>2, <3>3 DEF HandleKey, Edited
    <3> QED BY <1>1, <2>1, <3>1, <3>2, <3>4, EditedIs DEF HandleKey
  <2>3. Matches(buffer', row)
    <3>1. ValuesAreMatches'
      BY AllValues, PTL
    <3> QED BY <1>1, <2>1, <3>1 DEF ValuesAreMatches
  <2>4. Matches(buffer, row)
    BY <1>1, <2>1, <2>2, <2>3, MatchesLess
  <2> QED BY <2>1, <2>4, ValueIfMatches
<1>2. IInv /\ IInv' /\ [Next]_vars =>
        ((buffer # <<>> /\ Len(buffer') > Len(buffer)) =>
           \A row \in Rows : Value(row)' # {} => Value(row) # {})
  BY <1>1
<1> QED BY <1>2, Inductive, PTL DEF TypingNarrows, Spec

(***************************************************************************)
(* The folds over the characters of a text                                 *)
(***************************************************************************)
Hows == {"tokenize", "escape"}

Quoted(c) == IF c \in {Double, Backslash} THEN <<Backslash, c>> ELSE <<c>>

\* A character more, for tokenize and for the loop of shell_quote.
Step(how, t, c) == IF how = "tokenize" THEN Scan(t, c) ELSE t \o Quoted(c)

Scanned(t, s) == FoldLeft(Scan, t, s)
EscapedAfter(t, s) ==
  FoldLeft(LAMBDA done, c :
             done \o (IF c \in {Double, Backslash} THEN <<Backslash, c>> ELSE <<c>>), t, s)
TextFold(how, t, s) == IF how = "tokenize" THEN Scanned(t, s) ELSE EscapedAfter(t, s)

\* The recursive function FoldLeft takes the value of, on the indices S.
Folds(g, how, t, a, S) ==
  g = [s \in SUBSET S |-> IF s = {} THEN t ELSE Step(how, g[s \ {Max(s)}], a[Max(s)])]

LEMMA FoldChosen ==
  ASSUME NEW how \in Hows, NEW t, NEW a
  PROVE  TextFold(how, t, a) = (CHOOSE g : Folds(g, how, t, a, DOMAIN a))[DOMAIN a]
<1>1. CASE how = "tokenize"
  BY <1>1 DEF TextFold, Scanned, FoldLeft, MapThenFoldSet, Folds, Step
<1>2. CASE how = "escape"
  BY <1>2 DEF TextFold, EscapedAfter, FoldLeft, MapThenFoldSet, Folds, Step, Quoted
<1> QED BY <1>1, <1>2 DEF Hows

\* There is such a function, ...
LEMMA FoldExists ==
  ASSUME NEW how \in Hows, NEW t, NEW a
  PROVE  \A n \in Nat : \E g : Folds(g, how, t, a, 1 .. n)
<1> DEFINE S == {n \in Nat : \E g : Folds(g, how, t, a, 1 .. n)}
<1>1. 0 \in S
  <2> DEFINE g == [s \in SUBSET (1 .. 0) |-> t]
  <2>1. \A s \in SUBSET (1 .. 0) : s = {}
    OBVIOUS
  <2>2. Folds(g, how, t, a, 1 .. 0)
    BY <2>1 DEF Folds
  <2> QED BY <2>2
<1>2. ASSUME NEW n \in Nat, n \in S
      PROVE  n + 1 \in S
  <2>1. PICK g : Folds(g, how, t, a, 1 .. n)
    BY <1>2
  <2> DEFINE h == [s \in SUBSET (1 .. n + 1) |->
                     IF n + 1 \in s THEN Step(how, g[s \ {n + 1}], a[n + 1]) ELSE g[s]]
             Next1(s) == IF s = {} THEN t ELSE Step(how, h[s \ {Max(s)}], a[Max(s)])
  <2>2. ASSUME NEW s \in SUBSET (1 .. n + 1), n + 1 \in s
        PROVE  h[s] = Next1(s)
    <3>1. Max(s) = n + 1
      BY <2>2, Greatest
    <3>2. s \ {n + 1} \in SUBSET (1 .. n + 1) /\ n + 1 \notin s \ {n + 1}
      OBVIOUS
    <3>3. h[s \ {n + 1}] = g[s \ {n + 1}]
      BY <3>2
    <3>4. h[s] = Step(how, g[s \ {n + 1}], a[n + 1])
      BY <2>2
    <3> HIDE DEF h
    <3> QED BY <3>1, <3>3, <3>4, <2>2
  <2>3. ASSUME NEW s \in SUBSET (1 .. n + 1), n + 1 \notin s
        PROVE  h[s] = Next1(s)
    <3>1. s \in SUBSET (1 .. n)
      BY <2>3
    <3>2. h[s] = g[s]
      BY <2>3
    <3>3. g[s] = IF s = {} THEN t ELSE Step(how, g[s \ {Max(s)}], a[Max(s)])
      BY <3>1, <2>1 DEF Folds
    <3>4. s \ {Max(s)} \in SUBSET (1 .. n + 1) /\ n + 1 \notin s \ {Max(s)}
      BY <2>3
    <3>5. h[s \ {Max(s)}] = g[s \ {Max(s)}]
      BY <3>4
    <3> HIDE DEF h
    <3> QED BY <3>2, <3>3, <3>5
  <2>4. \A s \in SUBSET (1 .. n + 1) : h[s] = Next1(s)
    BY <2>2, <2>3
  <2>5. h = [s \in SUBSET (1 .. n + 1) |-> h[s]]
    OBVIOUS
  <2>6. h = [s \in SUBSET (1 .. n + 1) |-> Next1(s)]
    <3> HIDE DEF h
    <3> QED BY <2>4, <2>5
  <2>7. Folds(h, how, t, a, 1 .. n + 1)
    <3> HIDE DEF h
    <3> QED BY <2>6 DEF Folds
  <2>8. \E f : Folds(f, how, t, a, 1 .. n + 1)
    <3> HIDE DEF h
    <3> QED BY <2>7
  <2> QED BY <2>8
<1>3. Nat \subseteq S
  <2> HIDE DEF S
  <2> QED BY <1>1, <1>2, SetInduction
<1> QED BY <1>3

\* ... and on the first indices two of them agree if the characters do.
LEMMA FoldsAgree ==
  ASSUME NEW how \in Hows, NEW t, NEW a, NEW b, NEW n \in Nat, NEW m \in Nat, n <= m,
         \A i \in 1 .. n : a[i] = b[i],
         NEW g, NEW h, Folds(g, how, t, a, 1 .. n), Folds(h, how, t, b, 1 .. m)
  PROVE  g[1 .. n] = h[1 .. n]
<1> DEFINE S == {j \in Nat : j <= n => g[1 .. j] = h[1 .. j]}
<1>1. ASSUME NEW j \in Nat, j <= n
      PROVE  /\ 1 .. j \in SUBSET (1 .. n)
             /\ 1 .. j \in SUBSET (1 .. m)
  BY <1>1
<1>2. 0 \in S
  <2>1. 1 .. 0 = {}
    OBVIOUS
  <2>2. {} \in SUBSET (1 .. n) /\ {} \in SUBSET (1 .. m)
    OBVIOUS
  <2>3. g[{}] = t /\ h[{}] = t
    BY <2>2 DEF Folds
  <2> QED BY <2>1, <2>3
<1>3. ASSUME NEW j \in Nat, j \in S
      PROVE  j + 1 \in S
  <2> SUFFICES ASSUME j + 1 <= n PROVE g[1 .. j + 1] = h[1 .. j + 1]
    OBVIOUS
  <2>1. Max(1 .. j + 1) = j + 1
    BY Interval, Greatest
  <2>2. (1 .. j + 1) \ {j + 1} = 1 .. j /\ 1 .. j + 1 # {}
    BY Interval
  <2> DEFINE J == 1 .. j + 1
  <2>3. J \in SUBSET (1 .. n) /\ J \in SUBSET (1 .. m)
    BY <1>1
  <2>4. Max(J) = j + 1 /\ J \ {Max(J)} = 1 .. j /\ J # {}
    BY <2>1, <2>2
  <2> HIDE DEF J
  <2>5. g[J] = Step(how, g[1 .. j], a[j + 1])
    BY <2>3, <2>4 DEF Folds
  <2>6. h[J] = Step(how, h[1 .. j], b[j + 1])
    BY <2>3, <2>4 DEF Folds
  <2>7. a[j + 1] = b[j + 1] /\ g[1 .. j] = h[1 .. j]
    BY <1>3
  <2> QED BY <2>5, <2>6, <2>7 DEF J
<1>4. Nat \subseteq S
  <2> HIDE DEF S
  <2> QED BY <1>2, <1>3, SetInduction
<1> QED BY <1>4

LEMMA TextFoldIs ==
  ASSUME NEW how \in Hows, NEW t, NEW a, NEW n \in Nat, DOMAIN a = 1 .. n
  PROVE  \E g : Folds(g, how, t, a, 1 .. n) /\ TextFold(how, t, a) = g[1 .. n]
<1> DEFINE g == CHOOSE f : Folds(f, how, t, a, 1 .. n)
<1>1. Folds(g, how, t, a, 1 .. n)
  BY FoldExists
<1>2. TextFold(how, t, a) = g[1 .. n]
  BY FoldChosen
<1> HIDE DEF g
<1> QED BY <1>1, <1>2

\* No character changes nothing, and one more is one more step.
LEMMA FoldNothing ==
  ASSUME NEW how \in Hows, NEW t
  PROVE  TextFold(how, t, <<>>) = t
<1> DEFINE none == <<>>
<1>1. DOMAIN none = 1 .. 0 /\ 0 \in Nat /\ 1 .. 0 = {} /\ {} \in SUBSET (1 .. 0)
  OBVIOUS
<1> HIDE DEF none
<1>2. PICK g : Folds(g, how, t, none, 1 .. 0) /\ TextFold(how, t, none) = g[1 .. 0]
  BY <1>1, TextFoldIs
<1>3. TextFold(how, t, none) = t
  BY <1>1, <1>2 DEF Folds
<1> QED BY <1>3 DEF none

LEMMA FoldOneMore ==
  ASSUME NEW how \in Hows, NEW t, NEW T, NEW a \in Seq(T), NEW x \in T
  PROVE  TextFold(how, t, Append(a, x)) = Step(how, TextFold(how, t, a), x)
<1> DEFINE n == Len(a)
           b == Append(a, x)
<1>1. /\ n \in Nat /\ DOMAIN a = 1 .. n /\ DOMAIN b = 1 .. n + 1
      /\ \A i \in 1 .. n : b[i] = a[i]
      /\ b[n + 1] = x
  OBVIOUS
<1> HIDE DEF n, b
<1>2. PICK g : Folds(g, how, t, a, 1 .. n) /\ TextFold(how, t, a) = g[1 .. n]
  BY <1>1, TextFoldIs
<1>3. PICK h : Folds(h, how, t, b, 1 .. n + 1) /\ TextFold(how, t, b) = h[1 .. n + 1]
  BY <1>1, TextFoldIs
<1>4. h[1 .. n] = g[1 .. n]
  <2>1. n <= n + 1 /\ n + 1 \in Nat
    BY <1>1
  <2>2. \A i \in 1 .. n : a[i] = b[i]
    BY <1>1
  <2>3. Folds(g, how, t, a, 1 .. n) /\ Folds(h, how, t, b, 1 .. n + 1)
    BY <1>2, <1>3
  <2>4. g[1 .. n] = h[1 .. n]
    <3> HIDE DEF Folds
    <3> QED BY <1>1, <2>1, <2>2, <2>3, FoldsAgree
  <2> QED BY <2>4
<1>5. /\ 1 .. n + 1 \in SUBSET (1 .. n + 1) /\ n + 1 \in 1 .. n + 1
      /\ 1 .. n + 1 # {} /\ (1 .. n + 1) \ {n + 1} = 1 .. n
  BY <1>1, Interval
<1>6. Max(1 .. n + 1) = n + 1
  BY <1>1, <1>5, Greatest
<1>7. h[1 .. n + 1] = Step(how, h[1 .. n], b[n + 1])
  BY <1>3, <1>5, <1>6 DEF Folds
<1> QED BY <1>1, <1>2, <1>3, <1>4, <1>7 DEF b

(***************************************************************************)
(* Texts                                                                   *)
(***************************************************************************)

\* Induction over texts, for a set in place of a property.
LEMMA TextInduction ==
  ASSUME NEW T, NEW S, <<>> \in S,
         \A s \in Seq(T) : s \in S => \A c \in T : Append(s, c) \in S
  PROVE  Seq(T) \subseteq S
<1> DEFINE N == {n \in Nat : \A s \in Seq(T) : Len(s) = n => s \in S}
<1>1. 0 \in N
  <2>1. \A s \in Seq(T) : Len(s) = 0 => s = <<>>
    OBVIOUS
  <2> QED BY <2>1
<1>2. ASSUME NEW n \in Nat, n \in N
      PROVE  n + 1 \in N
  <2> SUFFICES ASSUME NEW s \in Seq(T), Len(s) = n + 1 PROVE s \in S
    OBVIOUS
  <2> DEFINE b == SubSeq(s, 1, n)
  <2>1. b \in Seq(T) /\ Len(b) = n /\ s[n + 1] \in T /\ s = Append(b, s[n + 1])
    OBVIOUS
  <2> HIDE DEF b
  <2>2. b \in S
    BY <1>2, <2>1
  <2> QED BY <2>1, <2>2
<1>3. Nat \subseteq N
  <2> HIDE DEF N
  <2> QED BY <1>1, <1>2, SetInduction
<1> QED BY <1>3

LEMMA Pair ==
  ASSUME NEW T, NEW v \in T, NEW w \in T
  PROVE  Append(Append(<<>>, v), w) = <<v, w>>
<1> DEFINE none == <<>>
           a == Append(Append(none, v), w)
           b == <<v, w>>
<1>1. none \in Seq(T) /\ Len(none) = 0
  OBVIOUS
<1>2. b \in Seq(T) /\ Len(b) = 2 /\ b[1] = v /\ b[2] = w
  OBVIOUS
<1> HIDE DEF none
<1>3. a \in Seq(T) /\ Len(a) = 2 /\ a[1] = v /\ a[2] = w
  BY <1>1
<1> HIDE DEF a, b
<1>4. a = b
  BY <1>2, <1>3
<1> QED BY <1>4 DEF a, b, none

\* A part, continued, is a longer part.
LEMMA PartContinued ==
  ASSUME NEW T, NEW s \in Seq(T), NEW a \in Nat, NEW b \in Nat, a <= b, b <= Len(s)
  PROVE  SubSeq(s, 1, a) \o SubSeq(s, a + 1, b) = SubSeq(s, 1, b)
<1> DEFINE x == SubSeq(s, 1, a)
           y == SubSeq(s, a + 1, b)
           z == SubSeq(s, 1, b)
<1>1. x \in Seq(T) /\ y \in Seq(T) /\ z \in Seq(T)
  OBVIOUS
<1>2. Len(x) = a /\ Len(y) = b - a /\ Len(z) = b
  OBVIOUS
<1>3. \A i \in 1 .. a : x[i] = s[i]
  OBVIOUS
<1>4. \A i \in 1 .. b - a : y[i] = s[a + i]
  OBVIOUS
<1>5. \A i \in 1 .. b : z[i] = s[i]
  OBVIOUS
<1> HIDE DEF x, y, z
<1>6. x \o y \in Seq(T) /\ Len(x \o y) = b
  BY <1>1, <1>2
<1>7. ASSUME NEW i \in 1 .. b
      PROVE  (x \o y)[i] = z[i]
  <2>0. i \in Nat /\ (i <= a \/ i > a)
    OBVIOUS
  <2>1. CASE i <= a
    <3>1. (x \o y)[i] = x[i]
      BY <1>1, <1>2, <2>1
    <3> QED BY <1>3, <1>5, <2>1, <3>1
  <2>2. CASE i > a
    <3>1. (x \o y)[i] = y[i - a]
      <4>1. i \in Nat /\ i > Len(x) /\ i <= Len(x) + Len(y)
        BY <1>2, <2>2
      <4>2. (x \o y)[i] = y[i - Len(x)]
        BY <1>1, <4>1
      <4> QED BY <1>2, <4>2
    <3>2. i - a \in 1 .. b - a /\ a + (i - a) = i
      BY <2>2
    <3> QED BY <1>4, <1>5, <3>1, <3>2
  <2> QED BY <2>0, <2>1, <2>2
<1> DEFINE w == x \o y
<1> HIDE DEF w
<1>8. w = z
  <2>1. w \in Seq(T) /\ Len(w) = b /\ \A i \in 1 .. b : w[i] = z[i]
    BY <1>6, <1>7 DEF w
  <2> QED BY <1>1, <1>2, <2>1
<1> QED BY <1>8 DEF w, x, y, z

LEMMA Associative ==
  ASSUME NEW T, NEW a \in Seq(T), NEW b \in Seq(T), NEW c \in Seq(T)
  PROVE  a \o (b \o c) = a \o b \o c
OBVIOUS

\* What follows one word.
LEMMA Joined ==
  ASSUME NEW T, NEW a \in Seq(T), NEW b \in Seq(T)
  PROVE  a \o b \in Seq(T) /\ Len(a \o b) = Len(a) + Len(b)
OBVIOUS

LEMMA SecondPart ==
  ASSUME NEW T, NEW a \in Seq(T), NEW s \in Seq(T),
         NEW j \in Nat, j > Len(a), j <= Len(a) + Len(s)
  PROVE  (a \o s)[j] = s[j - Len(a)]
OBVIOUS

LEMMA AfterOne ==
  ASSUME NEW T, NEW x \in T, NEW s \in Seq(T)
  PROVE  <<x>> \o s # <<>> /\ Tail(<<x>> \o s) = s
<1> DEFINE one == <<x>>
           all == one \o s
           n == Len(s)
           k == Len(one)
<1>1. one \in Seq(T)
  OBVIOUS
<1>2. k = 1
  OBVIOUS
<1> HIDE DEF one
<1>3. all \in Seq(T) /\ Len(all) = k + n /\ n \in Nat
  BY <1>1
<1>4. ASSUME NEW i \in 1 .. n
      PROVE  all[i + 1] = s[i]
  <2>1. \A j \in Nat : (j > k /\ j <= k + n) => all[j] = s[j - k]
    BY <1>1, SecondPart
  <2> DEFINE j == i + 1
  <2> HIDE DEF all, k, n
  <2>2. j \in Nat /\ j > k /\ j <= k + n /\ j - k = i
    BY <1>2, <1>3
  <2> HIDE DEF j
  <2>3. all[j] = s[j - k]
    BY <2>1, <2>2
  <2> QED BY <2>2, <2>3 DEF j
<1> HIDE DEF all, k, n
<1>5. Tail(all) \in Seq(T) /\ Len(Tail(all)) = n /\ all # <<>>
  BY <1>2, <1>3
<1>6. \A i \in 1 .. n : Tail(all)[i] = s[i]
  BY <1>2, <1>3, <1>4
<1>7. Tail(all) = s
  BY <1>3, <1>5, <1>6 DEF n
<1> QED BY <1>5, <1>7 DEF all, one

LEMMA Kinds ==
  /\ Letters \subseteq Characters /\ Special \subseteq Characters /\ Blank \in Characters
  /\ \A c \in Letters : c # Blank /\ c \notin Special
  /\ \A c \in Characters : c # Blank /\ c \notin Special => c \in Letters
  /\ Blank \notin Special
  /\ Single \in Special /\ Double \in Special /\ Backslash \in Special
  /\ Single # Double /\ Double # Backslash /\ Single # Backslash
BY CmdmodeAssumption DEF Characters, Special, Blank, Single, Double, Backslash

Initial == [out |-> <<>>, cur |-> <<>>, inToken |-> FALSE, state |-> "Normal"]

Scans == [out : Seq(Words), cur : Words, inToken : BOOLEAN,
          state : {"Normal", "Single", "Double", "Escape", "DoubleEscape"}]

\* Where no word has been begun there is nothing of it.
Sound(t) == t \in Scans /\ (~t.inToken => t.cur = <<>>)

\* The tokens at the end of the text.
Tokens(t) == IF t.inToken THEN Append(t.out, t.cur) ELSE t.out

LEMMA TokenizeIs ==
  ASSUME NEW in
  PROVE  Tokenize(in) = IF Scanned(Initial, in).state # "Normal" THEN {}
                        ELSE {Tokens(Scanned(Initial, in))}
BY DEF Tokenize, Scanned, Initial, Tokens

LEMMA ScanNothing ==
  ASSUME NEW t
  PROVE  Scanned(t, <<>>) = t
BY FoldNothing DEF TextFold, Hows

LEMMA ScanOneMore ==
  ASSUME NEW t, NEW T, NEW a \in Seq(T), NEW x \in T
  PROVE  Scanned(t, Append(a, x)) = Scan(Scanned(t, a), x)
<1>1. "tokenize" \in Hows
  BY DEF Hows
<1>2. TextFold("tokenize", t, Append(a, x)) = Step("tokenize", TextFold("tokenize", t, a), x)
  BY <1>1, FoldOneMore
<1> QED BY <1>2 DEF TextFold, Step

LEMMA ScanCharacter ==
  ASSUME NEW t, NEW c \in Characters
  PROVE  Scanned(t, <<c>>) = Scan(t, c)
<1> DEFINE none == <<>>
<1>1. none \in Seq(Characters) /\ Append(none, c) = <<c>> /\ Scanned(t, none) = t
  BY ScanNothing
<1> HIDE DEF none
<1>2. \A a \in Seq(Characters) : Scanned(t, Append(a, c)) = Scan(Scanned(t, a), c)
  BY ScanOneMore
<1> QED BY <1>1, <1>2

LEMMA ScanJoined ==
  ASSUME NEW t, NEW a \in Words, NEW b \in Words
  PROVE  Scanned(t, a \o b) = Scanned(Scanned(t, a), b)
<1> DEFINE S == {s \in Words : Scanned(t, a \o s) = Scanned(Scanned(t, a), s)}
<1>1. <<>> \in S
  <2>1. <<>> \in Words /\ a \o <<>> = a
    BY DEF Words
  <2> QED BY <2>1, ScanNothing
<1>2. ASSUME NEW s \in Seq(Characters), s \in S, NEW c \in Characters
      PROVE  Append(s, c) \in S
  <2>1. a \in Seq(Characters) /\ a \o s \in Seq(Characters)
    BY DEF Words
  <2>2. Append(s, c) \in Words /\ a \o Append(s, c) = Append(a \o s, c)
    BY DEF Words
  <2>3. Scanned(t, Append(a \o s, c)) = Scan(Scanned(t, a \o s), c)
    BY <2>1, ScanOneMore
  <2>4. Scanned(Scanned(t, a), Append(s, c)) = Scan(Scanned(Scanned(t, a), s), c)
    BY ScanOneMore
  <2> QED BY <1>2, <2>2, <2>3, <2>4
<1>3. Words \subseteq S
  <2> HIDE DEF S
  <2> QED BY <1>1, <1>2, TextInduction DEF Words
<1> QED BY <1>3

(***************************************************************************)
(* The tokenizer                                                           *)
(***************************************************************************)

\* The word is over, or is put in quotes from here on.
Closed(t) == [t EXCEPT !.out = Append(@, t.cur), !.cur = <<>>, !.inToken = FALSE]
Opened(t, s) == [t EXCEPT !.state = s, !.inToken = TRUE]

\* One step, case by case.
LEMMA InNormal ==
  ASSUME NEW t, t.state = "Normal", NEW c
  PROVE  Scan(t, c) =
           IF c = Blank
           THEN IF t.inToken THEN Closed(t) ELSE t
           ELSE IF c = Single THEN Opened(t, "Single")
           ELSE IF c = Double THEN Opened(t, "Double")
           ELSE IF c = Backslash THEN InState(t, "Escape")
           ELSE Push(t, c)
BY Kinds DEF Scan, Closed, Opened

LEMMA InSingle ==
  ASSUME NEW t, t.state = "Single", NEW c
  PROVE  Scan(t, c) = IF c = Single THEN InState(t, "Normal") ELSE Push(t, c)
BY DEF Scan

LEMMA InDouble ==
  ASSUME NEW t, t.state = "Double", NEW c
  PROVE  Scan(t, c) = IF c = Double THEN InState(t, "Normal")
                      ELSE IF c = Backslash THEN InState(t, "DoubleEscape")
                      ELSE Push(t, c)
BY Kinds DEF Scan

LEMMA InEscape ==
  ASSUME NEW t, NEW c
  PROVE  /\ t.state = "Escape" => Scan(t, c) = InState(Push(t, c), "Normal")
         /\ t.state = "DoubleEscape" =>
              Scan(t, c) = InState(IF c \in {Double, Backslash} THEN Push(t, c)
                                   ELSE Push(Push(t, Backslash), c), "Double")
BY DEF Scan

LEMMA PushKeeps ==
  ASSUME NEW t \in Scans, NEW c \in Characters
  PROVE  /\ Push(t, c) \in Scans
         /\ Push(t, c).inToken = TRUE /\ Push(t, c).cur = Append(t.cur, c)
         /\ Push(t, c).state = t.state /\ Push(t, c).out = t.out
<1>1. t.cur \in Words /\ Append(t.cur, c) \in Words
  BY DEF Scans, Words
<1> DEFINE more == Append(t.cur, c)
<1>2. Push(t, c) = [t EXCEPT !.cur = more, !.inToken = TRUE]
  BY DEF Push
<1> HIDE DEF more
<1> QED BY <1>1, <1>2 DEF Scans, more

LEMMA InStateKeeps ==
  ASSUME NEW t \in Scans, NEW s \in {"Normal", "Single", "Double", "Escape", "DoubleEscape"}
  PROVE  /\ InState(t, s) \in Scans /\ InState(t, s).state = s
         /\ InState(t, s).inToken = t.inToken /\ InState(t, s).cur = t.cur
         /\ InState(t, s).out = t.out
BY DEF InState, Scans

LEMMA ClosedIs ==
  ASSUME NEW t \in Scans
  PROVE  /\ Closed(t) \in Scans /\ Closed(t).out = Append(t.out, t.cur)
         /\ Closed(t).cur = <<>> /\ Closed(t).inToken = FALSE /\ Closed(t).state = t.state
<1>1. Append(t.out, t.cur) \in Seq(Words) /\ <<>> \in Words
  BY DEF Scans, Words
<1> DEFINE more == Append(t.out, t.cur)
<1>2. Closed(t) = [t EXCEPT !.out = more, !.cur = <<>>, !.inToken = FALSE]
  BY DEF Closed
<1> HIDE DEF more
<1> QED BY <1>1, <1>2 DEF Scans, more

LEMMA OpenedIs ==
  ASSUME NEW t \in Scans, NEW s \in {"Single", "Double"}
  PROVE  /\ Opened(t, s) \in Scans /\ Opened(t, s).out = t.out /\ Opened(t, s).cur = t.cur
         /\ Opened(t, s).inToken = TRUE /\ Opened(t, s).state = s
BY DEF Opened, Scans

LEMMA ScanKeeps ==
  ASSUME NEW t, Sound(t), NEW c \in Characters
  PROVE  Sound(Scan(t, c))
<1>1. t \in Scans /\ Push(t, c) \in Scans /\ Push(t, c).inToken
  BY PushKeeps DEF Sound
<1>2. CASE t.state = "Normal"
  <2>1. CASE c = Blank
    <3>1. Scan(t, c) \in {Closed(t), t}
      BY <1>2, <2>1, InNormal
    <3> QED BY <1>1, <3>1, ClosedIs DEF Sound
  <2>2. CASE c \in {Single, Double}
    <3>1. Scan(t, c) \in {Opened(t, "Single"), Opened(t, "Double")}
      BY <1>2, <2>2, InNormal, Kinds
    <3> QED BY <1>1, <3>1, OpenedIs DEF Sound
  <2>3. CASE c = Backslash
    <3>1. Scan(t, c) = InState(t, "Escape")
      BY <1>2, <2>3, InNormal, Kinds
    <3> QED BY <1>1, <3>1, InStateKeeps DEF Sound
  <2>4. CASE c \notin {Blank, Single, Double, Backslash}
    BY <1>1, <1>2, <2>4, InNormal DEF Sound
  <2> QED BY <2>1, <2>2, <2>3, <2>4
<1>3. CASE t.state = "Single"
  BY <1>1, <1>3, InSingle, InStateKeeps DEF Sound
<1>4. CASE t.state = "Double"
  BY <1>1, <1>4, InDouble, InStateKeeps DEF Sound
<1>5. CASE t.state = "Escape"
  <2>1. Scan(t, c) = InState(Push(t, c), "Normal")
    BY <1>5, InEscape
  <2> QED BY <1>1, <2>1, InStateKeeps DEF Sound
<1>6. CASE t.state = "DoubleEscape"
  <2>1. /\ Push(t, Backslash) \in Scans
        /\ Push(Push(t, Backslash), c) \in Scans
        /\ Push(Push(t, Backslash), c).inToken
    BY <1>1, PushKeeps, Kinds
  <2>2. \/ Scan(t, c) = InState(Push(t, c), "Double")
        \/ Scan(t, c) = InState(Push(Push(t, Backslash), c), "Double")
    BY <1>6, InEscape
  <2> QED BY <1>1, <2>1, <2>2, InStateKeeps DEF Sound
<1> QED BY <1>1, <1>2, <1>3, <1>4, <1>5, <1>6 DEF Scans

LEMMA InitialIsSound == Sound(Initial)
BY DEF Initial, Sound, Scans, Words

LEMMA ScannedKeeps ==
  ASSUME NEW t, Sound(t), NEW s \in Words
  PROVE  Sound(Scanned(t, s))
<1> DEFINE S == {w \in Words : Sound(Scanned(t, w))}
<1>1. <<>> \in S
  BY ScanNothing DEF Words
<1>2. ASSUME NEW w \in Seq(Characters), w \in S, NEW c \in Characters
      PROVE  Append(w, c) \in S
  <2>1. Append(w, c) \in Words
    BY DEF Words
  <2> QED BY <1>2, <2>1, ScanOneMore, ScanKeeps
<1>3. Words \subseteq S
  <2> HIDE DEF S
  <2> QED BY <1>1, <1>2, TextInduction DEF Words
<1> QED BY <1>3

LEMMA TokensAreWords ==
  ASSUME NEW in \in Words, NEW tokens \in Tokenize(in)
  PROVE  tokens \in Seq(Words)
<1>1. Scanned(Initial, in) \in Scans
  BY ScannedKeeps, InitialIsSound DEF Sound
<1> QED BY <1>1, TokenizeIs DEF Scans, Tokens

LEMMA SameScan ==
  ASSUME NEW t \in Scans, NEW u \in Scans,
         t.out = u.out, t.cur = u.cur, t.inToken = u.inToken, t.state = u.state
  PROVE  t = u
<1>1. /\ t = [out |-> t.out, cur |-> t.cur, inToken |-> t.inToken, state |-> t.state]
      /\ u = [out |-> u.out, cur |-> u.cur, inToken |-> u.inToken, state |-> u.state]
  BY DEF Scans
<1> QED BY <1>1

\* t with w read into its word.
Grown(t, w, begun) == [t EXCEPT !.cur = @ \o w, !.inToken = begun]

LEMMA GrownIs ==
  ASSUME NEW t \in Scans, NEW w \in Words, NEW begun \in BOOLEAN
  PROVE  /\ Grown(t, w, begun) \in Scans
         /\ Grown(t, w, begun).cur = t.cur \o w /\ Grown(t, w, begun).inToken = begun
         /\ Grown(t, w, begun).state = t.state /\ Grown(t, w, begun).out = t.out
<1> DEFINE longer == t.cur \o w
<1>1. longer \in Words
  BY DEF Scans, Words
<1>2. Grown(t, w, begun) = [t EXCEPT !.cur = longer, !.inToken = begun]
  BY DEF Grown
<1> HIDE DEF longer
<1> QED BY <1>1, <1>2 DEF Scans, longer

LEMMA Begun ==
  ASSUME NEW t \in Scans, NEW w \in Words
  PROVE  /\ Grown(t, w, TRUE) \in Scans
         /\ Grown(t, w, TRUE).cur = t.cur \o w /\ Grown(t, w, TRUE).inToken = TRUE
         /\ Grown(t, w, TRUE).state = t.state /\ Grown(t, w, TRUE).out = t.out
<1>1. TRUE \in BOOLEAN
  OBVIOUS
<1> QED BY <1>1, GrownIs

LEMMA GrownByNone ==
  ASSUME NEW t \in Scans
  PROVE  Grown(t, <<>>, t.inToken) = t
<1>1. <<>> \in Words /\ t.cur \o <<>> = t.cur /\ t.inToken \in BOOLEAN
  BY DEF Scans, Words
<1> DEFINE u == Grown(t, <<>>, t.inToken)
<1>2. u \in Scans /\ u.cur = t.cur /\ u.inToken = t.inToken /\ u.state = t.state /\ u.out = t.out
  BY <1>1, GrownIs
<1> HIDE DEF u
<1>3. u = t
  BY <1>2, SameScan
<1> QED BY <1>3 DEF u

LEMMA GrownByOne ==
  ASSUME NEW t \in Scans, NEW w \in Words, NEW b \in BOOLEAN, NEW c \in Characters
  PROVE  Push(Grown(t, w, b), c) = Grown(t, Append(w, c), TRUE)
<1>1. Append(w, c) \in Words /\ t.cur \o Append(w, c) = Append(t.cur \o w, c)
  BY DEF Scans, Words
<1>2. /\ Grown(t, w, b) \in Scans /\ Grown(t, w, b).cur = t.cur \o w
      /\ Grown(t, w, b).state = t.state /\ Grown(t, w, b).out = t.out
  BY GrownIs
<1>3. Push(Grown(t, w, b), c) \in Scans /\ Grown(t, Append(w, c), TRUE) \in Scans
  BY <1>1, <1>2, PushKeeps, GrownIs
<1>4. /\ Push(Grown(t, w, b), c).cur = t.cur \o Append(w, c)
      /\ Push(Grown(t, w, b), c).inToken = TRUE
      /\ Push(Grown(t, w, b), c).state = t.state /\ Push(Grown(t, w, b), c).out = t.out
  <2>1. /\ Push(Grown(t, w, b), c).cur = Append(Grown(t, w, b).cur, c)
        /\ Push(Grown(t, w, b), c).inToken = TRUE
        /\ Push(Grown(t, w, b), c).state = Grown(t, w, b).state
        /\ Push(Grown(t, w, b), c).out = Grown(t, w, b).out
    <3>1. Grown(t, w, b) \in Scans
      BY <1>2
    <3> QED BY <3>1, PushKeeps
  <2> QED BY <1>1, <1>2, <2>1
<1>5. /\ Grown(t, Append(w, c), TRUE).cur = t.cur \o Append(w, c)
      /\ Grown(t, Append(w, c), TRUE).inToken = TRUE
      /\ Grown(t, Append(w, c), TRUE).state = t.state /\ Grown(t, Append(w, c), TRUE).out = t.out
  BY <1>1, GrownIs
<1> QED BY <1>3, <1>4, <1>5, SameScan

\* Letters are read as they are.
LEMMA ScanLetters ==
  ASSUME NEW t \in Scans, t.state = "Normal", NEW w \in Seq(Letters)
  PROVE  Scanned(t, w) = Grown(t, w, t.inToken \/ w # <<>>)
<1> DEFINE S == {s \in Seq(Letters) : Scanned(t, s) = Grown(t, s, t.inToken \/ s # <<>>)}
<1>1. <<>> \in S
  <2>1. (t.inToken \/ <<>> # <<>>) = t.inToken /\ <<>> \in Seq(Letters)
    BY DEF Scans
  <2> QED BY <2>1, ScanNothing, GrownByNone
<1>2. ASSUME NEW s \in Seq(Letters), s \in S, NEW c \in Letters
      PROVE  Append(s, c) \in S
  <2>1. c \in Characters /\ c # Blank /\ c \notin {Single, Double, Backslash}
    BY Kinds
  <2>2. s \in Words /\ Append(s, c) \in Seq(Letters) /\ Append(s, c) # <<>>
    BY Kinds DEF Words
  <2> DEFINE b == (t.inToken \/ s # <<>>)
  <2>3. b \in BOOLEAN
    BY DEF Scans
  <2>4. Scanned(t, s) = Grown(t, s, b)
    BY <1>2
  <2> HIDE DEF b
  <2>5. Scanned(t, Append(s, c)) = Scan(Grown(t, s, b), c)
    BY <2>4, ScanOneMore
  <2>6. Grown(t, s, b).state = "Normal"
    BY <2>2, <2>3, GrownIs
  <2>7. Scan(Grown(t, s, b), c) = Push(Grown(t, s, b), c)
    BY <2>1, <2>6, InNormal
  <2>8. Scanned(t, Append(s, c)) = Grown(t, Append(s, c), TRUE)
    BY <2>1, <2>2, <2>3, <2>5, <2>7, GrownByOne
  <2>9. (t.inToken \/ Append(s, c) # <<>>) = TRUE
    BY <2>2
  <2> QED BY <2>2, <2>8, <2>9
<1>3. Seq(Letters) \subseteq S
  <2> HIDE DEF S
  <2> QED BY <1>1, <1>2, TextInduction
<1> QED BY <1>3

\* Within quotes they leave the quotes open.
LEMMA LettersStayInside ==
  ASSUME NEW t \in Scans, t.state \in {"Single", "Double"}, NEW w \in Seq(Letters)
  PROVE  Scanned(t, w).state = t.state
<1> DEFINE S == {s \in Seq(Letters) : Scanned(t, s) \in Scans /\ Scanned(t, s).state = t.state}
<1>1. <<>> \in S
  BY ScanNothing
<1>2. ASSUME NEW s \in Seq(Letters), s \in S, NEW c \in Letters
      PROVE  Append(s, c) \in S
  <2>1. c \in Characters /\ c # Blank /\ c \notin {Single, Double, Backslash}
    BY Kinds
  <2>2. Append(s, c) \in Seq(Letters)
    OBVIOUS
  <2>3. Scanned(t, Append(s, c)) = Scan(Scanned(t, s), c)
    BY ScanOneMore
  <2>4. Scan(Scanned(t, s), c) = Push(Scanned(t, s), c)
    BY <1>2, <2>1, InSingle, InDouble
  <2> DEFINE u == Scanned(t, s)
  <2>5. u \in Scans /\ u.state = t.state
    BY <1>2
  <2> HIDE DEF u
  <2>6. Push(u, c) \in Scans /\ Push(u, c).state = t.state
    BY <2>1, <2>5, PushKeeps
  <2> QED BY <2>2, <2>3, <2>4, <2>6 DEF u
<1>3. Seq(Letters) \subseteq S
  <2> HIDE DEF S
  <2> QED BY <1>1, <1>2, TextInduction
<1> QED BY <1>3

(***************************************************************************)
(* shell_quote                                                             *)
(***************************************************************************)
Escapes(s) == Escaped(s, {Double, Backslash})

LEMMA EscapesIs ==
  ASSUME NEW s
  PROVE  Escapes(s) = TextFold("escape", <<>>, s)
BY DEF Escapes, Escaped, TextFold, EscapedAfter

LEMMA EscapesNothing == Escapes(<<>>) = <<>>
BY EscapesIs, FoldNothing DEF Hows

LEMMA EscapesOneMore ==
  ASSUME NEW T, NEW s \in Seq(T), NEW c \in T
  PROVE  Escapes(Append(s, c)) = Escapes(s) \o Quoted(c)
<1>1. "escape" \in Hows
  BY DEF Hows
<1>2. TextFold("escape", <<>>, Append(s, c)) = Step("escape", TextFold("escape", <<>>, s), c)
  BY <1>1, FoldOneMore
<1> QED BY <1>2, EscapesIs DEF Step

LEMMA QuotedIsText ==
  ASSUME NEW c \in Characters
  PROVE  Quoted(c) \in Words
BY Kinds DEF Quoted, Words

\* Within double quotes a character that shell_quote has written is read again.
LEMMA ScanQuotedCharacter ==
  ASSUME NEW t \in Scans, t.state = "Double", NEW c \in Characters
  PROVE  Scanned(t, Quoted(c)) = Push(t, c)
<1>1. CASE c \in {Double, Backslash}
  <2> DEFINE one == <<Backslash>>
  <2>1. Quoted(c) = Append(one, c) /\ one \in Seq(Characters)
    BY <1>1, Kinds DEF Quoted
  <2>2. Scanned(t, Quoted(c)) = Scan(Scan(t, Backslash), c)
    <3>1. Scanned(t, one) = Scan(t, Backslash)
      BY ScanCharacter, Kinds
    <3> HIDE DEF one
    <3>2. Scanned(t, Append(one, c)) = Scan(Scanned(t, one), c)
      BY <2>1, ScanOneMore
    <3> QED BY <2>1, <3>1, <3>2
  <2> DEFINE u == InState(t, "DoubleEscape")
  <2>3. Scan(t, Backslash) = u /\ u \in Scans /\ u.state = "DoubleEscape"
    BY InDouble, InStateKeeps, Kinds
  <2>4. /\ u.cur = t.cur /\ u.out = t.out
    BY InStateKeeps
  <2> HIDE DEF u
  <2>5. Scan(u, c) = InState(Push(u, c), "Double")
    BY <1>1, <2>3, InEscape
  <2>6. /\ Push(u, c) \in Scans
        /\ Push(u, c).inToken = TRUE /\ Push(u, c).cur = Append(t.cur, c) /\ Push(u, c).out = t.out
    <3>1. u \in Scans
      BY <2>3
    <3>2. /\ Push(u, c) \in Scans
          /\ Push(u, c).inToken = TRUE /\ Push(u, c).cur = Append(u.cur, c) /\ Push(u, c).out = u.out
      BY <3>1, PushKeeps
    <3> QED BY <2>4, <3>2
  <2> DEFINE v == Push(u, c)
  <2> HIDE DEF v
  <2>7. /\ InState(v, "Double") \in Scans /\ InState(v, "Double").state = "Double"
        /\ InState(v, "Double").inToken = TRUE /\ InState(v, "Double").cur = Append(t.cur, c)
        /\ InState(v, "Double").out = t.out
    BY <2>6, InStateKeeps DEF v
  <2>8. /\ Push(t, c) \in Scans /\ Push(t, c).state = "Double"
        /\ Push(t, c).inToken = TRUE /\ Push(t, c).cur = Append(t.cur, c)
        /\ Push(t, c).out = t.out
    BY PushKeeps
  <2>9. InState(v, "Double") = Push(t, c)
    BY <2>7, <2>8, SameScan
  <2> QED BY <2>2, <2>3, <2>5, <2>9 DEF v
<1>2. CASE c \notin {Double, Backslash}
  <2>1. Quoted(c) = <<c>>
    BY <1>2 DEF Quoted
  <2>2. Scanned(t, Quoted(c)) = Scan(t, c)
    BY <2>1, ScanCharacter
  <2> QED BY <1>2, <2>2, InDouble
<1> QED BY <1>1, <1>2

LEMMA ScanEscapes ==
  ASSUME NEW t \in Scans, t.state = "Double", t.inToken, NEW w \in Words
  PROVE  Escapes(w) \in Words /\ Scanned(t, Escapes(w)) = Grown(t, w, TRUE)
<1> DEFINE S == {s \in Words : Escapes(s) \in Words
                               /\ Scanned(t, Escapes(s)) = Grown(t, s, TRUE)}
<1>1. <<>> \in S
  <2>1. t.inToken = TRUE /\ <<>> \in Words
    BY DEF Scans, Words
  <2> QED BY <2>1, EscapesNothing, ScanNothing, GrownByNone
<1>2. ASSUME NEW s \in Seq(Characters), s \in S, NEW c \in Characters
      PROVE  Append(s, c) \in S
  <2>1. s \in Words /\ Append(s, c) \in Words
    BY DEF Words
  <2>2. Escapes(Append(s, c)) = Escapes(s) \o Quoted(c)
    BY EscapesOneMore
  <2>3. Escapes(s) \in Words /\ Quoted(c) \in Words
    BY <1>2, QuotedIsText
  <2>4. Escapes(Append(s, c)) \in Words
    BY <2>2, <2>3 DEF Words
  <2>5. Scanned(t, Escapes(Append(s, c))) = Scanned(Grown(t, s, TRUE), Quoted(c))
    <3>1. Scanned(t, Escapes(s) \o Quoted(c)) = Scanned(Scanned(t, Escapes(s)), Quoted(c))
      BY <2>3, ScanJoined
    <3>2. Scanned(t, Escapes(s)) = Grown(t, s, TRUE)
      BY <1>2
    <3> QED BY <2>2, <3>1, <3>2
  <2>6. Grown(t, s, TRUE) \in Scans /\ Grown(t, s, TRUE).state = "Double"
    BY <2>1, Begun
  <2>7. Scanned(Grown(t, s, TRUE), Quoted(c)) = Push(Grown(t, s, TRUE), c)
    BY <2>6, ScanQuotedCharacter
  <2>8. Push(Grown(t, s, TRUE), c) = Grown(t, Append(s, c), TRUE)
    BY <2>1, GrownByOne
  <2> QED BY <2>1, <2>4, <2>5, <2>7, <2>8
<1>3. Words \subseteq S
  <2> HIDE DEF S
  <2> QED BY <1>1, <1>2, TextInduction DEF Words
<1> QED BY <1>3

LEMMA NotQuoted ==
  ASSUME NEW w \in Words, ~NeedsQuotes(w)
  PROVE  w \in Seq(Letters) /\ w # <<>>
<1>1. w # <<>> /\ \A i \in DOMAIN w : w[i] \in Characters /\ w[i] # Blank /\ w[i] \notin Special
  BY DEF NeedsQuotes, Words
<1>2. \A i \in DOMAIN w : w[i] \in Letters
  BY <1>1, Kinds
<1>3. w \in Seq(Letters)
  BY <1>2 DEF Words
<1> QED BY <1>1, <1>3

\* What shell_quote makes of a word reads as the word, after whatever stands
\* before it.
LEMMA ScanQuoted ==
  ASSUME NEW t \in Scans, t.state = "Normal", NEW w \in Words
  PROVE  /\ ShellQuote(w) \in Words
         /\ Scanned(t, ShellQuote(w)) = Grown(t, w, TRUE)
<1>1. CASE ~NeedsQuotes(w)
  <2>1. w \in Seq(Letters) /\ w # <<>> /\ ShellQuote(w) = w
    BY <1>1, NotQuoted DEF ShellQuote
  <2>2. Scanned(t, w) = Grown(t, w, t.inToken \/ w # <<>>)
    BY <2>1, ScanLetters
  <2>3. (t.inToken \/ w # <<>>) = TRUE
    BY <2>1
  <2> QED BY <2>1, <2>2, <2>3
<1>2. CASE NeedsQuotes(w)
  <2> DEFINE u == Scan(t, Double)
             v == Grown(u, w, TRUE)
             e == Escapes(w)
             q == <<Double>>
  <2>1. ShellQuote(w) = q \o e \o q
    BY <1>2 DEF ShellQuote, Escapes
  <2>2. u \in Scans /\ u.state = "Double" /\ u.inToken = TRUE /\ u.cur = t.cur /\ u.out = t.out
    <3>1. u = Opened(t, "Double")
      BY InNormal, Kinds
    <3> HIDE DEF u
    <3> QED BY <3>1, OpenedIs
  <2> HIDE DEF u
  <2>3. e \in Words /\ Scanned(u, e) = v
    BY <2>2, ScanEscapes
  <2>4. /\ v \in Scans /\ v.state = "Double" /\ v.inToken = TRUE
        /\ v.cur = t.cur \o w /\ v.out = t.out
    BY <2>2, Begun
  <2> HIDE DEF v, e
  <2>5. q \in Words /\ Scanned(t, q) = u /\ Scanned(v, q) = Scan(v, Double)
    BY ScanCharacter, Kinds DEF u, Words
  <2> HIDE DEF q
  <2>6. q \o e \in Words /\ q \o e \o q \in Words
    BY <2>3, <2>5 DEF Words
  <2>7. Scanned(t, q \o e \o q) = Scan(v, Double)
    BY <2>3, <2>5, <2>6, ScanJoined
  <2>8. Scan(v, Double) = InState(v, "Normal")
    BY <2>4, InDouble
  <2>9. /\ InState(v, "Normal") \in Scans /\ InState(v, "Normal").state = "Normal"
        /\ InState(v, "Normal").inToken = TRUE /\ InState(v, "Normal").cur = t.cur \o w
        /\ InState(v, "Normal").out = t.out
    BY <2>4, InStateKeeps
  <2>10. /\ Grown(t, w, TRUE) \in Scans /\ Grown(t, w, TRUE).state = "Normal"
         /\ Grown(t, w, TRUE).inToken = TRUE /\ Grown(t, w, TRUE).cur = t.cur \o w
         /\ Grown(t, w, TRUE).out = t.out
    BY Begun
  <2>11. InState(v, "Normal") = Grown(t, w, TRUE)
    BY <2>9, <2>10, SameScan
  <2> QED BY <2>1, <2>6, <2>7, <2>8, <2>11
<1> QED BY <1>1, <1>2

\* A word that ends at the end of the text is one more token.
LEMMA QuotedIsLast ==
  ASSUME NEW in \in Words, NEW w \in Words,
         Scanned(Initial, in).state = "Normal", ~Scanned(Initial, in).inToken
  PROVE  Tokenize(in \o ShellQuote(w)) = {Append(Scanned(Initial, in).out, w)}
<1> DEFINE t == Scanned(Initial, in)
           u == Scanned(Initial, in \o ShellQuote(w))
<1>1. t \in Scans /\ t.state = "Normal" /\ t.cur = <<>>
  BY ScannedKeeps, InitialIsSound DEF Sound
<1>2. u = Grown(t, w, TRUE)
  <2>1. ShellQuote(w) \in Words /\ Scanned(t, ShellQuote(w)) = Grown(t, w, TRUE)
    BY <1>1, ScanQuoted
  <2> QED BY <2>1, ScanJoined
<1> HIDE DEF t, u
<1>3. u.state = "Normal" /\ u.inToken = TRUE /\ u.cur = <<>> \o w /\ u.out = t.out
  <2>1. u.inToken = TRUE /\ u.cur = t.cur \o w /\ u.state = t.state /\ u.out = t.out
    BY <1>1, <1>2, Begun
  <2> QED BY <1>1, <2>1
<1>4. <<>> \o w = w
  BY DEF Words
<1> QED BY <1>3, <1>4, TokenizeIs DEF t, u, Tokens

LEMMA QuotesRead ==
  ASSUME NEW v \in Words, NEW w \in Words
  PROVE  Tokenize(ShellQuote(v) \o <<Blank>> \o ShellQuote(w)) = {<<v, w>>}
<1> DEFINE first == ShellQuote(v)
           gap == <<Blank>>
           in == first \o gap
           t == Grown(Initial, v, TRUE)
<1>1. Initial \in Scans /\ Initial.state = "Normal" /\ Initial.cur = <<>> /\ Initial.out = <<>>
  BY InitialIsSound DEF Sound, Initial
<1>2. first \in Words /\ Scanned(Initial, first) = t
  BY <1>1, ScanQuoted
<1>3. t \in Scans /\ t.state = "Normal" /\ t.inToken = TRUE /\ t.cur = <<>> \o v /\ t.out = <<>>
  <2>1. t \in Scans /\ t.cur = Initial.cur \o v /\ t.state = Initial.state /\ t.out = Initial.out
    BY <1>1, Begun
  <2>2. t.inToken = TRUE
    BY <1>1, Begun
  <2>3. Initial.out = <<>>
    BY DEF Initial
  <2> QED BY <1>1, <2>1, <2>2, <2>3
<1>4. <<>> \o v = v
  BY DEF Words
<1>5. gap \in Words /\ \A x : Scanned(x, gap) = Scan(x, Blank)
  BY ScanCharacter, Kinds DEF Words
<1> HIDE DEF first, gap, t
<1>6. in \in Words /\ Scanned(Initial, in) = Scan(t, Blank)
  BY <1>2, <1>5, ScanJoined DEF Words
<1>7. Scan(t, Blank) = Closed(t)
  BY <1>3, InNormal
<1>8. /\ Scanned(Initial, in).state = "Normal" /\ Scanned(Initial, in).inToken = FALSE
      /\ Scanned(Initial, in).out = Append(<<>>, v)
  <2>1. /\ Closed(t).out = Append(t.out, t.cur) /\ Closed(t).inToken = FALSE
        /\ Closed(t).state = t.state
    BY <1>3, ClosedIs
  <2> QED BY <1>3, <1>4, <1>6, <1>7, <2>1
<1> HIDE DEF in
<1>9. Tokenize(in \o ShellQuote(w)) = {Append(Append(<<>>, v), w)}
  BY <1>6, <1>8, QuotedIsLast
<1>10. Append(Append(<<>>, v), w) = <<v, w>>
  BY Pair
<1> QED BY <1>9, <1>10 DEF in, first, gap

(***************************************************************************)
(* What stands before does not matter to what follows                      *)
(***************************************************************************)

\* t behind the words p.
Behind(p, t) == [t EXCEPT !.out = p \o @]

LEMMA BehindIs ==
  ASSUME NEW t \in Scans, NEW p \in Seq(Words)
  PROVE  /\ Behind(p, t) \in Scans /\ Behind(p, t).out = p \o t.out
         /\ Behind(p, t).cur = t.cur /\ Behind(p, t).inToken = t.inToken
         /\ Behind(p, t).state = t.state
<1> DEFINE more == p \o t.out
<1>1. more \in Seq(Words)
  BY DEF Scans
<1>2. Behind(p, t) = [t EXCEPT !.out = more]
  BY DEF Behind
<1> HIDE DEF more
<1> QED BY <1>1, <1>2 DEF Scans, more

LEMMA PushBehind ==
  ASSUME NEW t \in Scans, NEW p \in Seq(Words), NEW c \in Characters
  PROVE  Push(Behind(p, t), c) = Behind(p, Push(t, c))
<1> DEFINE u == Behind(p, t)
           v == Push(t, c)
<1>1. u \in Scans /\ u.out = p \o t.out /\ u.cur = t.cur /\ u.state = t.state
  BY BehindIs
<1>2. /\ v \in Scans /\ v.out = t.out /\ v.cur = Append(t.cur, c)
      /\ v.state = t.state /\ v.inToken = TRUE
  BY PushKeeps
<1> HIDE DEF u, v
<1>3. /\ Push(u, c) \in Scans /\ Push(u, c).out = p \o t.out /\ Push(u, c).cur = Append(t.cur, c)
      /\ Push(u, c).state = t.state /\ Push(u, c).inToken = TRUE
  <2>1. u \in Scans
    BY <1>1
  <2>2. /\ Push(u, c) \in Scans /\ Push(u, c).inToken = TRUE
        /\ Push(u, c).cur = Append(u.cur, c)
        /\ Push(u, c).state = u.state /\ Push(u, c).out = u.out
    BY <2>1, PushKeeps
  <2> QED BY <1>1, <2>2
<1>4. /\ Behind(p, v) \in Scans /\ Behind(p, v).out = p \o t.out
      /\ Behind(p, v).cur = Append(t.cur, c)
      /\ Behind(p, v).state = t.state /\ Behind(p, v).inToken = v.inToken
  <2>1. v \in Scans
    BY <1>2
  <2>2. /\ Behind(p, v) \in Scans /\ Behind(p, v).out = p \o v.out /\ Behind(p, v).cur = v.cur
        /\ Behind(p, v).state = v.state /\ Behind(p, v).inToken = v.inToken
    BY <2>1, BehindIs
  <2> QED BY <1>2, <2>2
<1>5. Push(u, c) = Behind(p, v)
  <2>1. Push(u, c).inToken = Behind(p, v).inToken
    BY <1>2, <1>3, <1>4
  <2> QED BY <1>3, <1>4, <2>1, SameScan
<1> QED BY <1>5 DEF u, v

LEMMA InStateBehind ==
  ASSUME NEW t \in Scans, NEW p \in Seq(Words),
         NEW s \in {"Normal", "Single", "Double", "Escape", "DoubleEscape"}
  PROVE  InState(Behind(p, t), s) = Behind(p, InState(t, s))
<1> DEFINE u == Behind(p, t)
           v == InState(t, s)
<1>1. u \in Scans /\ u.out = p \o t.out /\ u.cur = t.cur /\ u.inToken = t.inToken
  BY BehindIs
<1>2. v \in Scans /\ v.out = t.out /\ v.cur = t.cur /\ v.state = s /\ v.inToken = t.inToken
  BY InStateKeeps
<1> HIDE DEF u, v
<1>3. /\ InState(u, s) \in Scans /\ InState(u, s).out = p \o t.out /\ InState(u, s).cur = t.cur
      /\ InState(u, s).state = s /\ InState(u, s).inToken = t.inToken
  BY <1>1, InStateKeeps
<1>4. /\ Behind(p, v) \in Scans /\ Behind(p, v).out = p \o t.out /\ Behind(p, v).cur = t.cur
      /\ Behind(p, v).state = s /\ Behind(p, v).inToken = t.inToken
  <2>1. v \in Scans
    BY <1>2
  <2>2. /\ Behind(p, v) \in Scans /\ Behind(p, v).out = p \o v.out /\ Behind(p, v).cur = v.cur
        /\ Behind(p, v).state = v.state /\ Behind(p, v).inToken = v.inToken
    BY <2>1, BehindIs
  <2> QED BY <1>2, <2>2
<1>5. InState(u, s) = Behind(p, v)
  <2>1. InState(u, s).inToken = Behind(p, v).inToken
    BY <1>2, <1>3, <1>4
  <2> QED BY <1>3, <1>4, <2>1, SameScan
<1> QED BY <1>5 DEF u, v

LEMMA OpenedBehind ==
  ASSUME NEW t \in Scans, NEW p \in Seq(Words), NEW s \in {"Single", "Double"}
  PROVE  Opened(Behind(p, t), s) = Behind(p, Opened(t, s))
<1> DEFINE u == Behind(p, t)
           v == Opened(t, s)
<1>1. u \in Scans /\ u.out = p \o t.out /\ u.cur = t.cur
  BY BehindIs
<1>2. v \in Scans /\ v.out = t.out /\ v.cur = t.cur /\ v.state = s /\ v.inToken = TRUE
  BY OpenedIs
<1> HIDE DEF u, v
<1>3. /\ Opened(u, s) \in Scans /\ Opened(u, s).out = p \o t.out /\ Opened(u, s).cur = t.cur
      /\ Opened(u, s).state = s /\ Opened(u, s).inToken = TRUE
  BY <1>1, OpenedIs
<1>4. /\ Behind(p, v) \in Scans /\ Behind(p, v).out = p \o t.out /\ Behind(p, v).cur = t.cur
      /\ Behind(p, v).state = s /\ Behind(p, v).inToken = v.inToken
  <2>1. v \in Scans
    BY <1>2
  <2>2. /\ Behind(p, v) \in Scans /\ Behind(p, v).out = p \o v.out /\ Behind(p, v).cur = v.cur
        /\ Behind(p, v).state = v.state /\ Behind(p, v).inToken = v.inToken
    BY <2>1, BehindIs
  <2> QED BY <1>2, <2>2
<1>5. Opened(u, s) = Behind(p, v)
  <2>1. Opened(u, s).inToken = Behind(p, v).inToken
    BY <1>2, <1>3, <1>4
  <2> QED BY <1>3, <1>4, <2>1, SameScan
<1> QED BY <1>5 DEF u, v

LEMMA ClosedBehind ==
  ASSUME NEW t \in Scans, NEW p \in Seq(Words)
  PROVE  Closed(Behind(p, t)) = Behind(p, Closed(t))
<1> DEFINE u == Behind(p, t)
           v == Closed(t)
<1>1. u \in Scans /\ u.out = p \o t.out /\ u.cur = t.cur /\ u.state = t.state
  BY BehindIs
<1>2. /\ v \in Scans /\ v.out = Append(t.out, t.cur) /\ v.cur = <<>>
      /\ v.state = t.state /\ v.inToken = FALSE
  BY ClosedIs
<1> HIDE DEF u, v
<1>3. /\ Closed(u) \in Scans /\ Closed(u).out = Append(p \o t.out, t.cur) /\ Closed(u).cur = <<>>
      /\ Closed(u).state = t.state /\ Closed(u).inToken = FALSE
  BY <1>1, ClosedIs
<1>4. /\ Behind(p, v) \in Scans /\ Behind(p, v).out = p \o Append(t.out, t.cur)
      /\ Behind(p, v).cur = <<>> /\ Behind(p, v).state = t.state /\ Behind(p, v).inToken = v.inToken
  <2>1. v \in Scans
    BY <1>2
  <2>2. /\ Behind(p, v) \in Scans /\ Behind(p, v).out = p \o v.out /\ Behind(p, v).cur = v.cur
        /\ Behind(p, v).state = v.state /\ Behind(p, v).inToken = v.inToken
    BY <2>1, BehindIs
  <2> QED BY <1>2, <2>2
<1>5. p \o Append(t.out, t.cur) = Append(p \o t.out, t.cur)
  BY DEF Scans
<1>6. Closed(u) = Behind(p, v)
  <2>1. Closed(u).inToken = Behind(p, v).inToken
    BY <1>2, <1>3, <1>4
  <2> QED BY <1>3, <1>4, <1>5, <2>1, SameScan
<1> QED BY <1>6 DEF u, v

LEMMA ScanBehind ==
  ASSUME NEW t \in Scans, NEW p \in Seq(Words), NEW c \in Characters
  PROVE  Scan(Behind(p, t), c) = Behind(p, Scan(t, c))
<1> DEFINE u == Behind(p, t)
<1>1. u \in Scans /\ u.state = t.state /\ u.inToken = t.inToken
  BY BehindIs
<1>2. Push(u, c) = Behind(p, Push(t, c))
  BY PushBehind
<1>3. /\ InState(u, "Normal") = Behind(p, InState(t, "Normal"))
      /\ InState(u, "Escape") = Behind(p, InState(t, "Escape"))
      /\ InState(u, "DoubleEscape") = Behind(p, InState(t, "DoubleEscape"))
  BY InStateBehind
<1>4. /\ Opened(u, "Single") = Behind(p, Opened(t, "Single"))
      /\ Opened(u, "Double") = Behind(p, Opened(t, "Double"))
  BY OpenedBehind
<1>5. Closed(u) = Behind(p, Closed(t))
  BY ClosedBehind
<1>6. Push(t, c) \in Scans /\ Push(u, c) \in Scans
  BY <1>1, PushKeeps
<1>7. /\ InState(Push(u, c), "Normal") = Behind(p, InState(Push(t, c), "Normal"))
      /\ InState(Push(u, c), "Double") = Behind(p, InState(Push(t, c), "Double"))
  BY <1>2, <1>6, InStateBehind
<1>8. InState(Push(Push(u, Backslash), c), "Double")
        = Behind(p, InState(Push(Push(t, Backslash), c), "Double"))
  <2>1. Push(u, Backslash) = Behind(p, Push(t, Backslash)) /\ Push(t, Backslash) \in Scans
    BY PushBehind, PushKeeps, Kinds
  <2>2. /\ Push(Push(u, Backslash), c) = Behind(p, Push(Push(t, Backslash), c))
        /\ Push(Push(t, Backslash), c) \in Scans
    BY <2>1, PushBehind, PushKeeps
  <2> QED BY <2>2, InStateBehind
<1>9. u = Behind(p, t)
  OBVIOUS
<1> HIDE DEF u
<1>10. CASE t.state = "Normal"
  BY <1>1, <1>2, <1>3, <1>4, <1>5, <1>9, <1>10, InNormal
<1>11. CASE t.state = "Single"
  <2>1. /\ Scan(u, c) = IF c = Single THEN InState(u, "Normal") ELSE Push(u, c)
        /\ Scan(t, c) = IF c = Single THEN InState(t, "Normal") ELSE Push(t, c)
    BY <1>1, <1>11, InSingle
  <2> QED BY <1>2, <1>3, <1>9, <2>1
<1>12. CASE t.state = "Double"
  <2>1. /\ Scan(u, c) = IF c = Double THEN InState(u, "Normal")
                        ELSE IF c = Backslash THEN InState(u, "DoubleEscape") ELSE Push(u, c)
        /\ Scan(t, c) = IF c = Double THEN InState(t, "Normal")
                        ELSE IF c = Backslash THEN InState(t, "DoubleEscape") ELSE Push(t, c)
    BY <1>1, <1>12, InDouble
  <2> QED BY <1>2, <1>3, <1>9, <2>1
<1>13. CASE t.state = "Escape"
  <2>1. /\ Scan(u, c) = InState(Push(u, c), "Normal")
        /\ Scan(t, c) = InState(Push(t, c), "Normal")
    BY <1>1, <1>13, InEscape
  <2> QED BY <1>7, <1>9, <2>1
<1>14. CASE t.state = "DoubleEscape"
  <2>1. /\ Scan(u, c) = InState(IF c \in {Double, Backslash} THEN Push(u, c)
                                ELSE Push(Push(u, Backslash), c), "Double")
        /\ Scan(t, c) = InState(IF c \in {Double, Backslash} THEN Push(t, c)
                                ELSE Push(Push(t, Backslash), c), "Double")
    BY <1>1, <1>14, InEscape
  <2>2. CASE c \in {Double, Backslash}
    BY <1>7, <1>9, <2>1, <2>2
  <2>3. CASE c \notin {Double, Backslash}
    BY <1>8, <1>9, <2>1, <2>3
  <2> QED BY <2>2, <2>3
<1> QED BY <1>10, <1>11, <1>12, <1>13, <1>14 DEF Scans, u

LEMMA ScannedBehind ==
  ASSUME NEW t, Sound(t), NEW p \in Seq(Words), NEW w \in Words
  PROVE  Scanned(Behind(p, t), w) = Behind(p, Scanned(t, w))
<1> DEFINE S == {s \in Words : Scanned(Behind(p, t), s) = Behind(p, Scanned(t, s))}
<1>1. <<>> \in S
  BY ScanNothing DEF Words
<1>2. ASSUME NEW s \in Seq(Characters), s \in S, NEW c \in Characters
      PROVE  Append(s, c) \in S
  <2>1. Append(s, c) \in Words /\ s \in Words
    BY DEF Words
  <2>2. Scanned(t, s) \in Scans
    BY <2>1, ScannedKeeps DEF Sound
  <2>3. Scan(Behind(p, Scanned(t, s)), c) = Behind(p, Scan(Scanned(t, s), c))
    BY <2>2, ScanBehind
  <2> QED BY <1>2, <2>1, <2>3, ScanOneMore
<1>3. Words \subseteq S
  <2> HIDE DEF S
  <2> QED BY <1>1, <1>2, TextInduction DEF Words
<1> QED BY <1>3

LEMMA TokensBehind ==
  ASSUME NEW t \in Scans, NEW p \in Seq(Words)
  PROVE  Tokens(Behind(p, t)) = p \o Tokens(t) /\ Tokens(t) \in Seq(Words)
<1>1. /\ p \o Append(t.out, t.cur) = Append(p \o t.out, t.cur)
      /\ Append(t.out, t.cur) \in Seq(Words) /\ t.out \in Seq(Words)
  BY DEF Scans
<1> DEFINE u == Behind(p, t)
<1>2. u.out = p \o t.out /\ u.cur = t.cur /\ u.inToken = t.inToken
  BY BehindIs
<1> HIDE DEF u
<1>3. Tokens(u) = p \o Tokens(t)
  BY <1>1, <1>2 DEF Tokens
<1> QED BY <1>1, <1>3 DEF Tokens, u

(***************************************************************************)
(* The first word                                                          *)
(***************************************************************************)
LEMMA HeadStartIs ==
  ASSUME NEW in \in Words
  PROVE  /\ HeadStart(in) \in 1 .. Len(in) + 1
         /\ \A j \in 1 .. HeadStart(in) - 1 : in[j] = Blank
         /\ HeadStart(in) <= Len(in) => in[HeadStart(in)] # Blank
<1> DEFINE n == Len(in) + 1
           T == {i \in 1 .. n : i <= Len(in) => in[i] # Blank}
           Ok(i) == /\ \A j \in 1 .. i - 1 : in[j] = Blank
                    /\ i <= Len(in) => in[i] # Blank
<1>1. Len(in) \in Nat /\ n \in T /\ T \subseteq Nat
  BY DEF Words
<1>2. PICK i \in T : \A k \in T : i <= k
  <2> HIDE DEF T, n
  <2> QED BY <1>1, LeastNumber
<1>3. i \in 1 .. n /\ Ok(i)
  <2>1. ASSUME NEW j \in 1 .. i - 1, in[j] # Blank
        PROVE  FALSE
    <3>1. j \in T
      BY <1>1, <1>2, <2>1
    <3> QED BY <1>2, <2>1, <3>1
  <2> QED BY <1>2, <2>1
<1>4. HeadStart(in) = CHOOSE k \in 1 .. n : Ok(k)
  BY DEF HeadStart
<1> HIDE DEF Ok, n
<1>5. HeadStart(in) \in 1 .. n /\ Ok(HeadStart(in))
  BY <1>3, <1>4
<1> QED BY <1>5 DEF Ok, n

LEMMA HeadEndIs ==
  ASSUME NEW in \in Words
  PROVE  /\ HeadEnd(in) \in HeadStart(in) .. Len(in) + 1
         /\ \A j \in HeadStart(in) .. HeadEnd(in) - 1 : in[j] # Blank
         /\ HeadEnd(in) <= Len(in) => in[HeadEnd(in)] = Blank
<1> DEFINE n == Len(in) + 1
           b == HeadStart(in)
           T == {i \in b .. n : i <= Len(in) => in[i] = Blank}
           Ok(i) == /\ \A j \in b .. i - 1 : in[j] # Blank
                    /\ i <= Len(in) => in[i] = Blank
<1>1. Len(in) \in Nat /\ b \in 1 .. Len(in) + 1
  BY HeadStartIs DEF Words
<1> HIDE DEF b
<1>2. n \in T /\ T \subseteq Nat
  BY <1>1
<1>3. PICK i \in T : \A k \in T : i <= k
  <2> HIDE DEF T, n
  <2> QED BY <1>2, LeastNumber
<1>4. i \in b .. n /\ Ok(i)
  <2>1. ASSUME NEW j \in b .. i - 1, in[j] = Blank
        PROVE  FALSE
    <3>1. j \in T
      BY <1>1, <1>3, <2>1
    <3> QED BY <1>1, <1>3, <2>1, <3>1
  <2> QED BY <1>3, <2>1
<1>5. HeadEnd(in) = CHOOSE k \in b .. n : Ok(k)
  BY DEF HeadEnd, b
<1> HIDE DEF Ok, n
<1>6. HeadEnd(in) \in b .. n /\ Ok(HeadEnd(in))
  BY <1>4, <1>5
<1> QED BY <1>6 DEF Ok, n, b

\* What stands before the first word is blank, what follows it begins with a
\* blank if it is anything, and if there is no first word nothing follows it.
LEMMA Divided ==
  ASSUME NEW in \in Words
  PROVE  \E gap \in Seq({Blank}) :
           /\ RawHead(in) \in Words /\ RawTail(in) \in Words
           /\ in = gap \o RawHead(in) \o RawTail(in)
           /\ RawTail(in) # <<>> => RawTail(in)[1] = Blank
           /\ RawHead(in) = <<>> => RawTail(in) = <<>>
<1> DEFINE b == HeadStart(in)
           e == HeadEnd(in)
           n == Len(in)
           gap == SubSeq(in, 1, b - 1)
           h == SubSeq(in, b, e - 1)
           r == SubSeq(in, e, n)
<1>1. /\ b \in 1 .. n + 1 /\ e \in b .. n + 1 /\ n \in Nat
      /\ \A j \in 1 .. b - 1 : in[j] = Blank
      /\ b <= n => in[b] # Blank
      /\ e <= n => in[e] = Blank
  BY HeadStartIs, HeadEndIs DEF Words
<1>2. RawHead(in) = h /\ RawTail(in) = r
  BY DEF RawHead, RawTail
<1> HIDE DEF b, e
<1>3. gap \in Seq({Blank})
  BY <1>1 DEF Words
<1>4. h \in Words /\ r \in Words /\ Len(h) = e - b /\ Len(r) = n + 1 - e
  BY <1>1 DEF Words
<1>5. in = gap \o h \o r
  <2>1. in \in Seq(Characters) /\ b - 1 \in Nat /\ e - 1 \in Nat /\ b - 1 <= e - 1 /\ e - 1 <= n
    BY <1>1 DEF Words
  <2>2. b - 1 + 1 = b /\ e - 1 + 1 = e
    BY <1>1
  <2>3. gap \o h = SubSeq(in, 1, e - 1)
    BY <2>1, <2>2, PartContinued
  <2>4. SubSeq(in, 1, e - 1) \o r = SubSeq(in, 1, n)
    <3>1. SubSeq(in, 1, e - 1) \o SubSeq(in, e - 1 + 1, n) = SubSeq(in, 1, n)
      <4>1. \A k \in Nat : (e - 1 <= k /\ k <= Len(in)) =>
              SubSeq(in, 1, e - 1) \o SubSeq(in, e - 1 + 1, k) = SubSeq(in, 1, k)
        BY <2>1, PartContinued
      <4>2. n \in Nat /\ e - 1 <= n /\ n <= Len(in)
        BY <1>1, <2>1
      <4> HIDE DEF n
      <4> QED BY <4>1, <4>2
    <3> QED BY <2>2, <3>1
  <2>5. SubSeq(in, 1, n) = in
    BY <2>1
  <2> QED BY <2>3, <2>4, <2>5
<1>6. r # <<>> => r[1] = Blank
  BY <1>1, <1>4 DEF Words
<1>7. h = <<>> => r = <<>>
  BY <1>1, <1>4 DEF Words
<1> HIDE DEF h, r, gap
<1> QED BY <1>2, <1>3, <1>4, <1>5, <1>6, <1>7

LEMMA GapsAreSkipped ==
  ASSUME NEW gap \in Seq({Blank})
  PROVE  gap \in Words /\ Scanned(Initial, gap) = Initial
<1> DEFINE S == {s \in Words : Scanned(Initial, s) = Initial}
<1>1. <<>> \in S
  BY ScanNothing DEF Words
<1>2. ASSUME NEW s \in Seq({Blank}), s \in S, NEW c \in {Blank}
      PROVE  Append(s, c) \in S
  <2>1. Append(s, c) \in Words /\ c \in Characters /\ s \in Seq(Characters)
    BY <1>2, Kinds DEF Words
  <2>2. Scanned(Initial, Append(s, c)) = Scan(Initial, c)
    BY <1>2, ScanOneMore
  <2>3. Scan(Initial, c) = Initial
    BY InNormal DEF Initial
  <2> QED BY <2>1, <2>2, <2>3
<1>3. Seq({Blank}) \subseteq S
  <2> HIDE DEF S
  <2> QED BY <1>1, <1>2, TextInduction
<1> QED BY <1>3

LEMMA CommandsAreLetters ==
  ASSUME NEW cmd \in Commands
  PROVE  cmd \in Seq(Letters) /\ cmd \in Words /\ cmd # <<>>
BY CmdmodeAssumption, Kinds DEF Words

LEMMA BeginsACommand ==
  ASSUME NEW cmd \in Commands, NEW h \in Words, IsPrefix(h, cmd)
  PROVE  h \in Seq(Letters)
<1>1. Len(h) <= Len(cmd) /\ SubSeq(h, 1, Len(h)) = SubSeq(cmd, 1, Len(h))
  BY DEF IsPrefix
<1>2. cmd \in Seq(Letters)
  BY CommandsAreLetters
<1>3. Len(h) \in Nat /\ SubSeq(h, 1, Len(h)) = h
  BY DEF Words
<1>4. SubSeq(cmd, 1, Len(h)) \in Seq(Letters)
  BY <1>1, <1>2, <1>3
<1> QED BY <1>1, <1>3, <1>4

\* A word of letters and a blank: what follows is read behind the word.
LEMMA ScanAfterWord ==
  ASSUME NEW w \in Seq(Letters), w # <<>>, NEW rest \in Words
  PROVE  Scanned(Initial, w \o <<Blank>> \o rest) = Behind(<<w>>, Scanned(Initial, rest))
<1> DEFINE t == Grown(Initial, w, TRUE)
           gap == <<Blank>>
           one == <<w>>
           u == Behind(one, Initial)
<1>1. Initial \in Scans /\ Initial.state = "Normal" /\ Initial.cur = <<>> /\ Initial.out = <<>>
  BY InitialIsSound DEF Sound, Initial
<1>2. w \in Words /\ (Initial.inToken \/ w # <<>>) = TRUE
  BY Kinds DEF Words
<1>3. Scanned(Initial, w) = t
  BY <1>1, <1>2, ScanLetters
<1>4. t \in Scans /\ t.state = "Normal" /\ t.cur = <<>> \o w /\ t.out = <<>>
  <2>1. t \in Scans /\ t.cur = Initial.cur \o w /\ t.state = Initial.state /\ t.out = Initial.out
    BY <1>1, <1>2, Begun
  <2> QED BY <1>1, <2>1
<1>5. t.inToken = TRUE
  BY <1>1, <1>2, Begun
<1>6. <<>> \o w = w
  OBVIOUS
<1>7. gap \in Words /\ Scanned(t, gap) = Scan(t, Blank)
  <2>1. Blank \in Characters
    BY Kinds
  <2>2. gap \in Words
    BY <2>1 DEF Words
  <2> QED BY <2>1, <2>2, ScanCharacter
<1>8. one \in Seq(Words) /\ Append(<<>>, w) = one /\ one \o <<>> = one
  BY <1>2
<1>9. u \in Scans /\ u.out = one \o <<>> /\ u.cur = <<>> /\ u.state = "Normal"
  BY <1>1, <1>8, BehindIs
<1>10. u.inToken = FALSE
  <2>1. u.inToken = Initial.inToken
    BY <1>1, <1>8, BehindIs
  <2> QED BY <2>1 DEF Initial
<1> HIDE DEF t, gap, one, u
<1>11. Scan(t, Blank) = Closed(t)
  BY <1>4, <1>5, InNormal
<1>12. /\ Closed(t) \in Scans /\ Closed(t).out = one /\ Closed(t).cur = <<>>
       /\ Closed(t).state = "Normal"
  <2>1. Closed(t) \in Scans /\ Closed(t).out = Append(t.out, t.cur)
        /\ Closed(t).cur = <<>> /\ Closed(t).state = t.state
    BY <1>4, ClosedIs
  <2>2. Append(t.out, t.cur) = one
    BY <1>4, <1>6, <1>8
  <2> QED BY <1>4, <2>1, <2>2
<1>13. Closed(t).inToken = FALSE
  BY <1>4, ClosedIs
<1>14. Closed(t) = u
  BY <1>8, <1>9, <1>10, <1>12, <1>13, SameScan
<1>15. w \o gap \in Words /\ Scanned(Initial, w \o gap) = u
  <2>1. w \o gap \in Words
    BY <1>2, <1>7 DEF Words
  <2>2. Scanned(Initial, w \o gap) = Scanned(Scanned(Initial, w), gap)
    BY <1>2, <1>7, ScanJoined
  <2> QED BY <1>3, <1>7, <1>11, <1>14, <2>1, <2>2
<1>16. Scanned(Initial, w \o gap \o rest) = Scanned(u, rest)
  BY <1>15, ScanJoined
<1>17. Scanned(u, rest) = Behind(one, Scanned(Initial, rest))
  BY <1>8, InitialIsSound, ScannedBehind DEF u
<1> QED BY <1>16, <1>17 DEF gap, one

LEMMA TokensAfterWord ==
  ASSUME NEW w \in Seq(Letters), w # <<>>, NEW rest \in Words
  PROVE  Tokenize(w \o <<Blank>> \o rest) = {<<w>> \o ts : ts \in Tokenize(rest)}
<1> DEFINE z == Scanned(Initial, rest)
           s == Scanned(Initial, w \o <<Blank>> \o rest)
<1>1. z \in Scans
  BY ScannedKeeps, InitialIsSound DEF Sound
<1>2. s = Behind(<<w>>, z)
  BY ScanAfterWord
<1>3. <<w>> \in Seq(Words)
  BY Kinds DEF Words
<1> HIDE DEF z, s
<1>4. s.state = z.state /\ Tokens(s) = <<w>> \o Tokens(z)
  BY <1>1, <1>2, <1>3, BehindIs, TokensBehind
<1>5. /\ Tokenize(rest) = IF z.state # "Normal" THEN {} ELSE {Tokens(z)}
      /\ Tokenize(w \o <<Blank>> \o rest) = IF s.state # "Normal" THEN {} ELSE {Tokens(s)}
  BY TokenizeIs DEF z, s
<1> QED BY <1>4, <1>5

LEMMA TokensOfWord ==
  ASSUME NEW w \in Seq(Letters)
  PROVE  Tokenize(w) = {IF w = <<>> THEN <<>> ELSE <<w>>}
<1> DEFINE t == Scanned(Initial, w)
<1>1. Initial \in Scans /\ Initial.state = "Normal" /\ Initial.cur = <<>> /\ Initial.out = <<>>
  BY InitialIsSound DEF Sound, Initial
<1>2. w \in Words /\ <<>> \o w = w /\ Append(<<>>, w) = <<w>>
  BY Kinds DEF Words
<1>3. CASE w = <<>>
  <2>1. t = Initial
    BY <1>3, ScanNothing
  <2>2. Tokens(Initial) = <<>>
    BY DEF Tokens, Initial
  <2> QED BY <1>1, <1>3, <2>1, <2>2, TokenizeIs
<1>4. CASE w # <<>>
  <2>1. (Initial.inToken \/ w # <<>>) = TRUE
    BY <1>4
  <2>2. t = Grown(Initial, w, TRUE)
    BY <1>1, <2>1, ScanLetters
  <2> HIDE DEF t
  <2>3. t.state = "Normal" /\ t.out = <<>> /\ t.cur = w
    BY <1>1, <1>2, <2>2, Begun
  <2>4. t.inToken = TRUE
    BY <1>1, <1>2, <2>2, Begun
  <2>5. Tokens(t) = <<w>>
    BY <1>2, <2>3, <2>4 DEF Tokens
  <2> QED BY <1>4, <2>3, <2>5, TokenizeIs DEF t
<1> QED BY <1>3, <1>4

LEMMA OnlyTokens ==
  ASSUME NEW in, NEW tokens \in Tokenize(in)
  PROVE  Tokenize(in) = {tokens} /\ TokensOf(in) = tokens
<1>1. Tokenize(in) = {tokens}
  BY TokenizeIs
<1> QED BY <1>1 DEF TokensOf

LEMMA GapBefore ==
  ASSUME NEW gap \in Seq({Blank}), NEW s \in Words
  PROVE  Tokenize(gap \o s) = Tokenize(s)
<1>1. Scanned(Initial, gap \o s) = Scanned(Initial, s)
  <2>1. gap \in Words /\ Scanned(Initial, gap) = Initial
    BY GapsAreSkipped
  <2>2. Scanned(Initial, gap \o s) = Scanned(Scanned(Initial, gap), s)
    BY <2>1, ScanJoined
  <2> QED BY <2>1, <2>2
<1> QED BY <1>1, TokenizeIs

\* The name replaces the first word, which is the first token, and no other.
LEMMA HeadCompleted ==
  ASSUME NEW in \in Words, NEW tokens \in Tokenize(in),
         NEW cmd \in Commands, IsPrefix(RawHead(in), cmd)
  PROVE  Tokenize(cmd \o RawTail(in))
           = {<<cmd>> \o (IF tokens = <<>> THEN <<>> ELSE Tail(tokens))}
<1> DEFINE h == RawHead(in)
           r == RawTail(in)
<1>1. PICK gap \in Seq({Blank}) :
        /\ h \in Words /\ r \in Words
        /\ in = gap \o h \o r
        /\ r # <<>> => r[1] = Blank
        /\ h = <<>> => r = <<>>
  BY Divided
<1>2. h \in Seq(Letters)
  BY <1>1, BeginsACommand
<1>3. cmd \in Seq(Letters) /\ cmd # <<>>
  BY CommandsAreLetters
<1> HIDE DEF h, r
<1>4. Tokenize(in) = Tokenize(h \o r)
  <2>1. gap \in Words /\ h \o r \in Words
    BY <1>1, GapsAreSkipped DEF Words
  <2>2. gap \o h \o r = gap \o (h \o r)
    <3>1. gap \in Seq(Characters) /\ h \in Seq(Characters) /\ r \in Seq(Characters)
      BY <1>1, <2>1 DEF Words
    <3> QED BY <3>1
  <2>3. Tokenize(gap \o (h \o r)) = Tokenize(h \o r)
    <3>1. gap \in Seq({Blank})
      BY <1>1
    <3> QED BY <2>1, <3>1, GapBefore
  <2> QED BY <1>1, <2>2, <2>3
<1>5. CASE r = <<>>
  <2>1. h \o r = h /\ cmd \o r = cmd /\ <<cmd>> \o <<>> = <<cmd>> /\ Tail(<<h>>) = <<>>
    BY <1>2, <1>3, <1>5
  <2>2. tokens = IF h = <<>> THEN <<>> ELSE <<h>>
    BY <1>2, <1>4, <2>1, TokensOfWord
  <2>3. (IF tokens = <<>> THEN <<>> ELSE Tail(tokens)) = <<>>
    BY <2>1, <2>2
  <2>4. Tokenize(cmd) = {<<cmd>>}
    BY <1>3, TokensOfWord
  <2> QED BY <2>1, <2>3, <2>4 DEF r
<1>6. CASE r # <<>>
  <2> DEFINE rest == SubSeq(r, 2, Len(r))
             gap1 == <<Blank>>
  <2>1. rest \in Words /\ r = gap1 \o rest /\ gap1 \in Words
    <3>1. Blank \in Characters
      BY Kinds
    <3>2. r \in Seq(Characters) /\ r # <<>> /\ r[1] = Blank
      BY <1>1, <1>6 DEF Words
    <3> HIDE DEF r
    <3> QED BY <3>1, <3>2 DEF Words
  <2> HIDE DEF rest, gap1
  <2>2. h \o r = h \o gap1 \o rest /\ cmd \o r = cmd \o gap1 \o rest
    <3>1. h \in Seq(Characters) /\ cmd \in Seq(Characters)
      BY <1>1, CommandsAreLetters DEF Words
    <3>2. gap1 \in Seq(Characters) /\ rest \in Seq(Characters)
      BY <2>1 DEF Words
    <3>3. /\ h \o (gap1 \o rest) = h \o gap1 \o rest
          /\ cmd \o (gap1 \o rest) = cmd \o gap1 \o rest
      <4>1. \A a, b, c \in Seq(Characters) : a \o (b \o c) = a \o b \o c
        BY Associative
      <4> QED BY <3>1, <3>2, <4>1
    <3> QED BY <2>1, <3>3
  <2>3. h # <<>>
    BY <1>1, <1>6
  <2>4. Tokenize(in) = {<<h>> \o ts : ts \in Tokenize(rest)}
    BY <1>2, <1>4, <2>1, <2>2, <2>3, TokensAfterWord DEF gap1
  <2>5. PICK ts \in Tokenize(rest) : tokens = <<h>> \o ts
    BY <2>4
  <2>6. Tokenize(rest) = {ts} /\ ts \in Seq(Words)
    BY <2>1, <2>5, OnlyTokens, TokensAreWords
  <2>7. Tokenize(cmd \o r) = {<<cmd>> \o x : x \in Tokenize(rest)}
    BY <1>3, <2>1, <2>2, TokensAfterWord DEF gap1
  <2>8. Tokenize(cmd \o r) = {<<cmd>> \o ts}
    BY <2>6, <2>7
  <2>9. tokens # <<>> /\ Tail(tokens) = ts
    <3>1. ts \in Seq(Words)
      BY <2>6
    <3> QED BY <1>1, <2>5, <3>1, AfterOne
  <2> QED BY <2>8, <2>9 DEF r
<1> QED BY <1>5, <1>6

(***************************************************************************)
(* The line                                                                *)
(***************************************************************************)

\* The type invariant: the line is a text.
LineTypeOK == line \in Words

LEMMA PartialIsText ==
  ASSUME NEW in \in Words, HeadIsCommand(in, TokensOf(in))
  PROVE  /\ TokensOf(in) \in Tokenize(in) /\ TokensOf(in) \in Seq(Words)
         /\ Partial(in, TokensOf(in)) \in Words
<1>1. TokensOf(in) # <<>>
  BY DEF HeadIsCommand
<1>2. TokensOf(in) \in Tokenize(in)
  BY <1>1 DEF TokensOf
<1>3. TokensOf(in) \in Seq(Words)
  BY <1>2, TokensAreWords
<1>4. Last(TokensOf(in)) \in Words
  BY <1>1, <1>3 DEF Last
<1> QED BY <1>2, <1>3, <1>4 DEF Partial, Words

LEMMA CandidatesAreTexts ==
  ASSUME NEW in \in Words, NEW tokens \in Seq(Words), HeadIsCommand(in, tokens),
         NEW c \in Matching(in, tokens)
  PROVE  /\ c \in Words
         /\ ArgIndex(in, tokens) = 1
<1> DEFINE cmd == Head(tokens)
           n == ArgIndex(in, tokens)
           args == Schema[cmd]
<1>1. cmd \in DOMAIN Schema /\ ~(n > Len(args)) /\ args[n] # "FreeText" /\ c \in Candidates[args[n]]
  BY DEF Matching
<1>2. n \in Nat /\ n >= 1
  <2>1. tokens # <<>> /\ (TrailingSpace(in) \/ Len(tokens) > 1)
    BY DEF HeadIsCommand
  <2> QED BY <2>1 DEF ArgIndex
<1> HIDE DEF n, cmd, args
<1>3. args \in Seq(DOMAIN Candidates \cup {"FreeText"})
      /\ \A k \in DOMAIN args : k > 1 => args[k] = "FreeText"
  BY <1>1, CmdmodeAssumption DEF args
<1>4. n \in DOMAIN args
  BY <1>1, <1>2, <1>3
<1>5. args[n] \in DOMAIN Candidates
  BY <1>1, <1>3, <1>4
<1>6. c \in Words
  BY <1>1, <1>5, CmdmodeAssumption
<1>7. n = 1
  BY <1>1, <1>2, <1>3, <1>4
<1> QED BY <1>6, <1>7 DEF n

LEMMA CompletedIsText ==
  ASSUME NEW in \in Words, NEW s \in Complete(in)
  PROVE  s \in Words
<1>1. CASE HeadIsCommand(in, TokensOf(in))
  <2> DEFINE tokens == TokensOf(in)
  <2>1. tokens \in Seq(Words) /\ Partial(in, tokens) \in Words
    BY <1>1, PartialIsText
  <2>2. PICK c \in Matching(in, tokens) :
          s = SubSeq(in, 1, Len(in) - Len(Partial(in, tokens))) \o ShellQuote(c)
    BY <1>1 DEF Complete, CompleteArgument
  <2>3. c \in Words
    BY <1>1, <2>1, CandidatesAreTexts
  <2>4. ShellQuote(c) \in Words
    <3>1. Initial \in Scans /\ Initial.state = "Normal"
      BY InitialIsSound DEF Sound, Initial
    <3> QED BY <2>3, <3>1, ScanQuoted
  <2>5. SubSeq(in, 1, Len(in) - Len(Partial(in, tokens))) \in Words
    <3> DEFINE k == Len(Partial(in, tokens))
    <3>1. k \in Nat
      BY <2>1 DEF Words
    <3> HIDE DEF k
    <3>2. SubSeq(in, 1, Len(in) - k) \in Words
      BY <3>1 DEF Words
    <3> QED BY <3>2 DEF k
  <2> QED BY <2>2, <2>4, <2>5 DEF Words
<1>2. CASE ~HeadIsCommand(in, TokensOf(in))
  <2>1. PICK cmd \in Commands : s = cmd \o RawTail(in)
    BY <1>2 DEF Complete, CompleteHead
  <2>2. RawTail(in) \in Words
    BY Divided
  <2> QED BY <2>1, <2>2, CommandsAreLetters DEF Words
<1> QED BY <1>1, <1>2

\* The line is a text, whatever is typed, erased and completed.
THEOREM LineTypeCorrect == LineSpec => []LineTypeOK
<1>1. LineInit => LineTypeOK
  BY DEF LineInit, LineTypeOK, Words
<1>2. LineTypeOK /\ [LineNext]_line => LineTypeOK'
  <2> SUFFICES ASSUME LineTypeOK, [LineNext]_line PROVE LineTypeOK'
    OBVIOUS
  <2>1. ASSUME NEW c \in Characters, Type(c) PROVE LineTypeOK'
    BY <2>1 DEF Type, LineTypeOK, Words
  <2>2. CASE Erase
    BY <2>2 DEF Erase, LineTypeOK, Words, Front
  <2>3. CASE Tab
    BY <2>3, CompletedIsText DEF Tab, LineTypeOK
  <2>4. CASE UNCHANGED line
    BY <2>4 DEF LineTypeOK
  <2> QED BY <2>1, <2>2, <2>3, <2>4 DEF LineNext
<1> QED BY <1>1, <1>2, PTL DEF LineSpec

\* shell_quote and tokenize: any two words, quoted and put on one line, are
\* read back as they were, however long and whatever characters they have.
THEOREM QuotedReadsBack == LineSpec => []QuotingIsInvertible
<1>1. LineTypeOK => QuotingIsInvertible
  <2> SUFFICES ASSUME LineTypeOK PROVE QuotingIsInvertible
    OBVIOUS
  <2> DEFINE v == line
             w == Reverse(line)
  <2>1. v \in Words /\ w \in Words
    BY DEF LineTypeOK, Words, Reverse
  <2> HIDE DEF v, w
  <2>2. Tokenize(ShellQuote(v) \o <<Blank>> \o ShellQuote(w)) = {<<v, w>>}
    BY <2>1, QuotesRead
  <2>3. <<v, w>>[1] = v /\ <<v, w>>[2] = w
    OBVIOUS
  <2> QED BY <2>2, <2>3 DEF QuotingIsInvertible, v, w
<1> QED BY <1>1, LineTypeCorrect, PTL

\* complete: a name that is completed takes the place of the first word, and
\* the other words are read as they were.
THEOREM HeadOnly == LineSpec => []HeadKeepsTheRest
<1>1. LineTypeOK => HeadKeepsTheRest
  <2> SUFFICES ASSUME LineTypeOK, NEW tokens \in Tokenize(line), ~HeadIsCommand(line, tokens),
                      NEW s \in Complete(line)
               PROVE  \E cmd \in Commands :
                        Tokenize(s) = {<<cmd>> \o (IF tokens = <<>> THEN <<>> ELSE Tail(tokens))}
    BY DEF HeadKeepsTheRest
  <2>1. TokensOf(line) = tokens
    BY OnlyTokens
  <2>2. PICK cmd \in Commands : IsPrefix(RawHead(line), cmd) /\ s = cmd \o RawTail(line)
    BY <2>1 DEF Complete, CompleteHead
  <2>3. Tokenize(cmd \o RawTail(line)) = {<<cmd>> \o (IF tokens = <<>> THEN <<>> ELSE Tail(tokens))}
    BY <2>2, HeadCompleted DEF LineTypeOK
  <2> QED BY <2>2, <2>3
<1> QED BY <1>1, LineTypeCorrect, PTL

(***************************************************************************)
(* The last word                                                           *)
(***************************************************************************)

\* After a blank that leaves no quote open, either a word is over or the blank
\* was escaped and is the end of one.
LEMMA AfterBlank ==
  ASSUME NEW t, Sound(t)
  PROVE  LET u == Scan(t, Blank)
         IN /\ u.state \in {"Normal", "Single", "Double"}
            /\ u.state = "Normal" /\ u.inToken => \E x \in Words : u.cur = Append(x, Blank)
<1> DEFINE u == Scan(t, Blank)
<1>1. t \in Scans /\ Blank \in Characters /\ t.cur \in Words
  BY Kinds DEF Sound, Scans
<1>2. Push(t, Blank) \in Scans /\ Push(t, Blank).cur = Append(t.cur, Blank)
  BY <1>1, PushKeeps
<1>3. Push(t, Blank).state = t.state
  BY <1>1, PushKeeps
<1>4. CASE t.state = "Normal" /\ t.inToken
  <2>1. u = Closed(t)
    BY <1>4, InNormal
  <2>2. Closed(t).inToken = FALSE
    BY <1>1, ClosedIs
  <2>3. Closed(t).state = t.state
    BY <1>1, ClosedIs
  <2> QED BY <1>4, <2>1, <2>2, <2>3
<1>5. CASE t.state = "Normal" /\ ~t.inToken
  BY <1>5, InNormal
<1>6. CASE t.state \in {"Single", "Double"}
  <2>1. u = Push(t, Blank)
    BY <1>6, InSingle, InDouble, Kinds
  <2> QED BY <1>3, <1>6, <2>1
<1>7. CASE t.state = "Escape"
  <2>1. u = InState(Push(t, Blank), "Normal")
    BY <1>7, InEscape
  <2>2. u.state = "Normal" /\ u.cur = Append(t.cur, Blank)
    BY <1>2, <2>1, InStateKeeps
  <2> QED BY <1>1, <2>2
<1>8. CASE t.state = "DoubleEscape"
  <2> DEFINE v == Push(Push(t, Backslash), Blank)
  <2>1. u = InState(v, "Double")
    BY <1>8, InEscape, Kinds
  <2>2. v \in Scans
    BY <1>1, PushKeeps, Kinds
  <2>3. u.state = "Double"
    BY <2>1, <2>2, InStateKeeps
  <2> QED BY <2>3
<1> QED BY <1>1, <1>4, <1>5, <1>6, <1>7, <1>8 DEF Scans

LEMMA BlankInNoCommand ==
  ASSUME NEW x \in Words
  PROVE  Append(x, Blank) \notin Commands
<1>1. Append(x, Blank) \in Seq(Characters) /\ Len(Append(x, Blank)) \in DOMAIN Append(x, Blank)
      /\ Append(x, Blank)[Len(Append(x, Blank))] = Blank
  BY Kinds DEF Words
<1> DEFINE z == Append(x, Blank)
<1> HIDE DEF z
<1> SUFFICES ASSUME z \in Commands PROVE FALSE
  BY DEF z
<1>2. z \in Seq(Letters)
  BY CommandsAreLetters
<1>3. z[Len(z)] \in Letters
  BY <1>1, <1>2 DEF z
<1> QED BY <1>1, <1>3, Kinds DEF z

LEMMA EndsIn ==
  ASSUME NEW T, NEW s \in Seq(T), NEW r \in Seq(T), IsSuffix(r, s)
  PROVE  Len(r) <= Len(s) /\ s = SubSeq(s, 1, Len(s) - Len(r)) \o r
<1> DEFINE n == Len(s)
           m == Len(r)
           x == SubSeq(s, 1, n - m)
           y == SubSeq(s, n - m + 1, n)
<1>1. n \in Nat /\ m \in Nat
  OBVIOUS
<1>2. /\ Len(Reverse(r)) = m /\ Len(Reverse(s)) = n
      /\ Reverse(r) \in Seq(T) /\ Reverse(s) \in Seq(T)
      /\ \A i \in 1 .. m : Reverse(r)[i] = r[m - i + 1]
      /\ \A i \in 1 .. n : Reverse(s)[i] = s[n - i + 1]
  BY DEF Reverse
<1>3. m <= n /\ SubSeq(Reverse(r), 1, m) = SubSeq(Reverse(s), 1, m)
  BY <1>2 DEF IsSuffix, IsPrefix
<1>4. ASSUME NEW i \in 1 .. m
      PROVE  Reverse(r)[i] = Reverse(s)[i]
  <2>1. SubSeq(Reverse(r), 1, m)[i] = Reverse(r)[i] /\ SubSeq(Reverse(s), 1, m)[i] = Reverse(s)[i]
    BY <1>1, <1>2, <1>3
  <2> QED BY <1>3, <2>1
<1>5. ASSUME NEW i \in 1 .. m
      PROVE  r[i] = s[n - m + i]
  <2> DEFINE j == m - i + 1
  <2>1. j \in 1 .. m /\ j \in 1 .. n /\ m - j + 1 = i /\ n - j + 1 = n - m + i
    BY <1>1, <1>3
  <2> HIDE DEF j
  <2>2. Reverse(r)[j] = Reverse(s)[j]
    BY <1>4, <2>1
  <2> QED BY <1>2, <2>1, <2>2
<1>6. y \in Seq(T) /\ Len(y) = m /\ \A i \in 1 .. m : y[i] = s[n - m + i]
  BY <1>1, <1>3
<1> HIDE DEF y
<1>7. y = r
  BY <1>5, <1>6
<1>8. x \o SubSeq(s, n - m + 1, n) = SubSeq(s, 1, n)
  <2>1. n - m \in Nat /\ n - m <= n
    BY <1>1, <1>3
  <2>2. n \in Nat /\ n <= Len(s)
    BY <1>1
  <2>3. \A k, b \in Nat : (k <= b /\ b <= Len(s)) =>
          SubSeq(s, 1, k) \o SubSeq(s, k + 1, b) = SubSeq(s, 1, b)
    BY PartContinued
  <2> DEFINE k == n - m
  <2> HIDE DEF n, k
  <2>4. SubSeq(s, 1, k) \o SubSeq(s, k + 1, n) = SubSeq(s, 1, n)
    BY <2>1, <2>2, <2>3 DEF k
  <2> QED BY <2>4 DEF k
<1>9. SubSeq(s, 1, n) = s
  OBVIOUS
<1> QED BY <1>3, <1>7, <1>8, <1>9 DEF y

(***************************************************************************)
(* Completing an argument                                                  *)
(***************************************************************************)

\* The words before, and one of the candidates.
Becomes(in, tokens, before) ==
  {Tokenize(s) : s \in Complete(in)} = {{Append(before, c)} : c \in Matching(in, tokens)}

\* What is kept of the line ends where a word may begin: the candidate becomes
\* a word of its own.
LEMMA Completed ==
  ASSUME NEW in \in Words, NEW tokens \in Tokenize(in), HeadIsCommand(in, tokens),
         NEW kept \in Words, NEW before,
         kept = SubSeq(in, 1, Len(in) - Len(Partial(in, tokens))),
         Scanned(Initial, kept).state = "Normal", ~Scanned(Initial, kept).inToken,
         Scanned(Initial, kept).out = before
  PROVE  Becomes(in, tokens, before)
<1>1. TokensOf(in) = tokens /\ tokens \in Seq(Words)
  BY OnlyTokens, TokensAreWords
<1>2. Complete(in) = {kept \o ShellQuote(c) : c \in Matching(in, tokens)}
  BY <1>1 DEF Complete, CompleteArgument
<1>3. ASSUME NEW c \in Matching(in, tokens)
      PROVE  Tokenize(kept \o ShellQuote(c)) = {Append(before, c)}
  <2>1. c \in Words
    BY <1>1, CandidatesAreTexts
  <2> QED BY <2>1, QuotedIsLast
<1>4. {Tokenize(s) : s \in Complete(in)}
        = {Tokenize(kept \o ShellQuote(c)) : c \in Matching(in, tokens)}
  BY <1>2
<1> QED BY <1>3, <1>4 DEF Becomes

LEMMA NewWord ==
  ASSUME line \in Words, NEW tokens \in Tokenize(line), HeadIsCommand(line, tokens),
         TrailingSpace(line)
  PROVE  CompletesLastWord(tokens)
<1> DEFINE k == Len(line)
           pre == SubSeq(line, 1, k - 1)
           gap == <<Blank>>
           t == Scanned(Initial, line)
           before == IF TrailingSpace(line) THEN tokens ELSE Front(tokens)
<1>1. line \in Seq(Characters) /\ k \in Nat /\ k >= 1 /\ line[k] = Blank
  BY DEF Words, TrailingSpace, Last
<1>2. pre \in Words /\ line = Append(pre, Blank)
  BY <1>1 DEF Words
<1>3. Sound(Scanned(Initial, pre))
  BY <1>2, InitialIsSound, ScannedKeeps
<1>4. t = Scan(Scanned(Initial, pre), Blank)
  <2>1. pre \in Seq(Characters) /\ Blank \in Characters
    BY <1>2, Kinds DEF Words
  <2> HIDE DEF pre
  <2>2. Scanned(Initial, Append(pre, Blank)) = Scan(Scanned(Initial, pre), Blank)
    BY <2>1, ScanOneMore
  <2> QED BY <1>2, <2>2
<1> HIDE DEF t, pre, k
<1>5. t \in Scans /\ t.state = "Normal" /\ tokens = Tokens(t)
  BY InitialIsSound, ScannedKeeps, TokenizeIs DEF t, Sound
<1>6. Partial(line, tokens) = <<>> /\ before = tokens
  BY DEF Partial
<1>7. SubSeq(line, 1, Len(line) - Len(Partial(line, tokens))) = line
  BY <1>1, <1>6
<1>8. CASE ~t.inToken
  <2>1. t.out = tokens
    BY <1>5, <1>8 DEF Tokens
  <2>2. Becomes(line, tokens, tokens)
    <3>1. /\ Scanned(Initial, line).state = "Normal" /\ ~Scanned(Initial, line).inToken
          /\ Scanned(Initial, line).out = tokens
      BY <1>5, <1>8, <2>1 DEF t
    <3>2. line = SubSeq(line, 1, Len(line) - Len(Partial(line, tokens)))
      BY <1>7
    <3> HIDE DEF t
    <3> QED BY <3>1, <3>2, Completed
  <2> QED BY <1>6, <2>2 DEF CompletesLastWord, Becomes
<1>9. CASE t.inToken
  <2>1. PICK x \in Words : t.cur = Append(x, Blank)
    BY <1>3, <1>4, <1>5, <1>9, AfterBlank
  <2>2. tokens = Append(t.out, t.cur) /\ tokens \in Seq(Words)
    BY <1>5, <1>9, TokensAreWords DEF Tokens
  <2>3. ASSUME NEW c \in Matching(line, tokens)
        PROVE  FALSE
    <3>1. Len(tokens) = 1
      BY <2>2, <2>3, CandidatesAreTexts DEF ArgIndex
    <3>2. Head(tokens) = t.cur
      BY <1>5, <2>2, <3>1 DEF Scans
    <3>3. t.cur \in Commands
      BY <3>2 DEF HeadIsCommand
    <3> QED BY <2>1, <3>3, BlankInNoCommand
  <2>4. TokensOf(line) = tokens
    BY OnlyTokens
  <2>5. Matching(line, tokens) = {} /\ Complete(line) = {}
    BY <2>3, <2>4 DEF Complete, CompleteArgument
  <2> QED BY <2>5 DEF CompletesLastWord
<1> QED BY <1>8, <1>9

LEMMA PlainWord ==
  ASSUME line \in Words, NEW tokens \in Tokenize(line), HeadIsCommand(line, tokens),
         ~TrailingSpace(line), LastWordIsPlain(tokens)
  PROVE  CompletesLastWord(tokens)
<1> DEFINE w == Last(tokens)
           gap == <<Blank>>
           raw == gap \o w
           n == Len(line)
           pre == SubSeq(line, 1, n - Len(raw))
           kept == pre \o gap
           t == Scanned(Initial, kept)
<1>1. tokens \in Seq(Words) /\ tokens # <<>> /\ w \in Words
  BY TokensAreWords DEF HeadIsCommand, Last
<1>2. w \in Seq(Letters) /\ w # <<>> /\ IsSuffix(raw, line)
  BY <1>1, NotQuoted DEF LastWordIsPlain
<1>3. gap \in Seq(Characters) /\ w \in Seq(Characters) /\ line \in Seq(Characters)
      /\ Blank \in Characters
  BY <1>1, Kinds DEF Words
<1> HIDE DEF gap, w
<1>4. raw \in Seq(Characters) /\ Len(raw) = Len(gap) + Len(w)
  BY <1>3, Joined
<1>5. Len(raw) <= n /\ line = pre \o raw
  <2> DEFINE r == raw
  <2> HIDE DEF r
  <2>1. r \in Seq(Characters) /\ IsSuffix(r, line)
    BY <1>2, <1>4 DEF r
  <2>2. Len(r) <= Len(line) /\ line = SubSeq(line, 1, Len(line) - Len(r)) \o r
    BY <1>3, <2>1, EndsIn
  <2> QED BY <2>2 DEF r
<1>6. pre \in Seq(Characters) /\ Len(pre) = n - Len(raw)
  <2> DEFINE k == n - Len(raw)
  <2>1. k \in Nat /\ k <= Len(line)
    BY <1>3, <1>4, <1>5
  <2> HIDE DEF k
  <2>2. SubSeq(line, 1, k) \in Seq(Characters) /\ Len(SubSeq(line, 1, k)) = k
    BY <1>3, <2>1
  <2> QED BY <2>2 DEF k
<1> HIDE DEF pre
<1>7. kept \in Seq(Characters) /\ Len(kept) = Len(pre) + Len(gap) /\ line = kept \o w
  <2>1. \A a, b, c \in Seq(Characters) : a \o (b \o c) = a \o b \o c
    BY Associative
  <2>2. kept \in Seq(Characters) /\ Len(kept) = Len(pre) + Len(gap)
    BY <1>3, <1>6, Joined
  <2> QED BY <1>3, <1>5, <1>6, <2>1, <2>2
<1>8. kept = SubSeq(line, 1, n - Len(w)) /\ Partial(line, tokens) = w
  <2>1. n - Len(w) = Len(kept) /\ Len(kept) \in Nat /\ Len(w) \in Nat
    BY <1>3, <1>4, <1>6, <1>7
  <2>2. SubSeq(line, 1, Len(kept)) = kept
    <3> HIDE DEF kept
    <3> QED BY <1>3, <1>7
  <2> QED BY <2>1, <2>2 DEF Partial, w
<1>9. t = Scan(Scanned(Initial, pre), Blank)
  <2>1. Scanned(Initial, pre \o gap) = Scanned(Scanned(Initial, pre), gap)
    BY <1>3, <1>6, ScanJoined DEF Words
  <2> QED BY <1>3, <2>1, ScanCharacter DEF gap
<1>10. Sound(Scanned(Initial, pre)) /\ Sound(t)
  BY <1>6, <1>7, InitialIsSound, ScannedKeeps DEF Words
<1>11. /\ t.state \in {"Normal", "Single", "Double"}
       /\ t.state = "Normal" /\ t.inToken => \E x \in Words : t.cur = Append(x, Blank)
  BY <1>9, <1>10, AfterBlank
<1>12. Scanned(Initial, line) = Scanned(t, w)
  BY <1>1, <1>7, ScanJoined DEF Words
<1> HIDE DEF kept, t
<1>13. t \in Scans
  BY <1>10 DEF Sound
<1>14. Scanned(t, w).state = "Normal" /\ tokens = Tokens(Scanned(t, w))
  BY <1>12, TokenizeIs
<1>15. t.state = "Normal"
  BY <1>2, <1>11, <1>13, <1>14, LettersStayInside
<1>16. Scanned(t, w) = Grown(t, w, TRUE)
  <2>1. Scanned(t, w) = Grown(t, w, t.inToken \/ w # <<>>)
    BY <1>2, <1>13, <1>15, ScanLetters
  <2>2. (t.inToken \/ w # <<>>) = TRUE
    BY <1>2
  <2> QED BY <2>1, <2>2
<1>17. tokens = Append(t.out, t.cur \o w)
  <2> DEFINE u == Grown(t, w, TRUE)
  <2>1. u.cur = t.cur \o w /\ u.out = t.out
    BY <1>1, <1>13, Begun
  <2>2. u.inToken = TRUE
    BY <1>1, <1>13, Begun
  <2> QED BY <1>14, <1>16, <2>1, <2>2 DEF Tokens
<1>18. t.cur \o w = w /\ Front(tokens) = t.out
  <2>1. t.out \in Seq(Words) /\ t.cur \o w \in Words
    BY <1>1, <1>13 DEF Scans, Words
  <2> DEFINE x == t.cur \o w
  <2> HIDE DEF x
  <2>2. Last(Append(t.out, x)) = x /\ Front(Append(t.out, x)) = t.out
    BY <2>1 DEF Last, Front, x
  <2> QED BY <1>17, <2>2 DEF w, x
<1>19. ~t.inToken
  <2> SUFFICES ASSUME t.inToken PROVE FALSE
    OBVIOUS
  <2>1. PICK x \in Words : t.cur = Append(x, Blank)
    BY <1>11, <1>15
  <2>2. t.cur \in Seq(Characters) /\ Len(t.cur) > 0
    BY <1>3, <2>1 DEF Words
  <2>3. Len(t.cur \o w) = Len(t.cur) + Len(w) /\ Len(w) \in Nat /\ Len(t.cur) \in Nat
    BY <1>3, <2>2
  <2> QED BY <1>18, <2>2, <2>3
<1>20. Becomes(line, tokens, t.out)
  <2>1. /\ kept \in Words
        /\ kept = SubSeq(line, 1, Len(line) - Len(Partial(line, tokens)))
        /\ Scanned(Initial, kept).state = "Normal" /\ ~Scanned(Initial, kept).inToken
        /\ Scanned(Initial, kept).out = t.out
    BY <1>7, <1>8, <1>15, <1>19 DEF t, Words
  <2> QED BY <2>1, Completed
<1> QED BY <1>18, <1>20 DEF CompletesLastWord, Becomes

\* complete: a word that is begun without quotes, or not begun yet, becomes each
\* of the candidates it begins, and the words before it are read as they were.
THEOREM PlainWordsCompleted == LineSpec => []CompletesPlainWord
<1>1. LineTypeOK => CompletesPlainWord
  BY NewWord, PlainWord DEF LineTypeOK, CompletesPlainWord
<1> QED BY <1>1, LineTypeCorrect, PTL

=============================================================================

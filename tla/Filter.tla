-------------------------------- MODULE Filter --------------------------------
(***************************************************************************)
(* FilterState of src/src/filter.cpp: the buffer the keys edit, and the    *)
(* subsequence score computed from a cached, case-folded copy of it.       *)
(* An optional score is a set of at most one number.                       *)
(***************************************************************************)
EXTENDS Integers, SequencesExt

CONSTANTS Lower,      \* lower-case letters
          Upper,      \* upper-case letters
          ToLower,    \* std::tolower, from Upper to Lower
          MaxBuffer,  \* bound: characters that can be typed
          Rows        \* the haystacks scored

Space == " "
Blanks == {Space, "tab"}    \* white space, to std::isspace
Boundaries == {Space, "_"}  \* what bounds a word; `_` stands for `-` and `/` too
Chars == Lower \cup Upper \cup Blanks \cup Boundaries
Keys == [code : {"Char", "CtrlChar"}, ch : Chars \cup {"u", "w"}]
          \cup [code : {"Esc", "Enter", "Backspace"}, ch : {Space}]

ASSUME FilterAssumption ==
  /\ Lower \cap Upper = {} /\ (Lower \cup Upper) \cap (Blanks \cup Boundaries) = {}
  /\ ToLower \in [Upper -> Lower]
  /\ Rows \subseteq Seq(Chars)
  /\ MaxBuffer \in Nat

VARIABLES
  active,   \* active_
  buffer,   \* buffer_
  cache,    \* cache_: a set of at most one [buffer, folded, caseSensitive]
  answered  \* the row scored last and its score, until the next key: at most one

vars == <<active, buffer, cache, answered>>

Init == active = FALSE /\ buffer = <<>> /\ cache = {} /\ answered = {}

(***************************************************************************)
(* Keys                                                                    *)
(***************************************************************************)
\* s without the characters of drop at its end.
Without(s, drop) ==
  LET keep == CHOOSE n \in 0..Len(s) :
                /\ \A i \in (n + 1)..Len(s) : s[i] \in drop
                /\ n > 0 => s[n] \notin drop
  IN SubSeq(s, 1, keep)

\* The buffer after a key that is not Esc or Enter.
Edited(key) ==
  CASE key.code = "Backspace" -> IF buffer = <<>> THEN buffer ELSE Front(buffer)
    [] key.code = "Char" -> Append(buffer, key.ch)
    [] key.code = "CtrlChar" /\ key.ch = "u" -> <<>>
    [] key.code = "CtrlChar" /\ key.ch = "w" -> Without(Without(buffer, Blanks), Chars \ Blanks)
    [] OTHER -> buffer

\* enter
Enter ==
  /\ active' = TRUE
  /\ UNCHANGED <<buffer, cache, answered>>

\* handle_key: ignored while inactive.
HandleKey(key) ==
  /\ active
  /\ key.code = "Char" => key.ch \in Chars /\ Len(buffer) < MaxBuffer
  /\ active' = (key.code \notin {"Esc", "Enter"})
  /\ buffer' = IF key.code = "Esc" THEN <<>>
               ELSE IF key.code = "Enter" THEN buffer ELSE Edited(key)
  /\ answered' = {}
  /\ UNCHANGED cache

(***************************************************************************)
(* Scores                                                                  *)
(***************************************************************************)
Fold(c) == IF c \in Upper THEN ToLower[c] ELSE c

\* Mutant: the case matters if the last character typed is a capital.
NeedsCaseSensitiveLast(buf) == buf # <<>> /\ Last(buf) \in Upper

NeedsCaseSensitive(buf) == \E i \in DOMAIN buf : buf[i] \in Upper

Compiled(buf) ==
  LET sensitive == NeedsCaseSensitive(buf)
  IN [buffer |-> buf, caseSensitive |-> sensitive,
      folded |-> IF sensitive THEN buf ELSE [i \in DOMAIN buf |-> Fold(buf[i])]]

\* Mutant: the cache is thought good if the buffer has kept its length.
EnsuredByLength == IF \E c \in cache : Len(c.buffer) = Len(buffer) THEN cache ELSE {Compiled(buffer)}

\* ensure_cache
Ensured == IF \E c \in cache : c.buffer = buffer THEN cache ELSE {Compiled(buffer)}

BaseBonus == 16
RunBonus == 32
PrefixBonus == 32
WordBoundaryBonus == 8

\* A character of the haystack as it is compared.
Seen(c, hay, hi) == IF c.caseSensitive THEN hay[hi] ELSE Fold(hay[hi])

\* What it adds to the score if it is matched.
Bonus(hay, t, hi) ==
  BaseBonus + (IF t.run THEN RunBonus ELSE 0)
    + (IF hi = 1 THEN PrefixBonus ELSE IF hay[hi - 1] \in Boundaries THEN WordBoundaryBonus ELSE 0)

Hit(c, hay, t, hi) == t.matched < Len(c.folded) /\ Seen(c, hay, hi) = c.folded[t.matched + 1]

\* Mutant: a run, once begun, is never over.
MatchRunning(c, hay, t, hi) ==
  IF Hit(c, hay, t, hi)
  THEN [matched |-> t.matched + 1, score |-> t.score + Bonus(hay, t, hi), run |-> TRUE]
  ELSE t

\* One character of the haystack against the next of the pattern.
MatchAt(c, hay, t, hi) ==
  IF Hit(c, hay, t, hi)
  THEN [matched |-> t.matched + 1, score |-> t.score + Bonus(hay, t, hi), run |-> TRUE]
  ELSE [t EXCEPT !.run = FALSE]

Scored(c, hay) ==
  LET end == FoldLeftDomain(LAMBDA t, hi : MatchAt(c, hay, t, hi),
                            [matched |-> 0, score |-> 0, run |-> FALSE], hay)
  IN IF end.matched = Len(c.folded) THEN {end.score} ELSE {}

\* score: nothing is scored, and nothing cached, for an empty buffer.
Score(hay) ==
  /\ cache' = IF buffer = <<>> THEN cache ELSE Ensured
  /\ answered' = {[row |-> hay, score |-> s] : s \in
       IF buffer = <<>> THEN {{}} ELSE {Scored(c, hay) : c \in Ensured}}
  /\ UNCHANGED <<active, buffer>>

Next == \/ Enter
        \/ \E key \in Keys : HandleKey(key)
        \/ \E hay \in Rows : Score(hay)

Spec == Init /\ [][Next]_vars

(***************************************************************************)
(* Properties                                                              *)
(***************************************************************************)

\* What filter.hpp means by a match: the buffer's characters are found in the
\* row in their order, their case mattering if one of them is a capital.
Matches(buf, row) ==
  /\ buf # <<>>
  /\ \E at \in [DOMAIN buf -> DOMAIN row] :
       /\ \A i, j \in DOMAIN buf : i < j => at[i] < at[j]
       /\ \A i \in DOMAIN buf :
            IF \E j \in DOMAIN buf : buf[j] \in Upper THEN row[at[i]] = buf[i]
            ELSE Fold(row[at[i]]) = Fold(buf[i])

\* Whatever was typed and scored before, a row is given a score exactly if it
\* matches the buffer as it is now: the cached pattern is never an older one,
\* and taking the first occurrence of every character misses no match.
AnswersAreCurrent ==
  \A a \in answered : a.score # {} <=> Matches(buffer, a.row)

\* What the buffer makes of a row.
Value(row) == IF buffer = <<>> THEN {} ELSE Scored(Compiled(buffer), row)

\* A row the buffer begins, letter for letter, scores as high as any other.
BeginningsScoreHighest ==
  LET value == [row \in Rows |-> Value(row)]
  IN \A row \in Rows : (buffer # <<>> /\ IsPrefix(buffer, row)) =>
       \A other \in Rows : \A s \in value[other] : \E best \in value[row] : s <= best

\* Typing on never brings a row back: a capital may make matching stricter for
\* what was typed before it, no key makes it laxer.
TypingNarrows ==
  [][(buffer # <<>> /\ Len(buffer') > Len(buffer)) =>
       \A row \in Rows : Value(row)' # {} => Value(row) # {}]_vars

=============================================================================

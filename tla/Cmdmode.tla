------------------------------- MODULE Cmdmode -------------------------------
(***************************************************************************)
(* The command line of src/src/cmdmode/parse.cpp: tokenize, shell_quote    *)
(* and complete, under a user who types, erases and presses Tab.  The      *)
(* letters of words do not matter to the code, spaces, quotes and          *)
(* backslashes do.  An optional result is a set of at most one element.    *)
(***************************************************************************)
EXTENDS Integers, SequencesExt

CONSTANTS Letters,    \* characters without a meaning of their own
          Commands,   \* the names the completer is given
          Schema,     \* kSchemas: a function from commands to their ArgKinds
          Candidates, \* the words there are of every ArgKind but FreeText
          MaxTyped    \* bound: the length of a line that can still be typed at

Blank == " "
Single == "'"
Double == "\""
Backslash == "\\"
Special == {Single, Double, Backslash}
Characters == Letters \cup Special \cup {Blank}
Words == Seq(Characters)

\* The table has a kind for the first argument of a command only.  complete()
\* leans on it: behind a word that ends in an escaped space it would take that
\* space for the end of the line, and complete a further argument at the wrong
\* place.
ASSUME CmdmodeAssumption ==
  /\ Letters \cap (Special \cup {Blank}) = {}
  /\ Commands \subseteq Seq(Letters) \ {<<>>}
  /\ \A kind \in DOMAIN Candidates : Candidates[kind] \subseteq Words
  /\ \A cmd \in DOMAIN Schema :
       /\ Schema[cmd] \in Seq(DOMAIN Candidates \cup {"FreeText"})
       /\ \A n \in DOMAIN Schema[cmd] : n > 1 => Schema[cmd][n] = "FreeText"
  /\ MaxTyped \in Nat

(***************************************************************************)
(* tokenize                                                                *)
(***************************************************************************)
Push(t, c) == [t EXCEPT !.cur = Append(@, c), !.inToken = TRUE]
InState(t, s) == [t EXCEPT !.state = s]

\* One character, in the state the ones before it have led to.  "Escape" and
\* "DoubleEscape" stand for the code's look at the character after a backslash.
Scan(t, c) ==
  CASE t.state = "Normal" /\ c = Blank ->
         IF t.inToken
         THEN [t EXCEPT !.out = Append(@, t.cur), !.cur = <<>>, !.inToken = FALSE]
         ELSE t
    [] t.state = "Normal" /\ c = Single -> [t EXCEPT !.state = "Single", !.inToken = TRUE]
    [] t.state = "Normal" /\ c = Double -> [t EXCEPT !.state = "Double", !.inToken = TRUE]
    [] t.state = "Normal" /\ c = Backslash -> InState(t, "Escape")
    [] t.state = "Single" /\ c = Single -> InState(t, "Normal")
    [] t.state = "Double" /\ c = Double -> InState(t, "Normal")
    [] t.state = "Double" /\ c = Backslash -> InState(t, "DoubleEscape")
    [] t.state = "Escape" -> InState(Push(t, c), "Normal")
    [] t.state = "DoubleEscape" ->
         InState(IF c \in {Double, Backslash} THEN Push(t, c)
                 ELSE Push(Push(t, Backslash), c), "Double")
    [] OTHER -> Push(t, c)

Tokenize(in) ==
  LET end == FoldLeft(Scan, [out |-> <<>>, cur |-> <<>>, inToken |-> FALSE,
                             state |-> "Normal"], in)
  IN IF end.state # "Normal" THEN {}
     ELSE {IF end.inToken THEN Append(end.out, end.cur) ELSE end.out}

(***************************************************************************)
(* shell_quote                                                             *)
(***************************************************************************)
Escaped(s, which) ==
  FoldLeft(LAMBDA done, c : done \o (IF c \in which THEN <<Backslash, c>> ELSE <<c>>), <<>>, s)

NeedsQuotes(s) == s = <<>> \/ \E i \in DOMAIN s : s[i] \in Special \cup {Blank}

\* Mutant: backslashes are not escaped.
ShellQuoteLax(s) ==
  IF NeedsQuotes(s) THEN <<Double>> \o Escaped(s, {Double}) \o <<Double>> ELSE s

ShellQuote(s) ==
  IF NeedsQuotes(s) THEN <<Double>> \o Escaped(s, {Double, Backslash}) \o <<Double>> ELSE s

(***************************************************************************)
(* complete                                                                *)
(***************************************************************************)
TrailingSpace(in) == in # <<>> /\ Last(in) = Blank

\* The first word as it is written, and what follows it.
HeadStart(in) == CHOOSE i \in 1..(Len(in) + 1) :
  /\ \A j \in 1..(i - 1) : in[j] = Blank
  /\ i <= Len(in) => in[i] # Blank
HeadEnd(in) == CHOOSE i \in HeadStart(in)..(Len(in) + 1) :
  /\ \A j \in HeadStart(in)..(i - 1) : in[j] # Blank
  /\ i <= Len(in) => in[i] = Blank
RawHead(in) == SubSeq(in, HeadStart(in), HeadEnd(in) - 1)
RawTail(in) == SubSeq(in, HeadEnd(in), Len(in))

\* Mutant: what follows the first word is lost.
CompleteHeadOnly(in) == {c \in Commands : IsPrefix(RawHead(in), c)}

CompleteHead(in) == {cmd \o RawTail(in) : cmd \in {c \in Commands : IsPrefix(RawHead(in), c)}}

ArgIndex(in, tokens) == IF TrailingSpace(in) THEN Len(tokens) ELSE Len(tokens) - 1
Partial(in, tokens) == IF TrailingSpace(in) THEN <<>> ELSE Last(tokens)

\* Candidates is asked for every kind but FreeText.
Matching(in, tokens) ==
  LET args == Schema[Head(tokens)]
      n == ArgIndex(in, tokens)
  IN IF Head(tokens) \notin DOMAIN Schema \/ n > Len(args) \/ args[n] = "FreeText" THEN {}
     ELSE {c \in Candidates[args[n]] : IsPrefix(Partial(in, tokens), c)}

\* Mutant: the candidate is not quoted.
CompleteArgumentBare(in, tokens) ==
  {SubSeq(in, 1, Len(in) - Len(Partial(in, tokens))) \o c : c \in Matching(in, tokens)}

CompleteArgument(in, tokens) ==
  {SubSeq(in, 1, Len(in) - Len(Partial(in, tokens))) \o ShellQuote(c) : c \in Matching(in, tokens)}

\* The input's tokens, none if it has an open quote.
TokensOf(in) == IF Tokenize(in) = {} THEN <<>> ELSE CHOOSE tokens \in Tokenize(in) : TRUE

HeadIsCommand(in, tokens) ==
  /\ tokens # <<>>
  /\ Head(tokens) \in Commands
  /\ TrailingSpace(in) \/ Len(tokens) > 1

Complete(in) ==
  IF HeadIsCommand(in, TokensOf(in)) THEN CompleteArgument(in, TokensOf(in))
  ELSE CompleteHead(in)

(***************************************************************************)
(* The line under the user's keys.                                         *)
(***************************************************************************)
VARIABLE line

LineInit == line = <<>>

Type(c) == Len(line) < MaxTyped /\ line' = Append(line, c)
Erase == line # <<>> /\ line' = Front(line)
Tab == \E s \in Complete(line) : line' = s

LineNext == (\E c \in Characters : Type(c)) \/ Erase \/ Tab

LineSpec == LineInit /\ [][LineNext]_line

(***************************************************************************)
(* Properties                                                              *)
(***************************************************************************)

\* Any two words, quoted and put on one line, are read back as they were: no
\* character of a word is lost, added or taken for the end of it.
QuotingIsInvertible ==
  LET words == <<line, Reverse(line)>>
  IN Tokenize(ShellQuote(words[1]) \o <<Blank>> \o ShellQuote(words[2])) = {words}

\* Completing the command's name leaves its arguments as they are.
HeadKeepsTheRest ==
  \A tokens \in Tokenize(line) : ~HeadIsCommand(line, tokens) =>
    \A s \in Complete(line) : \E cmd \in Commands :
      Tokenize(s) = {<<cmd>> \o (IF tokens = <<>> THEN <<>> ELSE Tail(tokens))}

\* What completing an argument should make of the line: the words before it are
\* kept and it becomes one of the candidates it begins, each of which is offered.
CompletesLastWord(tokens) ==
  LET before == IF TrailingSpace(line) THEN tokens ELSE Front(tokens)
  IN {Tokenize(s) : s \in Complete(line)} = {{Append(before, c)} : c \in Matching(line, tokens)}

\* The last word is written as it reads, after a space.
LastWordIsPlain(tokens) ==
  LET raw == <<Blank>> \o Last(tokens)
  IN IsSuffix(raw, line) /\ ~NeedsQuotes(Last(tokens))

\* Arguments are completed so when the word to be completed is a new one or is
\* written without quotes and backslashes, whatever stands before it.
CompletesPlainWord ==
  \A tokens \in Tokenize(line) :
    (HeadIsCommand(line, tokens) /\ (TrailingSpace(line) \/ LastWordIsPlain(tokens)))
      => CompletesLastWord(tokens)

\* What parse.hpp says of every line, quoted words included: each match is
\* rendered as a shell-quoted completion of the existing input.
CompletesAnyWord ==
  \A tokens \in Tokenize(line) :
    HeadIsCommand(line, tokens) => CompletesLastWord(tokens)

=============================================================================

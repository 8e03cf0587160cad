---------------------------------- MODULE Rows ----------------------------------
(***************************************************************************)
(* The texts lazytmux and tmux exchange: identifiers                       *)
(* (src/src/tmux/ids.cpp), rows of fields (the formats of tmux/parse.hpp   *)
(* and their parsers in src/src/tmux/parse.cpp) and the short answers read *)
(* in src/src/tmux/commands.cpp.  A text is a sequence of characters, since*)
(* which texts are taken apart wrongly is the question; a number is below  *)
(* 10.  A Result is a set: {} for an Error, else its one value.            *)
(***************************************************************************)
EXTENDS Integers, SequencesExt

Delim == <<"|", "|", "|">>
NewLine == <<"\n">>

Digits == <<"0", "1", "2", "3", "4", "5", "6", "7", "8", "9">>
Digit(n) == <<Digits[n + 1]>>
Id(sigil, n) == <<sigil>> \o Digit(n)
Flag(b) == IF b THEN <<"1">> ELSE <<"0">>

\* Where text has the characters of part, from i on.
Finds(text, part, i) ==
  {j \in i..(Len(text) - Len(part) + 1) : SubSeq(text, j, j + Len(part) - 1) = part}

(***************************************************************************)
(* validate_id_chars                                                       *)
(***************************************************************************)
\* SessionName::make: {} if the text is refused.
MakeId(s) ==
  IF s = <<>> \/ ToSet(s) \cap {":", "\n", "\r"} # {} \/ Finds(s, Delim, 1) # {}
  THEN {} ELSE {s}

(***************************************************************************)
(* Taking texts apart                                                      *)
(***************************************************************************)
\* Mutant: the search goes on within the delimiter.
SplitWithin(text, delim) ==
  LET from[i \in 1..(Len(text) + 1)] ==
        LET hits == Finds(text, delim, i)
        IN IF hits = {} THEN <<SubSeq(text, i, Len(text))>>
           ELSE <<SubSeq(text, i, Min(hits) - 1)>> \o from[Min(hits) + 1]
  IN from[1]

\* split_on_delim
Split(text, delim) ==
  LET from[i \in 1..(Len(text) + 1)] ==
        LET hits == Finds(text, delim, i)
        IN IF hits = {} THEN <<SubSeq(text, i, Len(text))>>
           ELSE <<SubSeq(text, i, Min(hits) - 1)>> \o from[Min(hits) + Len(delim)]
  IN from[1]

\* trim_ascii_whitespace
Trim(text) ==
  LET kept == {i \in DOMAIN text : text[i] \notin {" ", "\t", "\n", "\r"}}
  IN IF kept = {} THEN <<>> ELSE SubSeq(text, Min(kept), Max(kept))

\* parse_uint and parse_int64: the whole text is a number.
Number(text) == {n \in 0..9 : Digit(n) = text}

(***************************************************************************)
(* The row parsers, from the fields of a row                               *)
(***************************************************************************)
ParseSession(f) ==
  IF Len(f) # 5 THEN {}
  ELSE {[id |-> f[1], name |-> f[2], windows |-> w, attached |-> f[4] = Flag(TRUE),
         last_activity |-> a] : w \in Number(f[3]), a \in Number(f[5])}

ParseWindow(f) ==
  IF Len(f) # 6 THEN {}
  ELSE {[session |-> f[1], index |-> i, id |-> f[3], name |-> f[4],
         active |-> f[5] = Flag(TRUE), panes |-> p] : i \in Number(f[2]), p \in Number(f[6])}

ParsePane(f) ==
  IF Len(f) # 6 THEN {}
  ELSE {[window |-> f[1], index |-> i, id |-> f[3], command |-> f[4], path |-> f[5],
         active |-> f[6] = Flag(TRUE)] : i \in Number(f[2])}

ParseClient(f) ==
  IF Len(f) # 4 THEN {}
  ELSE {[pid |-> p, session |-> f[2], tty |-> f[3], term |-> f[4]] : p \in Number(f[1])}

ParseServerInfo(f) ==
  IF Len(f) # 3 THEN {}
  ELSE {[pid |-> p, sessions |-> s, start |-> t] :
          p \in Number(f[1]), s \in Number(f[2]), t \in Number(f[3])}

ParseRow(kind, row) ==
  LET f == Split(row, Delim)
  IN CASE kind = "session" -> ParseSession(f)
       [] kind = "window" -> ParseWindow(f)
       [] kind = "pane" -> ParsePane(f)
       [] kind = "client" -> ParseClient(f)

\* parse_rows: empty lines are skipped, and one bad row is an Error of the whole.
ParseRows(kind, out) ==
  FoldLeft(LAMBDA read, line :
             IF line = <<>> THEN read
             ELSE {Append(rows, row) : rows \in read, row \in ParseRow(kind, line)},
           {<<>>}, Split(out, NewLine))

\* parse_server_info: one line break at the end is dropped.
ParseInfo(out) ==
  ParseServerInfo(Split(IF IsSuffix(NewLine, out) THEN Front(out) ELSE out, Delim))

ParseCreatedPane(out) ==
  LET f == Split(Trim(out), Delim)
  IN IF Len(f) # 2 THEN {} ELSE {[window |-> f[1], pane |-> f[2]]}

ParseCreatedPaneId(out) == IF Trim(out) = <<>> THEN {} ELSE {[pane |-> Trim(out)]}

\* continuum_last_save: no option, or the number it holds.
ParseLastSave(out) ==
  IF Trim(out) = <<>> THEN {[saved |-> {}]} ELSE {[saved |-> {t}] : t \in Number(Trim(out))}

(***************************************************************************)
(* The formats                                                             *)
(***************************************************************************)
\* kSessionFormat and the others, filled in by tmux.
Fields(kind, r) ==
  CASE kind = "session" -> <<r.id, r.name, Digit(r.windows), Flag(r.attached), Digit(r.last_activity)>>
    [] kind = "window" -> <<r.session, Digit(r.index), r.id, r.name, Flag(r.active), Digit(r.panes)>>
    [] kind = "pane" -> <<r.window, Digit(r.index), r.id, r.command, r.path, Flag(r.active)>>
    [] kind = "client" -> <<Digit(r.pid), r.session, r.tty, r.term>>
    [] kind = "info" -> <<Digit(r.pid), Digit(r.sessions), Digit(r.start)>>

Join(fields) == FoldLeft(LAMBDA row, field : row \o Delim \o field, Head(fields), Tail(fields))

\* What tmux prints for a sequence of records of one kind.
Printed(kind, records) ==
  FoldLeft(LAMBDA out, r : out \o Join(Fields(kind, r)) \o NewLine, <<>>, records)

\* The texts that come back whole from a row, wherever in it they stand.
Clean(text) ==
  /\ Finds(text, Delim, 1) = {} /\ "\n" \notin ToSet(text)
  /\ text # <<>> => Last(text) # "|"
=============================================================================

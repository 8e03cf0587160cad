---------------------------- MODULE FrecencyIndex ----------------------------
(***************************************************************************)
(* The in-memory frecency table of src/src/frecency.cpp and the conversion *)
(* the JSON store applies to it when it is read back.                      *)
(*                                                                         *)
(* An index maps every session name to its row.  A name with no row is     *)
(* represented by the row `entries_[name]` default-constructs, which is    *)
(* also what Index::score makes of a missing name: zero visits.            *)
(***************************************************************************)
EXTENDS Integers

CONSTANTS Names,    \* session names
          U32Max    \* numeric_limits<uint32_t>::max(), small for TLC

ASSUME U32MaxAssumption == U32Max \in Nat

\* struct Entry.  `visits` is read back from JSON text, so a row on disk may
\* hold any natural number.
Entries == [visits : Nat, last_used : Int]
Indexes == [Names -> Entries]

EmptyIndex == [n \in Names |-> [visits |-> 0, last_used |-> 0]]

\* The indexes that fit the program's types (visits is a uint32_t).
InMemory == [Names -> [visits : 0..U32Max, last_used : Int]]

Saturate(k) == IF k > U32Max THEN U32Max ELSE k

\* Index::visit: a saturating increment, and the caller's clock.
Visited(index, n, now) ==
  [index EXCEPT ![n] =
     [visits    |-> IF @.visits # U32Max THEN @.visits + 1 ELSE @.visits,
      last_used |-> now]]

\* parse_entries: get<std::uint32_t>() of a larger JSON number keeps the low
\* bits only.
Loaded(index) ==
  [n \in Names |-> [index[n] EXCEPT !.visits = @ % (U32Max + 1)]]

=============================================================================

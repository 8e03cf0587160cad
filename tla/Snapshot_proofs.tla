-------------------------- MODULE Snapshot_proofs --------------------------
(***************************************************************************)
(* Proofs about SnapshotDir, for any actors, snapshots and number of       *)
(* calls, with or without saves and scripts that move `last`; about        *)
(* RestoreWorker, for any workers among them: a worker uses the directory  *)
(* as SnapshotDir allows, hands its result over once and as it is, and is  *)
(* over when that is known; and about SnapshotList, for any files and      *)
(* other threads: a listing is faithful, and breaks no promise of the      *)
(* calls beside it.                                                        *)
(***************************************************************************)
EXTENDS SnapshotList, FiniteSetTheorems, TLAPS

(***************************************************************************)
(* SnapshotDir: the calls on the directory.                                *)
(***************************************************************************)
USE DEF directory, local, history

LEMMA NotLinks ==
  Absent \notin Snapshots /\ Foreign \notin Snapshots /\ Absent # Foreign
  BY DistinctAssumption

\* The only calls that have a snapshot are restores and deletions.
LEMMA CallKinds ==
  ASSUME NEW c \in Calls
  PROVE  /\ c.op \in {"none", "restore", "delete"}
         /\ c.op # "none" => c.snapshot \in Snapshots
  BY DEF Calls, NoCall, Restore, Delete

LEMMA TargetIsSnapshot ==
  ASSUME TypeOK, NEW a \in Actors, InPlace(a), pc[a] \in InRestore \cup InDelete
  PROVE  Target(a) \in Snapshots
  <1>1. call[a] \in Calls /\ call[a].op # "none"
    BY DEF TypeOK, InPlace
  <1> QED
    BY <1>1, CallKinds DEF Target

-----------------------------------------------------------------------------
LEMMA InitIInv == Init => IInv
  <1> SUFFICES ASSUME Init PROVE IInv
    OBVIOUS
  <1>1. TypeOK
    BY BoundAssumption DEF Init, TypeOK, Calls, Pcs
  <1>2. \A a \in Actors : pc[a] = "idle" /\ call[a] = NoCall /\ previous[a] = Absent
                          /\ result[a] = "none" /\ rollback[a] = "none"
    BY DEF Init
  <1>3. \A a \in Actors : InPlace(a) /\ Knows(a)
    BY <1>2 DEF InPlace, Knows, InRestore, InDelete, InRollback, Early
  <1>4. RestoreIsAllOrNothing /\ DeleteTakesItsLink
    BY <1>2 DEF RestoreIsAllOrNothing, DeleteTakesItsLink, Returning
  <1>5. \A a \in Actors : SawNoForeign(a)
    BY <1>2 DEF SawNoForeign, Looked
  <1> QED
    BY <1>1, <1>3, <1>4, <1>5 DEF IInv

(***************************************************************************)
(* Typing, by step.                                                        *)
(***************************************************************************)
LEMMA BeginTypes ==
  ASSUME TypeOK, NEW a \in Actors, NEW c \in Calls,
         NEW first \in {"exists", "read_last"}, Begin(a, c, first)
  PROVE  TypeOK'
  BY BoundAssumption DEF Begin, Goto, TypeOK, Pcs

LEMMA LooksTypes ==
  ASSUME TypeOK, NEW a \in Actors, InPlace(a),
         \/ Exists(a) \/ IsRegular(a) \/ LocateScript(a) \/ StatLast(a) \/ ReadLink(a)
         \/ StartScript(a) \/ ScriptEnds(a) \/ CallFails(a)
         \/ CallRestoreNowhere(a) \/ CallDeleteLast(a)
  PROVE  TypeOK'
  <1> USE DEF TypeOK, Goto, Finish, RollBack, RolledBack, Looks, Errors, Pcs
  <1>0. AfterReading(a) \in Pcs
    BY DEF AfterReading
  <1>1. CASE Exists(a) \/ IsRegular(a) \/ LocateScript(a) \/ CallRestoreNowhere(a)
             \/ CallDeleteLast(a)
    BY <1>1 DEF Exists, IsRegular, LocateScript, CallRestoreNowhere, CallDeleteLast
  <1>2. CASE StatLast(a) \/ ReadLink(a)
    BY <1>0, <1>2 DEF StatLast, ReadLink
  <1>3. CASE StartScript(a) \/ ScriptEnds(a)
    BY <1>3 DEF StartScript, ScriptEnds
  <1>4. CASE CallFails(a)
    BY <1>4 DEF CallFails
  <1> QED
    BY <1>1, <1>2, <1>3, <1>4

LEMMA ChangesTypes ==
  ASSUME TypeOK, NEW a, NEW e \in [Snapshots -> Kinds],
         NEW l \in Snapshots \cup {Absent, Foreign}, Changes(a, e, l)
  PROVE  /\ entry' \in [Snapshots -> Kinds] /\ last' \in Snapshots \cup {Absent, Foreign}
         /\ disturbed' \in [Actors -> BOOLEAN] /\ intruded' \in [Actors -> BOOLEAN]
         /\ UNCHANGED <<calls, before, ran>>
  <1>1. entry' = e /\ last' = l /\ UNCHANGED <<calls, before, ran>>
    BY DEF Changes
  <1>2. disturbed' \in [Actors -> BOOLEAN] /\ intruded' \in [Actors -> BOOLEAN]
    BY DEF Changes, TypeOK
  <1> QED
    BY <1>1, <1>2

LEMMA ChangingTypes ==
  ASSUME TypeOK, NEW a \in Actors, InPlace(a),
         \/ RemoveLast(a) \/ LinkLast(a) \/ RollBackRemove(a) \/ RollBackLink(a)
         \/ RemoveSnapshot(a) \/ RemoveLink(a)
  PROVE  TypeOK'
  <1> USE DEF TypeOK, Goto, Finish, RollBack, RolledBack, Errors, Pcs
  <1>1. CASE RemoveLast(a)
    BY <1>1, ChangesTypes DEF RemoveLast
  <1>2. CASE LinkLast(a)
    <2>1. Target(a) \in Snapshots
      BY <1>2, TargetIsSnapshot DEF LinkLast, InRestore
    <2>2. CASE Goto(a, "link", "spawn") /\ Changes(a, entry, Target(a)) /\ UNCHANGED result
      BY <1>2, <2>1, <2>2, ChangesTypes DEF LinkLast
    <2>3. CASE RollBack(a, "link", "io") /\ Looks
      BY <1>2, <2>3 DEF LinkLast, Looks
    <2> QED
      BY <1>2, <2>2, <2>3 DEF LinkLast
  <1>3. CASE RollBackRemove(a)
    BY <1>3, ChangesTypes DEF RollBackRemove
  <1>4. CASE RollBackLink(a)
    <2>1. CASE RolledBack(a, "rollback_link", "done") /\ Changes(a, entry, previous[a])
      BY <1>4, <2>1, ChangesTypes DEF RollBackLink
    <2>2. CASE RolledBack(a, "rollback_link", "failed") /\ Looks
      BY <1>4, <2>2 DEF RollBackLink, Looks
    <2> QED
      BY <1>4, <2>1, <2>2 DEF RollBackLink
  <1>5. CASE RemoveSnapshot(a)
    <2>1. Target(a) \in Snapshots
      BY <1>5, TargetIsSnapshot DEF RemoveSnapshot, InDelete
    <2>2. [entry EXCEPT ![Target(a)] = "none"] \in [Snapshots -> Kinds]
      BY <2>1 DEF Kinds
    <2> QED
      BY <1>5, <2>2, ChangesTypes DEF RemoveSnapshot
  <1>6. CASE RemoveLink(a)
    BY <1>6, ChangesTypes DEF RemoveLink
  <1> QED
    BY <1>1, <1>2, <1>3, <1>4, <1>5, <1>6

LEMMA LeaveTypes ==
  ASSUME TypeOK, NEW a \in Actors, Leave(a)
  PROVE  TypeOK'
  BY DEF Leave, TypeOK, Calls, Pcs

LEMMA OutsideTypes ==
  ASSUME TypeOK, Outside
  PROVE  TypeOK'
  <1>1. ASSUME NEW s \in Snapshots, Save(s) PROVE TypeOK'
    <2>1. [entry EXCEPT ![s] = "file"] \in [Snapshots -> Kinds]
      BY DEF TypeOK, Kinds
    <2> QED
      BY <1>1, <2>1, ChangesTypes DEF Save, ChangesOutside, TypeOK
  <1>2. ASSUME NEW a \in Actors, ScriptSpoilsLast(a) PROVE TypeOK'
    BY <1>2, ChangesTypes DEF ScriptSpoilsLast, ChangesOutside, TypeOK
  <1> QED
    BY <1>1, <1>2 DEF Outside

LEMMA NextTypes == IInv /\ [Next]_vars => TypeOK'
  <1> SUFFICES ASSUME IInv, [Next]_vars PROVE TypeOK'
    OBVIOUS
  <1>1. TypeOK /\ \A a \in Actors : InPlace(a)
    BY DEF IInv
  <1>2. ASSUME NEW a \in Actors, NEW s \in Snapshots, CallRestore(a, s) \/ CallDelete(a, s)
        PROVE  TypeOK'
    <2>1. Restore(s) \in Calls /\ Delete(s) \in Calls
      BY DEF Calls
    <2> QED
      BY <1>1, <1>2, <2>1, BeginTypes DEF CallRestore, CallDelete
  <1>3. ASSUME NEW a \in Actors, Step(a) \/ CallRestoreNowhere(a) \/ CallDeleteLast(a)
        PROVE  TypeOK'
    BY <1>1, <1>3, LooksTypes, ChangingTypes DEF Step
  <1>4. ASSUME NEW a \in Actors, Return(a) \/ Crash(a) PROVE TypeOK'
    BY <1>1, <1>4, LeaveTypes DEF Return, Crash
  <1>5. CASE UNCHANGED vars
    BY <1>1, <1>5 DEF vars, TypeOK
  <1> QED
    BY <1>1, <1>2, <1>3, <1>4, <1>5, OutsideTypes DEF Next

-----------------------------------------------------------------------------
(***************************************************************************)
(* What one call knows, and that the others' steps do not take it away.    *)
(***************************************************************************)
Facts(a) ==
  /\ InPlace(a)
  /\ ~disturbed[a] => /\ Knows(a)
                      /\ Returning(a, "restore") => RestoreOutcome(a)
                      /\ Returning(a, "delete") => DeleteOutcome(a)

LEMMA IInvIsFacts == IInv <=> (TypeOK /\ \A a \in Actors : Facts(a) /\ SawNoForeign(a))
  BY DEF IInv, Facts, RestoreIsAllOrNothing, DeleteTakesItsLink

LocalsKept(b) ==
  /\ pc'[b] = pc[b] /\ call'[b] = call[b] /\ previous'[b] = previous[b]
  /\ result'[b] = result[b] /\ rollback'[b] = rollback[b]
  /\ before'[b] = before[b] /\ ran'[b] = ran[b]

LEMMA Frame ==
  ASSUME NEW b \in Actors, Facts(b), LocalsKept(b),
         \/ disturbed'[b]
         \/ pc[b] = "idle"
         \/ UNCHANGED directory /\ disturbed'[b] = disturbed[b]
  PROVE  Facts(b)'
  <1>1. InPlace(b)'
    BY DEF Facts, LocalsKept, InPlace
  <1>2. CASE disturbed'[b]
    BY <1>1, <1>2 DEF Facts
  <1>3. CASE pc[b] = "idle"
    BY <1>1, <1>3 DEF Facts, LocalsKept, Knows, Returning, Early, InRestore, InDelete, InRollback
  <1>4. CASE UNCHANGED directory /\ disturbed'[b] = disturbed[b]
    <2>1. Knows(b) => Knows(b)'
      BY <1>4 DEF LocalsKept, Knows, Target
    <2>2. /\ Returning(b, "restore")' <=> Returning(b, "restore")
          /\ Returning(b, "delete")' <=> Returning(b, "delete")
          /\ RestoreOutcome(b) => RestoreOutcome(b)'
          /\ DeleteOutcome(b) => DeleteOutcome(b)'
      BY <1>4 DEF LocalsKept, Returning, RestoreOutcome, DeleteOutcome, Target
    <2> QED
      BY <1>1, <1>4, <2>1, <2>2 DEF Facts
  <1> QED
    BY <1>2, <1>3, <1>4

LEMMA ChangesDisturbs ==
  ASSUME TypeOK, NEW a, NEW e, NEW l, Changes(a, e, l), NEW b \in Actors, b # a
  PROVE  \/ disturbed'[b] \/ pc[b] = "idle"
         \/ UNCHANGED directory /\ disturbed'[b] = disturbed[b]
  BY DEF Changes, TypeOK

LEMMA ChangesKeepsOwn ==
  ASSUME TypeOK, NEW a \in Actors, NEW e, NEW l, Changes(a, e, l)
  PROVE  disturbed'[a] = disturbed[a] /\ entry' = e /\ last' = l
         /\ before' = before /\ ran' = ran
  BY DEF Changes, TypeOK

LEMMA OthersLooking ==
  ASSUME TypeOK, NEW a \in Actors, NEW b \in Actors, b # a, Facts(b),
         \/ Exists(a) \/ IsRegular(a) \/ LocateScript(a) \/ StatLast(a) \/ ReadLink(a)
         \/ StartScript(a) \/ ScriptEnds(a) \/ CallFails(a)
         \/ CallRestoreNowhere(a) \/ CallDeleteLast(a)
         \/ Leave(a)
         \/ \E c \in Calls, first \in {"exists", "read_last"} : Begin(a, c, first)
  PROVE  Facts(b)'
  <1> USE DEF TypeOK, LocalsKept, Goto, Finish, RollBack, RolledBack, Looks
  <1> SUFFICES LocalsKept(b) /\ UNCHANGED directory /\ disturbed'[b] = disturbed[b]
    BY Frame
  <1>1. CASE Exists(a) \/ IsRegular(a) \/ LocateScript(a) \/ CallRestoreNowhere(a)
             \/ CallDeleteLast(a)
    BY <1>1 DEF Exists, IsRegular, LocateScript, CallRestoreNowhere, CallDeleteLast
  <1>2. CASE StatLast(a) \/ ReadLink(a)
    BY <1>2 DEF StatLast, ReadLink
  <1>3. CASE StartScript(a) \/ ScriptEnds(a)
    BY <1>3 DEF StartScript, ScriptEnds
  <1>4. CASE CallFails(a)
    BY <1>4 DEF CallFails
  <1>5. CASE Leave(a)
    BY <1>5 DEF Leave
  <1>6. ASSUME NEW c \in Calls, NEW first \in {"exists", "read_last"}, Begin(a, c, first)
        PROVE  LocalsKept(b) /\ UNCHANGED directory /\ disturbed'[b] = disturbed[b]
    BY <1>6 DEF Begin
  <1> QED
    BY <1>1, <1>2, <1>3, <1>4, <1>5, <1>6

LEMMA OthersChanging ==
  ASSUME TypeOK, NEW a \in Actors, NEW b \in Actors, b # a, Facts(b),
         \/ RemoveLast(a) \/ LinkLast(a) \/ RollBackRemove(a) \/ RollBackLink(a)
         \/ RemoveSnapshot(a) \/ RemoveLink(a)
  PROVE  Facts(b)'
  <1> USE DEF TypeOK, Goto, Finish, RollBack, RolledBack, Looks
  <1>1. pc'[b] = pc[b] /\ call'[b] = call[b] /\ previous'[b] = previous[b]
        /\ result'[b] = result[b] /\ rollback'[b] = rollback[b]
    BY DEF RemoveLast, LinkLast, RollBackRemove, RollBackLink, RemoveSnapshot, RemoveLink
  <1>2. \/ UNCHANGED <<directory, history>>
        \/ \E e, l : Changes(a, e, l)
    BY DEF RemoveLast, LinkLast, RollBackRemove, RollBackLink, RemoveSnapshot, RemoveLink
  <1>3. CASE UNCHANGED <<directory, history>>
    BY <1>1, <1>3, Frame DEF LocalsKept
  <1>4. ASSUME NEW e, NEW l, Changes(a, e, l) PROVE Facts(b)'
    <2>1. LocalsKept(b)
      BY <1>1, <1>4, ChangesKeepsOwn DEF LocalsKept
    <2> QED
      BY <1>4, <2>1, ChangesDisturbs, Frame
  <1> QED
    BY <1>2, <1>3, <1>4

LEMMA FromOutside ==
  ASSUME TypeOK, NEW b \in Actors, Facts(b), NEW e, NEW l, ChangesOutside(e, l)
  PROVE  Facts(b)'
  <1>1. LocalsKept(b)
    BY DEF ChangesOutside, Changes, LocalsKept
  <1> QED
    BY <1>1, ChangesDisturbs, Frame, DistinctAssumption DEF ChangesOutside

-----------------------------------------------------------------------------
(***************************************************************************)
(* A call's own steps.                                                     *)
(***************************************************************************)
LEMMA BeginFacts ==
  ASSUME TypeOK, NEW a \in Actors, Facts(a), NEW s \in Snapshots,
         CallRestore(a, s) \/ CallDelete(a, s)
  PROVE  Facts(a)'
  <1> USE DEF TypeOK, Begin, Goto, InRestore, InDelete, InRollback, Early
  <1>1. pc'[a] \in {"exists", "read_last"} /\ pc[a] = "idle"
    BY DEF CallRestore, CallDelete
  <1>2. InPlace(a)'
    BY <1>1 DEF Facts, InPlace, CallRestore, CallDelete, Restore, Delete
  <1>3. Knows(a)'
    BY <1>1 DEF Knows, CallRestore, CallDelete, Restore, Delete
  <1> QED
    BY <1>1, <1>2, <1>3 DEF Facts, Returning

LEMMA LooksFacts ==
  ASSUME TypeOK, NEW a \in Actors, Facts(a),
         \/ Exists(a) \/ IsRegular(a) \/ LocateScript(a) \/ StatLast(a) \/ ReadLink(a)
         \/ StartScript(a) \/ ScriptEnds(a) \/ CallFails(a)
         \/ CallRestoreNowhere(a) \/ CallDeleteLast(a)
  PROVE  Facts(a)'
  <1> USE DEF TypeOK, Goto, Finish, RollBack, RolledBack, Looks, InRestore, InDelete,
              InRollback, Early, Facts, InPlace, Knows, Returning, RestoreOutcome,
              DeleteOutcome, Target, Errors
  <1>1. CASE Exists(a)
    BY <1>1 DEF Exists
  <1>2. CASE IsRegular(a)
    BY <1>2 DEF IsRegular
  <1>3. CASE LocateScript(a)
    BY <1>3 DEF LocateScript
  <1>4. CASE StatLast(a)
    BY <1>4 DEF StatLast, AfterReading
  <1>5. CASE ReadLink(a)
    BY <1>5 DEF ReadLink, AfterReading
  <1>6. CASE StartScript(a)
    BY <1>6 DEF StartScript
  <1>7. CASE ScriptEnds(a)
    <2>1. Target(a) # Foreign
      BY <1>7, TargetIsSnapshot, NotLinks DEF ScriptEnds
    <2> QED
      BY <1>7, <2>1 DEF ScriptEnds
  <1>8. CASE CallFails(a)
    <2>1. previous[a] # Foreign
      BY NotLinks
    <2>2. Target(a) # Foreign \/ pc[a] \notin InRestore
      BY TargetIsSnapshot, NotLinks
    <2> QED
      BY <1>8, <2>1, <2>2, NotLinks DEF CallFails
  <1>9. CASE CallRestoreNowhere(a) \/ CallDeleteLast(a)
    BY <1>9 DEF CallRestoreNowhere, CallDeleteLast, NoCall
  <1> QED
    BY <1>1, <1>2, <1>3, <1>4, <1>5, <1>6, <1>7, <1>8, <1>9

LEMMA ChangingFacts ==
  ASSUME TypeOK, NEW a \in Actors, Facts(a),
         \/ RemoveLast(a) \/ LinkLast(a) \/ RollBackRemove(a) \/ RollBackLink(a)
         \/ RemoveSnapshot(a) \/ RemoveLink(a)
  PROVE  Facts(a)'
  <1> USE DEF TypeOK, Goto, Finish, RollBack, RolledBack, InRestore, InDelete,
              InRollback, Early, Facts, InPlace, Knows, Returning, RestoreOutcome,
              DeleteOutcome, Target, Errors
  <1>1. CASE RemoveLast(a)
    BY <1>1, ChangesKeepsOwn DEF RemoveLast
  <1>2. CASE LinkLast(a)
    BY <1>2, ChangesKeepsOwn DEF LinkLast, Looks
  <1>3. CASE RollBackRemove(a)
    BY <1>3, ChangesKeepsOwn DEF RollBackRemove
  <1>4. CASE RollBackLink(a)
    BY <1>4, ChangesKeepsOwn DEF RollBackLink, Looks
  <1>5. CASE RemoveSnapshot(a)
    <2>1. Target(a) \in Snapshots
      BY <1>5, TargetIsSnapshot DEF RemoveSnapshot
    <2>2. /\ disturbed'[a] = disturbed[a] /\ last' = last /\ before' = before /\ ran' = ran
          /\ entry' = [entry EXCEPT ![Target(a)] = "none"]
      <3> HIDE DEF Target, Facts, InPlace, TypeOK
      <3>1. Changes(a, [entry EXCEPT ![Target(a)] = "none"], last)
        BY <1>5 DEF RemoveSnapshot
      <3> QED
        BY <3>1, ChangesKeepsOwn
    <2>3. entry'[Target(a)] = "none"
      <3> HIDE DEF Target
      <3> QED
        BY <2>1, <2>2 DEF TypeOK
    <2>4. call' = call /\ previous' = previous /\ rollback' = rollback
      BY <1>5 DEF RemoveSnapshot
    <2> HIDE DEF Goto, Finish
    <2>5. CASE /\ Goto(a, "remove_snapshot", "remove_link")
               /\ previous[a] = Target(a) /\ UNCHANGED result
      <3>1. /\ pc[a] = "remove_snapshot" /\ pc'[a] = "remove_link" /\ result' = result
            /\ previous[a] = Target(a)
        BY <2>5 DEF Goto
      <3>2. InPlace(a)'
        BY <3>1, <2>4
      <3>3. ~disturbed[a] => before[a] = Target(a) /\ last = before[a]
        BY <3>1
      <3>4. ~disturbed[a] => Knows(a)'
        BY <2>2, <2>3, <2>4, <3>1, <3>3
      <3> QED
        BY <2>2, <3>1, <3>2, <3>4
    <2>6. CASE Finish(a, "remove_snapshot", "ok") /\ previous[a] # Target(a)
      BY <2>2, <2>3, <2>4, <2>6 DEF Goto, Finish
    <2> QED
      BY <1>5, <2>5, <2>6 DEF RemoveSnapshot
  <1>6. CASE RemoveLink(a)
    BY <1>6, ChangesKeepsOwn DEF RemoveLink
  <1> QED
    BY <1>1, <1>2, <1>3, <1>4, <1>5, <1>6

LEMMA LeaveFacts ==
  ASSUME TypeOK, NEW a \in Actors, Leave(a)
  PROVE  Facts(a)'
  BY DEF TypeOK, Leave, Facts, InPlace, Knows, Returning, InRestore, InDelete, InRollback,
         Early, Errors, NoCall

-----------------------------------------------------------------------------
\* A call's step moves nobody else in the code.
LEMMA MovesOnlyItself ==
  ASSUME NEW a \in Actors, NEW b \in Actors, a # b, TypeOK,
         \/ \E s \in Snapshots : CallRestore(a, s) \/ CallDelete(a, s)
         \/ CallRestoreNowhere(a) \/ CallDeleteLast(a) \/ Step(a) \/ Return(a) \/ Crash(a)
  PROVE  pc'[b] = pc[b]
  <1>1. PICK x : pc' = [pc EXCEPT ![a] = x]
    <2> USE DEF Goto, Finish, RollBack, RolledBack
    <2>1. CASE Exists(a) \/ IsRegular(a) \/ LocateScript(a) \/ StatLast(a) \/ ReadLink(a)
      BY <2>1 DEF Exists, IsRegular, LocateScript, StatLast, ReadLink
    <2>2. CASE RemoveLast(a) \/ LinkLast(a) \/ StartScript(a) \/ ScriptEnds(a)
      BY <2>2 DEF RemoveLast, LinkLast, StartScript, ScriptEnds
    <2>3. CASE RollBackRemove(a) \/ RollBackLink(a) \/ RemoveSnapshot(a) \/ RemoveLink(a)
      BY <2>3 DEF RollBackRemove, RollBackLink, RemoveSnapshot, RemoveLink
    <2>4. CASE CallFails(a) \/ CallRestoreNowhere(a) \/ CallDeleteLast(a)
               \/ Return(a) \/ Crash(a)
      BY <2>4 DEF CallFails, CallRestoreNowhere, CallDeleteLast, Return, Crash, Leave
    <2>5. CASE \E s \in Snapshots : CallRestore(a, s) \/ CallDelete(a, s)
      BY <2>5 DEF CallRestore, CallDelete, Begin
    <2> QED
      BY <2>1, <2>2, <2>3, <2>4, <2>5 DEF Step
  <1> QED
    BY <1>1 DEF TypeOK

-----------------------------------------------------------------------------
(***************************************************************************)
(* What a call has seen of `last`, disturbed or not.                       *)
(***************************************************************************)
LEMMA SawStays ==
  ASSUME NEW b \in Actors, SawNoForeign(b), UNCHANGED <<pc[b], last, intruded[b]>>
  PROVE  SawNoForeign(b)'
  BY DEF SawNoForeign

\* Who makes `last` Foreign under a call that has looked intrudes on it.
LEMMA ChangesSaw ==
  ASSUME TypeOK, NEW a, NEW b \in Actors, b # a, NEW e, NEW l, Changes(a, e, l),
         SawNoForeign(b), pc'[b] = pc[b]
  PROVE  SawNoForeign(b)'
  BY DEF Changes, TypeOK, SawNoForeign

\* A step of a that is not a change leaves `last` and the others' histories.
LEMMA ChangesOrNot ==
  ASSUME NEW a \in Actors, NEW b \in Actors, a # b, TypeOK,
         \/ \E s \in Snapshots : CallRestore(a, s) \/ CallDelete(a, s)
         \/ CallRestoreNowhere(a) \/ CallDeleteLast(a) \/ Step(a) \/ Return(a) \/ Crash(a)
  PROVE  \/ UNCHANGED <<last, intruded[b]>>
         \/ \E e, l : Changes(a, e, l)
  <1> USE DEF Looks, TypeOK
  <1>1. CASE Exists(a) \/ IsRegular(a) \/ LocateScript(a) \/ StatLast(a) \/ ReadLink(a)
    BY <1>1 DEF Exists, IsRegular, LocateScript, StatLast, ReadLink
  <1>2. CASE RemoveLast(a) \/ LinkLast(a) \/ StartScript(a) \/ ScriptEnds(a)
    BY <1>2 DEF RemoveLast, LinkLast, StartScript, ScriptEnds
  <1>3. CASE RollBackRemove(a) \/ RollBackLink(a) \/ RemoveSnapshot(a) \/ RemoveLink(a)
    BY <1>3 DEF RollBackRemove, RollBackLink, RemoveSnapshot, RemoveLink
  <1>4. CASE CallFails(a) \/ CallRestoreNowhere(a) \/ CallDeleteLast(a)
             \/ Return(a) \/ Crash(a)
    BY <1>4 DEF CallFails, CallRestoreNowhere, CallDeleteLast, Return, Crash, Leave
  <1>5. CASE \E s \in Snapshots : CallRestore(a, s) \/ CallDelete(a, s)
    BY <1>5 DEF CallRestore, CallDelete, Begin
  <1> QED
    BY <1>1, <1>2, <1>3, <1>4, <1>5 DEF Step

\* A call comes past its look only with a `last` that is no Foreign one, and
\* never makes it Foreign.
LEMMA OwnSaw ==
  ASSUME NEW a \in Actors, TypeOK, InPlace(a), SawNoForeign(a),
         \/ \E s \in Snapshots : CallRestore(a, s) \/ CallDelete(a, s)
         \/ CallRestoreNowhere(a) \/ CallDeleteLast(a) \/ Step(a) \/ Return(a) \/ Crash(a)
  PROVE  SawNoForeign(a)'
  <1> USE NotLinks DEF Looks, TypeOK, SawNoForeign, Goto, Finish, RollBack, RolledBack, Looked
  <1>1. CASE Exists(a) \/ IsRegular(a) \/ LocateScript(a)
    BY <1>1 DEF Exists, IsRegular, LocateScript
  <1>2. CASE StatLast(a) \/ ReadLink(a)
    BY <1>2 DEF StatLast, ReadLink
  <1>3. CASE StartScript(a) \/ ScriptEnds(a)
    BY <1>3 DEF StartScript, ScriptEnds
  <1>4. CASE CallFails(a) \/ CallRestoreNowhere(a) \/ CallDeleteLast(a)
    BY <1>4 DEF CallFails, CallRestoreNowhere, CallDeleteLast
  <1>5. CASE Return(a) \/ Crash(a)
    BY <1>5 DEF Return, Crash, Leave
  <1>6. CASE \E s \in Snapshots : CallRestore(a, s) \/ CallDelete(a, s)
    BY <1>6 DEF CallRestore, CallDelete, Begin
  <1>7. CASE RemoveLast(a) \/ RollBackRemove(a)
    BY <1>7 DEF RemoveLast, RollBackRemove, Changes
  <1>8. CASE LinkLast(a)
    <2>1. Target(a) # Foreign
      BY <1>8, TargetIsSnapshot DEF LinkLast, InRestore
    <2> QED
      BY <1>8, <2>1 DEF LinkLast, Changes
  <1>9. CASE RollBackLink(a)
    BY <1>9 DEF RollBackLink, Changes
  <1>10. CASE RemoveSnapshot(a) \/ RemoveLink(a)
    BY <1>10 DEF RemoveSnapshot, RemoveLink, Changes
  <1> QED
    BY <1>1, <1>2, <1>3, <1>4, <1>5, <1>6, <1>7, <1>8, <1>9, <1>10 DEF Step

LEMMA NextSaw ==
  ASSUME IInv, [Next]_vars, NEW b \in Actors
  PROVE  SawNoForeign(b)'
  <1>1. TypeOK /\ InPlace(b) /\ SawNoForeign(b)
    BY DEF IInv
  <1>2. ASSUME NEW a \in Actors,
               \/ \E s \in Snapshots : CallRestore(a, s) \/ CallDelete(a, s)
               \/ CallRestoreNowhere(a) \/ CallDeleteLast(a) \/ Step(a) \/ Return(a) \/ Crash(a)
        PROVE  SawNoForeign(b)'
    <2>1. CASE a = b
      BY <1>1, <1>2, <2>1, OwnSaw
    <2>2. CASE a # b
      <3>1. pc'[b] = pc[b]
        BY <1>1, <1>2, <2>2, MovesOnlyItself
      <3>2. \/ UNCHANGED <<last, intruded[b]>>
            \/ \E e, l : Changes(a, e, l)
        BY <1>1, <1>2, <2>2, ChangesOrNot
      <3> QED
        BY <1>1, <2>2, <3>1, <3>2, SawStays, ChangesSaw
    <2> QED
      BY <2>1, <2>2
  <1>3. ASSUME NEW e, NEW l, ChangesOutside(e, l)
        PROVE  SawNoForeign(b)'
    <2>1. pc'[b] = pc[b] /\ Changes("outside", e, l) /\ b # "outside"
      BY <1>3, DistinctAssumption DEF ChangesOutside
    <2> QED
      BY <1>1, <2>1, ChangesSaw
  <1>4. CASE Outside
    BY <1>3, <1>4 DEF Outside, Save, ScriptSpoilsLast
  <1>5. CASE UNCHANGED vars
    BY <1>1, <1>5, SawStays DEF vars
  <1> QED
    BY <1>2, <1>4, <1>5 DEF Next

-----------------------------------------------------------------------------
LEMMA NextIInv == IInv /\ [Next]_vars => IInv'
  <1> SUFFICES ASSUME IInv, [Next]_vars PROVE IInv'
    OBVIOUS
  <1>1. TypeOK /\ TypeOK' /\ \A a \in Actors : Facts(a)
    BY NextTypes, IInvIsFacts
  <1>2. SUFFICES ASSUME NEW b \in Actors PROVE Facts(b)'
    BY <1>1, NextSaw DEF IInv, Facts, RestoreIsAllOrNothing, DeleteTakesItsLink
  <1>3. ASSUME NEW a \in Actors, NEW s \in Snapshots, CallRestore(a, s) \/ CallDelete(a, s)
        PROVE  Facts(b)'
    <2>1. \E c \in Calls, first \in {"exists", "read_last"} : Begin(a, c, first)
      BY <1>3 DEF CallRestore, CallDelete, Calls
    <2>2. a # b => Facts(b)'
      BY <1>1, <2>1, OthersLooking
    <2> QED
      BY <1>1, <1>3, <2>2, BeginFacts
  <1>4. ASSUME NEW a \in Actors, Step(a) \/ CallRestoreNowhere(a) \/ CallDeleteLast(a)
        PROVE  Facts(b)'
    <2>1. CASE a = b
      BY <1>1, <1>4, <2>1, LooksFacts, ChangingFacts DEF Step
    <2>2. CASE a # b
      BY <1>1, <1>4, <2>2, OthersLooking, OthersChanging DEF Step
    <2> QED
      BY <2>1, <2>2
  <1>5. ASSUME NEW a \in Actors, Return(a) \/ Crash(a) PROVE Facts(b)'
    <2>1. Leave(a)
      BY <1>5 DEF Return, Crash
    <2> QED
      BY <1>1, <2>1, LeaveFacts, OthersLooking
  <1>6. CASE Outside
    <2>1. \E e, l : ChangesOutside(e, l)
      BY <1>6 DEF Outside, Save, ScriptSpoilsLast
    <2> QED
      BY <1>1, <2>1, FromOutside
  <1>7. CASE UNCHANGED vars
    BY <1>1, <1>7, Frame DEF vars, LocalsKept
  <1> QED
    BY <1>3, <1>4, <1>5, <1>6, <1>7 DEF Next

\* The inductive invariant: what each undisturbed call knows at each of its
\* system calls.
THEOREM Inductive == Spec => []IInv
  BY InitIInv, NextIInv, PTL DEF Spec

\* Every variable stays in its type (the restores, deletions, saves and
\* crashes of SnapshotDir).
THEOREM TypeCorrect == Spec => []TypeOK
  <1>1. IInv => TypeOK
    BY DEF IInv
  <1> QED
    BY <1>1, Inductive, PTL

\* A restore nobody disturbs either ran its script with `last` at the chosen
\* snapshot or, unless it reports a failed rollback, left `last` as it was.
THEOREM RestoresAreAllOrNothing == Spec => []RestoreIsAllOrNothing
  <1>1. IInv => RestoreIsAllOrNothing
    BY DEF IInv
  <1> QED
    BY <1>1, Inductive, PTL

\* A deletion nobody disturbs removes `last` with the snapshot it points at,
\* and leaves it alone otherwise.
THEOREM DeletionsTakeTheirLink == Spec => []DeleteTakesItsLink
  <1>1. IInv => DeleteTakesItsLink
    BY DEF IInv
  <1> QED
    BY <1>1, Inductive, PTL

\* A step that takes `last` from Foreign is one of a call that looked before.
LEMMA ForeignKeptByStep ==
  ASSUME IInv, [Next]_vars, last = Foreign, last' # Foreign
  PROVE  \E a \in Actors : pc'[a] # pc[a] /\ intruded[a]
  <1>1. TypeOK /\ \A a \in Actors : SawNoForeign(a)
    BY DEF IInv
  <1> USE DEF TypeOK, Goto, Finish, RollBack, RolledBack, Looks
  <1>2. ASSUME NEW a \in Actors, Step(a)
        PROVE  pc'[a] # pc[a] /\ intruded[a]
    <2>1. \/ RemoveLast(a) \/ LinkLast(a) \/ RollBackRemove(a) \/ RollBackLink(a)
          \/ RemoveSnapshot(a) \/ RemoveLink(a)
      BY <1>2 DEF Step, Exists, IsRegular, LocateScript, StatLast, ReadLink, StartScript,
                  ScriptEnds, CallFails
    <2>2. ~RemoveSnapshot(a)
      BY ChangesKeepsOwn, <1>1 DEF RemoveSnapshot
    <2>3. pc'[a] # pc[a]
      BY <1>1, <2>1, <2>2 DEF RemoveLast, LinkLast, RollBackRemove, RollBackLink, RemoveLink
    <2>4. pc[a] \in Looked
      BY <2>1, <2>2 DEF RemoveLast, LinkLast, RollBackRemove, RollBackLink, RemoveLink, Looked
    <2> QED
      BY <1>1, <2>3, <2>4 DEF SawNoForeign
  <1>3. ASSUME NEW a \in Actors, NEW s \in Snapshots, CallRestore(a, s) \/ CallDelete(a, s)
        PROVE  FALSE
    BY <1>3 DEF CallRestore, CallDelete, Begin
  <1>4. ASSUME NEW a \in Actors,
               CallRestoreNowhere(a) \/ CallDeleteLast(a) \/ Return(a) \/ Crash(a)
        PROVE  FALSE
    BY <1>4 DEF CallRestoreNowhere, CallDeleteLast, Return, Crash, Leave
  <1>5. ~Outside
    BY NotLinks DEF Outside, Save, ScriptSpoilsLast, ChangesOutside, Changes
  <1>6. ~UNCHANGED vars
    BY DEF vars
  <1> QED
    BY <1>2, <1>3, <1>4, <1>5, <1>6 DEF Next

\* A `last` that is not a symlink is removed by no call but one that had looked
\* at `last` before somebody else put it there.
THEOREM ForeignLastIsTheUsers == Spec => ForeignLastIsKept
  <1>1. IInv /\ [Next]_vars =>
          [(last = Foreign /\ last' # Foreign) =>
             \E a \in Actors : pc'[a] # pc[a] /\ intruded[a]]_vars
    BY ForeignKeptByStep
  <1> QED
    BY <1>1, Inductive, PTL DEF Spec, ForeignLastIsKept

HIDE DEF directory, local, history

USE DEF handle

-----------------------------------------------------------------------------
(***************************************************************************)
(* The worker implements the directory.                                    *)
(***************************************************************************)
\* A thread's step is one of the directory or leaves the directory alone.
LEMMA ThreadUsesDir ==
  ASSUME NEW w \in Workers, Thread(w) \/ Owner(w)
  PROVE  [Next]_vars
  <1>1. w \in Actors
    BY WorkersAssumption
  <1>2. CASE Owner(w)
    BY <1>2 DEF Owner, Construct, RequestStop, TryTake, Destroy, Join
  <1>3. CASE Stopped(w) \/ Ends(w)
    BY <1>3 DEF Stopped, Ends
  <1>4. CASE Work(w)
    BY <1>1, <1>4 DEF Work, Next
  <1>5. CASE Report(w)
    BY <1>1, <1>5 DEF Report, Next
  <1>6. CASE Start(w)
    BY <1>1, <1>6 DEF Start, Next
  <1> QED
    BY <1>2, <1>3, <1>4, <1>5, <1>6 DEF Thread

LEMMA StepUsesDir ==
  ASSUME [WNext]_allVars
  PROVE  [Next]_vars
  <1>1. CASE Elsewhere
    BY <1>1 DEF Elsewhere, Next
  <1>2. CASE UNCHANGED allVars
    BY <1>2 DEF allVars
  <1> QED
    BY <1>1, <1>2, ThreadUsesDir DEF WNext

\* A worker and the threads beside it do nothing that SnapshotDir does not
\* allow its actors, so that all that is proved of it holds of them.
THEOREM WorkerImplementsDir == WSpec => Spec
  <1>1. WInit => Init
    BY DEF WInit
  <1>2. [WNext]_allVars => [Next]_vars
    BY StepUsesDir
  <1> QED
    BY <1>1, <1>2, PTL DEF WSpec, Spec

-----------------------------------------------------------------------------
(***************************************************************************)
(* The invariant.                                                          *)
(***************************************************************************)
\* What a step of another thread leaves of w.
LEMMA OthersKeepShape ==
  ASSUME NEW w \in Workers, Shape(w), pc'[w] = pc[w],
         UNCHANGED <<owner[w], thread[w], promise[w], future[w], taken[w], outcome[w], touched[w]>>
  PROVE  Shape(w)'
  BY DEF Shape

LEMMA ElsewhereKeepsIt ==
  ASSUME WIInv, Elsewhere
  PROVE  WTypeOK' /\ \A w \in Workers : Shape(w)' /\ pc'[w] = pc[w]
  <1>1. \A w \in Workers : pc'[w] = pc[w]
    <2> SUFFICES ASSUME NEW w \in Workers PROVE pc'[w] = pc[w]
      OBVIOUS
    <2>1. w \in Actors /\ TypeOK
      BY WorkersAssumption DEF WIInv, IInv
    <2>2. CASE Outside
      BY <2>2 DEF Outside, Save, ScriptSpoilsLast, ChangesOutside, local
    <2>3. CASE ~Outside
      BY <2>1, <2>3, MovesOnlyItself DEF Elsewhere
    <2> QED
      BY <2>2, <2>3
  <1> QED
    BY <1>1, OthersKeepShape DEF Elsewhere, WIInv, WTypeOK

\* A step of w's owner or thread: the others stay, pc included.
LEMMA ThreadKeepsOthers ==
  ASSUME WIInv, NEW w \in Workers, Thread(w) \/ Owner(w), NEW v \in Workers, v # w
  PROVE  Shape(v)' /\ pc'[v] = pc[v]
  <1>1. w \in Actors /\ v \in Actors /\ TypeOK /\ WTypeOK /\ Shape(v)
    BY WorkersAssumption DEF WIInv, IInv
  <1>2. pc'[v] = pc[v]
    <2>1. CASE Owner(w) \/ Stopped(w) \/ Ends(w)
      BY <2>1 DEF Owner, Construct, RequestStop, TryTake, Destroy, Join, Stopped, Ends,
                  vars, local
    <2>2. CASE Work(w) \/ Report(w)
      BY <1>1, <2>2, MovesOnlyItself DEF Work, Report
    <2>3. CASE Start(w)
      BY <1>1, <2>3, MovesOnlyItself DEF Start
    <2> QED
      BY <2>1, <2>2, <2>3 DEF Thread
  <1>3. UNCHANGED <<owner[v], thread[v], promise[v], future[v], taken[v], outcome[v], touched[v]>>
    BY <1>1 DEF WTypeOK, Owner, Construct, RequestStop, TryTake, Destroy, Join,
                Thread, Stopped, Work, Report, Start, Ends
  <1> QED
    BY <1>1, <1>2, <1>3, OthersKeepShape

LEMMA OwnerKeepsOwn ==
  ASSUME WIInv, NEW w \in Workers, Owner(w)
  PROVE  WTypeOK' /\ Shape(w)'
  <1>1. WTypeOK /\ Shape(w) /\ UNCHANGED pc
    BY DEF WIInv, Owner, Construct, RequestStop, TryTake, Destroy, Join, vars, local
  <1>2. CASE Construct(w)
    BY <1>1, <1>2 DEF Construct, WTypeOK, Shape
  <1>3. CASE RequestStop(w)
    BY <1>1, <1>3 DEF RequestStop, WTypeOK, Shape
  <1>4. CASE TryTake(w)
    <2>1. promise[w] # "none" /\ taken[w] = "none"
      BY <1>1, <1>4 DEF TryTake, Ready, Shape
    <2> QED
      BY <1>1, <1>4, <2>1 DEF TryTake, WTypeOK, Shape
  <1>5. CASE Destroy(w)
    BY <1>1, <1>5 DEF Destroy, WTypeOK, Shape
  <1>6. CASE Join(w)
    BY <1>1, <1>6 DEF Join, WTypeOK, Shape
  <1> QED
    BY <1>2, <1>3, <1>4, <1>5, <1>6 DEF Owner

LEMMA ThreadKeepsOwn ==
  ASSUME WIInv, NEW w \in Workers, Thread(w)
  PROVE  WTypeOK' /\ Shape(w)'
  <1>1. WTypeOK /\ Shape(w) /\ w \in Actors /\ TypeOK /\ InPlace(w)
    BY WorkersAssumption DEF WIInv, IInv
  <1>2. CASE Stopped(w)
    BY <1>1, <1>2 DEF Stopped, vars, local, WTypeOK, Shape
  <1>3. CASE Work(w)
    BY <1>1, <1>3 DEF Work, WTypeOK, Shape
  <1>4. CASE Report(w)
    <2>1. result[w] \in {"ok"} \cup Errors /\ pc'[w] = "idle"
      BY <1>1, <1>4 DEF Report, Return, Leave, InPlace, TypeOK
    <2>2. result[w] \notin {"none", "stopped"}
      BY <2>1 DEF Errors
    <2>3. promise[w] = "none" /\ taken[w] = "none" /\ thread[w] = "restores"
      BY <1>1, <1>4 DEF Report, Shape
    <2>4. /\ promise'[w] = result[w] /\ outcome'[w] = result[w] /\ thread'[w] = "reported"
          /\ UNCHANGED <<owner, stop, future, taken, touched>>
      BY <1>1, <1>4 DEF Report, WTypeOK
    <2>5. WTypeOK'
      BY <1>1, <1>4, <2>1 DEF Report, WTypeOK
    <2> QED
      BY <1>1, <2>1, <2>2, <2>3, <2>4, <2>5 DEF Shape
  <1>5. CASE Start(w)
    <2>1. /\ thread[w] = "started" /\ thread'[w] = "restores"
          /\ UNCHANGED <<owner, stop, promise, future, taken, outcome, touched>>
      BY <1>1, <1>5 DEF Start, WTypeOK
    <2>2. WTypeOK'
      BY <1>1, <1>5 DEF Start, WTypeOK
    <2> QED
      BY <1>1, <2>1, <2>2 DEF Shape
  <1>6. CASE Ends(w)
    BY <1>1, <1>6 DEF Ends, vars, local, WTypeOK, Shape
  <1> QED
    BY <1>2, <1>3, <1>4, <1>5, <1>6 DEF Thread

LEMMA NextWIInv == WIInv /\ [WNext]_allVars => WIInv'
  <1> SUFFICES ASSUME WIInv, [WNext]_allVars PROVE WIInv'
    OBVIOUS
  <1>1. IInv'
    BY StepUsesDir, NextIInv DEF WIInv
  <1>2. ASSUME NEW w \in Workers, Thread(w) \/ Owner(w)
        PROVE  WTypeOK' /\ \A v \in Workers : Shape(v)'
    BY <1>2, OwnerKeepsOwn, ThreadKeepsOwn, ThreadKeepsOthers
  <1>3. CASE UNCHANGED allVars
    BY <1>1, <1>3, OthersKeepShape DEF allVars, vars, local, WIInv, WTypeOK
  <1>4. CASE Elsewhere
    BY <1>1, <1>4, ElsewhereKeepsIt DEF WIInv
  <1> QED
    BY <1>1, <1>2, <1>3, <1>4 DEF WNext, WIInv

LEMMA WorkerStarts == WInit => WIInv
  <1> SUFFICES ASSUME WInit PROVE WIInv
    OBVIOUS
  <1>1. IInv
    BY InitIInv DEF WInit
  <1>2. \A w \in Workers : pc[w] = "idle"
    BY WorkersAssumption DEF WInit, Init
  <1> QED
    BY <1>1, <1>2 DEF WInit, WIInv, WTypeOK, Shape

\* The inductive invariant of the worker, over that of the directory.
THEOREM WorkerInductive == WSpec => []WIInv
  BY WorkerStarts, NextWIInv, PTL DEF WSpec

\* try_take hands over what the restore returned, or that it was stopped
\* before it touched anything, and no more than once.
THEOREM ResultsAreTakenOnceAndTrue == WSpec => []TakenOnceAndTrue
  <1>1. WIInv => TakenOnceAndTrue
    BY DEF WIInv, Shape, TakenOnceAndTrue
  <1> QED
    BY <1>1, WorkerInductive, PTL

\* No step of the thread comes after its result was taken or its destructor
\* has returned.
THEOREM NothingIsLate == WSpec => NoLateStep
  <1>1. ASSUME WIInv, [WNext]_allVars, NEW w \in Workers, taken[w] # "none" \/ owner[w] = "gone"
        PROVE  UNCHANGED <<pc[w], touched[w]>>
    <2>1. WTypeOK /\ Shape(w) /\ thread[w] \in {"reported", "ended"} /\ pc[w] = "idle"
      BY <1>1 DEF WIInv, Shape
    <2>2. CASE Elsewhere
      BY <2>2, <1>1, ElsewhereKeepsIt DEF Elsewhere
    <2>3. CASE UNCHANGED allVars
      BY <2>3 DEF allVars, vars, local
    <2>4. CASE Owner(w)
      BY <2>4 DEF Owner, Construct, RequestStop, TryTake, Destroy, Join, vars, local
    <2>5. CASE Thread(w)
      BY <2>1, <2>5 DEF Thread, Stopped, Work, Report, Start, Ends, vars, local
    <2>6. ASSUME NEW v \in Workers, v # w, Thread(v) \/ Owner(v)
          PROVE  UNCHANGED <<pc[w], touched[w]>>
      <3>1. pc'[w] = pc[w]
        BY <1>1, <2>6, ThreadKeepsOthers
      <3>2. touched'[w] = touched[w]
        BY <2>1, <2>6 DEF WTypeOK, Owner, Construct, RequestStop, TryTake, Destroy, Join,
                          Thread, Stopped, Work, Report, Start, Ends
      <3> QED
        BY <3>1, <3>2
    <2> QED
      BY <1>1, <2>2, <2>3, <2>4, <2>5, <2>6 DEF WNext
  <1>2. WIInv /\ [WNext]_allVars =>
          [\A w \in Workers : (taken[w] # "none" \/ owner[w] = "gone")
             => UNCHANGED <<pc[w], touched[w]>>]_allVars
    BY <1>1
  <1> QED
    BY <1>2, WorkerInductive, PTL DEF WSpec, NoLateStep

HIDE DEF handle

-----------------------------------------------------------------------------
(***************************************************************************)
(* The calls beside a listing.                                             *)
(***************************************************************************)
\* A listing that begins is counted, and there was room for it.
LEMMA CallListKeepsWIInv ==
  ASSUME WIInv, CallList
  PROVE  WIInv'
  <1> DEFINE waiting == {w \in Workers : thread[w] \in {"none", "started"}}
  <1>1. Cardinality(waiting) \in Nat
    BY WorkersAssumption, FS_Subset, FS_CardinalityType
  <1>2. calls' \in 0..MaxCalls
    BY <1>1, BoundAssumption DEF CallList, RoomForCalls, WIInv, IInv, TypeOK
  <1>3. UNCHANGED <<entry, last, pc, call, previous, result, rollback, before, ran, disturbed,
                   intruded, handle>>
    BY DEF CallList, directory, local
  <1>4. IInv'
    BY <1>2, <1>3 DEF WIInv, IInv, TypeOK, InPlace, SawNoForeign, Knows, Target, RestoreIsAllOrNothing,
                      DeleteTakesItsLink, Returning, RestoreOutcome, DeleteOutcome
  <1> QED
    BY <1>3, <1>4 DEF WIInv, WTypeOK, Shape, handle

\* Restores, deletions and workers keep what they promise while snapshots are
\* listed: their invariant is one of the listing's specification too.
THEOREM ListingBreaksNothing == LSpec => []WIInv
  <1>1. LInit => WIInv
    BY WorkerStarts DEF LInit
  <1>2. WIInv /\ [LNext]_listVars => WIInv'
    <2> SUFFICES ASSUME WIInv, [LNext]_listVars PROVE WIInv'
      OBVIOUS
    <2>1. CASE CallList
      BY <2>1, CallListKeepsWIInv
    <2>2. CASE ListStep \/ UNCHANGED listVars
      BY <2>2, NextWIInv DEF ListStep, listVars
    <2>3. CASE Meanwhile
      BY <2>3, NextWIInv DEF Meanwhile
    <2> QED
      BY <2>1, <2>2, <2>3 DEF LNext
  <1> QED
    BY <1>1, <1>2, PTL DEF LSpec

-----------------------------------------------------------------------------
(***************************************************************************)
(* The listing.                                                            *)
(***************************************************************************)
\* What is there changes with the directory only.
LEMMA PresentStays ==
  ASSUME UNCHANGED entry
  PROVE  Present' = Present
  BY DEF Present, IsThere

\* The call's locals are gone with it.
LEMMA ReturnKeepsScanInv ==
  ASSUME ScanInv, scan # "read", ListReturns, UNCHANGED entry
  PROVE  ScanInv'
  BY DEF ScanInv, ListReturns, Listed

LEMMA ReadKeepsScanInv ==
  ASSUME ScanInv, ReadFile, UNCHANGED entry
  PROVE  ScanInv'
  <1>1. PICK f \in path : Read(f)
    BY DEF ReadFile
  <1>2. /\ scan' = "next" /\ path' = {} /\ path = {f} /\ f \in ever
        /\ UNCHANGED <<seen, steady, ever>>
    BY DEF ReadFile, ScanInv
  <1>3. Present' = Present
    BY PresentStays
  <1>4. CASE ~IsThere(f) /\ UNCHANGED <<out, closed>>
    <2>1. f \notin steady
      BY <1>4 DEF ScanInv, Present
    <2> QED
      BY <1>2, <1>3, <1>4, <2>1 DEF ScanInv, Listed
  <1>5. CASE closed' = closed \cup ({f} \ Undated) /\ UNCHANGED out
    BY <1>2, <1>3, <1>5 DEF ScanInv, Listed
  <1>6. ASSUME NEW text, UNCHANGED closed,
               out' = IF f \in Undated THEN out ELSE out \cup {[snapshot |-> f, text |-> text]}
        PROVE  ScanInv'
    <2>1. CASE f \in Undated
      BY <1>2, <1>3, <1>6, <2>1 DEF ScanInv, Listed
    <2>2. CASE f \notin Undated
      <3>1. PICK r : r.snapshot = f /\ out' = out \cup {r}
        BY <1>6, <2>2
      <3>2. Listed' = Listed \cup {f}
        BY <3>1 DEF Listed
      <3> QED
        BY <1>2, <1>3, <1>6, <2>2, <3>2 DEF ScanInv
    <2> QED
      BY <2>1, <2>2
  <1> QED
    BY <1>1, <1>4, <1>5, <1>6 DEF Read

LEMMA NextScanInv == ScanInv /\ [LNext]_listVars => ScanInv'
  <1> SUFFICES ASSUME ScanInv, [LNext]_listVars PROVE ScanInv'
    OBVIOUS
  <1>1. CASE CallList
    BY <1>1, PresentStays DEF CallList, directory, ScanInv, Listed
  <1>2. CASE ListStep
    <2>0. UNCHANGED entry /\ Present' = Present
      BY <1>2, PresentStays DEF ListStep, allVars, vars, directory
    <2>1. CASE Inspect
      <3>1. CASE ListReturns
        BY <2>0, <2>1, <3>1, ReturnKeepsScanInv DEF Inspect
      <3>2. CASE scan' = "open" /\ UNCHANGED <<seen, path, out, steady, ever, closed>>
        BY <2>0, <2>1, <3>2 DEF Inspect, ScanInv, Listed
      <3> QED
        BY <2>1, <3>1, <3>2 DEF Inspect
    <2>2. CASE OpenDirectory
      <3>1. CASE ListReturns
        BY <2>0, <2>2, <3>1, ReturnKeepsScanInv DEF OpenDirectory
      <3>2. CASE ~ListReturns
        BY <2>0, <2>2, <3>2 DEF OpenDirectory, ScanInv, Listed
      <3> QED
        BY <3>1, <3>2
    <2>3. CASE NextEntry
      BY <2>0, <2>3 DEF NextEntry, ScanInv, Listed
    <2>4. CASE EndOfDirectory \/ CutShort
      BY <2>0, <2>4, ReturnKeepsScanInv DEF EndOfDirectory, CutShort
    <2>5. CASE IncrementFails
      BY <2>0, <2>5 DEF IncrementFails, ScanInv, Listed
    <2>6. CASE ReadFile
      BY <2>0, <2>6, ReadKeepsScanInv
    <2> QED
      BY <1>2, <2>1, <2>2, <2>3, <2>4, <2>5, <2>6 DEF ListStep
  <1>3. CASE Meanwhile
    <2>1. steady' \subseteq steady /\ steady' \subseteq Present' /\ ever \subseteq ever'
      BY <1>3 DEF Meanwhile
    <2>2. UNCHANGED <<scan, seen, path, out, closed, Listed>>
      BY <1>3 DEF Meanwhile, Listed
    <2> QED
      BY <2>1, <2>2 DEF ScanInv
  <1>4. CASE UNCHANGED listVars
    BY <1>4, PresentStays DEF listVars, scanner, allVars, vars, directory, ScanInv, Listed
  <1> QED
    BY <1>1, <1>2, <1>3, <1>4 DEF LNext

\* The inductive invariant of a listing.
THEOREM ListingInductive == LSpec => []ScanInv
  <1>1. LInit => ScanInv
    BY DEF LInit, ScanInv, Listed
  <1> QED
    BY <1>1, NextScanInv, PTL DEF LSpec

\* A scan that comes to the end lists what was there throughout and could be
\* opened, and nothing that was never there.
THEOREM ListingsAreFaithful == LSpec => ScanIsFaithful
  <1>1. ASSUME ScanInv, [LNext]_listVars, scan = "next", scan' = "idle"
        PROVE  /\ Listed \subseteq ever \ Undated
               /\ steady \ (Undated \cup closed) \subseteq Listed
    <2>1. EndOfDirectory
      BY <1>1 DEF LNext, CallList, ListStep, Inspect, OpenDirectory, NextEntry, IncrementFails,
                  CutShort, ReadFile, Meanwhile, listVars, scanner
    <2> QED
      BY <1>1, <2>1 DEF EndOfDirectory, ScanInv
  <1>2. ScanInv /\ [LNext]_listVars =>
          [(scan = "next" /\ scan' = "idle") =>
             /\ Listed \subseteq ever \ Undated
             /\ steady \ (Undated \cup closed) \subseteq Listed]_listVars
    BY <1>1
  <1> QED
    BY <1>2, ListingInductive, PTL DEF LSpec, ScanIsFaithful
=============================================================================

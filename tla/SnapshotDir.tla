----------------------------- MODULE SnapshotDir -----------------------------
(***************************************************************************)
(* A tmux-resurrect directory: snapshot files and the `last` symlink, as   *)
(* restore_snapshot (src/src/snapshots/restore.cpp) and delete_snapshot    *)
(* (src/src/snapshots/ops.cpp) use it from several threads and processes   *)
(* at once, one system call per step.  Nothing locks the directory; any    *)
(* system call may fail; a process may be killed between two of them; the  *)
(* restore script and tmux-resurrect's own saves move `last` too.          *)
(***************************************************************************)
EXTENDS Integers

CONSTANTS Actors,     \* threads and processes that use the directory
          Snapshots,  \* paths of the snapshots
          Absent,     \* `last` is not there
          Foreign,    \* `last` is not a symlink
          Others,     \* TRUE: saves and scripts change the directory too
          MaxCalls    \* bound: calls made in a behaviour

ASSUME DistinctAssumption ==
  /\ Absent # Foreign /\ Absent \notin Snapshots /\ Foreign \notin Snapshots
  /\ "outside" \notin Actors
ASSUME BoundAssumption == MaxCalls \in Nat /\ Others \in BOOLEAN

Kinds == {"none", "file", "dir"}
Errors == {"invalid", "notfound", "io", "script"}
Restore(s) == [op |-> "restore", snapshot |-> s]
Delete(s) == [op |-> "delete", snapshot |-> s]
NoCall == [op |-> "none"]
Calls == {NoCall} \cup {Restore(s) : s \in Snapshots} \cup {Delete(s) : s \in Snapshots}

VARIABLES
  entry,      \* entry[s]: what is at path s
  last,       \* the target of `last`, or Absent, or Foreign
  pc,         \* pc[a]: the next system call of a's call
  call,       \* call[a]: the call a is executing
  previous,   \* previous[a]: what read_last_target returned
  result,     \* result[a]: what the call is about to return
  rollback,   \* rollback[a]: "none", "done", or "failed" (said in the error)
  \* History, read by no action:
  calls,      \* calls begun
  before,     \* before[a]: `last` when a's call began
  ran,        \* ran[a]: `last` when a's script started, or "none"
  disturbed,  \* disturbed[a]: somebody else changed the directory during a's call
  intruded    \* intruded[a]: somebody else made `last` Foreign after a had looked at it

directory == <<entry, last>>
local == <<pc, call, previous, result, rollback>>
history == <<calls, before, ran, disturbed, intruded>>
vars == <<directory, local, history>>

Init ==
  /\ entry \in [Snapshots -> Kinds]
  /\ last \in Snapshots \cup {Absent, Foreign}
  /\ pc = [a \in Actors |-> "idle"]
  /\ call = [a \in Actors |-> NoCall]
  /\ previous = [a \in Actors |-> Absent]
  /\ result = [a \in Actors |-> "none"]
  /\ rollback = [a \in Actors |-> "none"]
  /\ calls = 0
  /\ before = [a \in Actors |-> Absent]
  /\ ran = [a \in Actors |-> "none"]
  /\ disturbed = [a \in Actors |-> FALSE]
  /\ intruded = [a \in Actors |-> FALSE]

Target(a) == call[a].snapshot
Goto(a, from, to) == pc[a] = from /\ pc' = [pc EXCEPT ![a] = to]
Finish(a, from, why) == /\ Goto(a, from, "return")
                        /\ result' = [result EXCEPT ![a] = why]

\* A step of a that does not change the directory.
Looks == UNCHANGED <<directory, history>>

\* Where a call is once it has found out with lstat what `last` is.
Looked == {"read_link", "remove_last", "link", "spawn", "script", "rollback_remove",
           "rollback_link", "remove_snapshot", "remove_link"}

\* A step that changes the directory; the others' calls are disturbed by it.
Changes(a, newEntry, newLast) ==
  /\ entry' = newEntry
  /\ last' = newLast
  /\ disturbed' = [b \in Actors |->
       disturbed[b] \/ (b # a /\ pc[b] # "idle" /\ <<newEntry, newLast>> # directory)]
  /\ intruded' = [b \in Actors |->
       intruded[b] \/ (b # a /\ pc[b] \in Looked /\ last # Foreign /\ newLast = Foreign)]
  /\ UNCHANGED <<calls, before, ran>>

Begin(a, c, first) ==
  /\ calls < MaxCalls
  /\ Goto(a, "idle", first)
  /\ call' = [call EXCEPT ![a] = c]
  /\ calls' = calls + 1
  /\ before' = [before EXCEPT ![a] = last]
  /\ UNCHANGED <<directory, previous, result, rollback, ran, disturbed, intruded>>

\* The call's locals go with it.
Leave(a) ==
  /\ pc' = [pc EXCEPT ![a] = "idle"]
  /\ call' = [call EXCEPT ![a] = NoCall]
  /\ previous' = [previous EXCEPT ![a] = Absent]
  /\ result' = [result EXCEPT ![a] = "none"]
  /\ rollback' = [rollback EXCEPT ![a] = "none"]
  /\ before' = [before EXCEPT ![a] = Absent]
  /\ ran' = [ran EXCEPT ![a] = "none"]
  /\ disturbed' = [disturbed EXCEPT ![a] = FALSE]
  /\ intruded' = [intruded EXCEPT ![a] = FALSE]
  /\ UNCHANGED <<directory, calls>>

Return(a) == pc[a] = "return" /\ Leave(a)

(***************************************************************************)
(* restore_snapshot up to the change of `last`.                            *)
(***************************************************************************)
\* A path without a parent directory is refused before anything else.
CallRestoreNowhere(a) ==
  /\ Finish(a, "idle", "invalid")
  /\ UNCHANGED <<call, previous, rollback>> /\ Looks

CallRestore(a, s) == Begin(a, Restore(s), "exists")

Exists(a) ==
  /\ \/ Goto(a, "exists", "is_regular") /\ entry[Target(a)] # "none" /\ UNCHANGED result
     \/ Finish(a, "exists", "notfound") /\ entry[Target(a)] = "none"
  /\ UNCHANGED <<call, previous, rollback>> /\ Looks

\* A path that has gone since it was found is an error of stat here.
IsRegular(a) ==
  /\ \/ Goto(a, "is_regular", "locate") /\ entry[Target(a)] = "file" /\ UNCHANGED result
     \/ Finish(a, "is_regular", "invalid") /\ entry[Target(a)] = "dir"
     \/ Finish(a, "is_regular", "io") /\ entry[Target(a)] = "none"
  /\ UNCHANGED <<call, previous, rollback>> /\ Looks

\* locate_restore_script finds one of the candidates or none.
LocateScript(a) ==
  /\ \/ Goto(a, "locate", "read_last") /\ UNCHANGED result
     \/ Finish(a, "locate", "notfound")
  /\ UNCHANGED <<call, previous, rollback>> /\ Looks

(***************************************************************************)
(* read_last_target, of both files: lstat, then readlink.                  *)
(***************************************************************************)
AfterReading(a) == IF call[a].op = "restore" THEN "remove_last" ELSE "remove_snapshot"

\* Mutant: what is not a symlink is taken for no symlink.
StatLastLax(a) ==
  /\ \/ last \notin Snapshots /\ Goto(a, "read_last", AfterReading(a))
     \/ last \in Snapshots /\ Goto(a, "read_last", "read_link")
  /\ UNCHANGED <<call, previous, result, rollback>> /\ Looks

StatLast(a) ==
  /\ \/ last = Absent /\ Goto(a, "read_last", AfterReading(a)) /\ UNCHANGED result
     \/ last \in Snapshots /\ Goto(a, "read_last", "read_link") /\ UNCHANGED result
     \/ last = Foreign /\ Finish(a, "read_last", "invalid")
  /\ UNCHANGED <<call, previous, rollback>> /\ Looks

ReadLink(a) ==
  /\ \/ /\ last \in Snapshots
        /\ Goto(a, "read_link", AfterReading(a))
        /\ previous' = [previous EXCEPT ![a] = last]
        /\ UNCHANGED result
     \/ /\ last \notin Snapshots
        /\ Finish(a, "read_link", "io")
        /\ UNCHANGED previous
  /\ UNCHANGED <<call, rollback>> /\ Looks

(***************************************************************************)
(* restore_snapshot: replace_last, the script, fail_with_rollback.         *)
(***************************************************************************)
RollBack(a, from, why) == /\ Goto(a, from, "rollback_remove")
                          /\ result' = [result EXCEPT ![a] = why]

\* std::filesystem::remove removes whatever is there, or nothing.
RemoveLast(a) ==
  /\ Goto(a, "remove_last", "link")
  /\ Changes(a, entry, Absent)
  /\ UNCHANGED <<call, previous, result, rollback>>

LinkLast(a) ==
  /\ \/ /\ Goto(a, "link", "spawn")
        /\ last = Absent
        /\ Changes(a, entry, Target(a))
        /\ UNCHANGED result
     \/ RollBack(a, "link", "io") /\ last # Absent /\ Looks
  /\ UNCHANGED <<call, previous, rollback>>

StartScript(a) ==
  /\ Goto(a, "spawn", "script")
  /\ ran' = [ran EXCEPT ![a] = last]
  /\ UNCHANGED <<directory, call, previous, result, rollback>>
  /\ UNCHANGED <<calls, before, disturbed, intruded>>

\* The script exits with 0, with another code, or run_command returns an Error.
\* It may also never end, and run_command with it: its waitpid has no deadline.
ScriptEnds(a) ==
  /\ \/ Finish(a, "script", "ok")
     \/ \E why \in {"script", "io"} : RollBack(a, "script", why)
  /\ UNCHANGED <<call, previous, rollback>> /\ Looks

RolledBack(a, from, how) ==
  /\ Goto(a, from, "return")
  /\ rollback' = [rollback EXCEPT ![a] = how]

\* Mutant: a rollback to no symlink leaves the new one.
RollBackRemoveLate(a) ==
  /\ \/ /\ previous[a] = Absent
        /\ RolledBack(a, "rollback_remove", "done")
        /\ Looks
     \/ /\ previous[a] # Absent
        /\ Goto(a, "rollback_remove", "rollback_link")
        /\ Changes(a, entry, Absent)
        /\ UNCHANGED rollback
  /\ UNCHANGED <<call, previous, result>>

RollBackRemove(a) ==
  /\ Changes(a, entry, Absent)
  /\ \/ previous[a] = Absent /\ RolledBack(a, "rollback_remove", "done")
     \/ /\ previous[a] # Absent
        /\ Goto(a, "rollback_remove", "rollback_link")
        /\ UNCHANGED rollback
  /\ UNCHANGED <<call, previous, result>>

RollBackLink(a) ==
  /\ \/ last = Absent /\ RolledBack(a, "rollback_link", "done")
                      /\ Changes(a, entry, previous[a])
     \/ last # Absent /\ RolledBack(a, "rollback_link", "failed") /\ Looks
  /\ UNCHANGED <<call, previous, result>>

(***************************************************************************)
(* delete_snapshot.                                                        *)
(***************************************************************************)
\* The path `last` itself is refused before anything else.
CallDeleteLast(a) ==
  /\ Finish(a, "idle", "invalid")
  /\ UNCHANGED <<call, previous, rollback>> /\ Looks

CallDelete(a, s) == Begin(a, Delete(s), "read_last")

\* Mutant: `last` is left to the next save.
RemoveSnapshotOnly(a) ==
  /\ Finish(a, "remove_snapshot", "ok")
  /\ Changes(a, [entry EXCEPT ![Target(a)] = "none"], last)
  /\ UNCHANGED <<call, previous, rollback>>

RemoveSnapshot(a) ==
  /\ \/ /\ Goto(a, "remove_snapshot", "remove_link")
        /\ previous[a] = Target(a)
        /\ UNCHANGED result
     \/ Finish(a, "remove_snapshot", "ok") /\ previous[a] # Target(a)
  /\ Changes(a, [entry EXCEPT ![Target(a)] = "none"], last)
  /\ UNCHANGED <<call, previous, rollback>>

RemoveLink(a) ==
  /\ Finish(a, "remove_link", "ok")
  /\ Changes(a, entry, Absent)
  /\ UNCHANGED <<call, previous, rollback>>

(***************************************************************************)
(* Failures, crashes, and what the program does not do itself.             *)
(***************************************************************************)
\* A system call fails: before `last` has been touched the Error is returned,
\* afterwards it starts the rollback, in the rollback it is added to the Error.
CallFails(a) ==
  /\ \/ /\ \/ \E from \in {"exists", "is_regular", "read_last", "read_link",
                           "remove_snapshot", "remove_link"} : Finish(a, from, "io")
           \/ \E from \in {"remove_last", "link", "spawn"} : RollBack(a, from, "io")
        /\ UNCHANGED rollback
     \/ /\ \E from \in {"rollback_remove", "rollback_link"} : RolledBack(a, from, "failed")
        /\ UNCHANGED result
  /\ UNCHANGED <<call, previous>> /\ Looks

\* a's process is killed; another may take its place.
Crash(a) == pc[a] # "idle" /\ Leave(a)

\* By somebody who is not an actor.
ChangesOutside(newEntry, newLast) ==
  /\ Others
  /\ Changes("outside", newEntry, newLast)
  /\ UNCHANGED local

\* tmux-resurrect saves a new snapshot and points `last` at it.
Save(s) == /\ entry[s] = "none" /\ last # Foreign
           /\ ChangesOutside([entry EXCEPT ![s] = "file"], s)

\* A restore script may do anything to `last`, and has it disturbed.
ScriptSpoilsLast(a) == /\ pc[a] = "script" /\ last # Foreign
                       /\ ChangesOutside(entry, Foreign)

Step(a) ==
  \/ Exists(a) \/ IsRegular(a) \/ LocateScript(a) \/ StatLast(a) \/ ReadLink(a)
  \/ RemoveLast(a) \/ LinkLast(a) \/ StartScript(a) \/ ScriptEnds(a)
  \/ RollBackRemove(a) \/ RollBackLink(a)
  \/ RemoveSnapshot(a) \/ RemoveLink(a) \/ CallFails(a)

Outside == \/ \E s \in Snapshots : Save(s)
           \/ \E a \in Actors : ScriptSpoilsLast(a)

Next == \/ \E a \in Actors :
             \/ \E s \in Snapshots : CallRestore(a, s) \/ CallDelete(a, s)
             \/ CallRestoreNowhere(a) \/ CallDeleteLast(a) \/ Step(a) \/ Return(a) \/ Crash(a)
        \/ Outside

Spec == Init /\ [][Next]_vars

(***************************************************************************)
(* Properties                                                              *)
(***************************************************************************)
Pcs == {"idle", "exists", "is_regular", "locate", "read_last", "read_link",
        "remove_last", "link", "spawn", "script", "rollback_remove", "rollback_link",
        "remove_snapshot", "remove_link", "return"}

\* Every variable stays in its type.
TypeOK ==
  /\ entry \in [Snapshots -> Kinds]
  /\ last \in Snapshots \cup {Absent, Foreign}
  /\ pc \in [Actors -> Pcs]
  /\ call \in [Actors -> Calls]
  /\ previous \in [Actors -> Snapshots \cup {Absent}]
  /\ result \in [Actors -> {"none", "ok"} \cup Errors]
  /\ rollback \in [Actors -> {"none", "done", "failed"}]
  /\ calls \in 0..MaxCalls
  /\ before \in [Actors -> Snapshots \cup {Absent, Foreign}]
  /\ ran \in [Actors -> Snapshots \cup {Absent, Foreign, "none"}]
  /\ disturbed \in [Actors -> BOOLEAN]
  /\ intruded \in [Actors -> BOOLEAN]

Returning(a, op) == pc[a] = "return" /\ call[a].op = op

RestoreOutcome(a) ==
  IF result[a] = "ok"
  THEN ran[a] = Target(a) /\ last = Target(a) /\ entry[last] = "file"
  ELSE rollback[a] # "failed" => last = before[a]

DeleteOutcome(a) ==
  IF result[a] = "ok"
  THEN /\ entry[Target(a)] = "none"
       /\ last = IF before[a] = Target(a) THEN Absent ELSE before[a]
  ELSE last = before[a]

\* restore_snapshot is all or nothing when nobody else changes the directory
\* during the call (other calls may run, and nothing is asked of them before
\* or after): it succeeds only if the script ran with `last` at the chosen
\* snapshot, which is still there; and any failure that does not report a
\* failed rollback leaves `last` as it was, absent or foreign included.
RestoreIsAllOrNothing ==
  \A a \in Actors : (Returning(a, "restore") /\ ~disturbed[a]) => RestoreOutcome(a)

\* delete_snapshot, undisturbed, removes `last` with the snapshot it points
\* at and only then; when it fails, `last` has not changed.
DeleteTakesItsLink ==
  \A a \in Actors : (Returning(a, "delete") /\ ~disturbed[a]) => DeleteOutcome(a)

\* What makes the two hold, by system call.  The call fits its place in the
\* code, and the result is open until it is known.
Early == {"exists", "is_regular", "locate", "read_last", "read_link"}
InRestore == {"exists", "is_regular", "locate", "remove_last", "link", "spawn",
              "script", "rollback_remove", "rollback_link"}
InRollback == {"rollback_remove", "rollback_link"}
InDelete == {"remove_snapshot", "remove_link"}

InPlace(a) ==
  /\ pc[a] \in InRestore => call[a].op = "restore"
  /\ pc[a] \in InDelete => call[a].op = "delete"
  /\ pc[a] \in {"read_last", "read_link"} => call[a].op \in {"restore", "delete"}
  /\ pc[a] \in InRollback => result[a] \in Errors
  /\ pc[a] \notin InRollback \cup {"return"} => result[a] = "none"
  /\ pc[a] # "return" => rollback[a] = "none"
  /\ pc[a] \in Early \cup {"idle"} => previous[a] = Absent
  /\ pc[a] = "return" => result[a] # "none"
  /\ pc[a] = "idle" => call[a] = NoCall

\* What an undisturbed call knows of the directory and of its past.
Knows(a) ==
  /\ pc[a] \in Early => last = before[a]
  /\ pc[a] \in {"remove_last", "remove_snapshot"} => last = before[a]
  /\ pc[a] \in (InRestore \cup InDelete) \ (Early \cup {"remove_link"}) => previous[a] = before[a]
  /\ (call[a].op = "restore" /\ pc[a] \in {"locate", "read_last", "read_link", "remove_last",
                                            "link", "spawn", "script"})
       => entry[Target(a)] = "file"
  /\ pc[a] \in {"link", "rollback_link"} => last = Absent
  /\ pc[a] = "rollback_remove" => last # Foreign
  /\ pc[a] \in {"spawn", "script"} => last = Target(a)
  /\ pc[a] = "script" => ran[a] = Target(a)
  /\ pc[a] = "remove_link" =>
       entry[Target(a)] = "none" /\ before[a] = Target(a) /\ last = before[a]

\* No call goes on over a `last` it has found to be Foreign.
SawNoForeign(a) == (pc[a] \in Looked /\ ~intruded[a]) => last # Foreign

IInv ==
  /\ TypeOK
  /\ \A a \in Actors : InPlace(a) /\ SawNoForeign(a) /\ (~disturbed[a] => Knows(a))
  /\ RestoreIsAllOrNothing
  /\ DeleteTakesItsLink

\* A `last` that is not a symlink is the user's, and no call that finds it so
\* removes it: a step that takes it away is a step of a call that had looked
\* before somebody else put it there, whatever else has disturbed the calls.
ForeignLastIsKept ==
  [][(last = Foreign /\ last' # Foreign) =>
       \E a \in Actors : pc'[a] # pc[a] /\ intruded[a]]_vars

(***************************************************************************)
(* Three statements that hold only without concurrent calls: of the code's *)
(* refusal of a `last` that is not a symlink, and of the headers.          *)
(***************************************************************************)
\* With nobody excluded: a `last` that is not a symlink is never removed.
ForeignLastIsAlwaysKept == [][last = Foreign => last' = Foreign]_vars

\* What restore.hpp says of success, with nobody excluded: the script that
\* exited with 0 ran with `last` at the chosen snapshot.
SuccessRestoredChosen ==
  \A a \in Actors : (Returning(a, "restore") /\ result[a] = "ok") => ran[a] = Target(a)

\* What ops.hpp says of success, with nobody excluded: as delete_snapshot
\* takes its last step to success, `last` does not point at the deleted snapshot.
DeletedIsNotLast ==
  [][\A a \in Actors :
       (call[a].op = "delete" /\ pc[a] # "return" /\ pc'[a] = "return" /\ result'[a] = "ok")
         => last' # Target(a)]_vars

=============================================================================

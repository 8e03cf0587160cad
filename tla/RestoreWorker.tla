---------------------------- MODULE RestoreWorker ----------------------------
(***************************************************************************)
(* The RestoreWorker of src/src/snapshots/restore.cpp: a jthread that runs *)
(* restore_snapshot and a future of its result, used by the thread that    *)
(* owns it (request_stop, ready, try_take, the destructor), while other    *)
(* threads restore, delete and save in the same directory (SnapshotDir).   *)
(***************************************************************************)
EXTENDS SnapshotDir, FiniteSets

CONSTANT Workers  \* the actors that are a RestoreWorker's thread

ASSUME WorkersAssumption == Workers \subseteq Actors /\ IsFiniteSet(Workers)

VARIABLES
  owner,    \* owner[w]: what the owner has done: "none", "holds", "joins", "gone"
  stop,     \* stop[w]: the stop token's state
  thread,   \* thread[w]: "none", "started", "restores", "reported", "ended"
  promise,  \* promise[w]: the value set, or "none"
  future,   \* future[w]: result_ holds a future
  \* History:
  taken,    \* taken[w]: what try_take returned, or "none"
  outcome,  \* outcome[w]: what the thread's restore_snapshot returned
  touched   \* touched[w]: the thread has changed the directory

handle == <<owner, stop, thread, promise, future, taken, outcome, touched>>
allVars == <<vars, handle>>

WInit ==
  /\ Init
  /\ owner = [w \in Workers |-> "none"]
  /\ stop = [w \in Workers |-> FALSE]
  /\ thread = [w \in Workers |-> "none"]
  /\ promise = [w \in Workers |-> "none"]
  /\ future = [w \in Workers |-> FALSE]
  /\ taken = [w \in Workers |-> "none"]
  /\ outcome = [w \in Workers |-> "none"]
  /\ touched = [w \in Workers |-> FALSE]

(***************************************************************************)
(* The owner.                                                              *)
(***************************************************************************)
Construct(w) ==
  /\ owner[w] = "none"
  /\ owner' = [owner EXCEPT ![w] = "holds"]
  /\ future' = [future EXCEPT ![w] = TRUE]
  /\ thread' = [thread EXCEPT ![w] = "started"]
  /\ UNCHANGED <<vars, stop, promise, taken, outcome, touched>>

RequestStop(w) ==
  /\ owner[w] = "holds"
  /\ stop' = [stop EXCEPT ![w] = TRUE]
  /\ UNCHANGED <<vars, owner, thread, promise, future, taken, outcome, touched>>

Ready(w) == future[w] /\ promise[w] # "none"

\* Mutant: result_ keeps the spent future.
TryTakeAgain(w) ==
  /\ owner[w] = "holds"
  /\ Ready(w)
  /\ taken' = [taken EXCEPT ![w] = IF @ = "none" THEN promise[w] ELSE "again"]
  /\ UNCHANGED <<vars, owner, stop, thread, promise, future, outcome, touched>>

\* try_take when it returns a result; otherwise it changes nothing.
TryTake(w) ==
  /\ owner[w] = "holds"
  /\ Ready(w)
  /\ taken' = [taken EXCEPT ![w] = IF @ = "none" THEN promise[w] ELSE "again"]
  /\ future' = [future EXCEPT ![w] = FALSE]
  /\ UNCHANGED <<vars, owner, stop, thread, promise, outcome, touched>>

\* The destructor drops result_, then ~jthread requests stop and joins.
Destroy(w) ==
  /\ owner[w] = "holds"
  /\ owner' = [owner EXCEPT ![w] = "joins"]
  /\ future' = [future EXCEPT ![w] = FALSE]
  /\ stop' = [stop EXCEPT ![w] = TRUE]
  /\ UNCHANGED <<vars, thread, promise, taken, outcome, touched>>

\* Mutant: the thread is detached.
Detach(w) ==
  /\ owner[w] = "joins"
  /\ owner' = [owner EXCEPT ![w] = "gone"]
  /\ UNCHANGED <<vars, stop, thread, promise, future, taken, outcome, touched>>

Join(w) ==
  /\ owner[w] = "joins" /\ thread[w] = "ended"
  /\ owner' = [owner EXCEPT ![w] = "gone"]
  /\ UNCHANGED <<vars, stop, thread, promise, future, taken, outcome, touched>>

(***************************************************************************)
(* The thread.                                                             *)
(***************************************************************************)
\* Mutant: nobody is told.
StoppedSilently(w) ==
  /\ thread[w] = "started" /\ stop[w]
  /\ thread' = [thread EXCEPT ![w] = "reported"]
  /\ UNCHANGED <<vars, owner, stop, promise, future, taken, outcome, touched>>

Stopped(w) ==
  /\ thread[w] = "started" /\ stop[w]
  /\ thread' = [thread EXCEPT ![w] = "reported"]
  /\ promise' = [promise EXCEPT ![w] = "stopped"]
  /\ UNCHANGED <<vars, owner, stop, future, taken, outcome, touched>>

Start(w) ==
  /\ thread[w] = "started" /\ ~stop[w]
  /\ CallRestoreNowhere(w) \/ \E s \in Snapshots : CallRestore(w, s)
  /\ thread' = [thread EXCEPT ![w] = "restores"]
  /\ UNCHANGED <<owner, stop, promise, future, taken, outcome, touched>>

\* A step of restore_snapshot.  The token is not looked at again.
Work(w) ==
  /\ thread[w] = "restores"
  /\ Step(w)
  /\ touched' = [touched EXCEPT ![w] = @ \/ directory' # directory]
  /\ UNCHANGED <<owner, stop, thread, promise, future, taken, outcome>>

\* Mutant: a stopped thread waits instead of reporting.
ReportUnlessStopped(w) ==
  /\ thread[w] = "restores" /\ ~stop[w]
  /\ Return(w)
  /\ promise' = [promise EXCEPT ![w] = result[w]]
  /\ outcome' = [outcome EXCEPT ![w] = result[w]]
  /\ thread' = [thread EXCEPT ![w] = "reported"]
  /\ UNCHANGED <<owner, stop, future, taken, touched>>

\* restore_snapshot returns and the promise is set: the result is ready.
Report(w) ==
  /\ thread[w] = "restores"
  /\ Return(w)
  /\ promise' = [promise EXCEPT ![w] = result[w]]
  /\ outcome' = [outcome EXCEPT ![w] = result[w]]
  /\ thread' = [thread EXCEPT ![w] = "reported"]
  /\ UNCHANGED <<owner, stop, future, taken, touched>>

\* The lambda returns, and its thread ends.
Ends(w) ==
  /\ thread[w] = "reported"
  /\ thread' = [thread EXCEPT ![w] = "ended"]
  /\ UNCHANGED <<vars, owner, stop, promise, future, taken, outcome, touched>>

Thread(w) == Stopped(w) \/ Start(w) \/ Work(w) \/ Report(w) \/ Ends(w)

Owner(w) == Construct(w) \/ RequestStop(w) \/ TryTake(w) \/ Destroy(w) \/ Join(w)

\* Bound: of the MaxCalls calls one is left for every worker yet to start.
RoomForCalls ==
  calls + Cardinality({w \in Workers : thread[w] \in {"none", "started"}}) < MaxCalls

\* The other actors call directly; what is outside goes on.
Elsewhere ==
  /\ \/ \E a \in Actors \ Workers :
          \/ \E s \in Snapshots : RoomForCalls /\ (CallRestore(a, s) \/ CallDelete(a, s))
          \/ CallRestoreNowhere(a) \/ CallDeleteLast(a) \/ Step(a) \/ Return(a) \/ Crash(a)
     \/ Outside
  /\ UNCHANGED handle

WNext == (\E w \in Workers : Thread(w) \/ Owner(w)) \/ Elsewhere

WSpec == WInit /\ [][WNext]_allVars

\* The thread runs by itself, but where it waits for the script.
Runs(w) == Thread(w) /\ pc[w] # "script"

\* The scheduler runs every worker's thread, and a join that can end ends.  A
\* script need not end; the owner need not do anything else, nor anybody else.
WorkersRun == \A w \in Workers : WF_allVars(Runs(w)) /\ WF_allVars(Join(w))

WFairSpec == WSpec /\ WorkersRun

(***************************************************************************)
(* Properties                                                              *)
(***************************************************************************)
\* The worker's variables stay in their types (the directory's: TypeOK).
WTypeOK ==
  /\ owner \in [Workers -> {"none", "holds", "joins", "gone"}]
  /\ stop \in [Workers -> BOOLEAN]
  /\ thread \in [Workers -> {"none", "started", "restores", "reported", "ended"}]
  /\ promise \in [Workers -> {"none", "ok", "stopped"} \cup Errors]
  /\ future \in [Workers -> BOOLEAN]
  /\ outcome \in [Workers -> {"none", "ok"} \cup Errors]
  /\ taken \in [Workers -> {"none", "ok", "stopped"} \cup Errors]
  /\ touched \in [Workers -> BOOLEAN]

\* try_take hands a result over at most once, and it is the one the restore
\* returned, or says "stopped" of a worker that has not touched the directory.
TakenOnceAndTrue ==
  \A w \in Workers :
    /\ taken[w] \in {"none", "stopped", outcome[w]}
    /\ taken[w] = "stopped" => ~touched[w]

\* Once a result has been taken or the destructor has returned, the worker
\* takes no more steps in the directory: the owner may restore or delete again.
NoLateStep ==
  [][\A w \in Workers : (taken[w] # "none" \/ owner[w] = "gone")
       => UNCHANGED <<pc[w], touched[w]>>]_allVars

\* What makes the two hold: the promise is set when the thread has nothing left
\* to do and not before, to what the restore returned if it was begun, and taken from a future
\* that is then gone.
Shape(w) ==
  /\ owner[w] = "none" <=> thread[w] = "none"
  /\ owner[w] # "holds" => ~future[w]
  /\ owner[w] = "gone" => thread[w] = "ended"
  /\ thread[w] \in {"none", "started"} => ~touched[w]
  /\ thread[w] # "restores" => pc[w] = "idle"
  /\ promise[w] # "none" <=> thread[w] \in {"reported", "ended"}
  /\ promise[w] = "stopped" => ~touched[w]
  /\ promise[w] \in {"none", "stopped", outcome[w]}
  /\ taken[w] # "none" => taken[w] = promise[w] /\ ~future[w]

WIInv == IInv /\ WTypeOK /\ \A w \in Workers : Shape(w)

\* run_command returns whenever the worker calls it.  Nothing in the code sees
\* to it: a script that closes its outputs and runs on is waited for without a
\* deadline.
ScriptReturns(w) == []<>(pc[w] # "script")

\* Unless its script hangs, the result of every worker that is kept becomes
\* ready, stopped or not and whatever the others do to the directory.
ResultArrives ==
  \A w \in Workers :
    ScriptReturns(w) =>
      (owner[w] = "holds" ~> Ready(w) \/ taken[w] # "none" \/ owner[w] # "holds")

\* Unless the script hangs, the destructor returns, whatever the restore is
\* doing when it is called.
DestructorReturns ==
  \A w \in Workers : ScriptReturns(w) => (owner[w] = "joins" ~> owner[w] = "gone")

(***************************************************************************)
(* A statement that does not hold.                                         *)
(***************************************************************************)
\* The destructor returns, whatever the script does.
DestructorAlwaysReturns == \A w \in Workers : owner[w] = "joins" ~> owner[w] = "gone"

=============================================================================

---------------------------- MODULE FrecencyStore ----------------------------
(***************************************************************************)
(* The frecency store of src/src/frecency_store.cpp and the visit recorder *)
(* of src/src/frecency_rank.cpp, as several processes use them at once:    *)
(* record_session_visit takes `<store>.lock`, loads the store, adds the    *)
(* visit, writes `<store>.tmp` and renames it over the store;              *)
(* load_ranked_sessions loads the store without the lock.  Any system call *)
(* may fail and any process may be killed between two of them.             *)
(***************************************************************************)
EXTENDS FrecencyIndex

CONSTANTS Procs,         \* processes that share the store
          Missing,       \* the content of a file that is not there
          Malformed,     \* the content of a file that does not parse
          Free,          \* nobody holds the lock file's flock
          FlushMayFail,  \* TRUE: the file system may fill up while saving
          InitialStores, \* what the store may hold at first
          MaxCalls,      \* bound: visits recorded in a behaviour
          MaxClock       \* bound: the last clock reading

ASSUME DistinctAssumption ==
  /\ Missing # Malformed
  /\ Missing \notin Indexes /\ Malformed \notin Indexes
  /\ Free \notin Procs
ASSUME InitialStoresAssumption ==
  InitialStores \subseteq Indexes \cup {Missing, Malformed}
ASSUME FlushAssumption == FlushMayFail \in BOOLEAN
ASSUME BoundsAssumption == MaxCalls \in Nat /\ MaxClock \in Nat

Files == Indexes \cup {Missing, Malformed}
Now == 0..MaxClock

NoCall == [op |-> "none"]
Record(n, t) == [op |-> "record", name |-> n, now |-> t]
Rank == [op |-> "rank"]
Calls == {NoCall, Rank} \cup {Record(n, t) : n \in Names, t \in Now}

VARIABLES
  clock,      \* unix_now()
  store,      \* the file at store_path
  tmp,        \* the file at store_path + ".tmp"
  lock,       \* the process whose descriptor holds the flock, or Free
  pc,         \* pc[p]: the next system call of p's call
  call,       \* call[p]: the call p is executing
  index,      \* index[p]: the Index local to p's call
  result,     \* result[p]: what the call is about to return
  \* History, read by no action:
  calls,      \* visits begun
  acked,      \* acked[n]: visits of n whose call returned success
  unsure,     \* unsure[n]: visits of n saved by a process killed before it returned
  base,       \* what load_index would have read at first
  lostFlush   \* a save's last write has been lost

control == <<lock, pc, call, index, result>>
history == <<calls, acked, unsure, base, lostFlush>>
vars == <<clock, store, tmp, control, history>>

View(file) == IF file = Missing THEN EmptyIndex
              ELSE IF file = Malformed THEN Malformed
              ELSE Loaded(file)

Init ==
  /\ clock = 0
  /\ store \in InitialStores
  /\ tmp = Missing
  /\ lock = Free
  /\ pc = [p \in Procs |-> "idle"]
  /\ call = [p \in Procs |-> NoCall]
  /\ index = [p \in Procs |-> EmptyIndex]
  /\ result = [p \in Procs |-> "none"]
  /\ calls = 0
  /\ acked = [n \in Names |-> 0]
  /\ unsure = [n \in Names |-> 0]
  /\ base = View(store)
  /\ lostFlush = FALSE

Tick == /\ clock < MaxClock
        /\ clock' = clock + 1
        /\ UNCHANGED <<store, tmp, control, history>>

Goto(p, from, to) == /\ pc[p] = from
                     /\ pc' = [pc EXCEPT ![p] = to]

\* Return `why` from wherever p is; the StoreLock, if p has one, is released
\* when the function is left (Return).
Finish(p, from, why) == /\ Goto(p, from, "return")
                        /\ result' = [result EXCEPT ![p] = why]

(***************************************************************************)
(* The calls.  The caller reads the clock before it calls.                 *)
(***************************************************************************)
CallRecord(p, n) ==
  /\ calls < MaxCalls
  /\ Goto(p, "idle", "lock")
  /\ call' = [call EXCEPT ![p] = Record(n, clock)]
  /\ calls' = calls + 1
  /\ UNCHANGED <<clock, store, tmp, lock, index, result, acked, unsure, base, lostFlush>>

CallRank(p) ==
  /\ Goto(p, "idle", "exists")
  /\ call' = [call EXCEPT ![p] = Rank]
  /\ UNCHANGED <<clock, store, tmp, lock, index, result, history>>

(***************************************************************************)
(* StoreLock::acquire: open the lock file, then flock(LOCK_EX | LOCK_NB).  *)
(***************************************************************************)
\* Mutant: the flock is not exclusive.
AcquireShared(p) ==
  /\ Goto(p, "lock", "exists")
  /\ lock' = p
  /\ UNCHANGED <<clock, store, tmp, call, index, result, history>>

Acquire(p) ==
  /\ Goto(p, "lock", "exists")
  /\ lock = Free
  /\ lock' = p
  /\ UNCHANGED <<clock, store, tmp, call, index, result, history>>

AcquireBusy(p) ==
  /\ lock # Free
  /\ Finish(p, "lock", "io")
  /\ UNCHANGED <<clock, store, tmp, lock, call, index, history>>

\* create_directories or open failed.
AcquireFails(p) ==
  /\ Finish(p, "lock", "io")
  /\ UNCHANGED <<clock, store, tmp, lock, call, index, history>>

(***************************************************************************)
(* load_index, then Index::visit when the call records.                    *)
(***************************************************************************)
AfterLoad(p) == IF call[p].op = "record" THEN "open" ELSE "return"

UseLoaded(p, i) ==
  /\ index' = [index EXCEPT ![p] = IF call[p].op = "record"
                                   THEN Visited(i, call[p].name, call[p].now)
                                   ELSE i]
  /\ result' = [result EXCEPT ![p] = IF call[p].op = "record" THEN @ ELSE "ok"]

ExistsNo(p) ==
  /\ store = Missing
  /\ Goto(p, "exists", AfterLoad(p))
  /\ UseLoaded(p, EmptyIndex)
  /\ UNCHANGED <<clock, store, tmp, lock, call, history>>

ExistsYes(p) ==
  /\ store # Missing
  /\ Goto(p, "exists", "read")
  /\ UNCHANGED <<clock, store, tmp, lock, call, index, result, history>>

\* The open file is the inode the name had when it was opened; a rename over
\* the name leaves that inode alone, so the body is read as of one instant.
ReadParses(p) ==
  /\ store \notin {Missing, Malformed}
  /\ Goto(p, "read", AfterLoad(p))
  /\ UseLoaded(p, Loaded(store))
  /\ UNCHANGED <<clock, store, tmp, lock, call, history>>

\* Mutant: a store that does not parse is taken for an empty one.
ReadMalformedAsEmpty(p) ==
  /\ store = Malformed
  /\ Goto(p, "read", AfterLoad(p))
  /\ UseLoaded(p, EmptyIndex)
  /\ UNCHANGED <<clock, store, tmp, lock, call, history>>

ReadMalformed(p) ==
  /\ store = Malformed
  /\ Finish(p, "read", "parse")
  /\ UNCHANGED <<clock, store, tmp, lock, call, index, history>>

\* exists() or open failed; a read that fails throws, and unlocks as well.
LoadFails(p) ==
  /\ \E from \in {"exists", "read"} : Finish(p, from, "io")
  /\ UNCHANGED <<clock, store, tmp, lock, call, index, history>>

(***************************************************************************)
(* save_index: truncate the temporary file, write it, rename it.           *)
(***************************************************************************)
\* Mutant: the store itself is opened with ios::trunc.
OpenInPlace(p) ==
  /\ Goto(p, "open", "write")
  /\ tmp' = Malformed
  /\ store' = Malformed
  /\ UNCHANGED <<clock, lock, call, index, result, history>>

OpenTmp(p) ==
  /\ Goto(p, "open", "write")
  /\ tmp' = Malformed
  /\ UNCHANGED <<clock, store, lock, call, index, result, history>>

\* create_directories or the open failed: nothing was truncated.
OpenTmpFails(p) ==
  /\ Finish(p, "open", "io")
  /\ UNCHANGED <<clock, store, tmp, lock, call, index, history>>

WriteTmp(p) ==
  /\ Goto(p, "write", "rename")
  /\ tmp' = index[p]
  /\ UNCHANGED <<clock, store, lock, call, index, result, history>>

\* `if (!out)` sees the failure: the torn temporary file stays behind.
WriteTmpFails(p) ==
  /\ Finish(p, "write", "io")
  /\ UNCHANGED <<clock, store, tmp, lock, call, index, history>>

\* What `out <<` only buffered is written by the destructor, after the check,
\* and the destructor drops the failure.
WriteTmpLost(p) ==
  /\ FlushMayFail
  /\ Goto(p, "write", "rename")
  /\ tmp' = Malformed
  /\ lostFlush' = TRUE
  /\ UNCHANGED <<clock, store, lock, call, index, result, calls, acked, unsure, base>>

RenameTmp(p) ==
  /\ Finish(p, "rename", "ok")
  /\ store' = tmp
  /\ tmp' = Missing
  /\ UNCHANGED <<clock, lock, call, index, history>>

\* Mutant: the rename's error code is ignored.
RenameErrorIgnored(p) ==
  /\ Finish(p, "rename", "ok")
  /\ tmp' \in {Missing, tmp}
  /\ UNCHANGED <<clock, store, lock, call, index, history>>

\* rename failed; remove(tmp) may fail too, and its error is dropped.
RenameFails(p) ==
  /\ Finish(p, "rename", "io")
  /\ tmp' \in {Missing, tmp}
  /\ UNCHANGED <<clock, store, lock, call, index, history>>

(***************************************************************************)
(* The end of a call: ~StoreLock unlocks, then the caller has its answer;  *)
(* or the process is killed, and the kernel drops its flock.               *)
(***************************************************************************)
\* Mutant: the lock is the file's existence and outlives its owner.
LeaveLocked(p) ==
  /\ pc' = [pc EXCEPT ![p] = "idle"]
  /\ call' = [call EXCEPT ![p] = NoCall]
  /\ index' = [index EXCEPT ![p] = EmptyIndex]
  /\ result' = [result EXCEPT ![p] = "none"]
  /\ UNCHANGED lock

Leave(p) ==
  /\ pc' = [pc EXCEPT ![p] = "idle"]
  /\ lock' = IF lock = p THEN Free ELSE lock
  /\ call' = [call EXCEPT ![p] = NoCall]
  /\ index' = [index EXCEPT ![p] = EmptyIndex]
  /\ result' = [result EXCEPT ![p] = "none"]

Saved(p, n) == call[p].op = "record" /\ call[p].name = n /\ result[p] = "ok"

Return(p) ==
  /\ pc[p] = "return"
  /\ Leave(p)
  /\ acked' = [n \in Names |-> IF Saved(p, n) THEN acked[n] + 1 ELSE acked[n]]
  /\ UNCHANGED <<clock, store, tmp, calls, unsure, base, lostFlush>>

Crash(p) ==
  /\ pc[p] # "idle"
  /\ Leave(p)
  /\ unsure' = [n \in Names |-> IF Saved(p, n) THEN unsure[n] + 1 ELSE unsure[n]]
  /\ UNCHANGED <<clock, store, tmp, calls, acked, base, lostFlush>>

StoreLockStep(p) == Acquire(p) \/ AcquireBusy(p) \/ AcquireFails(p)
LoadIndex(p) == \/ ExistsNo(p) \/ ExistsYes(p)
                \/ ReadParses(p) \/ ReadMalformed(p) \/ LoadFails(p)
SaveIndex(p) == \/ OpenTmp(p) \/ OpenTmpFails(p)
                \/ WriteTmp(p) \/ WriteTmpFails(p) \/ WriteTmpLost(p)
                \/ RenameTmp(p) \/ RenameFails(p)
Step(p) == StoreLockStep(p) \/ LoadIndex(p) \/ SaveIndex(p) \/ Return(p)

Next == \/ Tick
        \/ \E p \in Procs : \/ \E n \in Names : CallRecord(p, n)
                            \/ CallRank(p)
                            \/ Step(p)
                            \/ Crash(p)

Spec == Init /\ [][Next]_vars

\* A process inside a call keeps executing it: no step of a call waits, the
\* lock is only tried (LOCK_NB).
FairSpec == Spec /\ \A p \in Procs : WF_vars(Step(p))

-----------------------------------------------------------------------------
TypeOK ==
  /\ clock \in Now
  /\ store \in Files
  /\ tmp \in InMemory \cup {Missing, Malformed}
  /\ lock \in Procs \cup {Free}
  /\ pc \in [Procs -> {"idle", "lock", "exists", "read", "open", "write", "rename", "return"}]
  /\ call \in [Procs -> Calls]
  /\ index \in [Procs -> InMemory]
  /\ result \in [Procs -> {"none", "ok", "io", "parse"}]
  /\ calls \in Nat
  /\ acked \in [Names -> Nat]
  /\ unsure \in [Names -> Nat]
  /\ base \in InMemory \cup {Malformed}
  /\ lostFlush \in BOOLEAN

\* A visit that is saved but whose call has neither returned nor died.  Its
\* process still holds the lock, so there is at most one.
InFlight(n) ==
  IF lock # Free /\ pc[lock] = "return" /\ Saved(lock, n) THEN 1 ELSE 0

\* Every acknowledged visit is in the store, once, and so is every visit of a
\* process killed after its rename; a call that returned an error left no trace
\* (record_session_visit loads, visits and saves under one lock).
ExactlyOnce ==
  store # Malformed =>
    /\ base # Malformed
    /\ \A n \in Names :
         View(store)[n].visits =
           Saturate(base[n].visits + acked[n] + unsure[n] + InFlight(n))

\* No crash and no interleaving leaves a store that does not parse: it was
\* malformed from the start, or a write error was dropped (save_index's
\* temp-file-and-rename update).
NeverTorn == store = Malformed => base = Malformed \/ lostFlush

\* What a save is about to write is the current store plus this visit: nothing
\* was saved by anyone between its load and its rename (the lock spans both).
SaveIsCurrent ==
  \A p \in Procs :
    pc[p] \in {"open", "write", "rename"}
      => /\ store # Malformed
         /\ index[p] = Visited(View(store), call[p].name, call[p].now)

\* Nobody else touches the shared temporary file between a save's write and
\* its rename.
TmpIsMine ==
  \A p \in Procs :
    pc[p] = "rename" => tmp = index[p] \/ (tmp = Malformed /\ lostFlush)

\* A reader that gets a parse error was given a store that really is malformed,
\* never a half-written one (load_ranked_sessions takes no lock).
ParseErrorIsReal ==
  \A p \in Procs : result[p] = "parse" => store = Malformed

\* A malformed store is reported and kept, never replaced by a fresh index
\* (test RecordSessionVisitMalformedStoreDoesNotDiscardFile).
MalformedIsKept == [][store = Malformed => store' = Malformed]_store

\* A failed visit, a busy lock or a dead holder never leaves the store locked
\* (~StoreLock, and flock's release at process death).
LockIsReleased == \A p \in Procs : lock = p ~> lock # p

(***************************************************************************)
(* Two statements of the headers that do not hold.                         *)
(***************************************************************************)
\* "last_used is the most recent visit timestamp" (frecency.hpp): a visit never
\* moves a row's last_used back.  It does if the clock was read before another
\* visit took the lock.
LastUsedIsMostRecent ==
  [][\A n \in Names :
       store \in Indexes /\ store' \in Indexes
         => store'[n].last_used >= store[n].last_used]_store

\* "Empty success on write and rename" (frecency_store.hpp): when a save says
\* it succeeded, the file it renamed into place holds the index.  It need not
\* when the write error shows only as the stream is closed.
SuccessMeansWritten ==
  \A p \in Procs :
    pc[p] = "return" /\ call[p].op = "record" /\ result[p] = "ok" => store = index[p]

-----------------------------------------------------------------------------
(***************************************************************************)
(* The inductive invariant of the proofs: the safety properties above, and *)
(* how control, the lock and the pending result go together.               *)
(***************************************************************************)
\* The lock covers load, visit and save, and is kept until the call returns.
LockCovers ==
  \A p \in Procs :
    (/\ call[p].op = "record"
     /\ \/ pc[p] \in {"exists", "read", "open", "write", "rename"}
        \/ pc[p] = "return" /\ result[p] = "ok")
      => lock = p

ControlShape ==
  \A p \in Procs :
    /\ pc[p] = "idle" => call[p].op = "none"
    /\ pc[p] \in {"exists", "read", "return"} => call[p].op \in {"record", "rank"}
    /\ pc[p] \in {"lock", "open", "write", "rename"} => call[p].op = "record"
    /\ (result[p] = "none") <=> (pc[p] # "return")

IInv == /\ TypeOK /\ LockCovers /\ ControlShape
        /\ SaveIsCurrent /\ TmpIsMine /\ NeverTorn /\ ParseErrorIsReal
        /\ ExactlyOnce

-----------------------------------------------------------------------------
(***************************************************************************)
(* The store implements FrecencySpec.                                      *)
(***************************************************************************)
PhaseOf(p) ==
  CASE pc[p] = "idle" -> [at |-> "idle"]
    [] pc[p] = "return" /\ result[p] # "ok" -> [at |-> "failed"]
    [] pc[p] = "return" /\ result[p] = "ok" /\ call[p].op = "record"
         -> [at |-> "recorded"]
    [] pc[p] = "return" /\ result[p] = "ok" /\ call[p].op = "rank"
         -> [at |-> "ranked", index |-> index[p]]
    [] pc[p] # "idle" /\ pc[p] # "return" /\ call[p].op = "rank"
         -> [at |-> "reading"]
    [] OTHER -> [at |-> "recording", name |-> call[p].name, now |-> call[p].now]

Promise == INSTANCE FrecencySpec
             WITH persisted <- View(store), phase <- [p \in Procs |-> PhaseOf(p)]
Implements == Promise!SSpec

=============================================================================

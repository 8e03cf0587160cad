------------------------ MODULE FrecencyStore_proofs -------------------------
(***************************************************************************)
(* Proofs about FrecencyStore, for any number of processes and sessions,   *)
(* any U32Max, any initial stores and with or without lost writes.         *)
(***************************************************************************)
EXTENDS FrecencyStore, TLAPS

(***************************************************************************)
(* The operators the store is built from.                                  *)
(***************************************************************************)
LEMMA EmptyInMemory == EmptyIndex \in InMemory /\ EmptyIndex \in Indexes
  BY U32MaxAssumption DEF EmptyIndex, InMemory, Indexes, Entries

LEMMA InMemoryIsFile == InMemory \subseteq Indexes
  BY U32MaxAssumption DEF InMemory, Indexes, Entries

LEMMA ModFits == ASSUME NEW v \in Nat PROVE v % (U32Max + 1) \in 0..U32Max
  BY U32MaxAssumption, SMT

LEMMA ModSmall == ASSUME NEW v \in 0..U32Max PROVE v % (U32Max + 1) = v
  BY U32MaxAssumption, SMT

\* parse_entries yields an index that fits uint32_t, whatever the file says.
LEMMA LoadedFits == ASSUME NEW i \in Indexes PROVE Loaded(i) \in InMemory
  <1>1. ASSUME NEW n \in Names
        PROVE [i[n] EXCEPT !.visits = @ % (U32Max + 1)]
                \in [visits : 0..U32Max, last_used : Int]
    <2>1. i[n] \in Entries
      BY DEF Indexes
    <2>2. i[n].visits \in Nat
      BY <2>1 DEF Entries
    <2>3. i[n].visits % (U32Max + 1) \in 0..U32Max
      BY <2>2, ModFits
    <2> QED
      BY <2>1, <2>3 DEF Entries
  <1> QED
    BY <1>1 DEF Loaded, InMemory

\* Saving an index and loading it back gives the same index.
LEMMA LoadedSaved == ASSUME NEW i \in InMemory PROVE Loaded(i) = i
  <1>1. ASSUME NEW n \in Names
        PROVE [i[n] EXCEPT !.visits = @ % (U32Max + 1)] = i[n]
    <2>1. i[n] \in [visits : 0..U32Max, last_used : Int]
      BY DEF InMemory
    <2>2. i[n].visits % (U32Max + 1) = i[n].visits
      BY <2>1, ModSmall
    <2> QED
      BY <2>1, <2>2
  <1> QED
    BY <1>1 DEF Loaded, InMemory

LEMMA VisitedFits ==
  ASSUME NEW i \in InMemory, NEW n \in Names, NEW t \in Int
  PROVE  Visited(i, n, t) \in InMemory
  BY U32MaxAssumption DEF Visited, InMemory

\* One visit adds one to its session, up to the ceiling, and to no other.
LEMMA VisitedCounts ==
  ASSUME NEW i \in InMemory, NEW n \in Names, NEW t \in Int,
         NEW m \in Names, NEW k \in Nat, i[m].visits = Saturate(k)
  PROVE  Visited(i, n, t)[m].visits = Saturate(IF m = n THEN k + 1 ELSE k)
  BY U32MaxAssumption DEF Visited, InMemory, Saturate

LEMMA ViewFits ==
  ASSUME NEW file \in Files
  PROVE  /\ View(file) \in InMemory \cup {Malformed}
         /\ file # Malformed => View(file) \in InMemory
         /\ file # Malformed => View(file) # Malformed
  <1>1. CASE file = Missing
    BY <1>1, EmptyInMemory, DistinctAssumption DEF View
  <1>2. CASE file = Malformed
    BY <1>2, DistinctAssumption DEF View
  <1>3. CASE file \in Indexes
    <2>1. Loaded(file) \in InMemory
      BY <1>3, LoadedFits
    <2> QED
      BY <1>3, <2>1, DistinctAssumption, InMemoryIsFile DEF View
  <1> QED
    BY <1>1, <1>2, <1>3 DEF Files

LEMMA RecordCall ==
  ASSUME NEW c \in Calls, c.op = "record"
  PROVE  c.name \in Names /\ c.now \in Now /\ c.now \in Int
  BY BoundsAssumption DEF Calls, NoCall, Rank, Record, Now

-----------------------------------------------------------------------------
(***************************************************************************)
(* Typing.                                                                 *)
(***************************************************************************)
LEMMA InitTypeOK == Init => TypeOK
  <1> SUFFICES ASSUME Init PROVE TypeOK
    OBVIOUS
  <1>1. store \in Files
    BY InitialStoresAssumption DEF Init, Files
  <1>2. base \in InMemory \cup {Malformed}
    BY <1>1, ViewFits DEF Init
  <1>3. clock \in Now
    BY BoundsAssumption DEF Init, Now
  <1>4. NoCall \in Calls
    BY DEF Calls
  <1> QED
    BY <1>1, <1>2, <1>3, <1>4, EmptyInMemory DEF Init, TypeOK

LEMMA UseLoadedTypes ==
  ASSUME TypeOK, NEW p \in Procs, NEW i \in InMemory, UseLoaded(p, i)
  PROVE  /\ index' \in [Procs -> InMemory]
         /\ result' \in [Procs -> {"none", "ok", "io", "parse"}]
  <1>1. CASE call[p].op = "record"
    <2>1. call[p].name \in Names /\ call[p].now \in Int
      BY <1>1, RecordCall DEF TypeOK
    <2>2. Visited(i, call[p].name, call[p].now) \in InMemory
      BY <2>1, VisitedFits
    <2> QED
      BY <1>1, <2>2 DEF TypeOK, UseLoaded
  <1>2. CASE call[p].op # "record"
    BY <1>2 DEF TypeOK, UseLoaded
  <1> QED
    BY <1>1, <1>2

LEMMA NextTypeOK == TypeOK /\ [Next]_vars => TypeOK'
  <1> SUFFICES ASSUME TypeOK, [Next]_vars PROVE TypeOK'
    OBVIOUS
  <1> USE DEF control, history
  <1>1. CASE Tick
    BY <1>1, BoundsAssumption DEF Tick, TypeOK, Now
  <1>2. ASSUME NEW p \in Procs, NEW n \in Names, CallRecord(p, n) PROVE TypeOK'
    <2>1. Record(n, clock) \in Calls
      BY DEF TypeOK, Calls
    <2> QED
      BY <1>2, <2>1 DEF CallRecord, Goto, TypeOK
  <1>3. ASSUME NEW p \in Procs, CallRank(p) PROVE TypeOK'
    <2>1. Rank \in Calls
      BY DEF Calls
    <2> QED
      BY <1>3, <2>1 DEF CallRank, Goto, TypeOK
  <1>4. ASSUME NEW p \in Procs, StoreLockStep(p) PROVE TypeOK'
    BY <1>4 DEF StoreLockStep, Acquire, AcquireBusy, AcquireFails, Finish, Goto, TypeOK
  <1>5. ASSUME NEW p \in Procs, LoadIndex(p) PROVE TypeOK'
    <2>1. AfterLoad(p) \in {"open", "return"}
      BY DEF AfterLoad
    <2>2. CASE ExistsNo(p)
      <3>1. /\ index' \in [Procs -> InMemory]
            /\ result' \in [Procs -> {"none", "ok", "io", "parse"}]
        BY <2>2, EmptyInMemory, UseLoadedTypes DEF ExistsNo
      <3> QED
        BY <2>1, <2>2, <3>1 DEF ExistsNo, Goto, TypeOK
    <2>3. CASE ReadParses(p)
      <3>1. Loaded(store) \in InMemory
        BY <2>3, LoadedFits DEF ReadParses, TypeOK, Files
      <3>2. /\ index' \in [Procs -> InMemory]
            /\ result' \in [Procs -> {"none", "ok", "io", "parse"}]
        BY <2>3, <3>1, UseLoadedTypes DEF ReadParses
      <3> QED
        BY <2>1, <2>3, <3>2 DEF ReadParses, Goto, TypeOK
    <2>4. CASE ExistsYes(p) \/ ReadMalformed(p) \/ LoadFails(p)
      BY <2>4 DEF ExistsYes, ReadMalformed, LoadFails, Finish, Goto, TypeOK
    <2> QED
      BY <1>5, <2>2, <2>3, <2>4 DEF LoadIndex
  <1>6. ASSUME NEW p \in Procs, SaveIndex(p) PROVE TypeOK'
    <2>1. CASE RenameTmp(p)
      BY <2>1, InMemoryIsFile DEF RenameTmp, Finish, Goto, TypeOK, Files
    <2>2. CASE OpenTmp(p) \/ WriteTmpLost(p)
      BY <2>2 DEF OpenTmp, WriteTmpLost, Goto, TypeOK
    <2>3. CASE WriteTmp(p)
      BY <2>3 DEF WriteTmp, Goto, TypeOK
    <2>4. CASE OpenTmpFails(p) \/ WriteTmpFails(p) \/ RenameFails(p)
      BY <2>4 DEF OpenTmpFails, WriteTmpFails, RenameFails, Finish, Goto, TypeOK
    <2> QED
      BY <1>6, <2>1, <2>2, <2>3, <2>4 DEF SaveIndex
  <1>7. ASSUME NEW p \in Procs, Return(p) \/ Crash(p) PROVE TypeOK'
    <2>1. NoCall \in Calls
      BY DEF Calls
    <2>2. Leave(p)
      BY <1>7 DEF Return, Crash
    <2>3. /\ acked' \in [Names -> Nat]
          /\ unsure' \in [Names -> Nat]
      BY <1>7 DEF Return, Crash, TypeOK
    <2> QED
      BY <1>7, <2>1, <2>2, <2>3, EmptyInMemory DEF Return, Crash, Leave, TypeOK
  <1>8. CASE UNCHANGED vars
    BY <1>8 DEF vars, TypeOK
  <1> QED
    BY <1>1, <1>2, <1>3, <1>4, <1>5, <1>6, <1>7, <1>8 DEF Next, Step

\* Every variable stays in its type: in particular no visit count outgrows
\* uint32_t in memory or in a saved file.
THEOREM TypeCorrect == Spec => []TypeOK
  BY InitTypeOK, NextTypeOK, PTL DEF Spec

-----------------------------------------------------------------------------
(***************************************************************************)
(* Control: where a call is, whether it holds the lock.                    *)
(***************************************************************************)
LEMMA InitControl == Init => LockCovers /\ ControlShape
  BY DEF Init, LockCovers, ControlShape, NoCall

LEMMA NextControl ==
  ASSUME TypeOK, LockCovers, ControlShape, [Next]_vars
  PROVE  LockCovers' /\ ControlShape'
  <1> USE DEF control, history
  <1>0. lock \in Procs => lock # Free
    BY DistinctAssumption
  <1>1. CASE Tick
    BY <1>1 DEF Tick, LockCovers, ControlShape
  <1>2. ASSUME NEW p \in Procs, NEW n \in Names, CallRecord(p, n)
        PROVE LockCovers' /\ ControlShape'
    BY <1>2 DEF CallRecord, Goto, Record, TypeOK, LockCovers, ControlShape
  <1>3. ASSUME NEW p \in Procs, CallRank(p) PROVE LockCovers' /\ ControlShape'
    BY <1>3 DEF CallRank, Goto, Rank, TypeOK, LockCovers, ControlShape
  <1>4. ASSUME NEW p \in Procs, StoreLockStep(p) PROVE LockCovers' /\ ControlShape'
    <2>1. CASE Acquire(p)
      BY <2>1, <1>0 DEF Acquire, Goto, TypeOK, LockCovers, ControlShape
    <2>2. CASE AcquireBusy(p) \/ AcquireFails(p)
      BY <2>2 DEF AcquireBusy, AcquireFails, Finish, Goto, TypeOK, LockCovers, ControlShape
    <2> QED
      BY <1>4, <2>1, <2>2 DEF StoreLockStep
  <1>5. ASSUME NEW p \in Procs, LoadIndex(p) PROVE LockCovers' /\ ControlShape'
    <2>1. CASE ExistsNo(p)
      BY <2>1 DEF ExistsNo, UseLoaded, AfterLoad, Goto, TypeOK, LockCovers, ControlShape
    <2>2. CASE ReadParses(p)
      BY <2>2 DEF ReadParses, UseLoaded, AfterLoad, Goto, TypeOK, LockCovers, ControlShape
    <2>3. CASE ExistsYes(p)
      BY <2>3 DEF ExistsYes, Goto, TypeOK, LockCovers, ControlShape
    <2>4. CASE ReadMalformed(p) \/ LoadFails(p)
      BY <2>4 DEF ReadMalformed, LoadFails, Finish, Goto, TypeOK, LockCovers, ControlShape
    <2> QED
      BY <1>5, <2>1, <2>2, <2>3, <2>4 DEF LoadIndex
  <1>6. ASSUME NEW p \in Procs, SaveIndex(p) PROVE LockCovers' /\ ControlShape'
    <2>1. CASE OpenTmp(p) \/ WriteTmp(p) \/ WriteTmpLost(p)
      BY <2>1 DEF OpenTmp, WriteTmp, WriteTmpLost, Goto, TypeOK, LockCovers, ControlShape
    <2>2. CASE OpenTmpFails(p) \/ WriteTmpFails(p) \/ RenameFails(p)
      BY <2>2 DEF OpenTmpFails, WriteTmpFails, RenameFails, Finish, Goto, TypeOK,
                  LockCovers, ControlShape
    <2>3. CASE RenameTmp(p)
      BY <2>3 DEF RenameTmp, Finish, Goto, TypeOK, LockCovers, ControlShape
    <2> QED
      BY <1>6, <2>1, <2>2, <2>3 DEF SaveIndex
  <1>7. ASSUME NEW p \in Procs, Return(p) \/ Crash(p) PROVE LockCovers' /\ ControlShape'
    <2>1. Leave(p)
      BY <1>7 DEF Return, Crash
    <2> QED
      BY <2>1 DEF Leave, NoCall, TypeOK, LockCovers, ControlShape
  <1>8. CASE UNCHANGED vars
    BY <1>8 DEF vars, LockCovers, ControlShape
  <1> QED
    BY <1>1, <1>2, <1>3, <1>4, <1>5, <1>6, <1>7, <1>8 DEF Next, Step

-----------------------------------------------------------------------------
(***************************************************************************)
(* Saving: a save writes the current store plus one visit, and what is     *)
(* renamed into place is what was written.                                 *)
(***************************************************************************)
Saving == SaveIsCurrent /\ TmpIsMine /\ NeverTorn /\ ParseErrorIsReal

\* Two processes that are both past the lock, recording, are the same one.
LEMMA OneWriter ==
  ASSUME LockCovers, ControlShape, NEW p \in Procs, NEW q \in Procs,
         pc[p] \in {"open", "write", "rename"}, pc[q] \in {"open", "write", "rename"}
  PROVE  p = q
  BY DEF LockCovers, ControlShape

LEMMA InitSaving == Init => Saving
  BY DistinctAssumption
  DEF Init, Saving, SaveIsCurrent, TmpIsMine, NeverTorn, ParseErrorIsReal, View

LEMMA NextSaving ==
  ASSUME TypeOK, LockCovers, ControlShape, Saving, [Next]_vars
  PROVE  Saving'
  <1> USE DEF control, history
  <1>1. CASE Tick
    BY <1>1 DEF Tick, Saving, SaveIsCurrent, TmpIsMine, NeverTorn, ParseErrorIsReal
  <1>2. ASSUME NEW p \in Procs, NEW n \in Names, CallRecord(p, n) PROVE Saving'
    BY <1>2 DEF CallRecord, Goto, TypeOK,
                Saving, SaveIsCurrent, TmpIsMine, NeverTorn, ParseErrorIsReal
  <1>3. ASSUME NEW p \in Procs, CallRank(p) PROVE Saving'
    BY <1>3 DEF CallRank, Goto, TypeOK,
                Saving, SaveIsCurrent, TmpIsMine, NeverTorn, ParseErrorIsReal
  <1>4. ASSUME NEW p \in Procs, StoreLockStep(p) PROVE Saving'
    BY <1>4 DEF StoreLockStep, Acquire, AcquireBusy, AcquireFails, Finish, Goto, TypeOK,
                Saving, SaveIsCurrent, TmpIsMine, NeverTorn, ParseErrorIsReal
  <1>5. ASSUME NEW p \in Procs, LoadIndex(p) PROVE Saving'
    <2>1. CASE ExistsNo(p)
      <3>1. View(store) = EmptyIndex /\ store # Malformed
        BY <2>1, DistinctAssumption DEF ExistsNo, View
      <3>2. SaveIsCurrent'
        BY <2>1, <3>1 DEF ExistsNo, UseLoaded, AfterLoad, Goto, TypeOK, Saving, SaveIsCurrent, View
      <3> QED
        BY <2>1, <3>2 DEF ExistsNo, UseLoaded, AfterLoad, Goto, TypeOK,
                          Saving, TmpIsMine, NeverTorn, ParseErrorIsReal
    <2>2. CASE ReadParses(p)
      <3>1. View(store) = Loaded(store) /\ store # Malformed
        BY <2>2 DEF ReadParses, View
      <3>2. SaveIsCurrent'
        BY <2>2, <3>1 DEF ReadParses, UseLoaded, AfterLoad, Goto, TypeOK, Saving, SaveIsCurrent, View
      <3> QED
        BY <2>2, <3>2 DEF ReadParses, UseLoaded, AfterLoad, Goto, TypeOK,
                          Saving, TmpIsMine, NeverTorn, ParseErrorIsReal
    <2>3. CASE ExistsYes(p) \/ ReadMalformed(p) \/ LoadFails(p)
      BY <2>3 DEF ExistsYes, ReadMalformed, LoadFails, Finish, Goto, TypeOK,
                  Saving, SaveIsCurrent, TmpIsMine, NeverTorn, ParseErrorIsReal
    <2> QED
      BY <1>5, <2>1, <2>2, <2>3 DEF LoadIndex
  <1>6. ASSUME NEW p \in Procs, SaveIndex(p) PROVE Saving'
    <2>1. CASE OpenTmp(p) \/ WriteTmp(p) \/ WriteTmpLost(p)
      <3>1. \A q \in Procs : pc[q] \in {"open", "write", "rename"} => q = p
        BY <2>1, OneWriter DEF OpenTmp, WriteTmp, WriteTmpLost, Goto
      <3> QED
        BY <2>1, <3>1 DEF OpenTmp, WriteTmp, WriteTmpLost, Goto, TypeOK,
                  Saving, SaveIsCurrent, TmpIsMine, NeverTorn, ParseErrorIsReal
    <2>2. CASE OpenTmpFails(p) \/ WriteTmpFails(p)
      BY <2>2 DEF OpenTmpFails, WriteTmpFails, Finish, Goto, TypeOK,
                  Saving, SaveIsCurrent, TmpIsMine, NeverTorn, ParseErrorIsReal
    <2>3. CASE RenameTmp(p) \/ RenameFails(p)
      <3>1. \A q \in Procs : pc[q] \in {"open", "write", "rename"} => q = p
        BY <2>3, OneWriter DEF RenameTmp, RenameFails, Finish, Goto
      <3>2. \A q \in Procs : pc'[q] \notin {"open", "write", "rename"}
        BY <2>3, <3>1 DEF RenameTmp, RenameFails, Finish, Goto, TypeOK
      <3>3. SaveIsCurrent' /\ TmpIsMine'
        BY <3>2 DEF SaveIsCurrent, TmpIsMine
      <3>4. store # Malformed
        BY <2>3 DEF RenameTmp, RenameFails, Finish, Goto, Saving, SaveIsCurrent
      <3>5. ParseErrorIsReal'
        BY <2>3, <3>4 DEF RenameTmp, RenameFails, Finish, Goto, TypeOK, Saving, ParseErrorIsReal
      <3>6. NeverTorn'
        <4>1. index[p] # Malformed
          BY DistinctAssumption, InMemoryIsFile DEF TypeOK
        <4> QED
          BY <2>3, <4>1 DEF RenameTmp, RenameFails, Finish, Goto, Saving, NeverTorn, TmpIsMine
      <3> QED
        BY <3>3, <3>5, <3>6 DEF Saving
    <2> QED
      BY <1>6, <2>1, <2>2, <2>3 DEF SaveIndex
  <1>7. ASSUME NEW p \in Procs, Return(p) \/ Crash(p) PROVE Saving'
    BY <1>7 DEF Return, Crash, Leave, TypeOK,
                Saving, SaveIsCurrent, TmpIsMine, NeverTorn, ParseErrorIsReal
  <1>8. CASE UNCHANGED vars
    BY <1>8 DEF vars, Saving, SaveIsCurrent, TmpIsMine, NeverTorn, ParseErrorIsReal
  <1> QED
    BY <1>1, <1>2, <1>3, <1>4, <1>5, <1>6, <1>7, <1>8 DEF Next, Step

-----------------------------------------------------------------------------
(***************************************************************************)
(* Counting: the store holds exactly the visits that took effect.          *)
(***************************************************************************)
Counted(n) == base[n].visits + acked[n] + unsure[n] + InFlight(n)

LEMMA CountedIsNat ==
  ASSUME TypeOK, base # Malformed, NEW n \in Names
  PROVE  Counted(n) \in Nat /\ InFlight(n) \in {0, 1}
  <1>1. base[n].visits \in Nat
    BY U32MaxAssumption DEF TypeOK, InMemory
  <1>2. acked[n] \in Nat /\ unsure[n] \in Nat
    BY DEF TypeOK
  <1>3. InFlight(n) \in {0, 1}
    BY DEF InFlight
  <1> QED
    BY <1>1, <1>2, <1>3 DEF Counted

LEMMA InitExactlyOnce == Init => ExactlyOnce
  <1> SUFFICES ASSUME Init, store # Malformed PROVE ExactlyOnce
    BY DEF ExactlyOnce
  <1>1. store \in Files
    BY InitialStoresAssumption DEF Init, Files
  <1>2. View(store) \in InMemory /\ View(store) # Malformed
    BY <1>1, ViewFits
  <1>3. ASSUME NEW n \in Names
        PROVE View(store)[n].visits =
                Saturate(base[n].visits + acked[n] + unsure[n] + InFlight(n))
    <2>1. View(store)[n].visits \in 0..U32Max
      BY <1>2 DEF InMemory
    <2>2. InFlight(n) = 0 /\ acked[n] = 0 /\ unsure[n] = 0 /\ base = View(store)
      BY DEF Init, InFlight
    <2> QED
      BY <2>1, <2>2, U32MaxAssumption DEF Saturate
  <1> QED
    BY <1>2, <1>3 DEF ExactlyOnce, Init

\* A step that leaves the store and the counts alone.
LEMMA ExactlyOnceStutters ==
  ASSUME ExactlyOnce, UNCHANGED <<store, base>>,
         \A n \in Names : Counted(n)' = Counted(n)
  PROVE  ExactlyOnce'
  BY DEF ExactlyOnce, Counted, View

LEMMA NextExactlyOnce ==
  ASSUME TypeOK, TypeOK', LockCovers, ControlShape, Saving, ExactlyOnce, [Next]_vars
  PROVE  ExactlyOnce'
  <1> USE DEF control, history
  <1>0. \A q \in Procs : lock # Free /\ lock \in Procs => Free # q
    BY DistinctAssumption
  <1>1. CASE Tick \/ UNCHANGED vars
    BY <1>1, ExactlyOnceStutters DEF Tick, vars, Counted, InFlight, Saved
  <1>2. ASSUME NEW p \in Procs, NEW n \in Names, CallRecord(p, n) PROVE ExactlyOnce'
    BY <1>2, ExactlyOnceStutters
    DEF CallRecord, Goto, TypeOK, Counted, InFlight, Saved, ControlShape
  <1>3. ASSUME NEW p \in Procs, CallRank(p) PROVE ExactlyOnce'
    BY <1>3, ExactlyOnceStutters
    DEF CallRank, Goto, Rank, TypeOK, Counted, InFlight, Saved, ControlShape
  <1>4. ASSUME NEW p \in Procs, StoreLockStep(p) PROVE ExactlyOnce'
    <2>1. CASE Acquire(p)
      BY <2>1, ExactlyOnceStutters DEF Acquire, Goto, TypeOK, Counted, InFlight, Saved
    <2>2. CASE AcquireBusy(p) \/ AcquireFails(p)
      BY <2>2, ExactlyOnceStutters
      DEF AcquireBusy, AcquireFails, Finish, Goto, TypeOK, Counted, InFlight, Saved
    <2> QED
      BY <1>4, <2>1, <2>2 DEF StoreLockStep
  <1>5. ASSUME NEW p \in Procs, LoadIndex(p) PROVE ExactlyOnce'
    <2>1. CASE ExistsNo(p) \/ ReadParses(p)
      BY <2>1, ExactlyOnceStutters
      DEF ExistsNo, ReadParses, UseLoaded, AfterLoad, Goto, TypeOK, Counted, InFlight, Saved
    <2>2. CASE ExistsYes(p)
      BY <2>2, ExactlyOnceStutters DEF ExistsYes, Goto, TypeOK, Counted, InFlight, Saved
    <2>3. CASE ReadMalformed(p) \/ LoadFails(p)
      BY <2>3, ExactlyOnceStutters
      DEF ReadMalformed, LoadFails, Finish, Goto, TypeOK, Counted, InFlight, Saved
    <2> QED
      BY <1>5, <2>1, <2>2, <2>3 DEF LoadIndex
  <1>6. ASSUME NEW p \in Procs, SaveIndex(p) PROVE ExactlyOnce'
    <2>1. CASE OpenTmp(p) \/ WriteTmp(p) \/ WriteTmpLost(p)
      BY <2>1, ExactlyOnceStutters
      DEF OpenTmp, WriteTmp, WriteTmpLost, Goto, TypeOK, Counted, InFlight, Saved
    <2>2. CASE OpenTmpFails(p) \/ WriteTmpFails(p) \/ RenameFails(p)
      BY <2>2, ExactlyOnceStutters
      DEF OpenTmpFails, WriteTmpFails, RenameFails, Finish, Goto, TypeOK,
          Counted, InFlight, Saved
    <2>3. CASE RenameTmp(p)
      <3> SUFFICES ASSUME store' # Malformed PROVE ExactlyOnce'
        BY DEF ExactlyOnce
      <3> DEFINE m == call[p].name
      <3>1. /\ pc[p] = "rename" /\ call[p].op = "record" /\ lock = p /\ p # Free
            /\ m \in Names /\ call[p].now \in Int
        BY <2>3, DistinctAssumption, RecordCall
        DEF RenameTmp, Finish, Goto, LockCovers, ControlShape, TypeOK
      <3>2. store # Malformed /\ View(store) \in InMemory /\ base # Malformed
        BY <3>1, ViewFits DEF Saving, SaveIsCurrent, TypeOK, ExactlyOnce
      <3>3. store' = Visited(View(store), m, call[p].now)
        BY <2>3, <3>1 DEF RenameTmp, Saving, SaveIsCurrent, TmpIsMine
      <3>4. store' \in InMemory
        BY <3>1, <3>2, <3>3, VisitedFits
      <3>5. View(store)' = store'
        BY <3>4, LoadedSaved, InMemoryIsFile, DistinctAssumption DEF View
      <3>6. ASSUME NEW n \in Names
            PROVE View(store)'[n].visits = Saturate(Counted(n)')
        <4>1. Counted(n) \in Nat /\ View(store)[n].visits = Saturate(Counted(n))
          BY <3>2, CountedIsNat DEF ExactlyOnce, Counted
        <4>2. Counted(n)' = IF n = m THEN Counted(n) + 1 ELSE Counted(n)
          <5>1. InFlight(n) = 0
            BY <3>1 DEF InFlight
          <5>2. InFlight(n)' = IF n = m THEN 1 ELSE 0
            BY <2>3, <3>1 DEF RenameTmp, Finish, Goto, TypeOK, InFlight, Saved
          <5>3. Counted(n) = base[n].visits + acked[n] + unsure[n]
            BY <4>1, <5>1, <3>2, U32MaxAssumption DEF Counted, TypeOK, InMemory
          <5>4. Counted(n)' = base[n].visits + acked[n] + unsure[n] + InFlight(n)'
            BY <2>3 DEF RenameTmp, Counted
          <5>5. base[n].visits + acked[n] + unsure[n] \in Nat
            BY <4>1, <5>3
          <5> QED
            BY <5>2, <5>3, <5>4, <5>5
        <4> QED
          BY <3>1, <3>2, <3>3, <3>5, <4>1, <4>2, VisitedCounts
      <3> QED
        BY <2>3, <3>2, <3>6 DEF ExactlyOnce, Counted, RenameTmp
    <2> QED
      BY <1>6, <2>1, <2>2, <2>3 DEF SaveIndex
  <1>7. ASSUME NEW p \in Procs, Return(p) \/ Crash(p) PROVE ExactlyOnce'
    <2> SUFFICES ASSUME store # Malformed PROVE ExactlyOnce'
      BY <1>7 DEF ExactlyOnce, Return, Crash
    <2>1. base # Malformed
      BY DEF ExactlyOnce
    <2>2. ASSUME NEW n \in Names PROVE Counted(n)' = Counted(n)
      <3>1. pc[p] # "idle" /\ Leave(p)
        BY <1>7 DEF Return, Crash
      <3>2. base[n].visits \in Nat /\ acked[n] \in Nat /\ unsure[n] \in Nat
        BY <2>1, U32MaxAssumption DEF TypeOK, InMemory
      <3>3. CASE Saved(p, n)
        <4>1. pc[p] = "return" /\ lock = p
          BY <3>3 DEF Saved, LockCovers, ControlShape, TypeOK
        <4>2. InFlight(n) = 1 /\ InFlight(n)' = 0
          BY <3>1, <3>3, <4>1, DistinctAssumption DEF InFlight, Leave
        <4>3. \/ acked'[n] = acked[n] + 1 /\ unsure' = unsure
              \/ unsure'[n] = unsure[n] + 1 /\ acked' = acked
          BY <1>7, <3>3 DEF Return, Crash
        <4> QED
          BY <1>7, <3>2, <4>2, <4>3 DEF Counted, Return, Crash
      <3>4. CASE ~Saved(p, n)
        <4>1. acked'[n] = acked[n] /\ unsure'[n] = unsure[n]
          BY <1>7, <3>4 DEF Return, Crash
        <4>2. InFlight(n)' = InFlight(n)
          BY <3>1, <3>4 DEF InFlight, Saved, Leave, TypeOK
        <4> QED
          BY <1>7, <4>1, <4>2 DEF Counted, Return, Crash
      <3> QED
        BY <3>3, <3>4
    <2> QED
      BY <1>7, <2>2, ExactlyOnceStutters DEF Return, Crash
  <1> QED
    BY <1>1, <1>2, <1>3, <1>4, <1>5, <1>6, <1>7 DEF Next, Step

-----------------------------------------------------------------------------
(***************************************************************************)
(* The inductive invariant, and what follows from it.                      *)
(***************************************************************************)
THEOREM Inductive == Spec => []IInv
  <1>1. Init => IInv
    BY InitTypeOK, InitControl, InitSaving, InitExactlyOnce DEF IInv, Saving
  <1>2. IInv /\ [Next]_vars => IInv'
    <2> SUFFICES ASSUME IInv, [Next]_vars PROVE IInv'
      OBVIOUS
    <2>1. TypeOK'
      BY NextTypeOK DEF IInv
    <2>2. LockCovers' /\ ControlShape'
      BY NextControl DEF IInv
    <2>3. Saving'
      BY NextSaving DEF IInv, Saving
    <2>4. ExactlyOnce'
      BY <2>1, NextExactlyOnce DEF IInv, Saving
    <2> QED
      BY <2>1, <2>2, <2>3, <2>4 DEF IInv, Saving
  <1> QED
    BY <1>1, <1>2, PTL DEF Spec

\* No visit is lost, none is counted twice, and none is counted whose call
\* reported an error, whatever the processes do and wherever they die.
THEOREM VisitsCountedExactlyOnce == Spec => []ExactlyOnce
  BY Inductive, PTL DEF IInv

\* Crashes, contention and detected I/O errors never leave a malformed store;
\* only a dropped write error can.
THEOREM StoreNeverTorn == Spec => []NeverTorn
  BY Inductive, PTL DEF IInv

\* A save works on the store as it is, on a temporary file of its own.
THEOREM SavesAreIsolated == Spec => [](SaveIsCurrent /\ TmpIsMine)
  BY Inductive, PTL DEF IInv

\* Readers, which take no lock, never see a half-written store.
THEOREM ReadersSeeWholeStores == Spec => []ParseErrorIsReal
  BY Inductive, PTL DEF IInv

\* A malformed store is never overwritten.
THEOREM MalformedStoreIsKept == Spec => MalformedIsKept
  <1>1. IInv /\ [Next]_vars => [store = Malformed => store' = Malformed]_store
    <2> SUFFICES ASSUME IInv, [Next]_vars, store = Malformed PROVE store' = Malformed
      OBVIOUS
    <2>1. ASSUME NEW p \in Procs PROVE ~RenameTmp(p)
      BY DEF IInv, SaveIsCurrent, RenameTmp, Finish, Goto
    <2> QED
      BY <2>1 DEF Next, Step, StoreLockStep, LoadIndex, SaveIndex, vars, control, history,
         Tick, CallRecord, CallRank, Acquire, AcquireBusy, AcquireFails, ExistsNo, ExistsYes,
         ReadParses, ReadMalformed, LoadFails, OpenTmp, OpenTmpFails, WriteTmp,
         WriteTmpFails, WriteTmpLost, RenameFails, Return, Crash
  <1> QED
    BY <1>1, Inductive, PTL DEF Spec, MalformedIsKept

-----------------------------------------------------------------------------
(***************************************************************************)
(* The store implements FrecencySpec.                                      *)
(***************************************************************************)
Phase == [p \in Procs |-> PhaseOf(p)]

LEMMA LostOnlyIfAllowed == Spec => [](lostFlush => FlushMayFail)
  <1>1. Init => (lostFlush => FlushMayFail)
    BY DEF Init
  <1>2. (lostFlush => FlushMayFail) /\ [Next]_vars => (lostFlush => FlushMayFail)'
    BY DEF Next, Step, StoreLockStep, LoadIndex, SaveIndex, vars, control, history,
       Tick, CallRecord, CallRank, Acquire, AcquireBusy, AcquireFails, ExistsNo, ExistsYes,
       ReadParses, ReadMalformed, LoadFails, OpenTmp, OpenTmpFails, WriteTmp,
       WriteTmpFails, WriteTmpLost, RenameTmp, RenameFails, Return, Crash
  <1> QED
    BY <1>1, <1>2, PTL DEF Spec

\* The phase of a call, by where it is.
LEMMA Phases ==
  ASSUME NEW p \in Procs
  PROVE  /\ pc[p] = "idle" => PhaseOf(p) = Promise!Idle
         /\ pc[p] = "return" /\ result[p] # "ok" => PhaseOf(p) = Promise!Failed
         /\ pc[p] = "return" /\ result[p] = "ok" /\ call[p].op = "record"
              => PhaseOf(p) = Promise!Recorded
         /\ pc[p] = "return" /\ result[p] = "ok" /\ call[p].op = "rank"
              => PhaseOf(p) = Promise!Ranked(index[p])
         /\ pc[p] \notin {"idle", "return"} /\ call[p].op = "rank"
              => PhaseOf(p) = Promise!Reading
         /\ pc[p] \notin {"idle", "return"} /\ call[p].op = "record"
              => PhaseOf(p) = Promise!Recording(call[p].name, call[p].now)
  BY DEF PhaseOf, Promise!Idle, Promise!Failed, Promise!Recorded, Promise!Ranked,
         Promise!Reading, Promise!Recording

LEMMA PhasesNext ==
  ASSUME NEW p \in Procs
  PROVE  /\ pc'[p] = "idle" => PhaseOf(p)' = Promise!Idle
         /\ pc'[p] = "return" /\ result'[p] # "ok" => PhaseOf(p)' = Promise!Failed
         /\ pc'[p] = "return" /\ result'[p] = "ok" /\ call'[p].op = "record"
              => PhaseOf(p)' = Promise!Recorded
         /\ pc'[p] = "return" /\ result'[p] = "ok" /\ call'[p].op = "rank"
              => PhaseOf(p)' = Promise!Ranked(index'[p])
         /\ pc'[p] \notin {"idle", "return"} /\ call'[p].op = "rank"
              => PhaseOf(p)' = Promise!Reading
         /\ pc'[p] \notin {"idle", "return"} /\ call'[p].op = "record"
              => PhaseOf(p)' = Promise!Recording(call'[p].name, call'[p].now)
  BY DEF PhaseOf, Promise!Idle, Promise!Failed, Promise!Recorded, Promise!Ranked,
         Promise!Reading, Promise!Recording

\* A step of p moves p's phase only.
OnlyMoves(p) == \A q \in Procs \ {p} :
                  /\ pc'[q] = pc[q] /\ call'[q] = call[q]
                  /\ index'[q] = index[q] /\ result'[q] = result[q]

LEMMA PhaseMoves ==
  ASSUME NEW p \in Procs, OnlyMoves(p)
  PROVE  Phase' = [Phase EXCEPT ![p] = PhaseOf(p)']
  <1>1. ASSUME NEW q \in Procs \ {p} PROVE PhaseOf(q)' = PhaseOf(q)
    BY <1>1 DEF OnlyMoves, PhaseOf
  <1> QED
    BY <1>1 DEF Phase

LEMMA PhaseKept ==
  ASSUME NEW p \in Procs, OnlyMoves(p), PhaseOf(p)' = PhaseOf(p)
  PROVE  Phase' = Phase
  BY PhaseMoves DEF Phase

LEMMA NextMoves ==
  ASSUME TypeOK, NEW p \in Procs,
         \/ \E n \in Names : CallRecord(p, n)
         \/ CallRank(p) \/ Step(p) \/ Crash(p)
  PROVE  OnlyMoves(p)
  <1> USE DEF OnlyMoves, TypeOK
  <1>1. CASE (\E n \in Names : CallRecord(p, n)) \/ CallRank(p)
    BY <1>1 DEF CallRecord, CallRank, Goto
  <1>2. CASE StoreLockStep(p)
    BY <1>2 DEF StoreLockStep, Acquire, AcquireBusy, AcquireFails, Finish, Goto
  <1>3. CASE LoadIndex(p)
    BY <1>3 DEF LoadIndex, ExistsNo, ExistsYes, ReadParses, ReadMalformed, LoadFails,
                UseLoaded, Finish, Goto
  <1>4. CASE SaveIndex(p)
    BY <1>4 DEF SaveIndex, OpenTmp, OpenTmpFails, WriteTmp, WriteTmpFails, WriteTmpLost,
                RenameTmp, RenameFails, Finish, Goto
  <1>5. CASE Return(p) \/ Crash(p)
    BY <1>5 DEF Return, Crash, Leave
  <1> QED
    BY <1>1, <1>2, <1>3, <1>4, <1>5 DEF Step

LEMMA SameIndexes == /\ Promise!InMemory = InMemory
                     /\ \A i, n, t : Promise!Visited(i, n, t) = Visited(i, n, t)
  BY DEF Promise!InMemory, InMemory, Promise!Visited, Visited

LEMMA InitImplements == Init => Promise!SInit
  <1> SUFFICES ASSUME Init PROVE Promise!SInit
    OBVIOUS
  <1>1. View(store) \in InMemory \cup {Malformed}
    BY InitialStoresAssumption, ViewFits DEF Init, Files
  <1>2. \A p \in Procs : PhaseOf(p) = Promise!Idle
    BY Phases DEF Init
  <1> QED
    BY <1>1, <1>2, SameIndexes DEF Promise!SInit, Promise!Idle

LEMMA NextImplements ==
  ASSUME IInv, TypeOK', lostFlush => FlushMayFail, [Next]_vars
  PROVE  [Promise!SNext]_Promise!sVars
  <1> USE DEF control, history
  <1> SUFFICES \/ Promise!SNext
               \/ View(store)' = View(store) /\ Phase' = Phase
    BY DEF Promise!sVars, Phase
  <1>1. CASE Tick \/ UNCHANGED vars
    BY <1>1 DEF Tick, vars, View, Phase, PhaseOf
  <1>2. ASSUME NEW p \in Procs, NEW n \in Names, CallRecord(p, n)
        PROVE Promise!SCall(p)
    <2>1. /\ pc[p] = "idle" /\ pc'[p] = "lock"
          /\ call'[p].op = "record" /\ call'[p].name = n /\ call'[p].now = clock
          /\ clock \in Now /\ View(store)' = View(store)
      BY <1>2 DEF CallRecord, Goto, Record, IInv, TypeOK, View
    <2>2. PhaseOf(p) = Promise!Idle /\ PhaseOf(p)' = Promise!Recording(n, clock)
      BY <2>1, Phases, PhasesNext
    <2>3. Phase' = [Phase EXCEPT ![p] = PhaseOf(p)']
      BY <1>2, NextMoves, PhaseMoves DEF IInv
    <2> QED
      BY <2>1, <2>2, <2>3 DEF Promise!SCall, Phase
  <1>3. ASSUME NEW p \in Procs, CallRank(p) PROVE Promise!SCall(p)
    <2>1. /\ pc[p] = "idle" /\ pc'[p] = "exists" /\ call'[p].op = "rank"
          /\ View(store)' = View(store)
      BY <1>3 DEF CallRank, Goto, Rank, IInv, TypeOK, View
    <2>2. PhaseOf(p) = Promise!Idle /\ PhaseOf(p)' = Promise!Reading
      BY <2>1, Phases, PhasesNext
    <2>3. Phase' = [Phase EXCEPT ![p] = PhaseOf(p)']
      BY <1>3, NextMoves, PhaseMoves DEF IInv
    <2> QED
      BY <2>1, <2>2, <2>3 DEF Promise!SCall, Phase
  <1>4. ASSUME NEW p \in Procs, NEW from \in {"lock", "exists", "read", "open", "write", "rename"},
               NEW why \in {"io", "parse"},
               Finish(p, from, why), Step(p), call' = call, store' = store
        PROVE Promise!SFail(p)
    <2>1. /\ pc[p] = from /\ pc'[p] = "return" /\ result'[p] = why
          /\ call[p].op \in {"record", "rank"}
      BY <1>4 DEF Finish, Goto, IInv, TypeOK, ControlShape
    <2>2. PhaseOf(p) \in {Promise!Reading, Promise!Recording(call[p].name, call[p].now)}
      BY <2>1, Phases
    <2>3. PhaseOf(p)' = Promise!Failed
      BY <2>1, PhasesNext
    <2>4. Phase' = [Phase EXCEPT ![p] = PhaseOf(p)']
      BY <1>4, NextMoves, PhaseMoves DEF IInv
    <2>5. PhaseOf(p).at \in {"recording", "reading"}
      BY <2>2 DEF Promise!Reading, Promise!Recording
    <2> QED
      BY <1>4, <2>3, <2>4, <2>5 DEF Promise!SFail, Phase, View
  <1>5. ASSUME NEW p \in Procs,
               \/ Acquire(p) \/ ExistsYes(p)
               \/ OpenTmp(p) \/ WriteTmp(p) \/ WriteTmpLost(p)
        PROVE View(store)' = View(store) /\ Phase' = Phase
    <2>1. /\ pc[p] \notin {"idle", "return"} /\ pc'[p] \notin {"idle", "return"}
          /\ call' = call /\ call[p].op \in {"record", "rank"} /\ store' = store
      BY <1>5 DEF Acquire, ExistsYes, OpenTmp, WriteTmp, WriteTmpLost, Goto,
                  IInv, TypeOK, ControlShape
    <2>2. PhaseOf(p)' = PhaseOf(p)
      BY <2>1, Phases, PhasesNext
    <2>3. Step(p)
      BY <1>5 DEF Step, StoreLockStep, LoadIndex, SaveIndex
    <2> QED
      BY <2>1, <2>2, <2>3, NextMoves, PhaseKept DEF View, IInv
  <1>6. ASSUME NEW p \in Procs, ExistsNo(p) \/ ReadParses(p)
        PROVE Promise!SRead(p) \/ (View(store)' = View(store) /\ Phase' = Phase)
    <2>1. /\ pc[p] \in {"exists", "read"} /\ pc'[p] = AfterLoad(p)
          /\ call' = call /\ store' = store
          /\ call[p].op \in {"record", "rank"}
          /\ UseLoaded(p, View(store)) /\ View(store) # Malformed
      <3>1. store \in Files /\ store # Malformed
        BY <1>6, DistinctAssumption DEF ExistsNo, ReadParses, IInv, TypeOK
      <3>2. View(store) # Malformed
        BY <3>1, ViewFits
      <3> QED
        BY <1>6, <3>2 DEF ExistsNo, ReadParses, Goto, IInv, TypeOK, ControlShape, View
    <2>2. Step(p)
      BY <1>6 DEF Step, LoadIndex
    <2>3. CASE call[p].op = "record"
      <3>1. PhaseOf(p)' = PhaseOf(p)
        BY <2>1, <2>3, Phases, PhasesNext DEF AfterLoad
      <3> QED
        BY <2>1, <2>2, <3>1, NextMoves, PhaseKept DEF View, IInv
    <2>4. CASE call[p].op = "rank"
      <3>1. pc'[p] = "return" /\ index'[p] = View(store) /\ result'[p] = "ok"
        BY <2>1, <2>4 DEF AfterLoad, UseLoaded, IInv, TypeOK
      <3>2. PhaseOf(p) = Promise!Reading /\ PhaseOf(p)' = Promise!Ranked(View(store))
        BY <2>1, <2>4, <3>1, Phases, PhasesNext
      <3>3. Phase' = [Phase EXCEPT ![p] = PhaseOf(p)']
        BY <2>2, NextMoves, PhaseMoves DEF IInv
      <3> QED
        BY <2>1, <3>2, <3>3 DEF Promise!SRead, Promise!Reading, Phase, View
    <2> QED
      BY <2>1, <2>3, <2>4
  <1>7. ASSUME NEW p \in Procs, RenameTmp(p) PROVE Promise!SCommit(p)
    <2>1. /\ pc[p] = "rename" /\ pc'[p] = "return" /\ result'[p] = "ok"
          /\ call[p].op = "record" /\ call' = call /\ store' = tmp
      BY <1>7 DEF RenameTmp, Finish, Goto, IInv, TypeOK, ControlShape
    <2>2. /\ PhaseOf(p) = Promise!Recording(call[p].name, call[p].now)
          /\ PhaseOf(p)' = Promise!Recorded
      BY <2>1, Phases, PhasesNext
    <2>3. Step(p)
      BY <1>7 DEF Step, SaveIndex
    <2>4. Phase' = [Phase EXCEPT ![p] = PhaseOf(p)']
      BY <2>3, NextMoves, PhaseMoves DEF IInv
    <2>5. View(store) # Malformed
      BY <2>1, ViewFits DEF IInv, SaveIsCurrent, TypeOK
    <2>6. \/ View(store)' = Visited(View(store), call[p].name, call[p].now)
          \/ FlushMayFail /\ View(store)' = Malformed
      <3>1. CASE tmp = index[p]
        <4>1. store' = index[p] /\ index[p] \in InMemory
          BY <2>1, <3>1 DEF IInv, TypeOK
        <4>2. View(store)' = index[p]
          BY <4>1, LoadedSaved, InMemoryIsFile, DistinctAssumption DEF View
        <4> QED
          BY <2>1, <4>2 DEF IInv, SaveIsCurrent
      <3>2. CASE tmp = Malformed /\ lostFlush
        BY <2>1, <3>2, DistinctAssumption DEF View
      <3> QED
        BY <2>1, <3>1, <3>2 DEF IInv, TmpIsMine
    <2> QED
      BY <2>2, <2>4, <2>5, <2>6, SameIndexes
      DEF Promise!SCommit, Promise!Recording, Phase
  <1>8. ASSUME NEW p \in Procs, Return(p) \/ Crash(p) PROVE Promise!SEnd(p)
    <2>1. pc[p] # "idle" /\ pc'[p] = "idle" /\ store' = store
      BY <1>8 DEF Return, Crash, Leave, IInv, TypeOK
    <2>2. PhaseOf(p)' = Promise!Idle
      BY <2>1, PhasesNext
    <2>3. PhaseOf(p) # Promise!Idle
      BY <2>1 DEF PhaseOf, Promise!Idle
    <2>4. Phase' = [Phase EXCEPT ![p] = PhaseOf(p)']
      BY <1>8, NextMoves, PhaseMoves DEF IInv, Step
    <2> QED
      BY <2>1, <2>2, <2>3, <2>4 DEF Promise!SEnd, Phase, View
  <1>9. ASSUME NEW p \in Procs, Step(p)
        PROVE \/ Promise!SNext
              \/ View(store)' = View(store) /\ Phase' = Phase
    <2>1. CASE \/ AcquireBusy(p) \/ AcquireFails(p) \/ ReadMalformed(p) \/ LoadFails(p)
               \/ OpenTmpFails(p) \/ WriteTmpFails(p) \/ RenameFails(p)
      <3>1. PICK from \in {"lock", "exists", "read", "open", "write", "rename"},
                 why \in {"io", "parse"} : Finish(p, from, why)
        BY <2>1 DEF AcquireBusy, AcquireFails, ReadMalformed, LoadFails,
                    OpenTmpFails, WriteTmpFails, RenameFails
      <3>2. call' = call /\ store' = store
        BY <2>1 DEF AcquireBusy, AcquireFails, ReadMalformed, LoadFails,
                    OpenTmpFails, WriteTmpFails, RenameFails
      <3> QED
        BY <1>4, <1>9, <3>1, <3>2 DEF Promise!SNext
    <2>2. CASE \/ Acquire(p) \/ ExistsYes(p)
               \/ OpenTmp(p) \/ WriteTmp(p) \/ WriteTmpLost(p)
      BY <1>5, <2>2
    <2>3. CASE ExistsNo(p) \/ ReadParses(p)
      BY <1>6, <2>3 DEF Promise!SNext
    <2>4. CASE RenameTmp(p) \/ Return(p)
      BY <1>7, <1>8, <2>4 DEF Promise!SNext
    <2> QED
      BY <1>9, <2>1, <2>2, <2>3, <2>4 DEF Step, StoreLockStep, LoadIndex, SaveIndex
  <1> QED
    BY <1>1, <1>2, <1>3, <1>8, <1>9 DEF Next, Promise!SNext

\* Every behaviour of the lock, load, write and rename steps is one of the
\* atomic visits and reads of FrecencySpec.
THEOREM StoreImplementsSpec == Spec => Implements
  <1>1. Init => Promise!SInit
    BY InitImplements
  <1>2. /\ IInv /\ IInv' /\ (lostFlush => FlushMayFail) /\ [Next]_vars
        => [Promise!SNext]_Promise!sVars
    BY NextImplements DEF IInv
  <1> QED
    BY <1>1, <1>2, Inductive, LostOnlyIfAllowed, PTL DEF Spec, Implements, Promise!SSpec

=============================================================================

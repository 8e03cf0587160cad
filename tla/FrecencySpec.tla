---------------------------- MODULE FrecencySpec -----------------------------
(***************************************************************************)
(* What the frecency store promises to the processes that share it: every  *)
(* record_session_visit call takes effect at one instant between its call  *)
(* and its return, or not at all; it returns success only if it took       *)
(* effect and an error only if it did not; and load_ranked_sessions reads  *)
(* what was current at some instant of its own call.                       *)
(*                                                                         *)
(* A malformed store stays what it is: no call repairs or discards it.     *)
(***************************************************************************)
EXTENDS FrecencyIndex

CONSTANTS Procs,         \* processes sharing the store
          Malformed,     \* a store that does not parse
          FlushMayFail,  \* TRUE: the last write of a save may be lost
          Now            \* the clock readings callers pass in

VARIABLES persisted,     \* what load_index makes of the store
          phase          \* phase[p]: the call p is in, and how far it is

sVars == <<persisted, phase>>

Idle == [at |-> "idle"]
Recording(n, t) == [at |-> "recording", name |-> n, now |-> t]
Reading == [at |-> "reading"]
Recorded == [at |-> "recorded"]   \* took effect, not yet returned
Failed == [at |-> "failed"]       \* will return an error
Ranked(i) == [at |-> "ranked", index |-> i]

SInit == /\ persisted \in InMemory \cup {Malformed}
         /\ phase = [p \in Procs |-> Idle]

SCall(p) == /\ phase[p] = Idle
            /\ \/ \E n \in Names, t \in Now :
                    phase' = [phase EXCEPT ![p] = Recording(n, t)]
               \/ phase' = [phase EXCEPT ![p] = Reading]
            /\ UNCHANGED persisted

SCommit(p) == /\ phase[p].at = "recording"
              /\ persisted # Malformed
              /\ \/ persisted' = Visited(persisted, phase[p].name, phase[p].now)
                 \/ FlushMayFail /\ persisted' = Malformed
              /\ phase' = [phase EXCEPT ![p] = Recorded]

SRead(p) == /\ phase[p].at = "reading"
            /\ persisted # Malformed
            /\ phase' = [phase EXCEPT ![p] = Ranked(persisted)]
            /\ UNCHANGED persisted

SFail(p) == /\ phase[p].at \in {"recording", "reading"}
            /\ phase' = [phase EXCEPT ![p] = Failed]
            /\ UNCHANGED persisted

\* The call returns, or its process dies.
SEnd(p) == /\ phase[p] # Idle
           /\ phase' = [phase EXCEPT ![p] = Idle]
           /\ UNCHANGED persisted

SNext == \E p \in Procs : SCall(p) \/ SCommit(p) \/ SRead(p) \/ SFail(p) \/ SEnd(p)

SSpec == SInit /\ [][SNext]_sVars

=============================================================================

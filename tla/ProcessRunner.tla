---------------------------- MODULE ProcessRunner ----------------------------
(***************************************************************************)
(* run_command of src/src/io/process.cpp, called by several threads of one *)
(* process at once (the UI thread and each RestoreWorker): two pipes, a    *)
(* fork, a poll loop with a deadline and an output limit, SIGKILL on any   *)
(* capture error, and waitpid.                                             *)
(*                                                                         *)
(* A pipe is at end of file only when no process holds its write end.      *)
(* Its holders are tracked, because the pipes are made without O_CLOEXEC:  *)
(* a fork hands the child every write end its process has open at that     *)
(* moment, those of the other threads' calls included.                     *)
(***************************************************************************)
EXTENDS Integers

CONSTANTS Callers,    \* threads that may call run_command
          Leavers,    \* those whose commands may leave a process behind
          PipeSize,   \* chunks of output a pipe can hold
          MaxOutput   \* CommandOptions::max_output_bytes, in chunks

ASSUME SizeAssumption == PipeSize \in Nat \ {0} /\ MaxOutput \in Nat
ASSUME LeaversAssumption == Leavers \subseteq Callers

Streams == {"out", "err"}

\* The processes that can hold a write end: the caller's own process on behalf
\* of one call, the call's child, and a process that child left behind.
Parent(c) == <<"parent", c>>
Child(c) == <<"child", c>>
Descendant(c) == <<"descendant", c>>
Holders == {"parent", "child", "descendant"} \X Callers

Exits == {"exited", "signalled"}                  \* the wait status
Errors == {"invalid", "io", "timeout", "limit"}   \* the ErrorKinds returned

VARIABLES
  pc,          \* pc[c]: where c is in run_command, "idle" outside
  outcome,     \* outcome[c]: the Error kept, or the exit status returned
  open,        \* open[c]: the streams whose read end c holds
  ready,       \* ready[c]: the streams poll reported, not yet read
  captured,    \* captured[c]: total_output_bytes
  expired,     \* expired[c]: c's deadline has passed
  writers,     \* writers[c][s]: who holds the write end of c's pipe s
  unread,      \* unread[c][s]: chunks in c's pipe s
  child,       \* child[c]: the process c forked
  status,      \* status[c]: how it ended
  descendant   \* descendant[c]: a process it started that may outlive it

caller == <<pc, outcome, open, ready, captured, expired>>
system == <<writers, unread, child, status, descendant>>
vars == <<caller, system>>

NoWriters == [s \in Streams |-> {}]

Init ==
  /\ pc = [c \in Callers |-> "idle"]
  /\ outcome = [c \in Callers |-> "none"]
  /\ open = [c \in Callers |-> {}]
  /\ ready = [c \in Callers |-> {}]
  /\ captured = [c \in Callers |-> 0]
  /\ expired = [c \in Callers |-> FALSE]
  /\ writers = [c \in Callers |-> NoWriters]
  /\ unread = [c \in Callers |-> [s \in Streams |-> 0]]
  /\ child = [c \in Callers |-> "none"]
  /\ status = [c \in Callers |-> "none"]
  /\ descendant = [c \in Callers |-> "none"]

Goto(c, from, to) == pc[c] = from /\ pc' = [pc EXCEPT ![c] = to]

\* Mutant: the pipes are plain ints, closed by nobody on this path.
GiveUpLeaking(c, from, why) ==
  /\ Goto(c, from, "idle")
  /\ outcome' = [outcome EXCEPT ![c] = why]
  /\ UNCHANGED <<open, writers>>

\* Leave run_command before a child exists: the UniqueFds close what is open.
GiveUp(c, from, why) ==
  /\ Goto(c, from, "idle")
  /\ outcome' = [outcome EXCEPT ![c] = why]
  /\ open' = [open EXCEPT ![c] = {}]
  /\ writers' = [writers EXCEPT ![c] = NoWriters]

(***************************************************************************)
(* run_command up to the fork.                                             *)
(***************************************************************************)
\* Bound: a call starts only once what the last one left behind is gone.
Call(c) ==
  /\ descendant[c] # "running"
  /\ Goto(c, "idle", "stdout_pipe")
  /\ outcome' = [outcome EXCEPT ![c] = "none"]
  /\ writers' = [writers EXCEPT ![c] = NoWriters]
  /\ unread' = [unread EXCEPT ![c] = [s \in Streams |-> 0]]
  /\ child' = [child EXCEPT ![c] = "none"]
  /\ status' = [status EXCEPT ![c] = "none"]
  /\ descendant' = [descendant EXCEPT ![c] = "none"]
  /\ UNCHANGED <<open, ready, captured, expired>>

\* Empty argv, or a timeout that is not positive.
CallInvalid(c) ==
  /\ pc[c] = "idle"
  /\ outcome' = [outcome EXCEPT ![c] = "invalid"]
  /\ UNCHANGED <<pc, open, ready, captured, expired, system>>

MakePipe(c, s, from, to) ==
  /\ Goto(c, from, to)
  /\ open' = [open EXCEPT ![c] = @ \cup {s}]
  /\ writers' = [writers EXCEPT ![c][s] = {Parent(c)}]
  /\ UNCHANGED <<outcome, ready, captured, expired, unread, child, status, descendant>>

MakePipes(c) == \/ MakePipe(c, "out", "stdout_pipe", "stderr_pipe")
                \/ MakePipe(c, "err", "stderr_pipe", "fork")

\* pipe() or fork() failed.
SpawnFails(c) ==
  /\ \E from \in {"stdout_pipe", "stderr_pipe", "fork"} : GiveUp(c, from, "io")
  /\ UNCHANGED <<ready, captured, expired, unread, child, status, descendant>>

\* The child keeps the write ends of c's pipes (dup2 onto 1 and 2, the
\* originals stay open too) and inherits those of every other call whose
\* parent side is still open.
Fork(c) ==
  /\ Goto(c, "fork", "close_write_ends")
  /\ child' = [child EXCEPT ![c] = "running"]
  /\ writers' = [d \in Callers |-> [s \in Streams |->
                   IF Parent(d) \in writers[d][s]
                   THEN writers[d][s] \cup {Child(c)}
                   ELSE writers[d][s]]]
  /\ UNCHANGED <<outcome, open, ready, captured, expired, unread, status, descendant>>

CloseWriteEnds(c) ==
  /\ Goto(c, "close_write_ends", "deadline")
  /\ writers' = [writers EXCEPT ![c] = [s \in Streams |-> @[s] \ {Parent(c)}]]
  /\ UNCHANGED <<outcome, open, ready, captured, expired, unread, child, status, descendant>>

(***************************************************************************)
(* capture_output.                                                         *)
(***************************************************************************)
InCapture(c) == pc[c] \in {"deadline", "poll", "read"}

\* An Error ends the capture; run_command then kills the child.
CaptureFails(c, from, why) ==
  /\ Goto(c, from, "kill")
  /\ outcome' = [outcome EXCEPT ![c] = why]
  /\ ready' = [ready EXCEPT ![c] = {}]

\* poll_timeout_ms(deadline) == 0, whatever is ready to be read.
DeadlinePassed(c) ==
  /\ expired[c]
  /\ CaptureFails(c, "deadline", "timeout")
  /\ UNCHANGED <<open, captured, expired, system>>

DeadlineAhead(c) ==
  /\ ~expired[c]
  /\ Goto(c, "deadline", "poll")
  /\ UNCHANGED <<outcome, open, ready, captured, expired, system>>

AtEof(c, s) == unread[c][s] = 0 /\ writers[c][s] = {}
Readable(c) == {s \in open[c] : unread[c][s] > 0 \/ AtEof(c, s)}

PollReady(c) ==
  /\ Readable(c) # {}
  /\ Goto(c, "poll", "read")
  /\ ready' = [ready EXCEPT ![c] = Readable(c)]
  /\ UNCHANGED <<outcome, open, captured, expired, system>>

\* Mutant: poll is given no timeout.
PollForever(c) == FALSE

PollTimesOut(c) ==
  /\ Readable(c) = {} /\ expired[c]
  /\ CaptureFails(c, "poll", "timeout")
  /\ UNCHANGED <<open, captured, expired, system>>

\* EINTR: the loop goes round, and the deadline is tested again.
PollInterrupted(c) ==
  /\ Goto(c, "poll", "deadline")
  /\ UNCHANGED <<outcome, open, ready, captured, expired, system>>

PollFails(c) ==
  /\ CaptureFails(c, "poll", "io")
  /\ UNCHANGED <<open, captured, expired, system>>

\* The loop over the two pollfds: stdout before stderr.
Next1(c) == IF "out" \in ready[c] THEN "out" ELSE "err"

\* What follows the read of stream s, `left` being the read ends still open.
AfterRead(c, s, left) ==
  /\ pc[c] = "read" /\ s = Next1(c)
  /\ ready' = [ready EXCEPT ![c] = @ \ {s}]
  /\ open' = [open EXCEPT ![c] = left]
  /\ pc' = [pc EXCEPT ![c] = IF ready[c] # {s} THEN "read"
                              ELSE IF left = {} THEN "wait" ELSE "deadline"]

\* read_once took n chunks and they fit.
ReadChunks(c, s, n) ==
  /\ AfterRead(c, s, open[c])
  /\ n <= unread[c][s]
  /\ n <= MaxOutput /\ captured[c] <= MaxOutput - n
  /\ captured' = [captured EXCEPT ![c] = @ + n]
  /\ unread' = [unread EXCEPT ![c][s] = @ - n]
  /\ UNCHANGED <<outcome, expired, writers, child, status, descendant>>

\* read_once took n chunks, too many.
ReadTooMuch(c, s, n) ==
  /\ s = Next1(c) /\ n <= unread[c][s]
  /\ n > MaxOutput \/ captured[c] > MaxOutput - n
  /\ CaptureFails(c, "read", "limit")
  /\ unread' = [unread EXCEPT ![c][s] = @ - n]
  /\ UNCHANGED <<open, captured, expired, writers, child, status, descendant>>

\* Mutant: POLLHUP alone is taken for the end of the file.
ReadHangup(c, s) ==
  /\ writers[c][s] = {}
  /\ AfterRead(c, s, open[c] \ {s})
  /\ UNCHANGED <<outcome, captured, expired, system>>

ReadEof(c, s) ==
  /\ AtEof(c, s)
  /\ AfterRead(c, s, open[c] \ {s})
  /\ UNCHANGED <<outcome, captured, expired, system>>

ReadFails(c) ==
  /\ CaptureFails(c, "read", "io")
  /\ UNCHANGED <<open, captured, expired, system>>

(***************************************************************************)
(* The end of run_command.                                                 *)
(***************************************************************************)
\* A process that ends releases every write end it holds.
Without(h) == [d \in Callers |-> [s \in Streams |-> writers[d][s] \ {h}]]

\* Mutant: the error path returns without waiting.
KillAndReturn(c) ==
  /\ Goto(c, "kill", "idle")
  /\ UNCHANGED <<outcome, open, ready, captured, expired, system>>

\* Mutant: the child is asked to end with a signal it may ignore.
KillPolitely(c) ==
  /\ Goto(c, "kill", "wait")
  /\ UNCHANGED <<outcome, open, ready, captured, expired, system>>

\* kill(pid, SIGKILL): the child alone, not what it started.  A child that has
\* already ended is a zombie and keeps its status.
Kill(c) ==
  /\ Goto(c, "kill", "wait")
  /\ IF child[c] = "running"
     THEN /\ child' = [child EXCEPT ![c] = "zombie"]
          /\ status' = [status EXCEPT ![c] = "signalled"]
          /\ writers' = Without(Child(c))
     ELSE UNCHANGED <<child, status, writers>>
  /\ UNCHANGED <<outcome, open, ready, captured, expired, unread, descendant>>

\* The call ends with the child, and the UniqueFds close the rest.  The capture's
\* error takes precedence over what waitpid returned.
Reap(c, waited) ==
  /\ child[c] = "zombie"
  /\ Goto(c, "wait", "idle")
  /\ child' = [child EXCEPT ![c] = "reaped"]
  /\ outcome' = [outcome EXCEPT ![c] = IF @ = "none" THEN waited ELSE @]
  /\ open' = [open EXCEPT ![c] = {}]
  /\ captured' = [captured EXCEPT ![c] = 0]
  /\ expired' = [expired EXCEPT ![c] = FALSE]
  /\ UNCHANGED <<ready, writers, unread, status, descendant>>

\* waitpid(pid, &status, 0) blocks until the child has ended.
Wait(c) == Reap(c, status[c])

\* It fails when there is no such child any more: the program that links the
\* library ignores SIGCHLD, or has reaped the child itself.
WaitFails(c) == Reap(c, "io")

(***************************************************************************)
(* The environment: time, and what the command does.                       *)
(***************************************************************************)
Expire(c) ==
  /\ InCapture(c) /\ ~expired[c]
  /\ expired' = [expired EXCEPT ![c] = TRUE]
  /\ UNCHANGED <<pc, outcome, open, ready, captured, system>>

Write(c, s) ==
  /\ \/ child[c] = "running" /\ Child(c) \in writers[c][s]
     \/ descendant[c] = "running" /\ Descendant(c) \in writers[c][s]
  /\ unread[c][s] < PipeSize
  /\ unread' = [unread EXCEPT ![c][s] = @ + 1]
  /\ UNCHANGED <<caller, writers, child, status, descendant>>

\* The command closes every descriptor it has for one of its streams.
CloseStream(c, s) ==
  /\ child[c] = "running" /\ Child(c) \in writers[c][s]
  /\ writers' = [writers EXCEPT ![c][s] = @ \ {Child(c)}]
  /\ UNCHANGED <<caller, unread, child, status, descendant>>

\* It starts a process of its own, which inherits what it holds.
Spawn(c) ==
  /\ c \in Leavers
  /\ child[c] = "running" /\ descendant[c] = "none"
  /\ descendant' = [descendant EXCEPT ![c] = "running"]
  /\ writers' = [d \in Callers |-> [s \in Streams |->
                   IF Child(c) \in writers[d][s]
                   THEN writers[d][s] \cup {Descendant(c)}
                   ELSE writers[d][s]]]
  /\ UNCHANGED <<caller, unread, child, status>>

Exit(c, how) ==
  /\ child[c] = "running"
  /\ child' = [child EXCEPT ![c] = "zombie"]
  /\ status' = [status EXCEPT ![c] = how]
  /\ writers' = Without(Child(c))
  /\ UNCHANGED <<caller, unread, descendant>>

DescendantExits(c) ==
  /\ descendant[c] = "running"
  /\ descendant' = [descendant EXCEPT ![c] = "ended"]
  /\ writers' = Without(Descendant(c))
  /\ UNCHANGED <<caller, unread, child, status>>

Start(c) == Call(c) \/ CallInvalid(c)

ReadOnce(c) == \/ \E s \in Streams, n \in 1..PipeSize :
                    ReadChunks(c, s, n) \/ ReadTooMuch(c, s, n)
               \/ \E s \in Streams : ReadEof(c, s)
               \/ ReadFails(c)

Capture(c) == \/ DeadlinePassed(c) \/ DeadlineAhead(c)
              \/ PollReady(c) \/ PollTimesOut(c) \/ PollInterrupted(c)
              \/ PollFails(c) \/ ReadOnce(c)

Run(c) == \/ MakePipes(c) \/ SpawnFails(c) \/ Fork(c) \/ CloseWriteEnds(c)
          \/ Capture(c) \/ Kill(c) \/ Wait(c) \/ WaitFails(c)

Command(c) == \/ \E s \in Streams : Write(c, s) \/ CloseStream(c, s)
              \/ Spawn(c)
              \/ \E how \in Exits : Exit(c, how)
              \/ DescendantExits(c)

Next == \E c \in Callers : Start(c) \/ Run(c) \/ Expire(c) \/ Command(c)

Spec == Init /\ [][Next]_vars

\* The steps a thread is bound to take in the end; pipe, fork, poll
\* and waitpid need not fail.
Progress(c) == \/ MakePipes(c) \/ Fork(c) \/ CloseWriteEnds(c)
               \/ DeadlinePassed(c) \/ DeadlineAhead(c)
               \/ PollReady(c) \/ PollTimesOut(c) \/ ReadOnce(c)
               \/ Kill(c) \/ Wait(c)

\* The threads run and time passes.  Nothing is assumed of the command: it may
\* write for ever, or do nothing for ever.
FairSpec == Spec /\ \A c \in Callers : WF_vars(Progress(c)) /\ WF_vars(Expire(c))

-----------------------------------------------------------------------------
TypeOK ==
  /\ pc \in [Callers -> {"idle", "stdout_pipe", "stderr_pipe", "fork", "close_write_ends",
                         "deadline", "poll", "read", "kill", "wait"}]
  /\ outcome \in [Callers -> {"none"} \cup Exits \cup Errors]
  /\ open \in [Callers -> SUBSET Streams]
  /\ ready \in [Callers -> SUBSET Streams]
  /\ captured \in [Callers -> 0..MaxOutput]
  /\ expired \in [Callers -> BOOLEAN]
  /\ writers \in [Callers -> [Streams -> SUBSET Holders]]
  /\ unread \in [Callers -> [Streams -> 0..PipeSize]]
  /\ child \in [Callers -> {"none", "running", "zombie", "reaped"}]
  /\ status \in [Callers -> {"none"} \cup Exits]
  /\ descendant \in [Callers -> {"none", "running", "ended"}]

\* run_command returns only after the child it forked has ended and been
\* reaped, whichever of the error paths it takes.
NoChildLeft == \A c \in Callers : pc[c] = "idle" => child[c] \in {"none", "reaped"}

\* run_command returns with none of its descriptors open, and no call of
\* another thread keeps a write end on its behalf.
NoDescriptorLeft ==
  \A c \in Callers :
    pc[c] = "idle" => open[c] = {} /\ \A s \in Streams : Parent(c) \notin writers[c][s]

\* An exit status is returned only for a call whose capture was complete, never
\* for a child that was killed by the runner or whose output was cut.
ExitMeansCaptured ==
  \A c \in Callers :
    pc[c] = "idle" /\ outcome[c] \in Exits
      => /\ outcome[c] = status[c]
         /\ \A s \in Streams : AtEof(c, s)

\* The deadline ends the capture even of a command that never stops writing.
CaptureEnds == \A c \in Callers : InCapture(c) ~> ~InCapture(c)

\* Once the capture has failed the call returns: SIGKILL cannot be resisted,
\* and a descendant that keeps the pipes is not waited for.
ErrorReturns == \A c \in Callers : pc[c] = "kill" ~> pc[c] = "idle"

\* "Deadline for process completion and output capture" (process.hpp): every
\* call returns.
CallReturns == \A c \in Callers : pc[c] # "idle" ~> pc[c] = "idle"

\* "Exit code plus captured output on successful spawn and wait" (process.hpp),
\* which does not hold when another thread's child has inherited the pipes:
\* a call fails with a timeout only while its own command, or output of its
\* command, is still there to wait for.
TimeoutHasCause ==
  \A c \in Callers :
    pc[c] = "kill" /\ outcome[c] = "timeout"
      => \/ child[c] = "running" \/ descendant[c] = "running"
         \/ \E s \in open[c] : unread[c][s] > 0 \/ AtEof(c, s)

-----------------------------------------------------------------------------
(***************************************************************************)
(* The inductive invariant of the proofs.                                  *)
(***************************************************************************)
\* Where the child is in its life, by where its call is.
ChildShape ==
  \A c \in Callers :
    /\ pc[c] = "idle" => child[c] \in {"none", "reaped"}
    /\ pc[c] \in {"stdout_pipe", "stderr_pipe", "fork"} => child[c] = "none"
    /\ pc[c] \in {"close_write_ends", "deadline", "poll", "read", "kill", "wait"}
         => child[c] \in {"running", "zombie"}
    /\ child[c] \in {"zombie", "reaped"} => status[c] \in Exits

\* Which descriptors the call itself holds, by where it is.
DescriptorShape ==
  \A c \in Callers :
    /\ pc[c] \in {"idle", "stdout_pipe"} => open[c] = {}
    /\ \A s \in Streams :
         Parent(c) \in writers[c][s]
           => pc[c] \in {"fork", "close_write_ends"} \/ (pc[c] = "stderr_pipe" /\ s = "out")
    /\ pc[c] = "stderr_pipe" => open[c] = {"out"}
    /\ pc[c] \in {"fork", "close_write_ends"} => open[c] = Streams
    /\ pc[c] = "read" => ready[c] # {} /\ ready[c] \subseteq Streams

\* A read end is closed only at end of file, and end of file is for good; the
\* capture ends without an error when both are closed.
CaptureShape ==
  \A c \in Callers :
    /\ pc[c] \in {"stdout_pipe", "stderr_pipe", "fork", "close_write_ends",
                  "deadline", "poll", "read"} => outcome[c] = "none"
    /\ pc[c] = "kill" => outcome[c] \in Errors
    /\ pc[c] = "wait" => outcome[c] \in Errors \cup {"none"}
    /\ pc[c] = "wait" /\ outcome[c] = "none" => open[c] = {}
    /\ (InCapture(c) \/ (pc[c] = "wait" /\ outcome[c] = "none"))
         => \A s \in Streams \ open[c] : AtEof(c, s)

IInv == /\ TypeOK /\ ChildShape /\ DescriptorShape /\ CaptureShape
        /\ ExitMeansCaptured

=============================================================================

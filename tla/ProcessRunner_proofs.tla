------------------------ MODULE ProcessRunner_proofs -------------------------
(***************************************************************************)
(* Proofs about ProcessRunner, for any number of calling threads, any pipe *)
(* size and any output limit.                                              *)
(***************************************************************************)
EXTENDS ProcessRunner, TLAPS

LEMMA HolderTypes ==
  ASSUME NEW c \in Callers
  PROVE  Parent(c) \in Holders /\ Child(c) \in Holders /\ Descendant(c) \in Holders
  BY DEF Parent, Child, Descendant, Holders

LEMMA HoldersDiffer ==
  ASSUME NEW c \in Callers, NEW d \in Callers
  PROVE  /\ Parent(c) # Child(d) /\ Parent(c) # Descendant(d)
         /\ c # d => Parent(c) # Parent(d)
  BY DEF Parent, Child, Descendant

-----------------------------------------------------------------------------
(***************************************************************************)
(* Typing.                                                                 *)
(***************************************************************************)
LEMMA InitTypeOK == Init => TypeOK
  BY SizeAssumption DEF Init, TypeOK, NoWriters, Streams

LEMMA WithoutTypes ==
  ASSUME TypeOK, NEW h
  PROVE  Without(h) \in [Callers -> [Streams -> SUBSET Holders]]
  BY DEF TypeOK, Without

LEMMA Reaping ==
  ASSUME TypeOK, NEW c \in Callers, Wait(c) \/ WaitFails(c)
  PROVE  \E w \in {"none", "io"} \cup Exits : Reap(c, w)
  BY DEF Wait, WaitFails, TypeOK

LEMMA NextTypeOK == TypeOK /\ [Next]_vars => TypeOK'
  <1> SUFFICES ASSUME TypeOK, [Next]_vars PROVE TypeOK'
    OBVIOUS
  <1> USE DEF caller, system
  <1>0. NoWriters \in [Streams -> SUBSET Holders]
    BY DEF NoWriters
  <1>1. ASSUME NEW c \in Callers, Start(c) PROVE TypeOK'
    <2>1. CASE Call(c)
      BY <2>1, <1>0, SizeAssumption DEF Call, Goto, TypeOK
    <2>2. CASE CallInvalid(c)
      BY <2>2 DEF CallInvalid, TypeOK, Errors
    <2> QED
      BY <1>1, <2>1, <2>2 DEF Start
  <1>2. ASSUME NEW c \in Callers, Run(c) PROVE TypeOK'
    <2>1. CASE MakePipes(c)
      <3>1. PICK s \in Streams, from \in {"stdout_pipe", "stderr_pipe"},
                 to \in {"stderr_pipe", "fork"} : MakePipe(c, s, from, to)
        BY <2>1 DEF MakePipes, Streams
      <3> QED
        BY <3>1, HolderTypes DEF MakePipe, Goto, TypeOK
    <2>2. CASE SpawnFails(c)
      BY <2>2, <1>0 DEF SpawnFails, GiveUp, Goto, TypeOK, Errors
    <2>3. CASE Fork(c)
      <3>1. writers' \in [Callers -> [Streams -> SUBSET Holders]]
        BY <2>3, HolderTypes DEF Fork, TypeOK
      <3> QED
        BY <2>3, <3>1 DEF Fork, Goto, TypeOK
    <2>4. CASE CloseWriteEnds(c)
      BY <2>4 DEF CloseWriteEnds, Goto, TypeOK
    <2>5. CASE DeadlinePassed(c) \/ PollTimesOut(c) \/ PollFails(c) \/ ReadFails(c)
      BY <2>5 DEF DeadlinePassed, PollTimesOut, PollFails, ReadFails, CaptureFails, Goto,
                  TypeOK, Errors
    <2>6. CASE DeadlineAhead(c) \/ PollInterrupted(c) \/ PollReady(c)
      <3>1. Readable(c) \in SUBSET Streams
        BY DEF Readable, TypeOK
      <3>2. CASE DeadlineAhead(c) \/ PollInterrupted(c)
        BY <3>2 DEF DeadlineAhead, PollInterrupted, Goto, TypeOK
      <3>3. CASE PollReady(c)
        BY <3>1, <3>3 DEF PollReady, Goto, TypeOK
      <3> QED
        BY <2>6, <3>2, <3>3
    <2>7. ASSUME NEW s \in Streams, NEW n \in 1..PipeSize,
                 ReadChunks(c, s, n) \/ ReadTooMuch(c, s, n)
          PROVE TypeOK'
      <3>1. unread[c][s] \in 0..PipeSize /\ captured[c] \in 0..MaxOutput
        BY DEF TypeOK
      <3>2. n <= unread[c][s] /\ unread' = [unread EXCEPT ![c][s] = @ - n]
        BY <2>7 DEF ReadChunks, ReadTooMuch
      <3>3. unread[c][s] - n \in 0..PipeSize
        BY <3>1, <3>2, SizeAssumption
      <3>4. unread' \in [Callers -> [Streams -> 0..PipeSize]]
        BY <3>2, <3>3 DEF TypeOK
      <3>5. CASE ReadChunks(c, s, n)
        <4>1. captured[c] + n \in 0..MaxOutput
          BY <3>1, <3>5, SizeAssumption DEF ReadChunks
        <4>2. captured' \in [Callers -> 0..MaxOutput]
          BY <3>5, <4>1 DEF ReadChunks, TypeOK
        <4> QED
          BY <3>4, <3>5, <4>2 DEF ReadChunks, AfterRead, TypeOK
      <3>6. CASE ReadTooMuch(c, s, n)
        BY <3>4, <3>6 DEF ReadTooMuch, CaptureFails, Goto, TypeOK, Errors
      <3> QED
        BY <2>7, <3>5, <3>6
    <2>8. ASSUME NEW s \in Streams, ReadEof(c, s) PROVE TypeOK'
      BY <2>8 DEF ReadEof, AfterRead, TypeOK
    <2>9. CASE Kill(c)
      <3>1. CASE child[c] = "running"
        <4>1. Without(Child(c)) \in [Callers -> [Streams -> SUBSET Holders]]
          BY WithoutTypes
        <4>2. "signalled" \in Exits
          BY DEF Exits
        <4>3. writers' \in [Callers -> [Streams -> SUBSET Holders]]
          BY <2>9, <3>1, <4>1 DEF Kill
        <4>4. status' \in [Callers -> {"none"} \cup Exits]
          BY <2>9, <3>1, <4>2 DEF Kill, TypeOK
        <4> QED
          BY <2>9, <3>1, <4>3, <4>4 DEF Kill, Goto, TypeOK
      <3>2. CASE child[c] # "running"
        BY <2>9, <3>2 DEF Kill, Goto, TypeOK
      <3> QED
        BY <3>1, <3>2
    <2>10. CASE Wait(c) \/ WaitFails(c)
      <3>1. PICK w \in {"none", "io"} \cup Exits : Reap(c, w)
        BY <2>10, Reaping
      <3>2. outcome' \in [Callers -> {"none"} \cup Exits \cup Errors]
        BY <3>1 DEF Reap, TypeOK, Errors
      <3> QED
        BY <3>1, <3>2, SizeAssumption DEF Reap, Goto, TypeOK
    <2> QED
      BY <1>2, <2>1, <2>2, <2>3, <2>4, <2>5, <2>6, <2>7, <2>8, <2>9, <2>10
      DEF Run, Capture, ReadOnce
  <1>3. ASSUME NEW c \in Callers, Expire(c) PROVE TypeOK'
    BY <1>3 DEF Expire, TypeOK
  <1>4. ASSUME NEW c \in Callers, Command(c) PROVE TypeOK'
    <2>1. ASSUME NEW s \in Streams, Write(c, s) PROVE TypeOK'
      <3>1. unread[c][s] + 1 \in 0..PipeSize
        BY <2>1, SizeAssumption DEF Write, TypeOK
      <3>2. unread' \in [Callers -> [Streams -> 0..PipeSize]]
        BY <2>1, <3>1 DEF Write, TypeOK
      <3> QED
        BY <2>1, <3>2 DEF Write, TypeOK
    <2>2. ASSUME NEW s \in Streams, CloseStream(c, s) PROVE TypeOK'
      BY <2>2 DEF CloseStream, TypeOK
    <2>3. CASE Spawn(c)
      <3>1. writers' \in [Callers -> [Streams -> SUBSET Holders]]
        BY <2>3, HolderTypes DEF Spawn, TypeOK
      <3> QED
        BY <2>3, <3>1 DEF Spawn, TypeOK
    <2>4. ASSUME NEW how \in Exits, Exit(c, how) PROVE TypeOK'
      BY <2>4, WithoutTypes DEF Exit, TypeOK
    <2>5. CASE DescendantExits(c)
      BY <2>5, WithoutTypes DEF DescendantExits, TypeOK
    <2> QED
      BY <1>4, <2>1, <2>2, <2>3, <2>4, <2>5 DEF Command
  <1>5. CASE UNCHANGED vars
    BY <1>5 DEF vars, TypeOK
  <1> QED
    BY <1>1, <1>2, <1>3, <1>4, <1>5 DEF Next

\* Every variable stays in its type: in particular the captured output never
\* exceeds max_output_bytes.
THEOREM TypeCorrect == Spec => []TypeOK
  BY InitTypeOK, NextTypeOK, PTL DEF Spec

-----------------------------------------------------------------------------
(***************************************************************************)
(* The child.                                                              *)
(***************************************************************************)
LEMMA InitChildShape == Init => ChildShape
  BY DEF Init, ChildShape

LEMMA NextChildShape == TypeOK /\ ChildShape /\ [Next]_vars => ChildShape'
  <1> SUFFICES ASSUME TypeOK, ChildShape, [Next]_vars PROVE ChildShape'
    OBVIOUS
  <1> USE DEF caller, system, TypeOK
  <1>1. ASSUME NEW c \in Callers, Start(c) PROVE ChildShape'
    BY <1>1 DEF Start, Call, CallInvalid, Goto, ChildShape
  <1>2. ASSUME NEW c \in Callers, Run(c) PROVE ChildShape'
    <2>1. CASE MakePipes(c) \/ SpawnFails(c) \/ Fork(c) \/ CloseWriteEnds(c)
      BY <2>1 DEF MakePipes, MakePipe, SpawnFails, GiveUp, Fork, CloseWriteEnds, Goto, ChildShape
    <2>2. CASE \/ DeadlinePassed(c) \/ DeadlineAhead(c) \/ PollReady(c)
               \/ PollTimesOut(c) \/ PollInterrupted(c) \/ PollFails(c)
      BY <2>2 DEF DeadlinePassed, DeadlineAhead, PollReady, PollTimesOut, PollInterrupted,
                  PollFails, CaptureFails, Goto, ChildShape
    <2>3. CASE ReadOnce(c)
      <3>1. /\ pc[c] = "read" /\ \A d \in Callers \ {c} : pc'[d] = pc[d]
            /\ pc'[c] \in {"read", "deadline", "wait", "kill"}
            /\ UNCHANGED <<child, status>>
        BY <2>3 DEF ReadOnce, ReadChunks, ReadTooMuch, ReadEof, ReadFails, AfterRead,
                    CaptureFails, Goto
      <3> QED
        BY <3>1 DEF ChildShape
    <2>4. CASE Kill(c)
      BY <2>4 DEF Kill, Goto, ChildShape, Exits
    <2>5. CASE Wait(c) \/ WaitFails(c)
      BY <2>5 DEF Wait, WaitFails, Reap, Goto, ChildShape
    <2> QED
      BY <1>2, <2>1, <2>2, <2>3, <2>4, <2>5 DEF Run, Capture
  <1>3. ASSUME NEW c \in Callers, Expire(c) PROVE ChildShape'
    BY <1>3 DEF Expire, ChildShape
  <1>4. ASSUME NEW c \in Callers, Command(c) PROVE ChildShape'
    BY <1>4 DEF Command, Write, CloseStream, Spawn, Exit, DescendantExits, ChildShape
  <1>5. CASE UNCHANGED vars
    BY <1>5 DEF vars, ChildShape
  <1> QED
    BY <1>1, <1>2, <1>3, <1>4, <1>5 DEF Next

-----------------------------------------------------------------------------
(***************************************************************************)
(* Descriptors.                                                            *)
(***************************************************************************)
LEMMA InitDescriptorShape == Init => DescriptorShape
  <1> SUFFICES ASSUME Init PROVE DescriptorShape
    OBVIOUS
  <1>1. \A c \in Callers, s \in Streams : writers[c][s] = {}
    BY DEF Init, NoWriters
  <1>2. \A c \in Callers : pc[c] = "idle" /\ open[c] = {}
    BY DEF Init
  <1> QED
    BY <1>1, <1>2 DEF DescriptorShape

\* A step that neither moves a call nor hands out a caller's own write end.
LEMMA DescriptorStutters ==
  ASSUME DescriptorShape, pc' = pc, open' = open, ready' = ready,
         \A c \in Callers, s \in Streams :
           Parent(c) \in writers'[c][s] => Parent(c) \in writers[c][s]
  PROVE  DescriptorShape'
  BY DEF DescriptorShape

\* A step inside a capture, or one that ends it, of call c.
LEMMA DescriptorCapture ==
  ASSUME TypeOK, DescriptorShape, NEW c \in Callers,
         pc[c] \in {"deadline", "poll", "read", "kill"},
         pc'[c] \in {"deadline", "poll", "read", "kill", "wait"},
         pc'[c] = "read" => ready'[c] # {} /\ ready'[c] \subseteq Streams,
         \A d \in Callers \ {c} : pc'[d] = pc[d] /\ open'[d] = open[d] /\ ready'[d] = ready[d],
         \A d \in Callers, s \in Streams :
           Parent(d) \in writers'[d][s] => Parent(d) \in writers[d][s]
  PROVE  DescriptorShape'
  BY DEF DescriptorShape

LEMMA WithoutParents ==
  ASSUME NEW c \in Callers, NEW s \in Streams, NEW h
  PROVE  Parent(c) \in Without(h)[c][s] => Parent(c) \in writers[c][s]
  BY DEF Without

LEMMA NextDescriptorShape ==
  ASSUME TypeOK, DescriptorShape, [Next]_vars PROVE DescriptorShape'
  <1> USE DEF caller, system
  <1>1. ASSUME NEW c \in Callers, Start(c) PROVE DescriptorShape'
    <2>1. CASE Call(c)
      BY <2>1 DEF Call, Goto, NoWriters, TypeOK, DescriptorShape
    <2>2. CASE CallInvalid(c)
      BY <2>2, DescriptorStutters DEF CallInvalid
    <2> QED
      BY <1>1, <2>1, <2>2 DEF Start
  <1>2. ASSUME NEW c \in Callers, Run(c) PROVE DescriptorShape'
    <2>1. CASE MakePipe(c, "out", "stdout_pipe", "stderr_pipe")
      BY <2>1, HoldersDiffer DEF MakePipe, Goto, TypeOK, DescriptorShape, Streams
    <2>2. CASE MakePipe(c, "err", "stderr_pipe", "fork")
      BY <2>2, HoldersDiffer DEF MakePipe, Goto, TypeOK, DescriptorShape, Streams
    <2>3. CASE SpawnFails(c)
      BY <2>3 DEF SpawnFails, GiveUp, Goto, NoWriters, TypeOK, DescriptorShape
    <2>4. CASE Fork(c)
      <3>1. \A d \in Callers, s \in Streams :
              Parent(d) \in writers'[d][s] => Parent(d) \in writers[d][s]
        BY <2>4, HoldersDiffer DEF Fork
      <3> QED
        BY <2>4, <3>1 DEF Fork, Goto, TypeOK, DescriptorShape
    <2>5. CASE CloseWriteEnds(c)
      <3>1. /\ \A d \in Callers, s \in Streams :
                 Parent(d) \in writers'[d][s] => Parent(d) \in writers[d][s]
            /\ \A s \in Streams : Parent(c) \notin writers'[c][s]
        BY <2>5 DEF CloseWriteEnds, TypeOK
      <3> QED
        BY <2>5, <3>1 DEF CloseWriteEnds, Goto, TypeOK, DescriptorShape
    <2>6. CASE \/ DeadlinePassed(c) \/ DeadlineAhead(c)
               \/ PollTimesOut(c) \/ PollInterrupted(c) \/ PollFails(c)
      BY <2>6, DescriptorCapture
      DEF DeadlinePassed, DeadlineAhead, PollTimesOut, PollInterrupted, PollFails,
          CaptureFails, Goto, TypeOK
    <2>7. CASE PollReady(c)
      <3>1. Readable(c) # {} /\ Readable(c) \subseteq Streams
        BY <2>7 DEF PollReady, Readable, TypeOK
      <3> QED
        BY <2>7, <3>1, DescriptorCapture DEF PollReady, Goto, TypeOK
    <2>8. CASE ReadOnce(c)
      <3>1. CASE \/ \E s \in Streams, n \in 1..PipeSize : ReadTooMuch(c, s, n)
                 \/ ReadFails(c)
        BY <3>1, DescriptorCapture DEF ReadTooMuch, ReadFails, CaptureFails, Goto, TypeOK
      <3>2. ASSUME NEW s \in Streams, NEW left \in SUBSET Streams,
                   AfterRead(c, s, left), writers' = writers
            PROVE DescriptorShape'
        <4>1. pc[c] = "read" /\ ready[c] # {} /\ ready[c] \subseteq Streams
          BY <3>2 DEF AfterRead, DescriptorShape
        <4>2. /\ pc'[c] \in {"read", "deadline", "wait"}
              /\ pc'[c] = "read" => ready'[c] # {} /\ ready'[c] \subseteq Streams
          BY <3>2, <4>1 DEF AfterRead, TypeOK
        <4>3. \A d \in Callers \ {c} :
                pc'[d] = pc[d] /\ open'[d] = open[d] /\ ready'[d] = ready[d]
          BY <3>2 DEF AfterRead, TypeOK
        <4> QED
          BY <3>2, <4>1, <4>2, <4>3, DescriptorCapture
      <3>3. ASSUME NEW s \in Streams, NEW n \in 1..PipeSize, ReadChunks(c, s, n)
            PROVE DescriptorShape'
        BY <3>2, <3>3 DEF ReadChunks, TypeOK
      <3>4. ASSUME NEW s \in Streams, ReadEof(c, s) PROVE DescriptorShape'
        BY <3>2, <3>4 DEF ReadEof, TypeOK
      <3> QED
        BY <2>8, <3>1, <3>3, <3>4 DEF ReadOnce
    <2>9. CASE Kill(c)
      <3>1. \A d \in Callers, s \in Streams :
              Parent(d) \in writers'[d][s] => Parent(d) \in writers[d][s]
        BY <2>9, WithoutParents DEF Kill
      <3> QED
        BY <2>9, <3>1, DescriptorCapture DEF Kill, Goto, TypeOK
    <2>10. CASE Wait(c) \/ WaitFails(c)
      <3>1. PICK w : Reap(c, w)
        BY <2>10, Reaping
      <3> QED
        BY <3>1 DEF Reap, Goto, TypeOK, DescriptorShape
    <2> QED
      BY <1>2, <2>1, <2>2, <2>3, <2>4, <2>5, <2>6, <2>7, <2>8, <2>9, <2>10
      DEF Run, MakePipes, Capture
  <1>3. ASSUME NEW c \in Callers, Expire(c) PROVE DescriptorShape'
    BY <1>3, DescriptorStutters DEF Expire
  <1>4. ASSUME NEW c \in Callers, Command(c) PROVE DescriptorShape'
    <2>1. pc' = pc /\ open' = open /\ ready' = ready
      BY <1>4 DEF Command, Write, CloseStream, Spawn, Exit, DescendantExits
    <2>2. \A d \in Callers, s \in Streams :
            Parent(d) \in writers'[d][s] => Parent(d) \in writers[d][s]
      <3>1. ASSUME NEW s \in Streams, Write(c, s) \/ CloseStream(c, s)
            PROVE \A d \in Callers, t \in Streams :
                    Parent(d) \in writers'[d][t] => Parent(d) \in writers[d][t]
        <4>1. CASE Write(c, s)
          BY <4>1 DEF Write
        <4>2. CASE CloseStream(c, s)
          <5>1. writers' = [writers EXCEPT ![c][s] = writers[c][s] \ {Child(c)}]
            BY <4>2 DEF CloseStream
          <5>2. \A d \in Callers, t \in Streams : writers'[d][t] \subseteq writers[d][t]
            BY <5>1 DEF TypeOK
          <5> QED
            BY <5>2
        <4> QED
          BY <3>1, <4>1, <4>2
      <3>2. CASE Spawn(c)
        BY <3>2, HoldersDiffer DEF Spawn
      <3>3. CASE (\E how \in Exits : Exit(c, how)) \/ DescendantExits(c)
        BY <3>3, WithoutParents DEF Exit, DescendantExits
      <3> QED
        BY <1>4, <3>1, <3>2, <3>3 DEF Command
    <2> QED
      BY <2>1, <2>2, DescriptorStutters
  <1>5. CASE UNCHANGED vars
    BY <1>5, DescriptorStutters DEF vars
  <1> QED
    BY <1>1, <1>2, <1>3, <1>4, <1>5 DEF Next

-----------------------------------------------------------------------------
(***************************************************************************)
(* End of file.                                                            *)
(***************************************************************************)
\* Once at end of file, a pipe stays there: who holds no write end can neither
\* write nor hand one on.  Only making a new pipe ends it.
LEMMA EofStays ==
  ASSUME TypeOK, [Next]_vars, NEW c \in Callers, NEW s \in Streams,
         AtEof(c, s), ~MakePipes(c)
  PROVE  AtEof(c, s)'
  <1> USE DEF caller, system
  <1>0. unread[c][s] = 0 /\ writers[c][s] = {}
    BY DEF AtEof
  <1> SUFFICES unread'[c][s] = 0 /\ writers'[c][s] = {}
    BY DEF AtEof
  <1>1. ASSUME NEW d \in Callers, Start(d) PROVE unread'[c][s] = 0 /\ writers'[c][s] = {}
    BY <1>0, <1>1 DEF Start, Call, CallInvalid, NoWriters, TypeOK
  <1>2. ASSUME NEW d \in Callers, Run(d) PROVE unread'[c][s] = 0 /\ writers'[c][s] = {}
    <2>1. CASE MakePipes(d)
      BY <2>1, <1>0 DEF MakePipes, MakePipe, TypeOK
    <2>2. CASE SpawnFails(d)
      BY <2>2, <1>0 DEF SpawnFails, GiveUp, NoWriters, TypeOK
    <2>3. CASE Fork(d)
      BY <2>3, <1>0 DEF Fork
    <2>4. CASE CloseWriteEnds(d)
      BY <2>4, <1>0 DEF CloseWriteEnds, TypeOK
    <2>5. CASE \/ DeadlinePassed(d) \/ DeadlineAhead(d) \/ PollReady(d)
               \/ PollTimesOut(d) \/ PollInterrupted(d) \/ PollFails(d) \/ ReadFails(d)
      BY <2>5, <1>0 DEF DeadlinePassed, DeadlineAhead, PollReady, PollTimesOut,
                        PollInterrupted, PollFails, ReadFails
    <2>6. ASSUME NEW t \in Streams, NEW n \in 1..PipeSize,
                 ReadChunks(d, t, n) \/ ReadTooMuch(d, t, n)
          PROVE unread'[c][s] = 0 /\ writers'[c][s] = {}
      <3>1. /\ n <= unread[d][t] /\ writers' = writers
            /\ unread' = [unread EXCEPT ![d][t] = @ - n]
        BY <2>6 DEF ReadChunks, ReadTooMuch
      <3>2. c # d \/ s # t
        BY <3>1, <1>0, SizeAssumption
      <3> QED
        BY <3>1, <3>2, <1>0 DEF TypeOK
    <2>7. ASSUME NEW t \in Streams, ReadEof(d, t)
          PROVE unread'[c][s] = 0 /\ writers'[c][s] = {}
      BY <2>7, <1>0 DEF ReadEof
    <2>8. CASE Kill(d)
      BY <2>8, <1>0 DEF Kill, Without
    <2>9. CASE Wait(d) \/ WaitFails(d)
      BY <2>9, <1>0 DEF Wait, WaitFails, Reap
    <2> QED
      BY <1>2, <2>1, <2>2, <2>3, <2>4, <2>5, <2>6, <2>7, <2>8, <2>9
      DEF Run, Capture, ReadOnce
  <1>3. ASSUME NEW d \in Callers, Expire(d) PROVE unread'[c][s] = 0 /\ writers'[c][s] = {}
    BY <1>0, <1>3 DEF Expire
  <1>4. ASSUME NEW d \in Callers, Command(d) PROVE unread'[c][s] = 0 /\ writers'[c][s] = {}
    <2>1. ASSUME NEW t \in Streams, Write(d, t) PROVE unread'[c][s] = 0 /\ writers'[c][s] = {}
      <3>1. c # d \/ s # t
        BY <2>1, <1>0 DEF Write
      <3> QED
        BY <2>1, <3>1, <1>0 DEF Write, TypeOK
    <2>2. ASSUME NEW t \in Streams, CloseStream(d, t)
          PROVE unread'[c][s] = 0 /\ writers'[c][s] = {}
      BY <2>2, <1>0 DEF CloseStream, TypeOK
    <2>3. CASE Spawn(d)
      BY <2>3, <1>0 DEF Spawn
    <2>4. CASE (\E how \in Exits : Exit(d, how)) \/ DescendantExits(d)
      BY <2>4, <1>0 DEF Exit, DescendantExits, Without
    <2> QED
      BY <1>4, <2>1, <2>2, <2>3, <2>4 DEF Command
  <1>5. CASE UNCHANGED vars
    BY <1>0, <1>5 DEF vars
  <1> QED
    BY <1>1, <1>2, <1>3, <1>4, <1>5 DEF Next

LEMMA InitCaptureShape == Init => CaptureShape
  BY DEF Init, CaptureShape, InCapture

\* What a step does to a call, as far as its result is concerned.
LEMMA CallSteps ==
  ASSUME TypeOK, DescriptorShape, CaptureShape, [Next]_vars, NEW c \in Callers
  PROVE
    \/ pc'[c] = pc[c] /\ outcome'[c] = outcome[c] /\ open'[c] = open[c]
    \/ pc'[c] = "idle" /\ outcome'[c] \in Errors
    \/ pc[c] = "idle" /\ pc'[c] = "stdout_pipe" /\ outcome'[c] = "none"
    \/ MakePipes(c)
    \/ /\ pc[c] \in {"fork", "close_write_ends"}
       /\ pc'[c] \in {"close_write_ends", "deadline"}
       /\ outcome'[c] = outcome[c] /\ open'[c] = open[c]
    \/ /\ InCapture(c) /\ pc'[c] = "kill" /\ outcome'[c] \in Errors
    \/ /\ InCapture(c) /\ outcome'[c] = outcome[c]
       /\ pc'[c] \in {"deadline", "poll", "read", "wait"}
       /\ open'[c] \subseteq open[c]
       /\ \A s \in open[c] \ open'[c] : AtEof(c, s)
       /\ pc'[c] = "wait" => open'[c] = {}
    \/ pc[c] = "kill" /\ pc'[c] = "wait" /\ outcome'[c] = outcome[c] /\ open'[c] = open[c]
    \/ Wait(c) \/ WaitFails(c)
  <1> USE DEF caller, system
  <1> DEFINE Same == pc'[c] = pc[c] /\ outcome'[c] = outcome[c] /\ open'[c] = open[c]
  <1>1. ASSUME NEW d \in Callers, d # c, Start(d) \/ Run(d) PROVE Same
    <2>1. CASE Start(d)
      BY <1>1, <2>1 DEF Start, Call, CallInvalid, Goto, TypeOK
    <2>2. CASE MakePipes(d) \/ SpawnFails(d) \/ Fork(d) \/ CloseWriteEnds(d)
      BY <1>1, <2>2 DEF MakePipes, MakePipe, SpawnFails, GiveUp, Fork, CloseWriteEnds, Goto, TypeOK
    <2>3. CASE Capture(d)
      BY <1>1, <2>3 DEF Capture, DeadlinePassed, DeadlineAhead, PollReady, PollTimesOut,
                        PollInterrupted, PollFails, ReadOnce, ReadChunks, ReadTooMuch, ReadEof, ReadFails,
                        AfterRead, CaptureFails, Goto, TypeOK
    <2>4. CASE Kill(d) \/ Wait(d) \/ WaitFails(d)
      BY <1>1, <2>4 DEF Kill, Wait, WaitFails, Reap, Goto, TypeOK
    <2> QED
      BY <1>1, <2>1, <2>2, <2>3, <2>4 DEF Run
  <1>2. ASSUME NEW d \in Callers, Expire(d) \/ Command(d) PROVE Same
    BY <1>2 DEF Expire, Command, Write, CloseStream, Spawn, Exit, DescendantExits
  <1>3. CASE Start(c)
    BY <1>3 DEF Start, Call, CallInvalid, Goto, TypeOK, Errors
  <1>4. CASE SpawnFails(c)
    BY <1>4 DEF SpawnFails, GiveUp, Goto, TypeOK, Errors
  <1>5. CASE Fork(c) \/ CloseWriteEnds(c)
    BY <1>5 DEF Fork, CloseWriteEnds, Goto, TypeOK
  <1>6. CASE \/ DeadlinePassed(c) \/ PollTimesOut(c) \/ PollFails(c) \/ ReadFails(c)
             \/ \E s \in Streams, n \in 1..PipeSize : ReadTooMuch(c, s, n)
    BY <1>6 DEF DeadlinePassed, PollTimesOut, PollFails, ReadFails, ReadTooMuch,
                CaptureFails, Goto, TypeOK, Errors, InCapture
  <1>7. CASE DeadlineAhead(c) \/ PollInterrupted(c) \/ PollReady(c)
    BY <1>7 DEF DeadlineAhead, PollInterrupted, PollReady, Goto, TypeOK, InCapture
  <1>8. ASSUME NEW s \in Streams, NEW n \in 1..PipeSize, ReadChunks(c, s, n)
        PROVE /\ InCapture(c) /\ outcome'[c] = outcome[c] /\ open'[c] = open[c]
              /\ pc'[c] \in {"deadline", "poll", "read", "wait"}
              /\ pc'[c] = "wait" => open'[c] = {}
    BY <1>8 DEF ReadChunks, AfterRead, TypeOK, InCapture
  <1>9. ASSUME NEW s \in Streams, ReadEof(c, s)
        PROVE /\ InCapture(c) /\ outcome'[c] = outcome[c] /\ open'[c] = open[c] \ {s}
              /\ AtEof(c, s)
              /\ pc'[c] \in {"deadline", "poll", "read", "wait"}
              /\ pc'[c] = "wait" => open'[c] = {}
    BY <1>9 DEF ReadEof, AfterRead, TypeOK, InCapture
  <1>10. CASE Kill(c)
    BY <1>10 DEF Kill, Goto, TypeOK
  <1>11. CASE UNCHANGED vars
    BY <1>11 DEF vars
  <1> QED
    BY <1>1, <1>2, <1>3, <1>4, <1>5, <1>6, <1>7, <1>8, <1>9, <1>10, <1>11
    DEF Next, Run, Capture, ReadOnce

LEMMA MakingPipes ==
  ASSUME TypeOK, NEW c \in Callers, MakePipes(c)
  PROVE  /\ pc[c] \in {"stdout_pipe", "stderr_pipe"} /\ pc'[c] \in {"stderr_pipe", "fork"}
         /\ outcome'[c] = outcome[c]
  BY DEF MakePipes, MakePipe, Goto, TypeOK

LEMMA Waiting ==
  ASSUME TypeOK, NEW c \in Callers, Wait(c) \/ WaitFails(c)
  PROVE  /\ pc[c] = "wait" /\ pc'[c] = "idle" /\ child[c] = "zombie" /\ status' = status
         /\ outcome'[c] \in {status[c], "io"} \/ outcome[c] # "none"
         /\ outcome[c] # "none" => outcome'[c] = outcome[c]
  BY DEF Wait, WaitFails, Reap, Goto, TypeOK

LEMMA NextCaptureShape ==
  ASSUME TypeOK, TypeOK', ChildShape, DescriptorShape, DescriptorShape', CaptureShape, [Next]_vars
  PROVE  CaptureShape'
  <1> DEFINE Shape(c) ==
        /\ pc[c] \in {"stdout_pipe", "stderr_pipe", "fork", "close_write_ends",
                      "deadline", "poll", "read"} => outcome[c] = "none"
        /\ pc[c] = "kill" => outcome[c] \in Errors
        /\ pc[c] = "wait" => outcome[c] \in Errors \cup {"none"}
        /\ pc[c] = "wait" /\ outcome[c] = "none" => open[c] = {}
        /\ (InCapture(c) \/ (pc[c] = "wait" /\ outcome[c] = "none"))
             => \A s \in Streams \ open[c] : AtEof(c, s)
  <1> SUFFICES ASSUME NEW c \in Callers PROVE Shape(c)'
    BY DEF CaptureShape
  <1>1. Shape(c)
    BY DEF CaptureShape
  <1>2. "none" \notin Errors
    BY DEF Errors
  <1>3. ~MakePipes(c) => \A s \in Streams : AtEof(c, s) => AtEof(c, s)'
    BY EofStays
  <1>4. CASE pc'[c] = pc[c] /\ outcome'[c] = outcome[c] /\ open'[c] = open[c] /\ ~MakePipes(c)
    BY <1>1, <1>3, <1>4 DEF InCapture
  <1>5. CASE pc'[c] = "idle"
    BY <1>5 DEF InCapture
  <1>6. CASE pc[c] = "idle" /\ pc'[c] = "stdout_pipe" /\ outcome'[c] = "none"
    BY <1>6 DEF InCapture
  <1>7. CASE MakePipes(c)
    BY <1>1, <1>7, MakingPipes DEF InCapture
  <1>8. CASE /\ pc[c] \in {"fork", "close_write_ends"}
             /\ pc'[c] \in {"close_write_ends", "deadline"}
             /\ outcome'[c] = outcome[c] /\ open'[c] = open[c]
    <2>1. open'[c] = Streams
      BY <1>8 DEF DescriptorShape
    <2> QED
      BY <1>1, <1>8, <2>1 DEF InCapture
  <1>9. CASE InCapture(c) /\ pc'[c] = "kill" /\ outcome'[c] \in Errors
    BY <1>9, <1>2 DEF InCapture
  <1>10. CASE /\ InCapture(c) /\ outcome'[c] = outcome[c]
              /\ pc'[c] \in {"deadline", "poll", "read", "wait"}
              /\ open'[c] \subseteq open[c]
              /\ \A s \in open[c] \ open'[c] : AtEof(c, s)
              /\ pc'[c] = "wait" => open'[c] = {}
    <2>1. outcome[c] = "none" /\ \A s \in Streams \ open'[c] : AtEof(c, s)
      BY <1>1, <1>10 DEF InCapture
    <2>2. ~MakePipes(c)
      BY <1>10, MakingPipes DEF InCapture
    <2> QED
      BY <1>3, <1>10, <2>1, <2>2 DEF InCapture
  <1>11. CASE pc[c] = "kill" /\ pc'[c] = "wait" /\ outcome'[c] = outcome[c] /\ open'[c] = open[c]
    BY <1>1, <1>2, <1>11 DEF InCapture
  <1>12. CASE Wait(c) \/ WaitFails(c)
    BY <1>5, <1>12, Waiting
  <1> QED
    BY <1>4, <1>5, <1>6, <1>7, <1>8, <1>9, <1>10, <1>11, <1>12, CallSteps

LEMMA StatusStays ==
  ASSUME TypeOK, ChildShape, [Next]_vars, NEW c \in Callers, pc[c] = "idle", pc'[c] = "idle"
  PROVE  status'[c] = status[c]
  <1> USE DEF caller, system
  <1>1. child[c] \in {"none", "reaped"}
    BY DEF ChildShape
  <1>2. ASSUME NEW d \in Callers, Start(d) PROVE status'[c] = status[c]
    BY <1>2 DEF Start, Call, CallInvalid, Goto, TypeOK
  <1>3. ASSUME NEW d \in Callers, Run(d) PROVE status'[c] = status[c]
    <2>1. CASE Kill(d)
      BY <1>1, <2>1 DEF Kill, TypeOK
    <2>2. CASE ~Kill(d)
      BY <1>3, <2>2
      DEF Run, MakePipes, MakePipe, SpawnFails, Fork, CloseWriteEnds, Wait, WaitFails,
          Reap, Capture, DeadlinePassed, DeadlineAhead, PollReady, PollTimesOut, PollInterrupted,
          PollFails,
          ReadOnce, ReadChunks, ReadTooMuch, ReadEof, ReadFails
    <2> QED
      BY <2>1, <2>2
  <1>4. ASSUME NEW d \in Callers, Expire(d) \/ Command(d) PROVE status'[c] = status[c]
    BY <1>1, <1>4 DEF Expire, Command, Write, CloseStream, Spawn, Exit, DescendantExits, TypeOK
  <1>5. CASE UNCHANGED vars
    BY <1>5 DEF vars
  <1> QED
    BY <1>2, <1>3, <1>4, <1>5 DEF Next

LEMMA NextExitMeansCaptured ==
  ASSUME TypeOK, ChildShape, DescriptorShape, CaptureShape, ExitMeansCaptured, [Next]_vars
  PROVE  ExitMeansCaptured'
  <1> SUFFICES ASSUME NEW c \in Callers, pc'[c] = "idle", outcome'[c] \in Exits
               PROVE  outcome'[c] = status'[c] /\ \A s \in Streams : AtEof(c, s)'
    BY DEF ExitMeansCaptured
  <1>1. Exits \cap Errors = {} /\ "none" \notin Exits
    BY DEF Exits, Errors
  <1>2. \/ pc[c] = "idle" /\ outcome'[c] = outcome[c]
        \/ Wait(c) \/ WaitFails(c)
    BY <1>1, CallSteps, MakingPipes
  <1>3. CASE pc[c] = "idle" /\ outcome'[c] = outcome[c]
    <2>1. outcome[c] = status[c] /\ \A s \in Streams : AtEof(c, s)
      BY <1>3 DEF ExitMeansCaptured
    <2>2. ~MakePipes(c)
      BY <1>3, MakingPipes
    <2> QED
      BY <1>3, <2>1, <2>2, EofStays, StatusStays
  <1>4. CASE Wait(c) \/ WaitFails(c)
    <2>1. pc[c] = "wait" /\ outcome[c] = "none" /\ "io" \notin Exits
      BY <1>1, <1>4, Waiting DEF CaptureShape, Exits
    <2>2. \A s \in Streams : AtEof(c, s)
      BY <2>1 DEF CaptureShape
    <2>3. ~MakePipes(c)
      BY <2>1, MakingPipes
    <2> QED
      BY <1>4, <2>1, <2>2, <2>3, EofStays, Waiting
  <1> QED
    BY <1>2, <1>3, <1>4

-----------------------------------------------------------------------------
(***************************************************************************)
(* The inductive invariant, and what follows from it.                      *)
(***************************************************************************)
THEOREM Inductive == Spec => []IInv
  <1>1. Init => IInv
    <2>1. Init => ExitMeansCaptured
      BY DEF Init, ExitMeansCaptured, Exits
    <2> QED
      BY <2>1, InitTypeOK, InitChildShape, InitDescriptorShape, InitCaptureShape DEF IInv
  <1>2. IInv /\ [Next]_vars => IInv'
    <2> SUFFICES ASSUME IInv, [Next]_vars PROVE IInv'
      OBVIOUS
    <2>1. TypeOK' /\ ChildShape'
      BY NextTypeOK, NextChildShape DEF IInv
    <2>2. DescriptorShape'
      BY NextDescriptorShape DEF IInv
    <2>3. CaptureShape'
      BY <2>1, <2>2, NextCaptureShape DEF IInv
    <2>4. ExitMeansCaptured'
      BY NextExitMeansCaptured DEF IInv
    <2> QED
      BY <2>1, <2>2, <2>3, <2>4 DEF IInv
  <1> QED
    BY <1>1, <1>2, PTL DEF Spec

\* However a call ends, its child has ended and been reaped.
THEOREM NoChildIsLeft == Spec => []NoChildLeft
  <1>1. IInv => NoChildLeft
    BY DEF IInv, ChildShape, NoChildLeft
  <1> QED
    BY <1>1, Inductive, PTL

\* However a call ends, it leaves no descriptor open in the calling process.
THEOREM NoDescriptorIsLeft == Spec => []NoDescriptorLeft
  <1>1. IInv => NoDescriptorLeft
    BY DEF IInv, DescriptorShape, NoDescriptorLeft
  <1> QED
    BY <1>1, Inductive, PTL

\* A call that reports an exit status has captured all its command's output,
\* also while other threads' children hold and close its pipes.
THEOREM ExitStatusMeansCaptured == Spec => []ExitMeansCaptured
  BY Inductive, PTL DEF IInv

=============================================================================

----------------------------- MODULE SnapshotList -----------------------------
(***************************************************************************)
(* list_snapshots_in of src/src/snapshots/list.cpp: one thread reads the   *)
(* directory entry by entry, and each file found, while a RestoreWorker    *)
(* and other threads restore, delete and save in it.                       *)
(***************************************************************************)
EXTENDS RestoreWorker

CONSTANTS Bystanders,  \* more files named like snapshots, that nobody touches
          Undated      \* those of all the files that have no date in their name

Files == Snapshots \cup Bystanders

ASSUME FilesAssumption == Undated \subseteq Files /\ Bystanders \cap Snapshots = {}

VARIABLES
  scan,    \* the next system call of list_snapshots_in
  seen,    \* the entries the iterator has been at
  path,    \* the one it is at: {} or a set of one
  out,     \* what has been listed, "whole" or "empty"
  \* History:
  steady,  \* files that have been there since the directory was opened
  ever,    \* files that have been there at some time since
  closed   \* dated files that could not be opened

scanner == <<scan, seen, path, out, steady, ever, closed>>
listVars == <<allVars, scanner>>

IsThere(f) == f \in Snapshots => entry[f] # "none"
IsFile(f) == f \in Snapshots => entry[f] = "file"
Present == {f \in Files : IsThere(f)}

LInit ==
  /\ WInit
  /\ scan = "idle"
  /\ seen = {} /\ path = {} /\ out = {}
  /\ steady = {} /\ ever = {} /\ closed = {}

CallList ==
  /\ scan = "idle" /\ scan' = "exists"
  /\ RoomForCalls
  /\ calls' = calls + 1
  /\ UNCHANGED <<directory, local, before, ran, disturbed, intruded, handle>>
  /\ UNCHANGED <<seen, path, out, steady, ever, closed>>

\* The call's locals go with it, and their history.
ListReturns ==
  /\ scan' = "idle"
  /\ seen' = {} /\ out' = {} /\ steady' = {} /\ ever' = {} /\ closed' = {}
  /\ UNCHANGED path

\* exists and is_directory: an error of either is returned, and a directory that
\* is missing has no snapshots.  Either way nothing is listed, and the
\* properties see no more of it.
Inspect ==
  /\ scan = "exists"
  /\ \/ scan' = "open" /\ UNCHANGED <<seen, path, out, steady, ever, closed>>
     \/ ListReturns

OpenDirectory ==
  /\ scan = "open"
  /\ \/ /\ scan' = "next" /\ steady' = Present /\ ever' = Present
        /\ UNCHANGED <<seen, path, out, closed>>
     \/ ListReturns

\* readdir returns each entry once: every one that stays, and of those that come
\* or go meanwhile any.
NextEntry ==
  /\ scan = "next" /\ scan' = "read"
  /\ \E s \in ever \ seen : path' = {s} /\ seen' = seen \cup {s}
  /\ UNCHANGED <<out, steady, ever, closed>>

EndOfDirectory == scan = "next" /\ steady \subseteq seen /\ ListReturns

\* After an error of increment the iterator equals the end: the loop is left by
\* its condition, its test of the error is not reached, and out is returned.
IncrementFails ==
  /\ scan = "next" /\ scan' = "cut"
  /\ UNCHANGED <<seen, path, out, steady, ever, closed>>

CutShort == scan = "cut" /\ ListReturns

\* read_file and parse_snapshot_text.  Reading a directory fails, and so may
\* reading a file; either leaves an empty text and no bad bit of the file's stream.
Read(f) ==
  \/ ~IsThere(f) /\ UNCHANGED <<out, closed>>
  \/ IsThere(f) /\ closed' = closed \cup ({f} \ Undated) /\ UNCHANGED out
  \/ /\ IsThere(f)
     /\ \E text \in {"empty"} \cup (IF IsFile(f) THEN {"whole"} ELSE {}) :
          out' = IF f \in Undated THEN out ELSE out \cup {[snapshot |-> f, text |-> text]}
     /\ UNCHANGED closed

\* Mutant: a file that cannot be read ends the scan.
ReadFileOrBreak ==
  /\ scan = "read" /\ scan' = "next"
  /\ path' = {}
  /\ \E f \in path : Read(f)
  /\ seen' = IF out' = out THEN Files ELSE seen
  /\ UNCHANGED <<steady, ever>>

ReadFile ==
  /\ scan = "read" /\ scan' = "next"
  /\ path' = {}
  /\ \E f \in path : Read(f)
  /\ UNCHANGED <<seen, steady, ever>>

ListStep == /\ \/ Inspect \/ OpenDirectory \/ NextEntry \/ EndOfDirectory
               \/ IncrementFails \/ CutShort \/ ReadFile
            /\ UNCHANGED allVars

\* What the others do to the directory is noted.
Meanwhile ==
  /\ WNext
  /\ steady' = steady \cap Present'
  /\ ever' = IF scan \in {"next", "read"} THEN ever \cup Present' ELSE ever
  /\ UNCHANGED <<scan, seen, path, out, closed>>

LNext == CallList \/ ListStep \/ Meanwhile

LSpec == LInit /\ [][LNext]_listVars

\* As for the worker: the scan may stay where it is.
LFairSpec == LSpec /\ WorkersRun

(***************************************************************************)
(* Properties                                                              *)
(***************************************************************************)
Listed == {o.snapshot : o \in out}

\* A scan that comes to the end of the directory lists what it held: only dated
\* snapshots that were there while it ran, and every one that was there all the
\* time and could be opened, whatever was restored, deleted and saved meanwhile
\* and whatever other entries could not be read.
ScanIsFaithful ==
  [][(scan = "next" /\ scan' = "idle") =>
       /\ Listed \subseteq ever \ Undated
       /\ steady \ (Undated \cup closed) \subseteq Listed]_listVars

\* What makes it hold: every steady file the iterator has been at is being read,
\* listed, or has a reason not to be; and the call's history is the scan's.
ScanInv ==
  /\ scan \in {"idle", "exists", "open"} => seen = {} /\ out = {}
  /\ scan # "read" => path = {}
  /\ \A f, g \in path : f = g
  /\ path \subseteq ever
  /\ steady \subseteq Present
  /\ Listed \subseteq ever \ Undated
  /\ steady \cap seen \subseteq Undated \cup closed \cup Listed \cup path

(***************************************************************************)
(* Two statements of list.hpp that do not hold.                            *)
(***************************************************************************)
\* A directory that cannot be iterated is an Error: no list is returned of one
\* whose iteration was cut short.
PartialIsAnError == scan # "cut"

\* Malformed snapshot files are skipped: what is listed has been read whole.  (A
\* directory, and a file that cannot be read, are listed without sessions.)
ListedIsRead == \A o \in out : o.text = "whole"

=============================================================================

# lazytmux in TLA+

lazytmux manages tmux sessions: it lists, ranks and attaches to them, builds
them from templates, and saves, restores and deletes tmux-resurrect snapshots.
It keeps no daemon. What state there is lives in files several lazytmux
processes share, in the tmux server every tmux client shares, in child
processes, and in the few objects of an interactive program. This directory
holds TLA+ models of the parts whose correctness depends on order, failure or
concurrency, the TLC configurations that check them, and TLAPS proofs about
all of them.

Source paths below are relative to `src/`.

## 1. The system

### Components that keep or change state

| component | state | operations | interacts with |
|---|---|---|---|
| frecency store (`src/frecency*.cpp`) | the JSON store, its `.tmp` and `.lock` files; an `Index` in memory | `record_session_visit`, `load_ranked_sessions`, `load_index`, `save_index` | other lazytmux processes, through the files |
| process runner (`src/io/process.cpp`) | two pipes, a child, a deadline, the captured bytes, per call | `run_command` | every component that runs a program; other threads, through `fork` |
| snapshot restore (`src/snapshots/restore.cpp`) | the `last` symlink; a `RestoreWorker`'s thread, promise and future | `restore_snapshot`, the worker's `request_stop`, `ready`, `try_take`, destructor | the process runner (the script), deletion, tmux-resurrect |
| snapshot deletion (`src/snapshots/ops.cpp`) | the snapshot file and `last` | `delete_snapshot` | restores in the same directory |
| snapshot listing (`src/snapshots/list.cpp`) | none; reads the directory | `list_snapshots` | whatever changes the directory meanwhile |
| template materialization (`src/templates.cpp`) | sessions, windows and panes of the tmux server | `materialize_template` | the tmux commands, other clients of the server |
| tmux commands and runner (`src/tmux/commands.cpp`, `run.cpp`) | none of their own | one function per tmux command, 32 of them | the process runner, the server and its other clients |
| tmux texts (`src/tmux/parse.cpp`, `ids.cpp`) | none | `parse_sessions` and four more, `SessionName::make` | the formats sent to tmux and what it prints |
| nesting detection (`src/nesting.cpp`, `proc.cpp`) | none; reads `/proc` | `count_tmux_in_walk` | the processes of the system, which change meanwhile |
| filter (`src/filter.cpp`) | buffer, activity, cached folded pattern | `enter`, `handle_key`, `score` | the user's keys |
| command mode (`src/cmdmode/*.cpp`) | none; the caller keeps the line | `tokenize`, `shell_quote`, `complete` | the user's keys |
| command line program (`src/cli*.cpp`, `exec.cpp`) | the process itself, which `attach` replaces | `parse_args`, `run_request` | configuration, materialization, tmux |
| configuration (`src/config.cpp`) | none; reads one file | `load_config`, `parse_config` | the command line program |

### Pure or read-only components

Socket discovery (a directory scan), snapshot timestamps, socket names and paths,
zoxide import, colours, errors and the version, the user interface example, build
files. They are listed in `PROJECT.json` with the reason each is not modelled.

### What is hard, and what makes each part correct

* **Frecency store.** Several processes load, change and replace one file. The
  lock must span load to rename; readers take no lock; a process may die
  anywhere; the disk may fill after the last check of the stream. Correct: a
  visit is counted once if its call succeeded and not at all if it failed, the
  file always parses, and the lock never outlives a call.
* **Process runner.** A command may write for ever, hang, close its outputs and
  go on, or leave a process behind that holds the pipes; threads fork while
  others have pipes open, and the pipes lack `O_CLOEXEC`. Correct: no zombie and
  no descriptor is left, the deadline is kept, and an exit status means that the
  whole output was read.
* **Snapshot directory.** A restore removes and recreates `last`, runs a script
  and rolls back on failure, a deletion reads `last` and later removes it, and
  nothing locks the directory. Correct: all or nothing for a call that nobody
  disturbs, and a `last` that is not a symlink is removed only in the window between
  a call's look at it and its removal.  Nothing bounds the script's run.
* **Restore worker.** Stop, completion, polling and destruction race. Correct:
  one result, the true one, and nothing of the worker runs after its destructor,
  which returns if the script does.
* **Snapshot listing.** The directory is read entry by entry and each file is
  opened later, while snapshots are saved, restored and deleted. Correct: what was
  there throughout and can be read is listed, and a file that is gone takes no other
  with it.
* **Command library.** A target is a text that tmux looks up anew: an id of a window
  that may be closed, or a name that may be a prefix of another. A command may be
  executed after its caller has given it up. Names, directories and fields share one
  line, separated by `|||`. Correct: what is listed is what the server had, success and
  failure are what happened, and a command acts on what the caller was shown or named.
* **Materialization.** Each tmux command is a separate process that may be given
  up while the server has yet to execute it; a session name may come to mean
  another session between two commands, or be a number, which new-window takes for a
  place in the current session; the server may end with its last session, and the next
  one gives the same ids to other panes. Correct: what is left is a beginning of
  the template, commands go into the panes made for them as long as the server lives
  that made them, and the call builds in the session it has created.
* **Nesting.** A walk up the process tree with two reads per process, while pids
  are reused. Correct: it ends, counts nothing twice and is exact on a system
  that stands still.
* **Filter and command mode.** A cache that may be stale, a greedy matcher, and
  a quoting function and a tokenizer that must be inverse to each other.
* **Command line program and configuration.** An option's value may look like an
  option; one malformed template must take no other with it; the file is looked
  for, opened and read in three steps while somebody edits it. Correct: each line
  has the one reading of the usage text, and no command runs on defaults that
  stand for a file `exists()` has found.

`PROJECT.json` lists the hazards, each at the line where it bites, with the
properties that catch it or the reason that none does.

## 2. Modules

```
FrecencyIndex <- FrecencySpec            abstract promise of the store
              <- FrecencyStore           lock, load, visit, save   <- _proofs, MC
ProcessRunner                            run_command               <- _proofs, MC
SnapshotDir                              restore and delete        <- Snapshot_proofs, MC
   ^-- RestoreWorker                     the worker over it        <- Snapshot_proofs, MC
          ^-- SnapshotList               listings beside them      <- Snapshot_proofs, MC
Rows <- TmuxTree <- Commands             texts, server, library, attach  <- _proofs, MC
TmuxServer <- Materialize                templates over the server       <- _proofs, MC
Nesting                                  the /proc walk            <- _proofs, MC
Filter                                   FilterState               <- Interface_proofs, MC
Cmdmode                                  tokenize, quote, complete <- Interface_proofs, MC
Cli                                      arguments, config, commands     <- _proofs, MC
```

`PROJECT.json` `map` gives the source lines of every definition. Definitions
under a comment `Mutant:` are plausible bugs of the code; they are in no
behaviour, and each property is confirmed to fail when one of them replaces the
definition it varies.

**FrecencyIndex** is `Entry` and `Index`: `Visited` is `Index::visit` with its
saturation, `Loaded` the narrowing of a JSON number to `uint32_t`. A missing row
is the default-constructed one. `U32Max` stands for the largest `uint32_t`.

**FrecencyStore** has an action per system call. `pc[p]` is the call p makes
next: `lock` (`StoreLock::acquire`), `exists` and `read` (`load_index`), `open`,
`write` and `rename` (`save_index`), `return`. `Finish` is an early return with
an error. `Acquire` needs a free lock, `AcquireBusy` is `LOCK_NB` failing.
`WriteTmpLost` is a write error that shows only when the `ofstream` is destroyed,
after the last check. `Crash` may happen anywhere; the kernel then drops the
`flock`. `store` and `tmp` hold an index, `Missing` or `Malformed`. Histories
(`acked`, `unsure`, `base`, `lostFlush`) are read by no action.

**FrecencySpec** is what callers may rely on: a call takes effect at one
instant between its call and its return, or fails without effect. The mapping is
`persisted <- View(store)` and `phase <- PhaseOf`; the rename is the instant of
a visit and the reading of the open file that of a ranking.

**ProcessRunner** follows `run_command`: pipes, `fork`, closing the write ends,
the loop of deadline check, `poll` (which may be interrupted) and reads (stdout before
stderr), `kill`, `waitpid` (which may fail). `writers[c][s]` is the set of processes that hold the write end of a
pipe; `Fork` gives the child every write end its process has open, those of other
threads' calls included. The command is the environment: it writes, closes its
streams, starts a descendant, exits, or does nothing.

**SnapshotDir** is the directory under `restore_snapshot` and `delete_snapshot`,
an action per system call, with failures at each of them (`CallFails`), crashes,
tmux-resurrect's saves (`Save`) and scripts that put something else at `last`
(`ScriptSpoilsLast`). `entry[s]` is what is at a snapshot's path, `last` a
snapshot, `Absent` or `Foreign` (there but no symlink). `disturbed[a]` records
that somebody else changed the directory during a's call, and `intruded[a]` that
somebody made `last` foreign after the call had found out what it is. `ScriptEnds` need
not happen: nothing in `restore_snapshot` or `run_command` ends a script that has closed
its outputs and hangs.

**RestoreWorker** composes SnapshotDir with the jthread, its stop token, and the
promise and future its owner polls. The token is looked at once, before the
restore begins. `restore_snapshot` runs there with every step of SnapshotDir; `Report` sets
the promise, and only then does the thread end (`Ends`), which is what the destructor
waits for.

**SnapshotList** adds a thread that executes `list_snapshots_in`: `CallList`,
`Inspect`, `OpenDirectory`, then `NextEntry` and `ReadFile` in turn until
`EndOfDirectory`. What everybody else does is `Meanwhile`, a step of RestoreWorker. The
iterator returns every entry that stays and any of those that come or go.
`IncrementFails` is the error that ends the loop like its condition does. The histories
`steady`, `ever` and `closed` are the files that were there throughout, that were
there at all, and that could not be opened. What `parse_snapshot_text` counts is
abstracted to whether it had the text.

**Rows** is where lazytmux and tmux exchange text: which texts become a
`SessionName`, the formats, splitting at `|||` and at line breaks, the row parsers,
and the short answers of `commands.cpp`. A text is a sequence of characters here,
since which texts are taken apart wrongly is the question. `Split` is written as a
recursive function.

**TmuxTree** is the server again, as a record of sessions, windows and panes, with
every command the library sends. `Effects(t, c)` is the set of what command c may do to
tree t. Targets are looked up as tmux does: ids exactly, names by prefix (exactly after
`=`), a client's name for a session too, and the target of new-window among windows first. A server that loses its last session is gone, and the
next one counts its ids from 0.

**Commands** has one definition per function of `commands.cpp`: the command it makes
and how the answer is read. The functions are operators; the behaviour they share is
`Begin`, `Serve`, `Receive`, `GivesUp` and `ServeLate`. `shown` holds the ids the
caller has read from answers, each with the server it belongs to. `CallAttach` and
`ReplaceProcess` are `run_attach`: has-session, then the process becomes the tmux
client, and the server looks the name up a second time. `Others` are other clients.

**TmuxServer** is not code of the repository: it is the server as
`src/tmux/commands.cpp` uses it, with tmux's prefix rule for `-t name`. A new-window
whose name is all digits (`Indexes`) opens in whichever session is the current one; any
new-window may fail, since its name is looked for among windows first. Panes are numbered
for good in the model; the id tmux prints counts from `base`, where the present server
began. `KillSession` of the last session ends the server, and ids start again.
**Materialize** is `materialize_template` over it. A tmux process sends a request
(`request`), the server executes it (`Serve`), the call reads the answer;
`GivesUp` is any error of `run_command`, after which the server may execute the
request late or never (`ServeLate`). The user makes and kills sessions, the last one
included. `orphaned` are the calls whose server ended under them after they had made a
pane: from then on the id such a call holds may be another pane's, and what is said of
its commands exempts them (section 6 shows that this is needed).

**Nesting** has `ReadStatus` and `ReadExe` per process, and `Fork`, `Exec`, `Exit`
by the system in between; a number is used again after `Exit`.

**Filter** is `FilterState` with its cache, and the greedy scorer as a fold. White
space (what Ctrl-W goes by) and what bounds a word in the score are different sets that
share the space.
**Cmdmode** is the tokenizer as a fold over characters, `shell_quote` and
`complete`, under a user who types, erases and presses Tab. Its specification is
`LineSpec`, so that it can be read beside Filter's. kSchemas has a kind for the first
argument of a command only, and CmdmodeAssumption says so, because `complete` leans on
it: were a second argument a session, `attach ab \ ` (which ends in an escaped space)
would be completed at the wrong place.

**Cli** is one process: arguments are given (`Argument`), parsed (`ParseArgs`, a
fold of `ParseArg` and then `ParseCommand`), and dispatched (`RunRequest`). A
document is what `parse_config` can tell apart: whether it is TOML, whether a
field is unknown, whether the theme is right, and per template the windows with
the kind of each field. `Edit` changes the file at any time during
`ConfigExists` and `ReadConfig`. tmux gives any answer; `materialize_template` is
one step here and the subject of Materialize.

## 3. Model checking

`tlc -config X.cfg M` in this directory. States are distinct ones.

| run | module, cfg | states | what it shows |
|---|---|---|---|
| frecency_store | MCFrecencyStore | 262,792 | exactly-once counting, no torn store, isolation of saves, true parse errors, refinement of FrecencySpec, release of the lock |
| process | MCProcessRunner, Process | 20,113 | child reaped and descriptors closed on every path, an exit status means complete output, the capture ends by its deadline, a failed capture returns |
| snapshots | MCSnapshotList, SnapshotList | 586,743 | undisturbed restores and deletions keep their promises at every interleaving and failure, a `last` that is foreign when a call looks is kept; the worker's one true result arrives and the destructor returns unless the script hangs, nothing is late; listings are faithful |
| commands | MCCommands, Commands | 1,287,878 | lists are what the server had, success and failure what happened, commands act on what was shown or named |
| materialize | MCMaterialize, Materialize | 1,986,841 | a beginning of the template, commands at home, success complete, each as long as the call's server lives, and the own session |
| nesting | MCNesting, Nesting | 162,748 | no process twice, exact when nothing changes, termination |
| filter | MCFilter, Filter | 62,978 | scores are of the current buffer, greedy matching misses nothing, beginnings score highest, typing narrows |
| cmdmode | MCCmdmode, Cmdmode | 66,330 | quoting is undone by tokenizing, completing the name keeps the rest, plain words are completed |
| cli | MCCli, Cli | 467,621 | one reading per command line, templates isolated, no command on defaults that stand for a file `exists()` found |
| process_hang | MCProcessRunner, ProcessHang | violation | section 6 |
| materialize_refused | MCMaterialize, MaterializeRefused | violation | section 6 |
| cmdmode_quoted | MCCmdmode, CmdmodeQuoted | violation | section 6 |

More holds than the runs check. `ProcessPair.cfg` checks MCProcessRunner with two
concurrent callers whose children inherit each other's pipes: 1.7 million states in a
little over two minutes. `SnapshotDir.cfg` checks MCSnapshotDir with two actors and
two snapshots (744,397 states), which would be too many under the worker's liveness, and
`RestoreWorker.cfg` the worker without listings (235,944). All three are instances of
what is proved for any number of callers, actors and snapshots (section 5). The
inductive invariants of section 5 were checked with TLC on the instances of the runs
before they were proved: a module that EXTENDS both the MC module and the `_proofs`
module can name them as INVARIANT.

A passing run checks for deadlock except where the system may really stop: Cli
(the process ends, as it does in Commands when it has become the tmux client),
SnapshotList, Commands and Materialize (all calls have been made and nothing needs to
happen).

### Bounds

| bound | value | why it is enough |
|---|---|---|
| `U32Max` | 2 | the counter reaches its maximum and an edited count of 4 is narrowed |
| `Procs`, `Names`, `MaxCalls`, `MaxClock` (FrecencyStore) | 2, 2, 3, 1 | a call before and two at once; a stamp older than the one stored |
| `PipeSize`, `MaxOutput` | 2, 3 | a pipe fills, a read is partial, and the limit falls inside a read |
| `Workers`, other actors, `MaxCalls` (SnapshotList) | 1, 1, 2 | a worker, and beside it a call that changes the directory or a listing |
| `Snapshots`, `Bystanders` (SnapshotList) | 1, 1 | a file that comes, goes and is linked, and one without a date that may be unreadable |
| `Snapshots`, `Actors`, `MaxCalls` (SnapshotDir.cfg) | 2, 2, 2 | the chosen, the previous and another target of `last`; two calls interleave |
| `MaxCalls`, `MaxOthers` (Commands) | 2, 2 | a listing and a command that uses it, with two commands of others before, between or after |
| `Servers` (Commands) | none; `ab` with two windows; `a` too, and a client | a name that begins another, a window called like a session, a server that starts, ends and starts again |
| `MaxIds` (Commands) | 4 | a session, a window and a pane more than there are at first |
| `Template`, `MaxPanes`, `MaxCalls`, `MaxMade` (Materialize) | 3 windows, 4, 2, 1 | a window without a command between two with one; two calls at once, or one and a session of the user's, also in a second server that gives its id again |
| `Names`, `Prefixes`, `Indexes` | `dev`, `develop`, `1` | one name is the beginning of another, and one is a number |
| `Pids`, `MaxWalk` | 4, 3 | an ancestor beyond the limit, one unreadable process, numbers used again |
| `MaxBuffer`, rows (Filter) | 3; all of up to 2, and ten longer or with `_` or a tab | runs, word starts, gaps, both cases and both kinds of blanks occur |
| `MaxTyped` (Cmdmode) | 6 | a command, a space, and a quoted word with an escape |
| `Words`, `MaxArgs` (Cli) | 12, 5 | two options with values and a subcommand, or one with values and two arguments |

`MaxCalls`, `MaxOthers`, `MaxIds`, `MaxClock`, `MaxPanes`, `MaxBuffer`, `MaxTyped` and `MaxArgs` bound
environments and stand in guards; the code has no such limits. `MaxWalk`,
`MaxOutput` and `U32Max` are limits of the code, scaled down. Symmetry is used for the
actors and snapshots of SnapshotDir.cfg, which checks no liveness property.

## 4. Fairness

Every safety property is checked and proved without fairness. Liveness uses:

* FrecencyStore, `WF(Step(p))`: a process inside a call keeps executing. No step
  of a call waits: the lock is taken with `LOCK_NB`, so that there is nothing to
  be fair about between processes.
* ProcessRunner, `WF(Progress(c))` and `WF(Expire(c))`: threads are scheduled and
  time passes. Nothing is assumed of the command, which may write for ever or do
  nothing for ever, nor that any failure happens.
* RestoreWorker and SnapshotList, `WF(Runs(w))` and `WF(Join(w))`: the worker's thread is
  scheduled wherever it does not wait for the script, and a join that can end does. No
  fairness makes the script end: `restore.cpp:192` calls `run_command`, whose `waitpid`
  has no deadline (finding 1, below). `ResultArrives` and `DestructorReturns` have it as
  a premise instead, for each worker (`ScriptReturns`, that the thread is again and again
  at another place than the script's), and `DestructorAlwaysReturns`, without the premise,
  fails. The owner owes nothing, and neither does a listing, which may stay where it is.
* Nesting, `WF(Walk)`: the walking thread is scheduled; processes owe nothing.

## 5. Proofs

`tlapm M_proofs.tla`. Each theorem is for every value of the constants under the
named assumptions of the modules, and speaks of the specification without fairness.
There are 14,370 obligations:

| module | obligations | states proved |
|---|---|---|
| FrecencyStore_proofs | 772 | its four invariants, the action property, the refinement of FrecencySpec |
| ProcessRunner_proofs | 629 | its three safety invariants |
| Snapshot_proofs | 928 | restores, deletions, the worker, listings: every safety property |
| Commands_proofs | 5,253 | its two safety invariants and both action properties |
| Materialize_proofs | 1,756 | its four invariants |
| Nesting_proofs | 767 | both invariants |
| Interface_proofs | 2,882 | the filter's invariants and action property, the command line's three invariants |
| Cli_proofs | 1,383 | its three invariants |

Type invariants are proved too and are in no run.

### Assumptions

Every assumption is in the module that declares the constants, and TLC evaluates it on
the runs. Model values are distinct and sizes are natural numbers. Beyond that:
*CommandsAssumption* says that what is said and printed are texts over the characters,
among which those tmux prints itself are, that the servers there may be at first are servers
(`IsServer`) that can be printed (`IsLettered`), and that there are at most nine ids, so that
numbers have one digit; *ActorsAssumption* that a template has a window, without which
`materialize_template` does nothing; *CliAssumption* and *DocumentsAssumption* what kinds of
words and documents there are; *FilesAssumption* that a file that is missing or cannot
be read is not a document; *CmdmodeAssumption* that candidates and command names are
texts, and what was said above about first arguments.

### Induction

The provers cannot instantiate the library's induction theorems, whose parameter is an
operator. Induction is stated over sets instead: a set of numbers with 0 that has the
successor of each of its members is Nat (`SetInduction`, from `LeastNumber`, which is
the well-foundedness of `<`), and likewise a set of texts that has `<<>>` and every text
one character longer (`TextInduction`). That is enough for the folds and the recursive
functions of the models, each of which is a CHOOSE: a function that satisfies its
equation is put together first, and then shown to be what the model says, text by text.

**FrecencyStore_proofs.** `IInv` is the type invariant, *LockCovers* (whoever is
between loading and renaming, or has yet to return success, holds the lock),
*ControlShape* (result and place in the code agree), and the safety properties
themselves: *SaveIsCurrent* (the index a saver is about to write is what the
store holds plus its own visit), *TmpIsMine* (what it is about to rename is what
it has written), *NeverTorn*, *ParseErrorIsReal* and *ExactlyOnce*. SaveIsCurrent needs
the lock to cover the whole cycle, TmpIsMine needs it because the temporary
file's name is fixed, and ExactlyOnce needs both at the rename, which is where a visit
takes effect: either the caller will be told of success or the visit is counted as
unsure, because of a crash or of a lost write error. `MalformedStoreIsKept` follows from
IInv for one step. `StoreImplementsSpec` proves `Spec => Implements`, the
refinement of FrecencySpec: each action is a stutter except the call, the read of a
ranking, the rename and the return.

**ProcessRunner_proofs.** `IInv` is the type invariant, *ChildShape* (a call has a
child that is not reaped exactly between fork and wait, and none otherwise),
*DescriptorShape* (which ends each process holds at each place of the code), *CaptureShape* (an
output the loop no longer polls has been read to its end, and stays there since
no writer is left) and *ExitMeansCaptured*. Any number of threads may call, and any
child may hold any other call's pipes.

**Snapshot_proofs, the directory.** `IInv` is the type invariant and for each actor *InPlace*
(its call fits the place in the code) and, as long as nobody has disturbed it,
*Knows* (what it believes about `last` and its target is so), from which
*RestoreIsAllOrNothing* and *DeleteTakesItsLink* follow at the return; and, disturbed or
not, *SawNoForeign* (`last` is not foreign past the look at it, unless it was made so since). The proof
separates a step that only looks at the directory from one that changes it and thereby
disturbs every other call in progress. `ForeignLastIsTheUsers` is the action property, from SawNoForeign.

**Snapshot_proofs, the worker.** `WorkerImplementsDir` proves `WSpec => Spec`: a worker and the
threads beside it do nothing that SnapshotDir does not allow, so that its theorems hold
of them. `WIInv` adds the worker's types and for each worker *Shape* (the promise is
set when the thread has nothing left to do and not before; what was taken is the promise, from a future
that is gone since; a thread that is not restoring has no call in progress), from which
`TakenOnceAndTrue` and `NoLateStep` follow.

**Snapshot_proofs, the listing.** `ListingBreaksNothing` carries `WIInv` over to LSpec, where a
listing runs too. `ScanInv` says that every steady file the iterator has been at is
being read, is listed, or has a reason not to be, and that nothing else is listed;
`ListingsAreFaithful` is the action property at the scan's end.

**Commands_proofs, texts.** `SplitLaid` says that a text in which words are laid out, each
followed by a delimiter it cannot be confused with, is split into these words; with it a
row is read as the record it was made of, any number of rows as their records (`RowsRead`),
and every other answer as what was printed (`AnswerRead`).

**Commands_proofs, commands.** What a command may do is shown once for the 29 of them: it
makes a server of a server and touches no more than some sessions, windows and panes, which
its target names (`EffectsProper`), and what it leaves can be printed (`EffectsLettered`).
`IInv` says that the tree is a server that can be printed (*Lettered*), that every command
under way is one the library makes (*IsCall*), that at most one is pending and none when
the caller is idle, and of the call that waits (*UnderWay*) that its answer is what executing
the command gave (*Matches*: what changed something succeeded and can be read, and a clean
answer is read as what was printed). *ListingIsTrue* and *AnswersAreTrue* are in it.
`ActsOnTheListed` and `ExactNameWins` follow for one step, the former because an id that was
shown is an id the server gave out once.

**Materialize_proofs.** `IInv` is the type invariant, *Numbered* (calls have their own
numbers), *CommandsAtHome*, *Blank* (nothing is typed in panes that are not made yet),
*InOrder* (windows are made in order, each after the one before it is complete),
*SessionsApart* (a session is known by its first pane), and for each actor *Asks* (one
request in flight, which fits the place in the code; late only when the call has
failed), *Progress* (how much of the template is there, by what the call waits for) and
*OwnSession* (a call nobody has robbed has its panes in the session it created). Progress
is what makes the others inductive: a request that is executed late is still the next
one of its template.

**Nesting_proofs.** For *NoneCountedTwice*, `IInv` adds the type invariant, that
`counted` is finite, and *Fresh*: the process being looked at is not counted yet. For
*CountIsExact*, `Exact` adds *Forest* (parents have a lesser depth than their children,
whatever is forked and reparented) and *WalksUp* (while nothing changes, the walk has
been at the first ancestors of its start and at nothing else). The depth is why a walk
never comes back to a process.

**Interface_proofs, the filter.** `IInv` is the type invariant, *Cached* (the folded
pattern is that of the buffer it was computed for) and *Answered* (an answer is the value
of its row for the buffer as it is). What the scorer computes is shown by the loop
invariants *Greedy* (the characters matched are as many as any choice could match) and
*Dominates* (no score is above that of a row that begins with the characters matched).

**Interface_proofs, the command line.** That the line is a text is inductive by itself
(*LineTypeOK*); the properties speak of any text, and are proved of any text. A quoted
word is read into the word already begun, whatever it is (`ScanQuoted`); the words before
a blank do not matter to what follows it (`ScannedBehind`); what is completed of the first
word (`HeadCompleted`) or behind a blank (`AfterBlank`) reads as it should.

**Cli_proofs.** `IInv` is the type invariant, *Scanned* (the fold over the arguments so
far is what they describe), *Fresh* (only what was reached has left something behind),
*LoadedFromSeen* (what is loaded is what the file seen parses to, or what some text does
if reading it failed) and *LossIsNoticed* (a
file that was found is read, or its loss is noticed before anything is done). The usage
text is a set of lines, and `ParsesLine` shows that parse_args accepts exactly these,
however many arguments there are.

Only model-checked is liveness, which is out of the provers' reach (fairness and ENABLED):
`LockIsReleased`, `CaptureEnds`, `ErrorReturns`, `ResultArrives`, `DestructorReturns` and
`WalkEnds`. Every other property of a passing run is a theorem. That the next section's
statements fail is shown by TLC's counterexamples.

## 6. Where the code and its documentation disagree

Three runs expect a violation; `PROJECT.json` `findings` has the details.

1. *process_hang.* The deadline covers the capture only. A command that closes
   both outputs and goes on is waited for without limit, though `process.hpp`
   speaks of a "Deadline for process completion and output capture."
2. *materialize_refused.* `has-session -t dev` succeeds when only `develop` exists,
   so that `dev` is refused as existing.
3. *cmdmode_quoted.* Pressing Tab after Tab has quoted a word corrupts the
   line, because the word is cut off by the length of its token.

The modules state seventeen more promises, of headers or of the properties above without
their conditions, that the models refute. Each is
defined next to the properties that do hold, and is seen to fail when it is
added to the cfg named here.

| statement | add to | what happens |
|---|---|---|
| `FrecencyStore!LastUsedIsMostRecent` (PROPERTY) | MCFrecencyStore.cfg | the clock is read before the lock is taken, so `last_used` may go back |
| `FrecencyStore!SuccessMeansWritten` (INVARIANT) | MCFrecencyStore.cfg | the last bytes are written by the stream's destructor, after the check, and a torn file is renamed into place |
| `ProcessRunner!TimeoutHasCause` (INVARIANT) | ProcessPair.cfg | another thread's child has inherited the pipes, and a command long over is reported as timed out |
| `SnapshotDir!SuccessRestoredChosen` (INVARIANT) | SnapshotDir.cfg | `last` is moved between the link and the script |
| `SnapshotDir!ForeignLastIsAlwaysKept` (PROPERTY) | SnapshotDir.cfg | `last` becomes a file after the call has looked, and `remove()` takes it away (`restore.cpp:96`) |
| `RestoreWorker!DestructorAlwaysReturns` (PROPERTY) | RestoreWorker.cfg | the script closes its outputs and hangs, and the destructor joins a thread that waits for it |
| `SnapshotDir!DeletedIsNotLast` (PROPERTY) | SnapshotDir.cfg | a restore links the snapshot after the deletion has read `last` |
| `SnapshotList!PartialIsAnError` (INVARIANT) | SnapshotList.cfg | `increment(ec)` leaves the iterator at its end, the test of `ec` in the loop is not reached, and a partial list is returned as a whole one (`list.hpp:67`); the loop of `discovery.cpp:23` is the same |
| `SnapshotList!ListedIsRead` (INVARIANT) | SnapshotList.cfg | a directory with a snapshot's name, or a file that cannot be read to its end, is listed without sessions and not skipped (`list.hpp:66`) |
| `Commands!ListingIsAlwaysTrue` (INVARIANT) | Commands.cfg | a name or path that ends in `\|` shifts the fields of its row (`parse.hpp:16`: the delimiter "cannot appear inside any field") |
| `Commands!ActsOnTheNamed` (PROPERTY) | Commands.cfg | kill-session for a name that is gone ends the only session the name is a prefix of |
| `Commands!IdsAreForEver` (PROPERTY) | Commands.cfg | the server is gone and the next one has given the id to another window |
| `Materialize!IntoANewSession` (INVARIANT) | Materialize.cfg | the session is killed and its name means another one when the next window is made |
| `Materialize!IntoANewSessionUnlessKilled` (INVARIANT) | Materialize.cfg | the name is a number, and the second window opens in the current session |
| `Materialize!CommandsAlwaysAtHome` (INVARIANT) | Materialize.cfg | the last session is killed, a new server starts, and the command is typed in the pane that has the id now |
| `Materialize!SuccessIsAlwaysComplete` (INVARIANT) | Materialize.cfg | the same with the last window's command: the call returns success |
| `Cli!DefaultsAreNoticed` (INVARIANT) | Cli.cfg | an error of `exists()`, or one of reading (`out << in.rdbuf()` sets a bit of `out`, and `in.bad()` is looked at), leads to a configuration that is not the user's, without a warning |

## 7. What is not modelled

* Loss of what the kernel had not written yet: a crash is the death of a process.
  `save_index` does not fsync, so that a power failure may leave an empty store.
* The exponential score of the frecency index and the order of a ranking
  (floating point).
* Socket discovery: the loop of `list_snapshots_in` over sockets, without a read of
  each. Where it differs, a socket that goes away before its `symlink_status` is an
  error of the whole listing, as its header says.
* Parsing of timestamps and of `/proc/pid/status`, socket names, and the counting in
  `parse_snapshot_text`: each reads and changes nothing. zoxide import runs one command and reads its
  lines. They are in the table of components of `PROJECT.json` with the reason.
* The theme, beyond whether it is right; TOML itself is parsed by a library.
* In Materialize, a user who renames sessions, and names with the signs tmux reads in a
  target (`= $ @ % { ~ *` and the like); Commands has renaming, and `=`, `$`, `@` and `%`.
* In TmuxTree, targets that are patterns, the window targets `!`, `+`, `-` and their
  names in braces, `~`, and `=` by itself.
* `new_session` that is not detached (it needs a terminal of its own), directions,
  layouts and keys, numbers of more than a digit, and a client's second terminal.

## 8. Plan

Done: the store, the process runner, the snapshot directory, its worker and its
listing, materialization, the command library with attach and the rows, nesting,
filter, command mode, the command line. Next, in this order:

1. **Conditions for the promises of section 6**, as theorems: that `TimeoutHasCause` holds
   for one thread at a time, `SuccessRestoredChosen` and `DeletedIsNotLast` for one actor,
   `IntoANewSession` and `ActsOnTheNamed` where no name begins another or is a number.
2. **Materialize over TmuxTree**: the commands of a template with texts and windows
   called like sessions, in place of TmuxServer's names, prefixes and numbers.
3. **Texts**: `parse_ppid` and timestamps, each against a reference definition over
   bounded inputs; the ranking order with a score that is any decreasing function.

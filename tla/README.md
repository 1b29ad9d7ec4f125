# TLA+ models of the Mutant runtime

Mutant is a language for forensic work: a compiler and a virtual machine, a very
large library of builtins, a debugger that speaks the Debug Adapter Protocol, and
a language server. Most of it is sequential code from an input to an output. The
parts that are hard to test are of two kinds, and this directory models them.
Where goroutines meet: tasks, channels, parallel maps, the debugger, the cache,
the language server's documents, the custody session and the roles of examiners.
And where runs of the program meet over what they leave on the disk: the key
file of a case, and the case in its ledger with its lifecycle, reviews, exhibits,
holds, erasures and disposal.

The modules are checked with TLC on small instances. The safety properties of
every component but the class definitions of a case are also proved with TLAPS,
for every value of the constants; liveness is left to TLC.

The mapped definitions cover a small share of the repository (roughly one line
in twenty-four: the tree has 168,000 lines of Go, half of them builtins that parse
file formats). Nothing here says anything about the lines that are not mapped.

## 1. The system

| Part | Code | State it owns | Here |
|---|---|---|---|
| Task registry, `spawn`, teardown | `builtin/tasks.go`, `vm/spawn.go`, `runner/runner.go` | registry under a mutex, a WaitGroup | `Tasks` |
| Channels | `builtin/channels.go` | registry under a mutex, Go channels | `Channels` |
| `pmap`, `peach` | `vm/parallel.go` | shared index, first error, WaitGroup | `Parallel`, `MapPromise` |
| Debugger engine | `vm/debugger.go` | step in progress, breakpoints, hit counts | `Stepping` |
| Debug session | `vm/debugger.go`, `dap/session.go` | three goroutines and two unbuffered channels | `DebugSession` |
| Cache builtins | `builtin/cache.go` | entries and values, two locks | `Cache` |
| Language server documents | `lsp/internal/workspace`, `lsp/internal/server`, `sema/workspace.go` | documents, snapshots, two indexes | `Documents` |
| Custody session | `builtin/custody.go` | the open case and an atomic flag | `Custody` |
| Roles of examiners | `builtin/role.go`, `builtin/ledger.go` | roles of the case and of each ledger handle | `Roles` |
| Case lifecycle, assignments, reviews, exhibits, retention, erasure, disposal | `builtin/case_*.go`, `builtin/ledger.go` | chains of events in a ledger, a copy of the state in each run | `CaseLedger`, `CaseReview`, `CaseExhibits`, `CaseRetention`, `Case`, `Lifecycle` |
| Class definitions of a case | `builtin/class.go`, `builtin/case_lifecycle.go` | numbered nodes in the ledger, a list in each run | `CaseDefinitions` |
| Case key file | `builtin/case_key.go`, `builtin/case_erasure.go`, `security/record_crypto.go` | a file, replaced by rename or overwritten in place | `KeyFile` |
| `net_serve`, `net_spawn`, Lua scripts | `builtin/serve.go`, `serve/`, `builtin/lua.go` | goroutines nobody waits for | not modelled |
| Audit chain, `with_resource`, module graph | `builtin/audit.go`, `vm/resource.go`, `module/` | each its own | not modelled |
| Lexer, parser, compiler, macros, VM instructions | `lexer/`, `parser/`, `compiler/`, `evaluator/`, `vm/` | none shared | not modelled |
| Forensic readers, network, databases, cryptography | `builtin/`, `security/`, `graphstore/` | handle tables | not modelled |

`PROJECT.json` has the complete list with a reason for each part left out.

How the parts meet. A program runs on one VM; `spawn` gives a task a VM of its
own, but all VMs share the process-wide registries of the builtins. So every
registry is used by several goroutines at once, and each builtin is atomic only
between a lock and its unlock. When the main program returns, the runner waits
for the tasks, closes forgotten handles and wipes the constants. The debugger
runs the VM on an executor goroutine; an event pump and a request loop stand
between it and the client. The language server handles notifications one by
one while a scan of the workspace runs beside it.

A case outlives its runs. `case_open` starts the custody session of one run,
`case_key_open` unlocks the case's key, `ledger_open` opens the graph store,
which one process at a time can have, and `case_attach` ties the three together:
from there on the run has a copy of the case's state, and the builtins that do
not take the ledger ask that copy. Other runs, of other examiners, come before,
after and in between.

### What is hard

- A check in one critical section and the act in another (`chan_send`, a
  cache delete, `case_close`, the role check, the workspace scan).
- A `select` with several ready cases, of which Go takes any.
- A WaitGroup that must not be raised from zero while somebody waits on it.
- Retention lists at their limit, which must not drop what is still in use.
- Errors and panics of one worker among several.
- Work done without a lock (hashing a file, opening a ledger), with a session
  looked up before it.
- A handle, a reference or a message that outlives what it is about.
- A protocol on unbuffered channels in which everybody can wait for everybody.
- A file rewritten without a lock, and a process or the power failing between
  any two of the steps.
- A writer and a reader of one chain of events that each decide by themselves
  what may stand in it: one event too many, and no later run reads the case.
- A copy of the ledger's state in a run whose ledger is closed.
- An erasure, which must not be recorded before it happened, and after which
  there is no key to record it under.

Every one of these is listed as a hazard, with its line, in `PROJECT.json`.

## 2. Conventions

A thread is a goroutine. What a Mutant program computes is left open: a thread
may call any builtin at any time. A builtin that takes several critical sections
is several actions, and the variable `call` says where each thread stands. A
call refused before it changes anything is a stuttering step and is left out.
Data is abstracted to what the properties tell apart: a queued value is
"before or after the close", a text is a number, a digest is the algorithm and
the contents it read.

Variables commented as *history* record what happened for the sake of a
property; no guard reads them. Operators named `Operation_Suffix` are faulty
variants of an operation. No specification uses them: replacing the operation
with its variant makes the property named in `PROJECT.json` fail, which shows
that the property depends on the code.

## 3. The modules

**Retention** is the list both registries keep of finished handles, trimmed from
the front.

**Tasks.** Threads are the main program (0) and the task goroutines.
`RegisterTask` is the critical section of `spawn`; the WaitGroup's `Add` and the
`go` statement are steps of their own, because the mutex is free by then.
`TaskWait` looks the handle up: any handle, since a handle is a plain integer,
the caller's own and one that is only being spawned included. It then waits for
the done channel, for that or a timer, or not at all; after a timer or a poll
it looks at the channel once more, and releases a result. `CompleteTask` records
the result, trims the list and closes the done channel; `Done` follows.
`MainReturns`, `WaitForTasks` and `CleanupSensitiveData` are the end of
`runner.runvm`. A task may spawn and wait as the main program does. Tasks that
wait for each other without a timeout, or one that waits for itself, wait for
ever, and the program with them: `WaitCycle` is that state, and `TeardownReached`
says nothing else keeps a program from its teardown.

**Channels.** The Go channel inside a Mutant channel is never closed; a second
channel, `done`, is. `chan_send` checks `done` and then selects; `chan_recv`
selects, and looks at the buffer again when `done` woke it. Every ready case of
a select is an action; an unbuffered hand-over is one step of two threads.
Closing and retiring the handle are two critical sections.

**Parallel** is `runParallel`: workers set up their VM (which may fail), check
for an error, take the next index, call (which may fail or panic) and leave.
**MapPromise** is what `pmap` promises, in three variables: results are filled
in, the call may fail, and it answers with all the results or with an error and
does nothing afterwards. `Parallel` implements it by a refinement mapping.

**Stepping** runs an arbitrary program of a few functions and lines under the
per-instruction hook: entry stop, pause, breakpoint, step, in the order of the
code. An instruction falls through, jumps, calls, returns, or belongs to a
builtin that runs callbacks. `SetBreakpoints` replaces the markers of one file,
binds each to the first line after it that has code, and rebuilds the armed
table, `armed`, from the lists of all files; the hook consults only that table.

**DebugSession** is the handshake: the executor publishes a stop and parks,
the pump forwards it, the request loop resumes, reads, pauses and ends the
session. The executor is at the hook or inside an instruction, which may block
for ever in a builtin and may leave tasks running; `PublishExit` waits for
those. The client may send any request at any time; the history variable
`hasty` records that it did not wait to be told of a stop. A scope that was
asked for can be expanded without any look at the program (`OnVariables`); what
reads the stack asks `readable()` first (`OnRead`).

**Cache** is one cache name: stores and maps are objects of their own, since a
put or a get goes on with the ones it looked up when the cache is cleared,
closed or reopened meanwhile.

**Documents** is one file, with the editor's copy, the disk, the notifications
on their way, the document store, snapshot, diagnostics and both indexes. The
editor may spell the URI differently from the scan. A read of the file, by the
scan or after a notification, may skip it (`Skips`: excluded, too large, gone or
unreadable); what is filed then stays, except what a closed buffer filed under a
spelling of its own, and `skipped` records that it happened.

**Custody** is the case session: `case_open`, `case_close`, `case_note`,
`case_evidence`, `case_verify`, and the recorders called by evidence openers,
by resolvers of handles and by writers of artifacts. Files change and vanish
while they are hashed.

**Roles** is the check that one examiner acts under one role, and the recording
of the role by `case_open` and `ledger_open`.

**KeyFile** is the file a case's key is kept in, its copy `path + ".erasing"`,
and the calls of several processes on it. A case key has generations: a rotation
adds one or changes the passphrase, an erasure takes one or all. Every call is
split where another process can get in or a failure can hit: read, write of the
temporary file, sync, rename; or, for an erasure under its locks, copy, sync,
overwrite in place (a half and a whole), sync, check, removal, and the commit to
the ledger. Each file has what a reader sees and what a power loss may leave.
`ProcessDies` ends one process, `PowerLoss` all of them; `WriteBack` is the
system writing out by itself; `Repair` is the examiner putting the copy in the
place of a torn file, as the code's message tells them to.
Names in the directory are taken to survive a power loss; the code does not sync
the directory after a rename, which is the platform's to promise.

**CaseLedger**, **CaseReview**, **CaseExhibits** and **CaseRetention** are one
specification in four layers, each extending the one before, and **Case** is the
next-state relation over all of them. `CaseLedger` has the variables: the ledger
(the lifecycle state, assignments, requests for review, the period, holds,
erasures, exhibits), what lies outside it (the key file, the manifest, the lock
of the store) and each examiner's run (its role, its key, how it is attached,
its copy of the state). Its actions are `case_open` with its key,
`case_key_rotate`, `ledger_open`, `ledger_close`, the end of a run,
`case_attach` in its two forms, `case_assign` and the manifest; the other layers add one action per builtin of
`case_review.go`, `case_evidence.go`, `case_retention.go` and `case_erasure.go`,
and `case_transition`. A builtin runs under the ledger's mutex and commits once,
so it is one action, except that `case_key_erase`, of every generation or of
one, may fail between the key and the commit (`CaseKeyEraseUnrecorded`).
`case_key_rotate` takes no such mutex: it reads the file at some time since its
run began and renames a new one over the path later, so it can put back a file
that an erasure removed in between; `KeyRotate` is the rename. Such a file is
`restored` when the ledger records the erasure. What a key file holds, and so
what an erasure of one generation takes out of it, is left to `KeyFile`.
A chain of events is kept as what its reader makes of it. `readable` says
whether the reader accepts every event appended: each append evaluates the
reader's own rules (`LifecycleReads`, `EvidenceCheck`), which are translated from
the reader and not from the builtin, so a builtin that lets through what its
reader refuses makes `readable` false.
**Lifecycle** is what all this promises, in three variables: the state, who
submitted the case and who approved it.

**CaseDefinitions** is the classes a case declares, in its runs and its ledger,
and what an attach reads back. Views and role bundles are numbered, written and
read the same way.

`PROJECT.json` maps every definition to its lines.

## 4. The runs

States are distinct states. Every run finishes within four minutes on a
small machine.

| Run | Configuration | Checks | States |
|---|---|---|---|
| `tasks` | 3 tasks, ceiling 2, retention 1 | `live` exact and within the ceiling; running tasks and the newest results addressable; whoever waits for a finished task gets its outcome; teardown after tasks, and reached unless tasks wait for each other | 23,036 |
| `channels` | 2 threads, 3 channels (one buffered), ceiling 2, retention 1 | exact count of open channels, which stay addressable; nothing sent before the close is skipped; a close wakes everybody | 169,550 |
| `parallel` | 3 workers, 3 elements | each element once, early stop, an answer, the promise kept | 21,839 |
| `stepping` | 3 frames deep, stop on entry, 2 hits counted, markers in two files | where each kind of step stops; no armed line is run past; skip counts | 569,636 |
| `debug_session` | any client | the exit published; pauses reached and sessions ended unless an instruction or a task never ends; and for a client that waits: reads see a parked program, fresh references, answers | 6,642 |
| `cache` | 3 threads, 2 keys, 2 values, 5 calls | exact statistics; old puts stay out; a map with expiry while calls do not overlap | 664,899 |
| `lsp_sync` | 3 texts, 2 notifications on their way | text in step or marked; diagnostics; indexes | 1,498,240 |
| `custody` | 2 threads, 1 file, 2 contents, 5 calls, 1 change | a closed case is frozen; policy; digests explained; honest verdicts | 1,423,246 |
| `roles_in_turn` | 2 threads, 2 examiners, 2 roles, 4 calls | one role unless opens overlap | 239,739 |
| `key_file` | 2 processes, 2 keys, 2 passphrases | a torn file has the whole new document beside it; calls that do not overlap lose no key and leave no erased one in the file | 499,860 |
| `case` | 2 examiners, a hold, an exhibit, one record or earlier key to erase | copies exact while the ledger is open; readers accept what is written; holds stop disposals and erasures; disposal settled and final, with the key file gone or put back by a rotation; the lifecycle kept | 1,702,668 |
| `case_reattach` | 2 runs, 2 classes | *violated*: an attach reads back the classes of the case | |

Some properties are conditional on a history variable, because the code does
not keep them without: `hasty` (a client that reads or resumes before it is told
of a stop), `overlapped` (calls of a cache, or opens of one examiner, that
overlap), `overlap` (two calls that write one key file), `raced` (a handler
inside a scan) and `skipped` (a read of a file that skipped it). What happens in the other case is in section 6.

**Why the bounds are enough to be interesting.** A ceiling of two and a
retention of one are reached, passed and reached again with three tasks or three
channels. Three workers on three elements include an error while others are
between the check and the taking. Two threads give every overlap of two calls,
which is what the two-section operations are exposed to; the budget of calls lets a case
or a cache be closed and opened again under a call that is still running. Two
threads and three channels include two closers of one channel while another is
open, and a channel refused at the ceiling and given once one is retired. (What three threads on a channel can
do to a value sent before the close is proved, section 5.) Two keys and two
passphrases let two rotations cross, and a rotation cross an erasure, with a
failure between any two steps. Two examiners are what a review needs, and their
runs take turns on the ledger any number of times: nothing bounds the length of
a case. A bound on calls, texts, handles, keys or changes is a constant of its
module. Symmetry is used in the run `case` only, over examiners and without
liveness; the redaction versions a review can also be of are none there, and any
number in the proofs. One model value is both the record and the earlier key
that `case` can erase: an erasure of either is only ever recorded.

**Deadlock** is checked for tasks, `pmap` and stepping, which end in a state
with a stuttering step of its own; for tasks also a cycle of waits has one, so
the check shows that a program stops nowhere else. Elsewhere it is switched off: a budget of
calls runs out, a session ends, threads are rightly parked on a channel nobody
uses any more, or a case has lost its key and no run can open it.

**Fairness.** Weak fairness on the steps of a goroutine inside a builtin: the
Go scheduler runs what can run. For tasks, strong fairness on the completion of
a task: a task whose calls return does not run for ever, which is a condition on
the program, and without it no teardown can be promised. That a `task_wait`
returns is not assumed. For `pmap` the callback returns. In a debug session
nothing obliges the client to send, the program to stop, an instruction to
return or a task to end: `PauseReached` and `SessionEnds` say that nothing but
an instruction, or a task, that never ends can hold up a pause or the end of the
session. The client is taken to read the events it is sent. Nothing is assumed about which case a select takes. Nothing obliges
an examiner to go on with a case, so the case and the key file have no liveness
property.

## 5. The proofs

Every safety invariant, action property and refinement a passing run checks is
proved for every value of the constants. The proofs need the named assumptions
of the modules: limits are positive naturals, bounds are naturals, each
channel's capacity is a natural, and the special names of `Roles`, `KeyFile` and
`CaseLedger` are nobody's.

Few of the properties are inductive as they stand; the list says what each
invariant adds. The largest invariants (`IndexInv`, `CustodyInv`, `KeptInv`)
were also checked by TLC, on the bounds of their runs.

- **TasksProofs** proves type correctness, the safety properties of the run
  `tasks`, that no more than `maxRetainedTasks` results are held, and that only
  the main program raises the WaitGroup from zero. The invariant
  `IndInv` adds to the properties that the WaitGroup counts exactly the
  goroutines between their `Add` and their `Done`, that the phase of a task
  follows the registry, that a task registered and not yet counted has its
  spawner still running, and that the finished list has each closed handle at
  most once. Teardown follows: a WaitGroup at zero with the main program
  returned leaves nobody who could spawn. `HistoryInv` relates the finished list
  to the order in which tasks finished, of which it is the newest part; that
  gives `ResultsStay`, half of `HandlesStay`: a result is dropped uncollected only after
  `maxRetainedTasks` others. Its first part has the facts about the
  list of module `Retention`.
- **ConcurrencyProofs** is about `Channels` and `Parallel`. `ClosedAfterEarly`:
  no receive reports `closed=true` over a value sent before the close, for any
  number of threads and channels; `DeliveryInv` adds that a receiver at its
  second look is on a closed channel, and that what is queued from then on is
  late. `LiveExact`: `RegistryInv` adds that a channel is retired by the one call
  that closed it and that the list of finished handles holds closed ones only, so
  trimming it drops no open channel. Of `runParallel`: each element is taken once,
  no worker outlives the call, after an error a worker takes at most the element
  it was going for, and `Parallel` implements `MapPromise` (its safety part).
  `ParallelInv` accounts for every index handed out: it has a result, is being
  worked on, or an error is recorded.
- **DebugProofs** is about `Stepping` and `DebugSession`. `StepScope`: `StepInv`
  says that while the frame a step began in lives it is the one at the step's
  depth. `SkipsHonoured` and `MarkersStop`: `TableInv` says that the armed table
  is the one the lists of all files give, and that no counter is ahead of the
  arrivals. `ExitPublished`, `ReadsWhileParked`, `RefsFresh`: `SessionInv` says
  who is where between a stop and the resumption: from the moment the pump has a
  stop, the executor is parked or ending until a client that waits resumes it.
- **CacheProofs** proves `StatsExact`, `OldPutsStayOut` and `ReadsLastPut` for any
  number of threads, keys, values and stores. `StatsInv` counts the gets that
  have counted a hit and are still reading; `HeldInv` says whose store an entry
  is in; `SeqInv` says, while calls do not overlap, what the one call under way
  has done so far to the two maps.
- **DocumentsProofs** proves `InStep`, `ShownIsHeld` and `IndexFollows`. For the
  first two `PipeInv` follows the notifications on their way: each leads from the
  text the one before it left to the next, up to the editor's copy. For the
  indexes `IndexInv` names the list of operations each of the two goroutines can
  be left with (its plan), and says for each pair of plans what the indexes hold
  and what the rest of the plans will make of it: the text of an open document,
  or what the disk holds once no change of it is on its way. Where a read was
  skipped only two things are left to say of a closed file, and they are proved:
  nothing a closed buffer filed is kept, and a file that is gone is filed nowhere.
- **CustodyProofs** proves that there is one open case, that a closed case is
  frozen (`StepsWrite`: every step but `case_open` leaves the cases alone or
  writes into the open one), and the properties about sources:
  `MeasuredByPolicy`, `HashedOrExplained`, `VerdictHonest`. An opener reads the
  policy, lists the sources without a digest and hashes them in three steps
  without the lock; `CustodyInv` says of each step what the call carries and how
  the case may have grown meanwhile.
- **KeyFileProofs** proves `TornHasCopy` for any number of processes, keys and
  passphrases, whatever overlaps and wherever a process or the power fails.
  `TornHasCopy` alone is not inductive: a power loss tears a file that is still
  whole to a reader. `KeyFileInv` says that either the whole new document is
  beside the file *on the disk* (`Covered`) or the file would survive a power
  loss untorn (`Sound`); `RewriteInv` says, for the process that has the locks,
  how far its rewrite is and so which of the two holds, and `CallInv` that at
  most one process is there. One lemma per action. `SealedStillOpens` and
  `ErasedLeavesFile` are proved for calls that do not overlap: `KeptInv` says
  that the file as it is, as it is on the disk, and torn between the two, loses
  no key and brings back none, and at which step of the only call it differs
  from the document the call read.
- **CaseProofs** proves the five properties of the run `case` for any number of
  examiners, records, keys, redactions, holds and exhibits, the refinement of
  `Lifecycle` included, and that a disposed case is settled. The invariant `Inv`
  is types, `readable`, and three facts. `Lockstep`: a run attached by an open
  handle has the store, and its copy is the ledger's; the lock of the store
  makes that run the only one that moves the case. `Approval`: a review of the
  case is open exactly in the state `in_review`, and from the conclusion on
  asker and approver are two people. `Settled`: a disposed case has no hold, a
  lapsed period and an erased key, and the file of an erased key is gone or is
  one that a rotation put back.
  `readable` follows because each guard implies its reader's rule. Its second
  part is about `Roles`: an examiner whose opens never overlap has one role.
  `ChecksStand` is the strengthening: what was checked still agrees with what is
  held.

Only model-checked: liveness (`TeardownReached`, `CloseWakesAll`,
`AlwaysAnswers`, the debug session's), since the prover does not do fairness,
and the module `CaseDefinitions`, whose one run shows a violation.

## 6. Where code and comments disagree

TLC refutes each of these sentences by what the code does. `case_reattach` is
listed as a run with its finding in `PROJECT.json`. The others are run the same
way (`tlc -config X.cfg M`, with the module of the run of that component). A
configuration named `...Refuted` lists several properties, and TLC stops at the
first that fails: leave one line in to see that one's trace. The hazards of
`PROJECT.json` point here. Where a weaker statement holds, a passing run checks
it.

| Configuration | Property | Code | The comment, and what happens |
|---|---|---|---|
| `MCDebugRefuted` | `LastEventIsExit` | `vm/debugger.go:364` | "The last event of a session is always one with reason StopExited" (`:32`). After `Terminate` both arms of the exit select are ready; if `done` is taken the exit event and the clean-up in `publishExit` are lost. Holds when nobody ended the session: `ExitPublished`. |
| `MCDebugRefuted` | `NeverReadsRunning` | `vm/debugger.go:483` | "stopped is true exactly while the executor is parked in the hook" (`:69`). It is cleared after the command has been received, so a read sent right after a resume may walk the stack of a running program. Holds for a client that waits: `ReadsWhileParked`. |
| `MCDebugRefuted` | `AlwaysAnswered` | `vm/debugger.go:525` | "a call made while the program is running returns ErrNotStopped" (`:29`). In the same window a second resume passes the check and blocks the request loop, which then cannot read a disconnect. Holds for a client that waits: `RequestAnswered`. |
| `MCTasksRetention` | `CollectedNeverOccupyRetention` | `builtin/tasks.go:118` | "a task the program does collect never occupies retention at all" (`:180`). A released handle stays in the finished list, so an uncollected result can be dropped early. |
| `MCChannelsClosed` | `ClosedIsLast` | `builtin/channels.go:251` | "a receive loop drains a closed channel before it ever sees closed=true" (`:280`). A send that passed its check before the close queues its value after a receiver was told. Holds for what was sent before the close: `ClosedAfterEarly`. |
| `MCSteppingRefuted` | `LeavingEndsStep` | `vm/debugger.go:427` | "Leaving the frame the step started in ends every kind of step" (`:425`). Depth alone is compared, so a step-out from a callback of `map` runs through the next callback at the same depth. |
| `MCSteppingRefuted` | `VerifiedArmed` | `vm/debugger.go:586` | "the armed set can never disagree with the reported one" (`:566`). Two markers that bind to one line are both reported, the last is armed. Where no marker on the line skips an arrival it makes no difference: such a line is never run past, whichever file was set last: `MarkersStop`. |
| `MCSteppingRefuted` | `HitsExact` | `vm/debugger.go:393` | "Hits is how many times execution has reached this breakpoint" (`:185`). An arrival that coincides with a pause or the entry stop is not counted. |
| `MCCacheFound` | `FoundWasPut` | `builtin/cache.go:207` | "a value comes back as it went in" (`:430`). A get racing a delete answers found with the null the delete stored. |
| `MCDocumentsRefuted` | `EditorWins` | `lsp/internal/server/workspace_scan.go:389` | "unless an editor already has it open (open snapshots win)" (`:358`). A `didOpen` between the scan's check and its filing is overwritten in the shared workspace. |
| `MCDocumentsRefuted` | `DiskInSync` | `lsp/internal/server/workspace_scan.go:409` | "didChangeWatchedFiles keeps the disk index in sync with external file changes" (`server.go:308`). A notification handled between the scan's read and its filing is undone. |
| `MCDocumentsRefuted` | `WholeAccepted` | `lsp/internal/workspace/store.go:111` | "it is accepted even while desynced" (`:105`), of a full copy. A notification whose first change is a range is refused before its full copy is reached. |
| `MCCustodyRefuted` | `OpenIsRecording` | `builtin/custody.go:812` | evidence a task "reads lands in the same manifest" (`:342`). A `case_open` between the two halves of a `case_close` leaves a case open and the recorders' flag down. |
| `MCCustodyRefuted` | `AlgoNamesDigest` | `builtin/custody.go:942` | "Algo names the policy that produced it" (`:126`). A source registered without a digest and then opened gets one its record does not name. |
| `MCRolesOneRole` | `OneRole` | `builtin/role.go:242` | an examiner "has one role at a time" (`:255`). The role is checked, and recorded later without checking again; two overlapping opens both pass. Holds when they do not overlap: `OneRoleInTurn`. |
| `MCCaseDefinitionsAttachReadsBack` | `AttachReadsBack` | `builtin/case_lifecycle.go:1145` | a later attach "reads the case back: its lifecycle state, the assignments in force, and the classes and views declared under the open key" (`:12`). An attach through a second handle keeps the run's own classes, though another run may have defined one while the ledger was closed. |
| the same, with this property in its place | `NumberedInOrder` | `builtin/class.go:126` | "so the run never holds a definition its ledger does not" (`:130`), and the other way round nothing says so. The reattached run numbers its next class by how many it has; the ledger then holds two of one number, and `caseDefinitionsRead` refuses every later attach. |
| `MCCaseRefuted` | `NeverSealedLate` | `builtin/case_lifecycle.go:643` | "nothing is sealed while a case is in review, concluded or retained" (`docs/MUTANT_LANGUAGE_REFERENCE.md:2567`). A run that closed its ledger goes on with the copy it has while another run moves the case. Holds while the ledger is open: `CopyExact`. |
| `MCCaseRefuted` | `DisposalInReach` | `builtin/case_erasure.go:1136` | a case is disposed of "when the ledger shows everything a disposal needs" (`:51`). The erased key it needs is the key the attach before the disposal needs; if the run that erased it ends first, no run can attach the case to dispose of it. |
| `MCKeyFileRefuted` | `KeysAreKept` | `builtin/case_key.go:383` | "A record sealed before this call still opens: ... earlier generations are kept" (`:486`). Two rotations that overlap both start from the file as it was, and the second rename drops the generation of the first. Holds while calls do not overlap: `SealedStillOpens`. |
| `MCKeyFileRefuted` | `ErasureStands` | `builtin/case_erasure.go:1056` | "the ledger never says a key was erased that was not" (`:43`). An erasure of one generation that is interrupted leaves its copy beside the file; an erasure of every generation does not look for it, and the keys in it stay. Holds of the key file itself: `ErasedLeavesFile`. |

## 7. What could come next

1. **Serve**: accept loop, semaphore, handler goroutines and Lua scripts past
   their time, composed with `Tasks` to state what the teardown does not wait
   for.
2. **Disclosure**: issue, bundle and withdrawal of grants on the ledger of
   module `Case`.
3. **Audit** (dropping at the cap, verification of a truncated log),
   **Resource** (`with_resource` on every path), **Modules** (import order and
   cycles against a reference definition).

## 8. Not modelled

The language itself (lexer, parser, macros, compiler, instructions) is
sequential and better served by its tests against the tree evaluator. Parsers
of disk images, registries, logs and the like are functions of their input.
Cryptography, sockets, databases and the Lua interpreter are libraries seen
through a handle. The copying of values into a task (`vm/detach.go`) is taken as
given.

Handlers of `net_serve` and `net_spawn` are goroutines no WaitGroup counts, and
they may call any builtin. `Tasks` has none of them, so its theorems about the
teardown (`TeardownSafe`, `AddFromZero`) are about programs without such
handlers; the comment at `builtin/tasks.go:64`, which says why raising the
WaitGroup is safe, does not consider them either.

Of a case these are left out: the hashes by which an event names the one before
it (a chain is what its reader makes of it; that a hash chain shows a foreign
event is cryptography); a second run of one examiner at the same time; record
handles that are open when a key is erased, which only refuse the erasure; the
rendering of manifests; redactions, disclosures and views, except as a subject
of review. In `KeyFile` a document's authentication code stands for its
contents, which never recur, and the passphrase given is the right one, since
another is refused before anything is written.

In `Documents` a file has two spellings that name one module of the shared
workspace. The device-namespace spellings of Windows, which have a key of their
own there (`forgetSplitModule`), are not among them.

The modules of section 3 about goroutines are about one process: files changed
by another are changes of the disk in `Custody` and `Documents`. Several
processes on one key file are in `KeyFile`, and several runs on one ledger in
`Case` and `CaseDefinitions`.

------------------------------- MODULE Tasks -------------------------------
(***************************************************************************)
(* The task registry behind spawn, task_wait and task_done                 *)
(* (builtin/tasks.go), the goroutine vm/spawn.go starts for a task, and    *)
(* the teardown runner.runvm performs once the main program has returned.  *)
(*                                                                         *)
(* A goroutine is a member of Threads: 0 is the main program and a handle  *)
(* h > 0 is the goroutine of the task registered under h.  What a program  *)
(* computes is left open: every thread may call any builtin at any time    *)
(* with any handle.  A handle is a plain integer, so a task may wait for   *)
(* any other, for one that is only being spawned, or for itself.  Each     *)
(* builtin is split where the code gives up the registry's mutex, because  *)
(* that is where other threads get in.                                     *)
(***************************************************************************)
EXTENDS Integers, Sequences, FiniteSets, Retention

CONSTANTS
  maxLiveTasks,      (* ceiling on running tasks (1024 in the code)         *)
  maxRetainedTasks,  (* finished handles kept (4096 in the code)            *)
  MaxHandles         (* model bound: how many tasks a run may ever spawn    *)

ASSUME LimitsAssumption ==
  /\ maxLiveTasks \in Nat \ {0}
  /\ maxRetainedTasks \in Nat \ {0}
  /\ MaxHandles \in Nat

Main    == 0
Handles == 1..MaxHandles
Threads == 0..MaxHandles

VARIABLES
  tasks,      (* keys of taskRegistry.tasks                                 *)
  nextID,     (* taskRegistry.nextID                                        *)
  live,       (* taskRegistry.live                                          *)
  finished,   (* taskRegistry.finished, oldest first                        *)
  closed,     (* handles whose done channel has been closed                 *)
  liveTasks,  (* the counter of the sync.WaitGroup of that name             *)
  phase,      (* where the goroutine of each task stands                    *)
  main,       (* where the main goroutine stands in runvm                   *)
  call,       (* the builtin call each thread is inside                     *)
  collected,  (* history: handles some task_wait has released               *)
  ended       (* history: every handle in the order its task finished       *)

registry == <<tasks, nextID, live, finished>>
history  == <<collected, ended>>
vars == <<tasks, nextID, live, finished, closed, liveTasks, phase, main, call,
          collected, ended>>

Idle      == [op |-> "idle", h |-> 0]
CallOps   == {"idle", "add", "go", "forever", "timed", "decide", "release"}

(* How a task_wait goes on after its lookup: it receives from done, it is   *)
(* in the select of done and a timer, or, with a timeout of zero, it looks  *)
(* at done once.                                                            *)
WaitModes == {"forever", "timed", "decide"}

Running(t) == IF t = Main THEN main = "run" ELSE phase[t] = "running"

(* A thread that is executing program code, between two builtin calls.     *)
Free(t) == Running(t) /\ call[t] = Idle

Return(t) == call' = [call EXCEPT ![t] = Idle]

Init ==
  /\ tasks = {} /\ nextID = 1 /\ live = 0 /\ finished = << >>
  /\ closed = {}
  /\ liveTasks = 0
  /\ phase = [h \in Handles |-> "none"]
  /\ main = "run"
  /\ call = [t \in Threads |-> Idle]
  /\ collected = {}
  /\ ended = << >>

-----------------------------------------------------------------------------
(* spawn *)

(* Faulty variants of an operation carry its name and a suffix.  No         *)
(* specification uses them: they show that the properties can fail.         *)

(* The ceiling is tested with > instead of >=.                              *)
RegisterTask_OffByOne(t) ==
  /\ Free(t)
  /\ live <= maxLiveTasks
  /\ nextID <= MaxHandles
  /\ nextID' = nextID + 1
  /\ live' = live + 1
  /\ tasks' = tasks \cup {nextID}
  /\ phase' = [phase EXCEPT ![nextID] = "registered"]
  /\ call' = [call EXCEPT ![t] = [op |-> "add", h |-> nextID]]
  /\ UNCHANGED <<finished, closed, liveTasks, main, history>>

(* The part of RegisterTask under the mutex: refuse at the ceiling, or      *)
(* reserve the next handle and count it in live.                            *)
RegisterTask(t) ==
  /\ Free(t)
  /\ \/ /\ live >= maxLiveTasks
        /\ Return(t)
        /\ UNCHANGED <<registry, phase>>
     \/ /\ live < maxLiveTasks
        /\ nextID <= MaxHandles
        /\ nextID' = nextID + 1
        /\ live' = live + 1
        /\ tasks' = tasks \cup {nextID}
        /\ phase' = [phase EXCEPT ![nextID] = "registered"]
        /\ call' = [call EXCEPT ![t] = [op |-> "add", h |-> nextID]]
        /\ UNCHANGED finished
  /\ UNCHANGED <<closed, liveTasks, main, history>>

(* liveTasks.Add(1), after the mutex is given up.                           *)
AddLive(t) ==
  /\ call[t].op = "add"
  /\ liveTasks' = liveTasks + 1
  /\ phase' = [phase EXCEPT ![call[t].h] = "counted"]
  /\ call' = [call EXCEPT ![t].op = "go"]
  /\ UNCHANGED <<registry, closed, main, history>>

(* hoSpawn snapshots the caller's globals, starts the goroutine and returns *)
(* the handle.                                                              *)
StartTask(t) ==
  /\ call[t].op = "go"
  /\ phase' = [phase EXCEPT ![call[t].h] = "running"]
  /\ Return(t)
  /\ UNCHANGED <<registry, closed, liveTasks, main, history>>

-----------------------------------------------------------------------------
(* The end of a task *)

(* The loop drops one result too many: >= instead of >.                     *)
CompleteTask_DropsEarly(t) ==
  /\ t \in Handles
  /\ Free(t)
  /\ live' = live - 1
  /\ closed' = closed \cup {t}
  /\ ended' = Append(ended, t)
  /\ finished' = Retained(Append(finished, t), maxRetainedTasks - 1)
  /\ tasks' = tasks \ Evicted(Append(finished, t), maxRetainedTasks - 1)
  /\ phase' = [phase EXCEPT ![t] = "completed"]
  /\ UNCHANGED <<nextID, liveTasks, main, call, collected>>

(* CompleteTask up to the unlock, from the deferred function of the task's  *)
(* goroutine: the closure returned or failed, or it panicked and the        *)
(* recover turned that into a failure.                                      *)
CompleteTask(t) ==
  /\ t \in Handles
  /\ Free(t)
  /\ IF t \in tasks /\ t \notin closed
     THEN /\ live' = live - 1
          /\ closed' = closed \cup {t}
          /\ ended' = Append(ended, t)
          /\ finished' = Retained(Append(finished, t), maxRetainedTasks)
          /\ tasks' = tasks \ Evicted(Append(finished, t), maxRetainedTasks)
          /\ phase' = [phase EXCEPT ![t] = "completed"]
     ELSE /\ phase' = [phase EXCEPT ![t] = "over"]
          /\ UNCHANGED <<live, closed, finished, tasks, ended>>
  /\ UNCHANGED <<nextID, liveTasks, main, call, collected>>

(* liveTasks.Done(), after the unlock; the goroutine ends.                  *)
DoneLive(t) ==
  /\ t \in Handles
  /\ phase[t] = "completed"
  /\ liveTasks' = liveTasks - 1
  /\ phase' = [phase EXCEPT ![t] = "over"]
  /\ UNCHANGED <<registry, closed, main, call, history>>

-----------------------------------------------------------------------------
(* task_wait and task_done *)

(* lookupTask: an unknown handle is refused, a known one hands its caller   *)
(* the managedTask, which stays valid whatever the registry does next.      *)
TaskWait(t, h, mode) ==
  /\ Free(t)
  /\ IF h \in tasks
     THEN call' = [call EXCEPT ![t] = [op |-> mode, h |-> h]]
     ELSE Return(t)
  /\ UNCHANGED <<registry, closed, liveTasks, phase, main, history>>

(* A finished task does not end the wait.                                   *)
WaitFinished_Again(t) ==
  /\ call[t].op \in {"forever", "timed"}
  /\ call[t].h \in closed
  /\ UNCHANGED vars

(* <-task.done is ready: the end of a wait without a timeout, and one case  *)
(* of finishedWithin's select.                                              *)
WaitFinished(t) ==
  /\ call[t].op \in {"forever", "timed"}
  /\ call[t].h \in closed
  /\ call' = [call EXCEPT ![t].op = IF @ = "forever" THEN "release" ELSE "decide"]
  /\ UNCHANGED <<registry, closed, liveTasks, phase, main, history>>

(* The select's case is the answer.                                         *)
TimerFires_Answers(t) ==
  /\ call[t].op = "timed"
  /\ Return(t)
  /\ UNCHANGED <<registry, closed, liveTasks, phase, main, history>>

(* <-timer.C is ready, whether or not done is: select takes either.         *)
TimerFires(t) ==
  /\ call[t].op = "timed"
  /\ call' = [call EXCEPT ![t].op = "decide"]
  /\ UNCHANGED <<registry, closed, liveTasks, phase, main, history>>

(* A wait that ran out of time releases the handle all the same.            *)
HasFinished_Releases(t) ==
  /\ call[t].op = "decide"
  /\ call' = [call EXCEPT ![t].op = "release"]
  /\ UNCHANGED <<registry, closed, liveTasks, phase, main, history>>

(* finishedWithin answers from done, and task_wait goes on to release the   *)
(* handle or reports that the task is still running.                        *)
HasFinished(t) ==
  /\ call[t].op = "decide"
  /\ IF call[t].h \in closed THEN call' = [call EXCEPT ![t].op = "release"]
                             ELSE Return(t)
  /\ UNCHANGED <<registry, closed, liveTasks, phase, main, history>>

(* releaseTask, then the outcome read from the managedTask.                 *)
ReleaseTask(t) ==
  /\ call[t].op = "release"
  /\ tasks' = tasks \ {call[t].h}
  /\ collected' = collected \cup {call[t].h}
  /\ Return(t)
  /\ UNCHANGED <<nextID, live, finished, closed, liveTasks, phase, main, ended>>

-----------------------------------------------------------------------------
(* The end of the program: machine.Run returns and runvm's defers unwind.   *)

(* The defers are registered in the wrong order: the cleanup does not wait. *)
MainReturns_NoWait ==
  /\ Free(Main)
  /\ main' = "closing"
  /\ UNCHANGED <<registry, closed, liveTasks, phase, call, history>>

MainReturns ==
  /\ Free(Main)
  /\ main' = "waiting"
  /\ UNCHANGED <<registry, closed, liveTasks, phase, call, history>>

WaitForTasks ==
  /\ main = "waiting"
  /\ liveTasks = 0
  /\ main' = "closing"
  /\ UNCHANGED <<registry, closed, liveTasks, phase, call, history>>

(* ReportForgottenHandles and then CleanupSensitiveData, which zeroes the   *)
(* constants every task decrypts.                                           *)
CleanupSensitiveData ==
  /\ main = "closing"
  /\ main' = "wiped"
  /\ UNCHANGED <<registry, closed, liveTasks, phase, call, history>>

(* Tasks that wait for each other, or a task that waits for itself, without *)
(* a timeout.                                                               *)
WaitCycle ==
  \E S \in SUBSET Handles :
    S # {} /\ \A t \in S : call[t].op = "forever" /\ call[t].h \in S

(* Where nothing more need happen: the process has ended, or tasks wait for *)
(* each other for ever.  TLC's deadlock check shows there is no other stop. *)
Stopped == (main = "wiped" \/ WaitCycle) /\ UNCHANGED vars

-----------------------------------------------------------------------------
Proceed(t) ==
  \/ AddLive(t) \/ StartTask(t)
  \/ WaitFinished(t) \/ TimerFires(t) \/ HasFinished(t) \/ ReleaseTask(t)
  \/ DoneLive(t)

Next ==
  \/ \E t \in Threads : RegisterTask(t)
  \/ \E t \in Threads, h \in Handles, mode \in WaitModes : TaskWait(t, h, mode)
  \/ \E t \in Threads : CompleteTask(t)
  \/ \E t \in Threads : Proceed(t)
  \/ MainReturns
  \/ WaitForTasks
  \/ CleanupSensitiveData
  \/ Stopped

Spec == Init /\ [][Next]_vars

(* What the Go scheduler gives: a runnable goroutine inside a builtin, or   *)
(* in the teardown, is eventually scheduled.  What is assumed of the        *)
(* program: a task whose calls of task_wait and spawn all return does not   *)
(* run for ever.  That a task_wait returns is not assumed.                  *)
Fairness ==
  /\ \A t \in Threads : WF_vars(Proceed(t))
  /\ \A t \in Threads : SF_vars(CompleteTask(t))
  /\ WF_vars(WaitForTasks)
  /\ WF_vars(CleanupSensitiveData)

FairSpec == Spec /\ Fairness

-----------------------------------------------------------------------------
(* Properties *)

Spawned == {h \in Handles : h < nextID}
Phases  == {"none", "registered", "counted", "running", "completed", "over"}

(* Every variable keeps its type: the registry maps only handles it gave    *)
(* out and no counter goes below zero (a negative WaitGroup panics in Go).  *)
TypeOK ==
  /\ nextID \in 1..(MaxHandles + 1)
  /\ tasks \subseteq Spawned
  /\ live \in Nat
  /\ finished \in Seq(Handles)
  /\ closed \subseteq Handles
  /\ liveTasks \in Nat
  /\ phase \in [Handles -> Phases]
  /\ main \in {"run", "waiting", "closing", "wiped"}
  /\ call \in [Threads -> [op : CallOps, h : Threads]]
  /\ collected \subseteq Handles
  /\ ended \in Seq(Handles)

(* live counts exactly the handles given out whose done channel is still    *)
(* open, and never passes the ceiling RegisterTask tests.                   *)
LiveExact ==
  /\ live = Cardinality(Spawned \ closed)
  /\ live <= maxLiveTasks

(* A task that has not finished stays addressable: the retention loop of    *)
(* CompleteTask drops finished handles only, whatever has been collected.   *)
(* Were one dropped early, its own CompleteTask would take the early return *)
(* and WaitForTasks would never come back.                                  *)
UnfinishedAddressable == Spawned \ closed \subseteq tasks

(* However many tasks run and however few are collected, the registry never *)
(* holds more than maxRetainedTasks results.                                *)
RetentionBounded == Cardinality(tasks \cap closed) <= maxRetainedTasks

(* Once WaitForTasks has let the teardown proceed, no task goroutine is     *)
(* running or about to run, so nothing reads the constants                  *)
(* CleanupSensitiveData zeroes.                                             *)
TeardownAfterTasks ==
  main \in {"closing", "wiped"} =>
    \A h \in Handles : phase[h] \in {"none", "over"}

(* The argument stated at the declaration of liveTasks: an Add that raises  *)
(* the counter from zero is the main program's, and comes before it waits.  *)
AddFromZeroIsMains ==
  [][liveTasks = 0 /\ liveTasks' > 0 => main = "run" /\ call[Main].op = "add"]_vars

(* A result is not lost: it can be collected until somebody has collected   *)
(* it or maxRetainedTasks tasks have finished after its own, whatever waits *)
(* time out, cross or release the same handle meanwhile.                    *)
ResultsKept ==
  \A i \in 1..Len(ended) :
    ended[i] \in tasks \cup collected \/ Len(ended) - i >= maxRetainedTasks

(* No mix of waits, releases and evictions drops a handle that somebody may *)
(* still need: a running task's, or that of a result within the limit       *)
(* (CompleteTask, releaseTask).                                             *)
HandlesKept == UnfinishedAddressable /\ ResultsKept

(* Whoever is in a task_wait on a task that has finished gets its outcome:  *)
(* a wait without a timeout is woken, and one with a timeout does not take  *)
(* the timer's word when both are due, nor does a poll miss a finished task.*)
FinishedIsTold ==
  \A t \in Threads, h \in Handles :
    call[t].op \in WaitModes /\ call[t].h = h /\ h \in closed
      ~> call[t] = [op |-> "release", h |-> h]

(* Whatever a program's tasks spawn and wait for, only a cycle of waits     *)
(* without a timeout keeps a program that has returned from its teardown:   *)
(* every other wait ends and every Add meets its Done ("A task that never   *)
(* finishes therefore keeps the program alive", at WaitForTasks).           *)
TeardownReached == main = "waiting" ~> (main = "wiped" \/ WaitCycle)

-----------------------------------------------------------------------------
(* The inductive invariant behind the safety properties.                    *)

Starting(t) == call[t].op \in {"add", "go"}
Counted     == {h \in Handles : phase[h] \in {"counted", "running", "completed"}}

(* phase follows the registry: a handle has a goroutine once it is given    *)
(* out, and its done channel is closed exactly when that goroutine is past  *)
(* its CompleteTask.                                                        *)
PhaseFollowsRegistry ==
  \A h \in Handles :
    /\ phase[h] = "none" <=> h >= nextID
    /\ h \in closed <=> phase[h] \in {"completed", "over"}

(* Only a running thread is inside a builtin; one inside spawn owns the     *)
(* task it is starting, alone; one about to release has seen done closed.   *)
CallsConsistent ==
  \A t \in Threads :
    /\ call[t].op # "idle" => Running(t) /\ call[t].h \in Handles
    /\ call[t].op = "idle" => call[t] = Idle
    /\ call[t].op = "add" => phase[call[t].h] = "registered"
    /\ call[t].op = "go" => phase[call[t].h] = "counted"
    /\ call[t].op = "release" => call[t].h \in closed
    /\ \A u \in Threads :
         Starting(t) /\ Starting(u) /\ call[t].h = call[u].h => t = u

(* A task that is registered and not yet running has a spawner on its way.  *)
SpawnerPresent ==
  \A h \in Handles :
    phase[h] = "registered" => \E t \in Threads : call[t] = [op |-> "add", h |-> h]

(* The WaitGroup counts the tasks between their Add and their Done.         *)
WaitGroupExact == liveTasks = Cardinality(Counted)

(* The finished list holds finished handles only, at most maxRetainedTasks  *)
(* of them, and every result still held.                                    *)
FinishedListExact ==
  /\ Len(finished) <= maxRetainedTasks
  /\ \A i \in 1..Len(finished) : finished[i] \in closed
  /\ \A h \in tasks \cap closed : \E i \in 1..Len(finished) : finished[i] = h

IndInv ==
  /\ TypeOK
  /\ PhaseFollowsRegistry
  /\ CallsConsistent
  /\ SpawnerPresent
  /\ WaitGroupExact
  /\ FinishedListExact
  /\ LiveExact
  /\ UnfinishedAddressable
  /\ TeardownAfterTasks

(* And, beside it, what relates the finished list to the history: every     *)
(* finished handle is in the history once, and the list is its newest part, *)
(* shorter than the limit only while nothing has been dropped, each entry   *)
(* still held or collected.                                                 *)
HistoryInv ==
  /\ \A h \in Handles : h \in closed <=> \E i \in 1..Len(ended) : ended[i] = h
  /\ \A i, j \in 1..Len(ended) : ended[i] = ended[j] => i = j
  /\ Len(finished) <= Len(ended)
  /\ Len(finished) < Len(ended) => Len(finished) = maxRetainedTasks
  /\ \A i \in 1..Len(finished) : finished[i] = ended[Len(ended) - Len(finished) + i]
  /\ \A i \in 1..Len(finished) : finished[i] \in tasks \cup collected

-----------------------------------------------------------------------------
(* The comment at TaskWait: "a task the program does collect never occupies *)
(* retention at all".  Then a finished result nobody has collected is       *)
(* dropped only when maxRetainedTasks others as good as it are held.        *)
CollectedNeverOccupyRetention ==
  [][\A h \in (tasks \cap closed) \ tasks' :
       h \in collected' \/ Cardinality(tasks' \cap closed') = maxRetainedTasks]_vars
=============================================================================

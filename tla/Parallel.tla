------------------------------ MODULE Parallel ------------------------------
(***************************************************************************)
(* runParallel in vm/parallel.go, the body of pmap and peach: a fixed      *)
(* number of worker goroutines take indices from a shared counter, stop    *)
(* early once an error is recorded, and are all awaited before the call    *)
(* returns.  Element i of the input is the number i, counted from zero as  *)
(* in the code; its result is abstracted to whether it has been stored.    *)
(***************************************************************************)
EXTENDS Integers, FiniteSets

CONSTANTS
  N,                   (* len(elements)                                     *)
  requested,           (* workers asked for, 0 when the argument is absent  *)
  NumCPU,              (* runtime.NumCPU()                                  *)
  maxParallelWorkers   (* ceiling on workers (1024 in the code)             *)

ASSUME ParallelAssumption ==
  /\ N \in Nat \ {0}          (* an empty array returns before any worker   *)
  /\ requested \in Nat
  /\ NumCPU \in Nat \ {0}
  /\ maxParallelWorkers \in Nat \ {0}

Least(a, b) == IF a < b THEN a ELSE b

(* The worker count; the final max with 1 covers what cannot happen here.   *)
resolveWorkerCount ==
  LET count == Least(Least(IF requested <= 0 THEN NumCPU ELSE requested, N), maxParallelWorkers)
  IN  IF count < 1 THEN 1 ELSE count

Workers  == 1..resolveWorkerCount
Elements == 0..(N - 1)
NoErr    == 0

VARIABLES
  next,      (* the shared index                                            *)
  firstErr,  (* NoErr, or the worker whose error was recorded first         *)
  results,   (* elements whose result has been stored                       *)
  pc,        (* where each worker goroutine stands                          *)
  index,     (* the index each worker holds                                 *)
  started,   (* how many workers the loop of runParallel has started        *)
  wg,        (* the WaitGroup counter                                       *)
  answer,    (* "none" until runParallel returns                            *)
  taken,     (* history: who took each element, in a set of pairs           *)
  late       (* history: elements each worker took after an error was set   *)

mapVars == <<next, firstErr, results, pc, index, started, wg, answer, taken, late>>

MapInit ==
  /\ next = 0 /\ firstErr = NoErr /\ results = {}
  /\ pc = [w \in Workers |-> "unborn"]
  /\ index = [w \in Workers |-> 0]
  /\ started = 0 /\ wg = 0 /\ answer = "none"
  /\ taken = {}
  /\ late = [w \in Workers |-> {}]

WorkerGoto(w, l) == pc' = [pc EXCEPT ![w] = l]

(* wg.Add(1) and go, once per turn of the loop.                             *)
StartWorker ==
  /\ started < resolveWorkerCount
  /\ started' = started + 1
  /\ wg' = wg + 1
  /\ WorkerGoto(started + 1, "setup")
  /\ UNCHANGED <<next, firstErr, results, index, answer, taken, late>>

(* The worker builds its boundary, its VM and its closure.                  *)
SetUp(w) ==
  /\ pc[w] = "setup"
  /\ WorkerGoto(w, "check")
  /\ UNCHANGED <<next, firstErr, results, index, started, wg, answer, taken, late>>

(* Faulty variants of an operation carry its name and a suffix.  No         *)
(* specification uses them: they show that the properties can fail.         *)

(* A worker does not look whether the call has failed.                      *)
CheckFailed_Never(w) ==
  /\ pc[w] = "check"
  /\ WorkerGoto(w, "take")
  /\ UNCHANGED <<next, firstErr, results, index, started, wg, answer, taken, late>>

(* if failed() { return }                                                   *)
CheckFailed(w) ==
  /\ pc[w] = "check"
  /\ WorkerGoto(w, IF firstErr # NoErr THEN "leaving" ELSE "take")
  /\ UNCHANGED <<next, firstErr, results, index, started, wg, answer, taken, late>>

(* takeNext without its mutex: two increments may count as one.             *)
TakeNext_Unlocked(w) ==
  /\ pc[w] = "take"
  /\ next < N
  /\ index' = [index EXCEPT ![w] = next]
  /\ next' \in {next, next + 1}
  /\ taken' = taken \cup {<<w, next>>}
  /\ WorkerGoto(w, "call")
  /\ UNCHANGED <<firstErr, results, started, wg, answer, late>>

(* takeNext forgets to advance the index.                                   *)
TakeNext_Stuck(w) ==
  /\ pc[w] = "take"
  /\ next < N
  /\ index' = [index EXCEPT ![w] = next]
  /\ taken' = taken \cup {<<w, next>>}
  /\ WorkerGoto(w, "call")
  /\ UNCHANGED <<next, firstErr, results, started, wg, answer, late>>

(* takeNext, under nextMu.                                                  *)
TakeNext(w) ==
  /\ pc[w] = "take"
  /\ IF next >= N
     THEN /\ WorkerGoto(w, "leaving")
          /\ UNCHANGED <<next, index, taken, late>>
     ELSE /\ index' = [index EXCEPT ![w] = next]
          /\ next' = next + 1
          /\ taken' = taken \cup {<<w, next>>}
          /\ late' = IF firstErr = NoErr THEN late
                     ELSE [late EXCEPT ![w] = @ \cup {next}]
          /\ WorkerGoto(w, "call")
  /\ UNCHANGED <<firstErr, results, started, wg, answer>>

(* callElement returned a result, which is stored at the worker's index.    *)
StoreResult(w) ==
  /\ pc[w] = "call"
  /\ results' = results \cup {index[w]}
  /\ WorkerGoto(w, "check")
  /\ UNCHANGED <<next, firstErr, index, started, wg, answer, taken, late>>

(* A recovered panic is not recorded.                                       *)
RecordErr_Swallowed(w) ==
  /\ pc[w] \in {"setup", "call"}
  /\ WorkerGoto(w, "leaving")
  /\ UNCHANGED <<next, firstErr, results, index, started, wg, answer, taken, late>>

(* callElement returned an error, or the callback or the set-up panicked    *)
(* and the deferred recover caught it.  recordErr runs before wg.Done.      *)
RecordErr(w) ==
  /\ pc[w] \in {"setup", "call"}
  /\ firstErr' = IF firstErr = NoErr THEN w ELSE firstErr
  /\ WorkerGoto(w, "leaving")
  /\ UNCHANGED <<next, results, index, started, wg, answer, taken, late>>

(* defer wg.Done()                                                          *)
WorkerDone(w) ==
  /\ pc[w] = "leaving"
  /\ wg' = wg - 1
  /\ WorkerGoto(w, "gone")
  /\ UNCHANGED <<next, firstErr, results, index, started, answer, taken, late>>

(* wg.Wait() passes and runParallel returns firstErr or the results.        *)
MapReturn ==
  /\ answer = "none"
  /\ started = resolveWorkerCount
  /\ wg = 0
  /\ answer' = IF firstErr # NoErr THEN "error" ELSE "results"
  /\ UNCHANGED <<next, firstErr, results, pc, index, started, wg, taken, late>>

Returned == answer # "none" /\ UNCHANGED mapVars

Worker(w) ==
  \/ SetUp(w) \/ CheckFailed(w) \/ TakeNext(w)
  \/ StoreResult(w) \/ RecordErr(w) \/ WorkerDone(w)

MapNext == StartWorker \/ (\E w \in Workers : Worker(w)) \/ MapReturn \/ Returned

MapSpec == MapInit /\ [][MapNext]_mapVars

(* Goroutines are scheduled, and a callback that never returns is outside   *)
(* what pmap can promise.                                                   *)
MapFairSpec ==
  /\ MapSpec
  /\ WF_mapVars(StartWorker) /\ WF_mapVars(MapReturn)
  /\ \A w \in Workers : WF_mapVars(Worker(w))

-----------------------------------------------------------------------------
(* Properties *)

(* Every variable keeps its type and the WaitGroup never goes negative.     *)
TypeOK ==
  /\ next \in 0..N
  /\ firstErr \in Workers \cup {NoErr}
  /\ results \subseteq Elements
  /\ pc \in [Workers -> {"unborn", "setup", "check", "take", "call", "leaving", "gone"}]
  /\ index \in [Workers -> Elements]
  /\ started \in 0..resolveWorkerCount
  /\ wg \in 0..resolveWorkerCount
  /\ answer \in {"none", "results", "error"}
  /\ taken \subseteq Workers \X Elements
  /\ late \in [Workers -> SUBSET Elements]

(* No element is handed to two workers: the callback, which may have side   *)
(* effects, runs at most once per element.                                  *)
EachElementOnce == \A p, q \in taken : p[2] = q[2] => p = q

(* When the call has returned no worker is left: nothing writes into the    *)
(* results after the caller got them, and nothing runs after an error is    *)
(* reported.                                                                *)
NoWorkerOutlives == answer # "none" => \A w \in Workers : pc[w] = "gone"

(* A failure stops the others: a worker takes at most one more element      *)
(* after an error was recorded, the one it was already on its way to.       *)
FailureStopsWork == \A w \in Workers : Cardinality(late[w]) <= 1

(* The call always answers, whatever fails and whenever.                    *)
AlwaysAnswers == <>(answer # "none")

(* runParallel implements the promise of pmap: results only when every      *)
(* element has one and nothing failed, an error only after a failure.       *)
Promise == INSTANCE MapPromise WITH
             applied <- results, failed <- (firstErr # NoErr), answer <- answer

KeepsPromise == Promise!PromiseSpec
=============================================================================

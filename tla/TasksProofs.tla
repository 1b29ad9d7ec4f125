---------------------------- MODULE TasksProofs ----------------------------
(***************************************************************************)
(* Proofs of the safety of the task registry (module Tasks) for every      *)
(* ceiling, every retention limit and every number of tasks.  The argument *)
(* is one inductive invariant, IndInv: the WaitGroup and the registry each *)
(* count a set of task goroutines exactly, so a WaitGroup at zero with the *)
(* main program stopped leaves nobody who could spawn.  What becomes of    *)
(* results needs HistoryInv as well: the finished list is the newest part  *)
(* of the order in which tasks finished.                                   *)
(***************************************************************************)
EXTENDS Tasks, FiniteSetTheorems, TLAPS

-----------------------------------------------------------------------------
(* What the retention loop keeps and drops, for every list and every limit *)

(* The effect of retiring h when list was the list before: the newest       *)
(* entries are kept, h always among them, within the limit, and every other *)
(* entry of the old list is either kept or gone.                            *)
RetentionSplit(S, limit, list, h, kept, gone) ==
  /\ kept \in Seq(S)
  /\ Len(list) <= limit => Len(kept) <= limit
  /\ \A i \in 1..Len(kept) : kept[i] = h \/ \E j \in 1..Len(list) : kept[i] = list[j]
  /\ \E i \in 1..Len(kept) : kept[i] = h
  /\ \A j \in 1..Len(list) : list[j] \in gone \/ \E i \in 1..Len(kept) : kept[i] = list[j]
  /\ \A x \in gone : \E j \in 1..Len(list) : x = list[j]

(* The loop of CompleteTask and retireChannel, run after appending h.       *)
LEMMA RetentionLoop ==
  ASSUME NEW S, NEW limit \in Nat \ {0}, NEW list \in Seq(S), NEW h \in S
  PROVE  RetentionSplit(S, limit, list, h, Retained(Append(list, h), limit),
                        Evicted(Append(list, h), limit))
<1> DEFINE all == Append(list, h)
           k == Surplus(all, limit)
           kept == Retained(all, limit)
           gone == Evicted(all, limit)
<1>1. /\ all \in Seq(S)
      /\ Len(all) = Len(list) + 1
      /\ \A j \in 1..Len(list) : all[j] = list[j]
      /\ all[Len(list) + 1] = h
  OBVIOUS
<1>2. /\ k \in Nat
      /\ k <= Len(list)
      /\ Len(list) <= limit => Len(all) - k <= limit
  BY <1>1 DEF Surplus
<1>3. kept = SubSeq(all, k + 1, Len(all)) /\ gone = {all[i] : i \in 1..k}
  BY DEF Retained, Evicted
<1> HIDE DEF all, k, kept, gone
<1>4. /\ kept \in Seq(S)
      /\ Len(kept) = Len(all) - k
      /\ \A i \in 1..(Len(all) - k) : kept[i] = all[i + k]
  <2>1. k + 1 \in 1..(Len(all) + 1) /\ Len(all) \in Nat
    BY <1>1, <1>2
  <2> QED BY <1>1, <1>2, <1>3, <2>1
<1>5. \A i \in 1..Len(kept) : kept[i] = h \/ \E j \in 1..Len(list) : kept[i] = list[j]
  <2> SUFFICES ASSUME NEW i \in 1..Len(kept)
               PROVE  kept[i] = h \/ \E j \in 1..Len(list) : kept[i] = list[j]
    OBVIOUS
  <2>1. kept[i] = all[i + k] /\ i + k \in 1..(Len(list) + 1)
    BY <1>1, <1>2, <1>4
  <2> QED BY <1>1, <2>1
<1>6. \E i \in 1..Len(kept) : kept[i] = h
  <2>1. Len(list) + 1 - k \in 1..Len(kept)
    BY <1>1, <1>2, <1>4
  <2>2. kept[Len(list) + 1 - k] = h
    BY <1>1, <1>2, <1>4, <2>1
  <2> QED BY <2>1, <2>2
<1>7. \A j \in 1..Len(list) : list[j] \in gone \/ \E i \in 1..Len(kept) : kept[i] = list[j]
  <2> SUFFICES ASSUME NEW j \in 1..Len(list), ~(j <= k)
               PROVE  \E i \in 1..Len(kept) : kept[i] = list[j]
    BY <1>1, <1>2, <1>3
  <2>1. j - k \in 1..Len(kept) /\ kept[j - k] = list[j]
    BY <1>1, <1>2, <1>4
  <2> QED BY <2>1
<1>8. \A x \in gone : \E j \in 1..Len(list) : x = list[j]
  <2> SUFFICES ASSUME NEW x \in gone PROVE \E j \in 1..Len(list) : x = list[j]
    OBVIOUS
  <2>1. PICK i \in 1..k : x = all[i]
    BY <1>3
  <2> QED BY <1>1, <1>2, <2>1
<1>9. Len(list) <= limit => Len(kept) <= limit
  BY <1>2, <1>4
<1>10. RetentionSplit(S, limit, list, h, kept, gone)
  BY <1>4, <1>5, <1>6, <1>7, <1>8, <1>9 DEF RetentionSplit
<1> QED BY <1>10 DEF kept, gone, all

-----------------------------------------------------------------------------
(* Counting handles *)

(* Any set of handles is finite: there are MaxHandles of them at most.     *)
LEMMA HandlesFinite ==
  ASSUME NEW S, S \subseteq Handles
  PROVE  IsFiniteSet(S) /\ Cardinality(S) \in Nat
<1>1. IsFiniteSet(Handles)
  BY LimitsAssumption, FS_Interval DEF Handles
<1>2. IsFiniteSet(S)
  BY <1>1, FS_Subset
<1> QED BY <1>2, FS_CardinalityType

(* Adding a handle to a set of handles moves its cardinality up by one.     *)
LEMMA CountOneMore ==
  ASSUME NEW S, S \subseteq Handles, NEW h \in Handles, h \notin S
  PROVE  Cardinality(S \cup {h}) = Cardinality(S) + 1
BY HandlesFinite, FS_AddElement

(* And removing one moves it down by one.                                   *)
LEMMA CountOneFewer ==
  ASSUME NEW S, S \subseteq Handles, NEW h \in S
  PROVE  Cardinality(S \ {h}) = Cardinality(S) - 1
BY HandlesFinite, FS_RemoveElement

(* The places of a list of length n are n.                                  *)
LEMMA IntervalCount ==
  ASSUME NEW n \in Nat
  PROVE  IsFiniteSet(1..n) /\ Cardinality(1..n) = n
BY FS_Interval

-----------------------------------------------------------------------------
(* The invariant holds of an empty registry and an idle program.            *)
LEMMA InitInv == Init => IndInv
<1> SUFFICES ASSUME Init PROVE IndInv
  OBVIOUS
<1>1. Spawned = {} /\ Counted = {}
  BY LimitsAssumption DEF Init, Spawned, Counted, Handles
<1>2. Cardinality(Spawned \ closed) = 0 /\ Cardinality(Counted) = 0
  BY <1>1, FS_EmptySet
<1>3. TypeOK
  BY <1>1, LimitsAssumption DEF Init, TypeOK, Handles, Threads, Idle, CallOps, Phases
<1>4. PhaseFollowsRegistry /\ CallsConsistent /\ SpawnerPresent
  BY DEF Init, PhaseFollowsRegistry, CallsConsistent, SpawnerPresent, Idle, Starting, Handles
<1>5. WaitGroupExact /\ FinishedListExact /\ LiveExact
  BY <1>2, LimitsAssumption DEF Init, WaitGroupExact, FinishedListExact, LiveExact
<1>6. UnfinishedAddressable /\ TeardownAfterTasks
  BY <1>1 DEF Init, UnfinishedAddressable, TeardownAfterTasks
<1> QED BY <1>3, <1>4, <1>5, <1>6 DEF IndInv

(* A running thread keeps the WaitGroup above zero or is the main program,  *)
(* so after the teardown began nobody is running.                           *)
LEMMA NobodyRunsInTeardown ==
  ASSUME IndInv, NEW t \in Threads, Running(t)
  PROVE  main \notin {"closing", "wiped"}
BY DEF IndInv, TeardownAfterTasks, Running, Threads, Handles, Main

(* spawn under the mutex: the handle is fresh, so its caller owns it alone. *)
LEMMA RegisterTaskInv ==
  ASSUME IndInv, NEW t \in Threads, RegisterTask(t)
  PROVE  IndInv'
<1> USE DEF registry, history
<1>0. TypeOK /\ t \in Threads /\ Running(t) /\ call[t] = Idle
  BY DEF IndInv, RegisterTask, Free
<1>1. CASE live >= maxLiveTasks /\ UNCHANGED vars
  BY <1>1 DEF IndInv, TypeOK, PhaseFollowsRegistry, CallsConsistent, SpawnerPresent,
     WaitGroupExact, FinishedListExact, LiveExact, UnfinishedAddressable,
     TeardownAfterTasks, vars, Counted, Starting, Spawned, Running
<1>2. CASE live < maxLiveTasks
  <2> DEFINE n == nextID
  <2>1. /\ n \in Handles /\ nextID' = n + 1 /\ live' = live + 1
        /\ tasks' = tasks \cup {n}
        /\ phase' = [phase EXCEPT ![n] = "registered"]
        /\ call' = [call EXCEPT ![t] = [op |-> "add", h |-> n]]
        /\ UNCHANGED <<finished, closed, liveTasks, main, collected, ended>>
    BY <1>0, <1>2, LimitsAssumption DEF RegisterTask, TypeOK, Handles
  <2>2. phase[n] = "none" /\ n \notin closed /\ n \notin Spawned
    BY <1>0, <2>1 DEF IndInv, PhaseFollowsRegistry, Spawned, TypeOK, Handles
  <2>3. Spawned' = Spawned \cup {n}
    BY <1>0, <2>1 DEF Spawned, Handles, TypeOK
  <2>4. Counted' = Counted
    BY <1>0, <2>1, <2>2 DEF Counted, TypeOK
  <2>5. TypeOK'
    <3>1. nextID' \in 1..(MaxHandles + 1) /\ live' \in Nat /\ liveTasks' \in Nat
      BY <1>0, <2>1, LimitsAssumption DEF TypeOK, Handles
    <3>2. phase' \in [Handles -> Phases]
      BY <1>0, <2>1 DEF TypeOK, Phases
    <3>3. [op |-> "add", h |-> n] \in [op : CallOps, h : Threads]
      BY <2>1 DEF Handles, Threads, CallOps
    <3>4. call' \in [Threads -> [op : CallOps, h : Threads]]
      BY <1>0, <2>1, <3>3 DEF TypeOK
    <3>5. tasks' \subseteq Spawned'
      BY <1>0, <2>1, <2>3 DEF TypeOK
    <3> QED BY <1>0, <2>1, <3>1, <3>2, <3>4, <3>5 DEF TypeOK
  <2>6. PhaseFollowsRegistry'
    BY <1>0, <2>1, <2>2 DEF IndInv, PhaseFollowsRegistry, TypeOK, Handles
  <2>7. CallsConsistent'
    <3>1. \A u \in Threads : u # t => call'[u] = call[u]
      BY <1>0, <2>1 DEF TypeOK
    <3>2. call'[t] = [op |-> "add", h |-> n]
      BY <1>0, <2>1 DEF TypeOK
    <3>3. \A u \in Threads : Running(u) => Running(u)'
      BY <1>0, <2>1, <2>2 DEF Running, TypeOK, Threads, Handles, Main
    <3>4. \A u \in Threads : Starting(u) => call[u].h # n
      BY <2>2 DEF IndInv, CallsConsistent, Starting
    <3>5. \A h \in Handles : phase[h] # "none" => phase'[h] = phase[h]
      BY <1>0, <2>1, <2>2 DEF TypeOK
    <3>6. phase'[n] = "registered"
      BY <1>0, <2>1 DEF TypeOK
    <3>7. ASSUME NEW u \in Threads
          PROVE  /\ call'[u].op # "idle" => Running(u)' /\ call'[u].h \in Handles
                 /\ call'[u].op = "idle" => call'[u] = Idle
                 /\ call'[u].op = "add" => phase'[call'[u].h] = "registered"
                 /\ call'[u].op = "go" => phase'[call'[u].h] = "counted"
                 /\ call'[u].op = "release" => call'[u].h \in closed'
      <4>1. CASE u = t
        BY <4>1, <3>2, <3>3, <3>6, <2>1, <1>0
      <4>2. CASE u # t
        BY <4>2, <3>1, <3>3, <3>5, <2>1 DEF IndInv, CallsConsistent
      <4> QED BY <4>1, <4>2
    <3>8. ASSUME NEW u \in Threads, NEW v \in Threads,
                 Starting(u)', Starting(v)', call'[u].h = call'[v].h
          PROVE  u = v
      BY <3>1, <3>2, <3>4, <3>8 DEF IndInv, CallsConsistent, Starting
    <3> QED BY <3>7, <3>8 DEF CallsConsistent, Starting
  <2>8. SpawnerPresent'
    <3> SUFFICES ASSUME NEW h \in Handles, phase'[h] = "registered"
                 PROVE  \E u \in Threads : call'[u] = [op |-> "add", h |-> h]
      BY Zenon DEF SpawnerPresent
    <3>1. CASE h = n
      BY <3>1, <1>0, <2>1 DEF TypeOK
    <3>2. CASE h # n
      <4>1. PICK u \in Threads : call[u] = [op |-> "add", h |-> h]
        BY <3>2, <1>0, <2>1 DEF IndInv, SpawnerPresent, TypeOK
      <4>2. u # t
        BY <4>1, <1>0 DEF Idle
      <4> QED BY <4>1, <4>2, <1>0, <2>1 DEF TypeOK
    <3> QED BY <3>1, <3>2
  <2>9. WaitGroupExact'
    BY <2>1, <2>4 DEF IndInv, WaitGroupExact
  <2>10. FinishedListExact'
    BY <2>1, <2>2 DEF IndInv, FinishedListExact
  <2>11. LiveExact'
    <3>1. (Spawned \ closed)' = (Spawned \ closed) \cup {n}
      BY <2>1, <2>2, <2>3
    <3>2. Cardinality((Spawned \ closed)') = Cardinality(Spawned \ closed) + 1
      BY <3>1, <2>1, <2>2, CountOneMore DEF Spawned
    <3> QED BY <3>2, <1>0, <1>2, <2>1, LimitsAssumption DEF IndInv, LiveExact, TypeOK
  <2>12. UnfinishedAddressable'
    BY <2>1, <2>3 DEF IndInv, UnfinishedAddressable
  <2>13. TeardownAfterTasks'
    BY <1>0, <2>1, NobodyRunsInTeardown DEF TeardownAfterTasks
  <2> QED BY <2>5, <2>6, <2>7, <2>8, <2>9, <2>10, <2>11, <2>12, <2>13 DEF IndInv
<1> QED BY <1>0, <1>1, <1>2 DEF RegisterTask, vars, Return, TypeOK

(* task_wait moves one thread's call along and touches nothing the other    *)
(* threads rely on, except that it may drop a finished handle.              *)
LEMMA WaitStepInv ==
  ASSUME IndInv, NEW t \in Threads, Running(t), ~Starting(t),
         NEW c \in [op : CallOps, h : Threads], call' = [call EXCEPT ![t] = c],
         c = Idle \/ (c.op \in WaitModes \cup {"release"} /\ c.h \in Handles),
         c.op = "release" => c.h \in closed,
         tasks' \subseteq tasks, tasks \ tasks' \subseteq closed,
         collected' \subseteq Handles,
         UNCHANGED <<nextID, live, finished, closed, liveTasks, phase, main, ended>>
  PROVE  IndInv'
<1>0. TypeOK /\ Spawned' = Spawned /\ Counted' = Counted
  BY DEF IndInv, Spawned, Counted
<1>1. TypeOK'
  BY <1>0 DEF TypeOK
<1>2. PhaseFollowsRegistry'
  BY DEF IndInv, PhaseFollowsRegistry
<1>3. CallsConsistent'
  <2>1. \A u \in Threads : u # t => call'[u] = call[u]
    BY <1>0 DEF TypeOK
  <2>2. call'[t] = c
    BY <1>0 DEF TypeOK
  <2>3. \A u \in Threads : Running(u)' = Running(u)
    BY DEF Running
  <2>4. ~Starting(t)'
    BY <2>2 DEF Starting, Idle, WaitModes
  <2>5. ASSUME NEW u \in Threads
        PROVE  /\ call'[u].op # "idle" => Running(u)' /\ call'[u].h \in Handles
               /\ call'[u].op = "idle" => call'[u] = Idle
               /\ call'[u].op = "add" => phase'[call'[u].h] = "registered"
               /\ call'[u].op = "go" => phase'[call'[u].h] = "counted"
               /\ call'[u].op = "release" => call'[u].h \in closed'
    <3>1. CASE u = t
      BY <3>1, <2>2, <2>3 DEF Idle, WaitModes
    <3>2. CASE u # t
      BY <3>2, <2>1, <2>3 DEF IndInv, CallsConsistent
    <3> QED BY <3>1, <3>2, Zenon
  <2>6. ASSUME NEW u \in Threads, NEW v \in Threads,
               Starting(u)', Starting(v)', call'[u].h = call'[v].h
        PROVE  u = v
    BY <2>1, <2>4, <2>6, ZenonT(40) DEF IndInv, CallsConsistent, Starting
  <2> QED BY <2>5, <2>6, Zenon DEF CallsConsistent, Starting
<1>4. SpawnerPresent'
  <2> SUFFICES ASSUME NEW h \in Handles, phase[h] = "registered"
               PROVE  \E u \in Threads : call'[u] = [op |-> "add", h |-> h]
    BY Zenon DEF SpawnerPresent
  <2>1. PICK u \in Threads : call[u] = [op |-> "add", h |-> h]
    BY Zenon DEF IndInv, SpawnerPresent
  <2>2. u # t
    BY <2>1 DEF Starting
  <2> QED BY <2>1, <2>2, <1>0 DEF TypeOK
<1>5. WaitGroupExact' /\ LiveExact' /\ TeardownAfterTasks'
  BY <1>0 DEF IndInv, WaitGroupExact, LiveExact, TeardownAfterTasks
<1>6. FinishedListExact' /\ UnfinishedAddressable'
  BY <1>0 DEF IndInv, FinishedListExact, UnfinishedAddressable
<1> QED BY <1>1, <1>2, <1>3, <1>4, <1>5, <1>6 DEF IndInv

(* task_wait looks its handle up: refused, or waiting with the pointer.     *)
LEMMA TaskWaitInv ==
  ASSUME IndInv, NEW t \in Threads, NEW h \in Handles, NEW mode \in WaitModes,
         TaskWait(t, h, mode)
  PROVE  IndInv'
<1> DEFINE c == IF h \in tasks THEN [op |-> mode, h |-> h] ELSE Idle
<1>1. Running(t) /\ ~Starting(t) /\ TypeOK
  BY DEF TaskWait, Free, Starting, Idle, IndInv
<1>2. call' = [call EXCEPT ![t] = c] /\ UNCHANGED <<registry, closed, liveTasks, phase, main, history>>
  BY Zenon DEF TaskWait, Return
<1>3. c \in [op : CallOps, h : Threads] /\ c.op # "release"
      /\ (c = Idle \/ (c.op \in WaitModes \cup {"release"} /\ c.h \in Handles))
  <2>1. CASE h \in tasks
    BY <2>1 DEF CallOps, WaitModes, Handles, Threads
  <2>2. CASE h \notin tasks
    BY <2>2, LimitsAssumption DEF CallOps, Idle, Threads
  <2> QED BY <2>1, <2>2, Zenon
<1> HIDE DEF c
<1> QED BY <1>1, <1>2, <1>3, WaitStepInv, Zenon DEF registry, history, TypeOK

(* done is closed: the wait goes on to the release, which relies on it, or  *)
(* to its last look at done.                                                *)
LEMMA WaitFinishedInv ==
  ASSUME IndInv, NEW t \in Threads, WaitFinished(t)
  PROVE  IndInv'
<1> DEFINE o == IF call[t].op = "forever" THEN "release" ELSE "decide"
           c == [op |-> o, h |-> call[t].h]
<1>1. Running(t) /\ ~Starting(t) /\ TypeOK /\ call[t].h \in Handles
  BY DEF WaitFinished, Starting, IndInv, CallsConsistent
<1>2. call' = [call EXCEPT ![t] = c] /\ UNCHANGED <<registry, closed, liveTasks, phase, main, history>>
  <2>1. call[t] \in [op : CallOps, h : Threads]
    BY <1>1 DEF TypeOK
  <2>2. [call[t] EXCEPT !.op = o] = c
    BY <2>1
  <2>3. call' = [call EXCEPT ![t] = [call[t] EXCEPT !.op = o]]
    BY DEF WaitFinished
  <2> QED BY <2>2, <2>3, Zenon DEF WaitFinished
<1>3. c \in [op : CallOps, h : Threads] /\ c.op \in WaitModes \cup {"release"} /\ c.h \in Handles /\ c.h \in closed
  BY <1>1 DEF WaitFinished, CallOps, WaitModes, Handles, Threads
<1> HIDE DEF c
<1>4. c = Idle \/ (c.op \in WaitModes \cup {"release"} /\ c.h \in Handles)
  BY <1>3
<1> QED BY <1>1, <1>2, <1>3, <1>4, WaitStepInv, Zenon DEF registry, history, TypeOK

(* The timer ends the select, and nothing else.                             *)
LEMMA TimerFiresInv ==
  ASSUME IndInv, NEW t \in Threads, TimerFires(t)
  PROVE  IndInv'
<1> DEFINE c == [op |-> "decide", h |-> call[t].h]
<1>1. Running(t) /\ ~Starting(t) /\ TypeOK /\ call[t].h \in Handles
  BY DEF TimerFires, Starting, IndInv, CallsConsistent
<1>2. call' = [call EXCEPT ![t] = c] /\ UNCHANGED <<registry, closed, liveTasks, phase, main, history>>
  <2>1. call[t] \in [op : CallOps, h : Threads]
    BY <1>1 DEF TypeOK
  <2>2. [call[t] EXCEPT !.op = "decide"] = c
    BY <2>1
  <2>3. call' = [call EXCEPT ![t] = [call[t] EXCEPT !.op = "decide"]]
    BY DEF TimerFires
  <2> QED BY <2>2, <2>3, Zenon DEF TimerFires
<1>3. c \in [op : CallOps, h : Threads] /\ c.op \in WaitModes /\ c.op # "release" /\ c.h \in Handles
  BY <1>1 DEF CallOps, WaitModes, Handles, Threads
<1> HIDE DEF c
<1>4. c = Idle \/ (c.op \in WaitModes \cup {"release"} /\ c.h \in Handles)
  BY <1>3
<1> QED BY <1>1, <1>2, <1>3, <1>4, WaitStepInv, Zenon DEF registry, history, TypeOK

(* The last look at done: a release of a finished handle, or no change.     *)
LEMMA HasFinishedInv ==
  ASSUME IndInv, NEW t \in Threads, HasFinished(t)
  PROVE  IndInv'
<1> DEFINE r == [op |-> "release", h |-> call[t].h]
           c == IF call[t].h \in closed THEN r ELSE Idle
<1>1. Running(t) /\ ~Starting(t) /\ TypeOK /\ call[t].h \in Handles
  BY DEF HasFinished, Starting, IndInv, CallsConsistent
<1>2. call' = [call EXCEPT ![t] = c] /\ UNCHANGED <<registry, closed, liveTasks, phase, main, history>>
  <2>1. call[t] \in [op : CallOps, h : Threads]
    BY <1>1 DEF TypeOK
  <2>2. [call[t] EXCEPT !.op = "release"] = r
    BY <2>1
  <2>3. call' = IF call[t].h \in closed THEN [call EXCEPT ![t] = [call[t] EXCEPT !.op = "release"]]
                                        ELSE [call EXCEPT ![t] = Idle]
    BY DEF HasFinished, Return
  <2> QED BY <2>2, <2>3, Zenon DEF HasFinished
<1>3. /\ c \in [op : CallOps, h : Threads]
      /\ c = Idle \/ (c.op \in WaitModes \cup {"release"} /\ c.h \in Handles)
      /\ c.op = "release" => c.h \in closed
  <2>1. CASE call[t].h \in closed
    BY <2>1, <1>1 DEF CallOps, WaitModes, Handles, Threads
  <2>2. CASE call[t].h \notin closed
    BY <2>2, LimitsAssumption DEF CallOps, Idle, Threads
  <2> QED BY <2>1, <2>2, Zenon
<1> HIDE DEF c
<1> QED BY <1>1, <1>2, <1>3, WaitStepInv, Zenon DEF registry, history, TypeOK

(* releaseTask drops a handle that is finished, never a running one.        *)
LEMMA ReleaseTaskInv ==
  ASSUME IndInv, NEW t \in Threads, ReleaseTask(t)
  PROVE  IndInv'
<1>1. Running(t) /\ ~Starting(t) /\ TypeOK /\ call[t].h \in Handles /\ call[t].h \in closed
  BY Zenon DEF ReleaseTask, Starting, IndInv, CallsConsistent
<1>2. /\ call' = [call EXCEPT ![t] = Idle]
      /\ tasks' = tasks \ {call[t].h}
      /\ collected' = collected \cup {call[t].h}
      /\ UNCHANGED <<nextID, live, finished, closed, liveTasks, phase, main, ended>>
  BY Zenon DEF ReleaseTask, Return
<1>3. Idle \in [op : CallOps, h : Threads] /\ Idle.op # "release"
  BY LimitsAssumption DEF Idle, CallOps, Threads
<1>4. collected' \subseteq Handles
  BY <1>1, <1>2, Zenon DEF TypeOK
<1>5. tasks' \subseteq tasks /\ tasks \ tasks' \subseteq closed
  BY <1>1, <1>2
<1> QED BY <1>1, <1>2, <1>3, <1>4, <1>5, WaitStepInv, Zenon

(* liveTasks.Add(1): one more goroutine is counted, and it is not yet       *)
(* running.                                                                 *)
LEMMA AddLiveInv ==
  ASSUME IndInv, NEW t \in Threads, AddLive(t)
  PROVE  IndInv'
<1> USE DEF registry, history
<1> DEFINE n == call[t].h
<1>0. TypeOK /\ Running(t) /\ n \in Handles /\ phase[n] = "registered"
  BY DEF IndInv, CallsConsistent, AddLive
<1>1. /\ call[t].op = "add"
      /\ call'[t] = [op |-> "go", h |-> n]
      /\ \A u \in Threads : u # t => call'[u] = call[u]
      /\ call' \in [Threads -> [op : CallOps, h : Threads]]
  <2>1. call[t] \in [op : CallOps, h : Threads]
    BY <1>0 DEF TypeOK
  <2>2. [call[t] EXCEPT !.op = "go"] = [op |-> "go", h |-> n] /\ [op |-> "go", h |-> n] \in [op : CallOps, h : Threads]
    BY <2>1 DEF CallOps
  <2>3. call' = [call EXCEPT ![t] = [call[t] EXCEPT !.op = "go"]] /\ call[t].op = "add"
    BY DEF AddLive
  <2> QED BY <1>0, <2>2, <2>3 DEF TypeOK
<1>2. /\ liveTasks' = liveTasks + 1
      /\ phase' = [phase EXCEPT ![n] = "counted"]
      /\ UNCHANGED <<tasks, nextID, live, finished, closed, main, collected, ended>>
  BY DEF AddLive
<1>3. /\ phase'[n] = "counted"
      /\ \A h \in Handles : h # n => phase'[h] = phase[h]
      /\ phase' \in [Handles -> Phases]
  BY <1>0, <1>2 DEF TypeOK, Phases
<1>4. Spawned' = Spawned /\ Counted' = Counted \cup {n} /\ n \notin Counted
  BY <1>0, <1>2, <1>3, Zenon DEF Spawned, Counted
<1>5. TypeOK'
  BY <1>0, <1>1, <1>2, <1>3, <1>4 DEF TypeOK
<1>6. PhaseFollowsRegistry'
  BY <1>0, <1>2, <1>3, Zenon DEF IndInv, PhaseFollowsRegistry
<1>7. CallsConsistent'
  <2>1. \A u \in Threads : Running(u) => Running(u)'
    BY <1>0, <1>2, <1>3 DEF Running, Threads, Handles, Main
  <2>2. \A u \in Threads : Starting(u) /\ u # t => call[u].h # n
    BY <1>1, Zenon DEF IndInv, CallsConsistent, Starting
  <2>3. ASSUME NEW u \in Threads
        PROVE  /\ call'[u].op # "idle" => Running(u)' /\ call'[u].h \in Handles
               /\ call'[u].op = "idle" => call'[u] = Idle
               /\ call'[u].op = "add" => phase'[call'[u].h] = "registered"
               /\ call'[u].op = "go" => phase'[call'[u].h] = "counted"
               /\ call'[u].op = "release" => call'[u].h \in closed'
    <3>1. CASE u = t
      BY <3>1, <1>0, <1>1, <1>3, <2>1
    <3>2. CASE u # t
      BY <3>2, <1>1, <1>2, <1>3, <2>1, <2>2 DEF IndInv, CallsConsistent, Starting
    <3> QED BY <3>1, <3>2
  <2>4. ASSUME NEW u \in Threads, NEW v \in Threads,
               Starting(u)', Starting(v)', call'[u].h = call'[v].h
        PROVE  u = v
    BY <1>1, <2>2, <2>4 DEF IndInv, CallsConsistent, Starting
  <2> QED BY <2>3, <2>4 DEF CallsConsistent, Starting
<1>8. SpawnerPresent'
  <2> SUFFICES ASSUME NEW h \in Handles, phase'[h] = "registered"
               PROVE  \E u \in Threads : call'[u] = [op |-> "add", h |-> h]
    BY Zenon DEF SpawnerPresent
  <2>1. h # n /\ phase[h] = "registered"
    BY <1>3
  <2>2. PICK u \in Threads : call[u] = [op |-> "add", h |-> h]
    BY <2>1, Zenon DEF IndInv, SpawnerPresent
  <2> QED BY <2>1, <2>2, <1>1
<1>9. WaitGroupExact'
  <2>1. Cardinality(Counted') = Cardinality(Counted) + 1
    BY <1>0, <1>4, CountOneMore, Zenon DEF Counted
  <2> QED BY <1>2, <2>1 DEF IndInv, WaitGroupExact
<1>10. FinishedListExact' /\ LiveExact' /\ UnfinishedAddressable'
  BY <1>2, <1>4 DEF IndInv, FinishedListExact, LiveExact, UnfinishedAddressable
<1>11. TeardownAfterTasks'
  BY <1>0, <1>2, NobodyRunsInTeardown DEF TeardownAfterTasks
<1> QED BY <1>5, <1>6, <1>7, <1>8, <1>9, <1>10, <1>11 DEF IndInv

(* The goroutine starts and spawn returns: the task was counted before.     *)
LEMMA StartTaskInv ==
  ASSUME IndInv, NEW t \in Threads, StartTask(t)
  PROVE  IndInv'
<1> USE DEF registry, history
<1> DEFINE n == call[t].h
<1>0. TypeOK /\ Running(t) /\ n \in Handles /\ n \in Threads /\ phase[n] = "counted"
  BY DEF IndInv, CallsConsistent, StartTask, Handles, Threads
<1>1. /\ call[t].op = "go"
      /\ call'[t] = Idle
      /\ \A u \in Threads : u # t => call'[u] = call[u]
      /\ call' \in [Threads -> [op : CallOps, h : Threads]]
  BY <1>0, LimitsAssumption, SMTT(30) DEF StartTask, Return, TypeOK, Idle, CallOps, Threads
<1>2. /\ phase' = [phase EXCEPT ![n] = "running"]
      /\ UNCHANGED <<tasks, nextID, live, finished, closed, liveTasks, main, collected, ended>>
  BY DEF StartTask
<1>3. /\ phase'[n] = "running"
      /\ \A h \in Handles : h # n => phase'[h] = phase[h]
      /\ phase' \in [Handles -> Phases]
  BY <1>0, <1>2, Zenon DEF TypeOK, Phases
<1>4. Spawned' = Spawned /\ Counted' = Counted
  BY <1>0, <1>2, <1>3, Zenon DEF Spawned, Counted
<1>5. TypeOK'
  BY <1>0, <1>1, <1>2, <1>3, <1>4, Zenon DEF TypeOK
<1>6. PhaseFollowsRegistry'
  BY <1>0, <1>2, <1>3, Zenon DEF IndInv, PhaseFollowsRegistry
<1>7. CallsConsistent'
  <2>1. \A u \in Threads : Running(u) => Running(u)'
    BY <1>0, <1>2, <1>3 DEF Running, Threads, Handles, Main
  <2>2. \A u \in Threads : Starting(u) /\ u # t => call[u].h # n
    BY <1>1, Zenon DEF IndInv, CallsConsistent, Starting
  <2>3. ASSUME NEW u \in Threads
        PROVE  /\ call'[u].op # "idle" => Running(u)' /\ call'[u].h \in Handles
               /\ call'[u].op = "idle" => call'[u] = Idle
               /\ call'[u].op = "add" => phase'[call'[u].h] = "registered"
               /\ call'[u].op = "go" => phase'[call'[u].h] = "counted"
               /\ call'[u].op = "release" => call'[u].h \in closed'
    <3>1. CASE u = t
      BY <3>1, <1>1, SMTT(30) DEF Idle
    <3>2. CASE u # t
      BY <3>2, <1>1, <1>2, <1>3, <2>1, <2>2, SMTT(30) DEF IndInv, CallsConsistent, Starting
    <3> QED BY <3>1, <3>2
  <2>4. ASSUME NEW u \in Threads, NEW v \in Threads,
               Starting(u)', Starting(v)', call'[u].h = call'[v].h
        PROVE  u = v
    BY <1>1, <2>4 DEF IndInv, CallsConsistent, Starting, Idle
  <2> QED BY <2>3, <2>4 DEF CallsConsistent, Starting
<1>8. SpawnerPresent'
  <2> SUFFICES ASSUME NEW h \in Handles, phase'[h] = "registered"
               PROVE  \E u \in Threads : call'[u] = [op |-> "add", h |-> h]
    BY Zenon DEF SpawnerPresent
  <2>1. h # n /\ phase[h] = "registered"
    BY <1>3
  <2>2. PICK u \in Threads : call[u] = [op |-> "add", h |-> h]
    BY <2>1 DEF IndInv, SpawnerPresent
  <2> QED BY <2>1, <2>2, <1>1
<1>9. WaitGroupExact' /\ FinishedListExact' /\ LiveExact' /\ UnfinishedAddressable'
  BY <1>2, <1>4 DEF IndInv, WaitGroupExact, FinishedListExact, LiveExact, UnfinishedAddressable
<1>10. TeardownAfterTasks'
  BY <1>0, <1>2, NobodyRunsInTeardown DEF TeardownAfterTasks
<1> QED BY <1>5, <1>6, <1>7, <1>8, <1>9, <1>10 DEF IndInv

(* The end of a task: its handle was addressable and unfinished, so the     *)
(* early returns are not taken, and the retention loop drops finished       *)
(* handles only.                                                            *)
LEMMA CompleteTaskInv ==
  ASSUME IndInv, NEW t \in Threads, CompleteTask(t)
  PROVE  IndInv'
<1>0. TypeOK /\ t \in Handles /\ phase[t] = "running" /\ call[t] = Idle
  BY DEF IndInv, CompleteTask, Free, Running, Handles, Main
<1>1. t \in Spawned /\ t \notin closed /\ t \in tasks
  BY <1>0 DEF IndInv, PhaseFollowsRegistry, Spawned, UnfinishedAddressable, TypeOK, Handles
<1> DEFINE all == Append(finished, t)
<1>2. /\ live' = live - 1
      /\ closed' = closed \cup {t}
      /\ finished' = Retained(all, maxRetainedTasks)
      /\ tasks' = tasks \ Evicted(all, maxRetainedTasks)
      /\ phase' = [phase EXCEPT ![t] = "completed"]
      /\ ended' = Append(ended, t)
      /\ UNCHANGED <<nextID, liveTasks, main, call, collected>>
  BY <1>1 DEF CompleteTask
<1>3. /\ RetentionSplit(Handles, maxRetainedTasks, finished, t, finished', Evicted(all, maxRetainedTasks))
      /\ Len(finished') <= maxRetainedTasks
  <2>1. finished \in Seq(Handles) /\ Len(finished) <= maxRetainedTasks
    BY <1>0, Zenon DEF TypeOK, IndInv, FinishedListExact
  <2>2. RetentionSplit(Handles, maxRetainedTasks, finished, t, finished', Evicted(all, maxRetainedTasks))
    BY <1>0, <1>2, <2>1, RetentionLoop, LimitsAssumption
  <2> QED BY <2>1, <2>2 DEF RetentionSplit
<1>4. /\ phase'[t] = "completed"
      /\ \A h \in Handles : h # t => phase'[h] = phase[h]
      /\ phase' \in [Handles -> Phases]
  BY <1>0, <1>2 DEF TypeOK, Phases
<1> HIDE DEF all
<1>5. Spawned' = Spawned /\ Counted' = Counted
  BY <1>0, <1>2, <1>4 DEF Spawned, Counted
<1>6. Evicted(all, maxRetainedTasks) \subseteq closed
  BY <1>3, Zenon DEF IndInv, FinishedListExact, RetentionSplit
<1>7. LiveExact' /\ live' \in Nat
  <2>1. (Spawned \ closed)' = (Spawned \ closed) \ {t} /\ t \in Spawned \ closed
    BY <1>1, <1>2, <1>5
  <2>2. Cardinality((Spawned \ closed)') = Cardinality(Spawned \ closed) - 1
    BY <2>1, CountOneFewer DEF Spawned
  <2>3. Cardinality((Spawned \ closed)') \in Nat
    BY <2>1, HandlesFinite DEF Spawned
  <2> QED BY <2>2, <2>3, <1>0, <1>2, LimitsAssumption DEF IndInv, LiveExact, TypeOK
<1>8. TypeOK'
  <2>1. ended' \in Seq(Handles)
    BY <1>0, <1>2 DEF TypeOK
  <2> QED BY <1>0, <1>2, <1>3, <1>4, <1>5, <1>7, <2>1, Zenon DEF TypeOK, RetentionSplit
<1>9. PhaseFollowsRegistry'
  BY <1>0, <1>1, <1>2, <1>4, SMTT(30) DEF IndInv, PhaseFollowsRegistry
<1>10. CallsConsistent'
  <2>1. \A u \in Threads : u # t => (Running(u) => Running(u)')
    BY <1>2, <1>4 DEF Running, Threads, Handles, Main
  <2>2. ASSUME NEW u \in Threads
        PROVE  /\ call[u].op # "idle" => Running(u)' /\ call[u].h \in Handles
               /\ call[u].op = "add" => phase'[call[u].h] = "registered"
               /\ call[u].op = "go" => phase'[call[u].h] = "counted"
               /\ call[u].op = "release" => call[u].h \in closed'
    <3>1. CASE u = t
      BY <3>1, <1>0, SMTT(30) DEF Idle
    <3>2. CASE u # t
      BY <3>2, <1>0, <1>2, <1>4, <2>1, Zenon DEF IndInv, CallsConsistent
    <3> QED BY <3>1, <3>2, Zenon
  <2> QED BY <2>2, <1>2, Zenon DEF IndInv, CallsConsistent, Starting
<1>11. SpawnerPresent'
  BY <1>2, <1>4, Zenon DEF IndInv, SpawnerPresent
<1>12. WaitGroupExact'
  BY <1>2, <1>5 DEF IndInv, WaitGroupExact
<1>13. FinishedListExact'
  <2>1. \A i \in 1..Len(finished') : finished'[i] \in closed'
    BY <1>2, <1>3, ZenonT(40) DEF IndInv, FinishedListExact, RetentionSplit
  <2>2. ASSUME NEW h \in tasks' \cap closed'
        PROVE  \E i \in 1..Len(finished') : finished'[i] = h
    <3>1. CASE h = t
      BY <3>1, <1>3, Zenon DEF RetentionSplit
    <3>2. CASE h # t
      <4>1. PICK j \in 1..Len(finished) : finished[j] = h
        BY <3>2, <1>2 DEF IndInv, FinishedListExact
      <4> QED BY <4>1, <1>2, <1>3, Zenon DEF RetentionSplit
    <3> QED BY <3>1, <3>2
  <2> QED BY <1>3, <2>1, <2>2, SMTT(30) DEF FinishedListExact
<1>14. UnfinishedAddressable'
  BY <1>2, <1>5, <1>6 DEF IndInv, UnfinishedAddressable
<1>15. TeardownAfterTasks'
  BY <1>0, <1>2, NobodyRunsInTeardown DEF TeardownAfterTasks, Running, Handles, Main
<1> QED BY <1>7, <1>8, <1>9, <1>10, <1>11, <1>12, <1>13, <1>14, <1>15 DEF IndInv

(* liveTasks.Done(): the counter was at least one, because this goroutine   *)
(* was in it.                                                               *)
LEMMA DoneLiveInv ==
  ASSUME IndInv, NEW t \in Threads, DoneLive(t)
  PROVE  IndInv'
<1> USE DEF registry, history
<1>0. TypeOK /\ t \in Handles /\ phase[t] = "completed"
  BY DEF IndInv, DoneLive
<1>1. /\ liveTasks' = liveTasks - 1
      /\ phase' = [phase EXCEPT ![t] = "over"]
      /\ UNCHANGED <<tasks, nextID, live, finished, closed, main, call, collected, ended>>
  BY DEF DoneLive
<1>2. /\ phase'[t] = "over"
      /\ \A h \in Handles : h # t => phase'[h] = phase[h]
      /\ phase' \in [Handles -> Phases]
  BY <1>0, <1>1 DEF TypeOK, Phases
<1>3. Spawned' = Spawned /\ Counted' = Counted \ {t} /\ t \in Counted
  BY <1>0, <1>1, <1>2 DEF Spawned, Counted
<1>4. WaitGroupExact' /\ liveTasks' \in Nat
  <2>1. Cardinality(Counted') = Cardinality(Counted) - 1
    BY <1>3, CountOneFewer DEF Counted
  <2>2. Cardinality(Counted') \in Nat
    BY <1>3, HandlesFinite DEF Counted
  <2> QED BY <1>1, <2>1, <2>2 DEF IndInv, WaitGroupExact
<1>5. TypeOK'
  BY <1>0, <1>1, <1>2, <1>3, <1>4, Zenon DEF TypeOK
<1>6. PhaseFollowsRegistry'
  BY <1>0, <1>1, <1>2 DEF IndInv, PhaseFollowsRegistry
<1>7. CallsConsistent'
  <2>1. \A u \in Threads : Running(u) => Running(u)'
    BY <1>0, <1>1, <1>2 DEF Running, Threads, Handles, Main
  <2>2. \A h \in Handles : phase[h] \in {"registered", "counted"} => phase'[h] = phase[h]
    BY <1>0, <1>2
  <2> QED BY <1>1, <2>1, <2>2, Zenon DEF IndInv, CallsConsistent, Starting
<1>8. SpawnerPresent'
  BY <1>1, <1>2, Zenon DEF IndInv, SpawnerPresent
<1>9. FinishedListExact' /\ LiveExact' /\ UnfinishedAddressable'
  BY <1>1, <1>3 DEF IndInv, FinishedListExact, LiveExact, UnfinishedAddressable
<1>10. TeardownAfterTasks'
  BY <1>0, <1>1, <1>2 DEF IndInv, TeardownAfterTasks
<1> QED BY <1>4, <1>5, <1>6, <1>7, <1>8, <1>9, <1>10 DEF IndInv

(* The main goroutine's own steps.  WaitForTasks is the one that matters: a *)
(* zero WaitGroup leaves no task past its Add, and a task before its Add    *)
(* has a running spawner, which is neither main nor a task.                 *)
LEMMA MainStepInv ==
  ASSUME IndInv, MainReturns \/ WaitForTasks \/ CleanupSensitiveData
  PROVE  IndInv'
<1> USE DEF registry, history
<1>0. TypeOK /\ UNCHANGED <<tasks, nextID, live, finished, closed, liveTasks, phase, call, collected, ended>>
  BY DEF IndInv, MainReturns, WaitForTasks, CleanupSensitiveData
<1>1. main' \in {"waiting", "closing", "wiped"} /\ (main = "run" => call[Main] = Idle)
  BY DEF MainReturns, WaitForTasks, CleanupSensitiveData, Free
<1>2. Spawned' = Spawned /\ Counted' = Counted
  BY <1>0 DEF Spawned, Counted
<1>3. TypeOK'
  BY <1>0, <1>1, <1>2 DEF TypeOK
<1>4. PhaseFollowsRegistry' /\ SpawnerPresent' /\ WaitGroupExact' /\ FinishedListExact'
      /\ LiveExact' /\ UnfinishedAddressable'
  BY <1>0, <1>2, Zenon DEF IndInv, PhaseFollowsRegistry, SpawnerPresent, WaitGroupExact,
     FinishedListExact, LiveExact, UnfinishedAddressable
<1>5. CallsConsistent'
  <2>1. \A u \in Threads : call[u].op # "idle" => Running(u)'
    <3> SUFFICES ASSUME NEW u \in Threads, call[u].op # "idle" PROVE Running(u)'
      OBVIOUS
    <3>1. Running(u)
      BY Zenon DEF IndInv, CallsConsistent
    <3>2. u # Main
      BY <1>1, <3>1 DEF Running, Idle
    <3> QED BY <1>0, <3>1, <3>2 DEF Running
  <2> QED BY <1>0, <2>1, Zenon DEF IndInv, CallsConsistent, Starting
<1>6. TeardownAfterTasks'
  <2>1. CASE MainReturns
    BY <2>1 DEF MainReturns, TeardownAfterTasks
  <2>2. CASE CleanupSensitiveData
    BY <1>0, <2>2 DEF IndInv, CleanupSensitiveData, TeardownAfterTasks
  <2>3. CASE WaitForTasks
    <3>1. Counted = {}
      <4>1. IsFiniteSet(Counted)
        BY HandlesFinite DEF Counted
      <4> QED BY <2>3, <4>1, FS_EmptySet, Zenon DEF WaitForTasks, IndInv, WaitGroupExact
    <3>2. \A u \in Threads : ~Running(u)
      BY <2>3, <3>1 DEF WaitForTasks, Running, Counted, Threads, Handles, Main
    <3>3. \A h \in Handles : phase[h] # "registered"
      <4> SUFFICES ASSUME NEW h \in Handles, phase[h] = "registered" PROVE FALSE
        OBVIOUS
      <4>1. PICK u \in Threads : call[u] = [op |-> "add", h |-> h]
        BY Zenon DEF IndInv, SpawnerPresent
      <4> QED BY <4>1, <3>2 DEF IndInv, CallsConsistent
    <3> QED BY <1>0, <3>1, <3>3 DEF TeardownAfterTasks, Counted, TypeOK, Phases
  <2> QED BY <2>1, <2>2, <2>3
<1> QED BY <1>3, <1>4, <1>5, <1>6 DEF IndInv

-----------------------------------------------------------------------------
(* IndInv is inductive: one case per action.                                *)
THEOREM Invariance == Spec => []IndInv
<1>1. IndInv /\ [Next]_vars => IndInv'
  <2> SUFFICES ASSUME IndInv, [Next]_vars PROVE IndInv'
    OBVIOUS
  <2>1. ASSUME NEW t \in Threads, RegisterTask(t) PROVE IndInv'
    BY <2>1, RegisterTaskInv
  <2>2. ASSUME NEW t \in Threads, NEW h \in Handles, NEW mode \in WaitModes, TaskWait(t, h, mode)
        PROVE  IndInv'
    BY <2>2, TaskWaitInv
  <2>3. ASSUME NEW t \in Threads, CompleteTask(t) PROVE IndInv'
    BY <2>3, CompleteTaskInv
  <2>4. ASSUME NEW t \in Threads, Proceed(t) PROVE IndInv'
    BY <2>4, AddLiveInv, StartTaskInv, WaitFinishedInv, TimerFiresInv, HasFinishedInv,
       ReleaseTaskInv, DoneLiveInv DEF Proceed
  <2>5. CASE MainReturns \/ WaitForTasks \/ CleanupSensitiveData
    BY <2>5, MainStepInv, SMTT(30)
  <2>6. CASE Stopped \/ UNCHANGED vars
    <3>1. UNCHANGED vars
      BY <2>6 DEF Stopped
    <3>2. UNCHANGED <<tasks, nextID, live, finished, closed, liveTasks, phase, main, call, collected, ended>>
      BY <3>1, Zenon DEF vars
    <3>3. TypeOK' /\ PhaseFollowsRegistry' /\ SpawnerPresent'
      BY <3>2, Zenon DEF IndInv, TypeOK, PhaseFollowsRegistry, SpawnerPresent, Starting, Spawned, Running
    <3>4. CallsConsistent'
      BY <3>2, Zenon DEF IndInv, CallsConsistent, Running, Starting
    <3>5. WaitGroupExact' /\ FinishedListExact' /\ LiveExact' /\ UnfinishedAddressable' /\ TeardownAfterTasks'
      BY <3>2, Zenon DEF IndInv, WaitGroupExact, FinishedListExact, LiveExact, UnfinishedAddressable,
         TeardownAfterTasks, Counted, Starting, Spawned, Running
    <3> QED BY <3>3, <3>4, <3>5 DEF IndInv
  <2> QED BY <2>1, <2>2, <2>3, <2>4, <2>5, <2>6 DEF Next
<1> QED BY <1>1, InitInv, PTL DEF Spec

(* Type correctness; in particular the WaitGroup never goes negative, which *)
(* Go would answer with a panic.                                            *)
THEOREM TypeCorrect == Spec => []TypeOK
<1>1. IndInv => TypeOK
  BY DEF IndInv
<1> QED BY <1>1, Invariance, PTL

(* The registry's own count is exact and within the ceiling.                *)
THEOREM LiveCountExact == Spec => []LiveExact
<1>1. IndInv => LiveExact
  BY DEF IndInv
<1> QED BY <1>1, Invariance, PTL

(* No running task loses its handle, for any mix of waits and evictions.    *)
LEMMA RunningTaskAddressable == Spec => []UnfinishedAddressable
<1>1. IndInv => UnfinishedAddressable
  BY DEF IndInv
<1> QED BY <1>1, Invariance, PTL

(* The constants are wiped only when no task goroutine can read them.       *)
THEOREM TeardownSafe == Spec => []TeardownAfterTasks
<1>1. IndInv => TeardownAfterTasks
  BY DEF IndInv
<1> QED BY <1>1, Invariance, PTL

(* The registry holds at most maxRetainedTasks results: each result held    *)
(* has a place of its own in the finished list.                             *)
THEOREM RetentionBound == Spec => []RetentionBounded
<1>1. IndInv => RetentionBounded
  <2> SUFFICES ASSUME IndInv PROVE RetentionBounded
    OBVIOUS
  <2> DEFINE held == tasks \cap closed
             place == [h \in held |-> CHOOSE i \in 1..Len(finished) : finished[i] = h]
  <2>1. \A h \in held : place[h] \in 1..Len(finished) /\ finished[place[h]] = h
    BY DEF IndInv, FinishedListExact
  <2>2. Len(finished) \in Nat /\ Len(finished) <= maxRetainedTasks
    BY DEF IndInv, TypeOK, FinishedListExact
  <2>3. place \in Injection(held, 1..Len(finished))
    <3>0. DOMAIN place = held /\ place = [h \in held |-> place[h]]
      OBVIOUS
    <3> HIDE DEF place
    <3>1. place \in [held -> 1..Len(finished)]
      BY <2>1, <3>0
    <3>2. \A g, h \in held : place[g] = place[h] => g = h
      BY <2>1
    <3> QED BY <3>1, <3>2 DEF Injection, IsInjective
  <2>4. IsFiniteSet(1..Len(finished)) /\ Cardinality(1..Len(finished)) = Len(finished)
    BY <2>2, IntervalCount
  <2>5. Cardinality(held) <= Cardinality(1..Len(finished))
    BY <2>3, <2>4, FS_Injection
  <2>6. Cardinality(held) \in Nat
    BY HandlesFinite DEF IndInv, TypeOK
  <2> QED BY <2>2, <2>4, <2>5, <2>6, LimitsAssumption DEF RetentionBounded
<1> QED BY <1>1, Invariance, PTL

(* The comment at liveTasks, proved: an Add from zero is the main program's *)
(* and comes before it waits, as sync.WaitGroup requires.                   *)
THEOREM AddFromZero == Spec => AddFromZeroIsMains
<1>1. IndInv /\ [Next]_vars
        => [liveTasks = 0 /\ liveTasks' > 0 => main = "run" /\ call[Main].op = "add"]_vars
  <2> SUFFICES ASSUME IndInv, Next, liveTasks = 0, liveTasks' > 0
               PROVE  main = "run" /\ call[Main].op = "add"
    BY DEF vars
  <2>1. PICK t \in Threads : AddLive(t)
    BY DEF Next, Proceed, RegisterTask, TaskWait, CompleteTask, StartTask, WaitFinished,
       TimerFires, HasFinished, ReleaseTask, DoneLive, MainReturns, WaitForTasks, CleanupSensitiveData,
       Stopped, vars
  <2>2. call[t].op = "add" /\ Running(t)
    BY <2>1 DEF AddLive, IndInv, CallsConsistent
  <2>3. Counted = {}
    <3>1. IsFiniteSet(Counted)
      BY HandlesFinite DEF Counted
    <3> QED BY <3>1, FS_EmptySet, Zenon DEF IndInv, WaitGroupExact
  <2>4. t = Main
    BY <2>2, <2>3 DEF Running, Counted, Threads, Handles, Main
  <2> QED BY <2>2, <2>4 DEF Running
<1> QED BY <1>1, Invariance, PTL DEF Spec, AddFromZeroIsMains

-----------------------------------------------------------------------------
(* What becomes of results *)

(* Where the retention loop puts what it keeps, and what it drops.          *)
RetentionPlaces(list, limit, k, kept, gone) ==
  /\ k \in Nat
  /\ k <= Len(list)
  /\ k > 0 => Len(list) - k = limit
  /\ Len(kept) = Len(list) - k
  /\ \A i \in 1..(Len(list) - k) : kept[i] = list[i + k]
  /\ \A x \in gone : \E j \in 1..k : x = list[j]

(* The list keeps its newest entries in their order.                        *)
LEMMA RetentionIndex ==
  ASSUME NEW S, NEW limit \in Nat \ {0}, NEW list \in Seq(S)
  PROVE  RetentionPlaces(list, limit, Surplus(list, limit), Retained(list, limit),
                         Evicted(list, limit))
<1> DEFINE k == Surplus(list, limit)
<1>1. k \in Nat /\ k <= Len(list) /\ (k > 0 => Len(list) - k = limit)
  BY DEF Surplus
<1>2. Retained(list, limit) = SubSeq(list, k + 1, Len(list)) /\ Evicted(list, limit) = {list[i] : i \in 1..k}
  BY DEF Retained, Evicted
<1> HIDE DEF k
<1>3. k + 1 \in 1..(Len(list) + 1) /\ Len(list) \in Nat
  BY <1>1
<1>4. /\ Len(SubSeq(list, k + 1, Len(list))) = Len(list) - k
      /\ \A i \in 1..(Len(list) - k) : SubSeq(list, k + 1, Len(list))[i] = list[i + k]
  BY <1>1, <1>3
<1>5. RetentionPlaces(list, limit, k, Retained(list, limit), Evicted(list, limit))
  BY <1>1, <1>2, <1>4 DEF RetentionPlaces
<1> QED BY <1>5 DEF k

(* A step that finishes no task keeps the history as it is, if a handle it  *)
(* takes from the registry is collected.                                    *)
LEMMA HistoryQuiet ==
  ASSUME HistoryInv, UNCHANGED <<finished, closed, ended>>,
         tasks \cup collected \subseteq tasks' \cup collected'
  PROVE  HistoryInv'
<1>1. finished' = finished /\ closed' = closed /\ ended' = ended
  OBVIOUS
<1>2. \A i \in 1..Len(finished) : finished[i] \in tasks' \cup collected'
  BY Zenon DEF HistoryInv
<1> QED BY <1>1, <1>2, Zenon DEF HistoryInv

(* A task that finishes is the newest of the history and of the list; what  *)
(* the loop drops comes before everything it keeps, and no handle is in the *)
(* list twice, so nothing it keeps leaves the registry.                     *)
LEMMA CompleteTaskHistory ==
  ASSUME IndInv, HistoryInv, NEW t \in Threads, CompleteTask(t)
  PROVE  HistoryInv'
<1> DEFINE all == Append(finished, t)
           k == Surplus(all, maxRetainedTasks)
           n == Len(finished)
           m == Len(ended)
<1>1. t \in Handles /\ t \notin closed /\ t \in tasks
  BY DEF IndInv, CompleteTask, Free, Running, Handles, Main, PhaseFollowsRegistry, Spawned,
     UnfinishedAddressable, TypeOK
<1>2. /\ closed' = closed \cup {t}
      /\ ended' = Append(ended, t)
      /\ finished' = Retained(all, maxRetainedTasks)
      /\ tasks' = tasks \ Evicted(all, maxRetainedTasks)
      /\ collected' = collected
  BY <1>1 DEF CompleteTask
<1>3. finished \in Seq(Handles) /\ ended \in Seq(Handles) /\ n \in Nat /\ m \in Nat
  BY DEF IndInv, TypeOK
<1>4. /\ all \in Seq(Handles) /\ Len(all) = n + 1 /\ all[n + 1] = t
      /\ \A i \in 1..n : all[i] = finished[i]
  BY <1>1, <1>3
<1>5. /\ Len(ended') = m + 1 /\ ended'[m + 1] = t
      /\ \A i \in 1..m : ended'[i] = ended[i]
  BY <1>1, <1>2, <1>3
<1>6. /\ k \in Nat /\ k <= n + 1 /\ (k > 0 => n + 1 - k = maxRetainedTasks)
      /\ Len(finished') = n + 1 - k
      /\ \A i \in 1..(n + 1 - k) : finished'[i] = all[i + k]
      /\ \A x \in Evicted(all, maxRetainedTasks) : \E j \in 1..k : x = all[j]
  <2> HIDE DEF all
  <2>1. maxRetainedTasks \in Nat \ {0}
    BY LimitsAssumption
  <2>2. RetentionPlaces(all, maxRetainedTasks, k, finished', Evicted(all, maxRetainedTasks))
    BY <1>2, <1>4, <2>1, RetentionIndex
  <2> HIDE DEF k
  <2> QED BY <1>4, <2>2 DEF RetentionPlaces
<1> HIDE DEF all, k
<1>7. n <= m /\ (n < m => n = maxRetainedTasks)
  BY DEF HistoryInv
<1>8. \A h \in Handles : h \in closed' <=> \E i \in 1..Len(ended') : ended'[i] = h
  <2> SUFFICES ASSUME NEW h \in Handles
               PROVE  h \in closed' <=> \E i \in 1..(m + 1) : ended'[i] = h
    BY <1>5
  <2>1. h \in closed <=> \E i \in 1..m : ended[i] = h
    BY Zenon DEF HistoryInv
  <2>2. (\E i \in 1..(m + 1) : ended'[i] = h) <=> (h = t \/ \E i \in 1..m : ended[i] = h)
    BY <1>3, <1>5
  <2> QED BY <1>2, <2>1, <2>2
<1>9. \A i, j \in 1..Len(ended') : ended'[i] = ended'[j] => i = j
  <2> SUFFICES ASSUME NEW i \in 1..(m + 1), NEW j \in 1..(m + 1), ended'[i] = ended'[j]
               PROVE  i = j
    BY <1>5
  <2>1. \A l \in 1..m : ended[l] # t
    BY <1>1 DEF HistoryInv
  <2>2. CASE i \in 1..m /\ j \in 1..m
    BY <1>5, <2>2 DEF HistoryInv
  <2>3. CASE i = m + 1 \/ j = m + 1
    BY <1>3, <1>5, <2>1, <2>3
  <2> QED BY <1>3, <2>2, <2>3
<1>10. \A i \in 1..(n + 1) : all[i] = ended'[m - n + i]
  <2> SUFFICES ASSUME NEW i \in 1..(n + 1) PROVE all[i] = ended'[m - n + i]
    OBVIOUS
  <2>1. CASE i = n + 1
    BY <1>3, <1>4, <1>5, <2>1
  <2>2. CASE i \in 1..n
    <3>1. finished[i] = ended[m - n + i] /\ m - n + i \in 1..m
      BY <1>3, <1>7, <2>2 DEF HistoryInv
    <3> QED BY <1>4, <1>5, <2>2, <3>1
  <2> QED BY <1>3, <2>1, <2>2
<1>11. \A i \in 1..Len(finished') : finished'[i] = ended'[Len(ended') - Len(finished') + i]
  <2> SUFFICES ASSUME NEW i \in 1..(n + 1 - k)
               PROVE  finished'[i] = ended'[m + 1 - (n + 1 - k) + i]
    BY <1>5, <1>6
  <2>1. i + k \in 1..(n + 1) /\ m + 1 - (n + 1 - k) + i = m - n + (i + k)
    BY <1>3, <1>6
  <2> QED BY <1>6, <1>10, <2>1
<1>12. \A i \in 1..Len(finished') : finished'[i] \in tasks' \cup collected'
  <2> SUFFICES ASSUME NEW i \in 1..(n + 1 - k)
               PROVE  finished'[i] \in tasks' \cup collected'
    BY <1>6
  <2>1. i + k \in 1..(n + 1) /\ finished'[i] = all[i + k]
    BY <1>3, <1>6
  <2>2. all[i + k] \in tasks \cup collected
    <3>1. \A j \in 1..n : finished[j] \in tasks \cup collected
      BY Zenon DEF HistoryInv
    <3> QED BY <1>1, <1>3, <1>4, <2>1, <3>1
  <2>3. all[i + k] \notin Evicted(all, maxRetainedTasks)
    <3> SUFFICES ASSUME NEW j \in 1..k, all[i + k] = all[j] PROVE FALSE
      BY <1>6, Zenon
    <3>1. j \in 1..(n + 1) /\ m - n + j \in 1..(m + 1) /\ m - n + (i + k) \in 1..(m + 1)
      BY <1>3, <1>6, <1>7, <2>1
    <3>2. m - n + j = m - n + (i + k)
      BY <1>5, <1>9, <1>10, <2>1, <3>1
    <3> QED BY <1>3, <1>6, <3>2
  <2> QED BY <1>2, <2>1, <2>2, <2>3
<1>13. /\ Len(finished') <= Len(ended')
       /\ Len(finished') < Len(ended') => Len(finished') = maxRetainedTasks
  <2>1. CASE k = 0
    <3>1. Len(finished') <= maxRetainedTasks
      BY <1>2, <1>3, <1>4, <1>6, <2>1, LimitsAssumption DEF k, Surplus
    <3> QED BY <1>3, <1>5, <1>6, <1>7, <2>1, <3>1, LimitsAssumption
  <2>2. CASE k > 0
    BY <1>3, <1>5, <1>6, <1>7, <2>2, LimitsAssumption
  <2> QED BY <1>6, <2>1, <2>2
<1> QED BY <1>8, <1>9, <1>11, <1>12, <1>13 DEF HistoryInv

(* A finished result can be collected until it has been, or until           *)
(* maxRetainedTasks tasks have finished after it.                           *)
LEMMA ResultsStay == Spec => []ResultsKept
<1>1. Init => HistoryInv
  BY DEF Init, HistoryInv
<1>2. IndInv /\ HistoryInv /\ [Next]_vars => HistoryInv'
  <2> SUFFICES ASSUME IndInv, HistoryInv, [Next]_vars PROVE HistoryInv'
    OBVIOUS
  <2>1. CASE \E t \in Threads : CompleteTask(t)
    BY <2>1, CompleteTaskHistory
  <2>2. CASE ~\E t \in Threads : CompleteTask(t)
    <3>1. UNCHANGED <<finished, closed, ended>> /\ tasks \cup collected \subseteq tasks' \cup collected'
      <4>1. ASSUME NEW t \in Threads, Proceed(t)
            PROVE  UNCHANGED <<finished, closed, ended>> /\ tasks \cup collected \subseteq tasks' \cup collected'
        BY <4>1 DEF Proceed, AddLive, StartTask, WaitFinished, TimerFires, HasFinished, ReleaseTask,
           DoneLive, registry, history
      <4>2. ASSUME NEW t \in Threads, RegisterTask(t)
            PROVE  UNCHANGED <<finished, closed, ended>> /\ tasks \cup collected \subseteq tasks' \cup collected'
        BY <4>2 DEF RegisterTask, registry, history
      <4>3. ASSUME NEW t \in Threads, NEW h \in Handles, NEW mode \in WaitModes, TaskWait(t, h, mode)
            PROVE  UNCHANGED <<finished, closed, ended>> /\ tasks \cup collected \subseteq tasks' \cup collected'
        BY <4>3 DEF TaskWait, registry, history
      <4>4. CASE MainReturns \/ WaitForTasks \/ CleanupSensitiveData \/ Stopped \/ UNCHANGED vars
        BY <4>4 DEF MainReturns, WaitForTasks, CleanupSensitiveData, Stopped, vars, registry, history
      <4> QED BY <2>2, <4>1, <4>2, <4>3, <4>4, Zenon DEF Next
    <3> QED BY <3>1, HistoryQuiet
  <2> QED BY <2>1, <2>2
<1>3. IndInv /\ HistoryInv => ResultsKept
  <2> SUFFICES ASSUME IndInv, HistoryInv, NEW i \in 1..Len(ended), Len(ended) - i < maxRetainedTasks
               PROVE  ended[i] \in tasks \cup collected
    BY LimitsAssumption DEF ResultsKept, IndInv, TypeOK
  <2> DEFINE d == i - (Len(ended) - Len(finished))
  <2>1. Len(ended) \in Nat /\ Len(finished) \in Nat
    BY DEF IndInv, TypeOK
  <2>2. Len(finished) <= Len(ended) /\ (Len(finished) < Len(ended) => Len(finished) = maxRetainedTasks)
    BY DEF HistoryInv
  <2>3. d \in 1..Len(finished) /\ Len(ended) - Len(finished) + d = i
    BY <2>1, <2>2, LimitsAssumption
  <2> HIDE DEF d
  <2>4. finished[d] = ended[i] /\ finished[d] \in tasks \cup collected
    BY <2>3 DEF HistoryInv
  <2> QED BY <2>4
<1> QED BY <1>1, <1>2, <1>3, Invariance, PTL DEF Spec

(* No handle somebody may still need is dropped: neither a running task's   *)
(* nor that of an uncollected result within the limit (CompleteTask,        *)
(* releaseTask).                                                            *)
THEOREM HandlesStay == Spec => []HandlesKept
<1>1. UnfinishedAddressable /\ ResultsKept => HandlesKept
  BY DEF HandlesKept
<1> QED BY <1>1, RunningTaskAddressable, ResultsStay, PTL
=============================================================================

------------------------- MODULE ConcurrencyProofs --------------------------
(***************************************************************************)
(* Proofs about what Mutant programs run and wait for concurrently.        *)
(*                                                                         *)
(* The channels, for any number of threads, channels and capacities: a     *)
(* receive never reports closed=true over a value sent before the close,   *)
(* and the registry counts the live channels exactly.                      *)
(*                                                                         *)
(* runParallel, for any number of elements and workers: no element twice,  *)
(* no worker left behind, the early stop, and that it implements           *)
(* MapPromise.                                                             *)
(***************************************************************************)
EXTENDS Channels, Parallel, FiniteSetTheorems, TLAPS

(* The invariant behind it.  A receive that goes back for its second look   *)
(* has seen done closed; so has whoever was told closed=true; and from the  *)
(* close on, whatever is queued is marked late.                             *)
DeliveryInv ==
  /\ buf \in [Handles -> Seq(Entries)]
  /\ call \in [Threads -> [op : Ops, c : 0..MaxHandles, mode : Modes]]
  /\ nextID \in Nat \ {0} /\ channels \subseteq Handles /\ done \subseteq Handles
  /\ \A t \in Threads : ~In(t, "idle") => Chan(t) \in Handles
  /\ \A t \in Threads : In(t, "redrain") => Chan(t) \in done
  /\ toldClosed \subseteq done
  /\ ClosedAfterEarly

(* Return ends one call and leaves the others alone.                        *)
LEMMA ReturnCalls ==
  ASSUME DeliveryInv, NEW t \in Threads, Return(t)
  PROVE  /\ call' \in [Threads -> [op : Ops, c : 0..MaxHandles, mode : Modes]]
         /\ \A u \in Threads : u # t => call'[u] = call[u]
         /\ call'[t] = Idle
<1>1. Idle \in [op : Ops, c : 0..MaxHandles, mode : Modes]
  BY ChannelAssumption DEF Idle, Ops, Modes
<1> QED BY <1>1 DEF DeliveryInv, Return

(* Goto moves one call to its next select and keeps its channel.            *)
LEMMA GotoCalls ==
  ASSUME DeliveryInv, NEW t \in Threads, NEW op \in Ops, Goto(t, op)
  PROVE  /\ call' \in [Threads -> [op : Ops, c : 0..MaxHandles, mode : Modes]]
         /\ \A u \in Threads : u # t => call'[u] = call[u]
         /\ call'[t].op = op /\ call'[t].c = call[t].c
<1>1. call[t] \in [op : Ops, c : 0..MaxHandles, mode : Modes]
  BY DEF DeliveryInv
<1>2. LET r == [call[t] EXCEPT !.op = op] IN
        r \in [op : Ops, c : 0..MaxHandles, mode : Modes] /\ r.op = op /\ r.c = call[t].c
  BY <1>1
<1>3. call' = [call EXCEPT ![t] = [call[t] EXCEPT !.op = op]]
  BY DEF Goto
<1> QED BY <1>2, <1>3 DEF DeliveryInv

(* Taking from the front or queueing what Entry says puts no early value    *)
(* into a channel somebody was told is closed.                              *)
LEMMA TakeKeeps ==
  ASSUME DeliveryInv, NEW c \in Handles, buf[c] # << >>, Take(c), toldClosed' = toldClosed
  PROVE  buf' \in [Handles -> Seq(Entries)] /\ ClosedAfterEarly'
<1>1. buf[c] \in Seq(Entries)
  BY DEF DeliveryInv
<1>2. /\ Tail(buf[c]) \in Seq(Entries)
      /\ Len(Tail(buf[c])) = Len(buf[c]) - 1
      /\ \A i \in 1..(Len(buf[c]) - 1) : Tail(buf[c])[i] = buf[c][i + 1]
  BY <1>1
<1>3. buf' \in [Handles -> Seq(Entries)] /\ buf'[c] = Tail(buf[c])
      /\ \A d \in Handles : d # c => buf'[d] = buf[d]
  BY <1>2 DEF Take, DeliveryInv
<1>4. ASSUME c \in toldClosed, NEW i \in 1..Len(buf'[c])
      PROVE  buf'[c][i] # "early"
  <2>1. i + 1 \in 1..Len(buf[c]) /\ buf'[c][i] = buf[c][i + 1]
    BY <1>1, <1>2, <1>3
  <2> QED BY <1>4, <2>1 DEF DeliveryInv, ClosedAfterEarly
<1>5. ASSUME NEW d \in toldClosed, NEW i \in 1..Len(buf'[d])
      PROVE  buf'[d][i] # "early"
  <2>1. CASE d = c
    BY <1>4, <1>5, <2>1
  <2>2. CASE d # c
    BY <1>3, <1>5, <2>2 DEF DeliveryInv, ClosedAfterEarly
  <2> QED BY <2>1, <2>2
<1> QED BY <1>3, <1>5 DEF ClosedAfterEarly

(* The same for a value just queued: after the close it is marked late.     *)
LEMMA QueueKeeps ==
  ASSUME DeliveryInv, NEW c \in Handles, buf' = [buf EXCEPT ![c] = Append(@, Entry(c))],
         toldClosed' = toldClosed
  PROVE  buf' \in [Handles -> Seq(Entries)] /\ ClosedAfterEarly'
<1>1. buf[c] \in Seq(Entries) /\ Entry(c) \in Entries
  BY DEF DeliveryInv, Entry, Entries
<1>2. /\ Append(buf[c], Entry(c)) \in Seq(Entries)
      /\ Len(Append(buf[c], Entry(c))) = Len(buf[c]) + 1
      /\ \A i \in 1..Len(buf[c]) : Append(buf[c], Entry(c))[i] = buf[c][i]
      /\ Append(buf[c], Entry(c))[Len(buf[c]) + 1] = Entry(c)
  BY <1>1
<1>3. buf' \in [Handles -> Seq(Entries)] /\ buf'[c] = Append(buf[c], Entry(c))
      /\ \A d \in Handles : d # c => buf'[d] = buf[d]
  BY <1>2 DEF DeliveryInv
<1>4. ASSUME c \in toldClosed, NEW i \in 1..Len(buf'[c])
      PROVE  buf'[c][i] # "early"
  <2>1. CASE i <= Len(buf[c])
    <3>1. i \in 1..Len(buf[c]) /\ buf'[c][i] = buf[c][i]
      BY <1>1, <1>2, <1>3, <2>1
    <3> QED BY <1>4, <3>1 DEF DeliveryInv, ClosedAfterEarly
  <2>2. CASE ~(i <= Len(buf[c]))
    <3>1. buf'[c][i] = Entry(c)
      BY <1>1, <1>2, <1>3, <2>2
    <3>2. c \in done
      BY <1>4 DEF DeliveryInv
    <3> QED BY <3>1, <3>2 DEF Entry
  <2> QED BY <2>1, <2>2
<1>5. ASSUME NEW d \in toldClosed, NEW i \in 1..Len(buf'[d])
      PROVE  buf'[d][i] # "early"
  <2>1. CASE d = c
    BY <1>4, <1>5, <2>1
  <2>2. CASE d # c
    BY <1>3, <1>5, <2>2 DEF DeliveryInv, ClosedAfterEarly
  <2> QED BY <2>1, <2>2
<1> QED BY <1>3, <1>5 DEF ClosedAfterEarly

(* The part of the invariant that is about calls, after one thread returns  *)
(* or goes on to a select it may go on to.                                  *)
CallsOK ==
  /\ call \in [Threads -> [op : Ops, c : 0..MaxHandles, mode : Modes]]
  /\ \A t \in Threads : ~In(t, "idle") => Chan(t) \in Handles
  /\ \A t \in Threads : In(t, "redrain") => Chan(t) \in done

(* Returning from a call keeps the part of the invariant about calls.       *)
LEMMA ReturnKeeps ==
  ASSUME DeliveryInv, NEW t \in Threads, Return(t), done \subseteq done'
  PROVE  CallsOK'
<1>1. /\ call' \in [Threads -> [op : Ops, c : 0..MaxHandles, mode : Modes]]
      /\ \A u \in Threads : u # t => call'[u] = call[u]
      /\ call'[t] = Idle
  BY ReturnCalls
<1>2. ASSUME NEW u \in Threads
      PROVE  /\ ~In(u, "idle")' => Chan(u)' \in Handles
             /\ In(u, "redrain")' => Chan(u)' \in done'
  <2>1. CASE u = t
    BY <1>1, <2>1 DEF In, Idle
  <2>2. CASE u # t
    BY <1>1, <2>2 DEF DeliveryInv, In, Chan
  <2> QED BY <2>1, <2>2
<1> QED BY <1>1, <1>2 DEF CallsOK

(* So does going on, if a second look is only taken at a closed channel.    *)
LEMMA GotoKeeps ==
  ASSUME DeliveryInv, NEW t \in Threads, NEW op \in Ops, Goto(t, op), ~In(t, "idle"),
         op = "redrain" => Chan(t) \in done, done \subseteq done'
  PROVE  CallsOK'
<1>1. /\ call' \in [Threads -> [op : Ops, c : 0..MaxHandles, mode : Modes]]
      /\ \A u \in Threads : u # t => call'[u] = call[u]
      /\ call'[t].op = op /\ call'[t].c = call[t].c
  BY GotoCalls
<1>2. ASSUME NEW u \in Threads
      PROVE  /\ ~In(u, "idle")' => Chan(u)' \in Handles
             /\ In(u, "redrain")' => Chan(u)' \in done'
  <2>1. CASE u = t
    BY <1>1, <2>1 DEF DeliveryInv, In, Chan
  <2>2. CASE u # t
    BY <1>1, <2>2 DEF DeliveryInv, In, Chan
  <2> QED BY <2>1, <2>2
<1> QED BY <1>1, <1>2 DEF CallsOK

(* The invariant is preserved by every step: one case per action.           *)
LEMMA DeliveryStep ==
  ASSUME DeliveryInv, [Next]_vars
  PROVE  DeliveryInv'
<1> USE DEF registry
<1>0. ASSUME NEW t \in Threads, ~In(t, "idle") PROVE Chan(t) \in Handles
  BY <1>0 DEF DeliveryInv
<1>1. ASSUME NEW t \in Threads, NEW c \in Handles, NEW k \in Capacities[c], ChanNew(t, k)
      PROVE  DeliveryInv'
  <2>1. channels' \subseteq Handles /\ nextID' \in Nat \ {0}
    BY <1>1, ChannelAssumption DEF ChanNew, DeliveryInv, Handles
  <2>2. UNCHANGED <<buf, done, call, toldClosed>>
    BY <1>1 DEF ChanNew
  <2> QED BY <2>1, <2>2 DEF DeliveryInv, In, Chan, ClosedAfterEarly
<1>2. ASSUME NEW t \in Threads, NEW c \in Handles, NEW op \in {"sendcheck", "recv", "close"},
             NEW mode \in Modes, Begin(t, c, op, mode)
      PROVE  DeliveryInv'
  <2>1. CallsOK'
    <3>1. [op |-> op, c |-> c, mode |-> mode] \in [op : Ops, c : 0..MaxHandles, mode : Modes]
      BY DEF Ops, Handles
    <3>2. /\ call' \in [Threads -> [op : Ops, c : 0..MaxHandles, mode : Modes]]
          /\ \A u \in Threads : u # t => call'[u] = call[u]
          /\ call'[t] = [op |-> op, c |-> c, mode |-> mode]
      BY <1>2, <3>1, Zenon DEF Begin, DeliveryInv
    <3> QED BY <1>2, <3>2, Zenon DEF CallsOK, DeliveryInv, In, Chan, Begin
  <2> QED BY <1>2, <2>1, Zenon DEF Begin, DeliveryInv, CallsOK, ClosedAfterEarly
<1>3. ASSUME NEW t \in Threads,
             SendCheck(t) \/ SendSeesClosed(t) \/ SendGivesUp(t) \/ RecvGivesUp(t) \/ RecvSeesClosed(t)
      PROVE  DeliveryInv'
  <2>1. UNCHANGED <<registry, buf, done, toldClosed>>
    BY <1>3, Zenon DEF SendCheck, SendSeesClosed, SendGivesUp, RecvGivesUp, RecvSeesClosed
  <2>2. Return(t) \/ (SendCheck(t) /\ Goto(t, "send")) \/ (RecvSeesClosed(t) /\ Goto(t, "redrain"))
    BY <1>3, Zenon DEF SendCheck, SendSeesClosed, SendGivesUp, RecvGivesUp, RecvSeesClosed
  <2>3. CallsOK'
    <3>1. CASE Return(t)
      BY <2>1, <3>1, ReturnKeeps
    <3>2. CASE SendCheck(t) /\ Goto(t, "send")
      BY <2>1, <3>2, GotoKeeps, Zenon DEF SendCheck, In, Ops
    <3>3. CASE RecvSeesClosed(t) /\ Goto(t, "redrain")
      BY <2>1, <3>3, GotoKeeps DEF RecvSeesClosed, In, Ops
    <3> QED BY <2>2, <3>1, <3>2, <3>3
  <2> QED BY <2>1, <2>3 DEF DeliveryInv, CallsOK, ClosedAfterEarly
<1>4. ASSUME NEW t \in Threads, SendQueues(t) PROVE DeliveryInv'
  <2>1. Chan(t) \in Handles
    BY <1>0, <1>4 DEF SendQueues, In
  <2>2. CallsOK' /\ UNCHANGED <<registry, done, toldClosed>>
    BY <1>4, ReturnKeeps DEF SendQueues
  <2>3. buf' \in [Handles -> Seq(Entries)] /\ ClosedAfterEarly'
    BY <1>4, <2>1, QueueKeeps, Zenon DEF SendQueues
  <2> QED BY <2>2, <2>3 DEF DeliveryInv, CallsOK
<1>5. ASSUME NEW t \in Threads, RecvTakes(t) PROVE DeliveryInv'
  <2>1. Chan(t) \in Handles
    BY <1>0, <1>5 DEF RecvTakes, In
  <2>2. CallsOK' /\ UNCHANGED <<registry, done, toldClosed>>
    BY <1>5, ReturnKeeps DEF RecvTakes
  <2>3. buf' \in [Handles -> Seq(Entries)] /\ ClosedAfterEarly'
    BY <1>5, <2>1, TakeKeeps DEF RecvTakes
  <2> QED BY <2>2, <2>3 DEF DeliveryInv, CallsOK
<1>6. ASSUME NEW t \in Threads, RecvDrain(t) PROVE DeliveryInv'
  <2>1. Chan(t) \in Handles /\ ~In(t, "idle") /\ UNCHANGED <<registry, done, toldClosed>>
    BY <1>0, <1>6 DEF RecvDrain, In
  <2>2. CASE buf[Chan(t)] # << >>
    <3>1. Take(Chan(t)) /\ Return(t)
      BY <1>6, <2>2, Zenon DEF RecvDrain
    <3>2. CallsOK'
      BY <2>1, <3>1, ReturnKeeps
    <3>3. buf' \in [Handles -> Seq(Entries)] /\ ClosedAfterEarly'
      BY <2>1, <2>2, <3>1, TakeKeeps
    <3> QED BY <2>1, <3>2, <3>3 DEF DeliveryInv, CallsOK
  <2>3. CASE ~(buf[Chan(t)] # << >>)
    <3>1. Goto(t, "wait") /\ UNCHANGED buf
      BY <1>6, <2>3 DEF RecvDrain
    <3>2. CallsOK'
      BY <2>1, <3>1, GotoKeeps DEF Ops
    <3> QED BY <2>1, <3>1, <3>2 DEF DeliveryInv, CallsOK, ClosedAfterEarly
  <2> QED BY <2>2, <2>3
<1>7. ASSUME NEW t \in Threads, RecvRedrain(t) PROVE DeliveryInv'
  <2>1. Chan(t) \in Handles /\ Chan(t) \in done /\ UNCHANGED <<registry, done>>
    BY <1>7 DEF RecvRedrain, In, DeliveryInv
  <2>2. CallsOK'
    BY <1>7, <2>1, ReturnKeeps DEF RecvRedrain
  <2>3. CASE buf[Chan(t)] # << >>
    <3>1. Take(Chan(t)) /\ toldClosed' = toldClosed
      BY <1>7, <2>3 DEF RecvRedrain
    <3>2. buf' \in [Handles -> Seq(Entries)] /\ ClosedAfterEarly'
      BY <2>1, <2>3, <3>1, TakeKeeps
    <3> QED BY <2>1, <2>2, <3>1, <3>2 DEF DeliveryInv, CallsOK
  <2>4. CASE buf[Chan(t)] = << >>
    <3>1. toldClosed' = toldClosed \cup {Chan(t)} /\ buf' = buf
      BY <1>7, <2>4 DEF RecvRedrain
    <3>2. 1..Len(buf[Chan(t)]) = {}
      BY <2>4
    <3>3. ClosedAfterEarly'
      BY <3>1, <3>2, Zenon DEF DeliveryInv, ClosedAfterEarly
    <3> QED BY <2>1, <2>2, <3>1, <3>3 DEF DeliveryInv, CallsOK
  <2> QED BY <2>3, <2>4
<1>8. ASSUME NEW s \in Threads, NEW r \in Threads, Handoff(s, r) PROVE DeliveryInv'
  <2>1. UNCHANGED <<registry, buf, done, toldClosed>> /\ call' = [call EXCEPT ![s] = Idle, ![r] = Idle]
    BY <1>8 DEF Handoff
  <2>2. Idle \in [op : Ops, c : 0..MaxHandles, mode : Modes]
    BY ChannelAssumption DEF Idle, Ops, Modes
  <2>3. /\ call' \in [Threads -> [op : Ops, c : 0..MaxHandles, mode : Modes]]
        /\ \A u \in Threads : call'[u] = call[u] \/ call'[u] = Idle
    BY <2>1, <2>2 DEF DeliveryInv
  <2>4. CallsOK'
    BY <2>1, <2>3, Zenon DEF CallsOK, DeliveryInv, In, Chan, Idle
  <2> QED BY <2>1, <2>4, Zenon DEF DeliveryInv, CallsOK, ClosedAfterEarly
<1>9. ASSUME NEW t \in Threads, CloseChannel(t) PROVE DeliveryInv'
  <2>1. Chan(t) \in Handles /\ ~In(t, "idle") /\ UNCHANGED <<registry, buf, toldClosed>>
    BY <1>0, <1>9 DEF CloseChannel, In
  <2>2. done \subseteq done' /\ done' \subseteq Handles
    BY <1>9, <2>1 DEF CloseChannel, DeliveryInv
  <2>3. CallsOK'
    BY <1>9, <2>1, <2>2, ReturnKeeps, GotoKeeps DEF CloseChannel, Ops
  <2> QED BY <2>1, <2>2, <2>3 DEF DeliveryInv, CallsOK, ClosedAfterEarly
<1>10. ASSUME NEW t \in Threads, RetireChannel(t) PROVE DeliveryInv'
  <2>1. UNCHANGED <<nextID, buf, done, toldClosed>> /\ channels' \subseteq channels
    BY <1>10 DEF RetireChannel
  <2>2. CallsOK'
    BY <1>10, <2>1, ReturnKeeps DEF RetireChannel
  <2> QED BY <2>1, <2>2 DEF DeliveryInv, CallsOK, ClosedAfterEarly
<1>11. CASE UNCHANGED vars
  BY <1>11 DEF vars, DeliveryInv, In, Chan, ClosedAfterEarly
<1> QED
  <2>1. \A t \in Threads, c \in Handles : Begin(t, c, "close", "poll") => DeliveryInv'
    BY <1>2 DEF Modes
  <2> QED BY <1>1, <1>2, <1>3, <1>4, <1>5, <1>6, <1>7, <1>8, <1>9, <1>10, <1>11, <2>1, Zenon DEF Next, Step

(* The invariant holds throughout a run.                                    *)
THEOREM DeliveryInvariance == Spec => []DeliveryInv
<1>1. Init => DeliveryInv
  <2>1. Idle \in [op : Ops, c : 0..MaxHandles, mode : Modes]
    BY ChannelAssumption DEF Idle, Ops, Modes
  <2> QED BY <2>1 DEF Init, DeliveryInv, ClosedAfterEarly, In, Idle
<1> QED BY <1>1, DeliveryStep, PTL DEF Spec

(* closed=true is never told over a value sent before the close.            *)
THEOREM NothingSentIsDiscarded == Spec => []ClosedAfterEarly
<1>1. DeliveryInv => ClosedAfterEarly
  BY DEF DeliveryInv
<1> QED BY <1>1, DeliveryInvariance, PTL

-----------------------------------------------------------------------------
(* The registry *)

(* The retention loop keeps and drops these when h is appended to list, and *)
(* nothing but entries of list and h is among them.                         *)
Trims(list, h, limit, kept, gone) ==
  kept = Retained(Append(list, h), limit) /\ gone = Evicted(Append(list, h), limit)
OnlyOf(list, h, kept, gone) ==
  /\ \A i \in 1..Len(kept) : kept[i] = h \/ \E j \in 1..Len(list) : kept[i] = list[j]
  /\ \A x \in gone : x = h \/ \E j \in 1..Len(list) : x = list[j]

(* Whatever the retention loop keeps or drops was in the list or is the     *)
(* handle that was just appended.                                           *)
LEMMA RetentionEntries ==
  ASSUME NEW S, NEW list \in Seq(S), NEW h \in S, NEW limit \in Nat, NEW kept, NEW gone,
         Trims(list, h, limit, kept, gone)
  PROVE  kept \in Seq(S) /\ OnlyOf(list, h, kept, gone)
<1> DEFINE all == Append(list, h)
           k == Surplus(all, limit)
<1>1. /\ all \in Seq(S) /\ Len(all) = Len(list) + 1 /\ Len(list) \in Nat
      /\ \A j \in 1..Len(list) : all[j] = list[j]
      /\ all[Len(list) + 1] = h
  OBVIOUS
<1>2. k \in 0..Len(all)
  BY <1>1 DEF Surplus
<1>3. kept = SubSeq(all, k + 1, Len(all)) /\ gone = {all[i] : i \in 1..k}
  BY DEF Trims, Retained, Evicted
<1> HIDE DEF all, k
<1>4. /\ kept \in Seq(S) /\ Len(kept) = Len(all) - k
      /\ \A i \in 1..(Len(all) - k) : kept[i] = all[i + k]
  <2>1. k + 1 \in 1..(Len(all) + 1) /\ Len(all) \in Nat /\ k \in Nat
    BY <1>1, <1>2
  <2> QED BY <1>1, <1>2, <1>3, <2>1
<1>5. ASSUME NEW i \in 1..Len(all) PROVE all[i] = h \/ \E j \in 1..Len(list) : all[i] = list[j]
  BY <1>1
<1>6. \A i \in 1..Len(kept) : i + k \in 1..Len(all) /\ kept[i] = all[i + k]
  BY <1>1, <1>2, <1>4
<1>7. \A i \in 1..k : i \in 1..Len(all)
  BY <1>1, <1>2
<1>8. kept \in Seq(S) /\ (\A i \in 1..Len(kept) : kept[i] = h \/ \E j \in 1..Len(list) : kept[i] = list[j])
  BY <1>4, <1>5, <1>6, ZenonT(40)
<1>9. \A x \in gone : x = h \/ \E j \in 1..Len(list) : x = list[j]
  BY <1>3, <1>5, <1>7
<1> QED BY <1>8, <1>9 DEF OnlyOf

(* Every handle in use was given out; a channel is retired by the one call  *)
(* that closed it; the list of closed handles holds closed ones only.       *)
RegistryInv ==
  /\ nextID \in 1..(MaxHandles + 1)
  /\ channels \subseteq Created /\ done \subseteq Created
  /\ \A t \in Threads : ~In(t, "idle") => Chan(t) \in Created
  /\ \A t \in Threads : In(t, "retire") => Chan(t) \in done
  /\ \A t, u \in Threads : In(t, "retire") /\ In(u, "retire") /\ Chan(t) = Chan(u) => t = u
  /\ closed \in Seq(Handles)
  /\ \A i \in 1..Len(closed) : closed[i] \in done
  /\ live \in Nat /\ LiveExact

(* The channels that count.                                                 *)
Counting == (Created \ done) \cup Retiring

(* There are finitely many of them.                                         *)
LEMMA CountingFinite ==
  ASSUME RegistryInv
  PROVE  /\ Counting \subseteq Handles /\ IsFiniteSet(Counting)
         /\ live = Cardinality(Counting) /\ Cardinality(Counting) \in Nat
<1>1. IsFiniteSet(Handles)
  BY ChannelAssumption, FS_Interval DEF Handles
<1>2. Counting \subseteq Handles
  BY DEF Counting, Created, Retiring, RegistryInv
<1>3. IsFiniteSet(Counting)
  BY <1>1, <1>2, FS_Subset
<1> QED BY <1>2, <1>3, FS_CardinalityType DEF RegistryInv, LiveExact, Counting

(* A step that neither touches the registry nor closes nor retires.         *)
LEMMA QuietCalls ==
  ASSUME RegistryInv, UNCHANGED <<registry, done>>,
         \A u \in Threads : /\ call'[u].op = "retire" <=> call[u].op = "retire"
                            /\ call[u].op = "retire" => call'[u].c = call[u].c
                            /\ call'[u].op # "idle" => call'[u].c \in Created
  PROVE  RegistryInv'
<1> USE DEF registry
<1>1. Created' = Created
  BY DEF Created
<1>2. Retiring' = Retiring
  BY DEF Retiring, In, Chan
<1>3. LiveExact'
  BY <1>1, <1>2, Zenon DEF RegistryInv, LiveExact
<1>4. \A t \in Threads : ~In(t, "idle")' => Chan(t)' \in Created
  BY DEF In, Chan
<1>5. \A t \in Threads : In(t, "retire")' => In(t, "retire") /\ Chan(t)' = Chan(t)
  BY DEF In, Chan
<1> QED BY <1>1, <1>3, <1>4, <1>5, Zenon DEF RegistryInv

(* chan_new counts one more.                                                *)
LEMMA NewCounts ==
  ASSUME DeliveryInv, RegistryInv, NEW t \in Threads, NEW k, ChanNew(t, k)
  PROVE  RegistryInv'
<1>1. /\ nextID \in Handles /\ nextID' = nextID + 1 /\ nextID' \in 1..(MaxHandles + 1)
      /\ live' = live + 1 /\ live < maxLiveChannels /\ channels' = channels \cup {nextID}
      /\ UNCHANGED <<closed, done, call>>
  BY ChannelAssumption DEF ChanNew, RegistryInv, Handles
<1>2. Created' = Created \cup {nextID} /\ nextID \notin Created
  BY <1>1, ChannelAssumption DEF Created, Handles
<1>3. nextID \notin done
  BY <1>2 DEF RegistryInv
<1>4. Retiring' = Retiring
  BY <1>1 DEF Retiring, In, Chan
<1>5. Counting' = Counting \cup {nextID} /\ nextID \notin Counting
  BY <1>1, <1>2, <1>3, <1>4 DEF Counting, Retiring
<1>6. Cardinality(Counting') = Cardinality(Counting) + 1
  BY <1>5, CountingFinite, FS_AddElement, Zenon
<1>7. LiveExact'
  <2>1. live' = Cardinality(Counting')
    BY <1>1, <1>6, CountingFinite
  <2>2. live' <= maxLiveChannels
    BY <1>1, ChannelAssumption DEF RegistryInv
  <2>3. (Created \ done \subseteq channels)'
    BY <1>1, <1>2 DEF RegistryInv, LiveExact
  <2> QED BY <2>1, <2>2, <2>3 DEF LiveExact, Counting
<1>8. \A u \in Threads : In(u, "idle")' = In(u, "idle") /\ In(u, "retire")' = In(u, "retire") /\ Chan(u)' = Chan(u)
  BY <1>1, Zenon DEF In, Chan
<1> QED BY <1>1, <1>2, <1>7, <1>8 DEF RegistryInv

(* The close that counts moves a channel from the open ones to those being  *)
(* retired.                                                                 *)
LEMMA CloseCounts ==
  ASSUME DeliveryInv, RegistryInv, NEW t \in Threads, CloseChannel(t), Chan(t) \notin done
  PROVE  RegistryInv'
<1> DEFINE c == Chan(t)
<1>1. In(t, "close") /\ Goto(t, "retire") /\ done' = done \cup {c} /\ UNCHANGED registry
  BY DEF CloseChannel
<1>2. /\ \A u \in Threads : u # t => call'[u] = call[u]
      /\ call'[t].op = "retire" /\ call'[t].c = c
  BY <1>1, GotoCalls, Zenon DEF Ops, Chan
<1>3. c \in Created /\ ~In(t, "retire")
  BY <1>1, Zenon DEF RegistryInv, In
<1>4. Created' = Created
  BY <1>1 DEF Created, registry
<1>5. Retiring' = Retiring \cup {c}
  <2>1. \A d \in done : d # c
    OBVIOUS
  <2>2. \A u \in Threads : u # t => In(u, "retire")' = In(u, "retire") /\ Chan(u)' = Chan(u)
    BY <1>2 DEF In, Chan
  <2>3. In(t, "retire")' /\ Chan(t)' = c
    BY <1>2 DEF In, Chan
  <2> HIDE DEF c
  <2> QED BY <1>1, <1>3, <2>1, <2>2, <2>3 DEF Retiring
<1>6. Counting' = Counting
  BY <1>1, <1>3, <1>4, <1>5 DEF Counting
<1>7. LiveExact'
  BY <1>1, <1>4, <1>6, Zenon DEF RegistryInv, LiveExact, Counting, registry
<1>8. ASSUME NEW u \in Threads
      PROVE  /\ ~In(u, "idle")' => Chan(u)' \in Created
             /\ In(u, "retire")' => Chan(u)' \in done'
             /\ In(u, "retire")' /\ Chan(u)' = c => u = t
             /\ In(u, "retire")' /\ u # t => In(u, "retire") /\ Chan(u)' = Chan(u)
  <2>1. CASE u = t
    BY <1>1, <1>2, <1>3, <2>1, Zenon DEF In, Chan
  <2>2. CASE u # t
    BY <1>1, <1>2, <2>2, Zenon DEF RegistryInv, In, Chan
  <2> QED BY <2>1, <2>2, Zenon
<1>9. Chan(t)' = c
  BY <1>2 DEF Chan
<1>10. \A u, v \in Threads : In(u, "retire")' /\ In(v, "retire")' /\ Chan(u)' = Chan(v)' => u = v
  BY <1>8, <1>9, SMTT(30) DEF RegistryInv
<1> QED BY <1>1, <1>3, <1>4, <1>7, <1>8, <1>10, Zenon DEF RegistryInv, registry

(* retireChannel counts one fewer, and evicts closed handles only.          *)
LEMMA RetireCounts ==
  ASSUME DeliveryInv, RegistryInv, NEW t \in Threads, RetireChannel(t)
  PROVE  RegistryInv'
<1> DEFINE c == Chan(t)
<1>1. /\ In(t, "retire") /\ live' = live - 1 /\ Return(t) /\ UNCHANGED <<nextID, done>>
      /\ closed' = Retained(Append(closed, c), maxRetainedChannels)
      /\ channels' = channels \ Evicted(Append(closed, c), maxRetainedChannels)
  BY DEF RetireChannel
<1>2. (\A u \in Threads : u # t => call'[u] = call[u]) /\ call'[t] = Idle
  BY <1>1, ReturnCalls
<1>3. c \in done /\ c \in Handles /\ closed \in Seq(Handles) /\ maxRetainedChannels \in Nat
  BY <1>1, ChannelAssumption DEF RegistryInv, Created
<1>4. /\ closed' \in Seq(Handles)
      /\ \A i \in 1..Len(closed') : closed'[i] \in done
      /\ \A x \in Evicted(Append(closed, c), maxRetainedChannels) : x \in done
  <2> DEFINE gone == Evicted(Append(closed, c), maxRetainedChannels)
  <2> HIDE DEF c
  <2>1. \A j \in 1..Len(closed) : closed[j] \in done
    BY DEF RegistryInv
  <2>2. /\ closed' \in Seq(Handles)
        /\ \A i \in 1..Len(closed') : closed'[i] = c \/ \E j \in 1..Len(closed) : closed'[i] = closed[j]
        /\ \A x \in gone : x = c \/ \E j \in 1..Len(closed) : x = closed[j]
    <3>1. PICK kept, out : kept = closed' /\ out = gone
      OBVIOUS
    <3>2. Trims(closed, c, maxRetainedChannels, kept, out)
      BY <1>1, <3>1 DEF Trims
    <3>3. kept \in Seq(Handles) /\ OnlyOf(closed, c, kept, out)
      BY <1>3, <3>2, RetentionEntries, Zenon
    <3> HIDE DEF gone
    <3> QED BY <3>1, <3>3 DEF OnlyOf
  <2> QED BY <1>3, <2>1, <2>2, Zenon
<1>5. Created' = Created
  BY <1>1 DEF Created
<1>6. ASSUME NEW u \in Threads
      PROVE  /\ ~In(u, "idle")' => ~In(u, "idle") /\ Chan(u)' = Chan(u)
             /\ In(u, "retire")' <=> u # t /\ In(u, "retire")
  BY <1>2 DEF In, Chan, Idle
<1>7. \A u \in Threads : In(u, "retire")' => ~In(u, "idle")'
  BY DEF In
<1>8. Retiring' = Retiring \ {c} /\ c \in Retiring
  <2>1. \A u \in Threads : In(u, "retire") /\ Chan(u) = c => u = t
    BY <1>1 DEF RegistryInv
  <2>2. Chan(t) = c
    OBVIOUS
  <2> HIDE DEF c
  <2> QED BY <1>1, <1>3, <1>6, <1>7, <2>1, <2>2 DEF Retiring
<1>9. Counting' = Counting \ {c} /\ c \in Counting
  BY <1>1, <1>3, <1>5, <1>8 DEF Counting
<1>10. Cardinality(Counting') = Cardinality(Counting) - 1
  BY <1>9, CountingFinite, FS_RemoveElement, Zenon
<1>11. LiveExact' /\ live' \in Nat
  <2>1. live' = Cardinality(Counting') /\ live' = live - 1 /\ live \in Nat
    BY <1>1, <1>10, CountingFinite
  <2>2. IsFiniteSet(Counting') /\ Cardinality(Counting') \in Nat
    BY <1>9, CountingFinite, FS_Subset, FS_CardinalityType
  <2>3. live <= maxLiveChannels /\ Created \ done \subseteq channels
    BY DEF RegistryInv, LiveExact
  <2>4. (Created \ done \subseteq channels)'
    BY <1>1, <1>4, <1>5, <2>3
  <2>5. live' <= maxLiveChannels
    BY <2>1, <2>3, ChannelAssumption
  <2> QED BY <2>1, <2>2, <2>4, <2>5 DEF LiveExact, Counting
<1> QED BY <1>1, <1>4, <1>5, <1>6, <1>7, <1>11, Zenon DEF RegistryInv

(* Every step of every thread keeps the count.                              *)
LEMMA RegistryStep ==
  ASSUME DeliveryInv, RegistryInv, [Next]_vars
  PROVE  RegistryInv'
<1>1. ASSUME NEW t \in Threads, NEW c \in Handles, NEW op \in {"sendcheck", "recv", "close"},
             NEW mode \in Modes, Begin(t, c, op, mode)
      PROVE  RegistryInv'
  <2>1. /\ call[t].op = "idle" /\ c \in Created /\ UNCHANGED <<registry, done>>
        /\ call' = [call EXCEPT ![t] = [op |-> op, c |-> c, mode |-> mode]]
    BY <1>1, Zenon DEF Begin, In, RegistryInv
  <2>2. (\A u \in Threads : u # t => call'[u] = call[u]) /\ call'[t].op = op /\ call'[t].c = c
    BY <2>1, SMTT(30) DEF DeliveryInv
  <2>3. ASSUME NEW u \in Threads
        PROVE  /\ call'[u].op = "retire" <=> call[u].op = "retire"
               /\ call[u].op = "retire" => call'[u].c = call[u].c
               /\ call'[u].op # "idle" => call'[u].c \in Created
    <3>1. CASE u = t
      <4>1. call'[u].op = op /\ call'[u].c = c /\ op # "retire" /\ call[u].op = "idle"
        BY <1>1, <2>1, <2>2, <3>1, Zenon
      <4> QED BY <2>1, <4>1, Zenon
    <3>2. CASE u # t
      <4>1. call'[u] = call[u]
        BY <2>2, <3>2, Zenon
      <4>2. call[u].op # "idle" => call[u].c \in Created
        BY Zenon DEF RegistryInv, In, Chan
      <4> QED BY <4>1, <4>2, Zenon
    <3> QED BY <3>1, <3>2, Zenon
  <2> QED BY <2>1, <2>3, QuietCalls
<1>2. ASSUME NEW t \in Threads, Return(t), ~In(t, "retire"), UNCHANGED <<registry, done>>
      PROVE  RegistryInv'
  <2>1. (\A u \in Threads : u # t => call'[u] = call[u]) /\ call'[t] = Idle
    BY <1>2, ReturnCalls, Zenon
  <2>2. ASSUME NEW u \in Threads
        PROVE  /\ call'[u].op = "retire" <=> call[u].op = "retire"
               /\ call[u].op = "retire" => call'[u].c = call[u].c
               /\ call'[u].op # "idle" => call'[u].c \in Created
    BY <1>2, <2>1 DEF RegistryInv, In, Chan, Idle
  <2> QED BY <1>2, <2>2, QuietCalls, Zenon
<1>3. ASSUME NEW t \in Threads, NEW op \in Ops \ {"retire"}, Goto(t, op), ~In(t, "retire"), ~In(t, "idle"),
             UNCHANGED <<registry, done>>
      PROVE  RegistryInv'
  <2>1. /\ \A u \in Threads : u # t => call'[u] = call[u]
        /\ call'[t].op = op /\ call'[t].c = call[t].c
    BY <1>3, GotoCalls, Zenon
  <2>2. ASSUME NEW u \in Threads
        PROVE  /\ call'[u].op = "retire" <=> call[u].op = "retire"
               /\ call[u].op = "retire" => call'[u].c = call[u].c
               /\ call'[u].op # "idle" => call'[u].c \in Created
    BY <1>3, <2>1, Zenon DEF RegistryInv, In, Chan
  <2> QED BY <1>3, <2>2, QuietCalls, Zenon
<1>4. ASSUME NEW s \in Threads, NEW r \in Threads, Handoff(s, r) PROVE RegistryInv'
  <2>1. /\ UNCHANGED <<registry, done>> /\ call' = [call EXCEPT ![s] = Idle, ![r] = Idle]
        /\ call[s].op # "retire" /\ call[r].op # "retire"
    BY <1>4 DEF Handoff, In
  <2>2. \A u \in Threads : (u \notin {s, r} => call'[u] = call[u]) /\ (u \in {s, r} => call'[u] = Idle)
    BY <2>1 DEF DeliveryInv
  <2>3. ASSUME NEW u \in Threads
        PROVE  /\ call'[u].op = "retire" <=> call[u].op = "retire"
               /\ call[u].op = "retire" => call'[u].c = call[u].c
               /\ call'[u].op # "idle" => call'[u].c \in Created
    <3>1. CASE u \in {s, r}
      <4>1. call'[u] = Idle
        BY <2>2, <3>1
      <4>2. call'[u].op = "idle"
        BY <4>1 DEF Idle
      <4>3. call[u].op # "retire"
        BY <2>1, <3>1, Zenon
      <4> QED BY <4>2, <4>3
    <3>2. CASE u \notin {s, r}
      BY <2>2, <3>2, Zenon DEF RegistryInv, In, Chan
    <3> QED BY <3>1, <3>2, Zenon
  <2> QED BY <2>1, <2>3, QuietCalls, Zenon
<1>5. ASSUME NEW t \in Threads, Step(t) PROVE RegistryInv'
  <2>1. CASE CloseChannel(t) /\ Chan(t) \notin done
    BY <2>1, CloseCounts
  <2>2. CASE RetireChannel(t)
    BY <2>2, RetireCounts
  <2>3. CASE \/ SendCheck(t) \/ SendQueues(t) \/ SendSeesClosed(t) \/ SendGivesUp(t)
             \/ RecvDrain(t) \/ RecvTakes(t) \/ RecvSeesClosed(t) \/ RecvRedrain(t) \/ RecvGivesUp(t)
             \/ (CloseChannel(t) /\ Chan(t) \in done)
    <3>1. ~In(t, "retire") /\ ~In(t, "idle") /\ UNCHANGED <<registry, done>>
      <4>1. CASE SendCheck(t) \/ SendQueues(t) \/ SendSeesClosed(t) \/ SendGivesUp(t)
        BY <4>1, Zenon DEF SendCheck, SendQueues, SendSeesClosed, SendGivesUp, In
      <4>2. CASE RecvDrain(t) \/ RecvTakes(t) \/ RecvSeesClosed(t)
        BY <4>2, Zenon DEF RecvDrain, RecvTakes, RecvSeesClosed, In
      <4>3. CASE RecvRedrain(t) \/ RecvGivesUp(t)
        BY <4>3, Zenon DEF RecvRedrain, RecvGivesUp, In
      <4>4. CASE CloseChannel(t) /\ Chan(t) \in done
        BY <4>4, Zenon DEF CloseChannel, In
      <4> QED BY <2>3, <4>1, <4>2, <4>3, <4>4
    <3>2. Return(t) \/ Goto(t, "send") \/ Goto(t, "wait") \/ Goto(t, "redrain")
      BY <2>3, Zenon DEF SendCheck, SendQueues, SendSeesClosed, SendGivesUp, RecvDrain, RecvTakes,
                  RecvSeesClosed, RecvRedrain, RecvGivesUp, CloseChannel
    <3>3. {"send", "wait", "redrain"} \subseteq Ops \ {"retire"}
      BY SMTT(30) DEF Ops
    <3> QED BY <1>2, <1>3, <3>1, <3>2, <3>3, SMTT(30)
  <2> QED BY <1>5, <2>1, <2>2, <2>3 DEF Step
<1>6. CASE UNCHANGED vars
  <2>1. UNCHANGED <<registry, done, call>>
    BY <1>6 DEF vars, registry
  <2>2. \A u \in Threads : call[u].op # "idle" => call[u].c \in Created
    BY Zenon DEF RegistryInv, In, Chan
  <2> QED BY <2>1, <2>2, QuietCalls, Zenon
<1>7. \A t \in Threads, c \in Handles : Begin(t, c, "close", "poll") => RegistryInv'
  BY <1>1 DEF Modes
<1> QED BY <1>1, <1>4, <1>5, <1>6, <1>7, NewCounts, Zenon DEF Next

(* live is exact, within the ceiling, and no open channel loses its handle, *)
(* for any number of threads and channels and any limits.                   *)
THEOREM LiveIsExact == Spec => []LiveExact
<1>1. Init => RegistryInv
  <2> SUFFICES ASSUME Init PROVE RegistryInv
    OBVIOUS
  <2>1. Created = {} /\ Retiring = {}
    BY ChannelAssumption DEF Init, Created, Retiring, Handles
  <2>2. (Created \ done) \cup Retiring = {}
    BY <2>1
  <2>3. LiveExact
    BY <2>1, <2>2, FS_EmptySet, ChannelAssumption DEF Init, LiveExact
  <2>4. \A t \in Threads : In(t, "idle") /\ ~In(t, "retire")
    BY Zenon DEF Init, In, Idle
  <2>5. closed \in Seq(Handles) /\ Len(closed) = 0 /\ nextID \in 1..(MaxHandles + 1) /\ live \in Nat
    BY ChannelAssumption DEF Init
  <2> QED BY <2>3, <2>4, <2>5 DEF Init, RegistryInv
<1>2. RegistryInv => LiveExact
  BY DEF RegistryInv
<1> QED BY <1>1, <1>2, RegistryStep, DeliveryInvariance, PTL DEF Spec

-----------------------------------------------------------------------------
(* Parallel: pmap and peach *)

USE ParallelAssumption

Busy == {w \in Workers : pc[w] \notin {"unborn", "gone"}}

(* The control part: the WaitGroup counts the workers that run, the loop    *)
(* starts them in order, and the answer comes after the last one.           *)
ControlInv ==
  /\ wg = Cardinality(Busy)
  /\ \A w \in Workers : pc[w] = "unborn" <=> w > started
  /\ answer # "none" => started = resolveWorkerCount /\ wg = 0

(* The data part: every index handed out is below next and either has its   *)
(* result, or is being worked on, or was lost to a recorded error.          *)
WorkInv ==
  /\ \A p \in taken : p[2] < next
  /\ EachElementOnce
  /\ \A i \in results : i < next
  /\ \A w \in Workers : pc[w] = "call" => <<w, index[w]>> \in taken /\ index[w] \notin results
  /\ \A i \in 0..(next - 1) :
       \/ i \in results
       \/ \E w \in Workers : pc[w] = "call" /\ index[w] = i
       \/ firstErr # NoErr
  /\ \A w \in Workers : pc[w] \in {"leaving", "gone"} => firstErr # NoErr \/ next = N

(* A worker that took an element after the error is not going for another.  *)
LateInv ==
  \A w \in Workers :
    /\ late[w] # {} => firstErr # NoErr /\ pc[w] # "take"
    /\ late[w] = {} \/ \E i \in Elements : late[w] = {i}

ParallelInv == TypeOK /\ ControlInv /\ WorkInv /\ LateInv

(* resolveWorkerCount always yields at least one worker.                    *)
LEMMA SomeWorker == resolveWorkerCount \in Nat \ {0} /\ 1 \in Workers
BY DEF resolveWorkerCount, Workers, Least

(* Sets of workers are finite and no larger than the worker count.         *)
LEMMA BusyFinite ==
  /\ IsFiniteSet(Workers)
  /\ \A S \in SUBSET Workers : IsFiniteSet(S) /\ Cardinality(S) \in Nat /\ Cardinality(S) <= resolveWorkerCount
<1>1. IsFiniteSet(Workers) /\ Cardinality(Workers) = resolveWorkerCount
  BY SomeWorker, FS_Interval DEF Workers
<1> QED BY <1>1, FS_Subset, FS_CardinalityType, SomeWorker, Zenon

(* The invariant holds when runParallel begins.                             *)
LEMMA ParallelInitInv ==
  ASSUME MapInit
  PROVE  ParallelInv
<1> USE SomeWorker
<1>1. TypeOK BY DEF MapInit, TypeOK, NoErr, Elements
<1>2. ControlInv
  <2>1. Busy = {} BY DEF MapInit, Busy
  <2> QED BY <2>1, FS_EmptySet DEF MapInit, ControlInv, Workers
<1>3. WorkInv BY DEF MapInit, WorkInv, EachElementOnce
<1>4. LateInv BY DEF MapInit, LateInv
<1> QED BY <1>1, <1>2, <1>3, <1>4 DEF ParallelInv

(* The control part moves with one worker: it enters Busy, leaves it, or    *)
(* neither.                                                                 *)
LEMMA ControlStep ==
  ASSUME ParallelInv, [MapNext]_mapVars
  PROVE  TypeOK' /\ ControlInv'
<1> USE SomeWorker
<1>0. TypeOK /\ ControlInv BY DEF ParallelInv
<1>b. /\ Busy \subseteq Workers /\ IsFiniteSet(Busy)
      /\ Busy' \subseteq Workers /\ IsFiniteSet(Busy') /\ Cardinality(Busy') \in 0..resolveWorkerCount
  BY BusyFinite DEF Busy
<1>1. CASE StartWorker
  <2>1. started + 1 \in Workers /\ pc[started + 1] = "unborn"
    BY <1>0, <1>1 DEF StartWorker, Workers, TypeOK, ControlInv
  <2>2. Busy' = Busy \cup {started + 1} /\ started + 1 \notin Busy
    BY <1>0, <1>1, <2>1 DEF StartWorker, WorkerGoto, Busy, TypeOK
  <2>3. Cardinality(Busy') = Cardinality(Busy) + 1
    BY <2>2, <1>b, FS_AddElement
  <2>4. wg' = Cardinality(Busy')
    BY <2>3, <1>0, <1>1 DEF StartWorker, ControlInv
  <2>5. TypeOK'
    BY <2>1, <2>4, <1>b, <1>0, <1>1 DEF StartWorker, WorkerGoto, TypeOK
  <2> QED BY <2>1, <2>4, <2>5, <1>0, <1>1 DEF StartWorker, WorkerGoto, ControlInv, TypeOK, Workers
<1>2. ASSUME NEW w \in Workers, SetUp(w) \/ CheckFailed(w) \/ TakeNext(w) \/ StoreResult(w) \/ RecordErr(w)
      PROVE  TypeOK' /\ ControlInv'
  <2>1. /\ pc[w] \in {"setup", "check", "take", "call"}
        /\ pc' = [pc EXCEPT ![w] = pc'[w]] /\ pc'[w] \in {"check", "take", "call", "leaving"}
        /\ UNCHANGED <<started, wg, answer>>
    BY <1>0, <1>2, Zenon DEF SetUp, CheckFailed, TakeNext, StoreResult, RecordErr, WorkerGoto, TypeOK
  <2>2. Busy' = Busy
    BY <2>1, <1>0 DEF Busy, TypeOK
  <2>3. ControlInv'
    BY <2>1, <2>2, <1>0 DEF ControlInv, TypeOK
  <2>4. pc' \in [Workers -> {"unborn", "setup", "check", "take", "call", "leaving", "gone"}]
    BY <2>1, <1>0 DEF TypeOK
  <2>5. CASE TakeNext(w)
    <3>1. CASE next >= N
      BY <2>1, <2>3, <2>4, <2>5, <3>1, <1>0, Zenon DEF TakeNext, TypeOK
    <3>2. CASE ~(next >= N)
      <4>1. next \in Elements /\ next' \in 0..N
        BY <2>5, <3>2, <1>0 DEF TakeNext, TypeOK, Elements
      <4>2. index' \in [Workers -> Elements] /\ taken' \subseteq Workers \X Elements
        BY <2>5, <3>2, <4>1, <1>0 DEF TakeNext, TypeOK
      <4>3. late' \in [Workers -> SUBSET Elements]
        BY <2>5, <3>2, <4>1, <1>0 DEF TakeNext, TypeOK
      <4> QED BY <2>1, <2>3, <2>4, <2>5, <4>1, <4>2, <4>3, <1>0, Zenon DEF TakeNext, TypeOK
    <3> QED BY <3>1, <3>2
  <2>6. CASE SetUp(w) \/ CheckFailed(w)
    BY <2>1, <2>3, <2>4, <2>6, <1>0, Zenon DEF SetUp, CheckFailed, TypeOK
  <2>7. CASE StoreResult(w)
    <3>1. results' \subseteq Elements
      BY <2>7, <1>0 DEF StoreResult, TypeOK
    <3> QED BY <2>1, <2>3, <2>4, <2>7, <3>1, <1>0, Zenon DEF StoreResult, TypeOK
  <2>8. CASE RecordErr(w)
    <3>1. firstErr' \in Workers \cup {NoErr}
      BY <2>8, <1>0, Zenon DEF RecordErr, TypeOK
    <3> QED BY <2>1, <2>3, <2>4, <2>8, <3>1, <1>0, Zenon DEF RecordErr, TypeOK
  <2> QED BY <2>3, <2>5, <2>6, <2>7, <2>8, <1>2, SMTT(30)
<1>3. ASSUME NEW w \in Workers, WorkerDone(w)
      PROVE  TypeOK' /\ ControlInv'
  <2>1. w \in Busy /\ Busy' = Busy \ {w}
    BY <1>0, <1>3, Zenon DEF WorkerDone, WorkerGoto, Busy, TypeOK
  <2>2. Cardinality(Busy') = Cardinality(Busy) - 1
    BY <2>1, <1>b, FS_RemoveElement, Zenon
  <2>3. wg' = Cardinality(Busy')
    BY <2>2, <1>0, <1>3 DEF WorkerDone, ControlInv
  <2>4. Cardinality(Busy) # 0
    BY <2>1, <1>b, FS_EmptySet
  <2>5. TypeOK'
    BY <2>3, <1>b, <1>0, <1>3, Zenon DEF WorkerDone, WorkerGoto, TypeOK
  <2> QED BY <2>3, <2>4, <2>5, <1>0, <1>3, Zenon DEF WorkerDone, WorkerGoto, ControlInv, TypeOK
<1>4. CASE MapReturn
  <2>1. Busy' = Busy
    BY <1>4 DEF MapReturn, Busy
  <2> QED BY <1>0, <1>4, <2>1, Zenon DEF MapReturn, TypeOK, ControlInv
<1>5. CASE UNCHANGED mapVars
  <2>1. Busy' = Busy
    BY <1>5 DEF mapVars, Busy
  <2> QED BY <1>0, <1>5, <2>1, Zenon DEF mapVars, TypeOK, ControlInv
<1> QED BY <1>1, <1>2, <1>3, <1>4, <1>5, Zenon DEF MapNext, Worker, Returned

(* An index is handed out once, by the worker that takes next, and leaves   *)
(* "call" with its result stored or with an error recorded.                 *)
LEMMA WorkStep ==
  ASSUME ParallelInv, [MapNext]_mapVars
  PROVE  WorkInv' /\ LateInv'
<1> USE SomeWorker
<1>0. TypeOK /\ ControlInv /\ WorkInv /\ LateInv BY DEF ParallelInv
<1>1. ASSUME NEW w \in Workers, pc[w] # "call",
             pc' = [pc EXCEPT ![w] = pc'[w]],
             \/ pc'[w] \in {"setup", "check"}
             \/ pc'[w] = "take" /\ firstErr = NoErr
             \/ pc'[w] \in {"leaving", "gone"} /\ (firstErr # NoErr \/ next = N),
             UNCHANGED <<next, firstErr, results, index, taken, late>>
      PROVE  WorkInv' /\ LateInv'
  <2>1. \A v \in Workers : v # w => pc'[v] = pc[v]
    BY <1>0, <1>1, Zenon DEF TypeOK
  <2>2. WorkInv'
    BY <1>0, <1>1, <2>1, ZenonT(40) DEF WorkInv, EachElementOnce
  <2>3. LateInv'
    BY <1>0, <1>1, <2>1, Zenon DEF LateInv
  <2> QED BY <2>2, <2>3
<1>2. CASE StartWorker
  <2>1. started + 1 \in Workers /\ pc[started + 1] = "unborn"
    BY <1>0, <1>2 DEF StartWorker, Workers, TypeOK, ControlInv
  <2> QED BY <2>1, <1>0, <1>1, <1>2, Zenon DEF StartWorker, WorkerGoto, TypeOK
<1>3. ASSUME NEW w \in Workers, SetUp(w) \/ CheckFailed(w) \/ WorkerDone(w)
      PROVE  WorkInv' /\ LateInv'
  <2>1. pc[w] # "call" /\ pc' = [pc EXCEPT ![w] = pc'[w]]
        /\ UNCHANGED <<next, firstErr, results, index, taken, late>>
    BY <1>0, <1>3, Zenon DEF SetUp, CheckFailed, WorkerDone, WorkerGoto, TypeOK
  <2>2. \/ pc'[w] \in {"setup", "check"}
        \/ pc'[w] = "take" /\ firstErr = NoErr
        \/ pc'[w] \in {"leaving", "gone"} /\ (firstErr # NoErr \/ next = N)
    BY <1>0, <1>3, ZenonT(40) DEF SetUp, CheckFailed, WorkerDone, WorkerGoto, TypeOK, WorkInv
  <2> QED BY <2>1, <2>2, <1>1, Zenon
<1>4. ASSUME NEW w \in Workers, TakeNext(w)
      PROVE  WorkInv' /\ LateInv'
  <2>1. CASE next >= N
    <3>1. next = N
      BY <2>1, <1>0 DEF TypeOK
    <3> QED BY <2>1, <3>1, <1>0, <1>1, <1>4, Zenon DEF TakeNext, WorkerGoto, TypeOK
  <2>2. CASE ~(next >= N)
    <3>1. /\ next \in Elements /\ next' = next + 1 /\ taken' = taken \cup {<<w, next>>}
          /\ index'[w] = next /\ pc'[w] = "call" /\ pc[w] = "take"
          /\ UNCHANGED <<firstErr, results>>
      BY <2>2, <1>0, <1>4 DEF TakeNext, WorkerGoto, TypeOK, Elements
    <3>2. \A v \in Workers : v # w => pc'[v] = pc[v] /\ index'[v] = index[v] /\ late'[v] = late[v]
      BY <2>2, <1>0, <1>4, Zenon DEF TakeNext, WorkerGoto, TypeOK
    <3>3. late[w] = {} /\ (late'[w] = {} \/ (late'[w] = {next} /\ firstErr # NoErr))
      <4>1. late[w] = {}
        BY <3>1, <1>0, Zenon DEF LateInv
      <4>2. late' = late \/ (firstErr # NoErr /\ late' = [late EXCEPT ![w] = late[w] \cup {next}])
        BY <2>2, <1>4, Zenon DEF TakeNext
      <4>3. CASE firstErr # NoErr /\ late' = [late EXCEPT ![w] = late[w] \cup {next}]
        <5>1. late'[w] = late[w] \cup {next}
          BY <4>3, <1>0, Zenon DEF TypeOK
        <5>2. {} \cup {next} = {next}
          OBVIOUS
        <5> QED BY <4>1, <4>3, <5>1, <5>2
      <4>4. CASE late' = late
        BY <4>1, <4>4, Zenon
      <4> QED BY <4>1, <4>2, <4>3, <4>4, Zenon
    <3>4. LateInv'
      BY <3>1, <3>2, <3>3, <1>0 DEF LateInv
    <3>5. \A p \in taken : p[2] # next /\ p[2] \in Int
      BY <1>0 DEF WorkInv, TypeOK, Elements
    <3>6. EachElementOnce'
      BY <3>1, <3>5, <1>0 DEF WorkInv, EachElementOnce
    <3>7. /\ \A p \in taken' : p[2] < next'
          /\ \A i \in results' : i < next'
      BY <3>1, <3>5, <1>0 DEF WorkInv, TypeOK, Elements
    <3>8. next \notin results
      BY <1>0 DEF WorkInv, TypeOK, Elements
    <3>9. \A v \in Workers : pc'[v] = "call" => <<v, index'[v]>> \in taken' /\ index'[v] \notin results'
      BY <3>1, <3>2, <3>8, <1>0, Zenon DEF WorkInv
    <3>10. ASSUME NEW i \in 0..(next' - 1)
           PROVE  \/ i \in results'
                  \/ \E v \in Workers : pc'[v] = "call" /\ index'[v] = i
                  \/ firstErr' # NoErr
      <4>1. CASE i = next
        BY <4>1, <3>1
      <4>2. CASE i # next
        <5>1. i \in 0..(next - 1)
          BY <4>2, <3>1, <3>10 DEF Elements
        <5>2. CASE \E v \in Workers : pc[v] = "call" /\ index[v] = i
          <6>1. PICK v \in Workers : pc[v] = "call" /\ index[v] = i
            BY <5>2, SMTT(30)
          <6> QED BY <6>1, <3>1, <3>2, Zenon
        <5> QED BY <5>1, <5>2, <3>1, <1>0, Zenon DEF WorkInv
      <4> QED BY <4>1, <4>2
    <3>11. \A v \in Workers : pc'[v] \in {"leaving", "gone"} => firstErr' # NoErr \/ next' = N
      BY <3>1, <3>2, <2>2, <1>0, SMTT(30) DEF WorkInv, Elements
    <3> QED BY <3>4, <3>6, <3>7, <3>9, <3>10, <3>11, Zenon DEF WorkInv
  <2> QED BY <2>1, <2>2
<1>5. ASSUME NEW w \in Workers, StoreResult(w)
      PROVE  WorkInv' /\ LateInv'
  <2>1. /\ pc[w] = "call" /\ pc'[w] = "check" /\ \A v \in Workers : v # w => pc'[v] = pc[v]
        /\ results' = results \cup {index[w]}
        /\ UNCHANGED <<next, firstErr, index, taken, late>>
    BY <1>0, <1>5, Zenon DEF StoreResult, WorkerGoto, TypeOK
  <2>2. <<w, index[w]>> \in taken /\ index[w] < next
    BY <2>1, <1>0, Zenon DEF WorkInv
  <2>3. \A v \in Workers : v # w /\ pc[v] = "call" => index[v] # index[w]
    BY <2>2, <1>0, Zenon DEF WorkInv, EachElementOnce
  <2>4. WorkInv'
    BY <2>1, <2>2, <2>3, <1>0, Zenon DEF WorkInv, EachElementOnce
  <2> QED BY <2>1, <2>4, <1>0, Zenon DEF LateInv
<1>6. ASSUME NEW w \in Workers, RecordErr(w)
      PROVE  WorkInv' /\ LateInv'
  <2>1. /\ pc'[w] = "leaving" /\ \A v \in Workers : v # w => pc'[v] = pc[v]
        /\ firstErr' # NoErr
        /\ UNCHANGED <<next, results, index, taken, late>>
    BY <1>0, <1>6, SMTT(30) DEF RecordErr, WorkerGoto, TypeOK, Workers, NoErr
  <2> QED BY <2>1, <1>0, Zenon DEF WorkInv, EachElementOnce, LateInv
<1>7. CASE MapReturn \/ UNCHANGED mapVars
  BY <1>0, <1>7, ZenonT(40) DEF MapReturn, mapVars, WorkInv, EachElementOnce, LateInv
<1> QED BY <1>2, <1>3, <1>4, <1>5, <1>6, <1>7, Zenon DEF MapNext, Worker, Returned

(* ParallelInv is an invariant of runParallel.                              *)
THEOREM ParallelInvariance == MapSpec => []ParallelInv
<1>1. ParallelInv /\ [MapNext]_mapVars => ParallelInv'
  BY ControlStep, WorkStep DEF ParallelInv
<1> QED BY ParallelInitInv, <1>1, PTL DEF MapSpec

(* Once the call has answered, every worker goroutine is gone.              *)
LEMMA AllGone ==
  ASSUME ParallelInv, started = resolveWorkerCount, wg = 0
  PROVE  \A w \in Workers : pc[w] = "gone"
<1>1. Busy = {}
  <2>1. IsFiniteSet(Busy) /\ Cardinality(Busy) = 0
    BY BusyFinite, Zenon DEF Busy, ParallelInv, ControlInv
  <2> QED BY <2>1, FS_EmptySet
<1>2. \A w \in Workers : pc[w] # "unborn"
  BY SomeWorker DEF ParallelInv, ControlInv, Workers
<1> QED BY <1>1, <1>2 DEF Busy

(* pmap and peach leave no worker behind when they return.                  *)
THEOREM NoStragglers == MapSpec => []NoWorkerOutlives
<1>1. ParallelInv => NoWorkerOutlives
  BY AllGone, Zenon DEF NoWorkerOutlives, ParallelInv, ControlInv
<1> QED BY <1>1, ParallelInvariance, PTL

(* No element is given to two workers, whatever their number.               *)
THEOREM ElementsOnce == MapSpec => []EachElementOnce
<1>1. ParallelInv => EachElementOnce
  BY DEF ParallelInv, WorkInv
<1> QED BY <1>1, ParallelInvariance, PTL

(* After an error each worker takes at most one more element.               *)
THEOREM EarlyStop == MapSpec => []FailureStopsWork
<1>1. ParallelInv => FailureStopsWork
  <2> SUFFICES ASSUME ParallelInv, NEW w \in Workers PROVE Cardinality(late[w]) <= 1
    BY Zenon DEF FailureStopsWork, Cardinality, Cardinality
  <2>1. late[w] = {} \/ \E i \in Elements : late[w] = {i}
    BY DEF ParallelInv, LateInv
  <2>2. CASE late[w] = {}
    BY <2>2, FS_EmptySet
  <2>3. CASE \E i \in Elements : late[w] = {i}
    <3>1. PICK i \in Elements : late[w] = {i}
      BY <2>3
    <3>2. Cardinality({i}) = 1
      BY FS_Singleton, Zenon
    <3> QED BY <3>1, <3>2
  <2> QED BY <2>1, <2>2, <2>3, Zenon
<1> QED BY <1>1, ParallelInvariance, PTL

(* Every step of runParallel is a step of the promise or changes nothing    *)
(* the promise can see.                                                     *)
LEMMA PromiseStep ==
  ASSUME ParallelInv, [MapNext]_mapVars
  PROVE  [Promise!PromiseNext]_(Promise!promiseVars)
<1> USE DEF Promise!promiseVars, Promise!PromiseNext
<1>0. TypeOK /\ ControlInv /\ WorkInv BY DEF ParallelInv
<1>a. ASSUME NEW w \in Workers, pc[w] # "gone" PROVE answer = "none"
  BY <1>a, AllGone DEF ParallelInv, ControlInv
<1>1. ASSUME UNCHANGED <<results, firstErr, answer>>
      PROVE  [Promise!PromiseNext]_(Promise!promiseVars)
  BY <1>1
<1>2. ASSUME NEW w \in Workers, StoreResult(w)
      PROVE  Promise!PromiseNext
  <2>1. index[w] \in Promise!Elements /\ index[w] \notin results /\ answer = "none"
    BY <1>0, <1>2, <1>a, Zenon DEF StoreResult, WorkInv, TypeOK, Elements, Promise!Elements
  <2>2. Promise!Apply(index[w])
    BY <2>1, <1>2, Zenon DEF StoreResult, Promise!Apply
  <2> QED BY <2>1, <2>2
<1>3. ASSUME NEW w \in Workers, RecordErr(w)
      PROVE  Promise!PromiseNext
  <2>1. pc[w] # "gone" /\ w # NoErr
    BY <1>3 DEF RecordErr, Workers, NoErr
  <2>2. answer = "none" /\ firstErr' # NoErr
    BY <2>1, <1>3, <1>a DEF RecordErr
  <2>3. Promise!Fail
    BY <2>2, <1>3 DEF RecordErr, Promise!Fail
  <2> QED BY <2>3
<1>4. CASE MapReturn
  <2>1. CASE firstErr # NoErr
    <3>1. Promise!AnswerError
      BY <1>4, <2>1, Zenon DEF MapReturn, Promise!AnswerError
    <3> QED BY <3>1
  <2>2. CASE firstErr = NoErr
    <3>1. \A w \in Workers : pc[w] = "gone"
      BY <1>4, AllGone DEF MapReturn
    <3>2. next = N
      BY <3>1, <2>2, <1>0, SomeWorker, Zenon DEF WorkInv
    <3>3. results = Promise!Elements
      <4>1. \A i \in 0..(N - 1) : i \in results
        BY <3>1, <3>2, <2>2, <1>0, Zenon DEF WorkInv
      <4> QED BY <4>1, <1>0, Zenon DEF TypeOK, Elements, Promise!Elements
    <3>4. Promise!AnswerResults
      BY <1>4, <2>2, <3>3, Zenon DEF MapReturn, Promise!AnswerResults
    <3> QED BY <3>4
  <2> QED BY <2>1, <2>2
<1>5. CASE StartWorker \/ (\E w \in Workers : SetUp(w) \/ CheckFailed(w) \/ TakeNext(w) \/ WorkerDone(w))
  BY <1>5, <1>1, Zenon DEF StartWorker, SetUp, CheckFailed, TakeNext, WorkerDone
<1>6. CASE UNCHANGED mapVars
  BY <1>6, <1>1, Zenon DEF mapVars
<1> QED BY <1>2, <1>3, <1>4, <1>5, <1>6, Zenon DEF MapNext, Worker, Returned

(* runParallel implements MapPromise: the caller gets results only when     *)
(* every element has one, an error only after a failure, and nothing is     *)
(* applied after the answer.                                                *)
THEOREM PromiseKept == MapSpec => KeepsPromise
<1>1. MapInit => Promise!PromiseInit
  BY DEF MapInit, Promise!PromiseInit
<1> QED BY <1>1, PromiseStep, ParallelInvariance, PTL DEF MapSpec, KeepsPromise, Promise!PromiseSpec

=============================================================================

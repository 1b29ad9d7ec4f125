------------------------------ MODULE Channels ------------------------------
(***************************************************************************)
(* Channels between concurrently running Mutant code: the handle registry  *)
(* and the chan_* builtins of builtin/channels.go.                         *)
(*                                                                         *)
(* A managedChannel is a Go channel that is never closed itself, with a    *)
(* second channel, done, closed by the first chan_close.  Each builtin is  *)
(* a sequence of steps of its thread: the registry lookup, then one step   *)
(* per select statement.  Where a select has several ready cases Go picks  *)
(* one at random, so every ready case is an action of its own.  A call     *)
(* refused before it touches anything (an unknown handle, the ceiling on   *)
(* open channels) changes no state and is a stuttering step.               *)
(***************************************************************************)
EXTENDS Integers, Sequences, FiniteSets, Retention

CONSTANTS
  Threads,              (* goroutines running Mutant code                   *)
  maxLiveChannels,      (* ceiling on open channels (1024 in the code)      *)
  maxRetainedChannels,  (* closed handles kept (4096 in the code)           *)
  Capacities,           (* the buffer sizes asked for, channel by channel   *)
  MaxHandles            (* model bound: channels a run may ever create      *)

ASSUME ChannelAssumption ==
  /\ maxLiveChannels \in Nat \ {0}
  /\ maxRetainedChannels \in Nat \ {0}
  /\ MaxHandles \in Nat
  /\ Capacities \in [1..MaxHandles -> SUBSET Nat]

Handles == 1..MaxHandles

VARIABLES
  channels,   (* keys of channelRegistry.channels                           *)
  nextID,     (* channelRegistry.nextID                                     *)
  live,       (* channelRegistry.live                                       *)
  closed,     (* channelRegistry.closed, oldest first                       *)
  cap,        (* capacity of each channel                                   *)
  buf,        (* what each channel has queued, see Entry                    *)
  done,       (* handles whose done channel is closed                       *)
  call,       (* the builtin call each thread is inside                     *)
  toldClosed  (* history: channels some receive reported closed=true for    *)

registry == <<channels, nextID, live, closed, cap>>
vars == <<channels, nextID, live, closed, cap, buf, done, call, toldClosed>>

(* No builtin looks at a value, so of a queued value only one thing is      *)
(* kept: whether it was accepted before the channel was closed or after.    *)
Entries == {"early", "late"}
Entry(c) == IF c \in done THEN "late" ELSE "early"

(* "forever" is a negative or absent timeout, "timed" a positive one and    *)
(* "poll" is zero.                                                          *)
Modes == {"forever", "timed", "poll"}
Idle  == [op |-> "idle", c |-> 0, mode |-> "poll"]
Ops   == {"idle", "sendcheck", "send", "recv", "wait", "redrain", "close", "retire"}

In(t, op) == call[t].op = op
Chan(t)   == call[t].c
Blocking(t) == call[t].mode # "poll"

Return(t)   == call' = [call EXCEPT ![t] = Idle]
Goto(t, op) == call' = [call EXCEPT ![t].op = op]

Init ==
  /\ channels = {} /\ nextID = 1 /\ live = 0 /\ closed = << >>
  /\ cap = [c \in Handles |-> 0]
  /\ buf = [c \in Handles |-> << >>]
  /\ done = {}
  /\ call = [t \in Threads |-> Idle]
  /\ toldClosed = {}

-----------------------------------------------------------------------------
(* chan_new; the channel is invisible until registerChannel gives it out.   *)
ChanNew(t, capacity) ==
  /\ In(t, "idle")
  /\ live < maxLiveChannels
  /\ nextID <= MaxHandles
  /\ nextID' = nextID + 1
  /\ live' = live + 1
  /\ channels' = channels \cup {nextID}
  /\ cap' = [cap EXCEPT ![nextID] = capacity]
  /\ UNCHANGED <<closed, buf, done, call, toldClosed>>

(* channelArg: the call gets hold of the managedChannel, and keeps it even  *)
(* if the handle is evicted before it is done.                              *)
Begin(t, c, op, mode) ==
  /\ In(t, "idle")
  /\ c \in channels
  /\ call' = [call EXCEPT ![t] = [op |-> op, c |-> c, mode |-> mode]]
  /\ UNCHANGED <<registry, buf, done, toldClosed>>

-----------------------------------------------------------------------------
(* chan_send *)

(* An already closed channel is reported before waiting.                    *)
SendCheck(t) ==
  /\ In(t, "sendcheck")
  /\ IF Chan(t) \in done THEN Return(t) ELSE Goto(t, "send")
  /\ UNCHANGED <<registry, buf, done, toldClosed>>

HasRoom(c) == Len(buf[c]) < cap[c]

(* case mc.ch <- args[1] on a channel with room: sent = true.               *)
SendQueues(t) ==
  /\ In(t, "send")
  /\ HasRoom(Chan(t))
  /\ buf' = [buf EXCEPT ![Chan(t)] = Append(@, Entry(Chan(t)))]
  /\ Return(t)
  /\ UNCHANGED <<registry, done, toldClosed>>

(* case <-mc.done: the send fails with "channel is closed".                 *)
SendSeesClosed(t) ==
  /\ In(t, "send")
  /\ Chan(t) \in done
  /\ Return(t)
  /\ UNCHANGED <<registry, buf, done, toldClosed>>

(* sent = false: the timer fired, or nothing was ready for a zero timeout.  *)
SendGivesUp(t) ==
  /\ In(t, "send")
  /\ \/ call[t].mode = "timed"
     \/ call[t].mode = "poll" /\ ~HasRoom(Chan(t)) /\ Chan(t) \notin done
  /\ Return(t)
  /\ UNCHANGED <<registry, buf, done, toldClosed>>

-----------------------------------------------------------------------------
(* chan_recv, and chan_try_recv, which is chan_recv with a zero timeout.    *)

Take(c) == buf' = [buf EXCEPT ![c] = Tail(@)]

(* The first drain(): a queued value outranks a closed channel.             *)
RecvDrain(t) ==
  /\ In(t, "recv")
  /\ IF buf[Chan(t)] # << >>
     THEN Take(Chan(t)) /\ Return(t)
     ELSE Goto(t, "wait") /\ UNCHANGED buf
  /\ UNCHANGED <<registry, done, toldClosed>>

(* case v := <-mc.ch, which the select of a zero timeout does not have.     *)
RecvTakes(t) ==
  /\ In(t, "wait")
  /\ Blocking(t)
  /\ buf[Chan(t)] # << >>
  /\ Take(Chan(t))
  /\ Return(t)
  /\ UNCHANGED <<registry, done, toldClosed>>

(* Faulty variants of an operation carry its name and a suffix.  No         *)
(* specification uses them: they show that the properties can fail.         *)

(* The case <-mc.done answers closed=true without the second look.          *)
RecvSeesClosed_NoRedrain(t) ==
  /\ In(t, "wait")
  /\ Chan(t) \in done
  /\ Return(t)
  /\ toldClosed' = toldClosed \cup {Chan(t)}
  /\ UNCHANGED <<registry, buf, done>>

(* Only the select with a timer has a case <-mc.done.                       *)
RecvSeesClosed_TimedOnly(t) ==
  /\ In(t, "wait")
  /\ Chan(t) \in done
  /\ call[t].mode = "timed"
  /\ Goto(t, "redrain")
  /\ UNCHANGED <<registry, buf, done, toldClosed>>

(* case <-mc.done: the buffer is looked at once more.                       *)
RecvSeesClosed(t) ==
  /\ In(t, "wait")
  /\ Chan(t) \in done
  /\ Goto(t, "redrain")
  /\ UNCHANGED <<registry, buf, done, toldClosed>>

RecvRedrain(t) ==
  /\ In(t, "redrain")
  /\ Return(t)
  /\ IF buf[Chan(t)] # << >>
     THEN Take(Chan(t)) /\ UNCHANGED toldClosed
     ELSE toldClosed' = toldClosed \cup {Chan(t)} /\ UNCHANGED buf
  /\ UNCHANGED <<registry, done>>

(* The timer fired, or done was still open for a zero timeout.              *)
RecvGivesUp(t) ==
  /\ In(t, "wait")
  /\ \/ call[t].mode = "timed"
     \/ call[t].mode = "poll" /\ Chan(t) \notin done
  /\ Return(t)
  /\ UNCHANGED <<registry, buf, done, toldClosed>>

(* On an unbuffered channel the value goes from sender to receiver in one   *)
(* step.  One of the two must be parked in its select; a drain() never is.  *)
Handoff(s, r) ==
  /\ In(s, "send")
  /\ Chan(r) = Chan(s)
  /\ cap[Chan(s)] = 0
  /\ \/ In(r, "wait") /\ Blocking(r)
     \/ call[r].op \in {"recv", "redrain"} /\ Blocking(s)
  /\ call' = [call EXCEPT ![s] = Idle, ![r] = Idle]
  /\ UNCHANGED <<registry, buf, done, toldClosed>>

-----------------------------------------------------------------------------
(* chan_close *)

(* Without the sync.Once: every closer goes on to retire the channel.       *)
CloseChannel_NoOnce(t) ==
  /\ In(t, "close")
  /\ Goto(t, "retire") /\ done' = done \cup {Chan(t)}
  /\ UNCHANGED <<registry, buf, toldClosed>>

(* closeChannel: only the first caller closes done and goes on to retire.   *)
CloseChannel(t) ==
  /\ In(t, "close")
  /\ IF Chan(t) \in done
     THEN Return(t) /\ UNCHANGED done
     ELSE Goto(t, "retire") /\ done' = done \cup {Chan(t)}
  /\ UNCHANGED <<registry, buf, toldClosed>>

RetireChannel(t) ==
  /\ In(t, "retire")
  /\ live' = live - 1
  /\ closed' = Retained(Append(closed, Chan(t)), maxRetainedChannels)
  /\ channels' = channels \ Evicted(Append(closed, Chan(t)), maxRetainedChannels)
  /\ Return(t)
  /\ UNCHANGED <<nextID, cap, buf, done, toldClosed>>

-----------------------------------------------------------------------------
Step(t) ==
  \/ SendCheck(t) \/ SendQueues(t) \/ SendSeesClosed(t) \/ SendGivesUp(t)
  \/ RecvDrain(t) \/ RecvTakes(t) \/ RecvSeesClosed(t) \/ RecvRedrain(t) \/ RecvGivesUp(t)
  \/ CloseChannel(t) \/ RetireChannel(t)

Next ==
  \/ \E t \in Threads, c \in Handles : \E capacity \in Capacities[c] : c = nextID /\ ChanNew(t, capacity)
  \/ \E t \in Threads, c \in Handles, mode \in Modes : Begin(t, c, "sendcheck", mode)
  \/ \E t \in Threads, c \in Handles, mode \in Modes : Begin(t, c, "recv", mode)
  \/ \E t \in Threads, c \in Handles : Begin(t, c, "close", "poll")
  \/ \E t \in Threads : Step(t)
  \/ \E s, r \in Threads : Handoff(s, r)

Spec == Init /\ [][Next]_vars

(* A goroutine with something ready is eventually scheduled.                *)
FairSpec == Spec /\ \A t \in Threads : WF_vars(Step(t))

-----------------------------------------------------------------------------
(* Properties *)

Created     == {c \in Handles : c < nextID}
Retiring    == {c \in done : \E t \in Threads : In(t, "retire") /\ Chan(t) = c}

(* live counts the channels that are open or whose closer has yet to retire *)
(* them, however many callers race to close: each is retired exactly once.  *)
(* And an open channel keeps its handle: eviction drops closed ones only.   *)
LiveExact ==
  /\ live = Cardinality((Created \ done) \cup Retiring)
  /\ live <= maxLiveChannels
  /\ Created \ done \subseteq channels

(* A receive that reports closed=true has left nothing behind that was sent *)
(* before the close, and nothing of that kind can appear later: closing     *)
(* never discards what was already sent.                                    *)
ClosedAfterEarly ==
  \A c \in toldClosed : \A i \in 1..Len(buf[c]) : buf[c][i] # "early"

(* chan_close wakes every waiting sender and receiver: no call on a closed  *)
(* channel stays inside for ever.                                           *)
CloseWakesAll ==
  \A t \in Threads, c \in Handles :
    (c \in done /\ Chan(t) = c) ~> ~(c \in done /\ Chan(t) = c)

(* The comment at ChanRecv: "a receive loop drains a closed channel before  *)
(* it ever sees closed=true", so closed=true is the end of the channel.     *)
ClosedIsLast == \A c \in toldClosed : buf[c] = << >>
=============================================================================

------------------------------ MODULE Stepping ------------------------------
(***************************************************************************)
(* Breakpoints and stepping in vm/debugger.go: the hook that the executor  *)
(* runs before every instruction, and what decides whether it stops there. *)
(* The program is a set of instruction streams, each instruction given by  *)
(* the line it came from; what an instruction does (fall through, jump,    *)
(* call, return, run a callback from a builtin) is left open.  The         *)
(* handshake between the parked executor and its consumer is the subject   *)
(* of DebugSession; here a parked program simply gets a command.           *)
(***************************************************************************)
EXTENDS Integers, Sequences, FiniteSetsExt

CONSTANTS
  Code,          (* Code[f][i] is the line of instruction i of f, 0 if none *)
  Main,          (* frame 0's function                                      *)
  FileOf,        (* FileOf[l] is the module that owns line l of the blob    *)
  Asks,          (* the setBreakpoints requests of the client: records with *)
                 (* a file and a sequence of [line, skip] pairs             *)
  StopOnEntry,
  maxCallDepth,
  MaxHits        (* hit counters stop here; above every skip in Asks        *)

Fns      == DOMAIN Code
Lines    == DOMAIN FileOf
Files    == {FileOf[l] : l \in Lines}
Commands == {"continue", "next", "stepIn", "stepOut"}

ASSUME SteppingAssumption ==
  /\ Main \in Fns
  /\ \A f \in Fns : Code[f] \in Seq(Lines \cup {0}) /\ Code[f] # << >>
  /\ StopOnEntry \in BOOLEAN /\ maxCallDepth \in Nat \ {0} /\ MaxHits \in Nat
  /\ \A a \in Asks : a.specs \in Seq([line : Lines, skip : 0..(MaxHits - 1)])

VARIABLES
  frames,          (* the call stack: fn, ip, and whether a builtin called  *)
  phase,           (* "hook", "parked", "exec" or "over"                    *)
  reason,          (* why the program is parked                             *)
  mode, baseDepth, baseFn, baseLine,   (* the step in progress              *)
  entryDone, pauseRequested,
  byFile,          (* the breakpoints of each file, as reported             *)
  armed,           (* the table the hook consults: which of its file's      *)
                   (* breakpoints a line has in it, 0 for none              *)
  hits,            (* the counter of each of them                           *)
  arrivals,        (* history: how often execution came to each of them     *)
  homeAlive        (* history: the frame the step began in has not returned *)

stepping == <<mode, baseDepth, baseFn, baseLine>>
breaks   == <<byFile, armed, hits, arrivals>>
vars == <<frames, phase, reason, stepping, entryDone, pauseRequested, breaks, homeAlive>>

Frame(f, native) == [fn |-> f, ip |-> 1, native |-> native]
Top        == frames[Len(frames)]
positionOf == Code[Top.fn][Top.ip]

Init ==
  /\ frames = <<Frame(Main, FALSE)>> /\ phase = "hook" /\ reason = "none"
  /\ mode = "continue" /\ baseDepth = 0 /\ baseFn = Main /\ baseLine = 0
  /\ entryDone = FALSE /\ pauseRequested = FALSE
  /\ byFile = [f \in Files |-> << >>] /\ armed = [l \in Lines |-> 0]
  /\ hits = [f \in Files |-> << >>] /\ arrivals = [f \in Files |-> << >>]
  /\ homeAlive = TRUE

-----------------------------------------------------------------------------
(* Breakpoints *)

codeLines == {l \in Lines : \E f \in Fns : \E i \in 1..Len(Code[f]) : Code[f][i] = l}

(* A line's site in a stream is the first instruction that came from it.    *)
IsSite(f, i) == Code[f][i] # 0 /\ \A j \in 1..(i - 1) : Code[f][j] # Code[f][i]

(* A requested line binds forward to the next line with code, unless that   *)
(* line belongs to another file.                                            *)
resolve(spec) ==
  LET ahead == {l \in codeLines : l >= spec.line}
      ok    == ahead # {} /\ FileOf[Min(ahead)] = FileOf[spec.line]
  IN  [line |-> spec.line, skip |-> spec.skip, verified |-> ok,
       bound |-> IF ok THEN Min(ahead) ELSE 0]

(* The places in its file's list of the breakpoints bound to line l, and    *)
(* the last of them, which is the one the table keeps.                      *)
BoundTo(lists, l) == {i \in DOMAIN lists[FileOf[l]] : LET b == lists[FileOf[l]][i] IN b.verified /\ b.bound = l}
LastBound(lists, l) == Max({0} \cup BoundTo(lists, l))

(* Faulty variants of an operation carry its name and a suffix.  No         *)
(* specification uses them: they show that the properties can fail.         *)

(* The table is filled from the list that was asked for alone.              *)
SetBreakpoints_OneFile(ask) ==
  /\ phase # "over"
  /\ byFile' = [byFile EXCEPT ![ask.file] = [i \in DOMAIN ask.specs |-> resolve(ask.specs[i])]]
  /\ armed' = [l \in Lines |-> IF FileOf[l] = ask.file THEN LastBound(byFile', l) ELSE 0]
  /\ hits' = [hits EXCEPT ![ask.file] = [i \in DOMAIN ask.specs |-> 0]]
  /\ arrivals' = [arrivals EXCEPT ![ask.file] = [i \in DOMAIN ask.specs |-> 0]]
  /\ UNCHANGED <<frames, phase, reason, stepping, entryDone, pauseRequested, homeAlive>>

(* SetBreakpoints replaces one file's list, keeps the others, and fills the *)
(* table anew from all of them.                                             *)
SetBreakpoints(ask) ==
  /\ phase # "over"
  /\ byFile' = [byFile EXCEPT ![ask.file] = [i \in DOMAIN ask.specs |-> resolve(ask.specs[i])]]
  /\ armed' = [l \in Lines |-> LastBound(byFile', l)]
  /\ hits' = [hits EXCEPT ![ask.file] = [i \in DOMAIN ask.specs |-> 0]]
  /\ arrivals' = [arrivals EXCEPT ![ask.file] = [i \in DOMAIN ask.specs |-> 0]]
  /\ UNCHANGED <<frames, phase, reason, stepping, entryDone, pauseRequested, homeAlive>>

Counted(counter, file, S) ==
  [counter EXCEPT ![file] = [i \in DOMAIN @ |-> IF i \in S /\ @[i] < MaxHits THEN @[i] + 1 ELSE @[i]]]

-----------------------------------------------------------------------------
(* The hook *)

Halt(why) == phase' = "parked" /\ reason' = why
Pass      == phase' = "exec" /\ UNCHANGED reason

(* Step-over also stops in the calls the line makes.                        *)
stepIsDone_IntoCalls ==
  /\ positionOf > 0
  /\ \/ Len(frames) < baseDepth
     \/ mode \in {"next", "stepIn"} /\ (Len(frames) # baseDepth \/ Top.fn # baseFn \/ positionOf # baseLine)

(* Whether the step in progress has arrived somewhere worth showing.        *)
stepIsDone ==
  /\ positionOf > 0
  /\ \/ Len(frames) < baseDepth
     \/ /\ mode = "next"
        /\ Len(frames) = baseDepth
        /\ Top.fn # baseFn \/ positionOf # baseLine
     \/ /\ mode = "stepIn"
        /\ Len(frames) # baseDepth \/ Top.fn # baseFn \/ positionOf # baseLine

StepTest == IF mode # "continue" /\ stepIsDone THEN Halt("step") ELSE Pass

AtSite == IsSite(Top.fn, Top.ip) /\ armed[positionOf] # 0

(* A breakpoint stops on the arrival it was asked to skip last.             *)
BreakTest_OneEarly ==
  IF ~AtSite THEN StepTest /\ UNCHANGED hits
  ELSE LET file == FileOf[positionOf]
           b    == armed[positionOf]
       IN  /\ hits' = Counted(hits, file, {b})
           /\ IF hits'[file][b] >= byFile[file][b].skip THEN Halt("breakpoint") ELSE StepTest

(* The armed breakpoint counts the arrival and stops once past its skips.   *)
BreakTest ==
  IF ~AtSite THEN StepTest /\ UNCHANGED hits
  ELSE LET file == FileOf[positionOf]
           b    == armed[positionOf]
       IN  /\ hits' = Counted(hits, file, {b})
           /\ IF hits'[file][b] > byFile[file][b].skip THEN Halt("breakpoint") ELSE StepTest

(* step(): entry, then a requested pause, then a breakpoint, then the step. *)
Hook ==
  /\ phase = "hook"
  /\ entryDone' = TRUE
  /\ \/ /\ StopOnEntry /\ ~entryDone
        /\ Halt("entry") /\ UNCHANGED <<pauseRequested, hits>>
     \/ /\ ~(StopOnEntry /\ ~entryDone) /\ pauseRequested
        /\ pauseRequested' = FALSE
        /\ Halt("pause") /\ UNCHANGED hits
     \/ /\ ~(StopOnEntry /\ ~entryDone) /\ ~pauseRequested
        /\ BreakTest /\ UNCHANGED pauseRequested
  /\ arrivals' = IF AtSite THEN Counted(arrivals, FileOf[positionOf], {armed[positionOf]}) ELSE arrivals
  /\ UNCHANGED <<frames, stepping, byFile, armed, homeAlive>>

(* The end of halt(): the step just asked for is measured from here.        *)
Resume(cmd) ==
  /\ phase = "parked"
  /\ phase' = "exec" /\ reason' = "none"
  /\ mode' = cmd /\ baseDepth' = Len(frames) /\ baseFn' = Top.fn /\ baseLine' = positionOf
  /\ homeAlive' = TRUE
  /\ UNCHANGED <<frames, entryDone, pauseRequested, breaks>>

Pause ==
  /\ phase # "over" /\ ~pauseRequested
  /\ pauseRequested' = TRUE
  /\ UNCHANGED <<frames, phase, reason, stepping, entryDone, breaks, homeAlive>>

-----------------------------------------------------------------------------
(* The program's own steps *)

Executes == phase = "exec" /\ UNCHANGED <<reason, stepping, entryDone, pauseRequested, breaks>>

(* An instruction falls through or jumps within its stream.                 *)
Move ==
  /\ Executes
  /\ \E i \in 1..Len(Code[Top.fn]) : frames' = [frames EXCEPT ![Len(frames)].ip = i]
  /\ phase' = "hook" /\ UNCHANGED homeAlive

(* A call, by OpCall or by a builtin that was handed a closure.             *)
CallClosure(f, native) ==
  /\ Executes
  /\ Top.ip < Len(Code[Top.fn])
  /\ IF Len(frames) >= maxCallDepth
     THEN phase' = "over" /\ UNCHANGED frames
     ELSE phase' = "hook" /\ frames' = Append(frames, Frame(f, native))
  /\ UNCHANGED homeAlive

(* Leaving the frame: the caller goes on at its next instruction.           *)
LeaveHome == homeAlive' = (homeAlive /\ Len(frames) # baseDepth)

ReturnValue ==
  /\ Executes
  /\ Len(frames) > 1
  /\ frames' = [SubSeq(frames, 1, Len(frames) - 1) EXCEPT ![Len(frames) - 1].ip = @ + 1]
  /\ phase' = "hook" /\ LeaveHome

(* A builtin such as map goes straight on to its next callback: no          *)
(* instruction of the caller runs in between.                               *)
NextCallback ==
  /\ Executes
  /\ Len(frames) > 1 /\ Top.native
  /\ frames' = [frames EXCEPT ![Len(frames)] = Frame(Top.fn, TRUE)]
  /\ phase' = "hook" /\ LeaveHome

(* The main stream ends, or an error unwinds the run.                       *)
RunEnds == Executes /\ phase' = "over" /\ UNCHANGED <<frames, homeAlive>>

Over == phase = "over" /\ UNCHANGED vars

Next ==
  \/ \E ask \in Asks : SetBreakpoints(ask)
  \/ Hook \/ (\E cmd \in Commands : Resume(cmd)) \/ Pause
  \/ Move \/ (\E f \in Fns \ {Main}, native \in BOOLEAN : CallClosure(f, native))
  \/ ReturnValue \/ NextCallback \/ RunEnds \/ Over

Spec == Init /\ [][Next]_vars

-----------------------------------------------------------------------------
(* Properties *)

(* A step ends where its kind promises: step-out only after the frame it    *)
(* began in has returned; step-over, while that frame lives, only in it and *)
(* on another line; step-in anywhere but where it began.                    *)
StepScope ==
  reason = "step" =>
    /\ positionOf > 0
    /\ mode = "stepOut" => ~homeAlive
    /\ mode = "next" /\ homeAlive => Len(frames) = baseDepth /\ positionOf # baseLine
    /\ mode = "stepIn" /\ homeAlive => Len(frames) > baseDepth \/ positionOf # baseLine

(* A breakpoint with skips stops only after execution has come to it more   *)
(* often than that since it was set.                                        *)
SkipsHonoured ==
  [][reason' = "breakpoint" /\ reason = "none" =>
       LET file == FileOf[positionOf] IN
       \E i \in DOMAIN byFile[file] :
         /\ byFile[file][i].bound = positionOf
         /\ arrivals'[file][i] > byFile[file][i].skip]_vars

(* The program never runs past a line whose markers, as the client was told *)
(* of them, all stop at once: whatever was set, moved and replaced since in *)
(* that file or another, the table is filled from every list.               *)
MarkersStop ==
  [][phase = "hook" /\ phase' = "exec" =>
       \/ ~IsSite(Top.fn, Top.ip)
       \/ BoundTo(byFile, positionOf) = {}
       \/ \E i \in BoundTo(byFile, positionOf) : byFile[FileOf[positionOf]][i].skip > 0]_vars

(* "Leaving the frame the step started in ends every kind of step": no      *)
(* instruction with a position runs once the step's frame is gone.          *)
LeavingEndsStep ==
  phase = "exec" /\ mode # "continue" /\ ~homeAlive => positionOf = 0

(* "The armed set can never disagree with the reported one": every          *)
(* breakpoint reported as verified is one the hook can stop at.             *)
VerifiedArmed ==
  \A f \in Files : \A i \in DOMAIN byFile[f] :
    byFile[f][i].verified => armed[byFile[f][i].bound] = i

(* "Hits is how many times execution has reached this breakpoint".          *)
HitsExact == hits = arrivals
=============================================================================

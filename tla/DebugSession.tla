---------------------------- MODULE DebugSession ----------------------------
(***************************************************************************)
(* One debug session: the executor goroutine of vm/debugger.go, parked and *)
(* resumed through two unbuffered channels, with the request loop and the  *)
(* event pump of dap/session.go on the other side of them.  Where the      *)
(* program stops is the subject of Stepping; here it may stop at any       *)
(* instruction.  Requests that are refused, and those that only read what  *)
(* never changes, leave the state as it is and are not actions.            *)
(***************************************************************************)
EXTENDS Integers, FiniteSets

VARIABLES
  exec,            (* where the executor goroutine stands: "running" is at  *)
                   (* the hook, "instr" inside an instruction               *)
  stopped, exited,
  pauseAsked,      (* pauseRequested                                        *)
  done,            (* closed by Terminate                                   *)
  closed,          (* Events is closed                                      *)
  tasksRun,        (* tasks the program has spawned are still running       *)
  pump,            (* where the event pump stands                           *)
  exitPublished,   (* publishExit has run: tasks awaited, secrets wiped,    *)
                   (* exited and terminated sent                            *)
  loop,            (* where the request loop stands                         *)
  launched,
  refs,            (* variable references that resolve: taken at the        *)
                   (* current stop ("now") or at an earlier one ("old")     *)
  reading,         (* the age of what the request being served has read     *)
  client,          (* what the client was last told: "running", "stopped"   *)
  hasty            (* history: it has resumed the program or asked for      *)
                   (* values before it was told of the stop                 *)

engine  == <<exec, stopped, exited, pauseAsked, closed, tasksRun>>
session == <<loop, launched, refs, reading>>
sessionVars == <<engine, done, pump, exitPublished, session, client, hasty>>

SessionInit ==
  /\ exec = "unstarted" /\ stopped = FALSE /\ exited = FALSE /\ pauseAsked = FALSE
  /\ done = FALSE /\ closed = FALSE /\ tasksRun = FALSE /\ pump = "none"
  /\ exitPublished = FALSE
  /\ loop = "idle" /\ launched = FALSE /\ refs = {} /\ reading = "none"
  /\ client = "running" /\ hasty = FALSE

-----------------------------------------------------------------------------
(* The executor *)

(* The first part of halt(): handles are dropped and stopped is set.  What  *)
(* was read before belongs to an earlier stop from here on.                 *)
HaltParks ==
  /\ exec' = "publish" /\ stopped' = TRUE
  /\ refs' = IF refs = {} THEN {} ELSE {"old"}
  /\ reading' = IF reading = "none" THEN "none" ELSE "old"

(* The hook finds done closed and unwinds the run with ErrTerminated.       *)
StepTerminated ==
  /\ exec = "running" /\ done
  /\ exec' = "exiting"
  /\ UNCHANGED <<stopped, exited, pauseAsked, done, closed, tasksRun, pump,
                 exitPublished, session, client, hasty>>

(* Faulty variants of an operation carry its name and a suffix.  No         *)
(* specification uses them: they show that the properties can fail.         *)

(* The hook clears the request and goes on.                                 *)
StepPauses_Dropped ==
  /\ exec = "running" /\ ~done /\ pauseAsked
  /\ pauseAsked' = FALSE
  /\ UNCHANGED <<exec, stopped, exited, closed, tasksRun, done, pump, exitPublished,
                 session, client, hasty>>

(* The hook takes a requested pause.                                        *)
StepPauses ==
  /\ exec = "running" /\ ~done /\ pauseAsked
  /\ pauseAsked' = FALSE
  /\ HaltParks
  /\ UNCHANGED <<exited, done, closed, tasksRun, pump, exitPublished, loop, launched,
                 client, hasty>>

(* The hook stops for the entry, a breakpoint or a finished step.           *)
StepStops ==
  /\ exec = "running" /\ ~done
  /\ HaltParks
  /\ UNCHANGED <<exited, pauseAsked, done, closed, tasksRun, pump, exitPublished, loop,
                 launched, client, hasty>>

(* The hook lets the instruction go ahead.                                  *)
StepRuns ==
  /\ exec = "running" /\ ~done /\ ~pauseAsked
  /\ exec' = "instr"
  /\ UNCHANGED <<stopped, exited, pauseAsked, done, closed, tasksRun, pump, exitPublished,
                 session, client, hasty>>

(* The instruction is over.  One that calls a builtin may block for ever:   *)
(* on a channel, a task, a read.                                            *)
InstrEnds ==
  /\ exec = "instr"
  /\ exec' = "running"
  /\ UNCHANGED <<stopped, exited, pauseAsked, done, closed, tasksRun, pump, exitPublished,
                 session, client, hasty>>

(* The instruction is a spawn.                                              *)
TaskStarts ==
  /\ exec = "instr" /\ ~tasksRun
  /\ tasksRun' = TRUE
  /\ UNCHANGED <<exec, stopped, exited, pauseAsked, done, closed, pump, exitPublished,
                 session, client, hasty>>

(* The last of the tasks is over.                                           *)
TasksEnd ==
  /\ tasksRun
  /\ tasksRun' = FALSE
  /\ UNCHANGED <<exec, stopped, exited, pauseAsked, done, closed, pump, exitPublished,
                 session, client, hasty>>

(* The program finishes or fails.                                           *)
ProgramEnds ==
  /\ exec \in {"running", "instr"}
  /\ exec' = "exiting"
  /\ UNCHANGED <<stopped, exited, pauseAsked, done, closed, tasksRun, pump,
                 exitPublished, session, client, hasty>>

(* halt() does not wait for an answer.                                      *)
PublishStop_NoPark ==
  /\ exec = "publish" /\ pump = "recv"
  /\ exec' = "waking" /\ pump' = "got"
  /\ UNCHANGED <<stopped, exited, pauseAsked, done, closed, tasksRun, exitPublished,
                 session, client, hasty>>

(* d.events <- stop, received by the pump.                                  *)
PublishStop ==
  /\ exec = "publish" /\ pump = "recv"
  /\ exec' = "park" /\ pump' = "got"
  /\ UNCHANGED <<stopped, exited, pauseAsked, done, closed, tasksRun, exitPublished,
                 session, client, hasty>>

(* Either select of halt() takes <-d.done.                                  *)
HaltTerminated ==
  /\ exec \in {"publish", "park"} /\ done
  /\ exec' = "exiting" /\ stopped' = FALSE
  /\ UNCHANGED <<exited, pauseAsked, done, closed, tasksRun, pump, exitPublished,
                 session, client, hasty>>

(* next = <-d.resume, from send() in the request loop, which then answers.  *)
Resumed ==
  /\ exec = "park" /\ loop = "sending"
  /\ exec' = "waking" /\ loop' = "idle"
  /\ UNCHANGED <<stopped, exited, pauseAsked, done, closed, tasksRun, pump, exitPublished,
                 launched, refs, reading, client, hasty>>

(* stopped.Store(false), after the command has arrived, and on with the     *)
(* instruction.                                                             *)
Wake ==
  /\ exec = "waking"
  /\ exec' = "instr" /\ stopped' = FALSE
  /\ UNCHANGED <<exited, pauseAsked, done, closed, tasksRun, pump, exitPublished,
                 session, client, hasty>>

(* vm.Run has returned.                                                     *)
Exit ==
  /\ exec = "exiting"
  /\ exec' = "exitSend" /\ exited' = TRUE /\ stopped' = FALSE
  /\ UNCHANGED <<pauseAsked, done, closed, tasksRun, pump, exitPublished, session,
                 client, hasty>>

(* The select that publishes StopExited: the pump receives it, or done is   *)
(* closed; with both ready either may be chosen.                            *)
PublishExited ==
  /\ exec = "exitSend" /\ pump = "recv"
  /\ exec' = "closing" /\ pump' = "gotExit"
  /\ UNCHANGED <<stopped, exited, pauseAsked, done, closed, tasksRun, exitPublished,
                 session, client, hasty>>

ExitTerminated ==
  /\ exec = "exitSend" /\ done
  /\ exec' = "closing"
  /\ UNCHANGED <<stopped, exited, pauseAsked, done, closed, tasksRun, pump,
                 exitPublished, session, client, hasty>>

CloseEvents ==
  /\ exec = "closing"
  /\ exec' = "gone" /\ closed' = TRUE
  /\ UNCHANGED <<tasksRun, stopped, exited, pauseAsked, done, pump, exitPublished,
                 session, client, hasty>>

-----------------------------------------------------------------------------
(* The event pump *)

(* The references are dropped after the client is told.                     *)
PumpReset_Skipped ==
  /\ pump = "got"
  /\ pump' = "reset"
  /\ UNCHANGED <<engine, done, exitPublished, session, client, hasty>>

PumpReset ==
  /\ pump = "got"
  /\ pump' = "reset" /\ refs' = {}
  /\ UNCHANGED <<engine, done, exitPublished, loop, launched, reading, client, hasty>>

PumpStopped ==
  /\ pump = "reset"
  /\ pump' = "recv" /\ client' = "stopped"
  /\ UNCHANGED <<engine, done, exitPublished, session, hasty>>

(* The pump returns on StopExited without publishing it.                    *)
PublishExit_Forgotten ==
  /\ pump = "gotExit"
  /\ pump' = "gone"
  /\ UNCHANGED <<engine, done, exitPublished, session, client, hasty>>

(* publishExit, where WaitForTasks returns when no task is left; then       *)
(* pumpDone is closed.                                                      *)
PublishExit ==
  /\ pump = "gotExit" /\ ~tasksRun
  /\ pump' = "gone" /\ exitPublished' = TRUE
  /\ UNCHANGED <<engine, done, session, client, hasty>>

(* Events is closed and nothing is left to receive: the range ends.         *)
PumpEnds ==
  /\ pump = "recv" /\ closed
  /\ pump' = "gone"
  /\ UNCHANGED <<engine, done, exitPublished, session, client, hasty>>

-----------------------------------------------------------------------------
(* The request loop *)

Launch ==
  /\ loop = "idle" /\ ~launched
  /\ launched' = TRUE
  /\ UNCHANGED <<engine, done, pump, exitPublished, loop, refs, reading, client, hasty>>

(* The pump and the executor are started together.                          *)
ConfigurationDone ==
  /\ loop = "idle" /\ launched /\ pump = "none"
  /\ pump' = "recv" /\ exec' = "running"
  /\ UNCHANGED <<stopped, exited, pauseAsked, done, closed, tasksRun, exitPublished,
                 session, client, hasty>>

(* readable() and the checks of send().                                     *)
MayAsk ==
  /\ loop = "idle" /\ ~exited /\ stopped
  /\ hasty' = (hasty \/ client # "stopped")

(* onResume: send() has passed its checks and blocks on d.resume.  Only the *)
(* loop itself calls Terminate, so done cannot release it.                  *)
OnResume ==
  /\ MayAsk
  /\ loop' = "sending" /\ client' = "running"
  /\ UNCHANGED <<engine, done, pump, exitPublished, launched, refs, reading>>

(* onStackTrace, onScopes, onEvaluate and the children of a value in        *)
(* onVariables: readable() has passed and the stack is being read ...       *)
OnRead ==
  /\ MayAsk
  /\ loop' = "reading" /\ reading' = "now"
  /\ UNCHANGED <<engine, done, pump, exitPublished, launched, refs, client>>

(* onVariables on the reference of a scope: its values were kept when the   *)
(* scope was asked for, so nobody looks whether the program is stopped.     *)
OnVariables ==
  /\ loop = "idle" /\ launched
  /\ \E age \in refs : reading' = age
  /\ hasty' = (hasty \/ client # "stopped")
  /\ loop' = "expanding"
  /\ UNCHANGED <<engine, done, pump, exitPublished, launched, refs, client>>

(* The answer is prepared and not sent.                                     *)
ReadDone_NotSent ==
  /\ loop \in {"reading", "expanding"}
  /\ refs' = refs \cup {reading}
  /\ UNCHANGED <<engine, done, pump, exitPublished, loop, launched, reading, client, hasty>>

(* ... and what was read is filed under a reference and sent.               *)
ReadDone ==
  /\ loop \in {"reading", "expanding"}
  /\ loop' = "idle" /\ reading' = "none" /\ refs' = refs \cup {reading}
  /\ UNCHANGED <<engine, done, pump, exitPublished, launched, client, hasty>>

OnPause ==
  /\ loop = "idle" /\ launched /\ ~exited /\ ~pauseAsked
  /\ pauseAsked' = TRUE
  /\ UNCHANGED <<exec, stopped, exited, closed, tasksRun, done, pump, exitPublished,
                 session, client, hasty>>

OnDisconnect ==
  /\ loop = "idle"
  /\ done' = launched
  /\ loop' = "shutdown"
  /\ UNCHANGED <<engine, pump, exitPublished, launched, refs, reading, client, hasty>>

(* The stream ends and loop() returns without a disconnect.                 *)
StreamEnds ==
  /\ loop = "idle"
  /\ loop' = "shutdown"
  /\ UNCHANGED <<engine, done, pump, exitPublished, launched, refs, reading, client, hasty>>

(* shutdown() waits for the pump and leaves the program running.            *)
Shutdown_NoTerminate ==
  /\ loop = "shutdown"
  /\ loop' = "draining"
  /\ UNCHANGED <<engine, done, pump, exitPublished, launched, refs, reading, client, hasty>>

Shutdown ==
  /\ loop = "shutdown"
  /\ loop' = "draining" /\ done' = launched
  /\ UNCHANGED <<engine, pump, exitPublished, launched, refs, reading, client, hasty>>

(* <-s.pumpDone, when there is a pump.                                      *)
Drained ==
  /\ loop = "draining" /\ pump \in {"none", "gone"}
  /\ loop' = "over"
  /\ UNCHANGED <<engine, done, pump, exitPublished, launched, refs, reading, client, hasty>>

-----------------------------------------------------------------------------
Executor ==
  \/ StepTerminated \/ StepPauses \/ StepRuns \/ PublishStop \/ HaltTerminated \/ Wake
  \/ Exit \/ PublishExited \/ ExitTerminated \/ CloseEvents
Pump == PumpReset \/ PumpStopped \/ PublishExit \/ PumpEnds
Requests ==
  \/ Launch \/ ConfigurationDone \/ OnResume \/ OnRead \/ OnVariables
  \/ OnPause \/ OnDisconnect \/ StreamEnds

SessionNext ==
  \/ Executor \/ StepStops \/ InstrEnds \/ TaskStarts \/ TasksEnd \/ ProgramEnds
  \/ Resumed
  \/ Pump \/ Requests \/ ReadDone \/ Shutdown \/ Drained

SessionSpec == SessionInit /\ [][SessionNext]_sessionVars

(* Goroutines are scheduled, and the client reads the events it is sent.    *)
(* Nothing obliges the client to send, the program to stop or to end, an    *)
(* instruction that blocks to return, or a task to finish.                  *)
SessionFairSpec ==
  /\ SessionSpec
  /\ WF_sessionVars(Executor) /\ WF_sessionVars(Resumed) /\ WF_sessionVars(Pump)
  /\ WF_sessionVars(ReadDone) /\ WF_sessionVars(Shutdown) /\ WF_sessionVars(Drained)

-----------------------------------------------------------------------------
(* Properties *)

(* A session that nobody ended publishes its exit before the pump is gone:  *)
(* tasks are awaited and secrets wiped.                                     *)
ExitPublished == pump = "gone" /\ ~done => exitPublished

(* "Reading the stack from another goroutine mid-instruction would be a     *)
(* data race": nobody reads it while the executor moves on.                 *)
NeverReadsRunning == loop = "reading" => exec \in {"publish", "park"} \/ done

(* The same, as long as the client waits to be told of a stop before it     *)
(* reads or resumes.                                                        *)
ReadsWhileParked == ~hasty => NeverReadsRunning

(* Once such a client was told of a stop and until it resumes, no reference *)
(* resolves to values read at an earlier stop.                              *)
RefsFresh == ~hasty /\ client = "stopped" => "old" \notin refs

(* Every request is answered: "a call made while the program is running     *)
(* returns ErrNotStopped".                                                  *)
AlwaysAnswered == (loop \in {"sending", "reading", "expanding"}) ~> (loop = "idle")

(* Every request of a client that waits to be told of a stop is answered.   *)
RequestAnswered ==
  (loop \in {"sending", "reading", "expanding"}) ~> (loop = "idle" \/ hasty)

(* A requested pause stops a running program, unless it ends first or is in *)
(* an instruction that never returns: the request is seen at the hook.      *)
PauseReached ==
  (pauseAsked /\ exec \in {"running", "instr"})
    ~> (exec \notin {"running", "instr"} \/ [](exec = "instr"))

(* shutdown() returns, whatever the program, the pump and the client were   *)
(* doing.  Two things alone can hold it up, and both are the program's: an  *)
(* instruction that never returns, so that the hook does not see done, and  *)
(* a task that never ends, which publishExit waits for before pumpDone.     *)
SessionEnds ==
  (loop = "shutdown") ~> (loop = "over" \/ [](exec = "instr") \/ []tasksRun)

(* "The last event of a session is always one with reason StopExited".      *)
LastEventIsExit == pump = "gone" => exitPublished
=============================================================================

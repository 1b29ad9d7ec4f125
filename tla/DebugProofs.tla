---------------------------- MODULE DebugProofs -----------------------------
(***************************************************************************)
(* Proofs about the debugger, for any program, any placement of            *)
(* breakpoints and any schedule: where a step ends (Stepping), and what a  *)
(* debugging client is told and when it reads (DebugSession).              *)
(***************************************************************************)
EXTENDS Stepping, DebugSession, WellFoundedInduction, TLAPS

-----------------------------------------------------------------------------
(* Stepping *)

(* The frames of a call stack.                                              *)
FrameSet == [fn : Fns, ip : Int, native : BOOLEAN]

(* Every frame is inside its stream, and every caller has an instruction to *)
(* come back to.                                                            *)
Inside(r)  == r.ip \in 1..Len(Code[r.fn])
Resumes(r) == r.ip < Len(Code[r.fn])

StackOK ==
  /\ frames \in Seq(FrameSet) /\ frames # << >>
  /\ \A i \in 1..Len(frames) : Inside(frames[i])
  /\ \A i \in 1..(Len(frames) - 1) : Resumes(frames[i])

(* While the frame a step began in lives, it is the one at the step's       *)
(* depth, and its function the step's.                                      *)
HomeInv ==
  mode # "continue" /\ homeAlive => baseDepth \in 1..Len(frames) /\ frames[baseDepth].fn = baseFn

StepInv ==
  /\ StackOK /\ HomeInv
  /\ baseDepth \in Nat /\ homeAlive \in BOOLEAN
  /\ reason # "none" => phase = "parked"
  /\ StepScope

(* Replacing the top frame leaves the others.                               *)
LEMMA TopReplaced ==
  ASSUME frames \in Seq(FrameSet), frames # << >>, NEW r \in FrameSet,
         frames' = [frames EXCEPT ![Len(frames)] = r]
  PROVE  /\ frames' \in Seq(FrameSet) /\ frames' # << >> /\ Len(frames') = Len(frames)
         /\ frames'[Len(frames)] = r
         /\ \A i \in 1..(Len(frames) - 1) : frames'[i] = frames[i]
  OBVIOUS

(* The stream of a frame is a nonempty sequence of positions.               *)
LEMMA Streams ==
  ASSUME NEW f \in Fns
  PROVE  /\ Len(Code[f]) \in Nat \ {0}
         /\ \A i \in 1..Len(Code[f]) : Code[f][i] \in Lines \cup {0}
<1>1. Code[f] \in Seq(Lines \cup {0}) /\ Code[f] # << >>
  BY SteppingAssumption
<1> QED BY <1>1

(* The current frame.                                                       *)
LEMMA TopFrame ==
  ASSUME StackOK
  PROVE  /\ Len(frames) \in Nat \ {0} /\ Top \in FrameSet /\ Top = frames[Len(frames)]
         /\ Top.fn \in Fns /\ Top.ip \in 1..Len(Code[Top.fn]) /\ positionOf \in Lines \cup {0}
<1>1. Len(frames) \in Nat \ {0} /\ Top = frames[Len(frames)] /\ Top \in FrameSet
  BY DEF StackOK, Top
<1>2. Top.fn \in Fns /\ Top.ip \in 1..Len(Code[Top.fn])
  BY <1>1 DEF StackOK, FrameSet, Inside
<1> QED BY <1>1, <1>2, Streams, Zenon DEF positionOf

(* An instruction within its stream.                                        *)
LEMMA MoveInv ==
  ASSUME StepInv, Move
  PROVE  StepInv'
<1>1. PICK i \in 1..Len(Code[Top.fn]) : frames' = [frames EXCEPT ![Len(frames)].ip = i]
  BY Zenon DEF Move
<1> DEFINE r == [Top EXCEPT !.ip = i]
<1>2. r \in FrameSet /\ r.fn = Top.fn /\ r.ip = i /\ Inside(r)
  BY TopFrame, Streams DEF StepInv, FrameSet, Inside
<1>3. frames' = [frames EXCEPT ![Len(frames)] = r]
  BY <1>1 DEF Top
<1> HIDE DEF r
<1>4. /\ frames' \in Seq(FrameSet) /\ frames' # << >> /\ Len(frames') = Len(frames)
      /\ frames'[Len(frames)] = r
      /\ \A j \in 1..(Len(frames) - 1) : frames'[j] = frames[j]
  BY <1>2, <1>3, TopReplaced DEF StepInv, StackOK
<1>5. StackOK'
  BY <1>2, <1>4, TopFrame DEF StepInv, StackOK
<1>6. \A j \in 1..Len(frames) : frames'[j].fn = frames[j].fn
  BY <1>2, <1>4, TopFrame DEF StepInv
<1>7. phase = "exec" /\ UNCHANGED <<reason, mode, baseDepth, baseFn, baseLine, homeAlive>>
  BY DEF Move, Executes, stepping
<1> QED BY <1>4, <1>5, <1>6, <1>7 DEF StepInv, HomeInv, StepScope

(* A call pushes a frame, or ends the run at the limit.                     *)
LEMMA CallInv ==
  ASSUME StepInv, NEW f \in Fns, NEW native \in BOOLEAN, CallClosure(f, native)
  PROVE  StepInv'
<1>1. phase = "exec" /\ UNCHANGED <<reason, mode, baseDepth, baseFn, baseLine, homeAlive>>
  BY DEF CallClosure, Executes, stepping
<1>2. CASE frames' = frames
  BY <1>1, <1>2 DEF StepInv, StackOK, HomeInv, StepScope
<1>3. CASE frames' = Append(frames, Frame(f, native))
  <2>1. Frame(f, native) \in FrameSet /\ Frame(f, native).fn = f /\ Frame(f, native).ip = 1
    BY DEF Frame, FrameSet
  <2>2. /\ frames' \in Seq(FrameSet) /\ frames' # << >> /\ Len(frames') = Len(frames) + 1
        /\ frames'[Len(frames) + 1] = Frame(f, native)
        /\ \A i \in 1..Len(frames) : frames'[i] = frames[i]
    BY <1>3, <2>1 DEF StepInv, StackOK
  <2>3. Resumes(Top) /\ Inside(Frame(f, native))
    BY <2>1, Streams DEF CallClosure, Resumes, Inside
  <2>4. StackOK'
    <3> HIDE DEF StepInv
    <3>1. StackOK /\ Len(frames) \in Nat \ {0} /\ Top = frames[Len(frames)]
      BY TopFrame DEF StepInv
    <3>2. ASSUME NEW i \in 1..(Len(frames) + 1) PROVE Inside(frames'[i])
      <4>1. CASE i = Len(frames) + 1
        BY <2>2, <2>3, <4>1
      <4>2. CASE i \in 1..Len(frames)
        BY <2>2, <3>1, <4>2 DEF StackOK
      <4> QED BY <3>1, <4>1, <4>2
    <3>3. ASSUME NEW i \in 1..Len(frames) PROVE Resumes(frames'[i])
      <4>1. CASE i = Len(frames)
        BY <2>2, <2>3, <3>1, <4>1
      <4>2. CASE i \in 1..(Len(frames) - 1)
        BY <2>2, <3>1, <4>2 DEF StackOK
      <4> QED BY <3>1, <4>1, <4>2
    <3> QED BY <2>2, <3>1, <3>2, <3>3 DEF StackOK
  <2> QED BY <1>1, <2>2, <2>4, TopFrame DEF StepInv, HomeInv, StepScope
<1> QED BY <1>2, <1>3 DEF CallClosure

(* A return pops a frame and moves its caller on.                           *)
LEMMA ReturnInv ==
  ASSUME StepInv, ReturnValue
  PROVE  StepInv'
<1> DEFINE n == Len(frames) - 1
           below == SubSeq(frames, 1, n)
           r == [frames[n] EXCEPT !.ip = @ + 1]
<1>1. /\ phase = "exec" /\ UNCHANGED <<reason, mode, baseDepth, baseFn, baseLine>>
      /\ homeAlive' = (homeAlive /\ Len(frames) # baseDepth)
      /\ Len(frames) > 1 /\ frames' = [below EXCEPT ![n].ip = @ + 1]
  BY DEF ReturnValue, LeaveHome, Executes, stepping
<1>2. n \in Nat \ {0} /\ n \in 1..(Len(frames) - 1) /\ n \in 1..Len(frames)
  BY <1>1, TopFrame DEF StepInv
<1>3. below \in Seq(FrameSet) /\ Len(below) = n /\ \A i \in 1..n : below[i] = frames[i]
  BY <1>2 DEF StepInv, StackOK
<1>4. /\ frames[n] \in FrameSet
      /\ frames[n].ip \in 1..Len(Code[frames[n].fn]) /\ frames[n].ip < Len(Code[frames[n].fn])
      /\ frames[n].fn \in Fns
  <2>1. frames[n] \in FrameSet /\ Inside(frames[n]) /\ Resumes(frames[n])
    BY <1>2 DEF StepInv, StackOK
  <2>2. frames[n].fn \in Fns
    BY <2>1 DEF FrameSet
  <2> QED BY <2>1, <2>2 DEF Inside, Resumes
<1>5. r \in FrameSet /\ r.fn = frames[n].fn /\ r.ip = frames[n].ip + 1
  BY <1>4 DEF FrameSet
<1>6. frames' = [below EXCEPT ![n] = r]
  BY <1>1, <1>2, <1>3
<1> HIDE DEF below, r
<1>7. /\ frames' \in Seq(FrameSet) /\ frames' # << >> /\ Len(frames') = n
      /\ frames'[n] = r /\ \A i \in 1..(n - 1) : frames'[i] = frames[i]
  BY <1>2, <1>3, <1>5, <1>6
<1>8. StackOK'
  <2>1. Inside(r)
    BY <1>4, <1>5, Streams DEF Inside
  <2> QED BY <1>2, <1>7, <2>1, SMTT(30) DEF StepInv, StackOK
<1>9. \A i \in 1..n : frames'[i].fn = frames[i].fn
  BY <1>2, <1>5, <1>7
<1>10. HomeInv'
  <2> SUFFICES ASSUME mode # "continue", homeAlive, Len(frames) # baseDepth
               PROVE  baseDepth \in 1..n /\ frames'[baseDepth].fn = baseFn
    BY <1>1, <1>7, Zenon DEF HomeInv
  <2>1. baseDepth \in 1..Len(frames) /\ frames[baseDepth].fn = baseFn
    BY DEF StepInv, HomeInv
  <2>2. baseDepth \in 1..n
    BY <1>2, <2>1
  <2> QED BY <1>9, <2>1, <2>2
<1> QED BY <1>1, <1>8, <1>10 DEF StepInv, StepScope

(* A builtin runs its next callback in a frame of the same function.        *)
LEMMA CallbackInv ==
  ASSUME StepInv, NextCallback
  PROVE  StepInv'
<1> DEFINE r == Frame(Top.fn, TRUE)
<1>1. /\ phase = "exec" /\ UNCHANGED <<reason, mode, baseDepth, baseFn, baseLine>>
      /\ homeAlive' = (homeAlive /\ Len(frames) # baseDepth)
      /\ frames' = [frames EXCEPT ![Len(frames)] = r]
  BY DEF NextCallback, LeaveHome, Executes, stepping
<1>2. r \in FrameSet /\ r.fn = Top.fn /\ Inside(r)
  BY TopFrame, Streams DEF StepInv, Frame, FrameSet, Inside
<1> HIDE DEF r
<1>3. /\ frames' \in Seq(FrameSet) /\ frames' # << >> /\ Len(frames') = Len(frames)
      /\ frames'[Len(frames)] = r
      /\ \A j \in 1..(Len(frames) - 1) : frames'[j] = frames[j]
  BY <1>1, <1>2, TopReplaced DEF StepInv, StackOK
<1>4. StackOK'
  BY <1>2, <1>3, TopFrame, Streams DEF StepInv, StackOK
<1>5. \A j \in 1..Len(frames) : frames'[j].fn = frames[j].fn
  BY <1>2, <1>3, TopFrame DEF StepInv
<1> QED BY <1>1, <1>3, <1>4, <1>5, Zenon DEF StepInv, HomeInv, StepScope

(* The hook stops for a step only where the step's kind promises.           *)
LEMMA HookInv ==
  ASSUME StepInv, Hook
  PROVE  StepInv'
<1>1. /\ phase = "hook" /\ UNCHANGED <<frames, mode, baseDepth, baseFn, baseLine, homeAlive>>
      /\ \/ phase' = "parked" /\ reason' \in {"entry", "pause", "breakpoint"}
         \/ phase' = "parked" /\ reason' = "step" /\ mode # "continue" /\ stepIsDone
         \/ phase' = "exec" /\ reason' = reason
  BY DEF Hook, BreakTest, StepTest, Halt, Pass, stepping
<1>2. StackOK' /\ HomeInv'
  BY <1>1 DEF StepInv, StackOK, HomeInv
<1>3. ASSUME mode # "continue", stepIsDone
      PROVE  /\ positionOf > 0
             /\ mode = "stepOut" => ~homeAlive
             /\ mode = "next" /\ homeAlive => Len(frames) = baseDepth /\ positionOf # baseLine
             /\ mode = "stepIn" /\ homeAlive => Len(frames) > baseDepth \/ positionOf # baseLine
  <2>1. homeAlive => ~(Len(frames) < baseDepth)
    BY <1>3, TopFrame DEF StepInv, HomeInv
  <2>2. homeAlive /\ Len(frames) = baseDepth => Top.fn = baseFn
    BY <1>3, TopFrame DEF StepInv, HomeInv
  <2>3. homeAlive /\ Len(frames) # baseDepth => Len(frames) > baseDepth
    BY <2>1, TopFrame DEF StepInv
  <2> QED BY <1>3, <2>1, <2>2, <2>3 DEF stepIsDone
<1>4. positionOf' = positionOf
  BY <1>1 DEF positionOf, Top
<1>5. StepScope'
  BY <1>1, <1>3, <1>4 DEF StepInv, StepScope
<1> QED BY <1>1, <1>2, <1>5 DEF StepInv

(* A command begins a step here.                                            *)
LEMMA ResumeInv ==
  ASSUME StepInv, NEW cmd \in Commands, Resume(cmd)
  PROVE  StepInv'
<1>1. /\ frames' = frames /\ reason' = "none" /\ homeAlive' = TRUE
      /\ baseDepth' = Len(frames) /\ baseFn' = Top.fn
  BY DEF Resume
<1>2. StackOK' /\ HomeInv'
  BY <1>1, TopFrame DEF StepInv, StackOK, HomeInv
<1> QED BY <1>1, <1>2, TopFrame DEF StepInv, StepScope

(* Every step of the engine keeps the invariant.                            *)
LEMMA StepNext ==
  ASSUME StepInv, [Next]_vars
  PROVE  StepInv'
<1>1. ASSUME UNCHANGED <<frames, mode, baseDepth, baseFn, baseLine, homeAlive, reason>>,
             phase' = phase \/ (phase = "exec" /\ phase' = "over")
      PROVE  StepInv'
  BY <1>1, Zenon DEF StepInv, StackOK, HomeInv, StepScope, positionOf, Top
<1>2. ASSUME NEW ask \in Asks, SetBreakpoints(ask) PROVE StepInv'
  BY <1>1, <1>2 DEF SetBreakpoints, stepping
<1>3. CASE Pause
  BY <1>1, <1>3 DEF Pause, stepping
<1>4. CASE RunEnds
  BY <1>1, <1>4 DEF RunEnds, Executes, stepping
<1>5. CASE Over \/ UNCHANGED vars
  BY <1>1, <1>5 DEF Over, vars, stepping
<1> QED BY <1>2, <1>3, <1>4, <1>5, MoveInv, CallInv, ReturnInv, CallbackInv, HookInv, ResumeInv DEF Next

(* The invariant holds throughout a run of the debugged program.            *)
THEOREM StepInvariance == Spec => []StepInv
<1>1. Init => StepInv
  <2> SUFFICES ASSUME Init PROVE StepInv
    OBVIOUS
  <2>1. Frame(Main, FALSE) \in FrameSet /\ Frame(Main, FALSE).fn = Main /\ Frame(Main, FALSE).ip = 1
    BY SteppingAssumption DEF Frame, FrameSet
  <2>2. /\ frames \in Seq(FrameSet) /\ frames # << >> /\ Len(frames) = 1
        /\ frames[1] = Frame(Main, FALSE)
    <3> DEFINE r == Frame(Main, FALSE)
    <3>1. r \in FrameSet /\ frames = <<r>>
      BY <2>1, Zenon DEF Init
    <3> HIDE DEF r
    <3>2. /\ frames \in Seq(FrameSet) /\ frames # << >> /\ Len(frames) = 1
          /\ frames[1] = r
      BY <3>1
    <3> QED BY <3>2 DEF r
  <2>3. Inside(Frame(Main, FALSE))
    <3>1. Len(Code[Main]) \in Nat \ {0}
      BY Streams, SteppingAssumption
    <3> DEFINE r == Frame(Main, FALSE)
    <3>2. r.fn = Main /\ r.ip = 1
      BY <2>1, Zenon
    <3> HIDE DEF r
    <3>3. Inside(r)
      BY <3>1, <3>2 DEF Inside
    <3> QED BY <3>3, Zenon DEF r
  <2>4. StackOK
    <3>1. 1..Len(frames) = {1} /\ 1..(Len(frames) - 1) = {}
      BY <2>2
    <3> QED BY <2>2, <2>3, <3>1, Zenon DEF StackOK
  <2> QED BY <2>4 DEF Init, StepInv, HomeInv, StepScope
<1> QED BY <1>1, StepNext, PTL DEF Spec

(* Wherever a step stops, it is where its kind promises, for every program, *)
(* every depth and every mixture of commands.                               *)
THEOREM StepsEndInScope == Spec => []StepScope
<1>1. StepInv => StepScope
  BY DEF StepInv
<1> QED BY <1>1, StepInvariance, PTL

(* The largest of zero and some numbers up to n.                            *)
LEMMA MaxWithZero ==
  ASSUME NEW n \in Nat, NEW S \in SUBSET (1..n)
  PROVE  /\ Max({0} \cup S) \in {0} \cup S
         /\ \A y \in S : Max({0} \cup S) >= y
<1> DEFINE U == {0} \cup S
           T == {n - x : x \in U}
<1>1. T \subseteq Nat /\ T # {}
  <2>1. \A x \in U : x \in Nat /\ x <= n
    OBVIOUS
  <2>2. n - 0 \in T
    OBVIOUS
  <2> QED BY <2>1, <2>2
<1>2. PICK m \in T : \A y \in T : ~(<<y, m>> \in OpToRel(<, Nat))
  BY <1>1, WFMin, NatLessThanWellFounded, Zenon
<1>3. \A y \in T : m <= y
  <2> SUFFICES ASSUME NEW y \in T, y < m PROVE FALSE
    BY <1>1
  <2>1. <<y, m>> \in OpToRel(<, Nat)
    BY <1>1 DEF OpToRel
  <2> QED BY <1>2, <2>1, Zenon
<1>4. PICK x \in U : m = n - x
  OBVIOUS
<1>5. \A y \in U : x >= y
  <2> SUFFICES ASSUME NEW y \in U PROVE x >= y
    OBVIOUS
  <2>1. n - y \in T
    OBVIOUS
  <2>2. m <= n - y
    BY <1>3, <2>1, Zenon
  <2>3. x \in Nat /\ y \in Nat
    OBVIOUS
  <2> QED BY <1>4, <2>2, <2>3
<1>6. Max(U) \in U /\ \A y \in U : Max(U) >= y
  BY <1>5, Zenon DEF Max
<1> QED BY <1>6

(* A counter has a place for every breakpoint of every list.                *)
CounterOK(c) ==
  /\ DOMAIN c = Files
  /\ \A f \in Files : DOMAIN c[f] = DOMAIN byFile[f] /\ \A i \in DOMAIN byFile[f] : c[f][i] \in 0..MaxHits

(* The table always is what the lists say, and a counter never ahead of the *)
(* arrivals.                                                                *)
TableInv ==
  /\ DOMAIN byFile = Files
  /\ \A f \in Files : \E n \in Nat : DOMAIN byFile[f] = 1..n
  /\ \A f \in Files : \A i \in DOMAIN byFile[f] : byFile[f][i].skip \in 0..(MaxHits - 1)
  /\ armed = [l \in Lines |-> LastBound(byFile, l)]
  /\ CounterOK(hits) /\ CounterOK(arrivals)
  /\ \A f \in Files : \A i \in DOMAIN byFile[f] : hits[f][i] <= arrivals[f][i]

(* What the table holds for a line.                                         *)
LEMMA ArmedIsBound ==
  ASSUME TableInv, NEW l \in Lines
  PROVE  /\ armed[l] # 0 => armed[l] \in BoundTo(byFile, l)
         /\ armed[l] = 0 => BoundTo(byFile, l) = {}
<1>1. FileOf[l] \in Files
  BY DEF Files
<1>2. PICK n \in Nat : DOMAIN byFile[FileOf[l]] = 1..n
  BY <1>1 DEF TableInv
<1>3. BoundTo(byFile, l) \in SUBSET (1..n)
  BY <1>2 DEF BoundTo
<1>4. armed[l] = Max({0} \cup BoundTo(byFile, l))
  BY DEF TableInv, LastBound
<1> HIDE DEF TableInv
<1>5. \A y \in BoundTo(byFile, l) : armed[l] >= y /\ y \in 1..n
  BY <1>3, <1>4, MaxWithZero, Zenon
<1>6. armed[l] \in {0} \cup BoundTo(byFile, l)
  BY <1>3, <1>4, MaxWithZero, Zenon
<1> QED BY <1>5, <1>6

(* Counting an arrival.                                                     *)
LEMMA CountedAt ==
  ASSUME NEW c, CounterOK(c), NEW file \in Files, NEW b \in DOMAIN byFile[file]
  PROVE  LET d == Counted(c, file, {b}) IN
         /\ DOMAIN d = Files /\ DOMAIN d[file] = DOMAIN byFile[file]
         /\ \A f \in Files \ {file} : d[f] = c[f]
         /\ \A i \in DOMAIN byFile[file] \ {b} : d[file][i] = c[file][i]
         /\ d[file][b] = IF c[file][b] < MaxHits THEN c[file][b] + 1 ELSE c[file][b]
<1> DEFINE g == [i \in DOMAIN c[file] |-> IF i \in {b} /\ c[file][i] < MaxHits
                                          THEN c[file][i] + 1 ELSE c[file][i]]
<1>1. Counted(c, file, {b}) = [c EXCEPT ![file] = g]
  BY DEF Counted
<1>2. DOMAIN c = Files /\ DOMAIN c[file] = DOMAIN byFile[file]
  BY DEF CounterOK
<1> QED BY <1>1, <1>2, Zenon

(* It keeps a counter a counter, and the order of two.                      *)
LEMMA CountedOK ==
  ASSUME NEW c, CounterOK(c), NEW file \in Files, NEW b \in DOMAIN byFile[file]
  PROVE  CounterOK(Counted(c, file, {b}))
<1> DEFINE d == Counted(c, file, {b})
<1>1. /\ DOMAIN d = Files /\ DOMAIN d[file] = DOMAIN byFile[file]
      /\ \A f \in Files \ {file} : d[f] = c[f]
      /\ \A i \in DOMAIN byFile[file] \ {b} : d[file][i] = c[file][i]
      /\ d[file][b] = IF c[file][b] < MaxHits THEN c[file][b] + 1 ELSE c[file][b]
  BY CountedAt, Zenon
<1> HIDE DEF d
<1>2. \A i \in DOMAIN byFile[file] : d[file][i] \in 0..MaxHits
  BY <1>1, SteppingAssumption DEF CounterOK
<1>3. CounterOK(d)
  BY <1>1, <1>2 DEF CounterOK
<1> QED BY <1>3 DEF d

(* What the hook does to the counters.                                      *)
LEMMA HookCounts ==
  ASSUME StackOK, TableInv, Hook
  PROVE  /\ AtSite => /\ positionOf \in Lines /\ FileOf[positionOf] \in Files
                      /\ armed[positionOf] \in BoundTo(byFile, positionOf)
                      /\ armed[positionOf] \in DOMAIN byFile[FileOf[positionOf]]
         /\ IF AtSite THEN arrivals' = Counted(arrivals, FileOf[positionOf], {armed[positionOf]})
                      ELSE arrivals' = arrivals
         /\ \/ hits' = hits
            \/ AtSite /\ hits' = Counted(hits, FileOf[positionOf], {armed[positionOf]})
         /\ UNCHANGED <<byFile, armed>>
<1>1. ASSUME AtSite
      PROVE  /\ positionOf \in Lines /\ FileOf[positionOf] \in Files
             /\ armed[positionOf] \in BoundTo(byFile, positionOf)
             /\ armed[positionOf] \in DOMAIN byFile[FileOf[positionOf]]
  <2>1. positionOf # 0 /\ armed[positionOf] # 0
    BY <1>1, Zenon DEF AtSite, IsSite, positionOf
  <2>2. positionOf \in Lines
    BY <2>1, TopFrame
  <2>3. armed[positionOf] \in BoundTo(byFile, positionOf)
    BY <2>1, <2>2, ArmedIsBound
  <2> QED BY <2>2, <2>3, Zenon DEF Files, BoundTo
<1>2. \/ hits' = hits
      \/ AtSite /\ hits' = Counted(hits, FileOf[positionOf], {armed[positionOf]})
  BY Zenon DEF Hook, BreakTest
<1> QED BY <1>1, <1>2, Zenon DEF Hook

(* The hook keeps the table and the order of the counters.                  *)
LEMMA HookTable ==
  ASSUME StackOK, TableInv, Hook
  PROVE  TableInv'
<1>1. CASE ~AtSite
  <2>1. UNCHANGED <<byFile, armed, hits, arrivals>>
    BY <1>1, HookCounts, Zenon
  <2> QED BY <2>1, Zenon DEF TableInv, CounterOK, LastBound, BoundTo
<1>2. CASE AtSite
  <2> DEFINE file == FileOf[positionOf]
             b == armed[positionOf]
  <2>1. file \in Files /\ b \in DOMAIN byFile[file]
    BY <1>2, HookCounts, Zenon
  <2>2. /\ arrivals' = Counted(arrivals, file, {b})
        /\ hits' = hits \/ hits' = Counted(hits, file, {b})
        /\ byFile' = byFile /\ armed' = armed
    BY <1>2, HookCounts
  <2> HIDE DEF file, b
  <2>3. CounterOK(arrivals') /\ CounterOK(hits')
    BY <2>1, <2>2, CountedOK, Zenon DEF TableInv
  <2>4. CounterOK(arrivals)' /\ CounterOK(hits)'
    BY <2>2, <2>3, Zenon DEF CounterOK
  <2>5. /\ \A f \in Files \ {file} : arrivals'[f] = arrivals[f] /\ hits'[f] = hits[f]
        /\ \A i \in DOMAIN byFile[file] \ {b} : arrivals'[file][i] = arrivals[file][i]
                                               /\ hits'[file][i] = hits[file][i]
        /\ arrivals'[file][b] = IF arrivals[file][b] < MaxHits THEN arrivals[file][b] + 1 ELSE arrivals[file][b]
        /\ hits'[file][b] \in {hits[file][b], IF hits[file][b] < MaxHits THEN hits[file][b] + 1 ELSE hits[file][b]}
    <3>1. CounterOK(hits) /\ CounterOK(arrivals)
      BY Zenon DEF TableInv
    <3> DEFINE d == Counted(arrivals, file, {b})
               e == Counted(hits, file, {b})
    <3>2. /\ \A f \in Files \ {file} : d[f] = arrivals[f]
          /\ \A i \in DOMAIN byFile[file] \ {b} : d[file][i] = arrivals[file][i]
          /\ d[file][b] = IF arrivals[file][b] < MaxHits THEN arrivals[file][b] + 1 ELSE arrivals[file][b]
      BY <2>1, <3>1, CountedAt, ZenonT(60)
    <3>3. /\ \A f \in Files \ {file} : e[f] = hits[f]
          /\ \A i \in DOMAIN byFile[file] \ {b} : e[file][i] = hits[file][i]
          /\ e[file][b] = IF hits[file][b] < MaxHits THEN hits[file][b] + 1 ELSE hits[file][b]
      BY <2>1, <3>1, CountedAt, ZenonT(60)
    <3>4. arrivals' = d /\ (hits' = hits \/ hits' = e)
      BY <2>2
    <3> HIDE DEF d, e
    <3> QED BY <3>2, <3>3, <3>4, Zenon
  <2>6. hits'[file][b] <= arrivals'[file][b]
    <3>1. /\ hits[file][b] <= arrivals[file][b] /\ MaxHits \in Nat
          /\ hits[file][b] \in 0..MaxHits /\ arrivals[file][b] \in 0..MaxHits
      BY <2>1, SteppingAssumption, Zenon DEF TableInv, CounterOK
    <3> QED BY <2>5, <3>1
  <2>7. ASSUME NEW f \in Files, NEW i \in DOMAIN byFile[f] PROVE hits'[f][i] <= arrivals'[f][i]
    <3>1. hits[f][i] <= arrivals[f][i]
      BY Zenon DEF TableInv
    <3>2. CASE f = file /\ i = b
      BY <2>6, <3>2, Zenon
    <3>3. CASE ~(f = file /\ i = b)
      BY <2>5, <3>1, <3>3, Zenon
    <3> QED BY <3>2, <3>3
  <2>8. (armed = [l \in Lines |-> LastBound(byFile, l)])'
    BY <2>2, Zenon DEF TableInv, LastBound, BoundTo
  <2> QED BY <2>2, <2>4, <2>7, <2>8, Zenon DEF TableInv
<1> QED BY <1>1, <1>2

(* Setting the breakpoints of a file fills the table from every list.       *)
LEMMA SetTable ==
  ASSUME TableInv, NEW ask \in Asks, SetBreakpoints(ask)
  PROVE  TableInv'
<1> DEFINE specs == ask.specs
           list  == [i \in DOMAIN specs |-> resolve(specs[i])]
           zero  == [i \in DOMAIN specs |-> 0]
<1>1. specs \in Seq([line : Lines, skip : 0..(MaxHits - 1)]) /\ MaxHits \in Nat
  BY SteppingAssumption, Zenon
<1>2. \A i \in DOMAIN specs : specs[i].skip \in 0..(MaxHits - 1)
  <2> DEFINE R == [line : Lines, skip : 0..(MaxHits - 1)]
  <2>1. specs \in Seq(R)
    BY <1>1
  <2> HIDE DEF specs, R
  <2>2. \A i \in DOMAIN specs : specs[i] \in R
    BY <2>1
  <2> QED BY <2>2 DEF R
<1>3. DOMAIN specs = 1..Len(specs) /\ Len(specs) \in Nat
  BY <1>1
<1>4. /\ byFile' = [byFile EXCEPT ![ask.file] = list]
      /\ hits' = [hits EXCEPT ![ask.file] = zero] /\ arrivals' = [arrivals EXCEPT ![ask.file] = zero]
      /\ armed' = [l \in Lines |-> LastBound(byFile', l)]
  BY Zenon DEF SetBreakpoints
<1>5. /\ DOMAIN list = 1..Len(specs) /\ DOMAIN zero = 1..Len(specs)
      /\ \A i \in 1..Len(specs) : list[i].skip \in 0..(MaxHits - 1) /\ zero[i] = 0
  BY <1>2, <1>3, Zenon DEF resolve
<1> HIDE DEF specs, list, zero
<1>6. DOMAIN byFile = Files /\ DOMAIN hits = Files /\ DOMAIN arrivals = Files
  BY Zenon DEF TableInv, CounterOK
<1>7. ASSUME NEW f \in Files
      PROVE  /\ \E n \in Nat : DOMAIN byFile'[f] = 1..n
             /\ DOMAIN hits'[f] = DOMAIN byFile'[f] /\ DOMAIN arrivals'[f] = DOMAIN byFile'[f]
             /\ \A i \in DOMAIN byFile'[f] :
                  /\ byFile'[f][i].skip \in 0..(MaxHits - 1)
                  /\ hits'[f][i] \in 0..MaxHits /\ arrivals'[f][i] \in 0..MaxHits
                  /\ hits'[f][i] <= arrivals'[f][i]
  <2>1. CASE f = ask.file
    <3>1. byFile'[f] = list /\ hits'[f] = zero /\ arrivals'[f] = zero
      BY <1>4, <1>6, <2>1
    <3>2. \A i \in 1..Len(specs) : list[i].skip \in 0..(MaxHits - 1) /\ zero[i] \in 0..MaxHits /\ zero[i] <= zero[i]
      <4>1. 0 \in 0..MaxHits /\ 0 <= 0
        BY <1>1
      <4> QED BY <1>5, <4>1, Zenon
    <3> QED BY <1>3, <1>5, <3>1, <3>2, Zenon
  <2>2. CASE f # ask.file
    <3>1. byFile'[f] = byFile[f] /\ hits'[f] = hits[f] /\ arrivals'[f] = arrivals[f]
      BY <1>4, <1>6, <2>2
    <3> QED BY <3>1, ZenonT(40) DEF TableInv, CounterOK
  <2> QED BY <2>1, <2>2, Zenon
<1>8. DOMAIN byFile' = Files /\ DOMAIN hits' = Files /\ DOMAIN arrivals' = Files
  BY <1>4, <1>6
<1>9. CounterOK(hits)' /\ CounterOK(arrivals)'
  BY <1>7, <1>8 DEF CounterOK
<1>10. (armed = [l \in Lines |-> LastBound(byFile, l)])'
  BY <1>4, Zenon DEF LastBound, BoundTo
<1> QED BY <1>7, <1>8, <1>9, <1>10, Zenon DEF TableInv

(* The table agrees with the lists throughout a run.                        *)
THEOREM TableInvariance == Spec => []TableInv
<1>1. Init => TableInv
  <2> SUFFICES ASSUME Init PROVE TableInv
    OBVIOUS
  <2>1. /\ DOMAIN byFile = Files /\ \A f \in Files : byFile[f] = << >>
        /\ DOMAIN hits = Files /\ \A f \in Files : hits[f] = << >>
        /\ DOMAIN arrivals = Files /\ \A f \in Files : arrivals[f] = << >>
    BY DEF Init
  <2>2. \A f \in Files : DOMAIN byFile[f] = {}
    BY <2>1
  <2>3. ASSUME NEW l \in Lines PROVE LastBound(byFile, l) = 0
    <3>1. BoundTo(byFile, l) = {}
      BY <2>2 DEF BoundTo, Files
    <3>2. BoundTo(byFile, l) \in SUBSET (1..0)
      BY <3>1
    <3>3. Max({0} \cup BoundTo(byFile, l)) \in {0} \cup BoundTo(byFile, l)
      BY <3>2, MaxWithZero
    <3> QED BY <3>1, <3>3 DEF LastBound
  <2>4. armed = [l \in Lines |-> LastBound(byFile, l)]
    BY <2>3 DEF Init
  <2>5. CounterOK(hits) /\ CounterOK(arrivals)
    BY <2>1, <2>2, Zenon DEF CounterOK
  <2>6. \A f \in Files : DOMAIN byFile[f] = 1..0
    BY <2>2
  <2> QED BY <2>1, <2>2, <2>4, <2>5, <2>6 DEF TableInv
<1>2. StepInv /\ TableInv /\ [Next]_vars => TableInv'
  <2> SUFFICES ASSUME StepInv, TableInv, [Next]_vars PROVE TableInv'
    OBVIOUS
  <2>1. ASSUME UNCHANGED <<byFile, armed, hits, arrivals>> PROVE TableInv'
    BY <2>1, Zenon DEF TableInv, CounterOK, LastBound, BoundTo
  <2>2. CASE Hook
    BY <2>2, HookTable DEF StepInv
  <2>3. CASE \E ask \in Asks : SetBreakpoints(ask)
    BY <2>3, SetTable
  <2>4. CASE ~Hook /\ ~(\E ask \in Asks : SetBreakpoints(ask))
    <3>1. UNCHANGED <<byFile, armed, hits, arrivals>>
      BY <2>4, Zenon DEF Next, vars, breaks, Resume, Pause, Move, CallClosure, ReturnValue, NextCallback,
                  RunEnds, Over, Executes
    <3> QED BY <2>1, <3>1
  <2> QED BY <2>2, <2>3, <2>4
<1> QED BY <1>1, <1>2, StepInvariance, PTL DEF Spec

(* A breakpoint with skips stops only after more arrivals than that, for    *)
(* every program, every set of requests and every number of skips.          *)
THEOREM SkipsAreHonoured == Spec => SkipsHonoured
<1> DEFINE file == FileOf[positionOf]
           Late == \E i \in DOMAIN byFile[file] :
                     /\ byFile[file][i].bound = positionOf
                     /\ arrivals'[file][i] > byFile[file][i].skip
<1>1. ASSUME StepInv, TableInv, TableInv', [Next]_vars, reason' = "breakpoint", reason = "none"
      PROVE  Late
  <2>1. Hook
    BY <1>1, Zenon DEF Next, vars, stepping, SetBreakpoints, Resume, Pause, Move, CallClosure, ReturnValue,
                NextCallback, RunEnds, Over, Executes
  <2>2. AtSite /\ hits'[file][armed[positionOf]] > byFile[file][armed[positionOf]].skip
    BY <1>1, <2>1, Zenon DEF Hook, BreakTest, StepTest, Halt, Pass
  <2> DEFINE b == armed[positionOf]
  <2>3. b \in BoundTo(byFile, positionOf) /\ file \in Files /\ b \in DOMAIN byFile[file] /\ byFile' = byFile
    BY <1>1, <2>1, <2>2, HookCounts, Zenon DEF StepInv
  <2>4. byFile[file][b].bound = positionOf
    BY <2>3, Zenon DEF BoundTo
  <2>5. /\ hits'[file][b] <= arrivals'[file][b]
        /\ hits'[file][b] \in Int /\ arrivals'[file][b] \in Int /\ byFile[file][b].skip \in Int
    BY <1>1, <2>3, SteppingAssumption DEF TableInv, CounterOK
  <2>6. arrivals'[file][b] > byFile[file][b].skip
    BY <2>2, <2>5
  <2> QED BY <2>3, <2>4, <2>6, Zenon
<1>2. StepInv /\ TableInv /\ TableInv' /\ [Next]_vars => [reason' = "breakpoint" /\ reason = "none" => Late]_vars
  BY <1>1, Zenon
<1> QED BY <1>2, StepInvariance, TableInvariance, PTL DEF Spec, SkipsHonoured

(* The program never runs past a line all of whose markers stop at once,    *)
(* for every program and every history of requests.                         *)
THEOREM MarkersAlwaysStop == Spec => MarkersStop
<1> DEFINE Free == \/ ~IsSite(Top.fn, Top.ip)
                   \/ BoundTo(byFile, positionOf) = {}
                   \/ \E i \in BoundTo(byFile, positionOf) : byFile[FileOf[positionOf]][i].skip > 0
<1>1. ASSUME StepInv, TableInv, [Next]_vars, phase = "hook", phase' = "exec"
      PROVE  Free
  <2>1. Hook
    BY <1>1 DEF Next, vars, SetBreakpoints, Resume, Pause, Move, CallClosure, ReturnValue,
                NextCallback, RunEnds, Over, Executes
  <2> SUFFICES ASSUME IsSite(Top.fn, Top.ip) PROVE Free
    OBVIOUS
  <2>2. positionOf \in Lines
    BY <1>1, TopFrame, Zenon DEF IsSite, positionOf, StepInv
  <2>3. CASE armed[positionOf] = 0
    BY <1>1, <2>2, <2>3, ArmedIsBound, Zenon
  <2>4. CASE armed[positionOf] # 0
    <3> DEFINE file == FileOf[positionOf]
               b == armed[positionOf]
    <3>1. AtSite
      BY <2>4 DEF AtSite
    <3>2. /\ b \in BoundTo(byFile, positionOf) /\ file \in Files /\ b \in DOMAIN byFile[file]
      BY <1>1, <2>1, <3>1, HookCounts, Zenon DEF StepInv
    <3>3. hits' = Counted(hits, file, {b}) /\ ~(hits'[file][b] > byFile[file][b].skip)
      BY <1>1, <2>1, <3>1, Zenon DEF Hook, BreakTest, Halt
    <3>4. hits'[file][b] = IF hits[file][b] < MaxHits THEN hits[file][b] + 1 ELSE hits[file][b]
      <4>1. CounterOK(hits)
        BY <1>1, Zenon DEF TableInv
      <4> HIDE DEF file, b
      <4> QED BY <3>2, <3>3, <4>1, CountedAt, ZenonT(40)
    <3>5. hits[file][b] \in 0..MaxHits /\ MaxHits \in Nat /\ byFile[file][b].skip \in 0..(MaxHits - 1)
      BY <1>1, <3>2, SteppingAssumption, Zenon DEF TableInv, CounterOK
    <3>6. byFile[file][b].skip > 0
      BY <3>3, <3>4, <3>5, SMTT(30)
    <3> QED BY <3>2, <3>6, Zenon
  <2> QED BY <2>3, <2>4, Zenon
<1>2. StepInv /\ TableInv /\ [Next]_vars => [phase = "hook" /\ phase' = "exec" => Free]_vars
  BY <1>1, Zenon
<1> QED BY <1>2, StepInvariance, TableInvariance, PTL DEF Spec, MarkersStop

-----------------------------------------------------------------------------
(* The debug session *)

(* The executor on its way out.                                             *)
Ending == {"exiting", "exitSend", "closing", "gone"}

SessionType ==
  /\ exec \in {"unstarted", "running", "instr", "publish", "park", "waking"} \cup Ending
  /\ done \in BOOLEAN /\ closed \in BOOLEAN /\ launched \in BOOLEAN /\ hasty \in BOOLEAN
  /\ pump \in {"none", "recv", "got", "reset", "gotExit", "gone"}
  /\ loop \in {"idle", "sending", "reading", "expanding", "shutdown", "draining", "over"}
  /\ refs \subseteq {"now", "old"} /\ reading \in {"none", "now", "old"}
  /\ loop \in {"reading", "expanding"} => reading # "none"
  /\ client \in {"running", "stopped"}

(* Only a request loop that is leaving has closed done, the pump lives as   *)
(* long as the executor, and the exit reaches the pump unless done was      *)
(* closed.                                                                  *)
ExitInv ==
  /\ done => launched /\ loop \in {"shutdown", "draining", "over"}
  /\ closed <=> exec = "gone"
  /\ exec = "unstarted" <=> pump = "none"
  /\ pump \in {"gotExit", "gone"} => exec \in {"closing", "gone"}
  /\ exec \in {"closing", "gone"} /\ ~done => pump \in {"gotExit", "gone"}
  /\ ExitPublished

(* From the moment the pump has a stop until a client that waits resumes,   *)
(* the executor is parked or on its way out; that client resumes and reads  *)
(* only then, and expands a scope only then; and what it is told of comes   *)
(* after the references were dropped.                                       *)
Told == client = "stopped" \/ pump \in {"got", "reset"}

PatientInv ==
  ~hasty =>
    /\ Told => exec \in {"park"} \cup Ending /\ (done \/ exec = "park")
    /\ pump \in {"got", "reset"} => client = "running"
    /\ loop = "sending" => exec = "park" /\ client = "running" /\ pump = "recv"
    /\ loop \in {"reading", "expanding"} => exec = "park" /\ client = "stopped" /\ reading = "now"
    /\ client = "stopped" \/ pump = "reset" => "old" \notin refs

SessionInv == SessionType /\ ExitInv /\ PatientInv

(* Every step of a session keeps the invariant.                             *)
LEMMA SessionStep ==
  ASSUME SessionInv, [SessionNext]_sessionVars
  PROVE  SessionInv'
<1> USE DEF SessionInv, SessionType, ExitInv, PatientInv, Told, Ending, ExitPublished,
            engine, session
<1>1. CASE StepTerminated
  BY <1>1, ZenonT(40) DEF StepTerminated
<1>2. CASE StepPauses
  BY <1>2, ZenonT(40) DEF StepPauses, HaltParks
<1>3. CASE PublishStop
  BY <1>3, ZenonT(40) DEF PublishStop
<1>4. CASE HaltTerminated
  BY <1>4, ZenonT(40) DEF HaltTerminated
<1>5. CASE Wake
  BY <1>5 DEF Wake
<1>6. CASE Exit
  BY <1>6, ZenonT(40) DEF Exit
<1>7. CASE PublishExited
  BY <1>7 DEF PublishExited
<1>8. CASE ExitTerminated
  BY <1>8 DEF ExitTerminated
<1>9. CASE CloseEvents
  BY <1>9, ZenonT(40) DEF CloseEvents
<1>10. CASE StepStops
  BY <1>10 DEF StepStops, HaltParks
<1>11. CASE ProgramEnds
  BY <1>11, ZenonT(40) DEF ProgramEnds
<1>12. CASE Resumed
  BY <1>12, ZenonT(40) DEF Resumed
<1>13. CASE PumpReset
  BY <1>13, ZenonT(40) DEF PumpReset
<1>14. CASE PumpStopped
  BY <1>14, ZenonT(40) DEF PumpStopped
<1>15. CASE PublishExit
  BY <1>15, ZenonT(40) DEF PublishExit
<1>16. CASE PumpEnds
  BY <1>16, ZenonT(40) DEF PumpEnds
<1>17. CASE Launch
  BY <1>17, ZenonT(40) DEF Launch
<1>18. CASE ConfigurationDone
  BY <1>18, ZenonT(40) DEF ConfigurationDone
<1>19. CASE OnResume
  BY <1>19, ZenonT(40) DEF OnResume, MayAsk
<1>20. CASE OnRead
  BY <1>20, ZenonT(40) DEF OnRead, MayAsk
<1>21. CASE OnPause
  BY <1>21, ZenonT(40) DEF OnPause
<1>22. CASE OnDisconnect
  BY <1>22, ZenonT(40) DEF OnDisconnect
<1>23. CASE StreamEnds
  BY <1>23, ZenonT(40) DEF StreamEnds
<1>24. CASE ReadDone
  BY <1>24, ZenonT(40) DEF ReadDone
<1>25. CASE Shutdown
  BY <1>25, ZenonT(40) DEF Shutdown
<1>26. CASE Drained
  BY <1>26, ZenonT(40) DEF Drained
<1>27. CASE StepRuns
  BY <1>27, ZenonT(40) DEF StepRuns
<1>28. CASE InstrEnds
  BY <1>28, ZenonT(40) DEF InstrEnds
<1>29. CASE TaskStarts
  <2>1. UNCHANGED <<exec, done, closed, pump, exitPublished, loop, launched, refs, reading, client, hasty>>
    BY <1>29, Zenon DEF TaskStarts
  <2> QED BY <2>1, SMTT(30)
<1>30. CASE TasksEnd
  <2>1. UNCHANGED <<exec, done, closed, pump, exitPublished, loop, launched, refs, reading, client, hasty>>
    BY <1>30, Zenon DEF TasksEnd
  <2> QED BY <2>1, SMTT(30)
<1>31. CASE OnVariables
  <2>1. PICK age \in refs : reading' = age
    BY <1>31, Zenon DEF OnVariables
  <2>2. /\ loop = "idle" /\ loop' = "expanding" /\ hasty' = (hasty \/ client # "stopped")
        /\ UNCHANGED <<engine, done, pump, exitPublished, launched, refs, client>>
    BY <1>31, Zenon DEF OnVariables
  <2>3. ~done /\ reading' \in {"now", "old"}
    BY <2>1, <2>2
  <2>4. SessionType' /\ ExitInv'
    BY <2>2, <2>3, ZenonT(40)
  <2>5. ~hasty' => exec = "park" /\ client = "stopped" /\ reading' = "now"
    <3> SUFFICES ASSUME ~hasty' PROVE exec = "park" /\ client = "stopped" /\ reading' = "now"
      OBVIOUS
    <3>1. ~hasty /\ client = "stopped"
      BY <2>2, Zenon
    <3>2. (done \/ exec = "park") /\ "old" \notin refs
      BY <3>1, Zenon
    <3> QED BY <2>1, <2>3, <3>1, <3>2, Zenon
  <2>6. PatientInv'
    BY <2>2, <2>5, ZenonT(40)
  <2> QED BY <2>4, <2>6
<1>32. CASE UNCHANGED sessionVars
  BY <1>32 DEF sessionVars
<1> QED
  BY <1>1, <1>2, <1>3, <1>4, <1>5, <1>6, <1>7, <1>8, <1>9, <1>10, <1>11, <1>12, <1>13, <1>14, <1>15, <1>16, <1>17, <1>18, <1>19, <1>20, <1>21, <1>22, <1>23, <1>24, <1>25, <1>26, <1>27,
     <1>28, <1>29, <1>30, <1>31, <1>32, Zenon
     DEF SessionNext, Executor, Pump, Requests

(* The invariant holds throughout a session.                                *)
THEOREM SessionInvariance == SessionSpec => []SessionInv
<1>1. SessionInit => SessionInv
  BY Zenon DEF SessionInit, SessionInv, SessionType, ExitInv, PatientInv, Told, Ending, ExitPublished
<1> QED BY <1>1, SessionStep, PTL DEF SessionSpec

(* A session nobody ended publishes its exit before its pump is gone.       *)
THEOREM ExitIsPublished == SessionSpec => []ExitPublished
<1>1. SessionInv => ExitPublished
  BY DEF SessionInv, ExitInv, ExitPublished
<1> QED BY <1>1, SessionInvariance, PTL

(* A client that waits to be told of a stop never reads a moving stack.     *)
THEOREM ReadsAreParked == SessionSpec => []ReadsWhileParked
<1>1. SessionInv => ReadsWhileParked
  BY DEF SessionInv, PatientInv, SessionType, NeverReadsRunning, ReadsWhileParked
<1> QED BY <1>1, SessionInvariance, PTL

(* Told of a stop, such a client resolves no reference of an earlier one.   *)
THEOREM ReferencesFresh == SessionSpec => []RefsFresh
<1>1. SessionInv => RefsFresh
  BY DEF SessionInv, PatientInv, RefsFresh
<1> QED BY <1>1, SessionInvariance, PTL

=============================================================================

--------------------------- MODULE WalkWbcProofs ---------------------------
(***************************************************************************)
(* The control loop of demo/walk_wbc.cpp, proved for every set of times,   *)
(* commanded velocities, swing durations and step budgets.                 *)
(*                                                                         *)
(* The argument: the mode may go back and forth until StartWalking, but    *)
(* not any more once steps are taken (Stepping).  Until then the gait is   *)
(* at rest, the ramp is at zero and the reference of the walk is not yet   *)
(* begun; from then on the mode stays.                                     *)
(***************************************************************************)
EXTENDS WalkWbc, GaitSchedulerProofs

-----------------------------------------------------------------------------
(* What a velocity ramp promises, for every value, target and increment.   *)

(* The increment leads towards the target, or the ramp is there already.   *)
Aimed(r) ==
    /\ r.yDes > r.y => r.inc >= 0
    /\ r.yDes < r.y => r.inc <= 0

Between(a, x, b) ==
    \/ a <= x /\ x <= b
    \/ b <= x /\ x <= a

(* setPara takes a ramp to its new target in whole increments.             *)
LEMMA SetParaAims ==
    ASSUME NEW r \in Ramp, NEW yDes \in Int, NEW inc \in Int,
           NEW ticks \in Nat \ {0}, yDes - r.y = ticks * inc
    PROVE  /\ SetPara(r, yDes, ticks) \in Ramp
           /\ Aimed(SetPara(r, yDes, ticks))
<1> DEFINE s == SetPara(r, yDes, ticks)
<1>1. r.y \in Int /\ (ticks * inc) \div ticks = inc
  BY DEF Ramp
<1>2. s \in Ramp /\ s.y = r.y /\ s.yDes = yDes /\ s.inc = inc
  BY <1>1 DEF SetPara, Ramp
<1> HIDE DEF s
<1>3. Aimed(s)
  <2>1. yDes > r.y => inc >= 0
    BY <1>1
  <2>2. yDes < r.y => inc <= 0
    BY <1>1
  <2>3. QED BY <1>2, <2>1, <2>2 DEF Aimed
<1>4. QED BY <1>2, <1>3 DEF s

(* RampTrajectory::step never overshoots: the output moves towards the     *)
(* target and stays on this side of it, although within one and a half     *)
(* increments it jumps; and the next increment leads towards it again.     *)
THEOREM NoOvershoot ==
    ASSUME NEW r \in Ramp, Aimed(r)
    PROVE  /\ RampStep(r) \in Ramp
           /\ Aimed(RampStep(r))
           /\ Between(r.y, RampStep(r).y, r.yDes)
<1> DEFINE z == r.y + r.inc
           v == IF 2 * Magnitude(r.yDes - z) < 3 * Magnitude(r.inc)
                THEN r.yDes ELSE z
<1>1. r.y \in Int /\ r.yDes \in Int /\ r.inc \in Int
  BY DEF Ramp
<1>2. RampStep(r) = [r EXCEPT !.y = v]
  BY DEF RampStep
<1>3. v \in Int
  BY <1>1
<1> HIDE DEF v
<1>4. /\ RampStep(r) \in Ramp /\ RampStep(r).y = v
      /\ RampStep(r).yDes = r.yDes /\ RampStep(r).inc = r.inc
  BY <1>2, <1>3 DEF Ramp
<1>5. /\ Between(r.y, v, r.yDes)
      /\ r.yDes > v => r.inc >= 0
      /\ r.yDes < v => r.inc <= 0
  <2>1. CASE r.yDes = r.y
    BY <1>1, <2>1 DEF v, Magnitude, Between
  <2>2. CASE r.yDes > r.y
    BY <1>1, <2>2 DEF v, Magnitude, Between, Aimed
  <2>3. CASE r.yDes < r.y
    BY <1>1, <2>3 DEF v, Magnitude, Between, Aimed
  <2>4. QED BY <1>1, <2>1, <2>2, <2>3
<1>6. QED BY <1>4, <1>5 DEF Aimed

(* A ramp that has arrived stays: step goes on being called on every tick  *)
(* of a walk, with an increment that is never cleared.                     *)
THEOREM StaysAtTarget ==
    ASSUME NEW r \in Ramp, r.y = r.yDes
    PROVE  RampStep(r) = r
<1>1. r.y \in Int /\ r.yDes \in Int /\ r.inc \in Int
  BY DEF Ramp
<1>2. 2 * Magnitude(r.yDes - (r.y + r.inc)) < 3 * Magnitude(r.inc) \/ r.inc = 0
  BY <1>1 DEF Magnitude
<1>3. RampStep(r) = [r EXCEPT !.y = r.y]
  BY <1>1, <1>2 DEF RampStep
<1>4. QED BY <1>3 DEF Ramp

-----------------------------------------------------------------------------

(* Steps are being taken: nothing can change the mode any more.            *)
Stepping == EnableWalking /\ time >= StartStepping

ModeInv ==
    /\ time \in Nat
    /\ stage \in {"plan", "gait", "foot", "control", "exit"}
    /\ currentMode \in {"Null", "Standing", "Walking"}
    /\ currentMode = "Walking" => EnableWalking
    /\ Stepping => currentMode = "Walking"
    /\ stage \in {"gait", "foot"} => Stepping
    /\ stage = "foot" => bus.motionState = "Walk"
    /\ stage = "control" => (bus.motionState # "Stand" <=> Stepping)

GaitInv ==
    /\ IInv
    /\ ~Stepping => gait.supportPhase = "Double"

RampInv ==
    /\ vxLGen \in Ramp
    /\ vxCommanded = (currentMode = "Walking")
    /\ currentMode = "Walking" =>
           vxLGen.yDes = XvDes /\ vxLGen.inc = XvDes \div RampTicks
    /\ VelocityRamp

(* The reference of the centre of mass: not begun before the first step,   *)
(* due to be taken during the tick of the first step, taken after it.      *)
ComInv ==
    /\ ~Stepping =>
           /\ pCoMRefWorld = NoCoM
           /\ currentMode = "Walking" => pCoMDesInitialized = FALSE
    /\ Stepping /\ time = StartStepping /\ stage \in {"gait", "foot", "control"}
           => pCoMRefWorld = NoCoM /\ pCoMDesInitialized = FALSE
    /\ Stepping /\ (time > StartStepping \/ stage \in {"plan", "exit"})
           => pCoMRefWorld = MeasuredCoM(StartStepping)

(* The inductive invariant.                                                *)
WalkInv == ModeInv /\ GaitInv /\ RampInv /\ ComInv

-----------------------------------------------------------------------------
(* Standing is only chosen before the time of the first step, or always.   *)
LEMMA StandBeforeSteps ==
    ASSUME time \in Nat, NEW shifted \in BOOLEAN, ~RequestWalkingMode(shifted)
    PROVE  ~(EnableWalking /\ time + 1 >= StartStepping)
BY WalkWbcAssumption DEF RequestWalkingMode, ReadyToWalk

(* Stopping the scheduler keeps its invariant, with any start_walk.        *)
LEMMA HaltedIInv ==
    ASSUME IInv, Halted, start_walk' \in BOOLEAN
    PROVE  IInv' /\ gait'.supportPhase = "Double"
<1>1. gait.stepNumCur \in Nat /\ gait.stepNumCur <= StepNumDes
  BY DEF IInv, Sound, Gait, Budgeted
<1>2. QED BY <1>1, RestIInv DEF Halted

(* The choice of the mode stops the scheduler or leaves the gait alone.    *)
LEMMA SwitchGait ==
    ASSUME IInv, NEW mode, NEW startNow \in BOOLEAN, SwitchTo(mode, startNow)
    PROVE  /\ IInv'
           /\ mode # currentMode => gait'.supportPhase = "Double"
           /\ mode = currentMode => gait' = gait
<1>1. start_walk \in BOOLEAN
  BY DEF IInv, TypeOK
<1>2. start_walk' \in BOOLEAN
  BY <1>1 DEF SwitchTo
<1>3. CASE mode # currentMode
  <2>1. Halted
    BY <1>3 DEF SwitchTo
  <2>2. QED BY <1>2, <1>3, <2>1, HaltedIInv
<1>4. CASE mode = currentMode
  <2>1. UNCHANGED <<motionState, isIni, legStateNext, phi, gait,
                    enableNextStep, touchDown>>
    BY <1>4 DEF SwitchTo
  <2>2. QED BY <1>2, <1>4, <2>1, StartedIInv
<1>5. QED BY <1>3, <1>4

(* A landing counts, and neither changes the leg nor takes back the count. *)
LEMMA TransitionsLand ==
    ASSUME NEW g, Sound(g), g.supportPhase = "Single", NEW sensed \in BOOLEAN
    PROVE  \/ Transitions(g, sensed).stepNumCur = g.stepNumCur + 1
           \/ /\ Transitions(g, sensed).supportPhase = "Single"
              /\ Transitions(g, sensed).stanceLeg = g.stanceLeg
<1> DEFINE h == LandIfDue(g, sensed)
<1>1. h = g \/ h = EnterDoubleSupport(g)
  BY DEF LandIfDue
<1>2. CASE h = g
  BY <1>2 DEF Transitions, LiftIfDue
<1>3. CASE h = EnterDoubleSupport(g)
  <2>1. h \in Gait /\ h.stepNumCur = g.stepNumCur + 1
    <3>1. h.stepNumCur = g.stepNumCur + 1
      BY <1>3 DEF EnterDoubleSupport, Sound, Gait
    <3>2. QED BY <1>3, <3>1, EnterDoubleSound DEF Sound
  <2> HIDE DEF h
  <2>2. EnterSingleSupport(h).stepNumCur = h.stepNumCur
    BY <2>1 DEF EnterSingleSupport, Gait
  <2>3. Transitions(g, sensed).stepNumCur = h.stepNumCur
    BY <2>2 DEF Transitions, LiftIfDue, h
  <2>4. QED BY <2>1, <2>3
<1>4. QED BY <1>1, <1>2, <1>3

(* The gait through one action of the loop; a swing ends in a landing.     *)
LEMMA WalkGait ==
    ASSUME WalkInv, WalkWbcNext
    PROVE  /\ GaitInv'
           /\ gait.supportPhase = "Single" =>
                  \/ gait'.stepNumCur = gait.stepNumCur + 1
                  \/ /\ gait'.supportPhase = "Single"
                     /\ gait'.stanceLeg = gait.stanceLeg
<1>1. /\ IInv /\ time \in Nat /\ StartStepping \in Nat
      /\ gait.supportPhase = "Single" => Stepping
      /\ currentMode = "Walking" => EnableWalking
      /\ Stepping => currentMode = "Walking"
      /\ stage = "gait" => Stepping
      /\ gait.supportPhase \in {"Double", "Single"}
  BY WalkWbcAssumption DEF WalkInv, ModeInv, GaitInv, IInv, TypeOK, Gait
<1>2. ASSUME vars' = vars, time' = time
      PROVE  GaitInv' /\ gait' = gait
  <2>1. IInv'
    BY <1>1, <1>2, StartedIInv DEF vars, IInv, TypeOK
  <2>2. Stepping' <=> Stepping
    BY <1>2 DEF Stepping
  <2>3. QED BY <1>1, <1>2, <2>1, <2>2 DEF GaitInv, vars
<1>3. CASE StandTick
  <2>1. ~(EnableWalking /\ time + 1 >= StartStepping)
    BY <1>1, <1>3, StandBeforeSteps DEF StandTick
  <2>2. ~Stepping /\ gait.supportPhase = "Double"
    BY <1>1, <2>1 DEF Stepping
  <2>3. IInv' /\ gait'.supportPhase = "Double"
    BY <1>1, <1>3, <2>2, SwitchGait DEF StandTick
  <2>4. QED BY <2>2, <2>3 DEF GaitInv
<1>4. CASE ShiftTick
  <2>1. ~Stepping /\ gait.supportPhase = "Double"
    BY <1>1, <1>4 DEF ShiftTick, Stepping
  <2>2. IInv' /\ gait'.supportPhase = "Double"
    BY <1>1, <1>4, <2>1, SwitchGait DEF ShiftTick
  <2>3. QED BY <2>1, <2>2 DEF GaitInv
<1>5. CASE StepTick
  <2>1. SwitchTo("Walking", TRUE) /\ time' = time + 1 /\ time + 1 >= StartStepping
    BY <1>5 DEF StepTick
  <2>2. EnableWalking
    BY <1>5 DEF StepTick, RequestWalkingMode
  <2>3. Stepping'
    BY <2>1, <2>2 DEF Stepping
  <2>4. IInv' /\ (currentMode = "Walking" => gait' = gait)
    BY <1>1, <2>1, SwitchGait
  <2>5. QED BY <1>1, <2>3, <2>4 DEF GaitInv
<1>6. CASE StepGait
  <2>1. PICK sensed \in BOOLEAN, loaded \in BOOLEAN : StepWalk(sensed, loaded)
    BY <1>6 DEF StepGait, WalkTick
  <2> DEFINE g == Transitions(Tick(WalkFrom), sensed)
  <2>2. IInv'
    BY <1>1, <2>1, WalkIInv
  <2>3. Stepping' <=> Stepping
    BY <1>6 DEF StepGait, Stepping
  <2>4. GaitInv'
    BY <1>1, <1>6, <2>2, <2>3 DEF GaitInv, StepGait
  <2>5. Sound(Tick(WalkFrom)) /\ Sound(g)
    BY <1>1, WalkFromSound, TickSound, TransitionsSound
  <2>6. touchDown = FALSE /\ "Walk" \in MotionState
    BY <1>1 DEF IInv, NoForceTouchDown, MotionState
  <2>7. Publish("Walk", g, TRUE, loaded)
    BY <2>1 DEF StepWalk
  <2> HIDE DEF g
  <2>8. /\ gait'.supportPhase = g.supportPhase
        /\ gait'.stanceLeg = g.stanceLeg
        /\ gait'.stepNumCur = g.stepNumCur
    BY <2>5, <2>6, <2>7, PublishSound
  <2>9. ASSUME gait.supportPhase = "Single"
        PROVE  \/ gait'.stepNumCur = gait.stepNumCur + 1
               \/ /\ gait'.supportPhase = "Single"
                  /\ gait'.stanceLeg = gait.stanceLeg
    <3>1. WalkFrom = gait
      BY <1>1, <2>9 DEF WalkFrom, IInv, RestsUntilStarted
    <3>2. /\ Tick(gait).supportPhase = "Single"
          /\ Tick(gait).stanceLeg = gait.stanceLeg
          /\ Tick(gait).stepNumCur = gait.stepNumCur
      BY <1>1, <2>9, TickSound DEF IInv
    <3>3. \/ g.stepNumCur = gait.stepNumCur + 1
          \/ g.supportPhase = "Single" /\ g.stanceLeg = gait.stanceLeg
      BY <2>5, <3>1, <3>2, TransitionsLand DEF g
    <3>4. QED BY <2>8, <3>3
  <2>10. QED BY <2>4, <2>9
<1>7. CASE PlaceFoot \/ ControlStand \/ ControlWalk \/ EndFrame \/ Exited
  <2>1. vars' = vars /\ time' = time
    BY <1>7 DEF PlaceFoot, ControlStand, ControlWalk, EndFrame, Exited, walkVars
  <2>2. QED BY <1>2, <2>1
<1>8. QED BY <1>3, <1>4, <1>5, <1>6, <1>7 DEF WalkWbcNext

(* The mode and the stages through one action of the loop.                 *)
LEMMA WalkMode ==
    ASSUME WalkInv, WalkWbcNext
    PROVE  ModeInv'
<1>1. /\ time \in Nat /\ StartStepping \in Nat /\ ModeInv
      /\ currentMode = "Walking" => EnableWalking
      /\ Stepping => currentMode = "Walking"
  BY WalkWbcAssumption DEF WalkInv, ModeInv
<1>2. CASE StandTick
  <2>1. ~(EnableWalking /\ time + 1 >= StartStepping)
    BY <1>1, <1>2, StandBeforeSteps DEF StandTick
  <2>2. /\ time' = time + 1 /\ stage' = "control"
        /\ currentMode' = "Standing" /\ bus'.motionState = "Stand"
    BY <1>2 DEF StandTick, StandBranch, SwitchTo, StandingBus
  <2>3. ~Stepping'
    BY <2>1, <2>2 DEF Stepping
  <2>4. QED BY <1>1, <2>2, <2>3 DEF ModeInv
<1>3. CASE ShiftTick
  <2>1. /\ time' = time + 1 /\ stage' = "control" /\ time + 1 < StartStepping
        /\ currentMode' = "Walking" /\ bus'.motionState = "Stand"
    BY <1>3 DEF ShiftTick, StandBranch, SwitchTo, StandingBus
  <2>2. EnableWalking
    BY <1>3 DEF ShiftTick, RequestWalkingMode
  <2>3. ~Stepping'
    BY <1>1, <2>1 DEF Stepping
  <2>4. QED BY <1>1, <2>1, <2>2, <2>3 DEF ModeInv
<1>4. CASE StepTick
  <2>1. /\ time' = time + 1 /\ stage' = "gait" /\ time + 1 >= StartStepping
        /\ currentMode' = "Walking"
    BY <1>4 DEF StepTick, SwitchTo
  <2>2. EnableWalking
    BY <1>4 DEF StepTick, RequestWalkingMode
  <2>3. Stepping'
    BY <2>1, <2>2 DEF Stepping
  <2>4. QED BY <1>1, <2>1, <2>2, <2>3 DEF ModeInv
<1>5. CASE StepGait
  <2>1. stage = "gait" /\ stage' = "foot" /\ UNCHANGED <<time, currentMode>>
    BY <1>5 DEF StepGait, modeVars
  <2>2. Stepping' <=> Stepping
    BY <2>1 DEF Stepping
  <2>3. bus'.motionState = "Walk"
    <3>1. motionState' = "Walk"
      BY <1>5 DEF StepGait, WalkTick, StepWalk, Publish
    <3>2. QED BY <1>5, <3>1 DEF StepGait, GaitToBus
  <2>4. QED BY <1>1, <2>1, <2>2, <2>3 DEF ModeInv
<1>6. CASE PlaceFoot
  <2>1. /\ stage = "foot" /\ stage' = "control"
        /\ UNCHANGED <<time, currentMode, bus, vars>>
    BY <1>6 DEF PlaceFoot, modeVars
  <2>2. Stepping' <=> Stepping
    BY <2>1 DEF Stepping
  <2>3. QED BY <1>1, <2>1, <2>2 DEF ModeInv
<1>7. CASE ControlStand \/ ControlWalk \/ EndFrame \/ Exited
  <2>1. \/ stage' \in {"plan", "exit"} /\ UNCHANGED <<time, currentMode>>
        \/ UNCHANGED <<time, currentMode, stage, bus>>
    BY <1>7 DEF ControlStand, ControlWalk, EndFrame, Exited, walkVars, modeVars
  <2>2. Stepping' <=> Stepping
    BY <2>1 DEF Stepping
  <2>3. QED BY <1>1, <2>1, <2>2 DEF ModeInv
<1>8. QED BY <1>2, <1>3, <1>4, <1>5, <1>6, <1>7 DEF WalkWbcNext

(* The ramp: one increment keeps it on or above the straight line and not  *)
(* beyond the target.                                                      *)
LEMMA RampAdvances ==
    ASSUME NEW r \in Ramp, NEW s \in Nat, NEW n \in Nat, NEW x \in Nat,
           r.yDes = x, r.inc = s, r.y <= x, r.y >= Lesser(x, n * s)
    PROVE  /\ RampStep(r) \in Ramp
           /\ RampStep(r).yDes = x /\ RampStep(r).inc = s
           /\ RampStep(r).y <= x
           /\ RampStep(r).y >= Lesser(x, (n + 1) * s)
<1> DEFINE p == n * s
           q == (n + 1) * s
           v == IF 2 * Magnitude(x - (r.y + s)) < 3 * Magnitude(s)
                THEN x ELSE r.y + s
<1>1. p \in Nat /\ q \in Nat /\ q = p + s
  OBVIOUS
<1>2. r.y \in Int
  BY DEF Ramp
<1>3. RampStep(r) = [r EXCEPT !.y = v]
  BY DEF RampStep
<1> HIDE DEF p, q
<1>4. v \in Int /\ v <= x
  BY <1>2 DEF Magnitude
<1>5. v >= Lesser(x, q)
  <2>1. r.y >= Lesser(x, p)
    BY DEF p
  <2>2. QED BY <1>1, <1>2, <2>1 DEF Magnitude, Lesser
<1> HIDE DEF v
<1>6. RampStep(r) \in Ramp /\ RampStep(r).y = v
      /\ RampStep(r).yDes = x /\ RampStep(r).inc = s
  BY <1>3, <1>4 DEF Ramp
<1>7. QED BY <1>4, <1>5, <1>6 DEF q

(* The ramp through one action of the loop.                                *)
LEMMA WalkRamp ==
    ASSUME WalkInv, WalkWbcNext
    PROVE  RampInv'
<1> DEFINE S == XvDes \div RampTicks
           N == time - StartStepping + 1
<1>1. /\ time \in Nat /\ StartStepping \in Nat /\ RampInv
      /\ currentMode = "Walking" => EnableWalking
      /\ Stepping => currentMode = "Walking"
  BY WalkWbcAssumption DEF WalkInv, ModeInv
<1>2. S \in Nat /\ XvDes \in Nat
  BY WalkWbcAssumption
<1>3. /\ currentMode # "Walking" => vxLGen.y = 0
      /\ time < StartStepping => vxLGen.y = 0
  BY <1>1 DEF RampInv, VelocityRamp, Stepping
<1>4. currentMode \in {"Null", "Standing", "Walking"} /\ stage # "none"
  BY DEF WalkInv, ModeInv
<1> HIDE DEF S
<1>5. ASSUME RequestWalkingMode(TRUE) \/ EnableWalking
      PROVE  /\ Commanded \in Ramp /\ Commanded.y = vxLGen.y
             /\ Commanded.yDes = XvDes /\ Commanded.inc = S
  <2>1. CASE VxDue
    <3>1. vxLGen \in Ramp /\ vxLGen.y = 0
      BY <1>1, <1>3, <2>1 DEF VxDue, RampInv
    <3>2. (XvDes - vxLGen.y) \div RampTicks = S /\ S \in Int /\ XvDes \in Int
      BY <1>2, <3>1 DEF S
    <3>3. Commanded = [[vxLGen EXCEPT !.yDes = XvDes] EXCEPT !.inc = S]
      BY <2>1, <3>2 DEF Commanded, SetPara
    <3>4. QED BY <3>1, <3>2, <3>3 DEF Ramp
  <2>2. CASE ~VxDue
    BY <1>1, <2>2 DEF Commanded, VxDue, RampInv, S
  <2>3. QED BY <2>1, <2>2
<1>6. CASE StandTick
  <2>1. ~(EnableWalking /\ time + 1 >= StartStepping)
    BY <1>1, <1>6, StandBeforeSteps DEF StandTick
  <2>2. /\ time' = time + 1 /\ currentMode' = "Standing"
        /\ vxCommanded' = FALSE /\ vxLGen' = vxLGen
    BY <1>6 DEF StandTick, SwitchTo
  <2>3. vxLGen.y = 0
    BY <1>1, <1>3, <2>1 
  <2>4. VelocityRamp'
    BY <1>1, <2>1, <2>2, <2>3 DEF VelocityRamp
  <2>5. QED BY <1>1, <2>2, <2>4 DEF RampInv
<1>7. CASE ShiftTick
  <2>1. /\ time' = time + 1 /\ time + 1 < StartStepping
        /\ currentMode' = "Walking" /\ EnableWalking
        /\ vxCommanded' = TRUE /\ vxLGen' = Commanded
    BY <1>7 DEF ShiftTick, SwitchTo, RequestWalkingMode
  <2>2. vxLGen'.y = 0
    BY <1>1, <1>3, <1>5, <2>1
  <2>3. VelocityRamp'
    BY <2>1, <2>2 DEF VelocityRamp
  <2>4. QED BY <1>5, <2>1, <2>3 DEF RampInv, S
<1>8. CASE StepTick
  <2>1. /\ time' = time + 1 /\ time + 1 >= StartStepping
        /\ currentMode' = "Walking" /\ EnableWalking
        /\ vxCommanded' = TRUE /\ vxLGen' = RampStep(Commanded)
    BY <1>8 DEF StepTick, SwitchTo, RequestWalkingMode
  <2>2. /\ N \in Nat /\ vxLGen.y <= XvDes /\ vxLGen.y >= Lesser(XvDes, N * S)
    <3>1. CASE time < StartStepping
      <4>1. N = 0 /\ N * S = 0
        BY <1>1, <1>2, <2>1, <3>1
      <4>2. QED BY <1>2, <1>3, <3>1, <4>1 DEF Lesser
    <3>2. CASE ~(time < StartStepping)
      BY <1>1, <2>1, <3>2 DEF RampInv, VelocityRamp, S
    <3>3. QED BY <3>1, <3>2
  <2> HIDE DEF N
  <2>3. /\ RampStep(Commanded) \in Ramp
        /\ RampStep(Commanded).yDes = XvDes /\ RampStep(Commanded).inc = S
        /\ RampStep(Commanded).y <= XvDes
        /\ RampStep(Commanded).y >= Lesser(XvDes, (N + 1) * S)
    BY <1>2, <1>5, <2>1, <2>2, RampAdvances
  <2>4. N + 1 = time' - StartStepping + 1
    BY <1>1, <2>1 DEF N
  <2>5. VelocityRamp'
    BY <1>1, <2>1, <2>3, <2>4 DEF VelocityRamp, S
  <2>6. QED BY <2>1, <2>3, <2>5 DEF RampInv, S
<1>9. CASE StepGait \/ PlaceFoot \/ ControlStand \/ ControlWalk \/ EndFrame
           \/ Exited
  <2>1. UNCHANGED <<time, currentMode, vxCommanded, vxLGen>>
    BY <1>9 DEF StepGait, PlaceFoot, ControlStand, ControlWalk, EndFrame,
                Exited, walkVars, modeVars
  <2>2. QED BY <1>1, <2>1 DEF RampInv, VelocityRamp
<1>10. QED BY <1>6, <1>7, <1>8, <1>9 DEF WalkWbcNext

(* The reference of the centre of mass through one action of the loop.     *)
LEMMA WalkCom ==
    ASSUME WalkInv, WalkWbcNext
    PROVE  ComInv'
<1>1. /\ time \in Nat /\ StartStepping \in Nat /\ ModeInv /\ ComInv
      /\ currentMode = "Walking" => EnableWalking
      /\ Stepping => currentMode = "Walking"
  BY WalkWbcAssumption DEF WalkInv, ModeInv
<1>2. CASE StandTick
  <2>1. ~(EnableWalking /\ time + 1 >= StartStepping)
    BY <1>1, <1>2, StandBeforeSteps DEF StandTick
  <2>2. /\ time' = time + 1 /\ currentMode' = "Standing"
        /\ pCoMRefWorld' = pCoMRefWorld
    BY <1>2 DEF StandTick, StandBranch, SwitchTo
  <2>3. ~Stepping' /\ ~Stepping
    BY <1>1, <2>1, <2>2 DEF Stepping
  <2>4. QED BY <1>1, <2>2, <2>3 DEF ComInv
<1>3. CASE ShiftTick
  <2>1. /\ time' = time + 1 /\ time + 1 < StartStepping
        /\ pCoMRefWorld' = pCoMRefWorld
        /\ pCoMDesInitialized' = ReferenceInitialized
    BY <1>3 DEF ShiftTick, StandBranch
  <2>2. ~Stepping' /\ ~Stepping
    BY <1>1, <2>1 DEF Stepping
  <2>3. pCoMDesInitialized' = FALSE
    BY <1>1, <2>1, <2>2 DEF ComInv, ReferenceInitialized, EntersWalking
  <2>4. QED BY <1>1, <2>1, <2>2, <2>3 DEF ComInv
<1>4. CASE StepTick
  <2>1. /\ time' = time + 1 /\ time + 1 >= StartStepping
        /\ stage = "plan" /\ stage' = "gait"
        /\ pCoMRefWorld' = pCoMRefWorld
        /\ pCoMDesInitialized' = ReferenceInitialized
    BY <1>4 DEF StepTick, RunsTick
  <2>2. EnableWalking
    BY <1>4 DEF StepTick, RequestWalkingMode
  <2>3. Stepping'
    BY <2>1, <2>2 DEF Stepping
  <2>4. CASE time < StartStepping
    <3>1. ~Stepping /\ time' = StartStepping
      BY <1>1, <2>1, <2>4 DEF Stepping
    <3>2. pCoMDesInitialized' = FALSE
      BY <1>1, <2>1, <3>1 DEF ComInv, ReferenceInitialized, EntersWalking
    <3>3. QED BY <1>1, <2>1, <2>3, <3>1, <3>2 DEF ComInv
  <2>5. CASE ~(time < StartStepping)
    <3>1. Stepping /\ time' > StartStepping
      BY <1>1, <2>1, <2>2, <2>5 DEF Stepping
    <3>2. QED
      BY <1>1, <2>1, <2>3, <3>1 DEF ComInv, MeasuredCoM
  <2>6. QED BY <2>4, <2>5
<1>5. CASE StepGait \/ PlaceFoot
  <2>1. /\ stage \in {"gait", "foot"} /\ stage' \in {"foot", "control"}
        /\ UNCHANGED <<time, currentMode, pCoMRefWorld, pCoMDesInitialized>>
    BY <1>5 DEF StepGait, PlaceFoot, modeVars, comVars
  <2>2. Stepping' <=> Stepping
    BY <2>1 DEF Stepping
  <2>3. Stepping
    BY <1>1, <2>1 DEF ModeInv
  <2>4. QED BY <1>1, <2>1, <2>2, <2>3 DEF ComInv, MeasuredCoM
<1>6. CASE ControlStand
  <2>1. /\ stage = "control" /\ stage' = "plan" /\ bus.motionState = "Stand"
        /\ UNCHANGED <<time, currentMode, pCoMRefWorld, pCoMDesInitialized>>
    BY <1>6 DEF ControlStand, modeVars, comVars
  <2>2. ~Stepping /\ ~Stepping'
    BY <1>1, <2>1 DEF ModeInv, Stepping
  <2>3. QED BY <1>1, <2>1, <2>2 DEF ComInv
<1>7. CASE ControlWalk
  <2> DEFINE des == IF pCoMDesInitialized THEN pCoMDes ELSE MeasuredCoM(time)
  <2>1. /\ stage = "control" /\ stage' = "plan" /\ bus.motionState # "Stand"
        /\ UNCHANGED <<time, currentMode>>
        /\ pCoMRefWorld' = IF pCoMRefWorld = NoCoM THEN des ELSE pCoMRefWorld
    BY <1>7 DEF ControlWalk, modeVars
  <2>2. Stepping /\ Stepping'
    BY <1>1, <2>1 DEF ModeInv, Stepping
  <2>3. pCoMRefWorld' = MeasuredCoM(StartStepping)
    <3>1. CASE time = StartStepping
      BY <1>1, <2>1, <2>2, <3>1 DEF ComInv
    <3>2. CASE time > StartStepping
      BY <1>1, <2>1, <2>2, <3>2 DEF ComInv, MeasuredCoM, NoCoM
    <3>3. QED BY <1>1, <2>2, <3>1, <3>2 DEF Stepping
  <2>4. QED BY <2>1, <2>2, <2>3 DEF ComInv, MeasuredCoM
<1>8. CASE EndFrame \/ Exited
  <2>1. /\ UNCHANGED <<time, currentMode, pCoMRefWorld, pCoMDesInitialized>>
        /\ stage' = stage \/ stage \in {"plan", "exit"}
        /\ stage' = stage \/ stage' \in {"plan", "exit"}
    BY <1>8 DEF EndFrame, Exited, walkVars, modeVars, comVars
  <2>2. Stepping' <=> Stepping
    BY <2>1 DEF Stepping
  <2>3. QED BY <1>1, <2>1, <2>2 DEF ComInv, MeasuredCoM
<1>9. QED BY <1>2, <1>3, <1>4, <1>5, <1>6, <1>7, <1>8 DEF WalkWbcNext

-----------------------------------------------------------------------------
(* The start of main establishes the inductive invariant.                  *)
LEMMA WalkInit == WalkWbcInit => WalkInv
<1> SUFFICES ASSUME WalkWbcInit PROVE WalkInv
  OBVIOUS
<1>1. /\ time = 0 /\ StartStepping \in Nat /\ StartStepping > 1
      /\ stage = "plan" /\ currentMode = "Null"
  BY WalkWbcAssumption DEF WalkWbcInit
<1>2. ~Stepping
  BY <1>1 DEF Stepping
<1>3. ModeInv
  BY <1>1, <1>2 DEF ModeInv
<1>4. GaitInv
  BY <1>2, InitIInv DEF WalkWbcInit, GaitInv, Init
<1>5. RampInv
  <2>1. vxLGen \in Ramp /\ vxLGen.y = 0
    BY DEF WalkWbcInit, RampAtZero, Ramp
  <2>2. VelocityRamp
    BY <1>1, <2>1 DEF VelocityRamp
  <2>3. vxCommanded = FALSE
    BY DEF WalkWbcInit
  <2>4. QED BY <1>1, <2>1, <2>2, <2>3 DEF RampInv
<1>6. ComInv
  BY <1>1, <1>2 DEF WalkWbcInit, ComInv
<1>7. QED BY <1>3, <1>4, <1>5, <1>6 DEF WalkInv

(* Nothing the invariant speaks of changes in a stuttering step.           *)
LEMMA WalkStutter ==
    ASSUME WalkInv, UNCHANGED walkVars
    PROVE  WalkInv'
<1>1. Stepping' <=> Stepping
  BY DEF walkVars, Stepping
<1>2. /\ vars' = vars
      /\ UNCHANGED <<stage, time, currentMode, vxCommanded, vxLGen, bus,
                     pCoMDesInitialized, pCoMRefWorld>>
  BY DEF walkVars, modeVars, comVars
<1>3. ModeInv'
  BY <1>1, <1>2 DEF WalkInv, ModeInv
<1>4. GaitInv'
  <2>1. IInv'
    BY <1>2, StartedIInv DEF vars, WalkInv, GaitInv, IInv, TypeOK
  <2>2. QED BY <1>1, <1>2, <2>1 DEF WalkInv, GaitInv, vars
<1>5. RampInv'
  BY <1>2 DEF WalkInv, RampInv, VelocityRamp
<1>6. ComInv'
  BY <1>1, <1>2 DEF WalkInv, ComInv, MeasuredCoM
<1>7. QED BY <1>3, <1>4, <1>5, <1>6 DEF WalkInv

(* The inductive invariant of the loop, however often the mode changes     *)
(* between StartShift and StartWalking.                                    *)
THEOREM WalkInvariance == WalkWbcSpec => []WalkInv
<1>1. WalkWbcInit => WalkInv
  BY WalkInit
<1>2. WalkInv /\ [WalkWbcNext]_walkVars => WalkInv'
  <2> SUFFICES ASSUME WalkInv, [WalkWbcNext]_walkVars PROVE WalkInv'
    OBVIOUS
  <2>1. CASE WalkWbcNext
    BY <2>1, WalkMode, WalkGait, WalkRamp, WalkCom DEF WalkInv
  <2>2. CASE UNCHANGED walkVars
    BY <2>2, WalkStutter
  <2>3. QED BY <2>1, <2>2
<1>3. QED BY <1>1, <1>2, PTL DEF WalkWbcSpec

(* The ramp of the forward velocity waits for the first step and is then   *)
(* neither late nor beyond its target, for every duration and velocity.    *)
THEOREM VelocityRampHolds == WalkWbcSpec => []VelocityRamp
<1>1. WalkInv => VelocityRamp
  BY DEF WalkInv, RampInv
<1>2. QED BY <1>1, WalkInvariance, PTL

(* The reference the walk moves on is the centre of mass of its first      *)
(* tick, for every set of times.                                           *)
THEOREM WalkBeginsHereHolds == WalkWbcSpec => []WalkBeginsHere
<1>1. WalkInv => WalkBeginsHere
  <2> SUFFICES ASSUME WalkInv, pCoMRefWorld # NoCoM
               PROVE  pCoMRefWorld = MeasuredCoM(StartStepping)
    BY DEF WalkBeginsHere
  <2>1. Stepping
    BY DEF WalkInv, ComInv
  <2>2. time = StartStepping \/ time > StartStepping
    BY <2>1, WalkWbcAssumption DEF Stepping, WalkInv, ModeInv
  <2>3. stage \in {"gait", "foot", "control"} \/ stage \in {"plan", "exit"}
    BY DEF WalkInv, ModeInv
  <2>4. QED BY <2>1, <2>2, <2>3 DEF WalkInv, ComInv
<1>2. QED BY <1>1, WalkInvariance, PTL

(* No change of the mode takes a foot out of a swing: every swing ends in  *)
(* a landing that is counted, for every set of times and durations.        *)
THEOREM SwingsEndInLandingsHolds == WalkWbcSpec => SwingsEndInLandings
<1>1. WalkInv /\ [WalkWbcNext]_walkVars =>
          [gait.supportPhase = "Single" =>
               \/ gait'.stepNumCur = gait.stepNumCur + 1
               \/ /\ gait'.supportPhase = "Single"
                  /\ gait'.stanceLeg = gait.stanceLeg]_walkVars
  BY WalkGait
<1>2. QED BY <1>1, WalkInvariance, PTL DEF WalkWbcSpec, SwingsEndInLandings

-----------------------------------------------------------------------------
(* The agreement of the controllers with the scheduler.  Between the       *)
(* scheduler and the controllers the bus says what the scheduler says;     *)
(* the standing branches, which write it without asking, run only before   *)
(* the first step, when the gait rests on both feet with the turn at the   *)
(* first leg.                                                              *)
BusAgrees ==
    /\ bus.contacts = Contacts
    /\ bus.stanceLeg = gait.stanceLeg
    /\ bus.doubleSupport = (gait.supportPhase = "Double")

(* Where the foot now in the air left the ground.                          *)
SwingOrigin == Sample(OppositeStance(gait.stanceLeg), gait.stepNumCur)

(* The planner follows this swing.                                         *)
Followed ==
    /\ lastLegState = gait.stanceLeg
    /\ referenceAtStepStart = SwingOrigin

(* The planner's memory is that of the swing in progress or of one that    *)
(* ended with the present stance leg.                                      *)
PlannerInv ==
    /\ gait.supportPhase = "Double" => lastLegState \in {"DSt", gait.stanceLeg}
    /\ gait.supportPhase = "Single" =>
           /\ bus.swingStart = SwingOrigin
           /\ IF stage = "foot"
              THEN lastLegState = gait.stanceLeg => Followed
              ELSE /\ Followed
                   /\ posDes_W = [kind |-> "foothold",
                                  foot |-> OppositeStance(gait.stanceLeg)]

BusType ==
    bus \in [motionState : MotionState, legState : LegState,
             stanceLeg : Stance, doubleSupport : BOOLEAN,
             contacts : SUBSET Stance,
             swingStart : [foot : Stance \cup {"none"}, step : Nat]]

AgreeInv ==
    /\ BusType
    /\ ~Stepping => ~isIni /\ lastLegState = "DSt"
    /\ stage \in {"foot", "control"} => BusAgrees
    /\ stage = "foot" => bus.legState = gait.legState
    /\ PlannerInv
    /\ ControllersAgree

(* What a reader of the invariants needs to know of the types.             *)
LEMMA AgreeTypes ==
    ASSUME WalkInv
    PROVE  /\ IInv /\ gait \in Gait /\ gait.stepNumCur \in Nat
           /\ gait.stanceLeg \in Stance
           /\ gait.supportPhase \in {"Double", "Single"}
           /\ gait.supportPhase = "Double" => gait.legState = "DSt"
           /\ gait.supportPhase = "Single" => gait.legState = gait.stanceLeg
           /\ time \in Nat /\ StartStepping \in Nat
BY WalkWbcAssumption
   DEF WalkInv, GaitInv, IInv, ModeInv, Sound, Agrees, Gait

(* A standing branch, which runs before the first step only.               *)
LEMMA StandAgrees ==
    ASSUME WalkInv, WalkInv', AgreeInv, NEW mode, SwitchTo(mode, FALSE), StandBranch,
           ~Stepping, ~Stepping'
    PROVE  AgreeInv'
<1>1. isIni' = FALSE
  BY DEF SwitchTo, Halted, AgreeInv
<1>2. gait'.supportPhase = "Double" /\ gait'.stanceLeg = firstleg
  BY <1>1 DEF WalkInv, GaitInv, IInv, RestsUntilStarted
<1>3. /\ stage' = "control" /\ lastLegState' = "DSt"
      /\ bus' = [StandingBus EXCEPT !.swingStart = bus.swingStart]
  BY DEF StandBranch, AgreeInv, footVars
<1>4. /\ BusType'
      /\ bus'.contacts = Stance /\ bus'.stanceLeg = firstleg
      /\ bus'.doubleSupport = TRUE
  BY <1>3 DEF AgreeInv, BusType, StandingBus, MotionState, LegState, Stance,
              firstleg, NoReference
<1>5. BusAgrees'
  BY <1>2, <1>4 DEF BusAgrees, Contacts
<1>6. QED
  BY <1>1, <1>2, <1>3, <1>4, <1>5 DEF AgreeInv, PlannerInv, ControllersAgree

(* The first part of a stepping tick changes neither gait nor planner once *)
(* steps are taken; the first one starts from rest.                        *)
LEMMA StepTickAgrees ==
    ASSUME WalkInv, WalkInv', AgreeInv, StepTick
    PROVE  AgreeInv'
<1>1. /\ SwitchTo("Walking", TRUE) /\ stage = "plan" /\ stage' = "gait"
      /\ bus' = [bus EXCEPT !.motionState = "Walk"]
      /\ UNCHANGED footVars
      /\ time' = time + 1 /\ time + 1 >= StartStepping /\ EnableWalking
  BY DEF StepTick, RunsTick, RequestWalkingMode
<1>2. Stepping'
  BY <1>1 DEF Stepping
<1>3. BusType' /\ bus'.swingStart = bus.swingStart
  BY <1>1 DEF AgreeInv, BusType, MotionState
<1>4. CASE Stepping
  <2>1. gait' = gait
    BY <1>1, <1>4 DEF SwitchTo, WalkInv, ModeInv
  <2>2. QED
    BY <1>1, <1>2, <1>3, <2>1
       DEF AgreeInv, PlannerInv, Followed, SwingOrigin, ControllersAgree, footVars
<1>5. CASE ~Stepping
  <2>1. isIni' = FALSE
    BY <1>1, <1>5 DEF SwitchTo, Halted, AgreeInv
  <2>2. gait'.supportPhase = "Double"
    BY <2>1 DEF WalkInv, GaitInv, IInv, RestsUntilStarted
  <2>3. QED
    BY <1>1, <1>2, <1>3, <1>5, <2>2
       DEF AgreeInv, PlannerInv, ControllersAgree, footVars
<1>6. QED BY <1>4, <1>5

(* The scheduler's tick.                                                   *)
LEMMA StepGaitAgrees ==
    ASSUME WalkInv, WalkInv', AgreeInv, StepGait
    PROVE  AgreeInv'
<1>1. /\ stage = "gait" /\ stage' = "foot"
      /\ UNCHANGED <<lastLegState, referenceAtStepStart, posDes_W, time>>
      /\ bus' = GaitToBus
  BY DEF StepGait, footVars
<1>2. PICK sensed \in BOOLEAN, loaded \in BOOLEAN : StepWalk(sensed, loaded)
  BY DEF StepGait, WalkTick
<1>3. Move(gait, gait') /\ motionState' = "Walk"
  BY <1>2, WalkMoves, AgreeTypes DEF StepWalk, Publish
<1>4. /\ gait' \in Gait /\ gait'.stanceLeg \in Stance
      /\ gait'.supportPhase \in {"Double", "Single"}
      /\ gait'.supportPhase = "Single" =>
             gait'.swingStart = OppositeStance(gait'.stanceLeg)
  BY DEF WalkInv, GaitInv, IInv, Sound, Agrees, Gait
<1>5. Stepping' /\ Stepping
  BY <1>1 DEF WalkInv, ModeInv, Stepping
<1>6. /\ bus'.contacts = Contacts' /\ bus'.stanceLeg = gait'.stanceLeg
      /\ bus'.doubleSupport = (gait'.supportPhase = "Double")
      /\ bus'.legState = gait'.legState /\ bus'.swingStart = SwingStart
  BY <1>1 DEF GaitToBus
<1>7. BusType'
  <2>1. SwingStart \in [foot : Stance \cup {"none"}, step : Nat]
    BY <1>4 DEF SwingStart, AgreeInv, BusType, Sample, Gait
  <2>2. /\ motionState' \in MotionState /\ gait'.legState \in LegState
        /\ Contacts' \in SUBSET Stance
    BY <1>3, <1>4 DEF MotionState, Gait, Contacts
  <2>3. (gait'.supportPhase = "Double") \in BOOLEAN
    OBVIOUS
  <2>4. QED BY <1>1, <1>4, <2>1, <2>2, <2>3 DEF GaitToBus, BusType
<1>8. PlannerInv'
  <2>1. CASE Keep(gait, gait')
    <3>1. SwingOrigin' = SwingOrigin
      BY <2>1 DEF Keep, SwingOrigin
    <3>2. gait'.supportPhase = "Single" => bus'.swingStart = bus.swingStart
      BY <1>6, <2>1 DEF Keep, SwingStart, LiftOff
    <3>3. QED
      BY <1>1, <2>1, <3>1, <3>2 DEF Keep, AgreeInv, PlannerInv, Followed
  <2>2. CASE Lift(gait, gait') \/ Swap(gait, gait')
    <3>1. /\ gait'.stanceLeg = OppositeStance(gait.stanceLeg)
          /\ gait'.stanceLeg # gait.stanceLeg /\ gait'.stanceLeg # "DSt"
          /\ gait'.supportPhase = "Single"
      BY <1>4, <2>2, AgreeTypes, OppositeType DEF Lift, Swap, Stance
    <3>2. bus'.swingStart = SwingOrigin'
      BY <1>4, <1>6, <3>1 DEF SwingStart, LiftOff, SwingOrigin
    <3>3. lastLegState \in {"DSt", gait.stanceLeg}
      BY <1>1, AgreeTypes DEF AgreeInv, PlannerInv, Followed
    <3>4. QED BY <1>1, <3>1, <3>2, <3>3 DEF PlannerInv
  <2>3. CASE Land(gait, gait')
    BY <1>1, <2>3 DEF Land, AgreeInv, PlannerInv, Followed
  <2>4. QED BY <1>3, <2>1, <2>2, <2>3 DEF Move
<1>9. BusAgrees'
  BY <1>6 DEF BusAgrees
<1>10. ControllersAgree'
  BY <1>1 DEF ControllersAgree
<1>11. QED BY <1>1, <1>5, <1>6, <1>7, <1>8, <1>9, <1>10 DEF AgreeInv

(* The planner's call.                                                     *)
LEMMA PlaceFootAgrees ==
    ASSUME WalkInv, WalkInv', AgreeInv, PlaceFoot
    PROVE  AgreeInv'
<1>1. /\ stage = "foot" /\ stage' = "control" /\ vars' = vars
      /\ GetSwingPos(bus.legState, bus.swingStart)
      /\ UNCHANGED <<time, bus>>
  BY DEF PlaceFoot
<1>2. gait' = gait /\ isIni' = isIni /\ bus.legState = gait.legState
  BY <1>1 DEF vars, AgreeInv
<1>3. Stepping' /\ Stepping
  BY <1>1 DEF WalkInv, ModeInv, Stepping
<1>4. PlannerInv'
  <2>1. CASE gait.supportPhase = "Double"
    <3>1. bus.legState \notin Stance
      BY <1>2, <2>1, AgreeTypes DEF Stance
    <3>2. lastLegState' = lastLegState
      BY <1>1, <3>1 DEF GetSwingPos, IsNewStep
    <3>3. QED BY <1>2, <2>1, <3>2 DEF AgreeInv, PlannerInv
  <2>2. CASE gait.supportPhase = "Single"
    <3>1. bus.legState = gait.stanceLeg /\ bus.legState \in Stance
      BY <1>2, <2>2, AgreeTypes
    <3>2. /\ posDes_W' = [kind |-> "foothold",
                         foot |-> OppositeStance(gait.stanceLeg)]
          /\ lastLegState' = gait.stanceLeg
      BY <1>1, <3>1 DEF GetSwingPos, IsNewStep
    <3>3. referenceAtStepStart' = SwingOrigin
      BY <1>1, <2>2, <3>1
         DEF GetSwingPos, IsNewStep, AgreeInv, PlannerInv, Followed
    <3>4. bus'.swingStart = SwingOrigin /\ SwingOrigin' = SwingOrigin
      BY <1>1, <1>2, <2>2 DEF AgreeInv, PlannerInv, SwingOrigin
    <3>5. QED
      BY <1>1, <1>2, <2>2, <3>2, <3>3, <3>4 DEF PlannerInv, Followed
  <2>3. QED BY <2>1, <2>2, AgreeTypes
<1>5. BusAgrees'
  BY <1>1, <1>2 DEF AgreeInv, BusAgrees, Contacts
<1>6. QED
  BY <1>1, <1>3, <1>4, <1>5 DEF AgreeInv, BusType, ControllersAgree

(* Either controller works with what the bus says, which is what the       *)
(* scheduler says.                                                         *)
LEMMA ControlAgrees ==
    ASSUME WalkInv, WalkInv', AgreeInv, ControlStand \/ ControlWalk
    PROVE  AgreeInv'
<1>1. /\ stage = "control" /\ stage' = "plan" /\ vars' = vars
      /\ UNCHANGED <<lastLegState, referenceAtStepStart, posDes_W, time, bus>>
  BY DEF ControlStand, ControlWalk, footVars
<1>2. gait' = gait /\ isIni' = isIni /\ Contacts' = Contacts
  BY <1>1 DEF vars, Contacts
<1>3. BusAgrees
  BY <1>1 DEF AgreeInv
<1>4. PlannerInv'
  BY <1>1, <1>2 DEF AgreeInv, PlannerInv, Followed, SwingOrigin
<1>5. CASE ControlStand
  <2>1. gait.supportPhase = "Double"
    BY <1>1, <1>5 DEF ControlStand, WalkInv, ModeInv, GaitInv
  <2>2. /\ Fr_ff' = Stance
        /\ controller'.contacts = Stance
        /\ controller'.stance = bus.stanceLeg /\ controller'.passiveAnkles = {}
    BY <1>5 DEF ControlStand
  <2>3. ControllersAgree'
    BY <1>2, <1>3, <2>1, <2>2 DEF ControllersAgree, BusAgrees, Contacts
  <2>4. QED
    BY <1>1, <1>2, <1>4, <2>3 DEF AgreeInv, BusType, Stepping
<1>6. CASE ControlWalk
  <2>1. /\ Fr_ff' = NominalForces
        /\ controller'.contacts = bus.contacts
        /\ controller'.stance = bus.stanceLeg
        /\ controller'.passiveAnkles =
               IF bus.doubleSupport THEN {} ELSE {bus.stanceLeg}
    BY <1>6 DEF ControlWalk
  <2>2. NominalForces = Contacts
    BY <1>3, AgreeTypes DEF NominalForces, BusAgrees, Contacts, Stance
  <2>3. /\ controller'.contacts = Contacts /\ Fr_ff' = Contacts
        /\ controller'.stance = gait.stanceLeg
        /\ controller'.passiveAnkles =
               IF gait.supportPhase = "Single" THEN {gait.stanceLeg} ELSE {}
    BY <1>3, <2>1, <2>2, AgreeTypes DEF BusAgrees
  <2>4. gait.supportPhase = "Single" =>
            /\ posDes_W = [kind |-> "foothold",
                           foot |-> OppositeStance(gait.stanceLeg)]
            /\ referenceAtStepStart = SwingOrigin
    BY <1>1 DEF AgreeInv, PlannerInv, Followed
  <2>5. ControllersAgree'
    BY <1>1, <1>2, <2>3, <2>4 DEF ControllersAgree, SwingOrigin
  <2>6. QED
    BY <1>1, <1>2, <1>4, <2>5 DEF AgreeInv, BusType, Stepping
<1>7. QED BY <1>5, <1>6

(* The end of a frame, the end of the program and a stuttering step.       *)
LEMMA QuietAgrees ==
    ASSUME AgreeInv, UNCHANGED <<vars, footVars, time, bus, controlVars>>,
           stage' = stage \/ (stage = "plan" /\ stage' \in {"plan", "exit"})
    PROVE  AgreeInv'
<1>1. gait' = gait /\ isIni' = isIni /\ Contacts' = Contacts
  BY DEF vars, Contacts
<1>2. Stepping' <=> Stepping
  BY DEF Stepping
<1>3. PlannerInv' /\ BusType'
  BY <1>1 DEF AgreeInv, PlannerInv, Followed, SwingOrigin, footVars, BusType
<1>4. ControllersAgree'
  BY <1>1 DEF AgreeInv, ControllersAgree, footVars, controlVars
<1>5. stage' \in {"foot", "control"} => BusAgrees'
  BY <1>1 DEF AgreeInv, BusAgrees
<1>6. QED
  BY <1>1, <1>2, <1>3, <1>4, <1>5 DEF AgreeInv, footVars

(* Whichever controller has computed the torques, it worked with the       *)
(* contacts, the stance leg and the swing of the scheduler, however often  *)
(* the mode has changed, for every set of times and durations.             *)
THEOREM ControllersAgreeHolds == WalkWbcSpec => []ControllersAgree
<1>1. WalkWbcInit => AgreeInv
  <2> SUFFICES ASSUME WalkWbcInit PROVE AgreeInv
    OBVIOUS
  <2>1. /\ stage = "plan" /\ controller.kind = "none" /\ isIni = FALSE
        /\ lastLegState = "DSt" /\ gait.supportPhase = "Double"
        /\ bus = [StandingBus EXCEPT !.stanceLeg = "LSt"]
    BY DEF WalkWbcInit, Init, FootInit
  <2>2. BusType
    BY <2>1 DEF BusType, StandingBus, MotionState, LegState, Stance, NoReference
  <2>3. QED
    BY <2>1, <2>2 DEF AgreeInv, PlannerInv, ControllersAgree
<1>2. /\ WalkInv /\ WalkInv' /\ AgreeInv
      /\ [WalkWbcNext]_walkVars
      => AgreeInv'
  <2> SUFFICES ASSUME WalkInv, WalkInv', AgreeInv, [WalkWbcNext]_walkVars
               PROVE  AgreeInv'
    OBVIOUS
  <2>1. CASE StandTick
    <3>1. ~(EnableWalking /\ time + 1 >= StartStepping)
      BY <2>1, StandBeforeSteps, AgreeTypes DEF StandTick
    <3>2. ~Stepping /\ ~Stepping'
      BY <2>1, <3>1, AgreeTypes DEF StandTick, Stepping
    <3>3. QED BY <2>1, <3>2, StandAgrees DEF StandTick
  <2>2. CASE ShiftTick
    <3>1. ~Stepping /\ ~Stepping'
      BY <2>2, AgreeTypes DEF ShiftTick, Stepping
    <3>2. QED BY <2>2, <3>1, StandAgrees DEF ShiftTick
  <2>3. CASE StepTick
    BY <2>3, StepTickAgrees
  <2>4. CASE StepGait
    BY <2>4, StepGaitAgrees
  <2>5. CASE PlaceFoot
    BY <2>5, PlaceFootAgrees
  <2>6. CASE ControlStand \/ ControlWalk
    BY <2>6, ControlAgrees
  <2>7. CASE EndFrame \/ UNCHANGED walkVars
    BY <2>7, QuietAgrees DEF EndFrame, walkVars
  <2>8. QED
    BY <2>1, <2>2, <2>3, <2>4, <2>5, <2>6, <2>7 DEF WalkWbcNext, Exited
<1>3. AgreeInv => ControllersAgree
  BY DEF AgreeInv
<1>4. QED
  BY <1>1, <1>2, <1>3, WalkInvariance, PTL DEF WalkWbcSpec
=============================================================================

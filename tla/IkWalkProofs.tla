---------------------------- MODULE IkWalkProofs ----------------------------
(***************************************************************************)
(* The walking loops whose legs follow inverse kinematics, proved for      *)
(* every set of durations, step budgets and solve intervals, and for both  *)
(* demos (SolvesStanding).                                                 *)
(*                                                                         *)
(* The argument for the forces: the ones in use were solved, or nominal,   *)
(* SolveAge scheduler ticks ago.  If the present phase is at least as old  *)
(* they are right (ForcesInv); a foot leaves the ground only from a double *)
(* support that lasted its full duration, so if that spans a solve the     *)
(* next stance foot was loaded already.                                    *)
(*                                                                         *)
(* The argument for the pace: Progress counts the ticks that the steps     *)
(* taken so far, and the part of the present one that is over, may have    *)
(* taken at the slowest; the clock is never ahead of it (PaceInv).         *)
(***************************************************************************)
EXTENDS IkWalk, WalkLoopProofs

ForcesInv ==
    /\ lastMpcPlaneForces \in SUBSET Stance
    /\ ~walkingStarted => lastMpcPlaneForces = Stance
    /\ stage = "mpc" /\ walkingStarted => Walking
    /\ stage = "plan" /\ time > 0 => tauFeet = lastMpcPlaneForces
    /\ walkingStarted /\ ~solveFailed =>
           /\ gait.phaseTime >= SolveAge => lastMpcPlaneForces = Contacts
           /\ DoubleSupport >= SolveEvery => gait.stanceLeg \in lastMpcPlaneForces

(* What the steps taken and the present one may have taken, at the slowest *)
Progress ==
    gait.stepNumCur * SlowestStep
        + (IF gait.supportPhase = "Double" THEN gait.phaseTime
           ELSE DoubleSupport + gait.phaseTime)

PaceInv ==
    walkingStarted /\ gait.stepNumCur < StepNumDes =>
        time - WalkStart <= Progress + (IF stage = "gait" /\ isIni THEN 1 ELSE 0)

(* The inductive invariant.                                                *)
IkInv == LoopInv /\ ForcesInv /\ PaceInv

-----------------------------------------------------------------------------
(* The forces through the scheduler's tick: a phase that goes on has seen  *)
(* as many ticks more as the forces are older; a new phase is younger than *)
(* the last solve, and the foot it stands on was loaded before.            *)
LEMMA TickForces ==
    ASSUME IkInv, IkStepGait
    PROVE  ForcesInv'
<1>1. /\ MoveInTime(gait, gait') /\ walkingStarted
      /\ stage = "gait" /\ stage' = "foot"
      /\ UNCHANGED <<time, iterationCounter, walkingStarted>>
  BY TickGaitMoves DEF IkStepGait, IkInv
<1>2. UNCHANGED <<lastMpcPlaneForces, solveFailed, tauFeet>>
  BY DEF IkStepGait, ikVars
<1>3. /\ SolveAge \in 0 .. SolveEvery /\ SolveAge < SolveEvery
      /\ SolveAge' = SolveAge + 1 /\ SolveEvery \in Nat /\ DoubleSupport \in Nat
  BY <1>1, SolveAges, WalkLoopAssumption, GaitAssumption
     DEF IkInv, LoopInv, LoopTypeOK
<1>4. gait' \in Gait /\ gait'.phaseTime \in Nat /\ gait.phaseTime \in Nat
      /\ gait.stanceLeg \in Stance
  BY TickGaitMoves, LoopTypes DEF IkStepGait, IkInv, IInv, Sound, Gait
<1>5. ASSUME walkingStarted, ~solveFailed
      PROVE  /\ gait'.phaseTime >= SolveAge' => lastMpcPlaneForces = Contacts'
             /\ DoubleSupport >= SolveEvery => gait'.stanceLeg \in lastMpcPlaneForces
  <2>1. /\ gait.phaseTime >= SolveAge => lastMpcPlaneForces = Contacts
        /\ DoubleSupport >= SolveEvery => gait.stanceLeg \in lastMpcPlaneForces
    BY <1>5 DEF IkInv, ForcesInv
  <2>2. CASE Keep(gait, gait') /\ gait'.phaseTime <= gait.phaseTime + 1
    <3>1. Contacts' = Contacts
      BY <2>2 DEF Keep, Contacts
    <3>2. gait'.phaseTime >= SolveAge' => gait.phaseTime >= SolveAge
      BY <1>3, <1>4, <2>2
    <3>3. QED BY <2>1, <2>2, <3>1, <3>2 DEF Keep
  <2>3. CASE /\ Lift(gait, gait') /\ gait'.phaseTime = 0
             /\ gait.phaseTime + 1 >= DoubleSupport
    <3>1. DoubleSupport >= SolveEvery => gait.phaseTime >= SolveAge
      BY <1>3, <1>4, <2>3
    <3>2. DoubleSupport >= SolveEvery => lastMpcPlaneForces = Stance
      BY <2>1, <2>3, <3>1 DEF Lift, Contacts
    <3>3. gait'.stanceLeg \in Stance
      BY <1>4 DEF Gait
    <3>4. ~(gait'.phaseTime >= SolveAge')
      BY <1>3, <2>3
    <3>5. QED BY <3>2, <3>3, <3>4
  <2>4. CASE Land(gait, gait') /\ gait'.phaseTime = 0
    BY <1>3, <2>1, <2>4 DEF Land
  <2>5. CASE Swap(gait, gait') /\ gait'.phaseTime = 0 /\ DoubleSupport = 0
    BY <1>3, <2>5, WalkLoopAssumption
  <2>6. QED BY <1>1, <2>2, <2>3, <2>4, <2>5 DEF MoveInTime
<1>6. QED
  BY <1>1, <1>2, <1>5 DEF IkInv, ForcesInv

(* The forces through the control step: solved for the contacts of the     *)
(* moment, nominal, or one tick older.                                     *)
LEMMA ControlForces ==
    ASSUME IkInv, IkControlStep
    PROVE  ForcesInv'
<1>1. /\ EndCycle /\ stage = "mpc" /\ stage' = "plan"
      /\ UNCHANGED <<time, walkingStarted>> /\ vars' = vars
  BY DEF IkControlStep, EndCycle
<1>2. PICK ok \in BOOLEAN :
          /\ solveFailed' = IF IkSolveDue THEN ~ok ELSE solveFailed
          /\ lastMpcPlaneForces' = ForcesNow(ok)
          /\ tauFeet' = ForcesNow(ok)
  BY DEF IkControlStep
<1>3. gait' = gait /\ Contacts' = Contacts
  BY <1>1 DEF vars, Contacts
<1>4. bus.contacts = Contacts /\ Contacts \in SUBSET Stance
      /\ gait.stanceLeg \in Contacts
  BY <1>1, LoopTypes DEF IkInv, LoopInv, BusInv, Contacts
<1>5. /\ SolveAge' = IF iterationCounter = 0 THEN 0 ELSE SolveAge
      /\ iterationCounter = 0 <=> iterationCounter \in {0}
  BY <1>1, SolveAges DEF IkInv, LoopInv, LoopTypeOK
<1>6. CASE ~walkingStarted
  <2>1. Contacts = Stance
    BY <1>6 DEF IkInv, LoopInv, StartInv, IInv, RestsUntilStarted, Contacts
  <2>2. ForcesNow(ok) = Stance
    BY <1>4, <1>6, <2>1 DEF ForcesNow, SolvedForces, IkInv, ForcesInv
  <2>3. QED BY <1>1, <1>2, <1>6, <2>2 DEF ForcesInv
<1>7. CASE walkingStarted
  <2>1. Walking /\ (IkSolveDue <=> iterationCounter = 0)
    BY <1>1, <1>7 DEF IkInv, ForcesInv, IkSolveDue
  <2>2. CASE iterationCounter = 0
    <3>1. ~solveFailed' => lastMpcPlaneForces' = Contacts
      BY <1>2, <1>4, <2>1, <2>2 DEF ForcesNow, SolvedForces
    <3>2. lastMpcPlaneForces' \in SUBSET Stance
      BY <1>2, <1>4, <2>1 DEF ForcesNow, SolvedForces, IkInv, ForcesInv
    <3>3. QED
      BY <1>1, <1>2, <1>3, <1>4, <1>7, <3>1, <3>2 DEF ForcesInv
  <2>3. CASE iterationCounter # 0
    <3>1. /\ lastMpcPlaneForces' = lastMpcPlaneForces
          /\ solveFailed' = solveFailed /\ SolveAge' = SolveAge
      BY <1>2, <1>5, <2>1, <2>3 DEF ForcesNow
    <3>2. QED
      BY <1>1, <1>2, <1>3, <1>7, <3>1 DEF IkInv, ForcesInv
  <2>4. QED BY <2>2, <2>3
<1>8. QED
  BY <1>6, <1>7, LoopTypes DEF IkInv

(* The pace through the scheduler's tick.                                  *)
LEMMA TickPace ==
    ASSUME IkInv, IkStepGait
    PROVE  PaceInv'
<1>1. /\ MoveInTime(gait, gait') /\ Punctual(gait') /\ walkingStarted
      /\ stage = "gait" /\ stage' = "foot" /\ IInv'
      /\ UNCHANGED <<time, iterationCounter, walkingStarted>>
  BY TickGaitMoves DEF IkStepGait, IkInv
<1>2. /\ gait' \in Gait /\ gait'.phaseTime \in Nat /\ gait.phaseTime \in Nat
      /\ gait.stepNumCur \in Nat /\ gait'.stepNumCur \in Nat
      /\ gait.supportPhase \in {"Double", "Single"}
      /\ time \in Nat /\ WalkStart \in Nat
  BY <1>1, LoopTypes DEF IkInv, IInv, Sound, Gait
<1>3. /\ DoubleSupport \in Nat /\ SingleSupport \in Nat /\ LateLanding \in Nat
      /\ SlowestStep \in Nat /\ StepNumDes \in Nat
      /\ SlowestStep = DoubleSupport + SingleSupport + LateLanding
  BY GaitAssumption DEF SlowestStep
<1> DEFINE n == gait.stepNumCur
           m == gait'.stepNumCur
           P == n * SlowestStep
           Q == m * SlowestStep
<1>4. P \in Nat /\ Q \in Nat
  BY <1>2, <1>3
<1>5. m = n + 1 => Q = P + SlowestStep
  BY <1>2, <1>3
<1>6. m = n => Q = P
  OBVIOUS
<1>7. /\ Progress = P + (IF gait.supportPhase = "Double" THEN gait.phaseTime
                         ELSE DoubleSupport + gait.phaseTime)
      /\ Progress' = Q + (IF gait'.supportPhase = "Double" THEN gait'.phaseTime
                          ELSE DoubleSupport + gait'.phaseTime)
  BY DEF Progress, SlowestStep
<1>8. n < StepNumDes =>
          time - WalkStart <= Progress + (IF isIni THEN 1 ELSE 0)
  BY <1>1 DEF IkInv, PaceInv
<1>9. /\ isIni => Punctual(gait) /\ motionState = "Walk"
      /\ ~isIni => gait.phaseTime = 0 /\ gait.supportPhase = "Double"
  BY DEF IkInv, LoopInv, StartInv, IInv, RestsUntilStarted
<1>10. gait.supportPhase = "Single" =>
           gait.phaseTime < SingleSupport + LateLanding
  BY <1>9 DEF IkInv, LoopInv, IInv, SwingBounded
<1> HIDE DEF P, Q
<1>11. ASSUME m < StepNumDes PROVE time - WalkStart <= Progress'
  <2>1. CASE /\ Keep(gait, gait')
             /\ gait.supportPhase = "Single" \/ gait.stepNumCur < StepNumDes
                    => gait'.phaseTime = gait.phaseTime + 1
    <3>1. m = n /\ gait'.phaseTime = gait.phaseTime + 1
          /\ gait'.supportPhase = gait.supportPhase
      BY <1>11, <2>1 DEF Keep
    <3>2. QED
      BY <1>2, <1>3, <1>4, <1>6, <1>7, <1>8, <1>11, <3>1
  <2>2. CASE Lift(gait, gait') /\ gait'.phaseTime = 0
    <3>1. /\ m = n /\ gait.supportPhase = "Double"
          /\ gait'.supportPhase = "Single"
      BY <2>2 DEF Lift
    <3>2. isIni => gait.phaseTime < DoubleSupport
      BY <1>9, <1>11, <3>1 DEF Punctual
    <3>3. QED
      BY <1>2, <1>3, <1>4, <1>6, <1>7, <1>8, <1>9, <1>11, <2>2, <3>1, <3>2
  <2>3. CASE \/ Land(gait, gait') /\ gait'.phaseTime = 0
             \/ Swap(gait, gait') /\ gait'.phaseTime = 0 /\ DoubleSupport = 0
    <3>1. m = n + 1 /\ n < StepNumDes /\ gait.supportPhase = "Single"
      BY <1>2, <1>3, <1>11, <2>3 DEF Land, Swap
    <3>2. Progress' = Q
      BY <1>4, <1>7, <2>3, <1>3 DEF Land, Swap
    <3>3. Progress = P + (DoubleSupport + gait.phaseTime)
      BY <1>7, <3>1
    <3>4. gait.phaseTime + 1 <= SingleSupport + LateLanding
      BY <1>2, <1>3, <1>10, <3>1
    <3>5. time - WalkStart <= Progress + 1
      BY <1>2, <1>3, <1>4, <1>8, <3>1, <3>3
    <3>6. Progress + 1 <= Q
      BY <1>2, <1>3, <1>4, <1>5, <3>1, <3>3, <3>4
    <3>7. QED
      BY <1>2, <1>3, <1>4, <3>2, <3>3, <3>5, <3>6
  <2>4. QED BY <1>1, <2>1, <2>2, <2>3 DEF MoveInTime
<1>12. Progress' \in Nat
  BY <1>2, <1>3, <1>4, <1>7
<1>13. gait'.stepNumCur < StepNumDes => time' - WalkStart <= Progress' + 0
  BY <1>1, <1>2, <1>3, <1>4, <1>7, <1>11
<1>14. stage' # "gait"
  BY <1>1
<1>15. QED BY <1>13, <1>14 DEF PaceInv

-----------------------------------------------------------------------------
(* The start of main establishes the inductive invariant.                  *)
LEMMA IkInitInv == IkInit => IkInv
<1> SUFFICES ASSUME IkInit PROVE IkInv
  OBVIOUS
<1>1. LoopInv
  BY LoopInitInv DEF IkInit
<1>2. /\ walkingStarted = FALSE /\ stage = "plan" /\ time = 0
      /\ lastMpcPlaneForces = Stance
  BY DEF IkInit, LoopInit
<1>3. QED BY <1>1, <1>2 DEF IkInv, ForcesInv, PaceInv

(* A tick before the walk keeps the forces that are nominal.               *)
LEMMA StandKeepsInv ==
    ASSUME IkInv, IkStand
    PROVE  IkInv'
<1>1. /\ LoopInv' /\ stage' = "mpc"
      /\ UNCHANGED <<walkingStarted, lastMpcPlaneForces, solveFailed>>
  BY StandStillInv DEF IkStand, IkInv, StandStill, ikVars
<1>2. ~walkingStarted
  BY LoopTypes DEF IkStand, StandStill, Simulate, RunsTick, IkInv, LoopInv, StartInv
<1>3. QED BY <1>1, <1>2 DEF IkInv, ForcesInv, PaceInv

(* The walk begins with nominal forces and no time lost.                   *)
LEMMA BeginKeepsInv ==
    ASSUME IkInv, IkBeginWalk
    PROVE  IkInv'
<1>1. gait.stepNumCur \in Nat /\ gait.stepNumCur <= StepNumDes
  BY LoopTypes DEF IkInv
<1>2. /\ LoopInv' /\ stage' = "gait" /\ ~walkingStarted
      /\ time' = WalkStart /\ gait'.supportPhase = "Double"
      /\ gait'.phaseTime = 0 /\ gait'.stepNumCur = gait.stepNumCur
      /\ gait'.stanceLeg \in Stance
  <2>1. StartWalk(gait.stepNumCur)
    BY DEF IkBeginWalk
  <2>2. stage' = "gait"
    BY <2>1 DEF StartWalk
  <2>3. LoopInv' => gait'.stanceLeg \in Stance
    BY DEF LoopInv, IInv, Sound, Gait
  <2>4. QED BY <1>1, <2>1, <2>2, <2>3, StartWalkInv DEF IkInv
<1>3. lastMpcPlaneForces' = Stance
  BY <1>2 DEF IkBeginWalk, IkInv, ForcesInv
<1>4. ForcesInv'
  BY <1>2, <1>3 DEF ForcesInv, Contacts
<1>5. PaceInv'
  <2>1. gait.stepNumCur * SlowestStep \in Nat
    <3>1. SlowestStep \in Nat
      BY GaitAssumption DEF SlowestStep
    <3>2. QED BY <1>1, <3>1
  <2>2. Progress' = gait.stepNumCur * SlowestStep
    BY <1>2, <2>1 DEF Progress, SlowestStep
  <2>3. isIni' = FALSE
    BY DEF IkBeginWalk, StartWalk
  <2>4. QED BY <1>2, <2>1, <2>2, <2>3, LoopTypes DEF PaceInv, IkInv
<1>6. QED BY <1>2, <1>4, <1>5 DEF IkInv

(* Every other walking tick starts with one tick more on the clock.        *)
LEMMA KeepKeepsInv ==
    ASSUME IkInv, IkKeepWalking
    PROVE  IkInv'
<1>1. /\ LoopInv' /\ stage = "plan" /\ stage' = "gait" /\ walkingStarted
      /\ time' = time + 1 /\ vars' = vars
      /\ UNCHANGED <<walkingStarted, iterationCounter>>
      /\ UNCHANGED <<lastMpcPlaneForces, solveFailed>>
  BY KeepWalkingInv DEF IkKeepWalking, KeepWalking, Simulate, RunsTick, IkInv, ikVars
<1>2. gait' = gait /\ isIni' = isIni /\ isIni
  BY <1>1 DEF vars, IkInv, LoopInv, StartInv
<1>3. ForcesInv'
  BY <1>1, <1>2 DEF IkInv, ForcesInv, Contacts, SolveAge
<1>4. PaceInv'
  <2>1. Progress' = Progress /\ Progress \in Nat
    <3>1. SlowestStep \in Nat /\ DoubleSupport \in Nat
      BY GaitAssumption DEF SlowestStep
    <3>2. gait.stepNumCur * SlowestStep \in Nat
      BY <3>1, LoopTypes DEF IkInv
    <3>3. QED BY <1>2, <3>1, <3>2, LoopTypes DEF Progress, SlowestStep, IkInv
  <2>2. QED
    BY <1>1, <1>2, <2>1, LoopTypes DEF IkInv, PaceInv
<1>5. QED BY <1>1, <1>3, <1>4 DEF IkInv

(* Stages that leave the scheduler and the clock alone keep the pace.      *)
LEMMA PaceStays ==
    ASSUME PaceInv, stage # "gait" \/ stage' = stage,
           stage' # "gait" \/ stage' = stage,
           UNCHANGED <<vars, time, walkingStarted>>
    PROVE  PaceInv'
BY DEF PaceInv, Progress, SlowestStep, vars

(* The inductive invariant of the loops, for both demos.                   *)
THEOREM IkInvariance == IkSpec => []IkInv
<1>1. IkInit => IkInv
  BY IkInitInv
<1>2. IkInv /\ [IkNext]_allIkVars => IkInv'
  <2> SUFFICES ASSUME IkInv, [IkNext]_allIkVars PROVE IkInv'
    OBVIOUS
  <2>1. CASE IkStand
    BY <2>1, StandKeepsInv
  <2>2. CASE IkBeginWalk
    BY <2>2, BeginKeepsInv
  <2>3. CASE IkKeepWalking
    BY <2>3, KeepKeepsInv
  <2>4. CASE IkStepGait
    <3>1. LoopInv'
      BY <2>4, TickGaitInv DEF IkStepGait, IkInv
    <3>2. QED BY <2>4, <3>1, TickForces, TickPace DEF IkInv
  <2>5. CASE IkPlaceFoot
    <3>1. /\ LoopInv' /\ Walking /\ stage = "foot" /\ stage' = "mpc"
          /\ vars' = vars /\ UNCHANGED <<time, walkingStarted, iterationCounter, bus>>
          /\ UNCHANGED <<lastMpcPlaneForces, solveFailed>>
      BY <2>5, PlanFootInv DEF IkPlaceFoot, PlanFoot, IkInv, ikVars
    <3>2. ForcesInv'
      BY <3>1 DEF IkInv, ForcesInv, Walking, Contacts, SolveAge, vars
    <3>3. QED BY <3>1, <3>2, PaceStays DEF IkInv
  <2>6. CASE IkControlStep
    <3>1. /\ LoopInv' /\ stage = "mpc" /\ stage' = "plan"
          /\ UNCHANGED <<vars, time, walkingStarted>>
      BY <2>6, EndCycleInv DEF IkControlStep, EndCycle, IkInv
    <3>2. QED BY <2>6, <3>1, ControlForces, PaceStays DEF IkInv
  <2>7. CASE IkEndFrame
    <3>1. /\ LoopInv' /\ stage = "plan" /\ stage' \in {"plan", "exit"}
          /\ UNCHANGED <<vars, time, walkingStarted, iterationCounter, bus>>
          /\ UNCHANGED <<lastMpcPlaneForces, solveFailed, tauFeet>>
      BY <2>7, EndFrameInv DEF IkEndFrame, EndFrame, IkInv, ikVars
    <3>2. ForcesInv'
      BY <3>1 DEF IkInv, ForcesInv, Walking, Contacts, SolveAge, vars
    <3>3. QED BY <3>1, <3>2, PaceStays DEF IkInv
  <2>8. CASE UNCHANGED allIkVars
    <3>1. /\ UNCHANGED <<vars, footVars, stage, time, iterationCounter,
                        walkingStarted, gaitStarted, bus>>
          /\ UNCHANGED <<lastMpcPlaneForces, solveFailed, tauFeet>>
      BY <2>8 DEF allIkVars, loopVars, ikVars
    <3>2. LoopInv'
      BY <2>8, LoopStutterInv DEF allIkVars, IkInv
    <3>3. ForcesInv'
      BY <3>1 DEF IkInv, ForcesInv, Walking, Contacts, SolveAge, vars
    <3>4. QED BY <3>1, <3>2, <3>3, PaceStays DEF IkInv
  <2>9. QED
    BY <2>1, <2>2, <2>3, <2>4, <2>5, <2>6, <2>7, <2>8 DEF IkNext, IkExited
<1>3. QED BY <1>1, <1>2, PTL DEF IkSpec

(* The legs' feed-forward is right within a solve interval of every        *)
(* exchange of the feet, for every duration and interval.                  *)
THEOREM LoadFollowsContactsHolds == IkSpec => []LoadFollowsContacts
<1>1. IkInv => LoadFollowsContacts
  <2> SUFFICES ASSUME IkInv, IkCycleDone, walkingStarted, ~solveFailed,
                      gait.phaseTime >= SolveEvery - 1
               PROVE  tauFeet = Contacts
    BY DEF LoadFollowsContacts
  <2>1. SolveAge < SolveEvery /\ SolveAge \in Nat /\ SolveEvery \in Nat
    BY SolveAges, WalkLoopAssumption
       DEF IkCycleDone, IkInv, LoopInv, LoopTypeOK
  <2>2. gait.phaseTime >= SolveAge
    BY <2>1, LoopTypes DEF IkInv
  <2>3. QED BY <2>2 DEF IkCycleDone, IkInv, ForcesInv
<1>2. QED BY <1>1, IkInvariance, PTL

(* The stance leg has a contact torque in every tick, for every double     *)
(* support that spans a solve.                                             *)
THEOREM StanceCarriedHolds == IkSpec => []StanceCarried
<1>1. IkInv => StanceCarried
  BY LoopTypes DEF StanceCarried, IkCycleDone, IkInv, ForcesInv
<1>2. QED BY <1>1, IkInvariance, PTL

(* The walk keeps the pace of the slowest step, for every step budget.     *)
THEOREM PaceKeptHolds == IkSpec => []PaceKept
<1>1. IkInv => PaceKept
  <2> SUFFICES ASSUME IkInv, IkCycleDone, walkingStarted,
                      gait.stepNumCur < StepNumDes
               PROVE  time - WalkStart < (gait.stepNumCur + 1) * SlowestStep
    BY DEF PaceKept
  <2> DEFINE P == gait.stepNumCur * SlowestStep
             Q == (gait.stepNumCur + 1) * SlowestStep
  <2>1. /\ DoubleSupport \in Nat /\ SingleSupport \in Nat /\ SingleSupport > 0
        /\ LateLanding \in Nat /\ SlowestStep \in Nat
        /\ SlowestStep = DoubleSupport + SingleSupport + LateLanding
    BY GaitAssumption DEF SlowestStep
  <2>2. P \in Nat /\ Q = P + SlowestStep
    BY <2>1, LoopTypes DEF IkInv
  <2>3. /\ stage = "plan" /\ isIni /\ Punctual(gait) /\ motionState = "Walk"
        /\ gait.supportPhase = "Single"
              => gait.phaseTime < SingleSupport + LateLanding
    BY DEF IkCycleDone, IkInv, LoopInv, StartInv, IInv, SwingBounded
  <2>4. gait.supportPhase = "Double" => gait.phaseTime < DoubleSupport
    BY <2>3 DEF Punctual
  <2>5. Progress = P + (IF gait.supportPhase = "Double" THEN gait.phaseTime
                        ELSE DoubleSupport + gait.phaseTime)
    BY DEF Progress, SlowestStep
  <2> HIDE DEF P, Q
  <2>6. Progress \in Nat /\ Progress < Q
    BY <2>1, <2>2, <2>3, <2>4, <2>5, LoopTypes DEF IkInv
  <2>7. time - WalkStart <= Progress
    BY <2>3, <2>6, LoopTypes DEF IkInv, PaceInv
  <2>8. QED BY <2>2, <2>1, <2>6, <2>7, LoopTypes DEF IkInv, Q
<1>2. QED BY <1>1, IkInvariance, PTL
=============================================================================

--------------------------- MODULE WbcWalkProofs ---------------------------
(***************************************************************************)
(* The control loop of demo/g1_cd_nmpc_wbc_walk.cpp, proved for every set  *)
(* of durations, step budgets and solve intervals.                         *)
(*                                                                         *)
(* The argument: to the invariant of the common loop add that a completed  *)
(* walk stands on both feet for good (CompleteInv), and that the wrench    *)
(* kept from the last solve loads the stance foot and, once a double       *)
(* support is older than that solve, both feet (WrenchInv).  A foot leaves *)
(* the ground only after a full double support, so if that spans a solve,  *)
(* the foot that is to carry the robot is loaded before it has to.         *)
(***************************************************************************)
EXTENDS WbcWalk, WalkLoopProofs

CompleteInv ==
    /\ walkComplete =>
           /\ gait.stepNumCur = StepNumDes /\ gait.supportPhase = "Double"
           /\ walkingStarted /\ stage \in {"plan", "mpc", "exit"}
    /\ stage = "mpc" /\ Walking /\ walkComplete => ~hasMpcSolution
    /\ stage = "plan" /\ controller = "wbcStand" => gait.supportPhase = "Double"

WrenchInv ==
    walkingStarted /\ ~walkComplete /\ hasMpcSolution /\ ~solveFailed
        /\ DoubleSupport >= SolveEvery =>
        /\ gait.stanceLeg \in lastMpcWrench
        /\ gait.supportPhase = "Double" /\ gait.phaseTime >= SolveAge
               => lastMpcWrench = Stance

(* What was fed forward in the last control step.                          *)
FedInv ==
    stage = "plan" =>
        /\ Fr_ff \subseteq Contacts
        /\ controller = "wbcWalk" /\ ~solveFailed /\ DoubleSupport >= SolveEvery
               => gait.stanceLeg \in Fr_ff

(* From its first tick until it is complete the walk is asked for in every *)
(* cycle, and never before.                                                *)
StageInv ==
    stage = "mpc" =>
        /\ walkingStarted /\ ~walkComplete => Walking
        /\ Walking => walkingStarted

(* The inductive invariant.                                                *)
WbcInv ==
    /\ LoopInv /\ WbcTypeOK
    /\ CompleteInv /\ StageInv
    /\ WrenchInv /\ FedInv

-----------------------------------------------------------------------------
(* The wrench through the scheduler's tick.                                *)
LEMMA TickWrench ==
    ASSUME WbcInv, StepGait
    PROVE  WrenchInv'
<1>1. /\ MoveInTime(gait, gait') /\ walkingStarted
      /\ stage = "gait" /\ stage' = "foot"
      /\ UNCHANGED <<time, iterationCounter, walkingStarted>>
      /\ UNCHANGED <<walkComplete, hasMpcSolution, lastMpcWrench, solveFailed>>
  BY TickGaitMoves DEF StepGait, WbcInv, demoVars
<1>2. /\ SolveAge \in 0 .. SolveEvery /\ SolveAge < SolveEvery
      /\ SolveAge' = SolveAge + 1
      /\ SolveEvery \in Nat \ {0} /\ DoubleSupport \in Nat
  BY <1>1, SolveAges, WalkLoopAssumption, GaitAssumption
     DEF WbcInv, LoopInv, LoopTypeOK
<1>3. /\ gait'.phaseTime \in Nat /\ gait.phaseTime \in Nat
      /\ gait'.stanceLeg \in Stance
  BY TickGaitMoves, LoopTypes DEF StepGait, WbcInv, IInv, Sound, Gait
<1> SUFFICES ASSUME ~walkComplete, hasMpcSolution, ~solveFailed,
                    DoubleSupport >= SolveEvery
             PROVE  /\ gait'.stanceLeg \in lastMpcWrench
                    /\ gait'.supportPhase = "Double"
                           /\ gait'.phaseTime >= SolveAge'
                           => lastMpcWrench = Stance
  BY <1>1 DEF WrenchInv
<1>4. /\ gait.stanceLeg \in lastMpcWrench
      /\ gait.supportPhase = "Double" /\ gait.phaseTime >= SolveAge
             => lastMpcWrench = Stance
  BY <1>1 DEF WbcInv, WrenchInv
<1>5. CASE Keep(gait, gait') /\ gait'.phaseTime <= gait.phaseTime + 1
  <2>1. gait'.phaseTime >= SolveAge' => gait.phaseTime >= SolveAge
    BY <1>2, <1>3, <1>5
  <2>2. QED BY <1>4, <1>5, <2>1 DEF Keep
<1>6. CASE /\ Lift(gait, gait') /\ gait'.phaseTime = 0
           /\ gait.phaseTime + 1 >= DoubleSupport
  <2>1. gait.phaseTime >= SolveAge
    BY <1>2, <1>3, <1>6
  <2>2. lastMpcWrench = Stance
    BY <1>4, <1>6, <2>1 DEF Lift
  <2>3. QED BY <1>3, <2>2
<1>7. CASE Land(gait, gait') /\ gait'.phaseTime = 0
  BY <1>2, <1>4, <1>7 DEF Land
<1>8. CASE Swap(gait, gait') /\ gait'.phaseTime = 0 /\ DoubleSupport = 0
  BY <1>2, <1>8
<1>9. QED BY <1>1, <1>5, <1>6, <1>7, <1>8 DEF MoveInTime

(* The control step: what is solved is solved for the contacts of the      *)
(* moment, and what is fed forward never loads a foot in the air.          *)
LEMMA ControlFeeds ==
    ASSUME WbcInv, ControlStep
    PROVE  WrenchInv' /\ FedInv' /\ CompleteInv' /\ StageInv' /\ WbcTypeOK'
<1>1. /\ EndCycle /\ stage = "mpc" /\ stage' = "plan" /\ vars' = vars
      /\ UNCHANGED <<time, walkingStarted, walkComplete, bus>>
  BY DEF ControlStep, EndCycle
<1>2. PICK ok \in BOOLEAN :
        /\ solveFailed' = IF SolveDue THEN ~ok ELSE solveFailed
        /\ lastMpcWrench' = IF SolveDue /\ ok THEN LimitedWrench
                                              ELSE lastMpcWrench
        /\ hasMpcSolution' = (hasMpcSolution \/ (SolveDue /\ ok))
        /\ Fr_ff' = IF Walking /\ hasMpcSolution'
                    THEN SanitizeWrench(lastMpcWrench')
                    ELSE bus.contacts
  BY DEF ControlStep, SolveMpc
<1>3. gait' = gait /\ Contacts' = Contacts
  BY <1>1 DEF vars, Contacts
<1>4. /\ bus.contacts = Contacts /\ Contacts \subseteq Stance
      /\ gait.stanceLeg \in Contacts
      /\ gait.supportPhase = "Double" => Contacts = Stance
  BY <1>1, LoopTypes DEF WbcInv, LoopInv, BusInv, Contacts
<1>5. SolveAge' = IF iterationCounter = 0 THEN 0 ELSE SolveAge
  BY <1>1, SolveAges DEF WbcInv, LoopInv, LoopTypeOK
<1>6. ~Walking => gait.supportPhase = "Double"
  BY <1>1 DEF WbcInv, LoopInv, BusInv
<1>7. controller' = IF bus.motionState = "Stand" THEN "wbcStand" ELSE "wbcWalk"
  BY DEF ControlStep
<1>8. /\ walkingStarted /\ ~walkComplete => Walking
      /\ Walking => walkingStarted
      /\ Walking /\ walkComplete => ~hasMpcSolution
  BY <1>1 DEF WbcInv, StageInv, CompleteInv
<1>9. CompleteInv' /\ StageInv'
  <2>1. bus.motionState = "Stand" => gait.supportPhase = "Double"
    BY <1>6 DEF Walking
  <2>2. QED
    BY <1>1, <1>3, <1>7, <2>1 DEF WbcInv, CompleteInv, StageInv
<1>10. WbcTypeOK'
  <2>1. LoopTypeOK'
    BY <1>1, EndCycleInv DEF WbcInv, LoopInv
  <2>2. lastMpcWrench' \subseteq Stance /\ Fr_ff' \subseteq Stance
    BY <1>2, <1>4 DEF WbcInv, WbcTypeOK, LimitedWrench, SanitizeWrench
  <2>3. {walkComplete', hasMpcSolution', solveFailed'} \subseteq BOOLEAN
    BY <1>1, <1>2 DEF WbcInv, WbcTypeOK
  <2>4. controller' \in {"none", "wbcStand", "wbcWalk"}
    BY <1>7
  <2>5. QED BY <2>1, <2>2, <2>3, <2>4 DEF WbcTypeOK
<1>11. CASE SolveDue
  <2>1. Walking
    BY <1>11 DEF SolveDue
  <2>2. CASE ok
    <3>1. /\ lastMpcWrench' = Contacts /\ hasMpcSolution' = TRUE
          /\ Fr_ff' = Contacts
      BY <1>2, <1>4, <1>11, <2>1, <2>2 DEF LimitedWrench, SanitizeWrench
    <3>2. WrenchInv'
      BY <1>3, <1>4, <3>1 DEF WrenchInv
    <3>3. FedInv'
      BY <1>3, <1>4, <3>1 DEF FedInv
    <3>4. QED BY <1>9, <1>10, <3>2, <3>3
  <2>3. CASE ~ok
    <3>1. solveFailed' = TRUE /\ Fr_ff' \subseteq Contacts
      BY <1>2, <1>4, <1>11, <2>3 DEF SanitizeWrench
    <3>2. WrenchInv' /\ FedInv'
      BY <1>3, <3>1 DEF WrenchInv, FedInv
    <3>3. QED BY <1>9, <1>10, <3>2
  <2>4. QED BY <2>2, <2>3
<1>12. CASE ~SolveDue
  <2>1. /\ solveFailed' = solveFailed /\ lastMpcWrench' = lastMpcWrench
        /\ hasMpcSolution' = hasMpcSolution \/ hasMpcSolution' = FALSE
    BY <1>2, <1>12
  <2>2. hasMpcSolution' <=> hasMpcSolution
    BY <1>2, <1>12
  <2>3. Fr_ff' \subseteq Contacts
    BY <1>2, <1>4, <1>12 DEF SanitizeWrench
  <2>4. CASE Walking
    <3>1. hasMpcSolution /\ iterationCounter # 0 /\ ~walkComplete
          /\ walkingStarted
      BY <1>8, <1>12, <2>4 DEF SolveDue
    <3>2. WrenchInv'
      BY <1>1, <1>3, <1>5, <2>1, <2>2, <3>1 DEF WbcInv, WrenchInv
    <3>3. Fr_ff' = lastMpcWrench \cap Contacts
      BY <1>2, <1>4, <2>1, <2>2, <2>4, <3>1 DEF SanitizeWrench
    <3>4. FedInv'
      BY <1>3, <1>4, <2>1, <3>1, <3>3 DEF WbcInv, WrenchInv, FedInv
    <3>5. QED BY <1>9, <1>10, <3>2, <3>4
  <2>5. CASE ~Walking
    <3>1. walkComplete \/ ~walkingStarted
      BY <1>8, <2>5
    <3>2. WrenchInv'
      BY <1>1, <3>1 DEF WrenchInv
    <3>3. Fr_ff' = Contacts
      BY <1>2, <1>4, <2>5
    <3>4. FedInv'
      BY <1>3, <1>4, <3>3 DEF FedInv
    <3>5. QED BY <1>9, <1>10, <3>2, <3>4
  <2>6. QED BY <2>4, <2>5
<1>13. QED BY <1>11, <1>12

-----------------------------------------------------------------------------
(* The start of main establishes the inductive invariant.                  *)
LEMMA WbcInitInv == WbcInit => WbcInv
<1> SUFFICES ASSUME WbcInit PROVE WbcInv
  OBVIOUS
<1>1. LoopInv
  BY LoopInitInv DEF WbcInit
<1>2. /\ walkingStarted = FALSE /\ stage = "plan" /\ walkComplete = FALSE
      /\ hasMpcSolution = FALSE /\ controller = "none" /\ Fr_ff = {}
      /\ lastMpcWrench = Stance /\ solveFailed = FALSE
  BY DEF WbcInit, LoopInit
<1>3. WbcTypeOK
  BY <1>1, <1>2 DEF LoopInv, WbcTypeOK
<1>4. QED
  BY <1>1, <1>2, <1>3 DEF WbcInv, CompleteInv, StageInv, WrenchInv, FedInv

(* The stages before the control step.                                     *)
LEMMA PlanKeepsInv ==
    ASSUME WbcInv, BeforeWalk \/ BeginWalk \/ ContinueWalk \/ HoldAfterWalk
    PROVE  WbcInv'
<1>1. CASE BeforeWalk
  <2>1. /\ LoopInv' /\ stage' = "mpc" /\ bus'.motionState = "Stand"
        /\ UNCHANGED <<walkingStarted, demoVars>>
    BY <1>1, StandStillInv, StandingBusAgrees
       DEF BeforeWalk, WbcInv, StandStill, StandingBus, LoopInv, BusType
  <2>2. ~walkingStarted
    BY <1>1, LoopTypes
       DEF BeforeWalk, StandStill, Simulate, RunsTick, WbcInv, LoopInv, StartInv
  <2>3. QED
    BY <2>1, <2>2 DEF WbcInv, WbcTypeOK, CompleteInv, StageInv, WrenchInv,
                      FedInv, LoopInv, demoVars, Walking
<1>2. CASE BeginWalk
  <2>1. 0 \in Nat /\ 0 <= StepNumDes
    BY GaitAssumption
  <2>2. LoopInv' /\ stage' = "gait"
    BY <1>2, <2>1, StartWalkInv DEF BeginWalk, WbcInv, StartWalk
  <2>3. /\ walkComplete' = FALSE /\ hasMpcSolution' = FALSE
        /\ UNCHANGED <<lastMpcWrench, solveFailed, Fr_ff, controller>>
    BY <1>2 DEF BeginWalk
  <2>4. QED
    BY <2>2, <2>3 DEF WbcInv, WbcTypeOK, CompleteInv, StageInv, WrenchInv,
                      FedInv, LoopInv
<1>3. CASE ContinueWalk
  <2>1. /\ LoopInv' /\ stage = "plan" /\ stage' = "gait" /\ vars' = vars
        /\ ~walkComplete
        /\ UNCHANGED <<walkingStarted, iterationCounter, demoVars>>
    BY <1>3, KeepWalkingInv DEF ContinueWalk, KeepWalking, Simulate, RunsTick, WbcInv
  <2>2. WrenchInv'
    BY <2>1 DEF WbcInv, WrenchInv, SolveAge, vars, demoVars
  <2>3. QED
    BY <2>1, <2>2 DEF WbcInv, WbcTypeOK, CompleteInv, StageInv,
                      FedInv, LoopInv, demoVars
<1>4. CASE HoldAfterWalk
  <2>1. /\ Simulate /\ walkingStarted /\ walkComplete /\ stage' = "mpc"
        /\ bus' = StandingBus /\ vars' = vars
        /\ UNCHANGED <<walkingStarted, demoVars>>
    BY <1>4 DEF HoldAfterWalk
  <2>2. gait.supportPhase = "Double" /\ gait' = gait
    BY <2>1 DEF WbcInv, CompleteInv, vars
  <2>3. LoopInv'
    BY <1>4, <2>1, <2>2, HoldInv DEF HoldAfterWalk, WbcInv
  <2>4. ~Walking'
    BY <2>1 DEF StandingBus, Walking, WbcInv, LoopInv, BusType
  <2>5. QED
    BY <2>1, <2>2, <2>3, <2>4
       DEF WbcInv, WbcTypeOK, CompleteInv, StageInv, WrenchInv,
           FedInv, LoopInv, demoVars
<1>5. QED BY <1>1, <1>2, <1>3, <1>4

(* The scheduler's tick: it is not asked for once the walk is complete.    *)
LEMMA GaitKeepsInv ==
    ASSUME WbcInv, StepGait
    PROVE  WbcInv'
<1>1. /\ LoopInv' /\ stage = "gait" /\ stage' = "foot"
      /\ UNCHANGED demoVars
  BY TickGaitInv DEF StepGait, TickGait, WbcInv
<1>2. ~walkComplete
  BY <1>1 DEF WbcInv, CompleteInv
<1>3. QED
  BY <1>1, <1>2, TickWrench
     DEF WbcInv, WbcTypeOK, CompleteInv, StageInv, FedInv, LoopInv, demoVars

(* The planner's call, and the test that the walk is complete.             *)
LEMMA PlaceKeepsInv ==
    ASSUME WbcInv, PlaceFoot
    PROVE  WbcInv'
<1>1. /\ LoopInv' /\ Walking /\ stage = "foot" /\ stage' = "mpc"
      /\ vars' = vars
      /\ UNCHANGED <<iterationCounter, walkingStarted, bus>>
      /\ walkComplete' = CompletedThisCycle
      /\ hasMpcSolution' = (hasMpcSolution /\ ~CompletedThisCycle)
      /\ UNCHANGED <<lastMpcWrench, solveFailed, Fr_ff, controller>>
  BY PlanFootInv DEF PlaceFoot, PlanFoot, WbcInv
<1>2. /\ gait' = gait /\ bus.contacts = Contacts /\ walkingStarted
      /\ ~walkComplete
  BY <1>1 DEF WbcInv, LoopInv, BusInv, StartInv, CompleteInv, vars
<1>3. CompletedThisCycle =>
          gait.stepNumCur = StepNumDes /\ gait.supportPhase = "Double"
  <2>1. gait.stepNumCur >= StepNumDes => gait.stepNumCur = StepNumDes
    BY LoopTypes, GaitAssumption DEF WbcInv
  <2>2. Contacts = Stance => gait.supportPhase = "Double"
    BY DEF Contacts, Stance
  <2>3. QED BY <1>2, <2>1, <2>2 DEF CompletedThisCycle
<1>4. CompletedThisCycle \in BOOLEAN
  BY DEF CompletedThisCycle
<1>5. WbcTypeOK'
  BY <1>1, <1>4 DEF WbcInv, WbcTypeOK, LoopInv
<1>6. CompleteInv'
  BY <1>1, <1>2, <1>3 DEF CompleteInv
<1>7. StageInv'
  BY <1>1, <1>2 DEF StageInv, Walking
<1>8. WrenchInv' /\ FedInv'
  BY <1>1, <1>2 DEF WbcInv, WrenchInv, FedInv, SolveAge
<1>9. QED BY <1>1, <1>5, <1>6, <1>7, <1>8 DEF WbcInv

(* The end of a frame and of the loop, and a stuttering step.              *)
LEMMA QuietKeepsInv ==
    ASSUME WbcInv, LoopInv',
           UNCHANGED <<vars, footVars, time, iterationCounter,
                       walkingStarted, gaitStarted, bus, demoVars>>,
           stage' = stage \/ (stage = "plan" /\ stage' = "exit")
    PROVE  WbcInv'
<1>1. gait' = gait
  BY DEF vars
<1>2. WrenchInv'
  BY <1>1 DEF WbcInv, WrenchInv, SolveAge, demoVars
<1>3. CompleteInv' /\ StageInv' /\ FedInv'
  BY <1>1 DEF WbcInv, CompleteInv, StageInv, FedInv, Walking, Contacts, demoVars
<1>4. QED
  BY <1>2, <1>3 DEF WbcInv, WbcTypeOK, LoopInv, demoVars

(* The inductive invariant of the loop.                                    *)
THEOREM WbcInvariance == WbcSpec => []WbcInv
<1>1. WbcInit => WbcInv
  BY WbcInitInv
<1>2. WbcInv /\ [WbcNext]_allVars => WbcInv'
  <2> SUFFICES ASSUME WbcInv, [WbcNext]_allVars PROVE WbcInv'
    OBVIOUS
  <2>1. CASE BeforeWalk \/ BeginWalk \/ ContinueWalk \/ HoldAfterWalk
    BY <2>1, PlanKeepsInv
  <2>2. CASE StepGait
    BY <2>2, GaitKeepsInv
  <2>3. CASE PlaceFoot
    BY <2>3, PlaceKeepsInv
  <2>4. CASE ControlStep
    BY <2>4, ControlFeeds, EndCycleInv DEF ControlStep, WbcInv
  <2>5. CASE WbcEndFrame
    <3>1. LoopInv'
      BY <2>5, EndFrameInv DEF WbcEndFrame, WbcInv
    <3>2. stage' = stage \/ (stage = "plan" /\ stage' = "exit")
      BY <2>5 DEF WbcEndFrame, EndFrame
    <3>3. QED BY <2>5, <3>1, <3>2, QuietKeepsInv DEF WbcEndFrame, EndFrame
  <2>6. CASE UNCHANGED allVars
    <3>1. LoopInv'
      BY <2>6, LoopStutterInv DEF allVars, WbcInv
    <3>2. QED BY <2>6, <3>1, QuietKeepsInv DEF allVars, loopVars
  <2>7. QED
    BY <2>1, <2>2, <2>3, <2>4, <2>5, <2>6 DEF WbcNext, Exited
<1>3. QED BY <1>1, <1>2, PTL DEF WbcSpec

(* Type correctness of the loop.                                           *)
THEOREM WbcTypeCorrect == WbcSpec => []WbcTypeOK
<1>1. WbcInv => WbcTypeOK
  BY DEF WbcInv
<1>2. QED BY <1>1, WbcInvariance, PTL

(* The swing curves and the foothold in use belong to the swing that is in *)
(* progress, in every cycle of every walk.                                 *)
THEOREM ReferenceOfThisSwingHolds == WbcSpec => []ReferenceOfThisSwing
<1>1. WbcInv => ReferenceOfThisSwing
  BY LoopFollowsSwing DEF WbcInv
<1>2. QED BY <1>1, WbcInvariance, PTL

(* Every controller computes with the contacts of the scheduler, although  *)
(* the standing branches write the bus without asking it.                  *)
THEOREM BelievedContactsHolds == WbcSpec => []BelievedContacts
<1>1. WbcInv => BelievedContacts
  BY DEF WbcInv, LoopInv, BusInv, CompleteInv, BelievedContacts, CycleDone
<1>2. QED BY <1>1, WbcInvariance, PTL

(* The wrench fed forward never loads a foot in the air, and loads the     *)
(* stance foot while the solver answers, for every double support that     *)
(* spans a solve.                                                          *)
THEOREM FeedForwardFollowsContactsHolds == WbcSpec => []FeedForwardFollowsContacts
<1>1. WbcInv => FeedForwardFollowsContacts
  BY DEF WbcInv, FedInv, FeedForwardFollowsContacts, CycleDone
<1>2. QED BY <1>1, WbcInvariance, PTL

(* The walk is declared complete with every step taken and both feet down, *)
(* and for good.                                                           *)
THEOREM CompletionIsFinalHolds == WbcSpec => CompletionIsFinal
<1> DEFINE Final == /\ walkComplete' => /\ gait'.stepNumCur = StepNumDes
                                        /\ gait'.supportPhase = "Double"
                    /\ walkComplete => walkComplete'
<1>1. WbcInv /\ WbcInv' /\ [WbcNext]_allVars => [Final]_allVars
  <2> SUFFICES ASSUME WbcInv, WbcInv', WbcNext PROVE Final
    OBVIOUS
  <2>1. /\ walkComplete' => /\ gait'.stepNumCur = StepNumDes
                            /\ gait'.supportPhase = "Double"
        /\ walkComplete => walkingStarted /\ stage \notin {"gait", "foot"}
    BY DEF WbcInv, CompleteInv
  <2>2. CASE BeginWalk \/ PlaceFoot
    BY <2>1, <2>2 DEF BeginWalk, StartWalk, PlaceFoot, PlanFoot
  <2>3. CASE ~(BeginWalk \/ PlaceFoot)
    BY <2>1, <2>3 DEF WbcNext, BeforeWalk, ContinueWalk, HoldAfterWalk,
       StepGait, ControlStep, WbcEndFrame, Exited, allVars, demoVars
  <2>4. QED BY <2>2, <2>3
<1>2. QED
  BY <1>1, WbcInvariance, PTL DEF WbcSpec, CompletionIsFinal
=============================================================================

--------------------------- MODULE WalkLoopProofs ---------------------------
(***************************************************************************)
(* What the stages of the walking loops preserve, proved for every set of  *)
(* durations, step budgets and solve intervals.  WalkLoop has no next-     *)
(* state relation of its own: each demo composes the stages with its MPC   *)
(* and its controllers, so there is one lemma for each stage, and the      *)
(* proofs of the two demos cite them.                                      *)
(*                                                                         *)
(* The argument: outside the scheduler's own stage the bus says what the   *)
(* scheduler says (BusInv), and the planner's memory is that of the swing  *)
(* in progress or, in double support, of one that ended with the present   *)
(* stance leg, so that the next swing is recognised as new (FootInv).      *)
(***************************************************************************)
EXTENDS WalkLoop, GaitSchedulerProofs

(* Before the walk, between its beginning and its first tick, afterwards.  *)
StartInv ==
    /\ walkingStarted <=> time >= WalkStart
    /\ ~walkingStarted => ~isIni /\ lastLegState = "DSt"
    /\ ~isIni => gait.phaseTime = 0
    /\ walkingStarted /\ ~isIni => stage = "gait" /\ time = WalkStart
    /\ isIni => motionState = "Walk" /\ Punctual(gait)
    /\ stage \in {"gait", "foot"} => walkingStarted /\ Walking

(* The bus agrees with the scheduler in every stage but the one in which   *)
(* the scheduler has still to run; standing values are put on it only      *)
(* while both feet are down.                                               *)
BusInv ==
    /\ stage # "gait" =>
           bus.contacts = Contacts /\ bus.legState = gait.legState
    /\ stage = "mpc" /\ ~Walking => gait.supportPhase = "Double"

(* Where the foot now in the air left the ground.                          *)
SwingOrigin == Sample(OppositeStance(gait.stanceLeg), gait.stepNumCur)

(* The planner follows this swing.                                         *)
Followed ==
    /\ lastLegState = gait.stanceLeg
    /\ referenceAtStepStart = SwingOrigin

FootInv ==
    /\ gait.supportPhase = "Double" => lastLegState \in {"DSt", gait.stanceLeg}
    /\ gait.supportPhase = "Single" =>
           /\ bus.swingStart = SwingOrigin
           /\ IF stage = "foot"
              THEN lastLegState = gait.stanceLeg => Followed
              ELSE /\ Followed
                   /\ posDes_W = [kind |-> "foothold",
                                  foot |-> OppositeStance(gait.stanceLeg)]

BusType ==
    bus \in [motionState : MotionState, legState : LegState,
             contacts : SUBSET Stance,
             swingStart : [foot : Stance \cup {"none"}, step : Nat]]

ViewType ==
    {headless, runSim} \subseteq BOOLEAN /\ simStart \in 0 .. time

(* The part of the inductive invariants that the loops share.              *)
LoopInv ==
    /\ IInv
    /\ LoopTypeOK /\ BusType
    /\ StartInv
    /\ BusInv
    /\ FootInv

-----------------------------------------------------------------------------
(* The constructors and the first bus establish the invariant.             *)
LEMMA LoopInitInv == LoopInit => LoopInv
<1> SUFFICES ASSUME LoopInit PROVE LoopInv
  OBVIOUS
<1>1. IInv
  BY InitIInv DEF LoopInit
<1>2. /\ stage = "plan" /\ time = 0 /\ iterationCounter = 0
      /\ walkingStarted = FALSE /\ gaitStarted = FALSE
      /\ isIni = FALSE /\ lastLegState = "DSt"
      /\ gait.supportPhase = "Double" /\ gait.phaseTime = 0
      /\ gait.legState = "DSt"
      /\ bus = [motionState |-> "Stand", legState |-> "DSt",
                contacts |-> Stance, swingStart |-> NoReference]
  BY DEF LoopInit, Init, FootInit
<1>3. BusType
  BY <1>2 DEF BusType, MotionState, LegState, NoReference
<1>4. LoopTypeOK
  <2>1. /\ 0 \in 0 .. Duration /\ 0 \in 0 .. SolveEvery - 1
        /\ {headless, runSim} \subseteq BOOLEAN /\ simStart \in 0 .. time
    BY <1>2, WalkLoopAssumption DEF LoopInit
  <2>2. QED BY <1>1, <1>2, <1>3, <2>1 DEF LoopTypeOK, IInv, BusType
<1>5. StartInv
  BY <1>2, WalkLoopAssumption DEF StartInv
<1>6. BusInv
  BY <1>2 DEF BusInv, Contacts, Walking
<1>7. FootInv
  BY <1>2 DEF FootInv
<1>8. QED BY <1>1, <1>3, <1>4, <1>5, <1>6, <1>7 DEF LoopInv

(* What a reader of the invariant needs to know of the types.              *)
LEMMA LoopTypes ==
    ASSUME LoopInv
    PROVE  /\ time \in Nat /\ Duration \in Nat /\ time <= Duration
           /\ WalkStart \in Nat /\ WalkStart > 0
           /\ gait \in Gait /\ gait.stepNumCur \in Nat
           /\ gait.stepNumCur <= StepNumDes
           /\ gait.phaseTime \in Nat /\ gait.stanceLeg \in Stance
           /\ gait.supportPhase \in {"Double", "Single"}
           /\ start_walk \in BOOLEAN
           /\ {walkingStarted, gaitStarted} \subseteq BOOLEAN
BY WalkLoopAssumption
   DEF LoopInv, LoopTypeOK, IInv, TypeOK, Sound, Budgeted, Gait

(* The frame began no later than now, before and after a tick.             *)
LEMMA ViewTypeKept ==
    ASSUME LoopInv, UNCHANGED viewVars, time' \in {time, time + 1}
    PROVE  ViewType'
<1>1. /\ {headless, runSim} \subseteq BOOLEAN
      /\ simStart \in 0 .. time /\ time \in Nat
  BY WalkLoopAssumption DEF LoopInv, LoopTypeOK
<1>2. headless' = headless /\ simStart' = simStart /\ runSim' = runSim
  BY DEF viewVars
<1>3. simStart' \in 0 .. time'
  BY <1>1, <1>2
<1>4. QED BY <1>1, <1>2, <1>3 DEF ViewType

(* Standing values on the bus agree with a gait that is in double support. *)
LEMMA StandingBusAgrees ==
    ASSUME BusType, bus' = StandingBus, IInv', gait'.supportPhase = "Double"
    PROVE  /\ BusType'
           /\ bus'.contacts = Contacts' /\ bus'.legState = gait'.legState
           /\ bus'.motionState = "Stand" /\ bus'.swingStart = bus.swingStart
<1>1. /\ bus' \in [motionState : MotionState, legState : LegState,
                   contacts : SUBSET Stance,
                   swingStart : [foot : Stance \cup {"none"}, step : Nat]]
      /\ bus'.contacts = Stance /\ bus'.legState = "DSt"
      /\ bus'.motionState = "Stand" /\ bus'.swingStart = bus.swingStart
  BY DEF BusType, StandingBus, MotionState, LegState
<1>2. gait'.legState = "DSt" /\ Contacts' = Stance
  BY DEF IInv, Sound, Agrees, Contacts
<1>3. QED BY <1>1, <1>2 DEF BusType

(* A tick before the walk.                                                 *)
LEMMA StandStillInv ==
    ASSUME LoopInv, StandStill
    PROVE  LoopInv'
<1>1. /\ stage = "plan" /\ time < Duration /\ time' = time + 1
      /\ UNCHANGED viewVars
      /\ time + 1 < WalkStart /\ stage' = "mpc" /\ gaitStarted' = FALSE
      /\ UNCHANGED <<lastLegState, referenceAtStepStart, posDes_W,
                     iterationCounter, walkingStarted>>
      /\ bus' = StandingBus /\ Stop
  BY DEF StandStill, Simulate, RunsTick, footVars
<1>2. ~walkingStarted /\ ~walkingStarted'
  BY <1>1, LoopTypes DEF LoopInv, StartInv
<1>3. /\ IInv' /\ isIni' = FALSE /\ gait'.supportPhase = "Double"
      /\ gait'.phaseTime = 0
  <2>1. start_walk' \in BOOLEAN
    BY <1>1 DEF Stop
  <2>2. QED BY <1>1, <2>1, LoopTypes, RestIInv DEF Stop, LoopInv
<1>4. /\ BusType' /\ bus'.motionState = "Stand"
      /\ bus'.contacts = Contacts' /\ bus'.legState = gait'.legState
  BY <1>1, <1>3, StandingBusAgrees DEF LoopInv
<1>5. LoopTypeOK'
  <2>1. time' \in 0 .. Duration
    BY <1>1, LoopTypes
  <2>2. ViewType'
    BY <1>1, ViewTypeKept
  <2>3. QED BY <1>1, <1>3, <1>4, <2>1, <2>2
         DEF LoopInv, LoopTypeOK, ViewType, IInv, BusType
<1>6. StartInv'
  BY <1>1, <1>2, <1>3, LoopTypes DEF LoopInv, StartInv
<1>7. BusInv' /\ FootInv'
  BY <1>1, <1>2, <1>3, <1>4 DEF LoopInv, StartInv, BusInv, FootInv
<1>8. QED BY <1>3, <1>4, <1>5, <1>6, <1>7 DEF LoopInv

(* The first walking tick, up to the scheduler.                            *)
LEMMA StartWalkInv ==
    ASSUME LoopInv, NEW n \in Nat, n <= StepNumDes, StartWalk(n)
    PROVE  /\ LoopInv'
           /\ time' = WalkStart /\ walkingStarted' /\ ~walkingStarted
           /\ gait'.supportPhase = "Double" /\ gait'.phaseTime = 0
           /\ gait'.stepNumCur = n /\ ~isIni'
<1>1. /\ stage = "plan" /\ time < Duration /\ time' = time + 1
      /\ UNCHANGED viewVars
      /\ time + 1 >= WalkStart /\ ~walkingStarted
      /\ walkingStarted' = TRUE /\ gaitStarted' = TRUE
      /\ isIni' = FALSE /\ stage' = "gait"
      /\ UNCHANGED <<lastLegState, iterationCounter>>
      /\ bus' = [bus EXCEPT !.motionState = "Walk"]
  BY DEF StartWalk, Simulate, RunsTick, footVars
<1>2. time' = WalkStart
  BY <1>1, LoopTypes DEF LoopInv, StartInv
<1>3. /\ IInv' /\ gait'.supportPhase = "Double"
      /\ gait'.phaseTime = 0 /\ gait'.stepNumCur = n
  <2>1. start_walk' \in BOOLEAN
    BY DEF StartWalk
  <2>2. QED BY <2>1, RestIInv DEF StartWalk, LoopInv
<1>4. BusType' /\ bus'.motionState = "Walk"
  BY <1>1 DEF LoopInv, BusType, MotionState
<1>5. LoopTypeOK'
  <2>1. time' \in 0 .. Duration
    BY <1>1, LoopTypes
  <2>2. ViewType'
    BY <1>1, ViewTypeKept
  <2>3. QED BY <1>1, <1>3, <1>4, <2>1, <2>2
         DEF LoopInv, LoopTypeOK, ViewType, IInv, BusType
<1>6. StartInv'
  BY <1>1, <1>2, <1>3, <1>4, LoopTypes DEF LoopInv, StartInv, Walking
<1>7. BusInv' /\ FootInv'
  BY <1>1, <1>3, <1>4 DEF LoopInv, StartInv, BusInv, FootInv
<1>8. QED BY <1>1, <1>2, <1>3, <1>4, <1>5, <1>6, <1>7 DEF LoopInv

(* Every other walking tick, up to the scheduler.                          *)
LEMMA KeepWalkingInv ==
    ASSUME LoopInv, KeepWalking
    PROVE  LoopInv'
<1>1. /\ stage = "plan" /\ time < Duration /\ time' = time + 1
      /\ UNCHANGED viewVars
      /\ walkingStarted /\ stage' = "gait" /\ vars' = vars
      /\ UNCHANGED <<footVars, iterationCounter, walkingStarted, gaitStarted>>
      /\ bus' = [bus EXCEPT !.motionState = "Walk"]
  BY DEF KeepWalking, Simulate, RunsTick
<1>2. IInv' /\ isIni' = isIni /\ gait' = gait /\ motionState' = motionState
  BY <1>1, StartedIInv, LoopTypes DEF vars, LoopInv
<1>3. /\ BusType' /\ bus'.motionState = "Walk"
      /\ bus'.swingStart = bus.swingStart
  BY <1>1 DEF LoopInv, BusType, MotionState
<1>4. LoopTypeOK'
  <2>1. time' \in 0 .. Duration
    BY <1>1, LoopTypes
  <2>2. ViewType'
    BY <1>1, ViewTypeKept
  <2>3. QED BY <1>1, <1>2, <1>3, <2>1, <2>2
         DEF LoopInv, LoopTypeOK, ViewType, IInv, BusType
<1>5. StartInv'
  BY <1>1, <1>2, <1>3, LoopTypes
     DEF LoopInv, StartInv, Walking, footVars, Punctual
<1>6. BusInv' /\ FootInv'
  BY <1>1, <1>2, <1>3
     DEF LoopInv, BusInv, FootInv, Followed, SwingOrigin, footVars
<1>7. QED BY <1>2, <1>3, <1>4, <1>5, <1>6 DEF LoopInv

(* What the scheduler's tick does to the gait and the bus.                 *)
LEMMA TickGaitMoves ==
    ASSUME LoopInv, TickGait
    PROVE  /\ IInv' /\ isIni' = TRUE /\ motionState' = "Walk"
           /\ MoveInTime(gait, gait') /\ Punctual(gait')
           /\ walkingStarted /\ stage = "gait" /\ stage' = "foot"
           /\ UNCHANGED <<footVars, time, iterationCounter, walkingStarted,
                          gaitStarted>>
<1>1. PICK sensed \in BOOLEAN, loaded \in BOOLEAN : StepWalk(sensed, loaded)
  BY DEF TickGait, WalkTick
<1>2. IInv'
  BY <1>1, WalkIInv DEF LoopInv
<1>3. MoveInTime(gait, gait') /\ Punctual(gait')
  BY <1>1, WalkInTime DEF LoopInv, StartInv
<1>4. isIni' = TRUE /\ motionState' = "Walk"
  BY <1>1, LoopTypes DEF StepWalk, CallerHasStarted, Publish, LoopInv, IInv, TypeOK
<1>5. QED BY <1>2, <1>3, <1>4 DEF TickGait, LoopInv, StartInv

(* The origin on the bus is the one of the swing in progress: taken anew   *)
(* at a lift-off or an exchange of the feet, and kept otherwise.           *)
LEMMA TickGaitOrigin ==
    ASSUME LoopInv, TickGait, gait'.supportPhase = "Single"
    PROVE  /\ bus'.swingStart = SwingOrigin'
           /\ \/ /\ gait.supportPhase = "Single"
                 /\ gait'.stanceLeg = gait.stanceLeg
                 /\ SwingOrigin' = SwingOrigin
              \/ gait'.stanceLeg = OppositeStance(gait.stanceLeg)
<1>1. /\ MoveInTime(gait, gait') /\ stage = "gait"
      /\ gait'.swingStart = OppositeStance(gait'.stanceLeg)
  BY TickGaitMoves DEF IInv, Sound, Agrees
<1>2. bus'.swingStart = IF ~LiftOff THEN bus.swingStart
                        ELSE Sample(gait'.swingStart, gait'.stepNumCur)
  BY DEF TickGait, BusAfterGait
<1>3. CASE Keep(gait, gait')
  <2>1. ~LiftOff /\ gait.supportPhase = "Single" /\ SwingOrigin' = SwingOrigin
    BY <1>3 DEF Keep, LiftOff, SwingOrigin
  <2>2. QED BY <1>2, <1>3, <2>1 DEF LoopInv, FootInv, Keep
<1>4. CASE Lift(gait, gait') \/ Swap(gait, gait')
  <2>1. gait'.stanceLeg = OppositeStance(gait.stanceLeg) /\ LiftOff
    BY <1>4, LoopTypes, OppositeType DEF Lift, Swap, LiftOff
  <2>2. QED BY <1>1, <1>2, <2>1 DEF SwingOrigin
<1>5. ~Land(gait, gait')
  BY DEF Land
<1>6. QED BY <1>1, <1>3, <1>4, <1>5 DEF MoveInTime

(* The scheduler's tick.                                                   *)
LEMMA TickGaitInv ==
    ASSUME LoopInv, TickGait
    PROVE  LoopInv'
<1>1. /\ IInv' /\ isIni' = TRUE /\ motionState' = "Walk"
      /\ MoveInTime(gait, gait') /\ Punctual(gait')
      /\ walkingStarted /\ stage = "gait" /\ stage' = "foot"
      /\ UNCHANGED <<footVars, time, iterationCounter, walkingStarted,
                     gaitStarted>>
  BY TickGaitMoves
<1>2. /\ bus'.motionState = motionState' /\ bus'.legState = gait'.legState
      /\ bus'.contacts = Contacts'
  BY DEF TickGait, BusAfterGait
<1>3. gait' \in Gait /\ gait.stanceLeg \in Stance
  BY <1>1, LoopTypes DEF IInv, Sound
<1>4. BusType'
  <2> DEFINE swing == IF gait'.supportPhase = "Single" /\ ~LiftOff
                      THEN bus.swingStart
                      ELSE Sample(gait'.swingStart, gait'.stepNumCur)
  <2>1. bus' = [motionState |-> motionState', legState |-> gait'.legState,
                contacts |-> Contacts', swingStart |-> swing]
    BY DEF TickGait, BusAfterGait
  <2>2. swing \in [foot : Stance \cup {"none"}, step : Nat]
    BY <1>3 DEF LoopInv, BusType, Sample, Gait
  <2>3. /\ motionState' \in MotionState /\ gait'.legState \in LegState
        /\ Contacts' \in SUBSET Stance
    BY <1>1, <1>3 DEF MotionState, Gait, Contacts
  <2> HIDE DEF swing
  <2>4. QED BY <2>1, <2>2, <2>3 DEF BusType
<1>5. LoopTypeOK'
  <2>1. ViewType'
    BY <1>1, ViewTypeKept DEF TickGait
  <2>2. QED BY <1>1, <1>4, <2>1 DEF LoopInv, LoopTypeOK, ViewType, IInv, BusType
<1>6. StartInv'
  BY <1>1, <1>2, LoopTypes DEF LoopInv, StartInv, Walking
<1>7. BusInv'
  BY <1>1, <1>2 DEF BusInv
<1>8. FootInv'
  <2>1. UNCHANGED <<lastLegState, referenceAtStepStart, posDes_W>>
    BY <1>1 DEF footVars
  <2>2. CASE gait'.supportPhase = "Double"
    <3>1. gait'.stanceLeg = gait.stanceLeg
      BY <1>1, <2>2 DEF MoveInTime, Keep, Lift, Land, Swap
    <3>2. lastLegState \in {"DSt", gait.stanceLeg}
      BY <1>1, <1>3, LoopTypes DEF LoopInv, FootInv, Followed
    <3>3. QED BY <2>1, <2>2, <3>1, <3>2 DEF FootInv
  <2>3. CASE gait'.supportPhase = "Single"
    <3>1. bus'.swingStart = SwingOrigin'
      BY <2>3, TickGaitOrigin
    <3>2. lastLegState = gait'.stanceLeg => Followed'
      <4>1. CASE gait'.stanceLeg = OppositeStance(gait.stanceLeg)
        <5>1. lastLegState \in {"DSt", gait.stanceLeg}
          BY <1>1, LoopTypes DEF LoopInv, FootInv, Followed
        <5>2. lastLegState # gait'.stanceLeg
          BY <1>3, <4>1, <5>1, OppositeType DEF Stance, OppositeStance
        <5>3. QED BY <5>2
      <4>2. CASE /\ gait.supportPhase = "Single"
                 /\ gait'.stanceLeg = gait.stanceLeg
                 /\ SwingOrigin' = SwingOrigin
        BY <1>1, <2>1, <4>2 DEF LoopInv, FootInv, Followed
      <4>3. QED BY <2>3, <4>1, <4>2, TickGaitOrigin
    <3>3. QED BY <1>1, <2>1, <2>3, <3>1, <3>2 DEF FootInv
  <2>4. gait'.supportPhase \in {"Double", "Single"}
    BY <1>3 DEF Gait
  <2>5. QED BY <2>2, <2>3, <2>4
<1>9. QED BY <1>1, <1>4, <1>5, <1>6, <1>7, <1>8 DEF LoopInv

(* The planner's call.                                                     *)
LEMMA PlanFootInv ==
    ASSUME LoopInv, PlanFoot
    PROVE  LoopInv' /\ Walking
<1>1. /\ stage = "foot" /\ stage' = "mpc" /\ vars' = vars
      /\ GetSwingPos(bus.legState, bus.swingStart)
      /\ UNCHANGED <<time, iterationCounter, walkingStarted, gaitStarted, bus>>
      /\ UNCHANGED viewVars
  BY DEF PlanFoot
<1>2. IInv' /\ isIni' = isIni /\ gait' = gait /\ motionState' = motionState
  BY <1>1, StartedIInv, LoopTypes DEF vars, LoopInv
<1>3. walkingStarted /\ Walking /\ isIni
  BY <1>1 DEF LoopInv, StartInv
<1>4. BusType' /\ LoopTypeOK'
  <2>1. ViewType'
    BY <1>1, ViewTypeKept
  <2>2. QED
    BY <1>1, <1>2, <2>1 DEF LoopInv, LoopTypeOK, ViewType, BusType, IInv
<1>5. StartInv'
  BY <1>1, <1>2, <1>3 DEF LoopInv, StartInv, Walking, Punctual
<1>6. BusInv'
  BY <1>1, <1>2, <1>3 DEF LoopInv, BusInv, Walking, Contacts
<1>7. FootInv'
  <2>1. bus.legState = gait.legState
    BY <1>1 DEF LoopInv, BusInv
  <2>2. CASE gait.supportPhase = "Double"
    <3>1. bus.legState \notin Stance
      BY <2>1, <2>2 DEF LoopInv, IInv, Sound, Agrees, Stance
    <3>2. lastLegState' = lastLegState
      BY <1>1, <3>1 DEF GetSwingPos, IsNewStep
    <3>3. QED BY <1>2, <2>2, <3>2 DEF LoopInv, FootInv
  <2>3. CASE gait.supportPhase = "Single"
    <3>1. bus.legState = gait.stanceLeg /\ bus.legState \in Stance
      BY <2>1, <2>3, LoopTypes DEF LoopInv, IInv, Sound, Agrees
    <3>2. /\ posDes_W' = [kind |-> "foothold",
                         foot |-> OppositeStance(gait.stanceLeg)]
          /\ lastLegState' = gait.stanceLeg
      BY <1>1, <3>1 DEF GetSwingPos, IsNewStep
    <3>3. referenceAtStepStart' = SwingOrigin
      BY <1>1, <2>3, <3>1
         DEF GetSwingPos, IsNewStep, LoopInv, FootInv, Followed
    <3>4. bus'.swingStart = SwingOrigin /\ SwingOrigin' = SwingOrigin
      BY <1>1, <1>2, <2>3 DEF LoopInv, FootInv, SwingOrigin
    <3>5. QED
      BY <1>1, <1>2, <2>3, <3>2, <3>3, <3>4 DEF FootInv, Followed
  <2>4. QED BY <2>2, <2>3, LoopTypes
<1>8. QED BY <1>2, <1>3, <1>4, <1>5, <1>6, <1>7 DEF LoopInv

(* A stage that leaves scheduler, planner and bus alone: the control step, *)
(* the end of the loop, a stuttering step.                                 *)
LEMMA QuietInv ==
    ASSUME LoopInv, UNCHANGED <<vars, footVars, time, walkingStarted, gaitStarted, bus>>,
           ViewType',
           iterationCounter' \in 0 .. SolveEvery - 1,
           stage' = stage \/ (stage \in {"plan", "mpc"} /\ stage' \in {"plan", "exit"})
    PROVE  LoopInv'
<1>1. IInv' /\ isIni' = isIni /\ gait' = gait /\ motionState' = motionState
  BY StartedIInv, LoopTypes DEF vars, LoopInv
<1>2. BusType' /\ LoopTypeOK'
  BY <1>1 DEF LoopInv, LoopTypeOK, ViewType, BusType, IInv
<1>3. StartInv'
  BY <1>1 DEF LoopInv, StartInv, Walking, footVars, Punctual
<1>4. BusInv'
  BY <1>1 DEF LoopInv, BusInv, Walking, Contacts
<1>5. FootInv'
  BY <1>1 DEF LoopInv, FootInv, Followed, SwingOrigin, footVars
<1>6. QED BY <1>1, <1>2, <1>3, <1>4, <1>5 DEF LoopInv

(* A step that leaves the loop alone altogether.                           *)
LEMMA LoopStutterInv ==
    ASSUME LoopInv, UNCHANGED <<vars, footVars, loopVars>>
    PROVE  LoopInv'
<1>1. ViewType'
  BY ViewTypeKept DEF loopVars
<1>2. iterationCounter' \in 0 .. SolveEvery - 1
  BY DEF loopVars, LoopInv, LoopTypeOK
<1>3. QED BY <1>1, <1>2, QuietInv DEF loopVars

(* The control step and the counter of the solves.                         *)
LEMMA EndCycleInv ==
    ASSUME LoopInv, EndCycle
    PROVE  LoopInv'
<1>1. iterationCounter' \in 0 .. SolveEvery - 1
  BY WalkLoopAssumption DEF EndCycle, LoopInv, LoopTypeOK
<1>2. ViewType'
  BY ViewTypeKept DEF EndCycle
<1>3. QED BY <1>1, <1>2, QuietInv DEF EndCycle

(* The end of a frame, whatever the user does, and of the loop.            *)
LEMMA EndFrameInv ==
    ASSUME LoopInv, EndFrame
    PROVE  LoopInv'
<1>1. /\ stage = "plan" /\ stage' \in {"plan", "exit"}
      /\ simStart' \in {simStart, time} /\ headless' = headless
      /\ runSim' \in IF headless THEN {runSim} ELSE BOOLEAN
      /\ time' = time /\ iterationCounter' = iterationCounter
  BY DEF EndFrame
<1>2. /\ {headless, runSim} \subseteq BOOLEAN
      /\ simStart \in 0 .. time /\ time \in Nat
      /\ iterationCounter \in 0 .. SolveEvery - 1
  BY LoopTypes DEF LoopInv, LoopTypeOK
<1>3. ViewType'
  <2>1. simStart' \in 0 .. time'
    BY <1>1, <1>2
  <2>2. runSim' \in BOOLEAN
    BY <1>1, <1>2
  <2>3. QED BY <1>1, <1>2, <2>1, <2>2 DEF ViewType
<1>4. QED BY <1>1, <1>2, <1>3, QuietInv DEF EndFrame

(* Standing again: the scheduler is left alone, in double support.         *)
LEMMA HoldInv ==
    ASSUME LoopInv, Simulate, walkingStarted, gait.supportPhase = "Double",
           bus' = StandingBus, stage' = "mpc",
           UNCHANGED <<vars, footVars, iterationCounter, walkingStarted,
                       gaitStarted>>
    PROVE  LoopInv'
<1>1. /\ stage = "plan" /\ time < Duration /\ time' = time + 1
      /\ UNCHANGED viewVars
  BY DEF Simulate, RunsTick
<1>2. IInv' /\ isIni' = isIni /\ gait' = gait /\ motionState' = motionState
  BY StartedIInv, LoopTypes DEF vars, LoopInv
<1>3. /\ BusType' /\ bus'.motionState = "Stand"
      /\ bus'.contacts = Contacts' /\ bus'.legState = gait'.legState
  BY <1>2, StandingBusAgrees DEF LoopInv
<1>4. LoopTypeOK'
  <2>1. time' \in 0 .. Duration
    BY <1>1, LoopTypes
  <2>2. ViewType'
    BY <1>1, ViewTypeKept
  <2>3. QED BY <1>2, <1>3, <2>1, <2>2
         DEF LoopInv, LoopTypeOK, ViewType, IInv, BusType
<1>5. StartInv'
  BY <1>1, <1>2, LoopTypes DEF LoopInv, StartInv, footVars, Punctual
<1>6. BusInv' /\ FootInv'
  BY <1>1, <1>2, <1>3 DEF LoopInv, BusInv, FootInv, footVars
<1>7. QED BY <1>2, <1>3, <1>4, <1>5, <1>6 DEF LoopInv

(* The swing curves and the foothold in use belong to the swing that is in *)
(* progress.                                                               *)
LEMMA LoopFollowsSwing ==
    ASSUME LoopInv
    PROVE  ReferenceOfThisSwing
<1> SUFFICES ASSUME stage = "mpc", bus.legState \in Stance
             PROVE  /\ referenceAtStepStart = SwingOrigin
                    /\ posDes_W = [kind |-> "foothold",
                                   foot |-> OppositeStance(gait.stanceLeg)]
  BY DEF ReferenceOfThisSwing, SwingOrigin
<1>1. gait.legState \in Stance
  BY DEF LoopInv, BusInv
<1>2. gait.supportPhase = "Single"
  BY <1>1, LoopTypes DEF LoopInv, IInv, Sound, Agrees, Stance
<1>3. QED BY <1>2 DEF LoopInv, FootInv, Followed

-----------------------------------------------------------------------------
(* The age of the last solve that was due, in ticks of the scheduler; it   *)
(* is one more between the scheduler's tick and the end of the cycle.      *)
SolveAge ==
    IF stage \in {"foot", "mpc"}
    THEN IF iterationCounter = 0 THEN SolveEvery ELSE iterationCounter
    ELSE IF iterationCounter = 0 THEN SolveEvery - 1 ELSE iterationCounter - 1

(* The age through the stages of a cycle: a tick makes it one more, the    *)
(* end of the cycle leaves it as it is or, after a solve, starts anew.     *)
LEMMA SolveAges ==
    ASSUME iterationCounter \in 0 .. SolveEvery - 1
    PROVE  /\ SolveAge \in 0 .. SolveEvery
           /\ stage \notin {"foot", "mpc"} => SolveAge < SolveEvery
           /\ stage \in {"foot", "mpc"} => SolveAge > 0
           /\ stage = "gait" /\ stage' = "foot" /\ UNCHANGED iterationCounter
                  => SolveAge' = SolveAge + 1
           /\ EndCycle => SolveAge' = IF iterationCounter = 0 THEN 0 ELSE SolveAge
<1>1. SolveEvery \in Nat \ {0} /\ iterationCounter \in Nat
  BY WalkLoopAssumption
<1>2. ASSUME EndCycle
      PROVE  SolveAge' = IF iterationCounter = 0 THEN 0 ELSE SolveAge
  <2>1. /\ iterationCounter' = (iterationCounter + 1) % SolveEvery
        /\ stage = "mpc" /\ stage' = "plan"
    BY <1>2 DEF EndCycle
  <2>2. CASE iterationCounter + 1 = SolveEvery
    <3>1. iterationCounter' = 0
      BY <1>1, <2>1, <2>2
    <3>2. QED BY <1>1, <2>1, <2>2, <3>1 DEF SolveAge
  <2>3. CASE iterationCounter + 1 < SolveEvery
    <3>1. iterationCounter' = iterationCounter + 1
      BY <1>1, <2>1, <2>3
    <3>2. QED BY <1>1, <2>1, <2>3, <3>1 DEF SolveAge
  <2>4. QED BY <1>1, <2>2, <2>3
<1>3. QED BY <1>1, <1>2 DEF SolveAge
=============================================================================

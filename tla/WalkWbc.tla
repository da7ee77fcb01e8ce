------------------------------ MODULE WalkWbc ------------------------------
(***************************************************************************)
(* The control loop of demo/walk_wbc.cpp (option --walk): stand, shift the *)
(* weight, walk.  Which pipeline runs is decided anew on every tick from   *)
(* the simulated time and from how far the centre of mass has moved, so    *)
(* that between StartShift and StartWalking the mode may change back and   *)
(* forth; every change stops the gait scheduler.                           *)
(*                                                                         *)
(* A tick runs through the stages                                          *)
(*                                                                         *)
(*   plan     mj_step, the choice of the mode, jsInterp, start and stop    *)
(*   gait     gaitScheduler: dataBusRead, step, dataBusWrite               *)
(*   foot     footPlacement                                                *)
(*   control  the feed-forward and one of the two whole-body controllers   *)
(*                                                                         *)
(* and the ticks of one frame run in an inner loop.  Between frames the    *)
(* viewer may be paused, resumed or closed.                                *)
(***************************************************************************)
EXTENDS GaitScheduler, FootPlacement, RampTrajectory

CONSTANTS
    EnableWalking,  \* the option --walk
    StartShift,     \* startShiftTime, in ticks
    StartWalking,   \* startWalkingTime
    StartStepping,  \* startSteppingTime
    SimEnd,         \* simEndTime
    Frame,          \* 1/60 s, in ticks
    XvDes,          \* xv_des, in the unit of the ramp
    RampTicks       \* the 2.0 s in which xv_des is to be reached

ASSUME WalkWbcAssumption ==
    /\ EnableWalking \in BOOLEAN
    /\ {StartShift, StartWalking, StartStepping, SimEnd} \subseteq Nat
    /\ 1 < StartShift
    /\ StartShift <= StartWalking /\ StartWalking <= StartStepping
    /\ Frame \in Nat \ {0}
    /\ RampTicks \in Nat \ {0} /\ XvDes \in Nat /\ XvDes % RampTicks = 0

VARIABLES
    stage, time,
    simstart, runSim,   \* the frame, and whether the viewer is running
    currentMode,
    gaitStarted,
    vxCommanded,        \* lastCommandedVx is a number
    vxLGen,             \* the ramp of the forward velocity
    pCoMDes,            \* WBC_bruce.pCoMDes: where it was taken
    pCoMDesInitialized,
    pCoMRefWorld,       \* where the reference of the walk was begun
    bus,                \* the part of the DataBus the controllers read
    Fr_ff,              \* the feet the feed-forward loads
    controller          \* the controller that ran, and the feet it works with

modeVars == <<simstart, runSim, currentMode, gaitStarted, vxCommanded, vxLGen>>
comVars == <<pCoMDes, pCoMDesInitialized, pCoMRefWorld>>
controlVars == <<Fr_ff, controller>>
walkVars == <<vars, footVars, stage, time, modeVars, comVars, bus, controlVars>>

-----------------------------------------------------------------------------
(* A centre of mass that was measured, at some tick, or the one of the     *)
(* standing reference.                                                     *)
NoCoM == [kind |-> "none", at |-> 0]
StandCoM == [kind |-> "stand", at |-> 0]
MeasuredCoM(t) == [kind |-> "measured", at |-> t]

StandingBus ==
    [motionState |-> "Stand", legState |-> "DSt", stanceLeg |-> "RSt",
     doubleSupport |-> TRUE, contacts |-> Stance, swingStart |-> NoReference]

WalkWbcInit ==
    /\ Init /\ FootInit
    /\ stage = "plan" /\ time = 0 /\ simstart = 0 /\ runSim = TRUE
    /\ currentMode = "Null" /\ gaitStarted = FALSE
    /\ vxCommanded = FALSE /\ vxLGen = RampAtZero
    /\ pCoMDes = NoCoM /\ pCoMDesInitialized = FALSE /\ pCoMRefWorld = NoCoM
    /\ bus = [StandingBus EXCEPT !.stanceLeg = "LSt"]
    /\ Fr_ff = {}
    /\ controller = [kind |-> "none", contacts |-> {}, stance |-> "RSt",
                     passiveAnkles |-> {}]

-----------------------------------------------------------------------------
(* The operators named ...Defect are the definition that follows them with *)
(* a plausible bug; they show that the properties below can fail.          *)
ReadyToWalkByShiftDefect(shifted) == ~EnableWalking \/ shifted

ReadyToWalk(shifted) == ~EnableWalking \/ time + 1 >= StartWalking \/ shifted

RequestWalkingMode(shifted) ==
    EnableWalking /\ time + 1 >= StartShift /\ ReadyToWalk(shifted)

RunsTick == stage = "plan" /\ runSim /\ time - simstart < Frame

(* The effect of stop(), but for start_walk.                               *)
Halted ==
    /\ motionState' = "Stand" /\ isIni' = FALSE
    /\ legStateNext' = OppositeStance(firstleg) /\ phi' = 0
    /\ gait' = AtRest(gait, gait.stepNumCur)
    /\ UNCHANGED <<enableNextStep, touchDown>>

(* The scheduler as the choice of the mode leaves it.                      *)
SwitchTo(mode, startNow) ==
    LET switches == mode # currentMode
        started == IF switches \/ mode = "Standing" THEN FALSE ELSE gaitStarted
    IN  /\ currentMode' = mode
        /\ gaitStarted' = (started \/ startNow)
        /\ start_walk' = ((startNow /\ ~started) \/ (start_walk /\ ~switches))
        /\ IF switches THEN Halted
           ELSE UNCHANGED <<motionState, isIni, legStateNext, phi, gait,
                            enableNextStep, touchDown>>

VxDueAlwaysDefect == TRUE

(* The forward velocity is commanded once for a walk.                      *)
VxDue == ~vxCommanded

Commanded == IF VxDue THEN SetPara(vxLGen, XvDes, RampTicks) ELSE vxLGen

EntersWalking == currentMode # "Walking"

KeepsReferenceDefect == pCoMDesInitialized

(* A walk is to begin from the centre of mass of its first tick.           *)
ReferenceInitialized == pCoMDesInitialized /\ ~EntersWalking

(* The branches without a planner put standing values on the bus, and the  *)
(* standing reference of the centre of mass in the walking controller.     *)
StandBranch ==
    /\ bus' = [StandingBus EXCEPT !.swingStart = bus.swingStart]
    /\ pCoMDes' = StandCoM
    /\ stage' = "control"
    /\ UNCHANGED <<footVars, pCoMRefWorld, simstart, runSim, controlVars>>

StandTick ==
    /\ RunsTick /\ time' = time + 1
    /\ \E shifted \in BOOLEAN : ~RequestWalkingMode(shifted)
    /\ SwitchTo("Standing", FALSE)
    /\ vxCommanded' = FALSE
    /\ pCoMDesInitialized' = (pCoMDesInitialized \/ time = 0)
    /\ StandBranch
    /\ UNCHANGED vxLGen

(* In walking mode, but the time for the first step has not come.          *)
ShiftTick ==
    /\ RunsTick /\ time' = time + 1 /\ time + 1 < StartStepping
    /\ \E shifted \in BOOLEAN : RequestWalkingMode(shifted)
    /\ SwitchTo("Walking", FALSE)
    /\ vxCommanded' = TRUE /\ vxLGen' = Commanded
    /\ pCoMDesInitialized' = ReferenceInitialized
    /\ StandBranch

StepTick ==
    /\ RunsTick /\ time' = time + 1 /\ time + 1 >= StartStepping
    /\ \E shifted \in BOOLEAN : RequestWalkingMode(shifted)
    /\ SwitchTo("Walking", TRUE)
    /\ vxCommanded' = TRUE /\ vxLGen' = RampStep(Commanded)
    /\ pCoMDesInitialized' = ReferenceInitialized
    /\ bus' = [bus EXCEPT !.motionState = "Walk"]
    /\ stage' = "gait"
    /\ UNCHANGED <<footVars, pCoMDes, pCoMRefWorld, simstart, runSim, controlVars>>

SwingStart ==
    IF gait'.supportPhase = "Single" /\ ~LiftOff
    THEN bus.swingStart
    ELSE Sample(gait'.swingStart, gait'.stepNumCur)

GaitToBusEarlyDefect ==
    [motionState |-> motionState', legState |-> gait.legState,
     stanceLeg |-> gait'.stanceLeg,
     doubleSupport |-> gait'.supportPhase = "Double",
     contacts |-> Contacts, swingStart |-> SwingStart]

(* gaitScheduler.dataBusWrite.                                             *)
GaitToBus ==
    [motionState |-> motionState', legState |-> gait'.legState,
     stanceLeg |-> gait'.stanceLeg,
     doubleSupport |-> gait'.supportPhase = "Double",
     contacts |-> Contacts', swingStart |-> SwingStart]

StepGait ==
    /\ stage = "gait"
    /\ WalkTick
    /\ bus' = GaitToBus
    /\ stage' = "foot"
    /\ UNCHANGED <<footVars, time, modeVars, comVars, controlVars>>

PlaceFoot ==
    /\ stage = "foot"
    /\ GetSwingPos(bus.legState, bus.swingStart)
    /\ stage' = "control"
    /\ UNCHANGED <<vars, time, modeVars, comVars, bus, controlVars>>

NominalForces ==
    IF bus.doubleSupport THEN Stance
    ELSE IF "LSt" \in bus.contacts THEN {"LSt"} ELSE {"RSt"}

(* WBC_priority stands on both feet.                                       *)
ControlStand ==
    /\ stage = "control" /\ bus.motionState = "Stand"
    /\ Fr_ff' = Stance
    /\ controller' = [kind |-> "stand", contacts |-> Stance,
                      stance |-> bus.stanceLeg, passiveAnkles |-> {}]
    /\ stage' = "plan"
    /\ UNCHANGED <<vars, footVars, time, modeVars, comVars, bus>>

(* WBC_BruceWeighted: what dataBusRead derives from the bus, and the       *)
(* reference of the centre of mass, which is captured once and then moved. *)
ControlWalk ==
    /\ stage = "control" /\ bus.motionState # "Stand"
    /\ Fr_ff' = NominalForces
    /\ controller' =
           [kind |-> "walk", contacts |-> bus.contacts, stance |-> bus.stanceLeg,
            passiveAnkles |-> IF bus.doubleSupport THEN {} ELSE {bus.stanceLeg}]
    /\ LET des == IF pCoMDesInitialized THEN pCoMDes ELSE MeasuredCoM(time)
           ref == IF pCoMRefWorld = NoCoM THEN des ELSE pCoMRefWorld
       IN  pCoMRefWorld' = ref /\ pCoMDes' = ref
    /\ pCoMDesInitialized' = TRUE
    /\ stage' = "plan"
    /\ UNCHANGED <<vars, footVars, time, modeVars, bus>>

(* The end of a frame: break, or updateScene, where the user may pause,    *)
(* resume or close the viewer.                                             *)
EndFrame ==
    /\ stage = "plan" /\ ~RunsTick
    /\ IF time >= SimEnd
       THEN stage' = "exit" /\ UNCHANGED <<simstart, runSim>>
       ELSE /\ stage' \in {"plan", "exit"}
            /\ simstart' = time /\ runSim' \in BOOLEAN
    /\ UNCHANGED <<vars, footVars, time, currentMode, gaitStarted, vxCommanded,
                   vxLGen, comVars, bus, controlVars>>

Exited == stage = "exit" /\ UNCHANGED walkVars

WalkWbcNext ==
    \/ StandTick \/ ShiftTick \/ StepTick
    \/ StepGait \/ PlaceFoot \/ ControlStand \/ ControlWalk
    \/ EndFrame \/ Exited

WalkWbcSpec == WalkWbcInit /\ [][WalkWbcNext]_walkVars

-----------------------------------------------------------------------------
(* The scheduler is never stopped with a foot in the air, although the     *)
(* mode is decided anew on every tick by a distance that the walk itself   *)
(* changes: a swing ends in a landing, which is counted.                   *)
SwingsEndInLandings ==
    [][gait.supportPhase = "Single" =>
           \/ gait'.stepNumCur = gait.stepNumCur + 1
           \/ /\ gait'.supportPhase = "Single"
              /\ gait'.stanceLeg = gait.stanceLeg]_walkVars

(* Whichever controller has computed the torques, it worked with the       *)
(* contacts of the scheduler: the constrained and the loaded feet are the  *)
(* ones on the ground, the ankle left without torque is the one of the     *)
(* foot that stands alone, and the foothold is one for the other foot.     *)
ControllersAgree ==
    stage = "plan" /\ controller.kind # "none" =>
        /\ controller.contacts = Contacts /\ Fr_ff = Contacts
        /\ controller.stance = gait.stanceLeg
        /\ controller.passiveAnkles =
               IF gait.supportPhase = "Single" THEN {gait.stanceLeg} ELSE {}
        /\ gait.supportPhase = "Single" =>
               /\ posDes_W = [kind |-> "foothold",
                              foot |-> OppositeStance(gait.stanceLeg)]
               /\ referenceAtStepStart =
                      Sample(OppositeStance(gait.stanceLeg), gait.stepNumCur)

(* The forward velocity handed to the planner stays at zero until the      *)
(* first step, then it is never behind a straight ramp of RampTicks ticks  *)
(* and never beyond the velocity commanded, however often the mode has     *)
(* changed before.                                                         *)
VelocityRamp ==
    IF ~EnableWalking \/ time < StartStepping
    THEN vxLGen.y = 0
    ELSE /\ vxLGen.y <= XvDes
         /\ vxLGen.y >= Lesser(XvDes, (time - StartStepping + 1)
                                         * (XvDes \div RampTicks))

(* The reference that the walk moves on begins at the centre of mass of    *)
(* the first walking tick: neither the standing reference nor a centre of  *)
(* mass measured when the mode first changed is left over in it.           *)
WalkBeginsHere ==
    pCoMRefWorld # NoCoM => pCoMRefWorld = MeasuredCoM(StartStepping)
=============================================================================

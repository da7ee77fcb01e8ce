--------------------------- MODULE GaitScheduler ---------------------------
(***************************************************************************)
(* The biped gait state machine of algorithm/gait_scheduler.{h,cpp}.        *)
(*                                                                         *)
(* One tick of the control loop is dataBusRead; step; dataBusWrite: the    *)
(* caller's motion state is latched, one dt elapses, and the support phase *)
(* may change.  Time is counted in ticks, so singleSupportTime,            *)
(* doubleSupportTime and the 0.4 s late-landing allowance are natural      *)
(* numbers.  What the tick senses is an input of the action: whether the   *)
(* swinging foot is near the ground or loaded, and whether the estimated   *)
(* contact force of that foot is at least 200 N.                           *)
(*                                                                         *)
(* The caller's protocol is part of the model: in every demo a stop() is   *)
(* followed by a start() before the next tick that asks for Walk.          *)
(***************************************************************************)
EXTENDS Integers, DataBus

CONSTANTS
    SingleSupport,  \* singleSupportTime, in ticks
    DoubleSupport,  \* doubleSupportTime, in ticks
    LateLanding,    \* the 0.4 s a swing may be late, in ticks
    StepNumDes,     \* stepNumDes: how many steps the walk may take
    MaxPhaseTime    \* bound of the model: ticks a Walk2Stand phase may last

ASSUME GaitAssumption ==
    /\ SingleSupport \in Nat \ {0}
    /\ DoubleSupport \in Nat
    /\ LateLanding \in Nat
    /\ StepNumDes \in Nat
    /\ MaxPhaseTime \in Nat

VARIABLES
    start_walk,      \* walking may be initialised
    motionState,     \* as latched from the bus, or changed by the scheduler
    isIni,           \* the walk has been initialised
    enableNextStep,  \* the phase machine, not the force test, counts steps
    touchDown,       \* touch-down event indicator of the force test
    legStateNext,    \* the announced next leg state
    phi,             \* swing progress, in ticks of SingleSupport
    gait             \* supportPhase, phaseTime, stanceLeg, legState, steps ...

vars == <<start_walk, motionState, isIni, enableNextStep, touchDown,
          legStateNext, phi, gait>>

-----------------------------------------------------------------------------
firstleg == "RSt"

Lesser(a, b) == IF a <= b THEN a ELSE b

(* The phase machine's own state; swingStart names the foot whose position *)
(* swingStartPos_W holds.                                                  *)
Gait == [supportPhase : {"Double", "Single"},
         phaseTime    : Nat,
         stanceLeg    : Stance,
         legState     : LegState,
         swingStart   : Stance,
         stepNumCur   : Nat]

(* The operators named ...Defect are the definition that follows them with *)
(* a plausible bug; they show that the properties below can fail.          *)
AtRestKeepsLegDefect(g, steps) ==
    [g EXCEPT !.supportPhase = "Double", !.phaseTime = 0,
              !.stanceLeg = firstleg, !.stepNumCur = steps]

(* Both feet down on the first leg: the gait a stop, a Stand tick and the  *)
(* first Walk tick establish; the step count is theirs to choose.          *)
AtRest(g, steps) ==
    [g EXCEPT !.supportPhase = "Double", !.phaseTime = 0,
              !.stanceLeg = firstleg, !.legState = "DSt",
              !.stepNumCur = steps]

EnterSingleSupportOverBudgetDefect(g) ==
    [g EXCEPT !.supportPhase = "Single", !.phaseTime = 0,
              !.stanceLeg = OppositeStance(g.stanceLeg),
              !.legState = OppositeStance(g.stanceLeg),
              !.swingStart = g.stanceLeg]

EnterSingleSupportSameLegDefect(g) ==
    IF g.stepNumCur >= StepNumDes
    THEN [g EXCEPT !.phaseTime = Lesser(@, DoubleSupport)]
    ELSE [g EXCEPT !.supportPhase = "Single", !.phaseTime = 0,
                   !.legState = g.stanceLeg,
                   !.swingStart = OppositeStance(g.stanceLeg)]

(* enterSingleSupport: the step budget decides whether a foot may leave    *)
(* the ground; a refused lift-off holds the phase time at the limit.       *)
EnterSingleSupport(g) ==
    IF g.stepNumCur >= StepNumDes
    THEN [g EXCEPT !.phaseTime = Lesser(@, DoubleSupport)]
    ELSE [g EXCEPT !.supportPhase = "Single", !.phaseTime = 0,
                   !.stanceLeg = OppositeStance(g.stanceLeg),
                   !.legState = OppositeStance(g.stanceLeg),
                   !.swingStart = g.stanceLeg]

EnterDoubleSupportKeepsLegDefect(g) ==
    [g EXCEPT !.supportPhase = "Double", !.phaseTime = 0, !.stepNumCur = @ + 1]

EnterDoubleSupportUncountedDefect(g) ==
    [g EXCEPT !.supportPhase = "Double", !.phaseTime = 0, !.legState = "DSt"]

EnterDoubleSupport(g) ==
    [g EXCEPT !.supportPhase = "Double", !.phaseTime = 0,
              !.stepNumCur = @ + 1, !.legState = "DSt"]

SwingFootReadyForSwitch(g, sensed) == g.legState = "DSt" \/ sensed

LiftIfDue(g) ==
    IF g.supportPhase = "Double" /\ g.phaseTime >= DoubleSupport
    THEN EnterSingleSupport(g)
    ELSE g

LandIfDueNoTimeoutDefect(g, sensed) ==
    IF /\ g.supportPhase = "Single"
       /\ g.phaseTime >= SingleSupport
       /\ SwingFootReadyForSwitch(g, sensed)
    THEN EnterDoubleSupport(g)
    ELSE g

LandIfDue(g, sensed) ==
    IF /\ g.supportPhase = "Single"
       /\ g.phaseTime >= SingleSupport
       /\ \/ SwingFootReadyForSwitch(g, sensed)
          \/ g.phaseTime >= SingleSupport + LateLanding
    THEN EnterDoubleSupport(g)
    ELSE g

(* The transition loop of step().  A swing lasts at least one tick, so a   *)
(* lift-off is never followed by a landing in the same tick: at most one   *)
(* landing and then one lift-off take place.                               *)
Transitions(g, sensed) == LiftIfDue(LandIfDue(g, sensed))

Tick(g) == [g EXCEPT !.phaseTime = @ + 1]

SwingProgressUnclampedDefect(g) == g.phaseTime

SwingProgressWrapsDefect(g) == g.phaseTime % SingleSupport

(* phi in units of 1 / SingleSupport, clamped.                             *)
SwingProgress(g) == Lesser(g.phaseTime, SingleSupport)

ForceTestAlwaysOnDefect(g, enabled, loaded) == g.legState # "DSt" /\ loaded

(* The force test that used to count steps while the phase machine is off. *)
ForceTest(g, enabled, loaded) ==
    ~enabled /\ g.legState # "DSt" /\ loaded

(* The end of every step(): the force test, then updateKinematicOutputs.   *)
Publish(ms, g, enabled, loaded) ==
    LET hit == ForceTest(g, enabled, loaded)
        h == IF hit THEN [g EXCEPT !.stepNumCur = @ + 1, !.legState = "DSt"]
                    ELSE g
    IN  /\ motionState' = ms
        /\ enableNextStep' = enabled
        /\ touchDown' = (~enabled /\ (touchDown \/ hit))
        /\ legStateNext' = IF h.supportPhase = "Single" /\ ms = "Walk2Stand"
                           THEN "DSt" ELSE OppositeStance(h.stanceLeg)
        /\ gait' = IF h.supportPhase = "Double"
                   THEN [h EXCEPT !.swingStart = OppositeStance(h.stanceLeg)]
                   ELSE h

-----------------------------------------------------------------------------
(* The constructor.  swingStartPos_W has no value before the first tick    *)
(* and is read by nobody until then.                                       *)
Init ==
    /\ start_walk = TRUE
    /\ motionState = "Stand"
    /\ isIni = FALSE
    /\ enableNextStep = FALSE
    /\ touchDown = FALSE
    /\ legStateNext = OppositeStance(firstleg)
    /\ phi = 0
    /\ gait = [supportPhase |-> "Double", phaseTime |-> 0,
               stanceLeg |-> firstleg, legState |-> "DSt",
               swingStart |-> OppositeStance(firstleg), stepNumCur |-> 0]

Start ==
    /\ start_walk' = TRUE
    /\ UNCHANGED <<motionState, isIni, enableNextStep, touchDown,
                   legStateNext, phi, gait>>

Stop ==
    /\ start_walk' = FALSE
    /\ motionState' = "Stand"
    /\ isIni' = FALSE
    /\ legStateNext' = OppositeStance(firstleg)
    /\ phi' = 0
    /\ gait' = AtRest(gait, gait.stepNumCur)
    /\ UNCHANGED <<enableNextStep, touchDown>>

StepStand(loaded) ==
    /\ phi' = 0
    /\ isIni' = FALSE
    /\ Publish("Stand", AtRest(gait, 0), FALSE, loaded)
    /\ UNCHANGED start_walk

(* The demos set gaitStarted together with start(), before the tick.       *)
CallerHasStarted == start_walk

WalkFrom ==
    IF ~isIni /\ start_walk THEN AtRest(gait, gait.stepNumCur) ELSE gait

StepWalk(sensed, loaded) ==
    LET g == Transitions(Tick(WalkFrom), sensed)
    IN  /\ CallerHasStarted
        /\ isIni' = (isIni \/ start_walk)
        /\ phi' = IF g.supportPhase = "Single" THEN SwingProgress(g) ELSE 0
        /\ Publish("Walk", g, TRUE, loaded)
        /\ UNCHANGED start_walk

(* Walk2Stand waits for the swing foot without a time limit; when it is    *)
(* down the scheduler itself changes the motion state to Stand.            *)
StepWalk2Stand(sensed, loaded) ==
    LET g == Tick(gait)
        landed == /\ g.supportPhase = "Single"
                  /\ SwingFootReadyForSwitch(g, sensed)
    IN  /\ gait.phaseTime < MaxPhaseTime
        /\ phi' = SwingProgress(g)
        /\ IF landed
           THEN Publish("Stand", EnterDoubleSupport(g), enableNextStep, loaded)
           ELSE Publish("Walk2Stand", g, enableNextStep, loaded)
        /\ UNCHANGED <<start_walk, isIni>>

WalkTick == \E sensed, loaded \in BOOLEAN : StepWalk(sensed, loaded)

Next ==
    \/ Start
    \/ Stop
    \/ \E loaded \in BOOLEAN : StepStand(loaded)
    \/ WalkTick
    \/ \E sensed, loaded \in BOOLEAN : StepWalk2Stand(sensed, loaded)

(* The control loop ticks for as long as the program runs, so a walk that  *)
(* is being asked for goes on being stepped.                               *)
Fairness == WF_vars(WalkTick)

Spec == Init /\ [][Next]_vars /\ Fairness

-----------------------------------------------------------------------------
(* dataBusWrite: the feet published as being in contact.                   *)
Contacts == IF gait.supportPhase = "Double" THEN Stance ELSE {gait.stanceLeg}

(* What the published state means: each variable has its type.             *)
TypeOK ==
    /\ start_walk \in BOOLEAN
    /\ motionState \in MotionState
    /\ isIni \in BOOLEAN
    /\ enableNextStep \in BOOLEAN
    /\ touchDown \in BOOLEAN
    /\ legStateNext \in LegState
    /\ phi \in 0 .. SingleSupport
    /\ gait \in Gait

(* The three encodings of the support phase that the controllers read      *)
(* independently (supportPhase through the contacts, legState, stanceLeg)  *)
(* agree, and during a swing swingStartPos_W belongs to the foot in the    *)
(* air, never to the one that carries the robot.                           *)
PhaseAgreement ==
    IF gait.supportPhase = "Double"
    THEN gait.legState = "DSt"
    ELSE /\ gait.legState = gait.stanceLeg
         /\ gait.swingStart = OppositeStance(gait.stanceLeg)

(* The walk never takes more steps than stepNumDes, and no foot leaves the *)
(* ground when the budget is already used up.                              *)
StepBudget ==
    /\ gait.stepNumCur <= StepNumDes
    /\ gait.supportPhase = "Single" => gait.stepNumCur < StepNumDes

(* The force-based touch-down test, which also counts steps, never fires:  *)
(* whenever a foot is in the air the phase machine does the counting.      *)
NoForceTouchDown ==
    /\ touchDown = FALSE
    /\ gait.supportPhase = "Single" => enableNextStep

(* A walk that is not initialised stands on both feet with the turn at the *)
(* first leg: its first tick never pulls a foot out of a swing.            *)
RestsUntilStarted ==
    ~isIni => gait.supportPhase = "Double" /\ gait.stanceLeg = firstleg

(* While walking, no swing outlives its nominal time plus the 0.4 s        *)
(* allowance, whatever the foot's height and force sensors say.            *)
SwingBounded ==
    motionState = "Walk" /\ gait.supportPhase = "Single"
        => gait.phaseTime < SingleSupport + LateLanding

(* A step is counted exactly when a swinging foot lands: the count grows   *)
(* by one, out of single support, and by nothing else; only a Stand tick   *)
(* clears it.                                                              *)
StepsAreLandings ==
    [][gait'.stepNumCur # gait.stepNumCur =>
          \/ /\ gait'.stepNumCur = 0
             /\ motionState' = "Stand" /\ ~enableNextStep'
          \/ /\ gait'.stepNumCur = gait.stepNumCur + 1
             /\ gait.supportPhase = "Single"
             /\ \/ gait'.supportPhase = "Double"
                \/ gait'.stanceLeg # gait.stanceLeg]_vars

LiftOff ==
    /\ gait'.supportPhase = "Single"
    /\ gait.supportPhase = "Double" \/ gait'.stanceLeg # gait.stanceLeg

(* A step counted by a tick that was asked to walk.                        *)
WalkingLanding ==
    motionState' = "Walk" /\ gait'.stepNumCur = gait.stepNumCur + 1

(* The swing curve, which is evaluated at phi, is run through once from    *)
(* its beginning to its end: phi is zero at the lift-off, takes every tick *)
(* of the swing one further through all changes of the motion state, waits *)
(* at the end for a late landing, and a walking landing cuts off at most   *)
(* the last tick of the curve.                                             *)
SwingOnward ==
    [][/\ LiftOff => phi' = 0
       /\ gait.supportPhase = "Single" /\ gait'.supportPhase = "Single" /\ ~LiftOff
              => phi' = Lesser(phi + 1, SingleSupport)
       /\ WalkingLanding => phi >= SingleSupport - 1]_<<phi, gait>>

(* A walk that is kept up for ever takes all its steps and comes to rest   *)
(* on both feet, even if the swing foot is never sensed to be ready.       *)
WalkCompletes ==
    <>[](motionState = "Walk")
        => <>(gait.stepNumCur = StepNumDes /\ gait.supportPhase = "Double")
=============================================================================

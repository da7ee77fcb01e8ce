------------------------------ MODULE WalkLoop ------------------------------
(***************************************************************************)
(* What the control loops of the walking demos have in common: the clock,  *)
(* the flags that start the walk, and the part of the DataBus through      *)
(* which scheduler, foot planner and controllers communicate.              *)
(*                                                                         *)
(* One pass through a loop is one simulator step; it is split into the     *)
(* stages the code runs one after the other, each of which acts on one     *)
(* component and on the bus:                                               *)
(*                                                                         *)
(*   plan    mj_step, then which of the branches runs; after 1/60 s of     *)
(*           steps, or while the viewer is paused, the end of a frame      *)
(*   gait    gaitScheduler: dataBusRead, step, dataBusWrite                *)
(*   foot    footPlacement                                                 *)
(*   mpc     the MPC solve, the feed-forward, the controller               *)
(*                                                                         *)
(* The scheduler and the foot planner are the components of their own      *)
(* modules.                                                                *)
(***************************************************************************)
EXTENDS GaitScheduler, FootPlacement

CONSTANTS
    WalkStart,    \* walkStartTime: the first walking tick
    Duration,     \* options.duration, in ticks
    SolveEvery,   \* kMpcSolveEveryIterations
    Frame         \* 1/60 s, in ticks

ASSUME WalkLoopAssumption ==
    /\ WalkStart \in Nat \ {0}
    /\ Duration \in Nat
    /\ SolveEvery \in Nat \ {0}
    /\ Frame \in Nat \ {0}

VARIABLES
    stage,           \* what the loop does next
    time,            \* mj_data->time
    iterationCounter,\* modulo SolveEvery
    walkingStarted, gaitStarted,
    headless,        \* options.headless: without a viewer
    simStart,        \* the time at which the frame began
    runSim,          \* FALSE: the user has paused the viewer
    bus              \* the part of the DataBus written here and read later

viewVars == <<headless, simStart, runSim>>
loopVars == <<stage, time, iterationCounter, walkingStarted, gaitStarted,
              viewVars, bus>>

-----------------------------------------------------------------------------
LoopInit ==
    /\ Init /\ FootInit
    /\ stage = "plan" /\ time = 0 /\ iterationCounter = 0
    /\ walkingStarted = FALSE /\ gaitStarted = FALSE
    /\ headless \in BOOLEAN /\ simStart = 0 /\ runSim = TRUE
    /\ bus = [motionState |-> "Stand", legState |-> "DSt",
              contacts |-> Stance, swingStart |-> NoReference]

(* The loop goes on by itself: a paused viewer waits for its user.         *)
Running == headless \/ runSim

(* The tests of the inner loop, which runs the ticks of one frame.         *)
RunsTick ==
    stage = "plan" /\ Running /\ time - simStart < Frame /\ time < Duration

(* mj_step.                                                                *)
Simulate ==
    /\ RunsTick
    /\ time' = time + 1
    /\ UNCHANGED viewVars

(* What the standing branches put on the bus.                              *)
StandingBus == [bus EXCEPT !.motionState = "Stand", !.legState = "DSt",
                           !.contacts = Stance]

(* Before the walk the scheduler is stopped on every tick.                 *)
StandStill ==
    /\ Simulate /\ time + 1 < WalkStart
    /\ Stop
    /\ gaitStarted' = FALSE
    /\ bus' = StandingBus
    /\ stage' = "mpc"
    /\ UNCHANGED <<footVars, iterationCounter, walkingStarted>>

(* The first walking tick: stop(), and start() before the scheduler runs.  *)
StartWalk(steps) ==
    /\ Simulate /\ time + 1 >= WalkStart /\ ~walkingStarted
    /\ walkingStarted' = TRUE /\ gaitStarted' = TRUE
    /\ start_walk' = TRUE /\ motionState' = "Stand" /\ isIni' = FALSE
    /\ legStateNext' = OppositeStance(firstleg) /\ phi' = 0
    /\ gait' = AtRest(gait, steps)
    /\ bus' = [bus EXCEPT !.motionState = "Walk"]
    /\ stage' = "gait"
    /\ UNCHANGED <<enableNextStep, touchDown, footVars, iterationCounter>>

KeepWalking ==
    /\ Simulate /\ walkingStarted
    /\ bus' = [bus EXCEPT !.motionState = "Walk"]
    /\ stage' = "gait"
    /\ UNCHANGED <<vars, footVars, iterationCounter, walkingStarted, gaitStarted>>

(* The operator named ...Defect is the definition that follows it with a   *)
(* plausible bug: the bus is written before the step.                      *)
BusBeforeGaitDefect ==
    [motionState |-> motionState', legState |-> gait'.legState,
     contacts |-> Contacts,
     swingStart |->
        IF gait'.supportPhase = "Single" /\ ~LiftOff
        THEN bus.swingStart
        ELSE Sample(gait'.swingStart, gait'.stepNumCur)]

(* gaitScheduler.dataBusWrite, with the swing start's origin.              *)
BusAfterGait ==
    [motionState |-> motionState', legState |-> gait'.legState,
     contacts |-> Contacts',
     swingStart |->
        IF gait'.supportPhase = "Single" /\ ~LiftOff
        THEN bus.swingStart
        ELSE Sample(gait'.swingStart, gait'.stepNumCur)]

TickGait ==
    /\ stage = "gait"
    /\ WalkTick
    /\ bus' = BusAfterGait
    /\ stage' = "foot"
    /\ UNCHANGED <<footVars, time, iterationCounter, walkingStarted,
                   gaitStarted, viewVars>>

PlanFoot ==
    /\ stage = "foot"
    /\ GetSwingPos(bus.legState, bus.swingStart)
    /\ stage' = "mpc"
    /\ UNCHANGED <<vars, time, iterationCounter, walkingStarted, gaitStarted,
                   viewVars, bus>>

EndCycle ==
    /\ stage = "mpc"
    /\ iterationCounter' = (iterationCounter + 1) % SolveEvery
    /\ stage' = "plan"
    /\ UNCHANGED <<vars, footVars, time, walkingStarted, gaitStarted,
                   viewVars, bus>>

(* The end of a frame: updateScene, where the user of a viewer may pause,  *)
(* resume or close it, and the tests of the outer loop, which is left when *)
(* the duration is over or the window was closed.                          *)
EndFrame ==
    /\ stage = "plan" /\ ~RunsTick
    /\ stage' \in IF time >= Duration THEN {"exit"}
                  ELSE IF headless THEN {"plan"} ELSE {"plan", "exit"}
    /\ simStart' = IF stage' = "exit" THEN simStart ELSE time
    /\ runSim' \in IF headless THEN {runSim} ELSE BOOLEAN
    /\ UNCHANGED <<vars, footVars, time, iterationCounter, walkingStarted,
                   gaitStarted, headless, bus>>

Walking == bus.motionState = "Walk"

-----------------------------------------------------------------------------
LoopTypeOK ==
    /\ TypeOK
    /\ stage \in {"plan", "gait", "foot", "mpc", "exit"}
    /\ time \in 0 .. Duration
    /\ iterationCounter \in 0 .. SolveEvery - 1
    /\ {walkingStarted, gaitStarted, headless, runSim} \subseteq BOOLEAN
    /\ simStart \in 0 .. time
    /\ bus.motionState \in MotionState /\ bus.legState \in LegState
    /\ bus.contacts \subseteq Stance

(* The swing curves in use start where the foot now in the air left the    *)
(* ground at the beginning of this very step, and the foothold planned is  *)
(* one for that foot: neither is left over from an earlier swing.          *)
ReferenceOfThisSwing ==
    stage = "mpc" /\ Walking /\ bus.legState \in Stance =>
        /\ referenceAtStepStart =
               Sample(OppositeStance(gait.stanceLeg), gait.stepNumCur)
        /\ posDes_W = [kind |-> "foothold",
                       foot |-> OppositeStance(gait.stanceLeg)]

(* What a walk needs of the user of a viewer: it is not left paused for    *)
(* ever, and its window is not closed before the duration is over.         *)
ViewerKept ==
    []<>Running /\ [](stage = "exit" => time >= Duration)

(* The longest a step may take: its double support, its swing, and the     *)
(* allowance for a landing that is not sensed.                             *)
SlowestStep == DoubleSupport + SingleSupport + LateLanding
=============================================================================

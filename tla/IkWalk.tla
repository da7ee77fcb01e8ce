------------------------------ MODULE IkWalk ------------------------------
(***************************************************************************)
(* The control loops of demo/g1_cd_nmpc_ik_walk.cpp (centroidal NMPC) and  *)
(* demo/g1_srbd_ik_walk.cpp (SRBD-MPC): stand, then walk until the end.    *)
(* The legs follow inverse kinematics, and the contact forces of the last  *)
(* solve are fed forward to the leg motors through the foot Jacobians.     *)
(*                                                                         *)
(* Unlike the whole-body demo, neither loop compares the forces it keeps   *)
(* with the contacts of the tick that uses them.  The two differ in what   *)
(* they do while standing: the SRBD demo solves as it does when walking,   *)
(* the NMPC demo sets nominal forces and forgets them when the walk        *)
(* begins.                                                                 *)
(***************************************************************************)
EXTENDS WalkLoop

CONSTANT SolvesStanding   \* the SRBD demo

ASSUME IkWalkAssumption == SolvesStanding \in BOOLEAN

VARIABLES
    hasMpcSolution,
    lastMpcPlaneForces,  \* the feet loaded by the forces in use
    solveFailed,         \* history: the last attempted solve failed
    Fr_ff,               \* the feet loaded by the wrench on the bus
    tauFeet              \* the feet whose leg gets a contact torque; {} at first

ikVars == <<hasMpcSolution, lastMpcPlaneForces, solveFailed, Fr_ff, tauFeet>>
allIkVars == <<vars, footVars, loopVars, ikVars>>

-----------------------------------------------------------------------------
IkInit ==
    /\ LoopInit
    /\ hasMpcSolution = FALSE
    /\ lastMpcPlaneForces = Stance
    /\ solveFailed = FALSE
    /\ Fr_ff = {} /\ tauFeet = {}

IkStand == StandStill /\ UNCHANGED ikVars

IkBeginWalk ==
    /\ StartWalk(gait.stepNumCur)
    /\ IF SolvesStanding
       THEN UNCHANGED <<hasMpcSolution, lastMpcPlaneForces>>
       ELSE hasMpcSolution' = FALSE /\ lastMpcPlaneForces' = Stance
    /\ UNCHANGED <<solveFailed, Fr_ff, tauFeet>>

IkKeepWalking == KeepWalking /\ UNCHANGED ikVars

IkStepGait == TickGait /\ UNCHANGED ikVars

IkPlaceFoot == PlanFoot /\ UNCHANGED ikVars

(* The operators named ...Defect are the definition that follows them with *)
(* a plausible bug; they show that the properties below can fail.          *)
IkSolveOnceDefect == (Walking \/ SolvesStanding) /\ ~hasMpcSolution

IkSolveSwingOnlyDefect ==
    /\ Walking \/ SolvesStanding
    /\ iterationCounter = 0 /\ bus.contacts # Stance

IkSolveDue == (Walking \/ SolvesStanding) /\ iterationCounter = 0

(* The MPC plans for the contact table, whose first row is the bus.        *)
SolvedForces == bus.contacts

(* The forces in use after the solve, if one is due and succeeds; the NMPC *)
(* demo puts nominal forces on both feet while it stands.                  *)
ForcesNow(ok) ==
    IF IkSolveDue /\ ok THEN SolvedForces
    ELSE IF Walking \/ SolvesStanding THEN lastMpcPlaneForces
    ELSE Stance

HasForcesNow(ok) ==
    hasMpcSolution \/ (IkSolveDue /\ ok) \/ ~(Walking \/ SolvesStanding)

(* fillWalkBus, the solve, the legs' feed-forward.                         *)
IkControlStep ==
    /\ EndCycle
    /\ \E ok \in BOOLEAN :
          /\ solveFailed' = IF IkSolveDue THEN ~ok ELSE solveFailed
          /\ lastMpcPlaneForces' = ForcesNow(ok)
          /\ hasMpcSolution' = HasForcesNow(ok)
          /\ Fr_ff' = IF HasForcesNow(ok) THEN ForcesNow(ok) ELSE bus.contacts
          /\ tauFeet' = ForcesNow(ok)

IkEndFrame == EndFrame /\ UNCHANGED ikVars

IkExited == stage = "exit" /\ UNCHANGED allIkVars

IkNext ==
    \/ IkStand \/ IkBeginWalk \/ IkKeepWalking
    \/ IkStepGait \/ IkPlaceFoot \/ IkControlStep
    \/ IkEndFrame \/ IkExited

(* The program goes on while it runs; nothing is assumed of the user of a  *)
(* paused viewer.                                                          *)
IkSpec ==
    IkInit /\ [][IkNext]_allIkVars /\ WF_allIkVars(Running /\ IkNext)

-----------------------------------------------------------------------------
IkCycleDone == stage = "plan" /\ time > 0

(* The legs' feed-forward follows the contacts with a delay of less than a *)
(* solve interval: a foot that left the ground, or landed, SolveEvery - 1  *)
(* ticks ago or earlier is driven according to where it is, unless the     *)
(* latest solve failed.  Within the delay a foot in the air is pushed with *)
(* the force it had on the ground.                                         *)
LoadFollowsContacts ==
    (/\ IkCycleDone /\ walkingStarted /\ ~solveFailed
     /\ gait.phaseTime >= SolveEvery - 1)
        => tauFeet = Contacts

(* The robot is carried while the solver answers: when a double support    *)
(* spans a solve, the stance leg has a contact torque in every tick.       *)
StanceCarried ==
    IkCycleDone /\ ~solveFailed /\ DoubleSupport >= SolveEvery
        => gait.stanceLeg \in tauFeet

(* The walk keeps its pace whatever the feet sense and the solver does:    *)
(* until the step budget is used up, steps are counted at least at the     *)
(* rate of the slowest step.                                               *)
PaceKept ==
    (/\ IkCycleDone /\ walkingStarted
     /\ gait.stepNumCur < StepNumDes)
        => time - WalkStart < (gait.stepNumCur + 1) * SlowestStep

(* With time enough for it, every step that may be taken is taken before   *)
(* the program ends: always in a headless run, and in a viewer that is     *)
(* neither closed early nor left paused for ever.                          *)
StepsTakenAtExit ==
    Duration >= WalkStart + StepNumDes * (SlowestStep + 1) /\ ViewerKept
        => <>(stage = "exit" /\ gait.stepNumCur = StepNumDes)
=============================================================================

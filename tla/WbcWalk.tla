------------------------------ MODULE WbcWalk ------------------------------
(***************************************************************************)
(* The control loop of demo/g1_cd_nmpc_wbc_walk.cpp: stand, walk           *)
(* stepNumDes steps, stand again.  To the common loop it adds the test     *)
(* that the walk is complete, the nominal wrench and the wrench kept from  *)
(* the last NMPC solve, and the choice of the whole-body controller.  The  *)
(* solver is external: a solve may fail at any time.                       *)
(***************************************************************************)
EXTENDS WalkLoop

VARIABLES
    walkComplete, hasMpcSolution,
    lastMpcWrench,   \* the feet the last accepted MPC solution loads
    solveFailed,     \* history: the last attempted solve failed
    Fr_ff,           \* the feet the feed-forward loads
    controller       \* the whole-body controller that computed the torques

demoVars == <<walkComplete, hasMpcSolution, lastMpcWrench, solveFailed,
              Fr_ff, controller>>
allVars == <<vars, footVars, loopVars, demoVars>>

-----------------------------------------------------------------------------
WbcInit ==
    /\ LoopInit
    /\ walkComplete = FALSE /\ hasMpcSolution = FALSE
    /\ lastMpcWrench = Stance /\ solveFailed = FALSE
    /\ Fr_ff = {} /\ controller = "none"

BeforeWalk == StandStill /\ UNCHANGED demoVars

(* The first walking tick: stop(), a fresh step count, start().            *)
BeginWalk ==
    /\ StartWalk(0)
    /\ walkComplete' = FALSE /\ hasMpcSolution' = FALSE
    /\ UNCHANGED <<lastMpcWrench, solveFailed, Fr_ff, controller>>

ContinueWalk == ~walkComplete /\ KeepWalking /\ UNCHANGED demoVars

(* After the last step the scheduler is left alone and the demo puts       *)
(* standing values on the bus itself.                                      *)
HoldAfterWalk ==
    /\ Simulate /\ walkingStarted /\ walkComplete
    /\ bus' = StandingBus
    /\ stage' = "mpc"
    /\ UNCHANGED <<vars, footVars, iterationCounter, walkingStarted,
                   gaitStarted, demoVars>>

StepGait == TickGait /\ UNCHANGED demoVars

(* The operators named ...Defect are the definition that follows them with *)
(* a plausible bug; they show that the properties below can fail.          *)
CompletedEarlyDefect == gait.stepNumCur + 1 >= StepNumDes

CompletedThisCycle ==
    gait.stepNumCur >= StepNumDes /\ bus.contacts = Stance

PlaceFoot ==
    /\ PlanFoot
    /\ walkComplete' = CompletedThisCycle
    /\ hasMpcSolution' = (hasMpcSolution /\ ~CompletedThisCycle)
    /\ UNCHANGED <<lastMpcWrench, solveFailed, Fr_ff, controller>>

SolveOnceDefect == Walking /\ ~hasMpcSolution

SolveDue == Walking /\ (iterationCounter = 0 \/ ~hasMpcSolution)

(* limitMpcWrenches loads every foot in contact with at least fzMin.       *)
LimitedWrench == bus.contacts

(* sanitizeWrench: no load on a foot that is in the air now.               *)
SanitizeWrench(feet) == feet \cap bus.contacts

(* With the default ffScale of 1 the blend is the MPC wrench itself.       *)
SolveMpc ==
    \E ok \in BOOLEAN :
        /\ solveFailed' = IF SolveDue THEN ~ok ELSE solveFailed
        /\ lastMpcWrench' = IF SolveDue /\ ok THEN LimitedWrench
                                              ELSE lastMpcWrench
        /\ hasMpcSolution' = (hasMpcSolution \/ (SolveDue /\ ok))
        /\ Fr_ff' = IF Walking /\ hasMpcSolution'
                    THEN SanitizeWrench(lastMpcWrench')
                    ELSE bus.contacts

ControlStep ==
    /\ EndCycle
    /\ SolveMpc
    /\ controller' = IF bus.motionState = "Stand" THEN "wbcStand" ELSE "wbcWalk"
    /\ UNCHANGED walkComplete

(* The exit code reports walkComplete.                                     *)
WbcEndFrame == EndFrame /\ UNCHANGED demoVars

Exited == stage = "exit" /\ UNCHANGED allVars

WbcNext ==
    \/ BeforeWalk \/ BeginWalk \/ ContinueWalk \/ HoldAfterWalk
    \/ StepGait \/ PlaceFoot \/ ControlStep
    \/ WbcEndFrame \/ Exited

(* The program goes on while it runs; nothing is assumed of the user of a  *)
(* paused viewer.                                                          *)
WbcSpec ==
    WbcInit /\ [][WbcNext]_allVars /\ WF_allVars(Running /\ WbcNext)

-----------------------------------------------------------------------------
(* The flags, the wrenches and the controller have their types.            *)
WbcTypeOK ==
    /\ LoopTypeOK
    /\ {walkComplete, hasMpcSolution, solveFailed} \subseteq BOOLEAN
    /\ lastMpcWrench \subseteq Stance /\ Fr_ff \subseteq Stance
    /\ controller \in {"none", "wbcStand", "wbcWalk"}

(* A control step has just been completed.                                 *)
CycleDone == stage = "plan" /\ controller # "none"

(* Every controller computes with the contacts the phase machine is in:    *)
(* the values the standing branches put on the bus behind the scheduler's  *)
(* back never claim a foot that the scheduler has in the air.              *)
BelievedContacts ==
    /\ CycleDone => bus.contacts = Contacts
    /\ CycleDone /\ controller = "wbcStand" => gait.supportPhase = "Double"

(* The wrench fed forward follows the exchange of the feet, although it    *)
(* may have been solved before: it never loads a foot in the air, and as   *)
(* long as the solver answers and a double support spans a solve, the      *)
(* stance foot is loaded in every walking cycle.                           *)
FeedForwardFollowsContacts ==
    CycleDone =>
        /\ Fr_ff \subseteq Contacts
        /\ controller = "wbcWalk" /\ ~solveFailed /\ DoubleSupport >= SolveEvery
               => gait.stanceLeg \in Fr_ff

(* The walk is declared complete only with every step taken and both feet  *)
(* down, and nothing undoes it.                                            *)
CompletionIsFinal ==
    [][/\ walkComplete' => /\ gait'.stepNumCur = StepNumDes
                           /\ gait'.supportPhase = "Double"
       /\ walkComplete => walkComplete']_allVars

(* The longest a walk may take.                                            *)
SlowestWalk ==
    WalkStart + StepNumDes * (SlowestStep + 1)

=============================================================================

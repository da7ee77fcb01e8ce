--------------------------- MODULE MrtController ---------------------------
(***************************************************************************)
(* The two threads of `wb_mpc_mujoco --threaded`: the simulation loop of   *)
(* the main thread, and the solver thread of WBMpcMrtJointController.      *)
(*                                                                         *)
(* The main thread stores observations and evaluates the policy in use;    *)
(* the solver thread solves for the latest observation, puts the policy in *)
(* a buffer and swaps it into use.  The buffer, the policy in use and the  *)
(* test for an outdated horizon belong to OCS2 (MRT_BASE, MPC_BASE), whose *)
(* sources are not in the repository; they are modelled from their headers *)
(* and from the way the two threads use them.                              *)
(*                                                                         *)
(* A policy is known by the time of the observation it was solved for.     *)
(* Time is counted in control periods (kMrtDt).  The run is headless: with *)
(* a viewer a paused loop takes no step that is modelled here.             *)
(***************************************************************************)
EXTENDS Integers

CONSTANTS
    SimEnd,      \* options.simEndTime
    Horizon      \* timeHorizon of the MPC

ASSUME MrtAssumption == SimEnd \in Nat /\ Horizon \in Nat \ {0}

NoPolicy == -1
Time == 0 .. SimEnd + 1
Policy == Time \cup {NoPolicy}

VARIABLES
    main,                \* where the main thread is
    simTime,             \* simInterface.time()
    currentObservation,  \* the observation stored last
    held,                \* the policy whose controller evaluatePolicy has read
    action,              \* what the joint actions were last computed from
    threw,               \* history: evaluatePolicy found no policy
    solver,              \* where the solver thread is
    terminateThread,
    solving,             \* the observation copied by advanceMpc
    lastSolved,          \* NoPolicy until the first run: initRun_
    buffer, newPolicyInBuffer, policyReceivedEver, active

mainVars == <<main, simTime, currentObservation, held, action, threw,
              terminateThread>>
mrtVars == <<lastSolved, buffer, newPolicyInBuffer, policyReceivedEver, active>>
solverVars == <<solver, solving, mrtVars>>
mrtAllVars == <<mainVars, solverVars>>

Action == [state : Policy, input : Policy, mode : {"hold", "weight", "policy"}]
NoAction == [state |-> NoPolicy, input |-> NoPolicy, mode |-> "hold"]
WeightCompensation == [NoAction EXCEPT !.mode = "weight"]
FromPolicy(x, u) == [state |-> x, input |-> u, mode |-> "policy"]

-----------------------------------------------------------------------------
MrtInit ==
    /\ main = "start" /\ simTime = 0 /\ currentObservation = 0
    /\ held = NoPolicy /\ action = NoAction /\ threw = FALSE
    /\ solver = "off" /\ terminateThread = FALSE /\ solving = 0
    /\ lastSolved = NoPolicy /\ buffer = NoPolicy /\ active = NoPolicy
    /\ newPolicyInBuffer = FALSE /\ policyReceivedEver = FALSE

(***************************************************************************)
(* The solver thread.                                                      *)
(***************************************************************************)
ResetMpcNode ==
    /\ solver = "reset"
    /\ solver' = "top" /\ lastSolved' = NoPolicy
    /\ UNCHANGED <<mainVars, solving, buffer, newPolicyInBuffer,
                   policyReceivedEver, active>>

(* The operators named ...Defect are the definition that follows them with *)
(* a plausible bug; they show that the properties below can fail.          *)
BeginIterationUpdateFirstDefect ==
    /\ solver = "top"
    /\ solving' = currentObservation
    /\ solver' = IF terminateThread THEN "ended"
                 ELSE IF newPolicyInBuffer THEN "solve" ELSE "ended"
    /\ UNCHANGED <<mainVars, mrtVars>>

(* The head of the loop, and the observation advanceMpc solves for.        *)
BeginIteration ==
    /\ solver = "top"
    /\ IF terminateThread
       THEN solver' = "ended" /\ UNCHANGED solving
       ELSE solver' = "solve" /\ solving' = currentObservation
    /\ UNCHANGED <<mainVars, mrtVars>>

(* MPC_BASE::run refuses to start at or behind the end of the last horizon.*)
BehindHorizon == lastSolved # NoPolicy /\ solving >= lastSolved + Horizon

RunMpc ==
    /\ solver = "solve"
    /\ solver' = "update"
    /\ IF BehindHorizon
       THEN UNCHANGED mrtVars
       ELSE /\ lastSolved' = solving
            /\ buffer' = solving
            /\ newPolicyInBuffer' = TRUE /\ policyReceivedEver' = TRUE
            /\ UNCHANGED active
    /\ UNCHANGED <<mainVars, solving>>

SwapPoliciesAgainDefect ==
    /\ active' = buffer /\ buffer' = active
    /\ newPolicyInBuffer' = newPolicyInBuffer

(* updatePolicy when the buffer has something new.                         *)
SwapPolicies ==
    /\ active' = buffer /\ buffer' = active
    /\ newPolicyInBuffer' = FALSE

(* updatePolicy; without a new policy the thread gives up for good.        *)
UpdatePolicy ==
    /\ solver = "update"
    /\ IF newPolicyInBuffer
       THEN SwapPolicies /\ solver' = "sleep"
       ELSE solver' = "ended" /\ UNCHANGED <<active, buffer, newPolicyInBuffer>>
    /\ UNCHANGED <<mainVars, solving, lastSolved, policyReceivedEver>>

SleepUntilNext ==
    /\ solver = "sleep"
    /\ solver' = "top"
    /\ UNCHANGED <<mainVars, solving, mrtVars>>

SolverNext ==
    ResetMpcNode \/ BeginIteration \/ RunMpc \/ UpdatePolicy \/ SleepUntilNext

(***************************************************************************)
(* The main thread.                                                        *)
(***************************************************************************)
StartMpcThread ==
    /\ main = "start"
    /\ main' = "poll" /\ solver' = "reset"
    /\ terminateThread' = FALSE /\ currentObservation' = simTime
    /\ UNCHANGED <<simTime, held, action, threw, solving, mrtVars>>

ReadyAtOnceDefect == TRUE

Ready == policyReceivedEver

(* The polling ends; --precompile-only leaves at once.                     *)
PollReady ==
    /\ main = "poll" /\ Ready
    /\ main' \in {"loop", "leaving"}
    /\ UNCHANGED <<simTime, currentObservation, held, action, threw,
                   terminateThread, solverVars>>

SetCurrentObservationUnendingDefect ==
    /\ main = "loop"
    /\ currentObservation' = simTime
    /\ main' = "decide"
    /\ UNCHANGED <<simTime, held, action, threw, terminateThread, solverVars>>

(* computeJointControlAction up to the test for a policy.                  *)
SetCurrentObservation ==
    /\ main = "loop" /\ simTime <= SimEnd
    /\ currentObservation' = simTime
    /\ main' = "decide"
    /\ UNCHANGED <<simTime, held, action, threw, terminateThread, solverVars>>

(* The policy is evaluated once one was received, the weight compensated   *)
(* before.  evaluatePolicy reads the policy in use twice: first for the    *)
(* input its controller gives, then for the state and the mode.            *)
BeginEvaluation ==
    /\ main = "decide" /\ (policyReceivedEver => active # NoPolicy)
    /\ IF policyReceivedEver
       THEN held' = active /\ main' = "evaluating" /\ UNCHANGED action
       ELSE action' = WeightCompensation /\ main' = "act" /\ UNCHANGED held
    /\ UNCHANGED <<simTime, currentObservation, threw, terminateThread,
                   solverVars>>

EndEvaluation ==
    /\ main = "evaluating"
    /\ action' = FromPolicy(active, held)
    /\ main' = "act"
    /\ UNCHANGED <<simTime, currentObservation, held, threw, terminateThread,
                   solverVars>>

(* Without a policy in use evaluatePolicy throws; main catches and leaves. *)
ThrowNoPolicy ==
    /\ main = "decide" /\ policyReceivedEver /\ active = NoPolicy
    /\ threw' = TRUE
    /\ main' = "leaving"
    /\ UNCHANGED <<simTime, currentObservation, held, action,
                   terminateThread, solverVars>>

(* The torques are applied and the simulation is stepped, unless the state *)
(* looks invalid.                                                          *)
StepSimulation ==
    /\ main = "act"
    /\ \/ simTime' = simTime + 1 /\ main' = "loop"
       \/ UNCHANGED simTime /\ main' = "leaving"
    /\ UNCHANGED <<currentObservation, held, action, threw, terminateThread,
                   solverVars>>

EndSimulation ==
    /\ main = "loop" /\ simTime > SimEnd
    /\ main' = "leaving"
    /\ UNCHANGED <<simTime, currentObservation, held, action, threw,
                   terminateThread, solverVars>>

RequestTerminationNotDefect ==
    /\ main = "leaving"
    /\ main' = "joining"
    /\ UNCHANGED <<simTime, currentObservation, held, action, threw,
                   terminateThread, solverVars>>

(* The destructor, on every way out of the scope.                          *)
RequestTermination ==
    /\ main = "leaving"
    /\ terminateThread' = TRUE
    /\ main' = "joining"
    /\ UNCHANGED <<simTime, currentObservation, held, action, threw, solverVars>>

Join ==
    /\ main = "joining" /\ solver = "ended"
    /\ main' = "exited"
    /\ UNCHANGED <<simTime, currentObservation, held, action, threw,
                   terminateThread, solverVars>>

MainNext ==
    \/ StartMpcThread \/ PollReady
    \/ SetCurrentObservation
    \/ BeginEvaluation \/ EndEvaluation \/ ThrowNoPolicy
    \/ StepSimulation \/ EndSimulation
    \/ RequestTermination \/ Join

MrtExited == main = "exited" /\ UNCHANGED mrtAllVars

MrtNext == MainNext \/ SolverNext \/ MrtExited

(* A solve ends, and neither thread is starved.                            *)
MrtSpec ==
    MrtInit /\ [][MrtNext]_mrtAllVars
            /\ WF_mrtAllVars(MainNext) /\ WF_mrtAllVars(SolverNext)

-----------------------------------------------------------------------------
(* Threads, flags and policies have their types.                           *)
MrtTypeOK ==
    /\ main \in {"start", "poll", "loop", "decide", "evaluating", "act",
                 "leaving", "joining", "exited"}
    /\ solver \in {"off", "reset", "top", "solve", "update", "sleep", "ended"}
    /\ threw \in BOOLEAN /\ terminateThread \in BOOLEAN
    /\ newPolicyInBuffer \in BOOLEAN /\ policyReceivedEver \in BOOLEAN
    /\ simTime \in Time /\ currentObservation \in Time /\ solving \in Time
    /\ held \in Policy /\ lastSolved \in Policy
    /\ buffer \in Policy /\ active \in Policy
    /\ action \in Action

(* Nothing is solved in vain: except between a solve and the swap that     *)
(* follows it, the policy in use is the one solved last, and none waits.   *)
LatestPolicyInUse ==
    solver \notin {"off", "reset", "update"} =>
        active = lastSolved /\ ~newPolicyInBuffer

(* The solver thread ends for one reason only before it is told to: the    *)
(* simulation has outrun it by a whole horizon, so that the policy the     *)
(* control loop goes on with has come to its end.                          *)
SolverGivesUpOnlyLate ==
    solver = "ended" /\ ~terminateThread =>
        active # NoPolicy /\ currentObservation >= active + Horizon

(* Having waited for ready(), the loop never falls back to compensating    *)
(* the weight with its joints left without gains.                          *)
NeverLimp == action.mode # "weight"

(* The policy in use is never replaced by one for an older observation.    *)
PolicyNeverOlder == [][active' >= active]_mrtAllVars

(* Whatever the solver thread is doing when the simulation ends, the       *)
(* destructor's join returns; and the wait for the first policy ends.      *)
ProgramEnds == <>(main = "exited")

(* An action is computed from one policy: what MPC_MRT_Interface.h promises*)
(* of evaluations while advanceMpc runs, and what MRT_BASE.h asks callers  *)
(* of updatePolicy to ensure.                                              *)
OnePolicyPerAction == action.mode = "policy" => action.state = action.input

(* Once ready() has been seen, every control step yields a joint action:   *)
(* evaluatePolicy finds a policy in use.                                   *)
AlwaysAPolicy == ~threw
=============================================================================

------------------------ MODULE MrtControllerProofs ------------------------
(***************************************************************************)
(* Proofs about the two threads of the threaded controller, for every      *)
(* duration of the simulation and every horizon.                           *)
(***************************************************************************)
EXTENDS MrtController, TLAPS

(* Before its first iteration the solver thread has left no trace.         *)
NothingSolvedYet ==
    solver \in {"off", "reset"} =>
        /\ lastSolved = NoPolicy /\ active = NoPolicy /\ buffer = NoPolicy
        /\ ~newPolicyInBuffer /\ ~policyReceivedEver

(* Between a solve and updatePolicy: either the new policy waits, or the   *)
(* run was refused for a reason.                                           *)
HandOver ==
    solver = "update" =>
        IF newPolicyInBuffer
        THEN buffer = lastSolved /\ lastSolved # NoPolicy
        ELSE /\ active = lastSolved /\ lastSolved # NoPolicy
             /\ solving >= lastSolved + Horizon

(* Policies are older than the observation in work, which is older than    *)
(* the one stored last, which is older than the simulation.                *)
AgesOrdered ==
    /\ active <= lastSolved /\ lastSolved <= solving
    /\ solving <= currentObservation /\ currentObservation <= simTime
    /\ main \in {"decide", "evaluating", "act"} => simTime <= SimEnd

(* The control loop runs only after a policy was received.                 *)
ReadyBeforeLoop ==
    /\ policyReceivedEver <=> lastSolved # NoPolicy
    /\ main \in {"loop", "decide", "evaluating", "act"} => policyReceivedEver

MrtInv ==
    /\ MrtTypeOK
    /\ NothingSolvedYet /\ HandOver /\ AgesOrdered /\ ReadyBeforeLoop
    /\ LatestPolicyInUse /\ SolverGivesUpOnlyLate /\ NeverLimp
    /\ main = "start" <=> solver = "off"

LEMMA MrtInvInit == MrtInit => MrtInv
<1> SUFFICES ASSUME MrtInit PROVE MrtInv
  OBVIOUS
<1> USE MrtAssumption DEF MrtInit, NoPolicy
<1>1. MrtTypeOK
  <2>1. NoAction \in Action
    BY DEF NoAction, Action, Policy
  <2>2. 0 \in Time /\ NoPolicy \in Policy
    BY DEF Time, Policy
  <2> QED
    BY <2>1, <2>2 DEF MrtTypeOK
<1>2. NothingSolvedYet /\ HandOver /\ AgesOrdered /\ ReadyBeforeLoop
  BY DEF NothingSolvedYet, HandOver, AgesOrdered, ReadyBeforeLoop
<1>3. LatestPolicyInUse /\ SolverGivesUpOnlyLate /\ NeverLimp
  BY DEF LatestPolicyInUse, SolverGivesUpOnlyLate, NeverLimp, NoAction
<1> QED
  BY <1>1, <1>2, <1>3 DEF MrtInv

LEMMA MrtInvNext == MrtInv /\ [MrtNext]_mrtAllVars => MrtInv'
<1> SUFFICES ASSUME MrtInv, [MrtNext]_mrtAllVars PROVE MrtInv'
  OBVIOUS
<1> USE MrtAssumption
        DEF MrtInv, MrtTypeOK, NothingSolvedYet, HandOver, AgesOrdered,
            ReadyBeforeLoop, LatestPolicyInUse, SolverGivesUpOnlyLate, NeverLimp,
            NoPolicy, Time, Policy,
            mrtAllVars, mainVars, solverVars, mrtVars
<1>1. CASE ResetMpcNode
  BY <1>1 DEF ResetMpcNode
<1>2. CASE BeginIteration
  BY <1>2 DEF BeginIteration
<1>3. CASE RunMpc
  <2>1. MrtTypeOK'
    BY <1>3 DEF RunMpc, BehindHorizon
  <2>2. (NothingSolvedYet /\ HandOver)'
    BY <1>3 DEF RunMpc, BehindHorizon
  <2>3. (AgesOrdered /\ ReadyBeforeLoop)'
    BY <1>3 DEF RunMpc, BehindHorizon
  <2>4. (LatestPolicyInUse /\ SolverGivesUpOnlyLate)'
    BY <1>3 DEF RunMpc, BehindHorizon
  <2>5. (NeverLimp /\ (main = "start" <=> solver = "off"))'
    BY <1>3 DEF RunMpc, BehindHorizon
  <2> QED
    BY <2>1, <2>2, <2>3, <2>4, <2>5
<1>4. CASE UpdatePolicy
  <2>1. MrtTypeOK'
    BY <1>4 DEF UpdatePolicy, SwapPolicies
  <2>2. (NothingSolvedYet /\ HandOver)'
    BY <1>4 DEF UpdatePolicy, SwapPolicies
  <2>3. (AgesOrdered /\ ReadyBeforeLoop)'
    BY <1>4 DEF UpdatePolicy, SwapPolicies
  <2>4. (LatestPolicyInUse /\ SolverGivesUpOnlyLate)'
    BY <1>4 DEF UpdatePolicy, SwapPolicies
  <2>5. (NeverLimp /\ (main = "start" <=> solver = "off"))'
    BY <1>4 DEF UpdatePolicy, SwapPolicies
  <2> QED
    BY <2>1, <2>2, <2>3, <2>4, <2>5
<1>5. CASE SleepUntilNext
  BY <1>5 DEF SleepUntilNext
<1>6. CASE StartMpcThread
  <2>1. MrtTypeOK'
    BY <1>6 DEF StartMpcThread
  <2>2. (NothingSolvedYet /\ HandOver)'
    BY <1>6 DEF StartMpcThread
  <2>3. (AgesOrdered /\ ReadyBeforeLoop)'
    BY <1>6 DEF StartMpcThread
  <2>4. (LatestPolicyInUse /\ SolverGivesUpOnlyLate)'
    BY <1>6 DEF StartMpcThread
  <2>5. (NeverLimp /\ (main = "start" <=> solver = "off"))'
    BY <1>6 DEF StartMpcThread
  <2> QED
    BY <2>1, <2>2, <2>3, <2>4, <2>5
<1>7. CASE PollReady
  BY <1>7 DEF PollReady, Ready
<1>8. CASE SetCurrentObservation
  BY <1>8 DEF SetCurrentObservation
<1>9. CASE BeginEvaluation
  BY <1>9 DEF BeginEvaluation, WeightCompensation
<1>10. CASE EndEvaluation
  <2>1. FromPolicy(active, held) \in Action /\ FromPolicy(active, held).mode = "policy"
    BY DEF FromPolicy, Action
  <2> QED
    BY <1>10, <2>1 DEF EndEvaluation
<1>11. CASE ThrowNoPolicy
  BY <1>11 DEF ThrowNoPolicy
<1>12. CASE StepSimulation
  BY <1>12 DEF StepSimulation
<1>13. CASE EndSimulation
  BY <1>13 DEF EndSimulation
<1>14. CASE RequestTermination
  BY <1>14 DEF RequestTermination
<1>15. CASE Join
  BY <1>15 DEF Join
<1>16. CASE MrtExited
  BY <1>16 DEF MrtExited
<1>17. CASE UNCHANGED mrtAllVars
  BY <1>17
<1> QED
  BY <1>1, <1>2, <1>3, <1>4, <1>5, <1>6, <1>7, <1>8, <1>9,
     <1>10, <1>11, <1>12, <1>13, <1>14, <1>15, <1>16, <1>17
     DEF MrtNext, MainNext, SolverNext

-----------------------------------------------------------------------------
(* The inductive invariant holds in every state of the two threads.        *)
THEOREM MrtInvariance == MrtSpec => []MrtInv
BY MrtInvInit, MrtInvNext, PTL DEF MrtSpec

(* Every variable of the joint controller, the buffers and their ages      *)
(* included, keeps its type.                                               *)
THEOREM MrtTypeCorrect == MrtSpec => []MrtTypeOK
<1>1. MrtInv => MrtTypeOK
  BY DEF MrtInv
<1> QED
  BY <1>1, MrtInvariance, PTL

(* Between a solve's swap and the next solve, and when the solver thread   *)
(* has ended, the policy in use is the one solved last.                    *)
THEOREM LatestPolicyInUseHolds == MrtSpec => []LatestPolicyInUse
<1>1. MrtInv => LatestPolicyInUse
  BY DEF MrtInv
<1> QED
  BY <1>1, MrtInvariance, PTL

(* The solver thread never ends early but for an outrun horizon; the       *)
(* policy it leaves in use is then at its end.                             *)
THEOREM SolverGivesUpOnlyLateHolds == MrtSpec => []SolverGivesUpOnlyLate
<1>1. MrtInv => SolverGivesUpOnlyLate
  BY DEF MrtInv
<1> QED
  BY <1>1, MrtInvariance, PTL

(* The polling of ready() keeps the loop from compensating the weight.     *)
THEOREM NeverLimpHolds == MrtSpec => []NeverLimp
<1>1. MrtInv => NeverLimp
  BY DEF MrtInv
<1> QED
  BY <1>1, MrtInvariance, PTL

(* Only updatePolicy changes the policy in use, and what it swaps in is    *)
(* the last solution, for an observation that is not older.                *)
LEMMA StepNeverOlder ==
    MrtInv /\ [MrtNext]_mrtAllVars => active' >= active
<1> SUFFICES ASSUME MrtInv, [MrtNext]_mrtAllVars PROVE active' >= active
  OBVIOUS
<1>1. active \in Int /\ lastSolved \in Int /\ active <= lastSolved
  BY MrtAssumption
     DEF MrtInv, MrtTypeOK, AgesOrdered, Policy, Time, NoPolicy
<1>2. CASE UpdatePolicy
  <2>1. CASE newPolicyInBuffer
    BY <1>1, <1>2, <2>1 DEF UpdatePolicy, SwapPolicies, MrtInv, HandOver
  <2>2. CASE ~newPolicyInBuffer
    BY <1>1, <1>2, <2>2 DEF UpdatePolicy
  <2> QED
    BY <2>1, <2>2
<1>3. ASSUME ~UpdatePolicy PROVE active' = active
  BY <1>3 DEF MrtNext, MainNext, SolverNext, ResetMpcNode, BeginIteration,
     RunMpc, SleepUntilNext, StartMpcThread, PollReady, SetCurrentObservation,
     BeginEvaluation, EndEvaluation, ThrowNoPolicy, StepSimulation,
     EndSimulation, RequestTermination, Join, MrtExited,
     mrtAllVars, mainVars, solverVars, mrtVars
<1> QED
  BY <1>1, <1>2, <1>3

(* The policy in use never goes back to one for an older observation.      *)
THEOREM PolicyNeverOlderHolds == MrtSpec => PolicyNeverOlder
<1>1. MrtInv /\ [MrtNext]_mrtAllVars => [active' >= active]_mrtAllVars
  BY StepNeverOlder
<1> QED
  BY <1>1, MrtInvariance, PTL DEF MrtSpec, PolicyNeverOlder
=============================================================================

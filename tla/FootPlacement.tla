--------------------------- MODULE FootPlacement ---------------------------
(***************************************************************************)
(* The swing-foot planner of algorithm/foot_placement.{h,cpp}, as far as   *)
(* its memory goes.  Positions are abstracted to where they were taken: a  *)
(* foot and the number of the step during which it was sampled.  What the  *)
(* planner keeps from call to call is the leg state of the last swing it   *)
(* started, and the reference captured at the start of that swing, from    *)
(* which the swing curves are drawn until the next capture.                *)
(***************************************************************************)
EXTENDS Integers, DataBus

VARIABLES
    lastLegState,        \* leg state of the swing last started
    referenceAtStepStart,\* where the swing curves start; NoReference at first
    posDes_W             \* the target on the bus: a foothold or a foot at rest

footVars == <<lastLegState, referenceAtStepStart, posDes_W>>

NoReference == [foot |-> "none", step |-> 0]
Sample(foot, step) == [foot |-> foot, step |-> step]

FootInit ==
    /\ lastLegState = "DSt"
    /\ referenceAtStepStart = NoReference
    /\ posDes_W = [kind |-> "none", foot |-> "none"]

(* IsNewStep with a plausible bug: only the first swing is recognised.     *)
IsNewStepOnceDefect(legState) == legState \in Stance /\ lastLegState = "DSt"

IsNewStep(legState) == legState \in Stance /\ legState # lastLegState

(* One call: legState and the swing start are read from the bus.  In       *)
(* double support the target follows the foot position on the bus; in      *)
(* single support the foot opposite the stance gets a foothold.            *)
GetSwingPos(legState, posStart) ==
    /\ lastLegState' = IF IsNewStep(legState) THEN legState ELSE lastLegState
    /\ referenceAtStepStart' =
           IF IsNewStep(legState) THEN posStart ELSE referenceAtStepStart
    /\ posDes_W' = IF legState \in Stance
                   THEN [kind |-> "foothold", foot |-> OppositeStance(legState)]
                   ELSE [kind |-> "foot", foot |-> posStart.foot]
=============================================================================

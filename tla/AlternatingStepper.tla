------------------------ MODULE AlternatingStepper ------------------------
(***************************************************************************)
(* What a walking gait promises, without phases, clocks or sensors: two    *)
(* feet, at least one of them down; the feet swing strictly in turn,       *)
(* starting with FirstSwing; at most Budget swings are taken.  A halt puts *)
(* both feet back in charge and the turn back to the first foot.           *)
(***************************************************************************)
EXTENDS Integers

CONSTANTS
    Feet,        \* the feet, exactly two
    FirstSwing,  \* the one of them that swings first after a halt
    Budget       \* how many swings a walk may take

VARIABLES
    down,   \* the feet in contact
    turn,   \* the foot that is in the air, or swings next
    count   \* completed swings

vars == <<down, turn, count>>

Other(f) == CHOOSE g \in Feet : g # f

Init ==
    /\ down = Feet
    /\ turn = FirstSwing
    /\ count = 0

LiftOff ==
    /\ down = Feet
    /\ count < Budget
    /\ down' = Feet \ {turn}
    /\ UNCHANGED <<turn, count>>

TouchDown ==
    /\ down = Feet \ {turn}
    /\ down' = Feet
    /\ turn' = Other(turn)
    /\ count' = count + 1

(* One foot lands and the other leaves the ground at the same instant.     *)
Exchange ==
    /\ down = Feet \ {turn}
    /\ count + 1 < Budget
    /\ down' = Feet \ {Other(turn)}
    /\ turn' = Other(turn)
    /\ count' = count + 1

Halt ==
    /\ down' = Feet
    /\ turn' = FirstSwing
    /\ count' \in {0, count}

Next == LiftOff \/ TouchDown \/ Exchange \/ Halt

Spec == Init /\ [][Next]_vars
=============================================================================

--------------------------- MODULE RampTrajectory ---------------------------
(***************************************************************************)
(* The ramp of math/ramp_trajectory.{h,cpp}, which turns a velocity that   *)
(* is commanded at once into one that is approached in equal increments.   *)
(*                                                                         *)
(* Values are counted in a unit small enough for the increment to be a     *)
(* whole number; the duration is counted in ticks.  The output y and the   *)
(* remembered yOld are equal after every call and are one field here.      *)
(* setParaDirt, isReachDes and resetOut are used by no program.            *)
(***************************************************************************)
EXTENDS Integers

Ramp == [y : Int, yDes : Int, inc : Int]

(* The constructor.                                                        *)
RampAtZero == [y |-> 0, yDes |-> 0, inc |-> 0]

Magnitude(x) == IF x < 0 THEN -x ELSE x

(* A new target, to be reached from the present value in so many ticks.    *)
SetPara(r, yDes, ticks) ==
    [r EXCEPT !.yDes = yDes, !.inc = (yDes - r.y) \div ticks]

(* RampStep with a plausible bug: no snapping to the target.               *)
RampStepPastDefect(r) == [r EXCEPT !.y = @ + r.inc]

(* One increment; within one and a half of them of the target the ramp     *)
(* snaps to it, and it goes on doing so on every later tick.               *)
RampStep(r) ==
    LET y == r.y + r.inc
    IN  [r EXCEPT !.y = IF 2 * Magnitude(r.yDes - y) < 3 * Magnitude(r.inc)
                        THEN r.yDes ELSE y]
=============================================================================

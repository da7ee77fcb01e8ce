---------------------------- MODULE GaitStepper ----------------------------
(***************************************************************************)
(* The gait scheduler implements the alternating stepper: the feet in      *)
(* contact are those dataBusWrite publishes, and the foot whose turn it is *)
(* is the one opposite the stance leg during a swing, the stance leg       *)
(* itself while both feet are down (the next lift-off changes sides).      *)
(***************************************************************************)
EXTENDS GaitScheduler

Turn == IF gait.supportPhase = "Single"
        THEN OppositeStance(gait.stanceLeg)
        ELSE gait.stanceLeg

Stepper == INSTANCE AlternatingStepper WITH
               Feet <- Stance, FirstSwing <- firstleg, Budget <- StepNumDes,
               down <- Contacts, turn <- Turn, count <- gait.stepNumCur

(* Whatever the sensors report and however the caller mixes stops, starts, *)
(* stand requests and walk requests, the published contacts follow the     *)
(* alternating stepper: never two feet in the air, never the same foot     *)
(* twice in a row, never more than stepNumDes swings.                      *)
ImplementsStepper == Stepper!Spec
=============================================================================

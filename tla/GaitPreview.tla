---------------------------- MODULE GaitPreview ----------------------------
(***************************************************************************)
(* previewGaitSample of the NMPC walking demos: from what the scheduler    *)
(* has put on the bus, the support phase some ticks ahead, which fills the *)
(* contact table of the MPC horizon.  It re-implements the scheduler's     *)
(* timing without its sensors, its late landings and its step budget, so   *)
(* the question is how far the two agree.                                  *)
(***************************************************************************)
EXTENDS GaitScheduler

CONSTANT Horizon   \* how many ticks ahead the contact table looks

ASSUME PreviewAssumption == Horizon \in Nat

Greater(a, b) == IF a >= b THEN a ELSE b

GaitSample ==
    [doubleSupport : BOOLEAN, stanceLeg : Stance, phaseElapsed : Nat]

(* What is on the bus now: walk_phase_time in double support, phi during a *)
(* swing, each clamped to its phase.                                       *)
BusSample ==
    [doubleSupport |-> gait.supportPhase = "Double",
     stanceLeg     |-> gait.stanceLeg,
     phaseElapsed  |-> IF gait.supportPhase = "Double"
                       THEN Lesser(gait.phaseTime, DoubleSupport)
                       ELSE phi]

(* The operator named ...Defect is the definition that follows it with a   *)
(* plausible bug; it shows that the property below can fail.               *)
AdvanceSampleSameLegDefect(s) ==
    IF s.doubleSupport \/ DoubleSupport = 0
    THEN [s EXCEPT !.doubleSupport = FALSE, !.phaseElapsed = 0]
    ELSE [s EXCEPT !.doubleSupport = TRUE, !.phaseElapsed = 0]

AdvanceSample(s) ==
    IF s.doubleSupport \/ DoubleSupport = 0
    THEN [doubleSupport |-> FALSE, phaseElapsed |-> 0,
          stanceLeg |-> OppositeStance(s.stanceLeg)]
    ELSE [s EXCEPT !.doubleSupport = TRUE, !.phaseElapsed = 0]

PhaseRemaining(s) ==
    Greater(0, (IF s.doubleSupport THEN DoubleSupport ELSE SingleSupport)
               - s.phaseElapsed)

(* The variables the loop of previewGaitSample carries.                    *)
Loop == [sample : GaitSample, remainingTime : Nat]

(* Phases are consumed until the remaining time fits into the current one. *)
preview[loop \in Loop] ==
    LET phaseRemaining == PhaseRemaining(loop.sample)
    IN  IF loop.remainingTime <= phaseRemaining
        THEN [loop.sample EXCEPT !.phaseElapsed = @ + loop.remainingTime]
        ELSE preview[[sample |-> AdvanceSample(loop.sample),
                      remainingTime |-> loop.remainingTime - phaseRemaining]]

PreviewGaitSample(ticks) ==
    preview[[sample |-> BusSample, remainingTime |-> ticks]]

(* What the scheduler itself will do if every swing foot is ready in time. *)
Foreseen[ticks \in Nat] ==
    IF ticks = 0 THEN gait ELSE Transitions(Tick(Foreseen[ticks - 1]), TRUE)

SameSupport(s, g) ==
    /\ s.doubleSupport = (g.supportPhase = "Double")
    /\ s.stanceLeg = g.stanceLeg

Previewing == motionState = "Walk"

(* While steps remain, the previewed support is the one the scheduler will *)
(* be in, or was in one tick earlier: the contact table is never more than *)
(* one control period late and never early, through any number of          *)
(* landings, lift-offs and exchanges, also from a swing that is overdue.   *)
PreviewWithinOneTick ==
    Previewing =>
        \A n \in 0 .. Horizon :
            Foreseen[n].stepNumCur < StepNumDes =>
                \/ SameSupport(PreviewGaitSample(n), Foreseen[n])
                \/ n > 0 /\ SameSupport(PreviewGaitSample(n), Foreseen[n - 1])
=============================================================================

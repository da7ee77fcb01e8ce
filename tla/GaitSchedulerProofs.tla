------------------------ MODULE GaitSchedulerProofs ------------------------
(***************************************************************************)
(* The safety invariants of the gait scheduler and of its preview, proved  *)
(* for every swing and double-support duration, lateness allowance, step   *)
(* budget and length of the horizon.                                       *)
(*                                                                         *)
(* The argument: every gait the scheduler builds is Sound (the encodings   *)
(* of the support phase agree and the step budget is kept).  Soundness is  *)
(* preserved by each operator that transforms the gait, so a step only has *)
(* to be shown to publish a Sound gait and to keep the flags in line.  The *)
(* preview and the scheduler then run side by side, tick by tick, from a   *)
(* bus whose times are those of the phase (WalkClock).                     *)
(***************************************************************************)
EXTENDS GaitStepper, GaitPreview, FiniteSetTheorems, TLAPS

Agrees(g) ==
    IF g.supportPhase = "Double"
    THEN g.legState = "DSt"
    ELSE /\ g.legState = g.stanceLeg
         /\ g.swingStart = OppositeStance(g.stanceLeg)

Budgeted(g) ==
    /\ g.stepNumCur <= StepNumDes
    /\ g.supportPhase = "Single" => g.stepNumCur < StepNumDes

Sound(g) == g \in Gait /\ Agrees(g) /\ Budgeted(g)

(* The inductive invariant.                                                *)
IInv ==
    /\ TypeOK
    /\ Sound(gait)
    /\ NoForceTouchDown
    /\ RestsUntilStarted
    /\ SwingBounded

-----------------------------------------------------------------------------
(* The two stances are exchanged by OppositeStance.                        *)
LEMMA OppositeType ==
    ASSUME NEW s \in Stance
    PROVE  /\ OppositeStance(s) \in Stance
           /\ OppositeStance(s) # s
           /\ OppositeStance(OppositeStance(s)) = s
BY DEF OppositeStance, Stance

(* A gait at rest is sound whatever it was before.                         *)
LEMMA AtRestSound ==
    ASSUME NEW g \in Gait, NEW n \in Nat, n <= StepNumDes
    PROVE  /\ Sound(AtRest(g, n))
           /\ AtRest(g, n).supportPhase = "Double"
           /\ AtRest(g, n).stanceLeg = firstleg
           /\ AtRest(g, n).stepNumCur = n
           /\ AtRest(g, n).phaseTime = 0
BY GaitAssumption
   DEF AtRest, Gait, Sound, Agrees, Budgeted, firstleg, Stance, LegState

(* The passage of a tick touches nothing but the phase time.               *)
LEMMA TickSound ==
    ASSUME NEW g, Sound(g)
    PROVE  /\ Sound(Tick(g))
           /\ Tick(g).supportPhase = g.supportPhase
           /\ Tick(g).phaseTime = g.phaseTime + 1
           /\ Tick(g).stanceLeg = g.stanceLeg
           /\ Tick(g).stepNumCur = g.stepNumCur
BY GaitAssumption DEF Tick, Gait, Sound, Agrees, Budgeted

(* enterSingleSupport from double support: the budget is not exceeded.     *)
LEMMA EnterSingleSound ==
    ASSUME NEW g, Sound(g), g.supportPhase = "Double"
    PROVE  /\ Sound(EnterSingleSupport(g))
           /\ EnterSingleSupport(g).supportPhase = "Single"
                => EnterSingleSupport(g).phaseTime = 0
<1>1. g.stanceLeg \in Stance /\ OppositeStance(g.stanceLeg) \in Stance
  BY OppositeType DEF Sound, Gait
<1>2. OppositeStance(OppositeStance(g.stanceLeg)) = g.stanceLeg
  BY <1>1, OppositeType
<1>3. CASE g.stepNumCur >= StepNumDes
  BY <1>3, GaitAssumption
     DEF EnterSingleSupport, Lesser, Gait, Sound, Agrees, Budgeted
<1>4. CASE ~(g.stepNumCur >= StepNumDes)
  <2> DEFINE o == OppositeStance(g.stanceLeg)
             e == [g EXCEPT !.supportPhase = "Single", !.phaseTime = 0,
                            !.stanceLeg = o, !.legState = o,
                            !.swingStart = g.stanceLeg]
  <2>1. EnterSingleSupport(g) = e
    BY <1>4 DEF EnterSingleSupport
  <2>2. o \in Stance /\ OppositeStance(o) = g.stanceLeg
    BY <1>1, <1>2
  <2>3. g \in Gait /\ g.stepNumCur \in Nat /\ g.stepNumCur < StepNumDes
    BY <1>4, GaitAssumption DEF Sound, Gait
  <2> HIDE DEF o
  <2>4. e \in Gait
    BY <1>1, <2>2, <2>3 DEF Gait, LegState
  <2>5. /\ e.supportPhase = "Single" /\ e.phaseTime = 0
        /\ e.legState = o /\ e.stanceLeg = o
        /\ e.swingStart = g.stanceLeg /\ e.stepNumCur = g.stepNumCur
    BY <2>3 DEF Gait
  <2> HIDE DEF e
  <2>6. QED
    BY <2>1, <2>2, <2>3, <2>4, <2>5, GaitAssumption
       DEF Sound, Agrees, Budgeted
<1>5. QED BY <1>3, <1>4

(* A landing during a swing: one more step, within the budget.             *)
LEMMA EnterDoubleSound ==
    ASSUME NEW g, Sound(g), g.supportPhase = "Single"
    PROVE  /\ Sound(EnterDoubleSupport(g))
           /\ EnterDoubleSupport(g).supportPhase = "Double"
<1> DEFINE e == EnterDoubleSupport(g)
<1>1. g \in Gait /\ g.stepNumCur \in Nat /\ g.stepNumCur < StepNumDes
  BY DEF Sound, Gait, Budgeted
<1>2. e \in Gait
  <2>1. "DSt" \in LegState /\ g.stepNumCur + 1 \in Nat
    BY <1>1 DEF LegState
  <2>2. QED
    BY <1>1, <2>1 DEF EnterDoubleSupport, Gait
<1>3. /\ e.supportPhase = "Double" /\ e.legState = "DSt"
      /\ e.stepNumCur = g.stepNumCur + 1
  BY <1>1 DEF EnterDoubleSupport, Gait
<1> HIDE DEF e
<1>4. Sound(e) /\ e.supportPhase = "Double"
  BY <1>1, <1>2, <1>3, GaitAssumption DEF Sound, Agrees, Budgeted
<1>5. QED BY <1>4 DEF e

(* The transition loop keeps the gait sound, and leaves a foot in the air  *)
(* only if its swing has just begun or is not yet late.                    *)
LEMMA TransitionsSound ==
    ASSUME NEW g, Sound(g), NEW sensed \in BOOLEAN
    PROVE  /\ Sound(Transitions(g, sensed))
           /\ Transitions(g, sensed).supportPhase = "Single"
                => Transitions(g, sensed).phaseTime
                       < SingleSupport + LateLanding
<1> DEFINE h == LandIfDue(g, sensed)
<1>1. /\ Sound(h)
      /\ h.supportPhase = "Single"
            => h.phaseTime < SingleSupport + LateLanding
  <2>1. g.supportPhase \in {"Double", "Single"} /\ g.phaseTime \in Nat
    BY DEF Sound, Gait
  <2>2. CASE h = g /\ g.supportPhase = "Double"
    BY <2>2
  <2>3. CASE h = g /\ g.supportPhase = "Single"
                /\ ~(g.phaseTime >= SingleSupport + LateLanding)
    BY <2>1, <2>3, GaitAssumption
  <2>4. CASE h = EnterDoubleSupport(g) /\ g.supportPhase = "Single"
    BY <2>4, EnterDoubleSound
  <2>5. QED
    BY <2>1, <2>2, <2>3, <2>4, GaitAssumption DEF LandIfDue
<1>2. CASE h.supportPhase = "Double" /\ h.phaseTime >= DoubleSupport
  <2>1. Transitions(g, sensed) = EnterSingleSupport(h)
    BY <1>2 DEF Transitions, LiftIfDue
  <2>2. QED
    BY <1>1, <1>2, <2>1, EnterSingleSound, GaitAssumption
<1>3. CASE ~(h.supportPhase = "Double" /\ h.phaseTime >= DoubleSupport)
  <2>1. Transitions(g, sensed) = h
    BY <1>3 DEF Transitions, LiftIfDue
  <2>2. QED
    BY <1>1, <2>1
<1>4. QED BY <1>2, <1>3

(* The end of every step: the force test stays silent and what is          *)
(* published is the sound gait that was handed over.                       *)
LEMMA PublishSound ==
    ASSUME NEW g, Sound(g), NEW ms \in MotionState,
           NEW enabled \in BOOLEAN, NEW loaded \in BOOLEAN,
           g.supportPhase = "Single" => enabled,
           touchDown = FALSE,
           Publish(ms, g, enabled, loaded)
    PROVE  /\ Sound(gait')
           /\ gait'.supportPhase = g.supportPhase
           /\ gait'.phaseTime = g.phaseTime
           /\ gait'.stanceLeg = g.stanceLeg
           /\ gait'.stepNumCur = g.stepNumCur
           /\ motionState' = ms /\ enableNextStep' = enabled
           /\ touchDown' = FALSE
           /\ legStateNext' \in LegState
<1>1. g \in Gait /\ g.stanceLeg \in Stance
  BY DEF Sound, Gait
<1>2. ~ForceTest(g, enabled, loaded)
  BY <1>1 DEF ForceTest, Sound, Agrees, Gait
<1>3. OppositeStance(g.stanceLeg) \in Stance
  BY <1>1, OppositeType
<1>4. gait' = IF g.supportPhase = "Double"
              THEN [g EXCEPT !.swingStart = OppositeStance(g.stanceLeg)]
              ELSE g
  BY <1>2 DEF Publish
<1>5. /\ Sound(gait')
      /\ gait'.supportPhase = g.supportPhase
      /\ gait'.phaseTime = g.phaseTime
      /\ gait'.stanceLeg = g.stanceLeg
      /\ gait'.stepNumCur = g.stepNumCur
  BY <1>1, <1>3, <1>4 DEF Sound, Agrees, Budgeted, Gait
<1>6. /\ motionState' = ms /\ enableNextStep' = enabled
      /\ touchDown' = FALSE
  BY <1>2 DEF Publish
<1>7. legStateNext' \in LegState
  BY <1>1, <1>2, <1>3 DEF Publish, LegState
<1>8. QED BY <1>5, <1>6, <1>7

-----------------------------------------------------------------------------
(* The constructor establishes the inductive invariant.                    *)
LEMMA InitIInv == Init => IInv
<1> SUFFICES ASSUME Init PROVE IInv
  OBVIOUS
<1>1. OppositeStance(firstleg) \in Stance
  BY OppositeType DEF firstleg, Stance
<1>2. TypeOK
  <2>1. /\ firstleg \in Stance /\ OppositeStance(firstleg) \in LegState
        /\ "DSt" \in LegState /\ "Stand" \in MotionState
    BY <1>1 DEF firstleg, Stance, LegState, MotionState
  <2>2. gait \in Gait
    BY <1>1, <2>1 DEF Init, Gait
  <2>3. 0 \in 0 .. SingleSupport
    BY GaitAssumption
  <2>4. QED
    BY <2>1, <2>2, <2>3 DEF Init, TypeOK
<1>3. Sound(gait)
  BY <1>2, GaitAssumption DEF Init, TypeOK, Sound, Agrees, Budgeted
<1>4. NoForceTouchDown /\ RestsUntilStarted /\ SwingBounded
  BY DEF Init, NoForceTouchDown, RestsUntilStarted, SwingBounded
<1>5. QED BY <1>2, <1>3, <1>4 DEF IInv

(* The gait a Walk tick starts from is sound; if the walk was not          *)
(* initialised before, both feet are down.                                 *)
LEMMA WalkFromSound ==
    ASSUME IInv
    PROVE  Sound(WalkFrom)
<1>1. gait \in Gait /\ gait.stepNumCur \in Nat /\ gait.stepNumCur <= StepNumDes
  BY DEF IInv, Sound, Budgeted, Gait
<1>2. Sound(AtRest(gait, gait.stepNumCur))
  BY <1>1, AtRestSound
<1>3. QED BY <1>2 DEF WalkFrom, IInv

(* A Walk tick preserves the inductive invariant.                          *)
LEMMA WalkIInv ==
    ASSUME IInv, NEW sensed \in BOOLEAN, NEW loaded \in BOOLEAN,
           StepWalk(sensed, loaded)
    PROVE  IInv'
<1> DEFINE g == Transitions(Tick(WalkFrom), sensed)
<1>1. /\ Sound(g)
      /\ g.supportPhase = "Single"
            => g.phaseTime < SingleSupport + LateLanding
  BY WalkFromSound, TickSound, TransitionsSound
<1>2. Publish("Walk", g, TRUE, loaded)
  BY DEF StepWalk
<1>3. "Walk" \in MotionState /\ TRUE \in BOOLEAN /\ touchDown = FALSE
  BY DEF MotionState, IInv, NoForceTouchDown
<1> HIDE DEF g
<1>4. /\ Sound(gait')
      /\ gait'.supportPhase = g.supportPhase
      /\ gait'.phaseTime = g.phaseTime
      /\ motionState' = "Walk" /\ enableNextStep' = TRUE
      /\ touchDown' = FALSE
      /\ legStateNext' \in LegState
  BY <1>1, <1>2, <1>3, PublishSound
<1>5. start_walk' = TRUE /\ isIni' = TRUE
  BY DEF StepWalk, CallerHasStarted, IInv, TypeOK
<1>6. phi' \in 0 .. SingleSupport
  <2>1. phi' = IF g.supportPhase = "Single"
               THEN Lesser(g.phaseTime, SingleSupport) ELSE 0
    BY DEF StepWalk, SwingProgress, g
  <2>2. g.phaseTime \in Nat
    BY <1>1 DEF Sound, Gait
  <2>3. QED BY <2>1, <2>2, GaitAssumption DEF Lesser
<1>7. TypeOK'
  BY <1>3, <1>4, <1>5, <1>6 DEF TypeOK, Sound
<1>8. NoForceTouchDown' /\ RestsUntilStarted' /\ SwingBounded'
  BY <1>1, <1>4, <1>5 DEF NoForceTouchDown, RestsUntilStarted, SwingBounded
<1>9. QED BY <1>4, <1>7, <1>8 DEF IInv

(* A Stand tick preserves the inductive invariant.                         *)
LEMMA StandIInv ==
    ASSUME IInv, NEW loaded \in BOOLEAN, StepStand(loaded)
    PROVE  IInv'
<1> DEFINE g == AtRest(gait, 0)
<1>1. Sound(g) /\ g.supportPhase = "Double" /\ g.stanceLeg = firstleg
  BY AtRestSound, GaitAssumption DEF IInv, Sound
<1>2. Publish("Stand", g, FALSE, loaded)
  BY DEF StepStand
<1>3. "Stand" \in MotionState /\ FALSE \in BOOLEAN /\ touchDown = FALSE
  BY DEF MotionState, IInv, NoForceTouchDown
<1> HIDE DEF g
<1>4. /\ Sound(gait')
      /\ gait'.supportPhase = "Double" /\ gait'.stanceLeg = firstleg
      /\ motionState' = "Stand" /\ enableNextStep' = FALSE
      /\ touchDown' = FALSE
      /\ legStateNext' \in LegState
  BY <1>1, <1>2, <1>3, PublishSound
<1>5. start_walk' = start_walk /\ isIni' = FALSE /\ phi' = 0
  BY DEF StepStand
<1>6. TypeOK'
  <2>1. 0 \in 0 .. SingleSupport
    BY GaitAssumption
  <2>2. QED
    BY <1>3, <1>4, <1>5, <2>1 DEF TypeOK, Sound, IInv
<1>7. NoForceTouchDown' /\ RestsUntilStarted' /\ SwingBounded'
  BY <1>4 DEF NoForceTouchDown, RestsUntilStarted, SwingBounded
<1>8. QED BY <1>4, <1>6, <1>7 DEF IInv

(* A Walk2Stand tick preserves the inductive invariant.                    *)
LEMMA Walk2StandIInv ==
    ASSUME IInv, NEW sensed \in BOOLEAN, NEW loaded \in BOOLEAN,
           StepWalk2Stand(sensed, loaded)
    PROVE  IInv'
<1> DEFINE t == Tick(gait)
           landed == t.supportPhase = "Single" /\ SwingFootReadyForSwitch(t, sensed)
           g == IF landed THEN EnterDoubleSupport(t) ELSE t
           ms == IF landed THEN "Stand" ELSE "Walk2Stand"
<1>1. /\ Sound(t)
      /\ t.supportPhase = gait.supportPhase
      /\ t.phaseTime = gait.phaseTime + 1
      /\ t.stanceLeg = gait.stanceLeg
  BY TickSound DEF IInv
<1>2. /\ Sound(g)
      /\ g.supportPhase = "Single" => gait.supportPhase = "Single"
      /\ gait.supportPhase = "Double" => g = t
  <2>1. CASE landed
    BY <1>1, <2>1, EnterDoubleSound
  <2>2. CASE ~landed
    BY <1>1, <2>2
  <2>3. QED BY <2>1, <2>2
<1>3. Publish(ms, g, enableNextStep, loaded)
  BY DEF StepWalk2Stand
<1>4. /\ ms \in MotionState /\ ms # "Walk"
      /\ enableNextStep \in BOOLEAN /\ touchDown = FALSE
      /\ g.supportPhase = "Single" => enableNextStep
  BY <1>2 DEF MotionState, IInv, TypeOK, NoForceTouchDown
<1>5. g.supportPhase = "Double" \/ gait.supportPhase = "Single"
  BY <1>1, <1>2 DEF Sound, Gait
<1> HIDE DEF g, ms, t, landed
<1>6. /\ Sound(gait')
      /\ gait'.supportPhase = g.supportPhase
      /\ gait'.stanceLeg = g.stanceLeg
      /\ motionState' = ms /\ enableNextStep' = enableNextStep
      /\ touchDown' = FALSE
      /\ legStateNext' \in LegState
  BY <1>2, <1>3, <1>4, PublishSound
<1>7. start_walk' = start_walk /\ isIni' = isIni
  BY DEF StepWalk2Stand
<1>8. phi' \in 0 .. SingleSupport
  <2>1. phi' = Lesser(t.phaseTime, SingleSupport) /\ t.phaseTime \in Nat
    BY <1>1 DEF StepWalk2Stand, SwingProgress, t, Sound, Gait
  <2>2. QED BY <2>1, GaitAssumption DEF Lesser
<1>9. TypeOK'
  BY <1>4, <1>6, <1>7, <1>8 DEF TypeOK, Sound, IInv
<1>10. RestsUntilStarted'
  BY <1>1, <1>2, <1>5, <1>6, <1>7 DEF IInv, RestsUntilStarted
<1>11. NoForceTouchDown' /\ SwingBounded'
  BY <1>4, <1>6 DEF NoForceTouchDown, SwingBounded
<1>12. QED BY <1>6, <1>9, <1>10, <1>11 DEF IInv

(* Putting the gait at rest, as a stop does, preserves the inductive       *)
(* invariant, whatever becomes of start_walk.                              *)
LEMMA RestIInv ==
    ASSUME IInv, NEW n \in Nat, n <= StepNumDes,
           gait' = AtRest(gait, n), start_walk' \in BOOLEAN,
           motionState' = "Stand", isIni' = FALSE, phi' = 0,
           legStateNext' = OppositeStance(firstleg),
           UNCHANGED <<enableNextStep, touchDown>>
    PROVE  /\ IInv'
           /\ gait'.supportPhase = "Double" /\ gait'.phaseTime = 0
           /\ gait'.stanceLeg = firstleg /\ gait'.stepNumCur = n
<1>1. /\ Sound(gait')
      /\ gait'.supportPhase = "Double" /\ gait'.phaseTime = 0
      /\ gait'.stanceLeg = firstleg /\ gait'.stepNumCur = n
  BY AtRestSound DEF IInv, Sound
<1>2. TypeOK'
  <2>1. 0 \in 0 .. SingleSupport
    BY GaitAssumption
  <2>2. OppositeStance(firstleg) \in LegState /\ "Stand" \in MotionState
    BY OppositeType DEF firstleg, Stance, LegState, MotionState
  <2>3. QED BY <1>1, <2>1, <2>2 DEF IInv, TypeOK, Sound
<1>3. NoForceTouchDown' /\ RestsUntilStarted' /\ SwingBounded'
  BY <1>1 DEF IInv, NoForceTouchDown, RestsUntilStarted, SwingBounded
<1>4. QED BY <1>1, <1>2, <1>3 DEF IInv

(* stop() preserves the inductive invariant.                               *)
LEMMA StopIInv ==
    ASSUME IInv, Stop
    PROVE  IInv'
<1>1. gait.stepNumCur \in Nat /\ gait.stepNumCur <= StepNumDes
  BY DEF IInv, Sound, Gait, Budgeted
<1>2. start_walk' \in BOOLEAN
  BY DEF Stop
<1>3. QED BY <1>1, <1>2, RestIInv DEF Stop

(* Nothing but start_walk changes, as in start(), or nothing at all.       *)
LEMMA StartedIInv ==
    ASSUME IInv, start_walk' \in BOOLEAN,
           UNCHANGED <<motionState, isIni, legStateNext, phi, gait,
                       enableNextStep, touchDown>>
    PROVE  IInv'
BY DEF IInv, TypeOK, Sound, NoForceTouchDown, RestsUntilStarted, SwingBounded,
       Agrees, Budgeted

-----------------------------------------------------------------------------
(* The inductive invariant holds in every reachable state.                 *)
THEOREM InductiveInvariance == Spec => []IInv
<1>1. Init => IInv
  BY InitIInv
<1>2. IInv /\ [Next]_vars => IInv'
  <2> SUFFICES ASSUME IInv, [Next]_vars PROVE IInv'
    OBVIOUS
  <2>1. CASE Start
    BY <2>1, StartedIInv DEF Start
  <2>2. CASE Stop
    BY <2>2, StopIInv
  <2>3. CASE \E loaded \in BOOLEAN : StepStand(loaded)
    BY <2>3, StandIInv
  <2>4. CASE WalkTick
    BY <2>4, WalkIInv DEF WalkTick
  <2>5. CASE \E sensed, loaded \in BOOLEAN : StepWalk2Stand(sensed, loaded)
    BY <2>5, Walk2StandIInv
  <2>6. CASE UNCHANGED vars
    BY <2>6, StartedIInv DEF vars, IInv, TypeOK
  <2>7. QED
    BY <2>1, <2>2, <2>3, <2>4, <2>5, <2>6 DEF Next
<1>3. QED
  BY <1>1, <1>2, PTL DEF Spec

(* Type correctness of the gait scheduler.                                 *)
THEOREM TypeCorrect == Spec => []TypeOK
<1>1. IInv => TypeOK
  BY DEF IInv
<1>2. QED BY <1>1, InductiveInvariance, PTL

(* The encodings of the support phase always agree.                        *)
THEOREM PhaseAgreementHolds == Spec => []PhaseAgreement
<1>1. IInv => PhaseAgreement
  BY DEF IInv, Sound, Agrees, PhaseAgreement
<1>2. QED BY <1>1, InductiveInvariance, PTL

(* No walk takes more than stepNumDes steps or starts one in vain.         *)
THEOREM StepBudgetHolds == Spec => []StepBudget
<1>1. IInv => StepBudget
  BY DEF IInv, Sound, Budgeted, StepBudget
<1>2. QED BY <1>1, InductiveInvariance, PTL

(* The second, force-based step count never fires.                         *)
THEOREM NoForceTouchDownHolds == Spec => []NoForceTouchDown
<1>1. IInv => NoForceTouchDown
  BY DEF IInv
<1>2. QED BY <1>1, InductiveInvariance, PTL

(* An uninitialised walk rests on both feet.                               *)
THEOREM RestsUntilStartedHolds == Spec => []RestsUntilStarted
<1>1. IInv => RestsUntilStarted
  BY DEF IInv
<1>2. QED BY <1>1, InductiveInvariance, PTL

(* A swing under Walk ends within its nominal time plus the allowance.     *)
THEOREM SwingBoundedHolds == Spec => []SwingBounded
<1>1. IInv => SwingBounded
  BY DEF IInv
<1>2. QED BY <1>1, InductiveInvariance, PTL

-----------------------------------------------------------------------------
(* The refinement of the alternating stepper.  Move(g, h) says what one    *)
(* step may do to a gait: keep standing or swinging, lift, land, or        *)
(* exchange the feet.  Each Move of sound gaits is a step or a stutter of  *)
(* the abstract stepper; a stop and a Stand tick are its Halt.             *)
Keep(g, h) ==
    /\ h.supportPhase = g.supportPhase
    /\ h.stanceLeg = g.stanceLeg
    /\ h.stepNumCur = g.stepNumCur

Lift(g, h) ==
    /\ g.supportPhase = "Double" /\ h.supportPhase = "Single"
    /\ h.stanceLeg = OppositeStance(g.stanceLeg)
    /\ h.stepNumCur = g.stepNumCur /\ g.stepNumCur < StepNumDes

Land(g, h) ==
    /\ g.supportPhase = "Single" /\ h.supportPhase = "Double"
    /\ h.stanceLeg = g.stanceLeg
    /\ h.stepNumCur = g.stepNumCur + 1

Swap(g, h) ==
    /\ g.supportPhase = "Single" /\ h.supportPhase = "Single"
    /\ h.stanceLeg = OppositeStance(g.stanceLeg)
    /\ h.stepNumCur = g.stepNumCur + 1 /\ g.stepNumCur + 1 < StepNumDes

(* Both feet down, the first leg's turn; the count is kept or cleared.      *)
Rested(g, h) ==
    /\ h.supportPhase = "Double"
    /\ h.stanceLeg = firstleg
    /\ h.stepNumCur \in {0, g.stepNumCur}

Move(g, h) == Keep(g, h) \/ Lift(g, h) \/ Land(g, h) \/ Swap(g, h)

-----------------------------------------------------------------------------
(* With two feet, the abstract stepper's other foot is the opposite one.   *)
LEMMA OtherIsOpposite ==
    ASSUME NEW s \in Stance
    PROVE  Stepper!Other(s) = OppositeStance(s)
<1>1. \E f \in Stance : f # s
  BY DEF Stance
<1>2. Stepper!Other(s) \in Stance /\ Stepper!Other(s) # s
  BY <1>1 DEF Stepper!Other
<1>3. QED BY <1>2 DEF OppositeStance, Stance

(* A landing that is due lands once; one that is not changes nothing.      *)
LEMMA LandMoves ==
    ASSUME NEW g, Sound(g), NEW sensed \in BOOLEAN
    PROVE  /\ Sound(LandIfDue(g, sensed))
           /\ Keep(g, LandIfDue(g, sensed)) \/ Land(g, LandIfDue(g, sensed))
<1> DEFINE h == LandIfDue(g, sensed)
<1>1. CASE h = g
  BY <1>1 DEF Keep
<1>2. CASE h = EnterDoubleSupport(g) /\ g.supportPhase = "Single"
  <2>1. Sound(h)
    BY <1>2, EnterDoubleSound
  <2>2. /\ h.supportPhase = "Double" /\ h.stanceLeg = g.stanceLeg
        /\ h.stepNumCur = g.stepNumCur + 1
    BY <1>2 DEF EnterDoubleSupport, Sound, Gait
  <2>3. QED BY <1>2, <2>1, <2>2 DEF Land
<1>3. QED BY <1>1, <1>2 DEF LandIfDue

(* A lift-off that is due and within the budget lifts the other foot.      *)
LEMMA LiftMoves ==
    ASSUME NEW g, Sound(g)
    PROVE  /\ Sound(LiftIfDue(g))
           /\ Keep(g, LiftIfDue(g)) \/ Lift(g, LiftIfDue(g))
<1> DEFINE h == LiftIfDue(g)
<1>1. CASE h = g
  BY <1>1 DEF Keep
<1>2. CASE h = EnterSingleSupport(g) /\ g.supportPhase = "Double"
  <2>1. Sound(h)
    BY <1>2, EnterSingleSound
  <2>2. CASE g.stepNumCur >= StepNumDes
    BY <1>2, <2>1, <2>2 DEF EnterSingleSupport, Sound, Gait, Keep
  <2>3. CASE ~(g.stepNumCur >= StepNumDes)
    <3>1. g.stepNumCur < StepNumDes
      BY <2>3, GaitAssumption DEF Sound, Gait
    <3>2. /\ h.supportPhase = "Single"
          /\ h.stanceLeg = OppositeStance(g.stanceLeg)
          /\ h.stepNumCur = g.stepNumCur
      BY <1>2, <2>3 DEF EnterSingleSupport, Sound, Gait
    <3>3. QED BY <1>2, <2>1, <3>1, <3>2 DEF Lift
  <2>4. QED BY <2>2, <2>3
<1>3. QED BY <1>1, <1>2 DEF LiftIfDue

(* The transition loop makes one move.                                     *)
LEMMA TransitionsMove ==
    ASSUME NEW g, Sound(g), NEW sensed \in BOOLEAN
    PROVE  Move(g, Transitions(g, sensed))
<1> DEFINE h == LandIfDue(g, sensed)
           k == LiftIfDue(h)
<1>1. Sound(h) /\ (Keep(g, h) \/ Land(g, h))
  BY LandMoves
<1>2. Sound(k) /\ (Keep(h, k) \/ Lift(h, k))
  BY <1>1, LiftMoves
<1>3. g.stepNumCur \in Nat /\ h.stepNumCur \in Nat
  BY <1>1 DEF Sound, Gait
<1>4. Transitions(g, sensed) = k
  BY DEF Transitions
<1> HIDE DEF h, k
<1>5. Move(g, k)
  BY <1>1, <1>2, <1>3 DEF Keep, Land, Lift, Swap, Move
<1>6. QED BY <1>4, <1>5

(* A Walk tick makes one move: initialising the walk first keeps the feet  *)
(* where they are, because an uninitialised walk is at rest.               *)
LEMMA WalkMoves ==
    ASSUME IInv, NEW sensed \in BOOLEAN, NEW loaded \in BOOLEAN,
           StepWalk(sensed, loaded)
    PROVE  Move(gait, gait')
<1> DEFINE w == WalkFrom
           t == Tick(w)
           g == Transitions(t, sensed)
<1>1. Sound(w) /\ Keep(gait, w)
  <2>1. Sound(w)
    BY WalkFromSound
  <2>2. CASE ~isIni /\ start_walk
    <3>1. w = AtRest(gait, gait.stepNumCur)
      BY <2>2 DEF WalkFrom
    <3>2. gait \in Gait /\ gait.stepNumCur \in Nat /\ gait.stepNumCur <= StepNumDes
      BY DEF IInv, Sound, Budgeted, Gait
    <3>3. /\ w.supportPhase = "Double" /\ w.stanceLeg = firstleg
          /\ w.stepNumCur = gait.stepNumCur
      BY <3>1, <3>2, AtRestSound
    <3>4. QED
      BY <2>1, <2>2, <3>3 DEF IInv, RestsUntilStarted, Keep
  <2>3. CASE ~(~isIni /\ start_walk)
    BY <2>1, <2>3 DEF WalkFrom, Keep
  <2>4. QED BY <2>2, <2>3
<1>2. Sound(t) /\ Keep(w, t)
  BY <1>1, TickSound DEF Keep
<1>3. Sound(g) /\ Move(t, g)
  BY <1>2, TransitionsMove, TransitionsSound
<1>4. Publish("Walk", g, TRUE, loaded) /\ "Walk" \in MotionState
  BY DEF StepWalk, MotionState
<1>5. touchDown = FALSE
  BY DEF IInv, NoForceTouchDown
<1> HIDE DEF w, t, g
<1>6. Keep(g, gait')
  BY <1>3, <1>4, <1>5, PublishSound DEF Keep
<1>7. QED
  BY <1>1, <1>2, <1>3, <1>6 DEF Keep, Lift, Land, Swap, Move

(* Move with the clock: how the time in the phase goes on or starts anew,  *)
(* and when a foot may leave the ground.                                   *)
MoveInTime(g, h) ==
    \/ /\ Keep(g, h) /\ h.phaseTime <= g.phaseTime + 1
       /\ g.supportPhase = "Single" \/ g.stepNumCur < StepNumDes
              => h.phaseTime = g.phaseTime + 1
    \/ Lift(g, h) /\ h.phaseTime = 0 /\ g.phaseTime + 1 >= DoubleSupport
    \/ Land(g, h) /\ h.phaseTime = 0
    \/ Swap(g, h) /\ h.phaseTime = 0 /\ DoubleSupport = 0

(* While steps remain, a double support does not outlive its duration.     *)
Punctual(g) ==
    g.supportPhase = "Double" /\ g.stepNumCur < StepNumDes
        => g.phaseTime < DoubleSupport

(* A landing starts the clock of the double support.                       *)
LEMMA LandClock ==
    ASSUME NEW g, Sound(g), NEW sensed \in BOOLEAN
    PROVE  LET h == LandIfDue(g, sensed)
           IN  h = g \/ (Land(g, h) /\ h.phaseTime = 0)
<1> DEFINE h == LandIfDue(g, sensed)
<1>1. CASE h = EnterDoubleSupport(g) /\ g.supportPhase = "Single"
  BY <1>1 DEF EnterDoubleSupport, Sound, Gait, Land
<1>2. QED BY <1>1 DEF LandIfDue

(* A lift-off starts the clock of the swing, and is only refused for want  *)
(* of steps.                                                               *)
LEMMA LiftClock ==
    ASSUME NEW g, Sound(g)
    PROVE  LET h == LiftIfDue(g)
           IN  /\ Punctual(h)
               /\ \/ h = g
                  \/ /\ Keep(g, h) /\ h.phaseTime <= g.phaseTime
                     /\ g.supportPhase = "Double" /\ g.stepNumCur >= StepNumDes
                  \/ Lift(g, h) /\ h.phaseTime = 0 /\ g.phaseTime >= DoubleSupport
<1> DEFINE h == LiftIfDue(g)
<1>1. /\ g \in Gait /\ g.stepNumCur \in Nat /\ g.phaseTime \in Nat
      /\ g.supportPhase \in {"Double", "Single"}
  BY DEF Sound, Gait
<1>2. CASE g.supportPhase = "Single" \/ ~(g.phaseTime >= DoubleSupport)
  BY <1>1, <1>2, GaitAssumption DEF LiftIfDue, Punctual
<1>3. CASE /\ g.supportPhase = "Double" /\ g.phaseTime >= DoubleSupport
           /\ g.stepNumCur >= StepNumDes
  <2>1. h = [g EXCEPT !.phaseTime = Lesser(g.phaseTime, DoubleSupport)]
    BY <1>3 DEF LiftIfDue, EnterSingleSupport
  <2>2. /\ h.supportPhase = "Double" /\ h.stanceLeg = g.stanceLeg
        /\ h.stepNumCur = g.stepNumCur
        /\ h.phaseTime = Lesser(g.phaseTime, DoubleSupport)
    BY <1>1, <1>3, <2>1 DEF Gait
  <2> HIDE DEF h
  <2>3. Keep(g, h) /\ h.phaseTime <= g.phaseTime /\ Punctual(h)
    BY <1>1, <1>3, <2>2, GaitAssumption DEF Keep, Lesser, Punctual
  <2>4. QED BY <1>3, <2>3 DEF h
<1>4. CASE /\ g.supportPhase = "Double" /\ g.phaseTime >= DoubleSupport
           /\ ~(g.stepNumCur >= StepNumDes)
  <2>1. h = EnterSingleSupport(g)
    BY <1>4 DEF LiftIfDue
  <2>2. /\ h.supportPhase = "Single" /\ h.phaseTime = 0
        /\ h.stanceLeg = OppositeStance(g.stanceLeg)
        /\ h.stepNumCur = g.stepNumCur
    BY <1>1, <1>4, <2>1 DEF EnterSingleSupport, Gait
  <2> HIDE DEF h
  <2>3. Lift(g, h) /\ Punctual(h)
    BY <1>1, <1>4, <2>2, GaitAssumption DEF Lift, Punctual
  <2>4. QED BY <1>4, <2>2, <2>3 DEF h
<1>5. QED BY <1>1, <1>2, <1>3, <1>4

(* A Walk tick makes one move, in time.                                    *)
LEMMA WalkInTime ==
    ASSUME IInv, ~isIni => gait.phaseTime = 0,
           NEW sensed \in BOOLEAN, NEW loaded \in BOOLEAN,
           StepWalk(sensed, loaded)
    PROVE  MoveInTime(gait, gait') /\ Punctual(gait')
<1> DEFINE w == WalkFrom
           t == Tick(w)
           h == LandIfDue(t, sensed)
           k == LiftIfDue(h)
<1>1. gait \in Gait /\ gait.stepNumCur \in Nat /\ gait.phaseTime \in Nat
  BY DEF IInv, Sound, Gait
<1>2. Sound(w) /\ Keep(gait, w) /\ w.phaseTime = gait.phaseTime
  <2>1. Sound(w)
    BY WalkFromSound
  <2>2. CASE ~isIni /\ start_walk
    <3>1. w = AtRest(gait, gait.stepNumCur) /\ gait.stepNumCur <= StepNumDes
      BY <2>2 DEF WalkFrom, IInv, Sound, Budgeted
    <3>2. /\ w.supportPhase = "Double" /\ w.stanceLeg = firstleg
          /\ w.stepNumCur = gait.stepNumCur /\ w.phaseTime = 0
      BY <1>1, <3>1, AtRestSound
    <3>3. QED
      BY <2>1, <2>2, <3>2 DEF IInv, RestsUntilStarted, Keep
  <2>3. CASE ~(~isIni /\ start_walk)
    BY <2>1, <2>3 DEF WalkFrom, Keep
  <2>4. QED BY <2>2, <2>3
<1>3. Sound(t) /\ Keep(gait, t) /\ t.phaseTime = gait.phaseTime + 1
  BY <1>2, TickSound DEF Keep
<1>4. Sound(h) /\ (h = t \/ (Land(t, h) /\ h.phaseTime = 0))
  BY <1>3, LandMoves, LandClock
<1>5. /\ Punctual(k)
      /\ \/ k = h
         \/ /\ Keep(h, k) /\ k.phaseTime <= h.phaseTime
            /\ h.supportPhase = "Double" /\ h.stepNumCur >= StepNumDes
         \/ Lift(h, k) /\ k.phaseTime = 0 /\ h.phaseTime >= DoubleSupport
  BY <1>4, LiftClock
<1>6. Sound(k) /\ k = Transitions(t, sensed)
  BY <1>4, LiftMoves DEF Transitions
<1>7. Publish("Walk", k, TRUE, loaded) /\ "Walk" \in MotionState /\ touchDown = FALSE
  BY <1>6 DEF StepWalk, MotionState, IInv, NoForceTouchDown
<1> HIDE DEF w, t, h, k
<1>8. Keep(k, gait') /\ gait'.phaseTime = k.phaseTime
  BY <1>6, <1>7, PublishSound DEF Keep
<1>9. /\ h.stepNumCur \in Nat /\ h.phaseTime \in Nat /\ k.phaseTime \in Nat
      /\ k.stepNumCur \in Nat
      /\ gait.supportPhase \in {"Double", "Single"}
  BY <1>1, <1>4, <1>6 DEF Sound, Gait
<1>10. MoveInTime(gait, k)
  <2>1. CASE h = t
    BY <1>1, <1>3, <1>5, <1>9, <2>1, GaitAssumption DEF Keep, Lift, MoveInTime
  <2>2. CASE Land(t, h) /\ h.phaseTime = 0
    BY <1>1, <1>3, <1>5, <1>9, <2>2, GaitAssumption
       DEF Keep, Lift, Land, Swap, MoveInTime
  <2>3. QED BY <1>4, <2>1, <2>2
<1>11. QED
  BY <1>5, <1>8, <1>10 DEF Keep, Lift, Land, Swap, MoveInTime, Punctual

(* A Walk2Stand tick keeps the feet or lands the one in the air.           *)
LEMMA Walk2StandMoves ==
    ASSUME IInv, NEW sensed \in BOOLEAN, NEW loaded \in BOOLEAN,
           StepWalk2Stand(sensed, loaded)
    PROVE  Move(gait, gait')
<1> DEFINE t == Tick(gait)
<1>1. Sound(t) /\ Keep(gait, t)
  BY TickSound DEF IInv, Keep
<1>2. /\ enableNextStep \in BOOLEAN /\ touchDown = FALSE
      /\ t.supportPhase = "Single" => enableNextStep
  BY <1>1 DEF IInv, TypeOK, NoForceTouchDown, Keep
<1>3. "Stand" \in MotionState /\ "Walk2Stand" \in MotionState
  BY DEF MotionState
<1>4. CASE /\ t.supportPhase = "Single"
           /\ Publish("Stand", EnterDoubleSupport(t), enableNextStep, loaded)
  <2>1. Sound(EnterDoubleSupport(t)) /\ EnterDoubleSupport(t).supportPhase = "Double"
    BY <1>1, <1>4, EnterDoubleSound
  <2>2. /\ EnterDoubleSupport(t).stanceLeg = t.stanceLeg
        /\ EnterDoubleSupport(t).stepNumCur = t.stepNumCur + 1
    BY <1>1 DEF EnterDoubleSupport, Sound, Gait
  <2>3. Keep(EnterDoubleSupport(t), gait')
    BY <1>2, <1>3, <1>4, <2>1, PublishSound DEF Keep
  <2> HIDE DEF t
  <2>4. QED
    BY <1>1, <1>4, <2>1, <2>2, <2>3 DEF Keep, Land, Move
<1>5. CASE Publish("Walk2Stand", t, enableNextStep, loaded)
  <2>1. Keep(t, gait')
    BY <1>1, <1>2, <1>3, <1>5, PublishSound DEF Keep
  <2> HIDE DEF t
  <2>2. QED BY <1>1, <2>1 DEF Keep, Move
<1>6. QED BY <1>4, <1>5 DEF StepWalk2Stand

(* A Stand tick and a stop put both feet in charge again.                  *)
LEMMA StandHalts ==
    ASSUME IInv, NEW loaded \in BOOLEAN, StepStand(loaded)
    PROVE  Rested(gait, gait')
<1> DEFINE g == AtRest(gait, 0)
<1>1. /\ Sound(g) /\ g.supportPhase = "Double"
      /\ g.stanceLeg = firstleg /\ g.stepNumCur = 0
  BY AtRestSound, GaitAssumption DEF IInv, Sound
<1>2. /\ Publish("Stand", g, FALSE, loaded)
      /\ "Stand" \in MotionState /\ touchDown = FALSE
  BY DEF StepStand, MotionState, IInv, NoForceTouchDown
<1> HIDE DEF g
<1>3. Keep(g, gait')
  BY <1>1, <1>2, PublishSound DEF Keep
<1>4. QED BY <1>1, <1>3 DEF Keep, Rested

LEMMA StopHalts ==
    ASSUME IInv, Stop
    PROVE  Rested(gait, gait')
<1>1. gait.stepNumCur \in Nat /\ gait.stepNumCur <= StepNumDes /\ gait \in Gait
  BY DEF IInv, Sound, Gait, Budgeted
<1>2. QED
  BY <1>1, AtRestSound DEF Stop, Rested

-----------------------------------------------------------------------------
(* What one step may do to the gait.                                       *)
LEMMA StepsMoveOrHalt ==
    ASSUME IInv, [Next]_vars
    PROVE  Move(gait, gait') \/ Rested(gait, gait')
<1>1. CASE Start
  BY <1>1 DEF Start, Keep, Move
<1>2. CASE Stop
  BY <1>2, StopHalts
<1>3. CASE \E loaded \in BOOLEAN : StepStand(loaded)
  BY <1>3, StandHalts
<1>4. CASE WalkTick
  BY <1>4, WalkMoves DEF WalkTick
<1>5. CASE \E sensed, loaded \in BOOLEAN : StepWalk2Stand(sensed, loaded)
  BY <1>5, Walk2StandMoves
<1>6. CASE UNCHANGED vars
  BY <1>6 DEF vars, Keep, Move
<1>7. QED BY <1>1, <1>2, <1>3, <1>4, <1>5, <1>6 DEF Next

(* A move or a halt of the gait is a step or a stutter of the stepper.     *)
LEMMA MoveImplements ==
    ASSUME IInv, IInv', Move(gait, gait') \/ Rested(gait, gait')
    PROVE  [Stepper!Next]_(Stepper!vars)
<1>1. /\ gait.stanceLeg \in Stance /\ gait'.stanceLeg \in Stance
      /\ gait.stepNumCur \in Nat /\ gait'.stepNumCur \in Nat
      /\ gait.supportPhase = "Single" => gait.stepNumCur < StepNumDes
      /\ gait.supportPhase \in {"Double", "Single"}
  BY DEF IInv, Sound, Gait, Budgeted
<1> DEFINE s == gait.stanceLeg
           o == OppositeStance(s)
<1>2. /\ o \in Stance /\ o # s /\ OppositeStance(o) = s
      /\ Stepper!Other(s) = o /\ Stepper!Other(o) = s
  BY <1>1, OppositeType, OtherIsOpposite
<1>3. Stance \ {s} = {o} /\ Stance \ {o} = {s} /\ Stance = {s, o}
  BY <1>1, <1>2 DEF Stance
<1>4. CASE Keep(gait, gait')
  BY <1>4 DEF Keep, Stepper!vars, Contacts, Turn
<1>5. CASE Lift(gait, gait')
  <2>1. /\ Contacts = Stance /\ Turn = s
        /\ Contacts' = {o} /\ Turn' = OppositeStance(o)
    BY <1>5 DEF Lift, Contacts, Turn
  <2>2. Stepper!LiftOff
    BY <1>2, <1>3, <1>5, <2>1 DEF Lift, Stepper!LiftOff
  <2>3. QED BY <2>2 DEF Stepper!Next
<1>6. CASE Land(gait, gait')
  <2>1. /\ Contacts = {s} /\ Turn = o
        /\ Contacts' = Stance /\ Turn' = s
    BY <1>6 DEF Land, Contacts, Turn
  <2>2. Stepper!TouchDown
    BY <1>2, <1>3, <1>6, <2>1 DEF Land, Stepper!TouchDown
  <2>3. QED BY <2>2 DEF Stepper!Next
<1>7. CASE Swap(gait, gait')
  <2>1. /\ Contacts = {s} /\ Turn = o
        /\ Contacts' = {o} /\ Turn' = s
    BY <1>2, <1>7 DEF Swap, Contacts, Turn
  <2>2. Stepper!Exchange
    BY <1>2, <1>3, <1>7, <2>1 DEF Swap, Stepper!Exchange
  <2>3. QED BY <2>2 DEF Stepper!Next
<1>8. CASE Rested(gait, gait')
  <2>1. Contacts' = Stance /\ Turn' = firstleg
    BY <1>8 DEF Rested, Contacts, Turn
  <2>2. Stepper!Halt
    BY <1>8, <2>1 DEF Rested, Stepper!Halt
  <2>3. QED BY <2>2 DEF Stepper!Next
<1>9. QED
  BY <1>4, <1>5, <1>6, <1>7, <1>8 DEF Move

(* The gait scheduler implements the alternating stepper.                  *)
THEOREM GaitImplementsStepper == Spec => ImplementsStepper
<1>1. Init => Stepper!Init
  BY DEF Init, Stepper!Init, Contacts, Turn
<1>2. IInv /\ IInv' /\ [Next]_vars => [Stepper!Next]_(Stepper!vars)
  BY StepsMoveOrHalt, MoveImplements
<1>3. Spec => []IInv
  BY InductiveInvariance
<1>4. QED
  BY <1>1, <1>2, <1>3, PTL DEF Spec, ImplementsStepper, Stepper!Spec

(* The step count changes only by a landing, and by one, or is cleared by  *)
(* a Stand tick.                                                           *)
THEOREM StepsAreLandingsHolds == Spec => StepsAreLandings
<1> DEFINE Landing ==
        gait'.stepNumCur # gait.stepNumCur =>
          \/ /\ gait'.stepNumCur = 0
             /\ motionState' = "Stand" /\ ~enableNextStep'
          \/ /\ gait'.stepNumCur = gait.stepNumCur + 1
             /\ gait.supportPhase = "Single"
             /\ \/ gait'.supportPhase = "Double"
                \/ gait'.stanceLeg # gait.stanceLeg
<1>1. IInv /\ [Next]_vars => [Landing]_vars
  <2> SUFFICES ASSUME IInv, [Next]_vars PROVE Landing
    OBVIOUS
  <2>1. gait.stanceLeg \in Stance
    BY DEF IInv, Sound, Gait
  <2>2. CASE Move(gait, gait')
    BY <2>1, <2>2, OppositeType DEF Move, Keep, Lift, Land, Swap
  <2>3. CASE \E loaded \in BOOLEAN : StepStand(loaded)
    <3>1. PICK loaded \in BOOLEAN : StepStand(loaded)
      BY <2>3
    <3>2. Sound(AtRest(gait, 0)) /\ AtRest(gait, 0).supportPhase = "Double"
          /\ AtRest(gait, 0).stepNumCur = 0
      BY AtRestSound, GaitAssumption DEF IInv, Sound
    <3>3. Publish("Stand", AtRest(gait, 0), FALSE, loaded) /\ touchDown = FALSE
          /\ "Stand" \in MotionState
      BY <3>1 DEF StepStand, IInv, NoForceTouchDown, MotionState
    <3>4. /\ gait'.stepNumCur = 0 /\ motionState' = "Stand"
          /\ enableNextStep' = FALSE
      BY <3>2, <3>3, PublishSound
    <3>5. QED BY <3>4
  <2>4. CASE Stop
    BY <2>4 DEF Stop, AtRest, IInv, Sound, Gait
  <2>5. QED
    <3>1. CASE Start \/ UNCHANGED vars
      BY <3>1 DEF Start, vars
    <3>2. CASE WalkTick
      BY <2>2, <3>2, WalkMoves DEF WalkTick
    <3>3. CASE \E sensed, loaded \in BOOLEAN : StepWalk2Stand(sensed, loaded)
      BY <2>2, <3>3, Walk2StandMoves
    <3>4. QED BY <2>3, <2>4, <3>1, <3>2, <3>3 DEF Next
<1>2. QED
  BY <1>1, InductiveInvariance, PTL DEF Spec, StepsAreLandings

-----------------------------------------------------------------------------
(* The swing curve.                                                        *)

(* phi is the time of the swing, held at its end.                          *)
SwingClock ==
    gait.supportPhase = "Single" => phi = SwingProgress(gait)

(* What a step may do to the swing curve: SwingOnward's action.            *)
CurveOnward ==
    /\ LiftOff => phi' = 0
    /\ gait.supportPhase = "Single" /\ gait'.supportPhase = "Single" /\ ~LiftOff
           => phi' = Lesser(phi + 1, SingleSupport)
    /\ WalkingLanding => phi >= SingleSupport - 1

(* The transition loop starts a swing's clock at zero, leaves a swing that *)
(* goes on alone, and counts a step only at the end of the swing's time.   *)
LEMMA TransitionsCurve ==
    ASSUME NEW g, Sound(g), NEW sensed \in BOOLEAN,
           NEW k, k = Transitions(g, sensed)
    PROVE  /\ Sound(k)
           /\ /\ k.supportPhase = "Single"
              /\ g.supportPhase = "Double" \/ k.stanceLeg # g.stanceLeg
              => k.phaseTime = 0
           /\ /\ k.supportPhase = "Single" /\ g.supportPhase = "Single"
              /\ k.stanceLeg = g.stanceLeg
              => k = g
           /\ k.stepNumCur = g.stepNumCur + 1
              => g.supportPhase = "Single" /\ g.phaseTime >= SingleSupport
<1> DEFINE h == LandIfDue(g, sensed)
<1>1. /\ g.stanceLeg \in Stance /\ g.stepNumCur \in Nat
      /\ OppositeStance(g.stanceLeg) # g.stanceLeg
  BY OppositeType DEF Sound, Gait
<1>2. /\ Sound(h)
      /\ \/ h = g
         \/ Land(g, h) /\ g.phaseTime >= SingleSupport
  <2>1. h = g \/ g.phaseTime >= SingleSupport
    BY DEF LandIfDue
  <2>2. Sound(h) /\ (h = g \/ Land(g, h))
    BY LandMoves, LandClock
  <2>3. QED BY <2>1, <2>2
<1>3. /\ Sound(k)
      /\ \/ k = h
         \/ Keep(h, k) /\ h.supportPhase = "Double"
         \/ Lift(h, k) /\ k.phaseTime = 0
  <2>1. k = LiftIfDue(h)
    BY DEF Transitions
  <2> HIDE DEF h
  <2>2. QED BY <1>2, <2>1, LiftMoves, LiftClock
<1> HIDE DEF h
<1>4. CASE h = g
  BY <1>1, <1>3, <1>4 DEF Keep, Lift
<1>5. CASE Land(g, h) /\ g.phaseTime >= SingleSupport
  BY <1>1, <1>3, <1>5 DEF Keep, Lift, Land
<1>6. QED BY <1>2, <1>4, <1>5

(* A Walk tick moves the curve onward.                                     *)
LEMMA WalkCurve ==
    ASSUME IInv, SwingClock, NEW sensed \in BOOLEAN, NEW loaded \in BOOLEAN,
           StepWalk(sensed, loaded)
    PROVE  SwingClock' /\ CurveOnward
<1> DEFINE t == Tick(WalkFrom)
           k == Transitions(t, sensed)
<1>1. /\ gait \in Gait /\ gait.phaseTime \in Nat /\ gait.stepNumCur \in Nat
      /\ gait.supportPhase \in {"Double", "Single"}
  BY DEF IInv, Sound, Gait
<1>2. /\ Sound(t)
      /\ t.supportPhase = gait.supportPhase
      /\ t.stanceLeg = gait.stanceLeg /\ t.stepNumCur = gait.stepNumCur
      /\ gait.supportPhase = "Single" => t.phaseTime = gait.phaseTime + 1
  <2>1. Sound(WalkFrom)
    BY WalkFromSound
  <2>2. /\ Keep(gait, WalkFrom)
        /\ gait.supportPhase = "Single" => WalkFrom = gait
    <3>1. CASE ~isIni /\ start_walk
      <4>1. /\ WalkFrom = AtRest(gait, gait.stepNumCur)
            /\ gait.stepNumCur <= StepNumDes
        BY <3>1 DEF WalkFrom, IInv, Sound, Budgeted
      <4>2. /\ WalkFrom.supportPhase = "Double" /\ WalkFrom.stanceLeg = firstleg
            /\ WalkFrom.stepNumCur = gait.stepNumCur
        BY <1>1, <4>1, AtRestSound
      <4>3. QED BY <3>1, <4>2 DEF IInv, RestsUntilStarted, Keep
    <3>2. CASE ~(~isIni /\ start_walk)
      BY <3>2 DEF WalkFrom, Keep
    <3>3. QED BY <3>1, <3>2
  <2>3. QED BY <2>1, <2>2, TickSound DEF Keep
<1> HIDE DEF t
<1>3. /\ Sound(k)
      /\ /\ k.supportPhase = "Single"
         /\ t.supportPhase = "Double" \/ k.stanceLeg # t.stanceLeg
         => k.phaseTime = 0
      /\ /\ k.supportPhase = "Single" /\ t.supportPhase = "Single"
         /\ k.stanceLeg = t.stanceLeg
         => k = t
      /\ k.stepNumCur = t.stepNumCur + 1
         => t.supportPhase = "Single" /\ t.phaseTime >= SingleSupport
  BY <1>2, TransitionsCurve
<1>4. /\ Publish("Walk", k, TRUE, loaded) /\ "Walk" \in MotionState
      /\ touchDown = FALSE
      /\ phi' = IF k.supportPhase = "Single" THEN SwingProgress(k) ELSE 0
  BY DEF StepWalk, t, MotionState, IInv, NoForceTouchDown
<1> HIDE DEF k
<1>5. /\ gait'.supportPhase = k.supportPhase /\ gait'.phaseTime = k.phaseTime
      /\ gait'.stanceLeg = k.stanceLeg /\ gait'.stepNumCur = k.stepNumCur
  BY <1>3, <1>4, PublishSound
<1>6. SwingClock'
  BY <1>4, <1>5 DEF SwingClock, SwingProgress
<1>7. LiftOff => phi' = 0
  <2> SUFFICES ASSUME LiftOff PROVE phi' = 0
    OBVIOUS
  <2>1. k.supportPhase = "Single" /\ k.phaseTime = 0
    BY <1>2, <1>3, <1>5 DEF LiftOff
  <2>2. QED BY <1>4, <2>1, GaitAssumption DEF SwingProgress, Lesser
<1>8. ASSUME gait.supportPhase = "Single", gait'.supportPhase = "Single", ~LiftOff
      PROVE  phi' = Lesser(phi + 1, SingleSupport)
  <2>1. k = t /\ k.supportPhase = "Single"
    BY <1>2, <1>3, <1>5, <1>8 DEF LiftOff
  <2>2. /\ phi' = Lesser(gait.phaseTime + 1, SingleSupport)
        /\ phi = Lesser(gait.phaseTime, SingleSupport)
    BY <1>2, <1>4, <1>8, <2>1 DEF SwingClock, SwingProgress
  <2>3. QED BY <1>1, <2>2, GaitAssumption DEF Lesser
<1>9. ASSUME WalkingLanding PROVE phi >= SingleSupport - 1
  <2>1. gait.supportPhase = "Single" /\ gait.phaseTime + 1 >= SingleSupport
    BY <1>2, <1>3, <1>5, <1>9 DEF WalkingLanding
  <2>2. phi = Lesser(gait.phaseTime, SingleSupport)
    BY <2>1 DEF SwingClock, SwingProgress
  <2>3. QED BY <1>1, <2>1, <2>2, GaitAssumption DEF Lesser
<1>10. QED BY <1>6, <1>7, <1>8, <1>9 DEF CurveOnward

(* A Walk2Stand tick moves the curve onward, or lands.                     *)
LEMMA Walk2StandCurve ==
    ASSUME IInv, SwingClock, NEW sensed \in BOOLEAN, NEW loaded \in BOOLEAN,
           StepWalk2Stand(sensed, loaded)
    PROVE  SwingClock' /\ CurveOnward
<1> DEFINE t == Tick(gait)
<1>1. gait.phaseTime \in Nat /\ gait.supportPhase \in {"Double", "Single"}
  BY DEF IInv, Sound, Gait
<1>2. /\ Sound(t) /\ t.supportPhase = gait.supportPhase
      /\ t.phaseTime = gait.phaseTime + 1 /\ t.stanceLeg = gait.stanceLeg
  BY TickSound DEF IInv
<1>3. /\ enableNextStep \in BOOLEAN /\ touchDown = FALSE
      /\ t.supportPhase = "Single" => enableNextStep
      /\ {"Stand", "Walk2Stand"} \subseteq MotionState
  BY <1>2 DEF IInv, TypeOK, NoForceTouchDown, MotionState
<1>4. phi' = SwingProgress(t)
  BY DEF StepWalk2Stand
<1>5. \/ /\ t.supportPhase = "Single"
         /\ Publish("Stand", EnterDoubleSupport(t), enableNextStep, loaded)
      \/ Publish("Walk2Stand", t, enableNextStep, loaded)
  BY DEF StepWalk2Stand
<1> HIDE DEF t
<1>6. CASE /\ t.supportPhase = "Single"
           /\ Publish("Stand", EnterDoubleSupport(t), enableNextStep, loaded)
  <2>1. gait'.supportPhase = "Double" /\ motionState' = "Stand"
    BY <1>2, <1>3, <1>6, EnterDoubleSound, PublishSound
  <2>2. QED
    BY <2>1 DEF SwingClock, CurveOnward, LiftOff, WalkingLanding
<1>7. CASE Publish("Walk2Stand", t, enableNextStep, loaded)
  <2>1. /\ gait'.supportPhase = t.supportPhase /\ gait'.phaseTime = t.phaseTime
        /\ gait'.stanceLeg = t.stanceLeg /\ motionState' = "Walk2Stand"
    BY <1>2, <1>3, <1>7, PublishSound
  <2>2. SwingClock'
    BY <1>4, <2>1 DEF SwingClock, SwingProgress
  <2>3. ~LiftOff /\ ~WalkingLanding
    BY <1>1, <1>2, <2>1 DEF LiftOff, WalkingLanding
  <2>4. ASSUME gait.supportPhase = "Single"
        PROVE  phi' = Lesser(phi + 1, SingleSupport)
    <3>1. /\ phi' = Lesser(gait.phaseTime + 1, SingleSupport)
          /\ phi = Lesser(gait.phaseTime, SingleSupport)
      BY <1>2, <1>4, <2>4 DEF SwingClock, SwingProgress
    <3>2. QED BY <1>1, <3>1, GaitAssumption DEF Lesser
  <2>5. QED BY <2>2, <2>3, <2>4 DEF CurveOnward
<1>8. QED BY <1>5, <1>6, <1>7

(* A step that ends with both feet down, in Stand, ends the curve.         *)
LEMMA HaltCurve ==
    ASSUME gait'.supportPhase = "Double", motionState' = "Stand"
    PROVE  SwingClock' /\ CurveOnward
BY DEF SwingClock, CurveOnward, LiftOff, WalkingLanding

(* Every swing curve is run through once, from its beginning to its end,   *)
(* through all changes of the motion state and with any late landing.      *)
THEOREM SwingOnwardHolds == Spec => SwingOnward
<1>1. Init => SwingClock
  BY DEF Init, SwingClock
<1>2. IInv /\ SwingClock /\ [Next]_vars
          => SwingClock' /\ [CurveOnward]_<<phi, gait>>
  <2> SUFFICES ASSUME IInv, SwingClock, [Next]_vars
               PROVE  SwingClock' /\ [CurveOnward]_<<phi, gait>>
    OBVIOUS
  <2>1. CASE Start \/ UNCHANGED vars
    <3>1. UNCHANGED <<phi, gait>>
      BY <2>1 DEF Start, vars
    <3>2. QED BY <3>1 DEF SwingClock, SwingProgress
  <2>2. CASE Stop
    <3>1. gait'.supportPhase = "Double" /\ motionState' = "Stand"
      BY <2>2, StopHalts DEF Stop, Rested
    <3>2. QED BY <3>1, HaltCurve
  <2>3. CASE \E loaded \in BOOLEAN : StepStand(loaded)
    <3>1. gait'.supportPhase = "Double" /\ motionState' = "Stand"
      BY <2>3, StandHalts DEF StepStand, Publish, Rested
    <3>2. QED BY <3>1, HaltCurve
  <2>4. CASE WalkTick
    BY <2>4, WalkCurve DEF WalkTick
  <2>5. CASE \E sensed, loaded \in BOOLEAN : StepWalk2Stand(sensed, loaded)
    BY <2>5, Walk2StandCurve
  <2>6. QED BY <2>1, <2>2, <2>3, <2>4, <2>5 DEF Next
<1>3. [CurveOnward]_<<phi, gait>> <=>
        [/\ LiftOff => phi' = 0
         /\ gait.supportPhase = "Single" /\ gait'.supportPhase = "Single" /\ ~LiftOff
                => phi' = Lesser(phi + 1, SingleSupport)
         /\ WalkingLanding => phi >= SingleSupport - 1]_<<phi, gait>>
  BY DEF CurveOnward
<1>4. QED
  BY <1>1, <1>2, <1>3, InductiveInvariance, PTL DEF Spec, SwingOnward

-----------------------------------------------------------------------------
(* The preview compared with the scheduler.  Both recursive functions are  *)
(* first shown to satisfy the equations that define them, and the preview  *)
(* to advance its sample tick by tick; then the two run side by side.      *)

(* Induction over the ticks: a set of numbers that holds 0 and the         *)
(* successor of each of its members holds them all.                        *)
LEMMA EveryTick ==
    ASSUME NEW S \in SUBSET Nat, 0 \in S, \A n \in S : n + 1 \in S
    PROVE  S = Nat
<1> SUFFICES ASSUME NEW m \in Nat PROVE m \in S
  OBVIOUS
<1> DEFINE P == {x \in 1 .. m : \A y \in 0 .. x : y \in S}
           c == Cardinality(P)
<1>1. \A x \in 1 .. m : x \in P <=> \A y \in 0 .. x : y \in S
  OBVIOUS
<1>2. P \in SUBSET (1 .. m) /\ \A x \in P, y \in 1 .. m : y < x => y \in P
  OBVIOUS
<1> HIDE DEF P
<1>3. IsFiniteSet(P) /\ c \in Nat /\ c <= m
  <2>1. IsFiniteSet(1 .. m) /\ Cardinality(1 .. m) = m
    BY FS_Interval
  <2>2. IsFiniteSet(P) /\ Cardinality(P) <= m
    BY <1>2, <2>1, FS_Subset
  <2>3. QED
    BY <2>2, FS_CardinalityType
<1>4. P = 1 .. c
  <2>1. \A x \in P : x <= c
    <3> SUFFICES ASSUME NEW x \in P PROVE x <= c
      OBVIOUS
    <3>1. 1 .. x \subseteq P /\ x \in Nat
      BY <1>2
    <3>2. Cardinality(1 .. x) = x
      BY <3>1, FS_Interval
    <3>3. QED
      BY <1>3, <3>1, <3>2, FS_Subset
  <2>2. IsFiniteSet(1 .. c) /\ Cardinality(1 .. c) = c
    BY <1>3, FS_Interval
  <2>3. P \subseteq 1 .. c
    BY <1>2, <2>1
  <2>4. QED
    BY <2>2, <2>3, FS_Subset
<1> HIDE DEF c
<1>5. \A y \in 0 .. c : y \in S
  <2>1. CASE c = 0
    BY <2>1
  <2>2. CASE c > 0
    <3>1. c \in 1 .. m /\ c \in P
      BY <1>3, <1>4, <2>2
    <3>2. QED
      BY <1>1, <3>1
  <2>3. QED
    BY <1>3, <2>1, <2>2
<1>6. c = m
  <2> SUFFICES ASSUME c < m PROVE FALSE
    BY <1>3
  <2>1. c + 1 \in S
    BY <1>3, <1>5
  <2>2. \A y \in 0 .. (c + 1) : y \in S
    BY <1>3, <1>5, <2>1
  <2>3. c + 1 \in 1 .. m
    BY <1>3
  <2>4. c + 1 \in 1 .. c
    BY <1>1, <1>4, <2>2, <2>3
  <2>5. QED
    BY <1>3, <2>4
<1>7. QED
  BY <1>5, <1>6

(* A function of a set into itself can be iterated from any element.       *)
LEMMA Iteration ==
    ASSUME NEW S, NEW a \in S, NEW step \in [S -> S]
    PROVE  \E f \in [Nat -> S] :
               f[0] = a /\ \A n \in Nat : f[n + 1] = step[f[n]]
<1> DEFINE Prefix(n, h) ==
               /\ h \in [0 .. n -> S] /\ h[0] = a
               /\ \A i \in 0 .. (n - 1) : h[i + 1] = step[h[i]]
<1>1. \A n \in Nat : \E h : Prefix(n, h)
  <2> DEFINE G == {n \in Nat : \E h : Prefix(n, h)}
  <2>1. 0 \in G
    <3>1. Prefix(0, [i \in 0 .. 0 |-> a])
      OBVIOUS
    <3>2. QED
      BY <3>1
  <2>2. ASSUME NEW n \in G PROVE n + 1 \in G
    <3>1. PICK h : Prefix(n, h)
      OBVIOUS
    <3> DEFINE k == [i \in 0 .. (n + 1) |->
                        IF i = n + 1 THEN step[h[n]] ELSE h[i]]
    <3>2. n \in Nat /\ h[n] \in S /\ step[h[n]] \in S
      BY <3>1
    <3>3. k \in [0 .. (n + 1) -> S] /\ k[0] = a
      BY <3>1, <3>2
    <3>4. ASSUME NEW i \in 0 .. n PROVE k[i + 1] = step[k[i]]
      <4>1. k[i] = h[i]
        BY <3>2
      <4>2. CASE i = n
        BY <3>2, <4>1, <4>2
      <4>3. CASE i < n
        <5>1. i \in 0 .. (n - 1) /\ i + 1 \in 0 .. (n + 1) /\ i + 1 # n + 1
          BY <3>2, <4>3
        <5>2. QED
          BY <3>1, <4>1, <5>1
      <4>4. QED
        BY <3>2, <4>2, <4>3
    <3> HIDE DEF k
    <3>5. Prefix(n + 1, k)
      <4>1. (n + 1) - 1 = n
        BY <3>2
      <4>2. QED
        BY <3>3, <3>4, <4>1
    <3>6. QED
      BY <3>2, <3>5
  <2> HIDE DEF Prefix
  <2>3. G \in SUBSET Nat
    OBVIOUS
  <2> HIDE DEF G
  <2>4. G = Nat
    BY <2>1, <2>2, <2>3, EveryTick
  <2>5. QED
    BY <2>4 DEF G
<1>2. ASSUME NEW n \in Nat, NEW h, NEW k, Prefix(n, h), Prefix(n + 1, k)
      PROVE  h[n] = k[n]
  <2> DEFINE E == {i \in Nat : i <= n => h[i] = k[i]}
  <2>1. 0 \in E
    BY <1>2
  <2>2. ASSUME NEW i \in E PROVE i + 1 \in E
    <3>1. SUFFICES ASSUME i + 1 <= n PROVE h[i + 1] = k[i + 1]
      OBVIOUS
    <3>2. /\ i \in 0 .. (n - 1) /\ i \in 0 .. ((n + 1) - 1)
          /\ h[i] = k[i]
      BY <3>1
    <3>3. QED
      BY <1>2, <3>2
  <2>3. E \in SUBSET Nat
    OBVIOUS
  <2> HIDE DEF E
  <2>4. E = Nat
    BY <2>1, <2>2, <2>3, EveryTick
  <2>5. QED
    BY <2>4 DEF E
<1> DEFINE pre == [n \in Nat |-> CHOOSE h : Prefix(n, h)]
           f == [n \in Nat |-> pre[n][n]]
<1>3. \A n \in Nat : Prefix(n, pre[n])
  <2> HIDE DEF Prefix
  <2>1. QED
    BY <1>1
<1> HIDE DEF pre
<1>4. f \in [Nat -> S]
  <2>1. ASSUME NEW n \in Nat PROVE pre[n][n] \in S
    <3>1. Prefix(n, pre[n]) /\ n \in 0 .. n
      BY <1>3
    <3>2. QED
      BY <3>1
  <2>2. QED
    BY <2>1
<1>5. f[0] = a
  BY <1>3
<1>6. ASSUME NEW n \in Nat PROVE f[n + 1] = step[f[n]]
  <2>1. Prefix(n, pre[n]) /\ Prefix(n + 1, pre[n + 1]) /\ n + 1 \in Nat
    BY <1>3
  <2>2. pre[n][n] = pre[n + 1][n]
    <3> HIDE DEF Prefix
    <3>1. QED
      BY <1>2, <2>1
  <2>3. n \in 0 .. ((n + 1) - 1)
    OBVIOUS
  <2>4. pre[n + 1][n + 1] = step[pre[n + 1][n]]
    BY <2>1, <2>3
  <2>5. QED
    BY <2>1, <2>2, <2>4
<1> HIDE DEF f
<1>7. QED
  BY <1>4, <1>5, <1>6

-----------------------------------------------------------------------------
(* The sample one tick later.                                              *)
Later(s) ==
    LET t == IF PhaseRemaining(s) = 0 THEN AdvanceSample(s) ELSE s
    IN  [t EXCEPT !.phaseElapsed = @ + 1]

(* What an advance of the loop does.                                       *)
LEMMA AdvanceType ==
    ASSUME NEW s \in GaitSample
    PROVE  /\ AdvanceSample(s) \in GaitSample
           /\ AdvanceSample(s).phaseElapsed = 0
           /\ PhaseRemaining(AdvanceSample(s)) \in Nat \ {0}
           /\ PhaseRemaining(s) \in Nat
<1>1. /\ s.doubleSupport \in BOOLEAN /\ s.stanceLeg \in Stance
      /\ s.phaseElapsed \in Nat
  BY DEF GaitSample
<1>2. OppositeStance(s.stanceLeg) \in Stance
  BY <1>1, OppositeType
<1>3. PhaseRemaining(s) \in Nat
  BY <1>1, GaitAssumption DEF PhaseRemaining, Greater
<1>4. CASE s.doubleSupport \/ DoubleSupport = 0
  BY <1>2, <1>3, <1>4, GaitAssumption
     DEF AdvanceSample, PhaseRemaining, Greater, GaitSample
<1>5. CASE ~(s.doubleSupport \/ DoubleSupport = 0)
  <2>1. /\ AdvanceSample(s) \in GaitSample
        /\ AdvanceSample(s).phaseElapsed = 0
        /\ AdvanceSample(s).doubleSupport = TRUE
    BY <1>1, <1>5 DEF AdvanceSample, GaitSample
  <2>2. QED
    BY <1>3, <1>5, <2>1, GaitAssumption DEF PhaseRemaining, Greater
<1>6. QED
  BY <1>4, <1>5

(* The phase that follows does not depend on the time spent in this one.   *)
LEMMA ElapsedOnly ==
    ASSUME NEW s \in GaitSample, NEW n \in Nat, n <= PhaseRemaining(s)
    PROVE  LET t == [s EXCEPT !.phaseElapsed = @ + n]
           IN  /\ t \in GaitSample
               /\ PhaseRemaining(t) = PhaseRemaining(s) - n
               /\ AdvanceSample(t) = AdvanceSample(s)
<1> DEFINE t == [s EXCEPT !.phaseElapsed = @ + n]
<1>1. /\ s.doubleSupport \in BOOLEAN /\ s.stanceLeg \in Stance
      /\ s.phaseElapsed \in Nat
  BY DEF GaitSample
<1>2. /\ t \in GaitSample /\ t.doubleSupport = s.doubleSupport
      /\ t.stanceLeg = s.stanceLeg /\ t.phaseElapsed = s.phaseElapsed + n
  BY <1>1 DEF GaitSample
<1>3. AdvanceSample(t) = AdvanceSample(s)
  BY <1>1 DEF AdvanceSample, GaitSample
<1> HIDE DEF t
<1>4. PhaseRemaining(t) = PhaseRemaining(s) - n
  BY <1>1, <1>2, GaitAssumption DEF PhaseRemaining, Greater
<1>5. QED
  BY <1>2, <1>3, <1>4 DEF t

(* The sample one tick later, by what is left of the phase.                *)
LEMMA LaterType ==
    ASSUME NEW s \in GaitSample
    PROVE  /\ Later(s) \in GaitSample
           /\ PhaseRemaining(s) # 0 =>
                  Later(s) = [s EXCEPT !.phaseElapsed = @ + 1]
           /\ PhaseRemaining(s) = 0 =>
                  Later(s) = Later(AdvanceSample(s))
<1>1. CASE PhaseRemaining(s) # 0
  <2>1. PhaseRemaining(s) >= 1
    BY <1>1, AdvanceType
  <2>2. QED
    BY <1>1, <2>1, ElapsedOnly DEF Later
<1>2. CASE PhaseRemaining(s) = 0
  <2>1. /\ AdvanceSample(s) \in GaitSample
        /\ PhaseRemaining(AdvanceSample(s)) # 0
        /\ PhaseRemaining(AdvanceSample(s)) >= 1
    BY AdvanceType
  <2>2. QED
    BY <1>2, <2>1, ElapsedOnly DEF Later
<1>3. QED
  BY <1>1, <1>2

(* The loop of previewGaitSample terminates: its equation has a solution.  *)
LEMMA LoopEquation ==
    \A loop \in Loop :
        preview[loop] =
            IF loop.remainingTime <= PhaseRemaining(loop.sample)
            THEN [loop.sample EXCEPT !.phaseElapsed = @ + loop.remainingTime]
            ELSE preview[[sample |-> AdvanceSample(loop.sample),
                          remainingTime |-> loop.remainingTime
                                            - PhaseRemaining(loop.sample)]]
<1> DEFINE Body(g, s, n) ==
               IF n <= PhaseRemaining(s)
               THEN [s EXCEPT !.phaseElapsed = @ + n]
               ELSE g[n - PhaseRemaining(s)][AdvanceSample(s)]
           step == [h \in [GaitSample -> GaitSample] |->
                       [s \in GaitSample |-> h[Later(s)]]]
           none == [s \in GaitSample |-> s]
<1>1. none \in [GaitSample -> GaitSample]
  OBVIOUS
<1>2. step \in [[GaitSample -> GaitSample] -> [GaitSample -> GaitSample]]
  BY LaterType
<1>3. PICK F \in [Nat -> [GaitSample -> GaitSample]] :
          F[0] = none /\ \A n \in Nat : F[n + 1] = step[F[n]]
  <2> DEFINE Map == [GaitSample -> GaitSample]
  <2>1. none \in Map /\ step \in [Map -> Map]
    BY <1>1, <1>2
  <2> HIDE DEF Map, none, step
  <2>2. \E F \in [Nat -> Map] :
            F[0] = none /\ \A n \in Nat : F[n + 1] = step[F[n]]
    BY <2>1, Iteration
  <2>3. QED
    BY <2>2 DEF Map
<1>4. \A n \in Nat, s \in GaitSample : F[n + 1][s] = F[n][Later(s)]
  <2> SUFFICES ASSUME NEW n \in Nat, NEW s \in GaitSample
               PROVE  F[n + 1][s] = F[n][Later(s)]
    OBVIOUS
  <2>1. F[n + 1] = step[F[n]] /\ F[n] \in [GaitSample -> GaitSample]
    BY <1>3
  <2>2. step[F[n]][s] = F[n][Later(s)]
    BY <2>1
  <2>3. QED
    BY <2>1, <2>2
<1>5. \A s \in GaitSample : F[0][s] = s
  BY <1>3
<1> DEFINE Good == {n \in Nat : \A s \in GaitSample : F[n][s] = Body(F, s, n)}
<1>6. 0 \in Good
  <2> SUFFICES ASSUME NEW s \in GaitSample PROVE s = Body(F, s, 0)
    BY <1>5
  <2>1. s.phaseElapsed + 0 = s.phaseElapsed
    BY DEF GaitSample
  <2>2. s = [s EXCEPT !.phaseElapsed = s.phaseElapsed]
    BY DEF GaitSample
  <2>3. 0 <= PhaseRemaining(s)
    <3>1. PhaseRemaining(s) \in Nat
      BY AdvanceType
    <3>2. QED
      BY <3>1
  <2>4. QED
    BY <2>1, <2>2, <2>3
<1>7. ASSUME NEW n \in Good PROVE n + 1 \in Good
  <2> SUFFICES ASSUME NEW s \in GaitSample
               PROVE  F[n + 1][s] = Body(F, s, n + 1)
    OBVIOUS
  <2>1. PhaseRemaining(s) \in Nat /\ n \in Nat /\ Later(s) \in GaitSample
    BY AdvanceType, LaterType
  <2>2. F[n + 1][s] = Body(F, Later(s), n)
    BY <1>4, <2>1
  <2>3. CASE PhaseRemaining(s) = 0
    <3> DEFINE t == AdvanceSample(s)
    <3>1. t \in GaitSample /\ Later(t) = Later(s)
      BY <2>3, AdvanceType, LaterType
    <3>2. F[n + 1][t] = F[n + 1][s]
      BY <1>4, <2>1, <3>1
    <3>3. ~(n + 1 <= PhaseRemaining(s)) /\ (n + 1) - PhaseRemaining(s) = n + 1
      BY <2>1, <2>3
    <3>4. Body(F, s, n + 1) = F[n + 1][t]
      BY <3>3
    <3>5. QED
      BY <3>2, <3>4
  <2>4. CASE PhaseRemaining(s) # 0
    <3> DEFINE t == Later(s)
               r == PhaseRemaining(s)
    <3>1. 1 <= r /\ t = [s EXCEPT !.phaseElapsed = @ + 1]
      BY <2>1, <2>4, LaterType
    <3>2. PhaseRemaining(t) = r - 1 /\ AdvanceSample(t) = AdvanceSample(s)
      BY <3>1, ElapsedOnly
    <3>3. [t EXCEPT !.phaseElapsed = @ + n]
              = [s EXCEPT !.phaseElapsed = @ + (n + 1)]
      <4>1. s.phaseElapsed \in Nat
        BY DEF GaitSample
      <4>2. (s.phaseElapsed + 1) + n = s.phaseElapsed + (n + 1)
        BY <2>1, <4>1
      <4>3. t.phaseElapsed = s.phaseElapsed + 1
        BY <3>1 DEF GaitSample
      <4>4. QED
        BY <3>1, <4>2, <4>3 DEF GaitSample
    <3> HIDE DEF t, r
    <3>4. n <= PhaseRemaining(t) <=> n + 1 <= r
      BY <2>1, <3>2 DEF r
    <3>5. n - PhaseRemaining(t) = (n + 1) - r
      BY <2>1, <3>2 DEF r
    <3>6. Body(F, t, n) = Body(F, s, n + 1)
      BY <3>2, <3>3, <3>4, <3>5 DEF r
    <3>7. QED
      BY <2>2, <3>6 DEF t
  <2>5. QED
    BY <2>3, <2>4
<1>8. \A n \in Nat, s \in GaitSample : F[n][s] = Body(F, s, n)
  <2>1. Good \in SUBSET Nat
    OBVIOUS
  <2> HIDE DEF Good
  <2>2. Good = Nat
    BY <1>6, <1>7, <2>1, EveryTick
  <2>3. QED
    BY <2>2 DEF Good
<1> DEFINE g == [loop \in Loop |-> F[loop.remainingTime][loop.sample]]
           rest(loop) == [sample |-> AdvanceSample(loop.sample),
                          remainingTime |-> loop.remainingTime
                                            - PhaseRemaining(loop.sample)]
           Round(h, loop) ==
               IF loop.remainingTime <= PhaseRemaining(loop.sample)
               THEN [loop.sample EXCEPT !.phaseElapsed = @ + loop.remainingTime]
               ELSE h[rest(loop)]
<1>9. \A loop \in Loop : g[loop] = Round(g, loop)
  <2> SUFFICES ASSUME NEW loop \in Loop PROVE g[loop] = Round(g, loop)
    OBVIOUS
  <2>1. loop.sample \in GaitSample /\ loop.remainingTime \in Nat
    BY DEF Loop
  <2>2. g[loop] = Body(F, loop.sample, loop.remainingTime)
    BY <1>8, <2>1
  <2>3. CASE loop.remainingTime <= PhaseRemaining(loop.sample)
    BY <2>2, <2>3
  <2>4. CASE ~(loop.remainingTime <= PhaseRemaining(loop.sample))
    <3>0. /\ AdvanceSample(loop.sample) \in GaitSample
          /\ PhaseRemaining(loop.sample) \in Nat
      BY <2>1, AdvanceType
    <3>1. /\ AdvanceSample(loop.sample) \in GaitSample
          /\ loop.remainingTime - PhaseRemaining(loop.sample) \in Nat
      BY <2>1, <2>4, <3>0
    <3>2. rest(loop) \in Loop
      BY <3>1 DEF Loop
    <3>3. g[rest(loop)] = F[loop.remainingTime - PhaseRemaining(loop.sample)]
                            [AdvanceSample(loop.sample)]
      BY <3>2
    <3>4. QED
      BY <2>2, <2>4, <3>3
  <2>5. QED
    BY <2>3, <2>4
<1>10. g = [loop \in Loop |-> Round(g, loop)]
  <2> HIDE DEF Round
  <2>1. QED
    BY <1>9
<1>11. preview = [loop \in Loop |-> Round(preview, loop)]
  <2> HIDE DEF g
  <2>1. QED
    BY <1>10, Zenon DEF preview, Loop
<1>12. QED
  BY <1>11

Previewed(s, n) == preview[[sample |-> s, remainingTime |-> n]]

(* Tick by tick: looking one tick further ahead is looking as far ahead    *)
(* from the sample one tick later.                                         *)
LEMMA PreviewUnrolled ==
    ASSUME NEW s \in GaitSample
    PROVE  /\ Previewed(s, 0) = s
           /\ \A n \in Nat : Previewed(s, n + 1) = Previewed(Later(s), n)
<1>1. \A t \in GaitSample, n \in Nat :
          /\ n <= PhaseRemaining(t) =>
                 Previewed(t, n) = [t EXCEPT !.phaseElapsed = @ + n]
          /\ ~(n <= PhaseRemaining(t)) =>
                 Previewed(t, n) = Previewed(AdvanceSample(t),
                                             n - PhaseRemaining(t))
  <2> SUFFICES ASSUME NEW t \in GaitSample, NEW n \in Nat
               PROVE  /\ n <= PhaseRemaining(t) =>
                             Previewed(t, n) = [t EXCEPT !.phaseElapsed = @ + n]
                      /\ ~(n <= PhaseRemaining(t)) =>
                             Previewed(t, n) = Previewed(AdvanceSample(t),
                                                         n - PhaseRemaining(t))
    OBVIOUS
  <2> DEFINE loop == [sample |-> t, remainingTime |-> n]
  <2>1. loop \in Loop /\ loop.sample = t /\ loop.remainingTime = n
    BY DEF Loop
  <2> HIDE DEF loop
  <2>2. preview[loop] =
            IF loop.remainingTime <= PhaseRemaining(loop.sample)
            THEN [loop.sample EXCEPT !.phaseElapsed = @ + loop.remainingTime]
            ELSE preview[[sample |-> AdvanceSample(loop.sample),
                          remainingTime |-> loop.remainingTime
                                            - PhaseRemaining(loop.sample)]]
    BY <2>1, LoopEquation
  <2>3. preview[loop] =
            IF n <= PhaseRemaining(t)
            THEN [t EXCEPT !.phaseElapsed = @ + n]
            ELSE preview[[sample |-> AdvanceSample(t),
                          remainingTime |-> n - PhaseRemaining(t)]]
    BY <2>1, <2>2
  <2>4. QED
    BY <2>3 DEF Previewed, loop
<1>2. Previewed(s, 0) = s
  <2>1. /\ s.phaseElapsed + 0 = s.phaseElapsed
        /\ s = [s EXCEPT !.phaseElapsed = s.phaseElapsed]
    BY DEF GaitSample
  <2>2. PhaseRemaining(s) \in Nat
    BY AdvanceType
  <2>3. 0 <= PhaseRemaining(s)
    BY <2>2
  <2>4. QED
    BY <1>1, <2>1, <2>3
<1>3. ASSUME NEW t \in GaitSample, PhaseRemaining(t) # 0, NEW n \in Nat
      PROVE  Previewed(t, n + 1) = Previewed(Later(t), n)
  <2> DEFINE u == Later(t)
             r == PhaseRemaining(t)
  <2>1. r \in Nat /\ r # 0
    BY <1>3, AdvanceType
  <2>2. u \in GaitSample /\ u = [t EXCEPT !.phaseElapsed = @ + 1] /\ 1 <= r
    BY <1>3, <2>1, LaterType
  <2>3. PhaseRemaining(u) = r - 1 /\ AdvanceSample(u) = AdvanceSample(t)
    BY <2>2, ElapsedOnly
  <2>4. [u EXCEPT !.phaseElapsed = @ + n]
            = [t EXCEPT !.phaseElapsed = @ + (n + 1)]
    <3>1. t.phaseElapsed \in Nat
      BY DEF GaitSample
    <3>2. (t.phaseElapsed + 1) + n = t.phaseElapsed + (n + 1)
      BY <3>1
    <3>3. u.phaseElapsed = t.phaseElapsed + 1
      BY <2>2 DEF GaitSample
    <3>4. QED
      BY <2>2, <3>2, <3>3 DEF GaitSample
  <2> HIDE DEF u, r
  <2>5. CASE n + 1 <= r
    <3>1. n <= PhaseRemaining(u)
      BY <2>1, <2>3, <2>5
    <3>2. Previewed(u, n) = [u EXCEPT !.phaseElapsed = @ + n]
      BY <1>1, <2>2, <3>1
    <3>3. Previewed(t, n + 1) = [t EXCEPT !.phaseElapsed = @ + (n + 1)]
      <4>1. n + 1 \in Nat /\ n + 1 <= PhaseRemaining(t)
        BY <2>5 DEF r
      <4> HIDE DEF Previewed
      <4>2. QED
        BY <1>1, <4>1
    <3>4. QED
      BY <2>4, <3>2, <3>3 DEF u
  <2>6. CASE ~(n + 1 <= r)
    <3>1. ~(n <= PhaseRemaining(u)) /\ n - PhaseRemaining(u) = (n + 1) - r
      BY <2>1, <2>3, <2>6
    <3>2. Previewed(u, n) = Previewed(AdvanceSample(u), n - PhaseRemaining(u))
      BY <1>1, <2>2, <3>1
    <3>3. Previewed(t, n + 1) = Previewed(AdvanceSample(t), (n + 1) - r)
      BY <1>1, <2>6 DEF r
    <3>4. QED
      BY <2>3, <3>1, <3>2, <3>3 DEF u
  <2>7. QED
    BY <2>5, <2>6
<1>4. ASSUME NEW n \in Nat PROVE Previewed(s, n + 1) = Previewed(Later(s), n)
  <2>1. CASE PhaseRemaining(s) = 0
    <3>1. ~(n + 1 <= PhaseRemaining(s)) /\ (n + 1) - PhaseRemaining(s) = n + 1
      BY <2>1
    <3>2. Previewed(s, n + 1) = Previewed(AdvanceSample(s), n + 1)
      BY <1>1, <3>1
    <3>3. /\ AdvanceSample(s) \in GaitSample
          /\ PhaseRemaining(AdvanceSample(s)) # 0
          /\ Later(AdvanceSample(s)) = Later(s)
      BY <2>1, AdvanceType, LaterType
    <3>4. QED
      BY <1>3, <3>2, <3>3
  <2>2. CASE PhaseRemaining(s) # 0
    BY <1>3, <2>2
  <2>3. QED
    BY <2>1, <2>2
<1>5. QED
  BY <1>2, <1>4

(* The loop gives the same answer as advancing the sample tick by tick.    *)
LEMMA PreviewIsLater ==
    ASSUME NEW n \in Nat
    PROVE  \A s \in GaitSample :
               /\ Previewed(s, n) \in GaitSample
               /\ Previewed(s, n + 1) = Later(Previewed(s, n))
<1> DEFINE Good == {m \in Nat : \A s \in GaitSample :
                       /\ Previewed(s, m) \in GaitSample
                       /\ Previewed(s, m + 1) = Later(Previewed(s, m))}
<1>1. 0 \in Good
  <2> SUFFICES ASSUME NEW s \in GaitSample
               PROVE  /\ Previewed(s, 0) \in GaitSample
                      /\ Previewed(s, 0 + 1) = Later(Previewed(s, 0))
    OBVIOUS
  <2>1. Previewed(s, 0) = s /\ Previewed(s, 0 + 1) = Previewed(Later(s), 0)
    BY PreviewUnrolled
  <2>2. Previewed(Later(s), 0) = Later(s)
    BY LaterType, PreviewUnrolled
  <2>3. QED
    BY <2>1, <2>2
<1>2. ASSUME NEW m \in Good PROVE m + 1 \in Good
  <2> SUFFICES ASSUME NEW s \in GaitSample
               PROVE  /\ Previewed(s, m + 1) \in GaitSample
                      /\ Previewed(s, (m + 1) + 1) = Later(Previewed(s, m + 1))
    OBVIOUS
  <2>1. m \in Nat /\ m + 1 \in Nat /\ Later(s) \in GaitSample
    BY LaterType
  <2>2. /\ Previewed(s, m + 1) = Previewed(Later(s), m)
        /\ Previewed(s, (m + 1) + 1) = Previewed(Later(s), m + 1)
    BY <2>1, PreviewUnrolled
  <2>3. /\ Previewed(Later(s), m) \in GaitSample
        /\ Previewed(Later(s), m + 1) = Later(Previewed(Later(s), m))
    BY <2>1
  <2>4. QED
    BY <2>2, <2>3
<1>3. Good \in SUBSET Nat
  OBVIOUS
<1> HIDE DEF Good
<1>4. Good = Nat
  BY <1>1, <1>2, <1>3, EveryTick
<1>5. QED
  BY <1>4 DEF Good

(* The gait some ticks ahead is the iteration of the scheduler's tick.     *)
LEMMA ForeseenTicks ==
    ASSUME Sound(gait)
    PROVE  /\ Foreseen[0] = gait
           /\ \A n \in Nat :
                  /\ Sound(Foreseen[n])
                  /\ Foreseen[n + 1] = Transitions(Tick(Foreseen[n]), TRUE)
<1> DEFINE SoundGait == {g \in Gait : Sound(g)}
           After(g) == Transitions(Tick(g), TRUE)
           step == [g \in SoundGait |-> After(g)]
<1>1. gait \in SoundGait
  BY DEF Sound
<1>2. step \in [SoundGait -> SoundGait]
  <2>1. ASSUME NEW g, Sound(g) PROVE Sound(After(g))
    <3>1. Sound(Tick(g))
      BY <2>1, TickSound
    <3>2. QED
      BY <3>1, TransitionsSound
  <2>2. ASSUME NEW g \in SoundGait PROVE After(g) \in SoundGait
    <3>1. Sound(After(g))
      BY <2>1
    <3>2. QED
      BY <3>1 DEF Sound
  <2> HIDE DEF SoundGait, After
  <2>3. QED
    BY <2>2
<1>3. PICK f \in [Nat -> SoundGait] :
          f[0] = gait /\ \A n \in Nat : f[n + 1] = step[f[n]]
  <2> HIDE DEF SoundGait, step
  <2>1. QED
    BY <1>1, <1>2, Iteration
<1>4. \A n \in Nat : f[n + 1] = After(f[n]) /\ f[n] \in SoundGait
  <2> HIDE DEF SoundGait, After
  <2>1. QED
    BY <1>3
<1> HIDE DEF After, step
<1>5. f = [n \in Nat |-> IF n = 0 THEN gait ELSE After(f[n - 1])]
  <2>1. \A n \in Nat : f[n] = IF n = 0 THEN gait ELSE After(f[n - 1])
    <3> SUFFICES ASSUME NEW n \in Nat, n # 0 PROVE f[n] = After(f[n - 1])
      BY <1>3
    <3>1. n - 1 \in Nat /\ (n - 1) + 1 = n
      OBVIOUS
    <3>2. QED
      BY <1>4, <3>1
  <2>2. QED
    BY <2>1
<1>6. Foreseen = [n \in Nat |-> IF n = 0 THEN gait ELSE After(Foreseen[n - 1])]
  BY <1>5, Zenon DEF Foreseen, After
<1>7. Foreseen[0] = gait
  BY <1>6
<1>8. \A n \in Nat : Foreseen[n + 1] = After(Foreseen[n])
  <2> SUFFICES ASSUME NEW n \in Nat PROVE Foreseen[n + 1] = After(Foreseen[n])
    OBVIOUS
  <2>1. n + 1 \in Nat /\ n + 1 # 0 /\ (n + 1) - 1 = n
    OBVIOUS
  <2>2. QED
    BY <1>6, <2>1
<1>9. \A n \in Nat : Sound(Foreseen[n])
  <2> DEFINE Good == {n \in Nat : Foreseen[n] = f[n]}
  <2>1. 0 \in Good
    BY <1>3, <1>7
  <2>2. ASSUME NEW n \in Good PROVE n + 1 \in Good
    BY <1>4, <1>8
  <2>3. Good \in SUBSET Nat
    OBVIOUS
  <2> HIDE DEF Good
  <2>4. Good = Nat
    BY <2>1, <2>2, <2>3, EveryTick
  <2>5. QED
    BY <1>4, <2>4 DEF Good
<1>10. QED
  BY <1>7, <1>8, <1>9 DEF After

-----------------------------------------------------------------------------
PhaseLimit(s) == IF s.doubleSupport THEN DoubleSupport ELSE SingleSupport

(* The sample shows the phase the gait is in, with its time: exact, one    *)
(* tick ahead (after an overdue swing), or held at the end of a swing that *)
(* is overdue.                                                             *)
InStep(s, g) ==
    /\ SameSupport(s, g)
    /\ \/ s.phaseElapsed = g.phaseTime /\ g.phaseTime < PhaseLimit(s)
       \/ s.phaseElapsed = g.phaseTime + 1 /\ g.phaseTime < PhaseLimit(s)
       \/ /\ ~s.doubleSupport /\ s.phaseElapsed = SingleSupport
          /\ g.phaseTime >= SingleSupport

(* The sample is at the end of the phase the gait has just left.           *)
Behind(s, g) ==
    /\ SameSupport(AdvanceSample(s), g)
    /\ s.phaseElapsed = PhaseLimit(s) /\ g.phaseTime = 0

(* A phase is over when its time has reached the limit.                    *)
LEMMA PhaseFacts ==
    ASSUME NEW s \in GaitSample
    PROVE  /\ PhaseLimit(s) \in Nat /\ s.phaseElapsed \in Nat
           /\ s.phaseElapsed < PhaseLimit(s) <=> PhaseRemaining(s) # 0
           /\ s.phaseElapsed >= PhaseLimit(s) => PhaseRemaining(s) = 0
<1>1. s.doubleSupport \in BOOLEAN /\ s.phaseElapsed \in Nat
  BY DEF GaitSample
<1>2. QED
  BY <1>1, GaitAssumption DEF PhaseLimit, PhaseRemaining, Greater

(* One tick of the scheduler with a foot that is ready: time passes within *)
(* the phase, and at its end the phase that follows is the one the preview *)
(* advances to, provided a step remains.                                   *)
LEMMA ReadyTick ==
    ASSUME NEW g, Sound(g), NEW s \in GaitSample, SameSupport(s, g),
           Transitions(Tick(g), TRUE).stepNumCur < StepNumDes
    PROVE  LET h == Transitions(Tick(g), TRUE)
           IN  /\ g.phaseTime + 1 < PhaseLimit(s) =>
                      SameSupport(s, h) /\ h.phaseTime = g.phaseTime + 1
               /\ g.phaseTime + 1 >= PhaseLimit(s) =>
                      SameSupport(AdvanceSample(s), h) /\ h.phaseTime = 0
<1> DEFINE t == Tick(g)
           l == LandIfDue(t, TRUE)
           h == LiftIfDue(l)
<1>1. /\ g.supportPhase \in {"Double", "Single"} /\ g.phaseTime \in Nat
      /\ g.stanceLeg \in Stance /\ g.stepNumCur \in Nat
  BY DEF Sound, Gait
<1>2. Sound(t) /\ Keep(g, t) /\ t.phaseTime = g.phaseTime + 1
  BY TickSound DEF Keep
<1>3. Sound(l) /\ (l = t \/ (Land(t, l) /\ l.phaseTime = 0))
  BY <1>2, LandMoves, LandClock
<1>4. /\ t.supportPhase = "Double" => l = t
      /\ t.supportPhase = "Single" /\ t.phaseTime < SingleSupport => l = t
      /\ t.supportPhase = "Single" /\ t.phaseTime >= SingleSupport =>
             l.supportPhase = "Double"
  <2>1. t.phaseTime \in Nat /\ t \in Gait
    BY <1>2 DEF Sound, Gait
  <2>2. EnterDoubleSupport(t).supportPhase = "Double"
    BY <2>1 DEF EnterDoubleSupport, Gait
  <2>3. QED
    BY <2>1, <2>2, GaitAssumption DEF LandIfDue, SwingFootReadyForSwitch
<1>5. h.stepNumCur < StepNumDes
  BY DEF Transitions
<1>6. \/ h = l /\ ~(l.supportPhase = "Double" /\ l.phaseTime >= DoubleSupport)
      \/ /\ Lift(l, h) /\ h.phaseTime = 0
         /\ l.supportPhase = "Double" /\ l.phaseTime >= DoubleSupport
  <2>1. CASE ~(l.supportPhase = "Double" /\ l.phaseTime >= DoubleSupport)
    BY <2>1 DEF LiftIfDue
  <2>2. CASE l.supportPhase = "Double" /\ l.phaseTime >= DoubleSupport
    <3>1. l.stepNumCur \in Nat /\ l.phaseTime \in Nat
      BY <1>3 DEF Sound, Gait
    <3>2. \/ h = l /\ Punctual(l)
          \/ Keep(l, h) /\ l.stepNumCur >= StepNumDes
          \/ Lift(l, h) /\ h.phaseTime = 0
      <4> HIDE DEF l
      <4>1. QED
        BY <1>3, LiftClock
    <3>3. l.stepNumCur = h.stepNumCur
      BY <3>2 DEF Keep, Lift
    <3>4. l.stepNumCur < StepNumDes
      BY <1>5, <3>3
    <3> HIDE DEF h, l
    <3>5. ~(Keep(l, h) /\ l.stepNumCur >= StepNumDes)
      BY <3>1, <3>4, GaitAssumption
    <3>6. ~(h = l /\ Punctual(l))
      BY <2>2, <3>1, <3>4, GaitAssumption DEF Punctual
    <3>7. QED
      BY <2>2, <3>2, <3>5, <3>6
  <2>3. QED
    BY <2>1, <2>2
<1>7. h = Transitions(Tick(g), TRUE)
  BY DEF Transitions
<1> HIDE DEF t, l, h
<1>8. /\ t.supportPhase = g.supportPhase /\ t.stanceLeg = g.stanceLeg
      /\ t.phaseTime = g.phaseTime + 1
  BY <1>2 DEF Keep
<1>9. /\ s.doubleSupport = (g.supportPhase = "Double")
      /\ s.stanceLeg = g.stanceLeg
  BY DEF SameSupport
<1>10. CASE g.supportPhase = "Double"
  <2>1. l = t /\ s.doubleSupport = TRUE /\ PhaseLimit(s) = DoubleSupport
    BY <1>4, <1>8, <1>9, <1>10 DEF PhaseLimit
  <2>2. CASE g.phaseTime + 1 < DoubleSupport
    <3>1. h = t
      BY <1>1, <1>6, <1>8, <2>1, <2>2, GaitAssumption
    <3>2. SameSupport(s, h) /\ h.phaseTime = g.phaseTime + 1
      BY <1>8, <1>9, <3>1 DEF SameSupport
    <3>3. ~(g.phaseTime + 1 >= PhaseLimit(s))
      BY <1>1, <2>1, <2>2, GaitAssumption
    <3>4. QED
      BY <1>7, <3>2, <3>3
  <2>3. CASE ~(g.phaseTime + 1 < DoubleSupport)
    <3>1. Lift(t, h) /\ h.phaseTime = 0
      BY <1>1, <1>6, <1>8, <1>10, <2>1, <2>3, GaitAssumption
    <3>2. /\ h.supportPhase = "Single"
          /\ h.stanceLeg = OppositeStance(g.stanceLeg)
      BY <1>8, <3>1 DEF Lift
    <3>3. /\ AdvanceSample(s).doubleSupport = FALSE
          /\ AdvanceSample(s).stanceLeg = OppositeStance(g.stanceLeg)
      BY <1>9, <2>1 DEF AdvanceSample
    <3>4. SameSupport(AdvanceSample(s), h)
      BY <3>2, <3>3 DEF SameSupport
    <3>5. QED
      BY <1>7, <2>1, <2>3, <3>1, <3>4
  <2>4. QED
    BY <2>2, <2>3
<1>11. CASE g.supportPhase = "Single"
  <2>1. s.doubleSupport = FALSE /\ PhaseLimit(s) = SingleSupport
    BY <1>9, <1>11 DEF PhaseLimit
  <2>2. CASE g.phaseTime + 1 < SingleSupport
    <3>1. h = t
      BY <1>1, <1>4, <1>6, <1>8, <1>11, <2>2, GaitAssumption
    <3>2. SameSupport(s, h) /\ h.phaseTime = g.phaseTime + 1
      BY <1>8, <1>9, <3>1 DEF SameSupport
    <3>3. ~(g.phaseTime + 1 >= PhaseLimit(s))
      BY <1>1, <2>1, <2>2, GaitAssumption
    <3>4. QED
      BY <1>7, <3>2, <3>3
  <2>3. CASE ~(g.phaseTime + 1 < SingleSupport)
    <3>1. l.supportPhase = "Double"
      BY <1>1, <1>4, <1>8, <1>11, <2>3, GaitAssumption
    <3>2. Land(t, l) /\ l.phaseTime = 0 /\ l.stanceLeg = g.stanceLeg
      BY <1>3, <1>8, <1>11, <3>1 DEF Land
    <3>3. CASE DoubleSupport = 0
      <4>1. Lift(l, h) /\ h.phaseTime = 0
        BY <1>6, <3>1, <3>2, <3>3
      <4>2. /\ h.supportPhase = "Single"
            /\ h.stanceLeg = OppositeStance(g.stanceLeg)
        BY <3>2, <4>1 DEF Lift
      <4>3. /\ AdvanceSample(s).doubleSupport = FALSE
            /\ AdvanceSample(s).stanceLeg = OppositeStance(g.stanceLeg)
        BY <1>9, <3>3 DEF AdvanceSample
      <4>4. SameSupport(AdvanceSample(s), h)
        BY <4>2, <4>3 DEF SameSupport
      <4>5. QED
        BY <1>7, <2>1, <2>3, <4>1, <4>4
    <3>4. CASE DoubleSupport # 0
      <4>1. h = l
        BY <1>6, <3>2, <3>4, GaitAssumption
      <4>2. /\ AdvanceSample(s).doubleSupport = TRUE
            /\ AdvanceSample(s).stanceLeg = g.stanceLeg
        BY <1>9, <2>1, <3>4 DEF AdvanceSample, GaitSample
      <4>3. SameSupport(AdvanceSample(s), h)
        BY <3>1, <3>2, <4>1, <4>2 DEF SameSupport
      <4>4. QED
        BY <1>7, <2>1, <2>3, <3>2, <4>1, <4>3
    <3>5. QED
      BY <3>3, <3>4
  <2>4. QED
    BY <2>2, <2>3
<1>12. QED
  BY <1>1, <1>10, <1>11

(* A sample in step with the gait is, one tick later, in step or at the    *)
(* end of the phase the gait has just left.                                *)
LEMMA StaysInStep ==
    ASSUME NEW g, Sound(g), NEW s \in GaitSample, InStep(s, g),
           Transitions(Tick(g), TRUE).stepNumCur < StepNumDes
    PROVE  LET h == Transitions(Tick(g), TRUE)
           IN  \/ InStep(Later(s), h)
               \/ Behind(Later(s), h) /\ SameSupport(Later(s), g)
<1> DEFINE h == Transitions(Tick(g), TRUE)
           e == s.phaseElapsed
           p == g.phaseTime
           d == PhaseLimit(s)
           u == Later(s)
<1>1. SameSupport(s, g) /\ p \in Nat
  BY DEF InStep, Sound, Gait
<1>2. /\ p + 1 < d => SameSupport(s, h) /\ h.phaseTime = p + 1
      /\ p + 1 >= d => SameSupport(AdvanceSample(s), h) /\ h.phaseTime = 0
  BY <1>1, ReadyTick
<1>3. /\ d \in Nat /\ e \in Nat
      /\ e < d <=> PhaseRemaining(s) # 0
  BY PhaseFacts
<1>4. ASSUME e < d
      PROVE  /\ u.phaseElapsed = e + 1 /\ PhaseLimit(u) = d
             /\ AdvanceSample(u) = AdvanceSample(s)
             /\ \A k : SameSupport(u, k) <=> SameSupport(s, k)
  <2>1. u = [s EXCEPT !.phaseElapsed = @ + 1] /\ PhaseRemaining(s) # 0
    BY <1>3, <1>4, LaterType
  <2>2. PhaseRemaining(s) >= 1
    BY <2>1, AdvanceType
  <2>3. AdvanceSample(u) = AdvanceSample(s)
    BY <2>1, <2>2, ElapsedOnly
  <2>4. /\ u.phaseElapsed = e + 1 /\ u.doubleSupport = s.doubleSupport
        /\ u.stanceLeg = s.stanceLeg
    BY <2>1 DEF GaitSample
  <2>5. QED
    BY <2>3, <2>4 DEF PhaseLimit, SameSupport
<1>5. ASSUME ~(e < d)
      PROVE  /\ u.phaseElapsed = 1 /\ 0 < PhaseLimit(u)
             /\ \A k : SameSupport(u, k) <=> SameSupport(AdvanceSample(s), k)
  <2> DEFINE a == AdvanceSample(s)
  <2>1. PhaseRemaining(s) = 0
    BY <1>3, <1>5
  <2>2. /\ a \in GaitSample /\ a.phaseElapsed = 0
        /\ PhaseRemaining(a) # 0
    BY AdvanceType
  <2>3. u = [a EXCEPT !.phaseElapsed = @ + 1]
    BY <2>1, <2>2, LaterType
  <2>4. /\ u.phaseElapsed = 0 + 1 /\ u.doubleSupport = a.doubleSupport
        /\ u.stanceLeg = a.stanceLeg
    BY <2>2, <2>3 DEF GaitSample
  <2>5. 0 < PhaseLimit(a)
    BY <2>2, PhaseFacts
  <2> HIDE DEF a
  <2>6. QED
    BY <2>4, <2>5 DEF PhaseLimit, SameSupport, a
<1>6. \/ e = p /\ p < d
      \/ e = p + 1 /\ p < d
      \/ ~(e < d) /\ p >= d
  BY <1>3, GaitAssumption DEF InStep, PhaseLimit
<1> HIDE DEF h, e, p, d, u
<1>7. CASE e = p /\ p + 1 < d
  <2>1. SameSupport(u, h) /\ u.phaseElapsed = h.phaseTime
    BY <1>1, <1>2, <1>3, <1>4, <1>7
  <2>2. h.phaseTime < PhaseLimit(u)
    BY <1>1, <1>2, <1>3, <1>4, <1>7
  <2>3. QED
    BY <2>1, <2>2 DEF InStep, h, u
<1>8. CASE e = p /\ p < d /\ ~(p + 1 < d)
  <2>1. p + 1 = d /\ e < d
    BY <1>1, <1>3, <1>8
  <2>2. /\ SameSupport(AdvanceSample(u), h) /\ SameSupport(u, g)
        /\ u.phaseElapsed = PhaseLimit(u) /\ h.phaseTime = 0
    BY <1>1, <1>2, <1>4, <1>8, <2>1
  <2>3. QED
    BY <2>2 DEF Behind, h, u
<1>9. CASE e = p + 1 /\ p + 1 < d
  <2>1. SameSupport(u, h) /\ u.phaseElapsed = h.phaseTime + 1
    BY <1>1, <1>2, <1>4, <1>9
  <2>2. h.phaseTime < PhaseLimit(u)
    BY <1>2, <1>4, <1>9
  <2>3. QED
    BY <2>1, <2>2 DEF InStep, h, u
<1>10. CASE ~(e < d) /\ ~(p + 1 < d)
  <2>1. p + 1 >= d
    BY <1>1, <1>3, <1>10
  <2>2. /\ SameSupport(u, h) /\ h.phaseTime = 0
        /\ u.phaseElapsed = h.phaseTime + 1 /\ h.phaseTime < PhaseLimit(u)
    BY <1>2, <1>5, <1>10, <2>1
  <2>3. QED
    BY <2>2 DEF InStep, h, u
<1>11. \/ e = p /\ p + 1 < d
       \/ e = p /\ p < d /\ ~(p + 1 < d)
       \/ e = p + 1 /\ p + 1 < d
       \/ ~(e < d) /\ ~(p + 1 < d)
  BY <1>1, <1>3, <1>6
<1>12. QED
  BY <1>7, <1>8, <1>9, <1>10, <1>11 DEF h, u

(* A sample behind the gait is caught up: it goes on from the beginning of *)
(* the phase the gait has entered.                                         *)
LEMMA CatchesUp ==
    ASSUME NEW s \in GaitSample, NEW g, Behind(s, g)
    PROVE  /\ AdvanceSample(s) \in GaitSample
           /\ InStep(AdvanceSample(s), g)
           /\ Later(AdvanceSample(s)) = Later(s)
<1> DEFINE a == AdvanceSample(s)
<1>1. a \in GaitSample /\ a.phaseElapsed = 0 /\ PhaseRemaining(a) # 0
  BY AdvanceType
<1>2. 0 < PhaseLimit(a)
  BY <1>1, PhaseFacts
<1>3. PhaseRemaining(s) = 0
  <2>1. s.phaseElapsed = PhaseLimit(s) /\ PhaseLimit(s) \in Nat
    BY PhaseFacts DEF Behind
  <2>2. s.phaseElapsed >= PhaseLimit(s)
    BY <2>1
  <2>3. QED
    BY <2>2, PhaseFacts
<1>4. Later(a) = Later(s)
  BY <1>3, LaterType
<1>5. InStep(a, g)
  BY <1>1, <1>2 DEF Behind, InStep
<1>6. QED
  BY <1>1, <1>4, <1>5

-----------------------------------------------------------------------------
(* What the bus tells the preview during a walk: while steps remain no     *)
(* double support is overdue, and phi is the time of the swing.            *)
WalkClock ==
    motionState = "Walk" =>
        /\ Punctual(gait)
        /\ gait.supportPhase = "Single" =>
               phi = Lesser(gait.phaseTime, SingleSupport)

(* Only a Walk tick leaves the scheduler in Walk, and it sets both.        *)
LEMMA WalkClockKept ==
    ASSUME IInv, WalkClock, [Next]_vars
    PROVE  WalkClock'
<1>1. CASE WalkTick
  <2>1. PICK sensed \in BOOLEAN, loaded \in BOOLEAN : StepWalk(sensed, loaded)
    BY <1>1 DEF WalkTick
  <2> DEFINE l == LandIfDue(Tick(WalkFrom), sensed)
             k == LiftIfDue(l)
  <2>2. Sound(l) /\ Sound(k) /\ Punctual(k)
    <3>1. Sound(l)
      BY WalkFromSound, TickSound, LandMoves
    <3>2. QED
      BY <3>1, LiftMoves, LiftClock
  <2>3. /\ Publish("Walk", k, TRUE, loaded)
        /\ phi' = IF k.supportPhase = "Single"
                  THEN Lesser(k.phaseTime, SingleSupport) ELSE 0
    BY <2>1 DEF StepWalk, Transitions, SwingProgress
  <2>4. "Walk" \in MotionState /\ touchDown = FALSE
    BY DEF MotionState, IInv, NoForceTouchDown
  <2> HIDE DEF k
  <2>5. /\ gait'.supportPhase = k.supportPhase /\ gait'.phaseTime = k.phaseTime
        /\ gait'.stepNumCur = k.stepNumCur
    BY <2>2, <2>3, <2>4, PublishSound
  <2>6. QED
    BY <2>2, <2>3, <2>5 DEF WalkClock, Punctual
<1>2. CASE Start \/ UNCHANGED vars
  BY <1>2 DEF Start, vars, WalkClock, Punctual
<1>3. CASE Stop
  BY <1>3 DEF Stop, WalkClock
<1>4. CASE \E loaded \in BOOLEAN : StepStand(loaded)
  BY <1>4 DEF StepStand, Publish, WalkClock
<1>5. CASE \E sensed, loaded \in BOOLEAN : StepWalk2Stand(sensed, loaded)
  <2>1. motionState' \in {"Stand", "Walk2Stand"}
    BY <1>5 DEF StepWalk2Stand, Publish
  <2>2. QED
    BY <2>1 DEF WalkClock
<1>6. QED
  BY <1>1, <1>2, <1>3, <1>4, <1>5 DEF Next

(* The bus tells the preview the time of the phase in every state.         *)
LEMMA WalkClockHolds == Spec => []WalkClock
<1>1. Init => WalkClock
  BY DEF Init, WalkClock
<1>2. IInv /\ WalkClock /\ [Next]_vars => WalkClock'
  BY WalkClockKept
<1>3. QED
  BY <1>1, <1>2, InductiveInvariance, PTL DEF Spec

(* The sample the preview starts from is in step with the gait.            *)
LEMMA StartsInStep ==
    ASSUME IInv, WalkClock, Previewing
    PROVE  /\ BusSample \in GaitSample
           /\ gait.stepNumCur < StepNumDes => InStep(BusSample, gait)
<1> DEFINE b == BusSample
           p == gait.phaseTime
<1>1. /\ gait.supportPhase \in {"Double", "Single"} /\ p \in Nat
      /\ gait.stanceLeg \in Stance /\ phi \in Nat
  BY GaitAssumption DEF IInv, Sound, Gait, TypeOK
<1>2. /\ b.doubleSupport = (gait.supportPhase = "Double")
      /\ b.stanceLeg = gait.stanceLeg
      /\ b.phaseElapsed = IF gait.supportPhase = "Double"
                          THEN Lesser(p, DoubleSupport) ELSE phi
  BY DEF BusSample
<1>3. b \in GaitSample
  <2>1. Lesser(p, DoubleSupport) \in Nat
    BY <1>1, GaitAssumption DEF Lesser
  <2>2. QED
    BY <1>1, <2>1 DEF BusSample, GaitSample
<1>4. ASSUME gait.stepNumCur < StepNumDes PROVE InStep(b, gait)
  <2>1. SameSupport(b, gait)
    BY <1>2 DEF SameSupport
  <2>2. CASE gait.supportPhase = "Double"
    <3>1. p < DoubleSupport
      BY <1>4, <2>2 DEF WalkClock, Previewing, Punctual
    <3>2. b.phaseElapsed = p /\ PhaseLimit(b) = DoubleSupport
      <4>1. Lesser(p, DoubleSupport) = p
        BY <1>1, <3>1, GaitAssumption DEF Lesser
      <4>2. QED
        BY <1>2, <2>2, <4>1 DEF PhaseLimit
    <3>3. QED
      BY <2>1, <3>1, <3>2 DEF InStep
  <2>3. CASE gait.supportPhase = "Single"
    <3>1. /\ ~b.doubleSupport /\ PhaseLimit(b) = SingleSupport
          /\ b.phaseElapsed = Lesser(p, SingleSupport)
      BY <1>2, <2>3 DEF WalkClock, Previewing, PhaseLimit
    <3>2. \/ b.phaseElapsed = p /\ p < SingleSupport
          \/ b.phaseElapsed = SingleSupport /\ p >= SingleSupport
      BY <1>1, <3>1, GaitAssumption DEF Lesser
    <3> HIDE DEF b
    <3>3. QED
      BY <2>1, <3>1, <3>2 DEF InStep
  <2>4. QED
    BY <1>1, <2>2, <2>3
<1>5. QED
  BY <1>3, <1>4

(* How close the preview stays to the scheduler n ticks ahead.             *)
Close(n) ==
    \/ InStep(PreviewGaitSample(n), Foreseen[n])
    \/ /\ n > 0
       /\ Behind(PreviewGaitSample(n), Foreseen[n])
       /\ SameSupport(PreviewGaitSample(n), Foreseen[n - 1])

(* However far the preview looks, it is in step or one tick behind for as  *)
(* long as the scheduler has steps to take.                                *)
LEMMA PreviewFollows ==
    ASSUME IInv, WalkClock, Previewing, NEW n \in Nat
    PROVE  /\ PreviewGaitSample(n) \in GaitSample
           /\ Foreseen[n].stepNumCur < StepNumDes => Close(n)
<1> DEFINE p(m) == PreviewGaitSample(m)
           f(m) == Foreseen[m]
           Good == {m \in Nat : f(m).stepNumCur < StepNumDes => Close(m)}
<1>1. BusSample \in GaitSample
  BY StartsInStep
<1>2. \A m \in Nat : p(m) \in GaitSample /\ p(m + 1) = Later(p(m))
  BY <1>1, PreviewIsLater DEF PreviewGaitSample, Previewed
<1>3. Sound(gait)
  BY DEF IInv
<1>4. /\ f(0) = gait
      /\ \A m \in Nat : Sound(f(m)) /\ f(m + 1) = Transitions(Tick(f(m)), TRUE)
  BY <1>3, ForeseenTicks
<1>5. 0 \in Good
  <2>1. p(0) = BusSample
    BY <1>1, PreviewUnrolled DEF PreviewGaitSample, Previewed
  <2>2. QED
    BY <1>4, <2>1, StartsInStep DEF Close
<1>6. ASSUME NEW m \in Good PROVE m + 1 \in Good
  <2> SUFFICES ASSUME f(m + 1).stepNumCur < StepNumDes PROVE Close(m + 1)
    OBVIOUS
  <2> DEFINE g == f(m)
             h == f(m + 1)
             s == p(m)
             a == AdvanceSample(s)
  <2>1. /\ m \in Nat /\ Sound(g) /\ h = Transitions(Tick(g), TRUE)
        /\ s \in GaitSample /\ p(m + 1) = Later(s)
    BY <1>2, <1>4
  <2>2. g.stepNumCur < StepNumDes
    <3>1. Sound(Tick(g)) /\ Tick(g).stepNumCur = g.stepNumCur
      BY <2>1, TickSound
    <3>2. Sound(h) /\ Move(Tick(g), h)
      BY <2>1, <3>1, TransitionsMove, TransitionsSound
    <3>3. h.stepNumCur = g.stepNumCur \/ h.stepNumCur = g.stepNumCur + 1
      BY <3>1, <3>2 DEF Move, Keep, Lift, Land, Swap
    <3>4. g.stepNumCur \in Nat /\ h.stepNumCur \in Nat
      BY <2>1, <3>2 DEF Sound, Gait
    <3> HIDE DEF g, h
    <3>5. QED
      BY <3>3, <3>4, GaitAssumption DEF h
  <2>3. Close(m)
    BY <2>2
  <2>4. \/ InStep(Later(s), h)
        \/ Behind(Later(s), h) /\ SameSupport(Later(s), g)
    <3>1. CASE InStep(s, g)
      BY <2>1, <3>1, StaysInStep
    <3>2. CASE Behind(s, g)
      <4>1. a \in GaitSample /\ InStep(a, g) /\ Later(a) = Later(s)
        BY <2>1, <3>2, CatchesUp
      <4> HIDE DEF a, s, g, h, p, f
      <4>2. \/ InStep(Later(a), h)
            \/ Behind(Later(a), h) /\ SameSupport(Later(a), g)
        BY <2>1, <4>1, StaysInStep DEF h
      <4>3. QED
        BY <4>1, <4>2
    <3>3. QED
      BY <2>3, <3>1, <3>2 DEF Close
  <2>5. m + 1 > 0 /\ (m + 1) - 1 = m
    BY <2>1
  <2>6. QED
    BY <2>1, <2>4, <2>5 DEF Close
<1>7. Good \in SUBSET Nat
  OBVIOUS
<1> HIDE DEF Good
<1>8. Good = Nat
  BY <1>5, <1>6, <1>7, EveryTick
<1>9. QED
  BY <1>2, <1>8 DEF Good

(* The contact table of the MPC is never early and at most one control     *)
(* period late, for every duration, lateness and length of the horizon.    *)
THEOREM PreviewWithinOneTickHolds == Spec => []PreviewWithinOneTick
<1>1. IInv /\ WalkClock => PreviewWithinOneTick
  <2> SUFFICES ASSUME IInv, WalkClock, Previewing, NEW n \in 0 .. Horizon,
                      Foreseen[n].stepNumCur < StepNumDes
               PROVE  \/ SameSupport(PreviewGaitSample(n), Foreseen[n])
                      \/ n > 0 /\ SameSupport(PreviewGaitSample(n),
                                              Foreseen[n - 1])
    BY DEF PreviewWithinOneTick
  <2>1. n \in Nat
    BY PreviewAssumption
  <2>2. Close(n)
    BY <2>1, PreviewFollows
  <2>3. QED
    BY <2>2 DEF Close, InStep
<1>2. QED
  BY <1>1, InductiveInvariance, WalkClockHolds, PTL
=============================================================================

SPECIFICATION Spec
CONSTANTS
    SingleSupport = 4
    DoubleSupport = 2
    LateLanding = 2
    StepNumDes = 4
    MaxPhaseTime = 7
    Horizon = 14
INVARIANT TypeOK
INVARIANT PhaseAgreement
INVARIANT StepBudget
INVARIANT NoForceTouchDown
INVARIANT SwingBounded
INVARIANT PreviewWithinOneTick
PROPERTY StepsAreLandings
PROPERTY SwingOnward
PROPERTY WalkCompletes

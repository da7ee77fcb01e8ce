SPECIFICATION Spec
CONSTANTS
    SingleSupport = 2
    DoubleSupport = 0
    LateLanding = 2
    StepNumDes = 3
    MaxPhaseTime = 5
PROPERTY ImplementsStepper

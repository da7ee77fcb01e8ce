SPECIFICATION WalkWbcSpec
CONSTANTS
    SingleSupport = 4
    DoubleSupport = 0
    LateLanding = 3
    StepNumDes = 3
    MaxPhaseTime = 3
    EnableWalking = TRUE
    StartShift = 3
    StartWalking = 10
    StartStepping = 10
    SimEnd = 37
    Frame = 4
    XvDes = 24
    RampTicks = 6
INVARIANTS
    ControllersAgree
    VelocityRamp
    WalkBeginsHere
PROPERTY
    SwingsEndInLandings

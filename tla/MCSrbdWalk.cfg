SPECIFICATION IkSpec
CONSTANTS
    SingleSupport = 5
    DoubleSupport = 0
    LateLanding = 2
    StepNumDes = 1
    MaxPhaseTime = 0
    WalkStart = 4
    Duration = 24
    SolveEvery = 3
    Frame = 5
    SolvesStanding = TRUE
PROPERTY StepsTakenAtExit

SPECIFICATION WbcSpec
CONSTANTS
    SingleSupport = 3
    DoubleSupport = 2
    LateLanding = 2
    StepNumDes = 3
    MaxPhaseTime = 0
    WalkStart = 3
    Duration = 28
    SolveEvery = 2
    Frame = 5
INVARIANT WbcTypeOK
INVARIANT BelievedContacts
INVARIANT ReferenceOfThisSwing
INVARIANT FeedForwardFollowsContacts
PROPERTY CompletionIsFinal
 

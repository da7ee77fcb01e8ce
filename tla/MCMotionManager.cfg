SPECIFICATION Spec
CONSTANTS
    Horizon = 22
    TransitionStance = 0
    Intervals = {2, 3}
    RawCommands <- MCCommands
    BaseVelocities <- MCVelocities
    FilterAges = {32, 3200}
    ChangeMemory = 5
INVARIANT MotionTypeOK
INVARIANT ScheduleSound
INVARIANT PhaseReadsInside
INVARIANT CurvesJoined
PROPERTY PlanKept
PROPERTY SwingKept
PROPERTY GaitSettles
PROPERTY StopsWhenTold

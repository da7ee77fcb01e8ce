SPECIFICATION LoggerSpec
CONSTANTS
    Names = {"simTime", "baseRpy", "legState"}
    MaxLen = 2
    MaxLines = 2
INVARIANT ColumnsBelongToItems
INVARIANT WrittenLineIsFull
CHECK_DEADLOCK FALSE

SPECIFICATION LoggerSpec
CONSTANTS
    Names = {"simTime", "baseRpy", "legState"}
    MaxLen = 2
    MaxLines = 2
PROPERTY WrittenLineIsFresh
CHECK_DEADLOCK FALSE

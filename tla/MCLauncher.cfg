SPECIFICATION Spec
CONSTANTS
    Out <- MCOut
    Commands <- MCCommands
    SizeReplies <- MCSizeReplies
    MaxEdits = 3
INVARIANTS
    TypeOK
    BarHonest
    CleanExit
    StampIsTrue
PROPERTIES
    ProgressOnlyGivenUp
CHECK_DEADLOCK TRUE

SPECIFICATION FairSpec
CONSTANTS
    MaxRestarts = 1
    KeepsContainer = FALSE
INVARIANTS
    AnswerIsTrue
    TimeoutWithinTolerance
PROPERTIES
    AnswerIsOnce
    
    
CHECK_DEADLOCK FALSE

SPECIFICATION FairSpec
INVARIANTS
    FailureIsNoSample
    ExitMatchesAnswer
    TraceIsWhole
PROPERTIES
    RunIsSettled
CHECK_DEADLOCK FALSE

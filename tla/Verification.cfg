SPECIFICATION FairSpec
CONSTANTS
    Caller = {c1, c2}
    Key = {k1}
    Scorer = {s1, s2}
    DefaultScorer = s1
    MaxRestarts = 1
INVARIANTS
    RowsAreTrue
    InitialIsQueued
    RequestsAreIdempotent
PROPERTIES
    ImplementsLedger
    RecordsAreFinal
    RequestsAreScored
CHECK_DEADLOCK FALSE

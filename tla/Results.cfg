SPECIFICATION Spec
CONSTANTS
    Plans <- MCPlans
    Default <- MCDefault
    Scorer = {"s1", "s2"}
    None = None
    Verdict = {"pass", "slow", "fail"}
    Passing = {"pass", "slow"}
    Unit = 12
    MaxRows = 3
INVARIANTS BoundsAreTight MainScoreIsEarned CellsPoolBatches
PROPERTY RisesAreAgreed
CHECK_DEADLOCK FALSE

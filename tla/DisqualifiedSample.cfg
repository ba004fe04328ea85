SPECIFICATION Spec
CONSTANTS
    Caller = {c1}
    Key = {k1}
    Scorer = {s1, s2}
    DefaultScorer = s1
    MaxRestarts = 1
INVARIANT DisqualifiedIsNoSample
CHECK_DEADLOCK FALSE

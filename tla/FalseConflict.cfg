SPECIFICATION Spec
CONSTANTS
    Process = {p1, p2}
    Newest = 1
    MaxKills = 0
    Client = {c1, c2}
    Op <- MCOpTwice
    Target = {g1}
    Provided <- MCProvided
    Candidate = "candidate"
    NoKey = NoKey
    k = k
    c1 = c1
    c2 = c2
    MaxPosts <- MCPosts
INVARIANT ConflictIsReal
CHECK_DEADLOCK FALSE

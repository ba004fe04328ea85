SPECIFICATION FairSpec
CONSTANTS
    Process = {p1, p2}
    Newest = 2
    MaxKills = 1
    Client = {c1, c2}
    Op <- MCOp
    Target = {g1}
    Provided <- MCProvided
    Candidate = "candidate"
    NoKey = NoKey
    k = k
    MaxPosts <- MCPosts
    c1 = c1
    c2 = c2
INVARIANTS
    StartsAreSerial
    PlanIsWhole
    RepliesAreTrue
PROPERTIES
    StartsInTheEnd
CHECK_DEADLOCK FALSE

SPECIFICATION Spec
CONSTANTS
    Admitter = {a1, a2}
    Bundle <- MCBundle
    Foreign = {f}
    None = None
    MaxAdmissions = 3
    MaxKills = 1
INVARIANTS
    StoreIsSound
    CandidateStays
    NoLeftover
CHECK_DEADLOCK FALSE

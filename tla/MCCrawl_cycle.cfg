\* One seller with two listings, two tasks from outside, two handlers; one
\* window passes and one call fails.
SPECIFICATION Spec
CONSTANTS
    Seller = {s1}
    Url = {u1, u2}
    Slots = 2
    Budget = 1
    MaxWindows = 1
    MaxFaults = 1
    MaxSeeds = 2
INVARIANTS
    TypeOK
    MarkedIsFannedOut
    VisitsBounded
PROPERTIES
    WorkRunsOut
    CycleEnds

\* One search of two pages, two listings, two handlers; any two faults.
SPECIFICATION Spec
CONSTANTS
    Url = {u1, u2}
    MaxPage = 2
    Slots = 2
    Budget = 2
    MaxSeeds = 1
    MaxFaults = 2
INVARIANTS
    TypeOK
    AckedIsFannedOut
    ChainsBounded
PROPERTIES
    NextAfterFanOut
    WorkRunsOut
    CrawlSettles

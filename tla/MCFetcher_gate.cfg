\* Three tasks, two URLs, two handlers at a time; a window of two ticks.
SPECIFICATION Spec
CONSTANTS
    Task = {t1, t2, t3}
    Url = {u1, u2}
    Slots = 2
    MinRefetch = 2
    RetryTTL = 1
    Budget = 1
    MaxTime = 2
    MaxCrashes = 1
SYMMETRY Symmetry
INVARIANTS
    TypeOK
    OnePerWindow
    ParseHasPage
    AckedIsRecorded
    PageIsParsed
CHECK_DEADLOCK FALSE

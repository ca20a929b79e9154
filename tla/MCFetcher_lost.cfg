\* One task; the window outlasts the retry TTL, as 30 minutes outlast 60 s.
SPECIFICATION Spec
CONSTANTS
    Task = {t1}
    Url = {u1}
    Slots = 1
    MinRefetch = 4
    RetryTTL = 1
    Budget = 2
    MaxTime = 3
    MaxCrashes = 0
INVARIANT
    StoredIsParsed
CHECK_DEADLOCK FALSE

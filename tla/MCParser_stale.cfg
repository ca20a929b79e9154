\* Two pages of one listing; the first one is retried once.
SPECIFICATION Spec
CONSTANTS
    Url = {u1}
    OlxListing = {l1}
    OlxSeller = {s1}
    Content = {a, b}
    Date = {d1}
    NoDate = NoDate
    NoRow = NoRow
    MaxPages = 2
    Slots = 2
    Budget = 2
    MaxCrashes = 0
INVARIANT
    NewestWins

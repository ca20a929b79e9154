\* Two pages in any combination of two listings and two sellers, or not of OLX;
\* two handlers.
SPECIFICATION Spec
CONSTANTS
    Url = {u1}
    OlxListing = {l1, l2}
    OlxSeller = {s1, s2}
    Content = {a, b}
    Date = {d1, d2}
    NoDate = NoDate
    NoRow = NoRow
    MaxPages = 2
    Slots = 2
    Budget = 1
    MaxCrashes = 1
INVARIANTS
    TypeOK
    Whole
    EnrichHasSeller
    AckedIsStored
PROPERTIES
    RegisteredKept
    UnchangedIsNoSnapshot
    ParseSettles

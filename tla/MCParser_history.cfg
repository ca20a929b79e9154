\* A price that goes up and comes down again; nothing fails.
SPECIFICATION Spec
CONSTANTS
    Url = {u1}
    OlxListing = {l1}
    OlxSeller = {s1}
    Content = {a, b}
    Date = {d1}
    NoDate = NoDate
    NoRow = NoRow
    MaxPages = 3
    Slots = 1
    Budget = 1
    MaxCrashes = 0
PROPERTY
    ChangeIsSnapshot

\* A private and a business seller with a listing each or both, at the edge of
\* 30 days; one fault.
SPECIFICATION Spec
CONSTANTS
    s1 = s1
    s2 = s2
    Seller = {s1, s2}
    Listing = {l1, l2}
    Area = {}
    PostedAge = {30}
    Accounts <- PrivateAndBusiness
    Null = Null
    NoRow = NoRow
    MaxLimit = 1
    MaxCommits = 2
    MaxFaults = 1
INVARIANTS
    TypeOK
    RankingIsCurrent
    OwnersComeFirst
PROPERTIES
    ViewNeverGoesBack
    StatsCatchUp

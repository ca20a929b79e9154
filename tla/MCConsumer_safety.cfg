\* Two workers race for two messages; a budget of two and two faults, so
\* that two goroutines can outlive their channels.
SPECIFICATION Spec
CONSTANTS
    Message = {m1, m2}
    Worker = {w1, w2}
    Prefetch = 2
    MaxRetries = 2
    MaxFaults = 2
    PublisherMayDrop = TRUE
SYMMETRY Symmetry
INVARIANTS
    TypeOK
    NoLoss
    OneOwner
    BudgetHonoured
    AttemptsBounded
    OneOutcome
PROPERTIES
    DeliverySafe
    WorkRunsOut

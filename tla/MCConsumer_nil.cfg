\* Run's doc comment: nil only after cancellation.
SPECIFICATION Spec
CONSTANTS
    Message = {m1}
    Worker = {w1}
    Prefetch = 1
    MaxRetries = 1
    MaxFaults = 1
    PublisherMayDrop = FALSE
PROPERTY
    NilOnlyAfterCancel

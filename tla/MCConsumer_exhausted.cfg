\* A worker whose publisher lost its connection.
SPECIFICATION Spec
CONSTANTS
    Message = {m1}
    Worker = {w1}
    Prefetch = 1
    MaxRetries = 1
    MaxFaults = 1
    PublisherMayDrop = TRUE
PROPERTY
    ExhaustedEndInDead

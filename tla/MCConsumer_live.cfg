\* Two messages compete for the one place of each of two workers; faults stop
\* after the second. Prefetch 0 stands for 1.
SPECIFICATION Spec
CONSTANTS
    Message = {m1, m2}
    Worker = {w1, w2}
    Prefetch = 0
    MaxRetries = 2
    MaxFaults = 2
    PublisherMayDrop = FALSE
INVARIANT
    ConcurrencyCapped
PROPERTY
    DeliveryKept

\* One worker, two providers that share one slot of the semaphore.
CONSTANTS
    Workers = {w1}
    Providers = {p1, p2}
    Criteria = {c1}
    MaxConcurrency = 1
    Deadline = 1
    Attempts = 2
    Backoff = 1
    FailureThreshold = 2
    ResetTimeout = 2
    OfferTTL = 2
    RequestTimeout = 7
SPECIFICATION FairSpec
INVARIANTS
    TypeOK
    FanoutEndsInTime
    OpenCircuitRests
PROPERTIES
    ProbeDecides
    EverySearchEnds

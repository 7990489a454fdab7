\* Two workers share the cache.
CONSTANTS
    Workers = {w1, w2}
    Providers = {p1, p2}
    Criteria = {c1}
    MaxConcurrency = 2
    Deadline = 1
    Attempts = 2
    Backoff = 0
    FailureThreshold = 1
    ResetTimeout = 1
    OfferTTL = 2
    RequestTimeout = 3
SPECIFICATION Spec
SYMMETRY SearchSymmetry
INVARIANTS
    NothingMissing
    RepliesAreFresh

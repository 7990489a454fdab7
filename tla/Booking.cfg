\* Three requests race and retry on one key or none.
CONSTANTS
    Requests = {r1, r2, r3}
    Keys = {k1}
    NoKey = NoKey
    NoOrder = NoOrder
    RequestTimeout = 1
    ReservationTTL = 3
SYMMETRY RequestSymmetry
SPECIFICATION Spec
INVARIANTS
    TypeOK
    IdempotentReplies
    ExclusiveProviderCall
    NoCallAfterPersist
    DoubleChargeNeedsLoss
PROPERTIES
    ImplementsPromise
\* Requests are finitely many: once all have ended and the reservation is gone, the system rests.
CHECK_DEADLOCK FALSE

\* Two bookings without a key.
CONSTANTS
    Requests = {r1, r2}
    Keys = {k1}
    NoKey = NoKey
    NoOrder = NoOrder
    RequestTimeout = 1
    ReservationTTL = 3
SPECIFICATION Spec
INVARIANT
    KeylessNeverCollides
CHECK_DEADLOCK FALSE

\* A retry after the reservation ran out is charged a second time.
CONSTANTS
    Requests = {r1, r2}
    Keys = {k1}
    NoKey = NoKey
    NoOrder = NoOrder
    RequestTimeout = 1
    ReservationTTL = 3
SPECIFICATION RedisUpSpec
INVARIANT
    ChargedOnce
CHECK_DEADLOCK FALSE

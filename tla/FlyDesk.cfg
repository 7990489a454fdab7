\* Two requests on their way from the endpoint to their tickets, without crashes of the pipeline.
CONSTANTS
    Requests = {r1, r2}
    Keys = {k1}
    NoKey = NoKey
    NoOrder = NoOrder
    RequestTimeout = 0
    ReservationTTL = 1
    Absent = Absent
    BatchLimit = 1
    MaxCrashes = 0
SPECIFICATION FairSpec
INVARIANTS
    TypeOK
    OneTicketPerKey
PROPERTIES
    EveryRequestServed
    ReservationExpires
\* Requests are finitely many: once all have ended and every event is through, the system rests.
CHECK_DEADLOCK FALSE

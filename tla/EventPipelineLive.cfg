\* Liveness with crashes, two orders, batches of one.
CONSTANTS
    Orders = {o1, o2}
    Absent = Absent
    BatchLimit = 1
    MaxCrashes = 1

SPECIFICATION FairSpec
PROPERTIES
    EveryBookingRelayed
    EveryBookingServed
\* Orders are finitely many: once every event is through, relay and worker only wait.
CHECK_DEADLOCK FALSE

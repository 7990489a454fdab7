\* The worker crashes between the mark and the work.
CONSTANTS
    Orders = {o1}
    Absent = Absent
    BatchLimit = 1
    MaxCrashes = 1

SPECIFICATION FairSpec
PROPERTY
    TicketedAtLeastOnce
\* Orders are finitely many: once every event is through, relay and worker only wait.
CHECK_DEADLOCK FALSE

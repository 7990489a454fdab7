\* The relay saves a copy older than the ticket.
CONSTANTS
    Orders = {o1}
    Absent = Absent
    BatchLimit = 1
    MaxCrashes = 0

SPECIFICATION Spec
PROPERTY
    TicketedForGood
\* Orders are finitely many: once every event is through, relay and worker only wait.
CHECK_DEADLOCK FALSE

\* A booking and a longer saga.
CONSTANTS
    booking = booking
    other = other
    Runs <- MCRuns
    Bookings <- MCBookings
    N <- MCN
    Compensable <- MCCompensable
SPECIFICATION Spec
INVARIANTS
    TypeOK
    AllOrNothing
    UndoneInReverse
    OnlyWhatRaisedStays
    PaidOnlyForTicket
\* Runs are finitely many, and each ends.
CHECK_DEADLOCK FALSE

\* A search and a booking at a time, with everything that may come between.
CONSTANTS
    None = None
    Journeys <- TheJourneys
    SearchRequests <- TheRequests
    Fares <- TheFares
    Parties <- TheParties
    Raise = 10
    MaxLive = 2
    MaxCached = 1
    MaxOrders = 1
SPECIFICATION Spec
INVARIANTS
    TypeOK
    AnswersTheQuestion
    CheapestOnTop
    StoredIsCharged
    PassengersBound
    AdaptersAgree
PROPERTIES
    CachedAsServed

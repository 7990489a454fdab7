------------------------------- MODULE Offers -------------------------------
(* An offer's way from the provider's payload to a stored order, with its data:  *)
(* a search builds the provider's request, its answer is parsed and mapped,      *)
(* sorted, answered and cached as JSON (search/cache.py, providers/duffel); a    *)
(* booking prices the offer again, binds passengers to its slots, pays, and the  *)
(* order is stored as JSON (DuffelProvider.create_order, bookings/repository.py).*)
(*                                                                               *)
(* One search and one booking at a time: what several of them do to each other   *)
(* is in Search and Booking.  Between any two steps the provider may change or   *)
(* withdraw offers, cached entries run out, and relay and worker rewrite orders. *)
EXTENDS Adapters

CONSTANTS
    SearchRequests,    \* bodies of POST /search that pass the serializer
    Fares,             \* external: what the provider makes its offers of
    Journeys,          \* external: what an airline sells: slices of legs, a party, a price
    Parties,           \* passengers of POST /bookings
    Raise,             \* by how much the provider raises a price
    MaxLive,           \* bound on the offers live at the provider
    MaxCached,         \* bound on the cached entries
    MaxOrders          \* bound on the orders placed

ASSUME BoundsAssumption == {Raise, MaxLive, MaxCached, MaxOrders} \subseteq Nat

\* The serializer makes a date of a date, and of each passenger a type of the enum and an age or null.
ASSUME RequestsAssumption ==
    \A data \in SearchRequests :
        /\ data.departure_date \in Nat /\ data.return_date \in Nat \cup {None}
        /\ data.passengers \in Seq([type : PassengerTypes, age : Nat \cup {None}])
        /\ BuildCriteria(data) # None

\* External: an offer is direct, over a hub or has no segments; its name is its own, and it is not
\* below nothing.
ASSUME FaresAssumption ==
    /\ \A fare \in Fares : fare.price \in Nat /\ fare.stops \in {-1, 0, 1}
    /\ \A f, g \in Fares : f.name = g.name => f = g

ASSUME JourneysAssumption == \A j \in Journeys : IsJourney(j)

ASSUME PartiesAssumption == \A p \in Parties : IsList(p)

VARIABLES
    at,       \* where the search stands in cached_search
    asked,    \* its criteria
    found,    \* the offers it has, as domain models
    cache,    \* Redis: bundles of offers as JSON
    market,   \* external: the provider's live offers, as Duffel would send them
    buying,   \* the booking under way
    placed,   \* external: the orders at the provider
    orders    \* documents of the orders collection

search == <<at, asked, found>>
vars   == <<at, asked, found, cache, market, buying, placed, orders>>

DumpAll(offers) == [i \in DOMAIN offers |-> Dump(offers[i])]
LoadAll(docs)   == [i \in DOMAIN docs |-> Load(docs[i])]

Idle == [at |-> "idle", id |-> None, passengers |-> <<>>, quote |-> None]

Init ==
    /\ at = "idle" /\ asked = None /\ found = <<>>
    /\ cache = [k \in {} |-> <<>>]
    /\ market = {}
    /\ buying = Idle
    /\ placed = <<>> /\ orders = {}

----------------------------------------------------------------------------
(* External: what Duffel answers.                                               *)

\* One slice of an offer: direct, or over the fare's hub.
RawSlice(fare, leg, n) ==
    LET place(code)       == [iata_code |-> Exactly(code), type |-> fare.place]
        segment(from, to, k) ==
            [id |-> <<n, k>>, origin |-> place(from),
             destination |-> [iata_code |-> [code |-> to, spelling |-> fare.spelling], type |-> fare.place],
             departing_at |-> leg.departure_date, marketing_carrier |-> Exactly("BA"),
             operating_carrier |-> None, passengers |-> fare.cabins]
    IN  [origin |-> place(leg.origin), destination |-> place(leg.destination),
         segments |-> CASE fare.stops = -1 -> <<>>
                        [] fare.stops = 0  -> <<segment(leg.origin, leg.destination, 1)>>
                        [] fare.stops = 1  -> <<segment(leg.origin, "AMS", 1), segment("AMS", leg.destination, 2)>>]

\* An offer for a request: its slices, and a slot for each passenger in the request's order.
Quote(fare, request) ==
    [id           |-> <<fare.name, request>>,
     owner        |-> Exactly("BA"),
     total_amount |-> fare.price, total_currency |-> Exactly("EUR"),
     slices       |-> [n \in DOMAIN request.slices |-> RawSlice(fare, request.slices[n], n)],
     passengers   |-> [i \in DOMAIN request.passengers |->
                          [id   |-> i,
                           type |-> IF "type" \in DOMAIN request.passengers[i]
                                    THEN request.passengers[i].type ELSE "child"]]]

Ids(offers) == {o.id : o \in offers}

\* The provider changes a price, once, or withdraws the offer.
Reprice(o) ==
    /\ o \in market /\ \E fare \in Fares : fare.name = o.id[1] /\ fare.price = o.total_amount
    /\ market' = (market \ {o}) \cup {[o EXCEPT !.total_amount = @ + Raise]}
    /\ UNCHANGED <<search, cache, buying, placed, orders>>

Withdraw(o) ==
    /\ o \in market
    /\ market' = market \ {o}
    /\ UNCHANGED <<search, cache, buying, placed, orders>>

----------------------------------------------------------------------------
(* Search.                                                                      *)

\* A request comes in; one the domain refuses is answered 400 and changes nothing.
Search(data) ==
    /\ at = "idle" /\ ValidRequest(data)
    /\ at' = "lookup" /\ asked' = BuildCriteria(data)
    /\ UNCHANGED <<found, cache, market, buying, placed, orders>>

\* Mutant of CacheKey: only the route and the day.
CacheKeyByRoute(c) ==
    [origin |-> c.origin, destination |-> c.destination, departure_date |-> c.departure_date]

\* _cache_key: a hash of the criteria as JSON, all fields of it, after normalization.
CacheKey(c) == c

Hit ==
    /\ at = "lookup" /\ CacheKey(asked) \in DOMAIN cache
    /\ found' = LoadAll(cache[CacheKey(asked)])
    /\ at' = "respond"
    /\ UNCHANGED <<asked, cache, market, buying, placed, orders>>

\* Nothing is cached, or Redis fails.
Miss ==
    /\ at = "lookup"
    /\ at' = "fetch"
    /\ UNCHANGED <<asked, found, cache, market, buying, placed, orders>>

\* The provider's offers, each parsed and mapped; one that is not accepted raises, and the whole
\* answer is lost: the provider counts as degraded, and nobody learns of its offers.
Fetch(fares) ==
    /\ at = "fetch"
    /\ LET raw == [i \in DOMAIN fares |-> Quote(fares[i], Duffel!OfferRequest(asked))] IN
          IF \A i \in DOMAIN raw : Duffel!ParsesOffer(raw[i]) /\ Duffel!AcceptsOffer(raw[i])
          THEN /\ market' = {o \in market : \A i \in DOMAIN raw : raw[i].id # o.id}
                                \cup {raw[i] : i \in DOMAIN raw}
               /\ Cardinality(market') <= MaxLive
               /\ found' = CheapestFirst([i \in DOMAIN raw |-> Duffel!MapOffer(raw[i])])
               /\ at' = "store"
          ELSE found' = <<>> /\ at' = "respond" /\ UNCHANGED market
    /\ UNCHANGED <<asked, cache, buying, placed, orders>>

\* It times out, fails or answers an error.
FetchFails ==
    /\ at = "fetch"
    /\ at' = "respond"
    /\ UNCHANGED <<asked, found, cache, market, buying, placed, orders>>

Store ==
    /\ at = "store"
    /\ cache' = With(cache, CacheKey(asked), DumpAll(found))
    /\ Cardinality(DOMAIN cache') <= MaxCached
    /\ at' = "respond"
    /\ UNCHANGED <<asked, found, market, buying, placed, orders>>

Respond ==
    /\ at = "respond"
    /\ at' = "idle" /\ asked' = None /\ found' = <<>>
    /\ UNCHANGED <<cache, market, buying, placed, orders>>

\* The entry runs out, or Redis drops it.
Expire(key) ==
    /\ key \in DOMAIN cache
    /\ cache' = [k \in DOMAIN cache \ {key} |-> cache[k]]
    /\ UNCHANGED <<search, market, buying, placed, orders>>

----------------------------------------------------------------------------
(* Booking.                                                                     *)

\* Somebody books an offer; by the time it is priced it may be gone.
Book(id, passengers) ==
    /\ buying = Idle /\ Len(placed) < MaxOrders
    /\ buying' = [Idle EXCEPT !.at = "price", !.id = id, !.passengers = passengers]
    /\ UNCHANGED <<search, cache, market, placed, orders>>

\* GET /air/offers/<id>: the offer as it is now, only parsed; it may be gone, or the call fail.
GetOffer ==
    /\ buying.at = "price"
    /\ \/ \E o \in market :
             /\ o.id = buying.id /\ Duffel!ParsesOffer(o)
             /\ buying' = [buying EXCEPT !.at = "pay", !.quote = o]
       \/ buying' = Idle
    /\ UNCHANGED <<search, cache, market, placed, orders>>

\* Mutant of DuffelPassengers: every slot gets the first passenger.
DuffelPassengersFirst(slots, passengers) ==
    [i \in {n \in DOMAIN slots : n \in DOMAIN passengers} |->
        [id |-> slots[i].id, person |-> passengers[1]]]

\* zip(offer.passengers, passengers, strict=False): as far as both go.
DuffelPassengers(slots, passengers) ==
    [i \in {n \in DOMAIN slots : n \in DOMAIN passengers} |->
        [id |-> slots[i].id, person |-> passengers[i]]]

\* External: Duffel books a live offer at its price when every slot is taken.
Bookable(payload) ==
    \E o \in market :
        /\ o.id = payload.offer /\ o.total_amount = payload.amount
        /\ {payload.passengers[i].id : i \in DOMAIN payload.passengers} = {p.id : p \in
               {o.passengers[i] : i \in DOMAIN o.passengers}}

\* POST /air/orders: pay the amount of the offer just fetched.  Duffel may refuse; it may also book
\* and its answer be lost, or not map, which raises like any failure.
PostOrder ==
    /\ buying.at = "pay"
    /\ LET payload == [offer      |-> buying.id,
                       amount     |-> buying.quote.total_amount,
                       passengers |-> DuffelPassengers(buying.quote.passengers, buying.passengers)]
           data    == [id |-> Len(placed) + 1, booking_reference |-> Len(placed) + 1,
                       total_amount |-> payload.amount,
                       total_currency |-> buying.quote.total_currency,
                       slices |-> buying.quote.slices]
       IN  \/ /\ Bookable(payload) /\ placed' = Append(placed, payload)
              /\ Duffel!ParsesOrder(data) /\ Duffel!AcceptsOrder(data)
              /\ buying' = [buying EXCEPT !.at = "save",
                                          !.quote = Duffel!MapOrder(data, buying.passengers)]
           \/ Bookable(payload) /\ placed' = Append(placed, payload) /\ buying' = Idle
           \/ buying' = Idle /\ UNCHANGED placed
    /\ UNCHANGED <<search, cache, market, orders>>

\* repository.save of the new order, unless MongoDB fails.
SaveOrder ==
    /\ buying.at = "save"
    /\ orders' \in {orders, orders \cup {DumpOrder(buying.quote)}}
    /\ buying' = Idle
    /\ UNCHANGED <<search, cache, market, placed>>

\* Relay and worker read an order and save it whole: its money goes through JSON once more.
Rewrite(doc) ==
    /\ doc \in orders
    /\ orders' = (orders \ {doc}) \cup {DumpOrder(LoadOrder(doc))}
    /\ UNCHANGED <<search, cache, market, buying, placed>>

----------------------------------------------------------------------------

\* Answers of up to two offers.
Answers ==
    {<<>>} \cup {<<f>> : f \in Fares} \cup {p \in Fares \X Fares : p[1] # p[2]}

Searching ==
    \/ \E data \in SearchRequests : Search(data)
    \/ Hit \/ Miss \/ (\E fares \in Answers : Fetch(fares)) \/ FetchFails \/ Store \/ Respond
    \/ \E key \in DOMAIN cache : Expire(key)

Booking ==
    \/ \E id \in Ids(market), passengers \in Parties : Book(id, passengers)
    \/ GetOffer \/ PostOrder \/ SaveOrder
    \/ \E doc \in orders : Rewrite(doc)

Provider == \E o \in market : Reprice(o) \/ Withdraw(o)

Next == Searching \/ Booking \/ Provider

Spec == Init /\ [][Next]_vars

----------------------------------------------------------------------------

\* Every variable keeps its type.
TypeOK ==
    /\ at \in {"idle", "lookup", "fetch", "store", "respond"}
    /\ (at = "idle") = (asked = None)
    /\ found # <<>> => at \in {"store", "respond"}
    /\ \A k \in DOMAIN cache : \A i \in DOMAIN cache[k] : "total_stops" \in DOMAIN cache[k][i]
    /\ \A o, p \in market : o.id = p.id => o = p
    /\ buying.at \in {"idle", "price", "pay", "save"}
    /\ Len(placed) <= MaxOrders
    /\ \A doc \in orders : doc.id \in DOMAIN placed

\* A slice that can be flown: from its origin to its destination, leg by leg.
Flown(slice) ==
    LET legs == slice.segments IN
    /\ legs # <<>>
    /\ legs[1].origin = slice.origin /\ legs[Len(legs)].destination = slice.destination
    /\ \A n \in 1..(Len(legs) - 1) : legs[n].destination = legs[n + 1].origin

\* An offer about the question: out on the day asked for, back when a return was asked for, leg by
\* leg, with a place for everybody.
About(offer, c) ==
    LET slices == offer.slices
        goes(n, from, to, date) ==
            /\ slices[n].origin.iata_code = from /\ slices[n].destination.iata_code = to
            /\ Flown(slices[n]) /\ slices[n].segments[1].departing_at = date
    IN  /\ Len(slices) = (IF c.return_date = None THEN 1 ELSE 2)
        /\ goes(1, c.origin, c.destination, c.departure_date)
        /\ c.return_date # None =>
               /\ goes(2, c.destination, c.origin, c.return_date)
               /\ c.departure_date <= c.return_date
        /\ Len(offer.passenger_types) = Len(c.passengers)
        /\ \A n \in DOMAIN c.passengers :
               c.passengers[n].type = "adult" => offer.passenger_types[n] = "adult"

\* Whatever the answer comes from, the provider or the cache, it is about the question.  A
\* malformed offer is never among them (ADR 0002).
AnswersTheQuestion == at = "respond" => \A i \in DOMAIN found : About(found[i], asked)

\* ADR 0001: whoever is asked: a journey with the slices and the party of the question becomes the same
\* offer whether Duffel or Amadeus sends it, with the same stops, cabins, party, owner and price.
AdaptersAgree ==
    at = "fetch" =>
        \A j \in Journeys :
            /\ Len(j.slices) = (IF asked.return_date = None THEN 1 ELSE 2)
            /\ Len(j.party) = Len(asked.passengers)
            => Agree(j)

\* What a client is shown is in order of the prices as shown, also after they were rounded and
\* read back from the cache.
CheapestOnTop ==
    at = "respond" =>
        LET shown == DumpAll(found) IN
        \A i, j \in DOMAIN shown : i < j => shown[i].total.amount <= shown[j].total.amount

\* A client who is answered from the cache reads what the first one did: the offers survive
\* JSON, computed fields, rounded money and all.
CachedAsServed ==
    [][Hit => DumpAll(found') = cache[CacheKey(asked)]]_vars

\* The total of a stored order is what the provider was paid, up to half a cent, however often
\* relay and worker read and rewrite the document, and whatever became of the price since.
StoredIsCharged ==
    \A doc \in orders :
        /\ doc.total.amount - placed[doc.id].amount \in -5..5
        /\ doc.total.amount % 10 = 0

\* Passengers are bound to slots one to one, in order; the stored order names nobody who is not on
\* the provider's order, except those beyond the offer's slots.
PassengersBound ==
    \A doc \in orders :
        LET booked == placed[doc.id].passengers IN
        /\ \A i \in DOMAIN booked : booked[i].person = doc.passengers[i]
        /\ \A i, j \in DOMAIN booked : i # j => booked[i].id # booked[j].id
        /\ Len(doc.passengers) >= Len(booked)
=============================================================================

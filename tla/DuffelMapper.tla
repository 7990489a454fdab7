---------------------------- MODULE DuffelMapper ----------------------------
(* Duffel's vocabulary and how providers/duffel translates it: the raw models of *)
(* schemas.py, the pure functions of mapper.py, and the passengers of a search   *)
(* request (client.py).                                                          *)
EXTENDS Domain

\* _cabin, _passenger_type and _place_type: an unknown value is no error.
Cabin(value)         == IF value \in CabinClasses THEN value ELSE None
PassengerType(value) == IF value \in PassengerTypes THEN value ELSE "adult"
PlaceType(value)     == IF value \in PlaceTypes THEN value ELSE "airport"

MapPlace(p) == MakePlace(p.iata_code, PlaceType(p.type))

\* What the raw models require, which is less than the domain does: a DuffelCarrier has a code, any
\* string; a DuffelPlace may lack its own; and a slice may have no segments.
ParsesCarrier(raw)  == raw # None => raw.spelling # "null"
ParsesSegment(s)    == ParsesCarrier(s.marketing_carrier) /\ ParsesCarrier(s.operating_carrier)
ParsesSlices(slices) ==
    \A i \in DOMAIN slices : \A j \in DOMAIN slices[i].segments : ParsesSegment(slices[i].segments[j])
ParsesOffer(o)      == ParsesCarrier(o.owner) /\ ParsesSlices(o.slices)
ParsesOrder(data)   == ParsesSlices(data.slices)

\* What Segment, Place and Carrier require of what is made of it.
AcceptsSegment(s) ==
    /\ Acceptable(s.origin.iata_code) /\ Acceptable(s.destination.iata_code)
    /\ Acceptable(s.marketing_carrier) /\ AcceptableOrNone(s.operating_carrier)

\* The cabin of a segment is that of its first passenger.
SegmentCabin(s) == IF s.passengers = <<>> THEN None ELSE Cabin(s.passengers[1])

MapSegment(s) ==
    [id                |-> s.id,
     origin            |-> MapPlace(s.origin),
     destination       |-> MapPlace(s.destination),
     departing_at      |-> s.departing_at,
     marketing_carrier |-> Code(s.marketing_carrier),
     operating_carrier |-> CodeOrNone(s.operating_carrier),
     cabin_class       |-> SegmentCabin(s)]

\* Mutant of AcceptsSlices: an empty slice gets through.
AcceptsSlicesEmpty(slices) ==
    \A i \in DOMAIN slices :
        /\ Acceptable(slices[i].origin.iata_code) /\ Acceptable(slices[i].destination.iata_code)
        /\ \A j \in DOMAIN slices[i].segments : AcceptsSegment(slices[i].segments[j])

AcceptsSlices(slices) ==
    \A i \in DOMAIN slices :
        /\ Acceptable(slices[i].origin.iata_code) /\ Acceptable(slices[i].destination.iata_code)
        /\ NonEmpty(slices[i].segments)
        /\ \A j \in DOMAIN slices[i].segments : AcceptsSegment(slices[i].segments[j])

MapSlices(slices) ==
    [i \in DOMAIN slices |->
        [origin      |-> MapPlace(slices[i].origin),
         destination |-> MapPlace(slices[i].destination),
         segments    |-> [j \in DOMAIN slices[i].segments |-> MapSegment(slices[i].segments[j])]]]

\* map_offer raises nothing: the domain models accept what is made of the offer.
AcceptsOffer(o) ==
    /\ Acceptable(o.owner) /\ Acceptable(o.total_currency)
    /\ NonEmpty(o.slices) /\ AcceptsSlices(o.slices)

\* map_offer: the cabin of the offer is that of its first segment.
MapOffer(o) ==
    [id              |-> o.id,
     provider        |-> "duffel",
     owner           |-> Code(o.owner),
     total           |-> MakeMoney(o.total_amount, o.total_currency),
     slices          |-> MapSlices(o.slices),
     passenger_types |-> [i \in DOMAIN o.passengers |-> PassengerType(o.passengers[i].type)],
     cabin_class     |-> IF o.slices = <<>> \/ o.slices[1].segments = <<>> THEN None
                         ELSE SegmentCabin(o.slices[1].segments[1])]

\* map_order raises nothing.
AcceptsOrder(data) == Acceptable(data.total_currency) /\ AcceptsSlices(data.slices)

\* map_order: the passengers are our own copy of who was to be booked.
MapOrder(data, passengers) ==
    [id                |-> data.id,
     provider          |-> "duffel",
     booking_reference |-> data.booking_reference,
     status            |-> "confirmed",
     total             |-> MakeMoney(data.total_amount, data.total_currency),
     slices            |-> MapSlices(data.slices),
     passengers        |-> passengers]

----------------------------------------------------------------------------

\* _passengers_for_request: adults by type, children by age, or by type when no age is given.
RequestPassenger(p) ==
    IF p.type # "adult" /\ p.age # None THEN [age |-> p.age] ELSE [type |-> p.type]

\* build_offer_request_payload: a slice out, and a slice back when there is a return date.
OfferRequest(c) ==
    LET leg(from, to, date) == [origin |-> from, destination |-> to, departure_date |-> date]
    IN  [slices     |-> <<leg(c.origin, c.destination, c.departure_date)>> \o
             (IF c.return_date = None THEN <<>> ELSE <<leg(c.destination, c.origin, c.return_date)>>),
         passengers |-> [i \in DOMAIN c.passengers |-> RequestPassenger(c.passengers[i])],
         cabin_class |-> c.cabin_class, max_connections |-> c.max_connections]
=============================================================================

---------------------------- MODULE AmadeusMapper ----------------------------
(* Amadeus's vocabulary and how providers/amadeus translates it: the raw models  *)
(* of schemas.py and the pure functions of mapper.py.  The live calls of this    *)
(* provider are switched off; map_payload is what there is.  The dictionaries    *)
(* only resolve names, which are left out.                                       *)
EXTENDS Domain

\* _TRAVELER_TYPE, with adult for whatever else.
TravelerType(value) ==
    CASE value \in {"CHILD", "SEATED_INFANT"} -> "child"
      [] value = "HELD_INFANT"                -> "infant_without_seat"
      [] OTHER                                -> "adult"

\* _cabin: value.lower(), not stripped, when it names a cabin.
Cabin(raw) ==
    IF raw # None /\ raw.spelling \in {"exact", "capitals"} /\ Code(raw) \in CabinClasses
    THEN Code(raw) ELSE None

\* cabin_by_segment is made of the first traveler's fare details; a later one of the same segment wins.
FareDetails(offer) ==
    IF offer.traveler_pricings = <<>> THEN <<>> ELSE offer.traveler_pricings[1].fare_details

CabinBySegment(fares, segment) ==
    LET of == {i \in DOMAIN fares : fares[i].segment_id = segment}
    IN  IF of = {} THEN None ELSE fares[CHOOSE i \in of : \A j \in of : j <= i].cabin

\* The first key of that dict is the segment of the first fare detail.
FirstCabin(fares) == IF fares = <<>> THEN None ELSE CabinBySegment(fares, fares[1].segment_id)

MapSegment(s, fares) ==
    [id                |-> s.id,
     origin            |-> MakePlace(s.departure, "airport"),
     destination       |-> MakePlace(s.arrival, "airport"),
     departing_at      |-> s.departing_at,
     marketing_carrier |-> Code(s.carrier_code),
     operating_carrier |-> CodeOrNone(s.operating),
     cabin_class       |-> Cabin(CabinBySegment(fares, s.id))]

\* An itinerary has no ends of its own: they are those of its first and last segment.
MapItinerary(segments, fares) ==
    [origin      |-> MakePlace(segments[1].departure, "airport"),
     destination |-> MakePlace(segments[Len(segments)].arrival, "airport"),
     segments    |-> [j \in DOMAIN segments |-> MapSegment(segments[j], fares)]]

\* validating_airline_codes[0], or else the carrier of the first segment.
Owner(offer) ==
    IF offer.validating_airline_codes # <<>> THEN offer.validating_airline_codes[1]
    ELSE offer.itineraries[1][1].carrier_code

\* grand_total or total: a grand total of zero is falsy.
Price(offer) ==
    IF offer.price.grand_total \in {None, 0} THEN offer.price.total ELSE offer.price.grand_total

AcceptsSegment(s) ==
    /\ Acceptable(s.departure) /\ Acceptable(s.arrival)
    /\ Acceptable(s.carrier_code) /\ AcceptableOrNone(s.operating)

\* AmadeusFlightOffer.model_validate and map_offer raise nothing (an itinerary without segments
\* is an IndexError).
AcceptsOffer(offer) ==
    /\ NonEmpty(offer.itineraries)
    /\ \A i \in DOMAIN offer.itineraries :
          /\ NonEmpty(offer.itineraries[i])
          /\ \A j \in DOMAIN offer.itineraries[i] : AcceptsSegment(offer.itineraries[i][j])
    /\ Acceptable(Owner(offer)) /\ Acceptable(offer.price.currency)

\* Mutant of MapOffer: the fares of the last traveler.
MapOfferLastTraveler(offer) ==
    LET travelers == offer.traveler_pricings
        fares     == travelers[Len(travelers)].fare_details
    IN  [id              |-> offer.id,
         provider        |-> "amadeus",
         owner           |-> Code(Owner(offer)),
         total           |-> MakeMoney(Price(offer), offer.price.currency),
         slices          |-> [i \in DOMAIN offer.itineraries |->
                                 MapItinerary(offer.itineraries[i], fares)],
         passenger_types |-> [i \in DOMAIN travelers |-> TravelerType(travelers[i].traveler_type)],
         cabin_class     |-> Cabin(FirstCabin(fares))]

MapOffer(offer) ==
    LET travelers == offer.traveler_pricings
        fares     == FareDetails(offer)
    IN  [id              |-> offer.id,
         provider        |-> "amadeus",
         owner           |-> Code(Owner(offer)),
         total           |-> MakeMoney(Price(offer), offer.price.currency),
         slices          |-> [i \in DOMAIN offer.itineraries |->
                                 MapItinerary(offer.itineraries[i], fares)],
         passenger_types |-> [i \in DOMAIN travelers |-> TravelerType(travelers[i].traveler_type)],
         cabin_class     |-> Cabin(FirstCabin(fares))]
=============================================================================

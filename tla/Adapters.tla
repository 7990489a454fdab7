------------------------------ MODULE Adapters ------------------------------
(* Two vocabularies, one domain (docs/adr/0001 and 0002): a journey as Duffel    *)
(* writes it and as Amadeus writes it, and what the two adapters make of it.     *)
EXTENDS Domain

Duffel  == INSTANCE DuffelMapper
Amadeus == INSTANCE AmadeusMapper

Exactly(code) == [code |-> code, spelling |-> "exact"]

\* A leg is in the journey's cabin for the first of the party, in first class for the others.
CabinOf(leg, i) == IF i = 1 THEN leg.cabin ELSE "first"

\* Duffel: the cabins under the segment, by passenger.
AsDuffel(j) ==
    LET airport(code) == [iata_code |-> Exactly(code), type |-> "airport"]
        segment(leg)  == [id |-> leg.id, origin |-> airport(leg.from), destination |-> airport(leg.to),
                          departing_at |-> leg.date, marketing_carrier |-> Exactly(leg.carrier),
                          operating_carrier |-> Exactly(leg.carrier),
                          passengers |-> [i \in DOMAIN j.party |-> CabinOf(leg, i)]]
    IN  [id |-> j.id, owner |-> Exactly(j.owner),
         total_amount |-> j.price, total_currency |-> Exactly("EUR"),
         slices |-> [n \in DOMAIN j.slices |->
             [origin      |-> airport(j.slices[n][1].from),
              destination |-> airport(j.slices[n][Len(j.slices[n])].to),
              segments    |-> [k \in DOMAIN j.slices[n] |-> segment(j.slices[n][k])]]],
         passengers |-> [i \in DOMAIN j.party |-> [id |-> i, type |-> j.party[i]]]]

\* Amadeus: the cabins under the traveler, by segment, in capitals.
AsAmadeus(j) ==
    LET segment(leg) == [id |-> leg.id, departure |-> Exactly(leg.from), arrival |-> Exactly(leg.to),
                         departing_at |-> leg.date, carrier_code |-> Exactly(leg.carrier),
                         operating |-> Exactly(leg.carrier)]
        legs         == IF Len(j.slices) = 1 THEN j.slices[1] ELSE j.slices[1] \o j.slices[2]
        traveler(i)  == CASE j.party[i] = "child"               -> "CHILD"
                          [] j.party[i] = "infant_without_seat" -> "HELD_INFANT"
                          [] OTHER                              -> "ADULT"
    IN  [id |-> j.id, validating_airline_codes |-> <<Exactly(j.owner)>>,
         price |-> [currency |-> Exactly("EUR"), total |-> j.price, grand_total |-> j.price],
         itineraries |-> [n \in DOMAIN j.slices |->
                             [k \in DOMAIN j.slices[n] |-> segment(j.slices[n][k])]],
         traveler_pricings |-> [i \in DOMAIN j.party |->
             [traveler_type |-> traveler(i),
              fare_details  |-> [k \in DOMAIN legs |->
                  [segment_id |-> legs[k].id,
                   cabin      |-> [code |-> CabinOf(legs[k], i), spelling |-> "capitals"]]]]]]

\* A journey is out, or out and back, of a leg at least each; no two legs have one id.
IsJourney(j) ==
    /\ IsList(j.slices) /\ Len(j.slices) \in 1..2
    /\ \A n \in DOMAIN j.slices :
          /\ IsList(j.slices[n]) /\ NonEmpty(j.slices[n])
          /\ \A k \in DOMAIN j.slices[n] : j.slices[n][k].cabin \in CabinClasses
    /\ \A n, m \in DOMAIN j.slices : \A k \in DOMAIN j.slices[n], l \in DOMAIN j.slices[m] :
          j.slices[n][k].id = j.slices[m][l].id => n = m /\ k = l
    /\ IsList(j.party) /\ \A i \in DOMAIN j.party : j.party[i] \in PassengerTypes

\* A cabin that is given is not null.
ASSUME CabinsAssumption ==
    \A cabin \in CabinClasses : [code |-> cabin, spelling |-> "capitals"] # None

\* The same offer comes out, the provider's name apart, and its stops are those of the journey.
Agree(j) ==
    LET d == Duffel!MapOffer(AsDuffel(j))
        a == Amadeus!MapOffer(AsAmadeus(j))
    IN  /\ Duffel!AcceptsOffer(AsDuffel(j)) /\ Amadeus!AcceptsOffer(AsAmadeus(j))
        /\ Without(d, "provider") = Without(a, "provider")
        /\ TotalStops(d.slices) + Len(j.slices) =
               Cardinality(UNION {{n} \X DOMAIN j.slices[n] : n \in DOMAIN j.slices})
=============================================================================

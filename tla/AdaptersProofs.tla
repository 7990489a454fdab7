--------------------------- MODULE AdaptersProofs ---------------------------
(* Duffel's and Amadeus's way of writing a journey come to the same offer: for    *)
(* slices of any number of legs and a party of any size.                          *)
EXTENDS Adapters, DomainProofs

\* All legs of a journey, in the order of Amadeus's fare details.
LegsOf(j) == IF Len(j.slices) = 1 THEN j.slices[1] ELSE j.slices[1] \o j.slices[2]

\* There is a first leg.
LEMMA FirstLeg ==
    ASSUME NEW j, IsJourney(j)
    PROVE  1 \in DOMAIN j.slices /\ 1 \in DOMAIN j.slices[1]
<1>1. 1 \in DOMAIN j.slices
  BY DEF IsJourney, IsList
<1>2. IsList(j.slices[1]) /\ Len(j.slices[1]) >= 1
  BY <1>1 DEF IsJourney, NonEmpty
<1> QED
  BY <1>1, <1>2 DEF IsList

\* They are a list, of the legs of the slices, each of them once.
LEMMA LegsAreListed ==
    ASSUME NEW j, IsJourney(j)
    PROVE  /\ IsList(LegsOf(j)) /\ 1 \in DOMAIN LegsOf(j) /\ LegsOf(j)[1] = j.slices[1][1]
           /\ \A n \in DOMAIN j.slices : \A k \in DOMAIN j.slices[n] :
                 \E p \in DOMAIN LegsOf(j) : LegsOf(j)[p] = j.slices[n][k]
           /\ \A p, q \in DOMAIN LegsOf(j) : LegsOf(j)[p].id = LegsOf(j)[q].id => p = q
<1> DEFINE legs == LegsOf(j)
           s    == j.slices[1]
           t    == j.slices[2]
<1>1. CASE Len(j.slices) = 1
  <2>1. legs = s /\ DOMAIN j.slices = {1}
    BY <1>1 DEF LegsOf, IsJourney, IsList
  <2>2. IsList(s) /\ 1 \in DOMAIN s /\ \A k, l \in DOMAIN s : s[k].id = s[l].id => k = l
    BY <2>1 DEF IsJourney, IsList, NonEmpty
  <2> HIDE DEF legs, s
  <2>3. /\ IsList(legs) /\ 1 \in DOMAIN legs /\ legs[1] = s[1]
        /\ \A k \in DOMAIN s : \E p \in DOMAIN legs : legs[p] = s[k]
        /\ \A p, q \in DOMAIN legs : legs[p].id = legs[q].id => p = q
    BY <2>1, <2>2
  <2> QED
    BY <2>1, <2>3 DEF legs, s
<1>2. CASE Len(j.slices) = 2
  <2>1. DOMAIN j.slices = 1..2 /\ 1 \in DOMAIN j.slices /\ 2 \in DOMAIN j.slices
    BY <1>2 DEF IsJourney, IsList
  <2>2. /\ IsList(s) /\ IsList(t) /\ Len(s) >= 1
        /\ \A k, l \in DOMAIN s : s[k].id = s[l].id => k = l
        /\ \A k, l \in DOMAIN t : t[k].id = t[l].id => k = l
        /\ \A k \in DOMAIN s, l \in DOMAIN t : s[k].id # t[l].id
    BY <2>1 DEF IsJourney, NonEmpty
  <2>3. legs = s \o t
    BY <1>2 DEF LegsOf
  <2> HIDE DEF legs, s, t
  <2> DEFINE a == Len(s)
             b == Len(t)
             S == {s[i] : i \in DOMAIN s} \cup {t[i] : i \in DOMAIN t}
  <2>4. s \in Seq(S) /\ t \in Seq(S) /\ DOMAIN s = 1..a /\ DOMAIN t = 1..b /\ a \in Nat /\ b \in Nat
    BY <2>2 DEF IsList
  <2> HIDE DEF S
  <2>5. /\ legs \in Seq(S) /\ Len(legs) = a + b
        /\ \A i \in 1..(a + b) : legs[i] = IF i <= a THEN s[i] ELSE t[i - a]
    BY <2>3, <2>4, ConcatProperties
  <2>6. IsList(legs) /\ DOMAIN legs = 1..(a + b)
    BY <2>5, LenProperties DEF IsList
  <2> HIDE DEF a, b
  <2>7. 1 \in DOMAIN legs /\ legs[1] = s[1]
    BY <2>2, <2>4, <2>5, <2>6 DEF a
  <2>8. \A k \in DOMAIN s : \E p \in DOMAIN legs : legs[p] = s[k]
    BY <2>4, <2>5, <2>6
  <2>9. \A k \in DOMAIN t : \E p \in DOMAIN legs : legs[p] = t[k]
    <3> TAKE k \in DOMAIN t
    <3>1. a + k \in 1..(a + b) /\ ~ (a + k <= a) /\ (a + k) - a = k
      BY <2>4
    <3> QED
      BY <2>5, <2>6, <3>1
  <2>10. \A p, q \in DOMAIN legs : legs[p].id = legs[q].id => p = q
    <3> SUFFICES ASSUME NEW p \in 1..(a + b), NEW q \in 1..(a + b), legs[p].id = legs[q].id
                 PROVE  p = q
      BY <2>6
    <3>1. CASE p <= a /\ q <= a
      <4>1. p \in DOMAIN s /\ q \in DOMAIN s
        BY <2>4, <3>1
      <4>2. legs[p] = s[p] /\ legs[q] = s[q]
        BY <2>5, <3>1
      <4> QED
        BY <2>2, <4>1, <4>2
    <3>2. CASE p <= a /\ ~ (q <= a)
      <4>1. p \in DOMAIN s /\ q - a \in DOMAIN t
        BY <2>4, <3>2
      <4>2. legs[p] = s[p] /\ legs[q] = t[q - a]
        BY <2>5, <3>2
      <4> QED
        BY <2>2, <4>1, <4>2
    <3>3. CASE ~ (p <= a) /\ q <= a
      <4>1. q \in DOMAIN s /\ p - a \in DOMAIN t
        BY <2>4, <3>3
      <4>2. legs[p] = t[p - a] /\ legs[q] = s[q]
        BY <2>5, <3>3
      <4> QED
        BY <2>2, <4>1, <4>2
    <3>4. CASE ~ (p <= a) /\ ~ (q <= a)
      <4>1. p - a \in DOMAIN t /\ q - a \in DOMAIN t
        BY <2>4, <3>4
      <4>2. legs[p] = t[p - a] /\ legs[q] = t[q - a]
        BY <2>5, <3>4
      <4>3. p - a = q - a
        BY <2>2, <4>1, <4>2
      <4> QED
        BY <2>4, <4>3
    <3> QED
      BY <3>1, <3>2, <3>3, <3>4
  <2>11. \A n \in DOMAIN j.slices : \A k \in DOMAIN j.slices[n] :
             \E p \in DOMAIN legs : legs[p] = j.slices[n][k]
    BY <2>1, <2>8, <2>9 DEF s, t
  <2> QED
    BY <2>6, <2>7, <2>10, <2>11 DEF legs, s
<1> QED
  BY <1>1, <1>2 DEF IsJourney

\* Fares the first of the party would have, by leg, and an id that only one of them has.
LEMMA CabinIsFound ==
    ASSUME NEW fares, NEW p \in DOMAIN fares, DOMAIN fares \subseteq Nat,
           \A q \in DOMAIN fares : fares[q].segment_id = fares[p].segment_id => q = p
    PROVE  Amadeus!CabinBySegment(fares, fares[p].segment_id) = fares[p].cabin
<1> DEFINE of == {i \in DOMAIN fares : fares[i].segment_id = fares[p].segment_id}
<1>1. of = {p}
  OBVIOUS
<1>2. Amadeus!CabinBySegment(fares, fares[p].segment_id)
          = IF of = {} THEN None ELSE fares[CHOOSE i \in of : \A j \in of : j <= i].cabin
  BY DEF Amadeus!CabinBySegment
<1> HIDE DEF of
<1>3. (CHOOSE i \in of : \A j \in of : j <= i) = p
  BY <1>1
<1> QED
  BY <1>1, <1>2, <1>3

\* The cabin Amadeus has for a leg: that of the first traveler, when there is one.
CabinHeld(j, leg) == IF j.party = <<>> THEN None ELSE leg.cabin

\* The cabin Amadeus finds for a leg, and for the offer.
LEMMA AmadeusCabins ==
    ASSUME NEW j, IsJourney(j)
    PROVE  LET fares == Amadeus!FareDetails(AsAmadeus(j)) IN
           /\ \A n \in DOMAIN j.slices : \A k \in DOMAIN j.slices[n] :
                 Amadeus!Cabin(Amadeus!CabinBySegment(fares, j.slices[n][k].id))
                     = CabinHeld(j, j.slices[n][k])
           /\ Amadeus!Cabin(Amadeus!FirstCabin(fares)) = CabinHeld(j, j.slices[1][1])
<1> DEFINE fares == Amadeus!FareDetails(AsAmadeus(j))
           legs  == LegsOf(j)
           held(leg) == [code |-> CabinOf(leg, 1), spelling |-> "capitals"]
<1>1. CASE j.party = <<>>
  <2>1. AsAmadeus(j).traveler_pricings = <<>>
    BY <1>1 DEF AsAmadeus
  <2>2. fares = <<>>
    BY <2>1 DEF Amadeus!FareDetails
  <2> HIDE DEF fares
  <2>3. \A id : Amadeus!CabinBySegment(fares, id) = None
    BY <2>2 DEF Amadeus!CabinBySegment
  <2>4. Amadeus!FirstCabin(fares) = None /\ Amadeus!Cabin(None) = None
    BY <2>2 DEF Amadeus!FirstCabin, Amadeus!Cabin
  <2> QED
    BY <1>1, <2>3, <2>4 DEF CabinHeld, fares
<1>2. CASE j.party # <<>>
  <2>1. fares = [p \in DOMAIN legs |-> [segment_id |-> legs[p].id, cabin |-> held(legs[p])]]
    <3>1. 1 \in DOMAIN j.party
      BY <1>2 DEF IsJourney, IsList
    <3>2. DOMAIN AsAmadeus(j).traveler_pricings = DOMAIN j.party
      BY DEF AsAmadeus
    <3>3. AsAmadeus(j).traveler_pricings # <<>>
      BY <3>1, <3>2
    <3> QED
      BY <3>1, <3>3 DEF Amadeus!FareDetails, AsAmadeus, LegsOf
  <2>2. /\ IsList(legs) /\ 1 \in DOMAIN legs /\ legs[1] = j.slices[1][1]
        /\ \A n \in DOMAIN j.slices : \A k \in DOMAIN j.slices[n] :
              \E p \in DOMAIN legs : legs[p] = j.slices[n][k]
        /\ \A p, q \in DOMAIN legs : legs[p].id = legs[q].id => p = q
    BY LegsAreListed
  <2> HIDE DEF fares, legs, held
  <2>3. DOMAIN fares \subseteq Nat /\ DOMAIN fares = DOMAIN legs
    BY <2>1, <2>2 DEF IsList
  <2>4. \A p \in DOMAIN legs : Amadeus!CabinBySegment(fares, legs[p].id) = held(legs[p])
    <3> TAKE p \in DOMAIN legs
    <3>1. \A q \in DOMAIN fares :
              fares[q].segment_id = legs[q].id /\ fares[q].cabin = held(legs[q])
      BY <2>1, <2>3
    <3>2. \A q \in DOMAIN fares : fares[q].segment_id = fares[p].segment_id => q = p
      BY <2>2, <2>3, <3>1
    <3>3. Amadeus!CabinBySegment(fares, fares[p].segment_id) = fares[p].cabin
      BY <2>3, <3>2, CabinIsFound
    <3> QED
      BY <2>3, <3>1, <3>3
  <2>5. \A n \in DOMAIN j.slices : \A k \in DOMAIN j.slices[n] :
            Amadeus!Cabin(held(j.slices[n][k])) = j.slices[n][k].cabin
    BY CabinsAssumption DEF IsJourney, Amadeus!Cabin, Amadeus!Code, Amadeus!CabinClasses, CabinClasses,
                            CabinOf, held
  <2>6. \A n \in DOMAIN j.slices : \A k \in DOMAIN j.slices[n] :
            Amadeus!CabinBySegment(fares, j.slices[n][k].id) = held(j.slices[n][k])
    BY <2>2, <2>4
  <2>7. 1 \in DOMAIN j.slices /\ 1 \in DOMAIN j.slices[1]
    BY FirstLeg
  <2>8. fares # <<>> /\ fares[1].segment_id = j.slices[1][1].id
    BY <2>1, <2>2, <2>3
  <2>9. Amadeus!FirstCabin(fares) = held(j.slices[1][1])
    BY <2>6, <2>7, <2>8 DEF Amadeus!FirstCabin
  <2> QED
    BY <1>2, <2>5, <2>6, <2>7, <2>9 DEF CabinHeld, fares
<1> QED
  BY <1>1, <1>2

----------------------------------------------------------------------------
(* The offer that a journey is, whoever sells it.                               *)

\* What a journey is sold as: places, legs, slices, and the offer.
Airport(code) == [iata_code |-> code, type |-> "airport"]

Flight(j, leg) ==
    [id |-> leg.id, origin |-> Airport(leg.from), destination |-> Airport(leg.to),
     departing_at |-> leg.date, marketing_carrier |-> leg.carrier,
     operating_carrier |-> CodeOrNone(Exactly(leg.carrier)), cabin_class |-> CabinHeld(j, leg)]

Flights(j) ==
    [n \in DOMAIN j.slices |->
        [origin      |-> Airport(j.slices[n][1].from),
         destination |-> Airport(j.slices[n][Len(j.slices[n])].to),
         segments    |-> [k \in DOMAIN j.slices[n] |-> Flight(j, j.slices[n][k])]]]

Sold(j, provider) ==
    [id              |-> j.id,
     provider        |-> provider,
     owner           |-> j.owner,
     total           |-> [amount |-> j.price, currency |-> "EUR"],
     slices          |-> Flights(j),
     passenger_types |-> j.party,
     cabin_class     |-> CabinHeld(j, j.slices[1][1])]

\* A segment as Duffel writes it.
AsDuffelSegment(j, leg) ==
    LET airport(code) == [iata_code |-> Exactly(code), type |-> "airport"]
    IN  [id |-> leg.id, origin |-> airport(leg.from), destination |-> airport(leg.to),
         departing_at |-> leg.date, marketing_carrier |-> Exactly(leg.carrier),
         operating_carrier |-> Exactly(leg.carrier),
         passengers |-> [i \in DOMAIN j.party |-> CabinOf(leg, i)]]

\* Duffel's segment has the cabin of the first passenger, when there is one.
LEMMA DuffelCabin ==
    ASSUME NEW j, IsJourney(j), NEW leg, leg.cabin \in CabinClasses
    PROVE  Duffel!SegmentCabin(AsDuffelSegment(j, leg)) = CabinHeld(j, leg)
<1> DEFINE cabins == [i \in DOMAIN j.party |-> CabinOf(leg, i)]
<1>1. AsDuffelSegment(j, leg).passengers = cabins
  BY DEF AsDuffelSegment
<1>2. CASE j.party = <<>>
  <2>1. cabins = <<>>
    BY <1>2
  <2> QED
    BY <1>1, <1>2, <2>1 DEF Duffel!SegmentCabin, CabinHeld
<1>3. CASE j.party # <<>>
  <2>1. 1 \in DOMAIN j.party
    BY <1>3 DEF IsJourney, IsList
  <2>2. 1 \in DOMAIN cabins /\ cabins[1] = leg.cabin
    BY <2>1 DEF CabinOf
  <2> HIDE DEF cabins
  <2>3. cabins # <<>>
    BY <2>2
  <2> QED
    BY <1>1, <1>3, <2>2, <2>3
       DEF Duffel!SegmentCabin, Duffel!Cabin, Duffel!CabinClasses, CabinClasses, CabinHeld
<1> QED
  BY <1>2, <1>3

\* What map_offer makes of a journey as Duffel writes it.
THEOREM DuffelMapsJourney ==
    ASSUME NEW j, IsJourney(j)
    PROVE  Duffel!AcceptsOffer(AsDuffel(j)) /\ Duffel!MapOffer(AsDuffel(j)) = Sold(j, "duffel")
<1> DEFINE raw == AsDuffel(j)
           segment(n, k) == AsDuffelSegment(j, j.slices[n][k])
           ends(code) == [iata_code |-> Exactly(code), type |-> "airport"]
<1>1. raw.slices = [n \in DOMAIN j.slices |->
          [origin      |-> ends(j.slices[n][1].from),
           destination |-> ends(j.slices[n][Len(j.slices[n])].to),
           segments    |-> [k \in DOMAIN j.slices[n] |-> segment(n, k)]]]
  BY DEF AsDuffel, AsDuffelSegment
<1>2. /\ raw.id = j.id /\ raw.owner = Exactly(j.owner) /\ raw.total_amount = j.price
      /\ raw.total_currency = Exactly("EUR")
      /\ raw.passengers = [i \in DOMAIN j.party |-> [id |-> i, type |-> j.party[i]]]
  BY DEF AsDuffel
<1> HIDE DEF raw
<1>3. \A n \in DOMAIN j.slices : \A k \in DOMAIN j.slices[n] :
          /\ Duffel!AcceptsSegment(segment(n, k))
          /\ Duffel!SegmentCabin(segment(n, k)) = CabinHeld(j, j.slices[n][k])
          /\ Duffel!MapSegment(segment(n, k)) = Flight(j, j.slices[n][k])
  <2> TAKE n \in DOMAIN j.slices
  <2> TAKE k \in DOMAIN j.slices[n]
  <2> DEFINE leg == j.slices[n][k]
  <2>1. leg.cabin \in CabinClasses
    BY DEF IsJourney
  <2> HIDE DEF leg
  <2>2. Duffel!SegmentCabin(AsDuffelSegment(j, leg)) = CabinHeld(j, leg)
    BY <2>1, DuffelCabin
  <2>3. Duffel!AcceptsSegment(AsDuffelSegment(j, leg))
    BY DEF Duffel!AcceptsSegment, Duffel!Acceptable, Duffel!AcceptableOrNone, AsDuffelSegment, Exactly
  <2>4. Duffel!MapSegment(AsDuffelSegment(j, leg)) = Flight(j, leg)
    BY <2>2 DEF Duffel!MapSegment, Duffel!MapPlace, Duffel!MakePlace, Duffel!PlaceType, Duffel!PlaceTypes,
                Duffel!Code, Duffel!CodeOrNone, AsDuffelSegment, Exactly, Flight, Airport, CodeOrNone, Code
  <2> QED
    BY <2>2, <2>3, <2>4 DEF leg
<1>4. \A code : Duffel!MapPlace(ends(code)) = Airport(code) /\ Duffel!Acceptable(ends(code).iata_code)
  BY DEF Duffel!MapPlace, Duffel!MakePlace, Duffel!PlaceType, Duffel!PlaceTypes, Duffel!Code,
         Duffel!Acceptable, Exactly, Airport
<1> HIDE DEF segment, ends
<1> DEFINE slice(n) == raw.slices[n]
<1>0. /\ DOMAIN raw.slices = DOMAIN j.slices
      /\ \A n \in DOMAIN j.slices :
            /\ slice(n).origin = ends(j.slices[n][1].from)
            /\ slice(n).destination = ends(j.slices[n][Len(j.slices[n])].to)
            /\ slice(n).segments = [k \in DOMAIN j.slices[n] |-> segment(n, k)]
  BY <1>1
<1>5. Duffel!MapSlices(raw.slices) = Flights(j)
  <2>1. ASSUME NEW n \in DOMAIN j.slices
        PROVE  /\ Duffel!MapPlace(slice(n).origin) = Flights(j)[n].origin
               /\ Duffel!MapPlace(slice(n).destination) = Flights(j)[n].destination
               /\ [k \in DOMAIN slice(n).segments |-> Duffel!MapSegment(slice(n).segments[k])]
                      = Flights(j)[n].segments
    <3>1. /\ Duffel!MapPlace(slice(n).origin) = Flights(j)[n].origin
          /\ Duffel!MapPlace(slice(n).destination) = Flights(j)[n].destination
      BY <1>0, <1>4 DEF Flights
    <3>2. [k \in DOMAIN slice(n).segments |-> Duffel!MapSegment(slice(n).segments[k])]
              = [k \in DOMAIN j.slices[n] |-> Flight(j, j.slices[n][k])]
      <4> DEFINE segments == slice(n).segments
                 legs     == j.slices[n]
      <4>1. /\ DOMAIN segments = DOMAIN legs
            /\ \A k \in DOMAIN legs : segments[k] = segment(n, k)
        BY <1>0
      <4>2. \A k \in DOMAIN legs : Duffel!MapSegment(segment(n, k)) = Flight(j, legs[k])
        BY <1>3
      <4> HIDE DEF segments, legs
      <4>3. \A k \in DOMAIN legs : Duffel!MapSegment(segments[k]) = Flight(j, legs[k])
        BY <4>1, <4>2
      <4>4. [k \in DOMAIN segments |-> Duffel!MapSegment(segments[k])]
                = [k \in DOMAIN legs |-> Flight(j, legs[k])]
        BY <4>1, <4>3
      <4> QED
        BY <4>4 DEF segments, legs
    <3> QED
      BY <3>1, <3>2 DEF Flights
  <2>2. Flights(j) = [n \in DOMAIN j.slices |->
            [origin |-> Flights(j)[n].origin, destination |-> Flights(j)[n].destination,
             segments |-> Flights(j)[n].segments]]
    BY DEF Flights
  <2>3. Duffel!MapSlices(raw.slices) = [n \in DOMAIN j.slices |->
            [origin      |-> Duffel!MapPlace(slice(n).origin),
             destination |-> Duffel!MapPlace(slice(n).destination),
             segments    |-> [k \in DOMAIN slice(n).segments |-> Duffel!MapSegment(slice(n).segments[k])]]]
    BY <1>0 DEF Duffel!MapSlices
  <2> QED
    BY <2>1, <2>2, <2>3
<1>6. /\ DOMAIN j.slices = 1..Len(j.slices) /\ Len(j.slices) \in 1..2
      /\ \A n \in DOMAIN j.slices :
            Len(j.slices[n]) \in Nat /\ Len(j.slices[n]) >= 1 /\ DOMAIN j.slices[n] = 1..Len(j.slices[n])
  BY DEF IsJourney, IsList, NonEmpty
<1>7. Duffel!NonEmpty(raw.slices) /\ \A n \in DOMAIN j.slices : Duffel!NonEmpty(raw.slices[n].segments)
  <2>1. Len(raw.slices) = Len(j.slices)
    BY <1>1, <1>6
  <2>3. \A n \in DOMAIN j.slices : Len(raw.slices[n].segments) = Len(j.slices[n])
    <3> TAKE n \in DOMAIN j.slices
    <3> DEFINE legs == slice(n).segments
    <3>1. legs = [k \in 1..Len(j.slices[n]) |-> segment(n, k)]
      BY <1>0, <1>6
    <3> HIDE DEF legs
    <3>2. Len(legs) = Len(j.slices[n])
      BY <1>6, <3>1, ListOf
    <3> QED
      BY <3>2 DEF legs
  <2>4. Len(raw.slices) >= 1
    BY <1>6, <2>1
  <2>5. ASSUME NEW n \in DOMAIN j.slices PROVE Len(raw.slices[n].segments) >= 1
    <3>1. Len(raw.slices[n].segments) = Len(j.slices[n])
      BY <2>3
    <3>2. Len(j.slices[n]) >= 1
      BY <1>6
    <3> QED
      BY <3>1, <3>2
  <2> QED
    BY <2>4, <2>5 DEF Duffel!NonEmpty
<1>8. Duffel!AcceptsOffer(raw)
  <2>1. Duffel!AcceptsSlices(raw.slices)
    <3>1. ASSUME NEW n \in DOMAIN j.slices
          PROVE  /\ Duffel!Acceptable(slice(n).origin.iata_code)
                 /\ Duffel!Acceptable(slice(n).destination.iata_code)
                 /\ Duffel!NonEmpty(slice(n).segments)
                 /\ \A k \in DOMAIN slice(n).segments : Duffel!AcceptsSegment(slice(n).segments[k])
      <4>1. \A k \in DOMAIN j.slices[n] : slice(n).segments[k] = segment(n, k)
        BY <1>0
      <4>2. DOMAIN slice(n).segments = DOMAIN j.slices[n]
        BY <1>0
      <4>3. \A k \in DOMAIN j.slices[n] : Duffel!AcceptsSegment(segment(n, k))
        BY <1>3
      <4>4. \A k \in DOMAIN slice(n).segments : Duffel!AcceptsSegment(slice(n).segments[k])
        <5> HIDE DEF slice
        <5> QED
          BY <4>1, <4>2, <4>3
      <4>5. /\ slice(n).origin = ends(j.slices[n][1].from)
            /\ slice(n).destination = ends(j.slices[n][Len(j.slices[n])].to)
        BY <1>0
      <4>6. Duffel!NonEmpty(slice(n).segments)
        BY <1>7
      <4> HIDE DEF slice
      <4> QED
        BY <1>4, <4>4, <4>5, <4>6
    <3> QED
      BY <1>0, <3>1 DEF Duffel!AcceptsSlices
  <2>2. Duffel!Acceptable(raw.owner) /\ Duffel!Acceptable(raw.total_currency)
    BY <1>2 DEF Duffel!Acceptable, Exactly
  <2> QED
    BY <1>7, <2>1, <2>2 DEF Duffel!AcceptsOffer
<1>9. (IF raw.slices = <<>> \/ raw.slices[1].segments = <<>> THEN None
       ELSE Duffel!SegmentCabin(raw.slices[1].segments[1])) = CabinHeld(j, j.slices[1][1])
  <2>1. 1 \in DOMAIN j.slices /\ 1 \in DOMAIN j.slices[1]
    BY FirstLeg
  <2>2. 1 \in DOMAIN raw.slices /\ 1 \in DOMAIN raw.slices[1].segments
    BY <1>1, <2>1
  <2>3. raw.slices[1].segments[1] = segment(1, 1)
    BY <1>1, <2>1
  <2>4. raw.slices # <<>> /\ raw.slices[1].segments # <<>>
    BY <2>2
  <2> QED
    BY <1>3, <2>1, <2>3, <2>4
<1>10. [i \in DOMAIN raw.passengers |-> Duffel!PassengerType(raw.passengers[i].type)] = j.party
  <2>1. /\ DOMAIN raw.passengers = DOMAIN j.party
        /\ \A i \in DOMAIN j.party : raw.passengers[i].type = j.party[i]
    BY <1>2
  <2>2. \A i \in DOMAIN j.party : Duffel!PassengerType(j.party[i]) = j.party[i]
    BY DEF Duffel!PassengerType, Duffel!PassengerTypes, PassengerTypes, IsJourney
  <2>3. j.party = [i \in DOMAIN j.party |-> j.party[i]]
    BY DEF IsJourney, IsList
  <2> QED
    BY <2>1, <2>2, <2>3
<1>11. Duffel!MapOffer(raw) = Sold(j, "duffel")
  <2>1. Duffel!Code(raw.owner) = j.owner
    BY <1>2 DEF Duffel!Code, Exactly
  <2>2. Duffel!MakeMoney(raw.total_amount, raw.total_currency) = [amount |-> j.price, currency |-> "EUR"]
    BY <1>2 DEF Duffel!MakeMoney, Duffel!Code, Exactly
  <2> QED
    BY <1>2, <1>5, <1>9, <1>10, <2>1, <2>2 DEF Duffel!MapOffer, Sold
<1> QED
  BY <1>8, <1>11 DEF raw

\* What map_payload makes of it as Amadeus writes it.
THEOREM AmadeusMapsJourney ==
    ASSUME NEW j, IsJourney(j)
    PROVE  Amadeus!AcceptsOffer(AsAmadeus(j)) /\ Amadeus!MapOffer(AsAmadeus(j)) = Sold(j, "amadeus")
<1> DEFINE raw   == AsAmadeus(j)
           fares == Amadeus!FareDetails(raw)
           segment(leg) == [id |-> leg.id, departure |-> Exactly(leg.from), arrival |-> Exactly(leg.to),
                            departing_at |-> leg.date, carrier_code |-> Exactly(leg.carrier),
                            operating |-> Exactly(leg.carrier)]
<1>1. raw.itineraries = [n \in DOMAIN j.slices |-> [k \in DOMAIN j.slices[n] |-> segment(j.slices[n][k])]]
  BY DEF AsAmadeus
<1>2. /\ raw.id = j.id /\ raw.validating_airline_codes = <<Exactly(j.owner)>>
      /\ raw.price = [currency |-> Exactly("EUR"), total |-> j.price, grand_total |-> j.price]
      /\ DOMAIN raw.traveler_pricings = DOMAIN j.party
  BY DEF AsAmadeus
<1>3. \A i \in DOMAIN j.party : Amadeus!TravelerType(raw.traveler_pricings[i].traveler_type) = j.party[i]
  BY DEF AsAmadeus, Amadeus!TravelerType, IsJourney, PassengerTypes
<1>4. /\ \A n \in DOMAIN j.slices : \A k \in DOMAIN j.slices[n] :
            Amadeus!Cabin(Amadeus!CabinBySegment(fares, j.slices[n][k].id)) = CabinHeld(j, j.slices[n][k])
      /\ Amadeus!Cabin(Amadeus!FirstCabin(fares)) = CabinHeld(j, j.slices[1][1])
  BY AmadeusCabins
<1> HIDE DEF raw, fares
<1>5. \A n \in DOMAIN j.slices : \A k \in DOMAIN j.slices[n] :
          /\ Amadeus!AcceptsSegment(segment(j.slices[n][k]))
          /\ Amadeus!MapSegment(segment(j.slices[n][k]), fares) = Flight(j, j.slices[n][k])
  BY <1>4 DEF Amadeus!AcceptsSegment, Amadeus!Acceptable, Amadeus!AcceptableOrNone, Amadeus!MapSegment,
              Amadeus!MakePlace, Amadeus!Code, Amadeus!CodeOrNone, Exactly, Flight, Airport, CodeOrNone, Code
<1>6. /\ DOMAIN j.slices = 1..Len(j.slices) /\ Len(j.slices) \in 1..2
      /\ \A n \in DOMAIN j.slices :
            Len(j.slices[n]) \in Nat /\ Len(j.slices[n]) >= 1 /\ DOMAIN j.slices[n] = 1..Len(j.slices[n])
  BY DEF IsJourney, IsList, NonEmpty
<1>7. /\ Len(raw.itineraries) = Len(j.slices)
      /\ \A n \in DOMAIN j.slices : Len(raw.itineraries[n]) = Len(j.slices[n])
  <2>1. Len(raw.itineraries) = Len(j.slices)
    BY <1>1, <1>6
  <2>2. \A n \in DOMAIN j.slices : Len(raw.itineraries[n]) = Len(j.slices[n])
    <3> TAKE n \in DOMAIN j.slices
    <3> DEFINE it == raw.itineraries[n]
    <3>1. it = [k \in 1..Len(j.slices[n]) |-> it[k]]
      BY <1>1, <1>6
    <3> HIDE DEF it
    <3>2. Len(it) = Len(j.slices[n])
      BY <1>6, <3>1, ListOf
    <3> QED
      BY <3>2 DEF it
  <2> QED
    BY <2>1, <2>2
<1>8. \A n \in DOMAIN j.slices : Amadeus!MapItinerary(raw.itineraries[n], fares) = Flights(j)[n]
  <2> TAKE n \in DOMAIN j.slices
  <2> DEFINE legs == j.slices[n]
             last == Len(legs)
             it   == raw.itineraries[n]
  <2>1. /\ it = [k \in DOMAIN legs |-> segment(legs[k])] /\ Len(it) = last
        /\ 1 \in DOMAIN legs /\ last \in DOMAIN legs
    <3>1. it = [k \in DOMAIN legs |-> segment(legs[k])]
      BY <1>1
    <3>2. Len(it) = last
      BY <1>7
    <3>3. 1 \in DOMAIN legs /\ last \in DOMAIN legs
      <4>1. last \in Nat /\ last >= 1 /\ DOMAIN legs = 1..last
        BY <1>6
      <4> HIDE DEF legs, last
      <4> QED
        BY <4>1
    <3> QED
      BY <3>1, <3>2, <3>3
  <2>2. [k \in DOMAIN it |-> Amadeus!MapSegment(it[k], fares)] = [k \in DOMAIN legs |-> Flight(j, legs[k])]
    <3>1. \A k \in DOMAIN legs : Amadeus!MapSegment(segment(legs[k]), fares) = Flight(j, legs[k])
      BY <1>5
    <3> HIDE DEF it, legs, last, segment
    <3>2. DOMAIN it = DOMAIN legs /\ \A k \in DOMAIN legs : it[k] = segment(legs[k])
      BY <2>1
    <3> QED
      BY <3>1, <3>2
  <2>3. it[1].departure = Exactly(legs[1].from) /\ it[Len(it)].arrival = Exactly(legs[last].to)
    <3>1. it[1] = segment(legs[1]) /\ it[Len(it)] = segment(legs[last])
      <4> HIDE DEF it, legs, last, segment
      <4> QED
        BY <2>1
    <3> HIDE DEF it, legs, last
    <3> QED
      BY <3>1
  <2> HIDE DEF it, legs, last
  <2>4. Amadeus!MapItinerary(it, fares) =
            [origin |-> Airport(legs[1].from), destination |-> Airport(legs[last].to),
             segments |-> [k \in DOMAIN legs |-> Flight(j, legs[k])]]
    BY <2>2, <2>3 DEF Amadeus!MapItinerary, Amadeus!MakePlace, Amadeus!Code, Exactly, Airport
  <2> QED
    BY <2>4 DEF Flights, it, legs, last
<1>9. [n \in DOMAIN raw.itineraries |-> Amadeus!MapItinerary(raw.itineraries[n], fares)] = Flights(j)
  BY <1>1, <1>8 DEF Flights
<1>10. Amadeus!Owner(raw) = Exactly(j.owner) /\ Amadeus!Price(raw) = j.price
  BY <1>2 DEF Amadeus!Owner, Amadeus!Price
<1>11. Amadeus!AcceptsOffer(raw)
  <2>1. Amadeus!NonEmpty(raw.itineraries) /\ \A n \in DOMAIN j.slices : Amadeus!NonEmpty(raw.itineraries[n])
    <3>1. Len(raw.itineraries) >= 1
      <4> DEFINE last == Len(j.slices)
      <4>1. Len(raw.itineraries) = last /\ last \in 1..2
        BY <1>6, <1>7
      <4> HIDE DEF last
      <4> QED
        BY <4>1
    <3>2. ASSUME NEW n \in DOMAIN j.slices PROVE Len(raw.itineraries[n]) >= 1
      <4>1. Len(raw.itineraries[n]) = Len(j.slices[n])
        BY <1>7
      <4>2. Len(j.slices[n]) >= 1
        BY <1>6
      <4> QED
        BY <4>1, <4>2
    <3> QED
      BY <3>1, <3>2 DEF Amadeus!NonEmpty
  <2>2. /\ DOMAIN raw.itineraries = DOMAIN j.slices
        /\ \A n \in DOMAIN j.slices : \A k \in DOMAIN raw.itineraries[n] :
              Amadeus!AcceptsSegment(raw.itineraries[n][k])
    <3> HIDE DEF segment
    <3>1. /\ DOMAIN raw.itineraries = DOMAIN j.slices
          /\ \A n \in DOMAIN j.slices :
                raw.itineraries[n] = [k \in DOMAIN j.slices[n] |-> segment(j.slices[n][k])]
      BY <1>1
    <3>2. \A n \in DOMAIN j.slices : \A k \in DOMAIN j.slices[n] :
              raw.itineraries[n][k] = segment(j.slices[n][k])
      BY <3>1
    <3>3. \A n \in DOMAIN j.slices : DOMAIN raw.itineraries[n] = DOMAIN j.slices[n]
      BY <3>1
    <3> QED
      BY <1>5, <3>1, <3>2, <3>3
  <2>3. Amadeus!Acceptable(Amadeus!Owner(raw)) /\ Amadeus!Acceptable(raw.price.currency)
    BY <1>2, <1>10 DEF Amadeus!Acceptable, Exactly
  <2> QED
    BY <2>1, <2>2, <2>3 DEF Amadeus!AcceptsOffer
<1>12. [i \in DOMAIN raw.traveler_pricings |->
           Amadeus!TravelerType(raw.traveler_pricings[i].traveler_type)] = j.party
  BY <1>2, <1>3 DEF IsJourney, IsList
<1>13. Amadeus!MapOffer(raw) = Sold(j, "amadeus")
  BY <1>2, <1>4, <1>9, <1>10, <1>12
     DEF Amadeus!MapOffer, Amadeus!MakeMoney, Amadeus!Code, Exactly, Sold, fares
<1> QED
  BY <1>11, <1>13 DEF raw

----------------------------------------------------------------------------
(* Agreement.                                                                   *)

\* Each leg that is not the first of its slice is a stop.
LEMMA LegsAreCounted ==
    ASSUME NEW j, IsJourney(j)
    PROVE  TotalStops(Flights(j)) + Len(j.slices) =
               Cardinality(UNION {{n} \X DOMAIN j.slices[n] : n \in DOMAIN j.slices})
<1> DEFINE legs(n) == Len(j.slices[n])
           pairs(n) == {n} \X (1..legs(n))
           last    == Len(j.slices)
           all     == UNION {{n} \X DOMAIN j.slices[n] : n \in DOMAIN j.slices}
<1>1. /\ DOMAIN j.slices = 1..last /\ last \in 1..2
      /\ \A n \in 1..last : legs(n) \in Nat /\ DOMAIN j.slices[n] = 1..legs(n)
  BY DEF IsJourney, IsList
<1>2. Len(Flights(j)) = last
  BY <1>1 DEF Flights
<1>3. \A n \in 1..last : Stops(Flights(j)[n]) = legs(n) - 1
  <2> TAKE n \in 1..last
  <2> DEFINE segments == Flights(j)[n].segments
  <2>1. segments = [k \in 1..legs(n) |-> Flight(j, j.slices[n][k])]
    BY <1>1 DEF Flights
  <2> HIDE DEF segments
  <2>2. Len(segments) = legs(n)
    BY <1>1, <2>1, ListOf
  <2> QED
    BY <2>2 DEF Stops, segments
<1>4. TotalStops(Flights(j)) = IF last = 1 THEN legs(1) - 1 ELSE legs(1) - 1 + (legs(2) - 1)
  <2> DEFINE slices == Flights(j)
  <2> HIDE DEF slices, legs, last
  <2>1. Len(slices) \in 1..2 /\ \A n \in 1..Len(slices) : Stops(slices[n]) \in Int
    BY <1>1, <1>2, <1>3 DEF slices
  <2>2. TotalStops(slices) =
            IF Len(slices) = 1 THEN Stops(slices[1]) ELSE Stops(slices[1]) + Stops(slices[2])
    BY <2>1, StopsAdded
  <2> QED
    BY <1>1, <1>2, <1>3, <2>2 DEF slices
<1>5. ASSUME NEW n \in 1..last PROVE IsFiniteSet(pairs(n)) /\ Cardinality(pairs(n)) = legs(n)
  <2>1. IsFiniteSet({n}) /\ Cardinality({n}) = 1
    BY FS_Singleton
  <2>2. IsFiniteSet(1..legs(n)) /\ Cardinality(1..legs(n)) = legs(n)
    <3>1. legs(n) \in Nat
      BY <1>1
    <3> HIDE DEF legs
    <3> QED
      BY <3>1, FS_Interval
  <2>3. legs(n) \in Nat
    BY <1>1
  <2> HIDE DEF legs
  <2> DEFINE places == 1..legs(n)
  <2> HIDE DEF places
  <2>4. IsFiniteSet({n} \X places) /\ Cardinality({n} \X places) = Cardinality({n}) * Cardinality(places)
    BY <2>1, <2>2, FS_Product DEF places
  <2>5. Cardinality({n} \X places) = legs(n)
    BY <2>1, <2>2, <2>3, <2>4 DEF places
  <2> QED
    BY <2>4, <2>5 DEF places
<1>6. all = UNION {pairs(n) : n \in 1..last}
  BY <1>1
<1>7. CASE last = 1
  <2>1. all = pairs(1)
    BY <1>6, <1>7
  <2>2. Cardinality(pairs(1)) = legs(1) /\ legs(1) \in Nat
    BY <1>1, <1>5, <1>7
  <2>3. TotalStops(Flights(j)) = legs(1) - 1
    BY <1>4, <1>7
  <2> HIDE DEF pairs, legs, all, last
  <2>4. TotalStops(Flights(j)) + last = Cardinality(all)
    BY <1>7, <2>1, <2>2, <2>3
  <2> QED
    BY <2>4 DEF all, last
<1>8. CASE last = 2
  <2>1. all = pairs(1) \cup pairs(2)
    BY <1>6, <1>8
  <2>2. pairs(1) \cap pairs(2) = {}
    OBVIOUS
  <2>3. /\ IsFiniteSet(pairs(1)) /\ Cardinality(pairs(1)) = legs(1) /\ legs(1) \in Nat
        /\ IsFiniteSet(pairs(2)) /\ Cardinality(pairs(2)) = legs(2) /\ legs(2) \in Nat
    BY <1>1, <1>5, <1>8
  <2>4. TotalStops(Flights(j)) = legs(1) - 1 + (legs(2) - 1)
    BY <1>4, <1>8
  <2> HIDE DEF pairs, legs, all, last
  <2>5. Cardinality(pairs(1) \cup pairs(2)) = legs(1) + legs(2) - Cardinality({})
    BY <2>2, <2>3, FS_Union
  <2>6. Cardinality({}) = 0
    BY FS_EmptySet
  <2> QED
    <3>1. TotalStops(Flights(j)) + last = Cardinality(all)
      BY <1>8, <2>1, <2>3, <2>4, <2>5, <2>6
    <3> QED
      BY <3>1 DEF all, last
<1> QED
  BY <1>1, <1>7, <1>8

\* Agree: the two adapters make the same offer of a journey, the provider's name apart, with its stops.
THEOREM AdaptersMapAlike ==
    ASSUME NEW j, IsJourney(j)
    PROVE  Agree(j)
<1>1. /\ Duffel!AcceptsOffer(AsDuffel(j)) /\ Duffel!MapOffer(AsDuffel(j)) = Sold(j, "duffel")
      /\ Amadeus!AcceptsOffer(AsAmadeus(j)) /\ Amadeus!MapOffer(AsAmadeus(j)) = Sold(j, "amadeus")
  BY DuffelMapsJourney, AmadeusMapsJourney
<1>2. Without(Sold(j, "duffel"), "provider") = Without(Sold(j, "amadeus"), "provider")
  BY DEF Without, Sold
<1>3. Sold(j, "duffel").slices = Flights(j)
  BY DEF Sold
<1> QED
  BY <1>1, <1>2, <1>3, LegsAreCounted DEF Agree
=============================================================================

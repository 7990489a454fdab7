---------------------------- MODULE OffersProofs ----------------------------
(* Proofs about Offers, for any requests, fares and parties, any raise of a       *)
(* price, any number of cached entries and of orders.                            *)
EXTENDS Offers, AdaptersProofs

USE BoundsAssumption

\* What may be asked.
Criteria == {BuildCriteria(data) : data \in {d \in SearchRequests : ValidRequest(d)}}

\* An offer of a fare, made for a question, whatever its price has become.
Quoted(o) ==
    \E fare \in Fares, c \in Criteria :
        /\ o.total_amount \in Nat
        /\ o = [Quote(fare, Duffel!OfferRequest(c)) EXCEPT !.total_amount = o.total_amount]

\* Offers that may be the answer to a question.
IsAnswer(offers, c) ==
    /\ IsList(offers)
    /\ \A i \in DOMAIN offers : IsOffer(offers[i]) /\ About(offers[i], c)
    /\ \A i, j \in DOMAIN offers : i < j => offers[i].total.amount <= offers[j].total.amount

\* An order the provider has made, with people of its own on it.
Booked(order, made) ==
    LET booked == made[order.id].passengers IN
    /\ HasFields(order, OrderFields) /\ IsMoney(order.total)
    /\ order.id \in DOMAIN made
    /\ \A i \in DOMAIN booked : booked[i].person = order.passengers[i]
    /\ \A i, j \in DOMAIN booked : i # j => booked[i].id # booked[j].id
    /\ Len(order.passengers) >= Len(booked)

\* A stored one: it has been rounded since.
Stored(doc, made) ==
    /\ Booked(doc, made)
    /\ doc.total.amount - made[doc.id].amount \in -5..5
    /\ doc.total.amount % 10 = 0

\* A search under way has a question, and what it has found is about it.
SearchInv ==
    /\ at \in {"idle", "lookup", "fetch", "store", "respond"}
    /\ (at = "idle") = (asked = None)
    /\ at # "idle" => asked \in Criteria
    /\ found # <<>> => at \in {"store", "respond"}
    /\ at \in {"store", "respond"} => IsAnswer(found, asked)

\* What is cached is an answer as JSON, and reads and writes as the same.
CacheInv ==
    \A k \in DOMAIN cache :
        IsAnswer(LoadAll(cache[k]), k) /\ cache[k] = DumpAll(LoadAll(cache[k]))

\* What is for sale was quoted, and an id names one offer.
MarketInv ==
    /\ \A o \in market : Quoted(o)
    /\ \A o, p \in market : o.id = p.id => o = p

\* The offer that is about to be paid for, and the order that is about to be stored.
BuyingInv ==
    /\ HasFields(buying, {"at", "id", "passengers", "quote"})
    /\ buying.at \in {"idle", "price", "pay", "save"}
    /\ buying.at # "idle" => buying.passengers \in Parties
    /\ buying.at \in {"price", "pay"} => Len(placed) < MaxOrders
    /\ buying.at = "pay" => Quoted(buying.quote)
    /\ buying.at = "save" =>
           /\ Booked(buying.quote, placed)
           /\ buying.quote.total.amount = placed[buying.quote.id].amount

\* The documents are orders that were charged.
OrdersInv ==
    /\ IsList(placed) /\ Len(placed) <= MaxOrders
    /\ \A doc \in orders : Stored(doc, placed)

\* The inductive invariant.
IInv == SearchInv /\ CacheInv /\ MarketInv /\ BuyingInv /\ OrdersInv

----------------------------------------------------------------------------
(* The provider's offers, mapped, are about the question.                       *)

\* One slice of what MapSlices makes.
MappedSlice(raw) ==
    [origin      |-> Duffel!MapPlace(raw.origin),
     destination |-> Duffel!MapPlace(raw.destination),
     segments    |-> [j \in DOMAIN raw.segments |-> Duffel!MapSegment(raw.segments[j])]]

\* A slice with segments is flown, on the day of the leg, between its ends.
LEMMA SliceIsFlown ==
    ASSUME NEW fare \in Fares, NEW leg, NEW n, NonEmpty(RawSlice(fare, leg, n).segments)
    PROVE  LET slice == MappedSlice(RawSlice(fare, leg, n)) IN
           /\ slice.origin.iata_code = leg.origin /\ slice.destination.iata_code = leg.destination
           /\ Flown(slice) /\ slice.segments[1].departing_at = leg.departure_date
<1> DEFINE raw   == RawSlice(fare, leg, n)
           slice == MappedSlice(raw)
<1>1. fare.stops \in {0, 1}
  BY FaresAssumption DEF RawSlice, NonEmpty
<1>2. /\ slice.origin.iata_code = leg.origin /\ slice.destination.iata_code = leg.destination
  BY DEF MappedSlice, RawSlice, Duffel!MapPlace, Duffel!MakePlace, Duffel!Code, Exactly
<1>3. CASE fare.stops = 0
  <2>1. /\ Len(raw.segments) = 1 /\ DOMAIN raw.segments = {1}
        /\ raw.segments[1].origin = raw.origin
        /\ raw.segments[1].destination.iata_code.code = leg.destination
        /\ raw.segments[1].destination.type = raw.destination.type
        /\ raw.segments[1].departing_at = leg.departure_date
        /\ raw.destination.iata_code.code = leg.destination
    BY <1>3 DEF RawSlice, Exactly
  <2> HIDE DEF raw
  <2>2. /\ slice.segments = [j \in 1..1 |-> Duffel!MapSegment(raw.segments[j])]
        /\ slice.segments[1].origin = slice.origin
        /\ slice.segments[1].departing_at = leg.departure_date
    BY <2>1 DEF MappedSlice, Duffel!MapSegment
  <2>3. slice.segments[1].destination = slice.destination
    BY <2>1 DEF MappedSlice, Duffel!MapSegment, Duffel!MapPlace, Duffel!MakePlace, Duffel!Code
  <2>4. Len(slice.segments) = 1 /\ slice.segments # <<>>
    BY <2>2
  <2>5. Flown(slice)
    BY <2>2, <2>3, <2>4 DEF Flown
  <2> QED
    BY <1>2, <2>2, <2>5 DEF raw
<1>4. CASE fare.stops = 1
  <2>1. /\ Len(raw.segments) = 2 /\ DOMAIN raw.segments = 1..2
        /\ raw.segments[1].origin = raw.origin
        /\ raw.segments[1].destination.iata_code.code = "AMS"
        /\ raw.segments[1].destination.type = fare.place
        /\ raw.segments[2].origin = [iata_code |-> Exactly("AMS"), type |-> fare.place]
        /\ raw.segments[2].destination.iata_code.code = leg.destination
        /\ raw.segments[2].destination.type = raw.destination.type
        /\ raw.segments[1].departing_at = leg.departure_date
        /\ raw.destination.iata_code.code = leg.destination
    BY <1>4 DEF RawSlice, Exactly
  <2> HIDE DEF raw
  <2>2. /\ slice.segments = [j \in 1..2 |-> Duffel!MapSegment(raw.segments[j])]
        /\ slice.segments[1].origin = slice.origin
        /\ slice.segments[1].departing_at = leg.departure_date
    BY <2>1 DEF MappedSlice, Duffel!MapSegment
  <2>3. slice.segments[2].destination = slice.destination
    BY <2>1 DEF MappedSlice, Duffel!MapSegment, Duffel!MapPlace, Duffel!MakePlace, Duffel!Code
  <2>4. slice.segments[1].destination = slice.segments[2].origin
    BY <2>1 DEF MappedSlice, Duffel!MapSegment, RawSlice, Duffel!MapPlace, Duffel!MakePlace,
             Duffel!Code, Exactly
  <2>5. Len(slice.segments) = 2 /\ slice.segments # <<>>
    BY <2>2
  <2>6. Flown(slice)
    BY <2>2, <2>3, <2>4, <2>5 DEF Flown
  <2> QED
    BY <1>2, <2>2, <2>6 DEF raw
<1> QED
  BY <1>1, <1>3, <1>4

\* What the domain lets through: a return is not before the way out, and the passengers are a list.
LEMMA CriteriaAreSound ==
    ASSUME NEW c \in Criteria
    PROVE  /\ c # None
           /\ c.return_date # None => c.departure_date <= c.return_date
           /\ IsList(c.passengers)
           /\ \A n \in DOMAIN c.passengers :
                 c.passengers[n] \in [type : PassengerTypes, age : Nat \cup {None}]
<1>1. PICK data \in SearchRequests : ValidRequest(data) /\ c = BuildCriteria(data)
  BY DEF Criteria
<1>2. c # None
  BY <1>1, RequestsAssumption
<1>3. ASSUME c.return_date # None PROVE c.departure_date <= c.return_date
  <2>1. data.return_date \in Nat /\ data.departure_date \in Nat
    BY <1>1, <1>3, RequestsAssumption DEF BuildCriteria
  <2> QED
    BY <1>1, <1>3, <2>1 DEF ValidRequest, BuildCriteria
<1> DEFINE P == [type : PassengerTypes, age : Nat \cup {None}]
<1>4. c.passengers \in Seq(P)
  <2>1. data.passengers \in Seq(P)
    BY RequestsAssumption
  <2>2. Adult \in P
    BY DEF Adult, PassengerTypes
  <2> HIDE DEF P
  <2>3. <<Adult>> \in Seq(P)
    BY <2>2
  <2> QED
    BY <1>1, <2>1, <2>3 DEF BuildCriteria
<1>5. IsList(c.passengers) /\ \A n \in DOMAIN c.passengers : c.passengers[n] \in P
  <2> HIDE DEF P
  <2> QED
    BY <1>4, LenProperties DEF IsList
<1> QED
  BY <1>2, <1>3, <1>5

\* The request has a leg out, and one back when there is a return.
LEMMA RequestLegs ==
    ASSUME NEW c
    PROVE  LET legs == Duffel!OfferRequest(c).slices
               out  == [origin |-> c.origin, destination |-> c.destination,
                        departure_date |-> c.departure_date]
               back == [origin |-> c.destination, destination |-> c.origin,
                        departure_date |-> c.return_date]
           IN  /\ DOMAIN legs = 1..(IF c.return_date = None THEN 1 ELSE 2)
               /\ legs[1] = out
               /\ c.return_date # None => legs[2] = back
<1> DEFINE legs == Duffel!OfferRequest(c).slices
           out  == [origin |-> c.origin, destination |-> c.destination,
                    departure_date |-> c.departure_date]
           back == [origin |-> c.destination, destination |-> c.origin,
                    departure_date |-> c.return_date]
<1>1. legs = <<out>> \o (IF c.return_date = None THEN <<>> ELSE <<back>>)
  BY DEF Duffel!OfferRequest
<1> HIDE DEF legs, out, back
<1>2. <<out>> \o <<>> = <<out>>
  OBVIOUS
<1>3. <<out>> \o <<back>> = <<out, back>>
  <2> DEFINE S == {out, back}
  <2>1. /\ <<out>> \in Seq(S) /\ <<back>> \in Seq(S) /\ <<out, back>> \in Seq(S)
        /\ Len(<<out>>) = 1 /\ Len(<<back>>) = 1 /\ Len(<<out, back>>) = 2
    OBVIOUS
  <2> HIDE DEF S
  <2>2. /\ <<out>> \o <<back>> \in Seq(S) /\ Len(<<out>> \o <<back>>) = 2
        /\ (<<out>> \o <<back>>)[1] = out /\ (<<out>> \o <<back>>)[2] = back
    BY <2>1, ConcatProperties
  <2> QED
    <3> DEFINE both == <<out>> \o <<back>>
               pair == <<out, back>>
    <3>1. \A i \in 1..Len(both) : both[i] = pair[i]
      BY <2>2
    <3>2. both \in Seq(S) /\ pair \in Seq(S) /\ Len(both) = Len(pair)
      BY <2>1, <2>2
    <3> HIDE DEF both, pair
    <3>3. both = pair
      BY <3>1, <3>2, SeqEqual
    <3> QED
      BY <3>3 DEF both, pair
<1> QED
  BY <1>1, <1>2, <1>3 DEF legs, out, back

\* A fare's offer for a question that the mapper accepts becomes an offer about the question.
LEMMA QuoteIsAbout ==
    ASSUME NEW fare \in Fares, NEW c \in Criteria,
           Duffel!AcceptsOffer(Quote(fare, Duffel!OfferRequest(c)))
    PROVE  LET offer == Duffel!MapOffer(Quote(fare, Duffel!OfferRequest(c))) IN
           IsOffer(offer) /\ About(offer, c)
<1> DEFINE raw   == Quote(fare, Duffel!OfferRequest(c))
           offer == Duffel!MapOffer(raw)
           legs  == Duffel!OfferRequest(c).slices
           last  == IF c.return_date = None THEN 1 ELSE 2
<1>1. /\ DOMAIN legs = 1..last
      /\ legs[1].origin = c.origin /\ legs[1].destination = c.destination
      /\ legs[1].departure_date = c.departure_date
      /\ c.return_date # None =>
             /\ legs[2].origin = c.destination /\ legs[2].destination = c.origin
             /\ legs[2].departure_date = c.return_date
  <2>1. /\ DOMAIN legs = 1..last
        /\ legs[1] = [origin |-> c.origin, destination |-> c.destination,
                      departure_date |-> c.departure_date]
        /\ c.return_date # None =>
               legs[2] = [origin |-> c.destination, destination |-> c.origin,
                          departure_date |-> c.return_date]
    BY RequestLegs
  <2> HIDE DEF legs
  <2> QED
    BY <2>1
<1>2. raw.slices = [n \in DOMAIN legs |-> RawSlice(fare, legs[n], n)]
  BY DEF Quote
<1>3. offer.slices = [n \in DOMAIN legs |-> MappedSlice(RawSlice(fare, legs[n], n))]
  BY <1>2 DEF Duffel!MapOffer, Duffel!MapSlices, MappedSlice
<1>4. \A n \in DOMAIN legs : NonEmpty(RawSlice(fare, legs[n], n).segments)
  BY <1>2 DEF Duffel!AcceptsOffer, Duffel!AcceptsSlices, Duffel!NonEmpty, NonEmpty
<1>5. IsOffer(offer)
  <2>1. HasFields(offer, OfferFields)
    BY DEF HasFields, OfferFields, Duffel!MapOffer
  <2>2. offer.total = [amount |-> fare.price, currency |-> Duffel!Code(raw.total_currency)]
    BY DEF Duffel!MapOffer, Duffel!MakeMoney, Quote
  <2>3. IsMoney(offer.total)
    BY <2>2, FaresAssumption DEF IsMoney, HasFields
  <2>4. AreSlices(offer.slices)
    BY <1>3 DEF AreSlices, MappedSlice, HasFields
  <2> QED
    BY <2>1, <2>3, <2>4 DEF IsOffer
<1>6. Len(offer.slices) = last
  <2> HIDE DEF offer, legs
  <2> QED
    BY <1>1, <1>3
<1>7. \A n \in 1..last :
          /\ offer.slices[n].origin.iata_code = legs[n].origin
          /\ offer.slices[n].destination.iata_code = legs[n].destination
          /\ Flown(offer.slices[n])
          /\ offer.slices[n].segments[1].departing_at = legs[n].departure_date
  <2> TAKE n \in 1..last
  <2>1. offer.slices[n] = MappedSlice(RawSlice(fare, legs[n], n))
    BY <1>1, <1>3
  <2> HIDE DEF legs, offer
  <2> QED
    BY <1>1, <1>4, <2>1, SliceIsFlown
<1>8. /\ Len(offer.passenger_types) = Len(c.passengers)
      /\ \A n \in DOMAIN c.passengers :
             c.passengers[n].type = "adult" => offer.passenger_types[n] = "adult"
  <2>1. IsList(c.passengers)
    BY CriteriaAreSound
  <2>2. offer.passenger_types = [n \in DOMAIN c.passengers |-> offer.passenger_types[n]]
    <3>1. DOMAIN Quote(fare, Duffel!OfferRequest(c)).passengers = DOMAIN c.passengers
      BY DEF Quote, Duffel!OfferRequest
    <3> QED
      BY <3>1 DEF Duffel!MapOffer
  <2>3. ASSUME NEW n \in DOMAIN c.passengers, c.passengers[n].type = "adult"
        PROVE  offer.passenger_types[n] = "adult"
    BY <2>3 DEF Duffel!MapOffer, Quote, Duffel!OfferRequest, Duffel!RequestPassenger,
                Duffel!PassengerType, Duffel!PassengerTypes
  <2> HIDE DEF offer
  <2>4. Len(offer.passenger_types) = Len(c.passengers)
    BY <2>1, <2>2, ListOf DEF IsList
  <2> QED
    BY <2>3, <2>4
<1>9. About(offer, c)
  <2> HIDE DEF offer, legs
  <2> QED
    BY <1>1, <1>6, <1>7, <1>8, CriteriaAreSound DEF About
<1> QED
  BY <1>5, <1>9

----------------------------------------------------------------------------
(* Answers: fetched, sorted, cached and read back.                              *)

\* An answer of the provider lists different fares.
LEMMA AnswersAreLists ==
    ASSUME NEW fares \in Answers
    PROVE  /\ IsList(fares)
           /\ \A i \in DOMAIN fares : fares[i] \in Fares
           /\ \A i, j \in DOMAIN fares : i # j => fares[i] # fares[j]
<1>1. CASE fares = <<>>
  BY <1>1 DEF IsList
<1>2. ASSUME NEW f \in Fares, fares = <<f>> PROVE fares[1] = f /\ Len(fares) = 1 /\ IsList(fares)
  BY <1>2 DEF IsList
<1>3. ASSUME NEW f \in Fares, NEW g \in Fares, f # g, fares = <<f, g>>
      PROVE  fares[1] = f /\ fares[2] = g /\ Len(fares) = 2 /\ IsList(fares)
  BY <1>3 DEF IsList
<1>4. \/ fares = <<>> \/ \E f \in Fares : fares = <<f>>
      \/ \E f, g \in Fares : f # g /\ fares = <<f, g>>
  BY DEF Answers
<1> QED
  BY <1>1, <1>2, <1>3, <1>4 DEF IsList

\* What is fetched is an answer, once sorted.
LEMMA FetchedIsAnswer ==
    ASSUME NEW fares \in Answers, NEW c \in Criteria,
           \A i \in DOMAIN fares : Duffel!AcceptsOffer(Quote(fares[i], Duffel!OfferRequest(c)))
    PROVE  IsAnswer(CheapestFirst([i \in DOMAIN fares |->
                        Duffel!MapOffer(Quote(fares[i], Duffel!OfferRequest(c)))]), c)
<1> DEFINE offers == [i \in DOMAIN fares |-> Duffel!MapOffer(Quote(fares[i], Duffel!OfferRequest(c)))]
           sorted == CheapestFirst(offers)
           n      == Len(fares)
<1>1. n \in Nat /\ DOMAIN offers = 1..n
  BY AnswersAreLists DEF IsList
<1>2. \A i \in 1..n : IsOffer(offers[i]) /\ About(offers[i], c)
  BY <1>1, AnswersAreLists, QuoteIsAbout
<1> HIDE DEF offers, n
<1>3. \A i \in 1..n : offers[i].total.amount \in Int
  BY <1>2 DEF IsOffer, IsMoney
<1>4. /\ sorted = [m \in 1..n |-> sorted[m]]
      /\ \E from \in Bijection(1..n, 1..n) : \A m \in 1..n : sorted[m] = offers[from[m]]
      /\ \A m, k \in 1..n : m < k => sorted[m].total.amount <= sorted[k].total.amount
  <2> HIDE DEF sorted
  <2>1. LET by == CheapestFirst(offers) IN
        /\ by = [m \in 1..n |-> by[m]]
        /\ \E from \in Bijection(1..n, 1..n) :
              /\ \A m \in 1..n : by[m] = offers[from[m]]
              /\ \A m, k \in 1..n :
                    m < k /\ by[m].total.amount = by[k].total.amount => from[m] < from[k]
        /\ \A m, k \in 1..n : m < k => by[m].total.amount <= by[k].total.amount
    BY <1>1, <1>3, CheapestFirstSorts
  <2> QED
    BY <2>1 DEF sorted
<1> HIDE DEF sorted
<1>5. IsList(sorted) /\ DOMAIN sorted = 1..n
  BY <1>1, <1>4, ListOf
<1>6. \A m \in 1..n : \E i \in 1..n : sorted[m] = offers[i]
  <2>1. PICK from \in Bijection(1..n, 1..n) : \A m \in 1..n : sorted[m] = offers[from[m]]
    BY <1>4
  <2>2. \A m \in 1..n : from[m] \in 1..n
    BY DEF Bijection, Injection
  <2> QED
    BY <2>1, <2>2
<1>7. IsAnswer(sorted, c)
  BY <1>2, <1>4, <1>5, <1>6 DEF IsAnswer
<1> QED
  BY <1>7 DEF sorted, offers

\* An answer that goes through the cache is an answer, and reads the same.
LEMMA AnswerSurvives ==
    ASSUME NEW offers, NEW c, IsAnswer(offers, c)
    PROVE  LET again == LoadAll(DumpAll(offers)) IN
           IsAnswer(again, c) /\ DumpAll(again) = DumpAll(offers)
<1> DEFINE again == LoadAll(DumpAll(offers))
           n     == Len(offers)
<1>1. n \in Nat /\ DOMAIN offers = 1..n
  BY DEF IsAnswer, IsList
<1>2. again = [i \in 1..n |-> Load(Dump(offers[i]))]
  BY <1>1 DEF LoadAll, DumpAll
<1> HIDE DEF again, n
<1>3. \A i \in 1..n :
          /\ IsOffer(again[i]) /\ Dump(again[i]) = Dump(offers[i])
          /\ again[i].total.amount = TwoDecimals(offers[i].total.amount)
          /\ again[i].slices = offers[i].slices
          /\ again[i].passenger_types = offers[i].passenger_types
  <2> TAKE i \in 1..n
  <2>1. IsOffer(offers[i]) /\ again[i] = Load(Dump(offers[i]))
    BY <1>1, <1>2 DEF IsAnswer
  <2> QED
    BY <2>1, DumpLoadDump
<1>4. IsList(again) /\ DOMAIN again = 1..n
  BY <1>1, <1>2, ListOf
<1>5. \A i \in 1..n : About(again[i], c)
  <2> TAKE i \in 1..n
  <2>1. /\ About(offers[i], c) /\ again[i].slices = offers[i].slices
        /\ again[i].passenger_types = offers[i].passenger_types
    BY <1>1, <1>3 DEF IsAnswer
  <2> QED
    BY <2>1 DEF About
<1>6. \A i, j \in 1..n : i < j => again[i].total.amount <= again[j].total.amount
  BY <1>1, <1>3, RoundsInOrder DEF IsAnswer, IsOffer, IsMoney
<1>7. DumpAll(again) = DumpAll(offers)
  BY <1>1, <1>3, <1>4 DEF DumpAll
<1> QED
  BY <1>3, <1>4, <1>5, <1>6, <1>7 DEF IsAnswer, again

\* Prices are in order as they are shown, too.
LEMMA ShownInOrder ==
    ASSUME NEW offers, NEW c, IsAnswer(offers, c)
    PROVE  LET shown == DumpAll(offers) IN
           \A i, j \in DOMAIN shown : i < j => shown[i].total.amount <= shown[j].total.amount
<1> DEFINE shown == DumpAll(offers)
<1>1. DOMAIN shown = DOMAIN offers
  BY DEF DumpAll
<1>2. \A i \in DOMAIN offers :
          /\ shown[i].total.amount = TwoDecimals(offers[i].total.amount)
          /\ offers[i].total.amount \in Int
  <2> TAKE i \in DOMAIN offers
  <2>1. IsOffer(offers[i]) /\ shown[i] = Dump(offers[i])
    BY DEF IsAnswer, DumpAll
  <2> QED
    BY <2>1, DumpShows DEF IsOffer, IsMoney
<1> HIDE DEF shown
<1>3. \A i, j \in DOMAIN shown : i < j => shown[i].total.amount <= shown[j].total.amount
  BY <1>1, <1>2, RoundsInOrder DEF IsAnswer
<1> QED
  BY <1>3 DEF shown

----------------------------------------------------------------------------
(* Search.                                                                      *)

\* Whatever a step does, the search has a question on its way and an answer about it at the end.
LEMMA SearchStep == IInv /\ [Next]_vars => SearchInv'
<1> SUFFICES ASSUME IInv, [Next]_vars PROVE SearchInv'
  OBVIOUS
<1> USE DEF CacheKey
<1>0. SearchInv
  BY DEF IInv
<1>1. ASSUME NEW data \in SearchRequests, Search(data) PROVE SearchInv'
  <2>1. BuildCriteria(data) \in Criteria
    BY <1>1 DEF Search, Criteria
  <2> QED
    BY <1>0, <1>1, <2>1, CriteriaAreSound DEF SearchInv, Search
<1>2. CASE Hit
  <2>1. IsAnswer(LoadAll(cache[asked]), asked)
    BY <1>2 DEF IInv, CacheInv, Hit
  <2> QED
    BY <1>0, <1>2, <2>1 DEF SearchInv, Hit
<1>3. CASE Miss
  BY <1>0, <1>3 DEF SearchInv, Miss
<1>4. ASSUME NEW fares \in Answers, Fetch(fares) PROVE SearchInv'
  <2> DEFINE raw == [i \in DOMAIN fares |-> Quote(fares[i], Duffel!OfferRequest(asked))]
  <2>1. at = "fetch" /\ asked' = asked /\ asked \in Criteria /\ asked # None
    BY <1>0, <1>4 DEF SearchInv, Fetch
  <2>2. CASE \A i \in DOMAIN raw : Duffel!ParsesOffer(raw[i]) /\ Duffel!AcceptsOffer(raw[i])
    <3>1. \A i \in DOMAIN fares : Duffel!AcceptsOffer(Quote(fares[i], Duffel!OfferRequest(asked)))
      BY <2>2
    <3>2. /\ at' = "store"
          /\ found' = CheapestFirst([i \in DOMAIN fares |->
                          Duffel!MapOffer(Quote(fares[i], Duffel!OfferRequest(asked)))])
      BY <1>4, <2>2 DEF Fetch
    <3>3. IsAnswer(found', asked)
      BY <2>1, <3>1, <3>2, FetchedIsAnswer
    <3> QED
      BY <2>1, <3>2, <3>3 DEF SearchInv
  <2>3. CASE ~ \A i \in DOMAIN raw : Duffel!ParsesOffer(raw[i]) /\ Duffel!AcceptsOffer(raw[i])
    <3>1. at' = "respond" /\ found' = <<>>
      BY <1>4, <2>3 DEF Fetch
    <3>2. IsAnswer(found', asked')
      BY <3>1 DEF IsAnswer, IsList
    <3> QED
      BY <2>1, <3>1, <3>2 DEF SearchInv
  <2> QED
    BY <2>2, <2>3
<1>5. CASE FetchFails
  <2>1. found = <<>> /\ found' = <<>> /\ at' = "respond" /\ asked' = asked
    BY <1>0, <1>5 DEF SearchInv, FetchFails
  <2>2. IsAnswer(found', asked')
    BY <2>1 DEF IsAnswer, IsList
  <2> QED
    BY <1>0, <1>5, <2>1, <2>2 DEF SearchInv, FetchFails
<1>6. CASE Store
  BY <1>0, <1>6 DEF SearchInv, Store
<1>7. CASE Respond
  BY <1>0, <1>7 DEF SearchInv, Respond
<1>8. CASE UNCHANGED search
  BY <1>0, <1>8 DEF SearchInv, search
<1>9. (\E key \in DOMAIN cache : Expire(key)) \/ Booking \/ Provider \/ UNCHANGED vars => UNCHANGED search
  BY DEF Expire, Booking, Provider, Book, GetOffer, PostOrder, SaveOrder, Rewrite, Reprice, Withdraw,
         vars, search
<1> QED
  BY <1>1, <1>2, <1>3, <1>4, <1>5, <1>6, <1>7, <1>8, <1>9 DEF Next, Searching

\* The cache holds answers about the criteria they are under.
LEMMA CacheStep == IInv /\ [Next]_vars => CacheInv'
<1> SUFFICES ASSUME IInv, [Next]_vars PROVE CacheInv'
  OBVIOUS
<1>0. CacheInv
  BY DEF IInv
<1>1. CASE Store
  <2>1. IsAnswer(found, asked) /\ cache' = With(cache, asked, DumpAll(found))
    BY <1>1 DEF IInv, SearchInv, Store, CacheKey
  <2>2. /\ IsAnswer(LoadAll(DumpAll(found)), asked)
        /\ DumpAll(LoadAll(DumpAll(found))) = DumpAll(found)
    BY <2>1, AnswerSurvives
  <2>3. ASSUME NEW k \in DOMAIN cache'
        PROVE  IsAnswer(LoadAll(cache'[k]), k) /\ cache'[k] = DumpAll(LoadAll(cache'[k]))
    <3>1. CASE k = asked
      <4>1. cache'[k] = DumpAll(found)
        BY <2>1, <3>1 DEF With
      <4> QED
        BY <2>2, <3>1, <4>1
    <3>2. CASE k # asked
      <4>1. k \in DOMAIN cache /\ cache'[k] = cache[k]
        BY <2>1, <2>3, <3>2 DEF With
      <4> QED
        BY <1>0, <4>1 DEF CacheInv
    <3> QED
      BY <3>1, <3>2
  <2> QED
    BY <2>3 DEF CacheInv
<1>2. ASSUME NEW key \in DOMAIN cache, Expire(key) PROVE CacheInv'
  BY <1>0, <1>2 DEF CacheInv, Expire
<1>3. CASE UNCHANGED cache
  BY <1>0, <1>3 DEF CacheInv
<1>4. \/ \E data \in SearchRequests : Search(data)
      \/ Hit \/ Miss \/ (\E fares \in Answers : Fetch(fares)) \/ FetchFails \/ Respond
      \/ Booking \/ Provider \/ UNCHANGED vars
      => UNCHANGED cache
  BY DEF Search, Hit, Miss, Fetch, FetchFails, Respond, Booking, Provider, Book, GetOffer, PostOrder,
         SaveOrder, Rewrite, Reprice, Withdraw, vars
<1> QED
  BY <1>1, <1>2, <1>3, <1>4 DEF Next, Searching

----------------------------------------------------------------------------
(* The provider's offers.                                                       *)

\* The fields of an offer in the provider's words.
QuoteFields == {"id", "owner", "total_amount", "total_currency", "slices", "passengers"}

\* An offer has a price and numbers its slots.
LEMMA QuotedSlots ==
    ASSUME NEW o, Quoted(o)
    PROVE  /\ HasFields(o, QuoteFields)
           /\ o.total_amount \in Nat
           /\ IsList(o.passengers)
           /\ \A i \in DOMAIN o.passengers : o.passengers[i].id = i
<1>1. PICK fare \in Fares, c \in Criteria :
          /\ o.total_amount \in Nat
          /\ o = [Quote(fare, Duffel!OfferRequest(c)) EXCEPT !.total_amount = o.total_amount]
  BY DEF Quoted
<1>2. HasFields(o, QuoteFields)
  BY <1>1 DEF HasFields, QuoteFields, Quote
<1>3. o.passengers = Quote(fare, Duffel!OfferRequest(c)).passengers
  BY <1>1 DEF Quote
<1>4. /\ DOMAIN o.passengers = DOMAIN c.passengers
      /\ o.passengers = [i \in DOMAIN c.passengers |-> o.passengers[i]]
      /\ \A i \in DOMAIN o.passengers : o.passengers[i].id = i
  BY <1>3 DEF Quote, Duffel!OfferRequest
<1>5. Len(c.passengers) \in Nat /\ DOMAIN c.passengers = 1..Len(c.passengers)
  BY CriteriaAreSound DEF IsList
<1>6. IsList(o.passengers)
  BY <1>4, <1>5, ListOf
<1> QED
  BY <1>1, <1>2, <1>4, <1>6

\* With another price it is an offer of the same fare for the same question.
LEMMA QuotedAgain ==
    ASSUME NEW o, Quoted(o), NEW a \in Nat
    PROVE  LET p == [o EXCEPT !.total_amount = a] IN Quoted(p) /\ p.id = o.id
<1> DEFINE p == [o EXCEPT !.total_amount = a]
<1>1. PICK fare \in Fares, c \in Criteria :
          o = [Quote(fare, Duffel!OfferRequest(c)) EXCEPT !.total_amount = o.total_amount]
  BY DEF Quoted
<1>2. HasFields(o, QuoteFields)
  BY QuotedSlots
<1>3. p.total_amount = a /\ p.id = o.id
  BY <1>2 DEF HasFields, QuoteFields
<1>4. p = [Quote(fare, Duffel!OfferRequest(c)) EXCEPT !.total_amount = a]
  BY <1>1
<1> HIDE DEF p
<1>5. Quoted(p)
  BY <1>3, <1>4 DEF Quoted
<1> QED
  BY <1>3, <1>5 DEF p

\* What the provider has was made for a question, and no two live offers have one id.
LEMMA MarketStep == IInv /\ [Next]_vars => MarketInv'
<1> SUFFICES ASSUME IInv, [Next]_vars PROVE MarketInv'
  OBVIOUS
<1>0. MarketInv
  BY DEF IInv
<1>1. ASSUME NEW fares \in Answers, Fetch(fares) PROVE MarketInv'
  <2> DEFINE request == Duffel!OfferRequest(asked)
             raw     == [i \in DOMAIN fares |-> Quote(fares[i], request)]
  <2>1. asked \in Criteria
    BY <1>1 DEF IInv, SearchInv, Fetch
  <2>2. \A i \in DOMAIN fares : fares[i] \in Fares /\ raw[i] = Quote(fares[i], request)
    BY AnswersAreLists
  <2>3. \A i \in DOMAIN fares : Quoted(raw[i]) /\ raw[i].id = <<fares[i].name, request>>
    <3> TAKE i \in DOMAIN fares
    <3>1. /\ raw[i].total_amount \in Nat /\ raw[i].id = <<fares[i].name, request>>
          /\ raw[i] = [Quote(fares[i], request) EXCEPT !.total_amount = raw[i].total_amount]
      BY <2>2, FaresAssumption DEF Quote
    <3> QED
      BY <2>1, <2>2, <3>1 DEF Quoted
  <2>4. \A i, j \in DOMAIN fares : raw[i].id = raw[j].id => i = j
    <3> SUFFICES ASSUME NEW i \in DOMAIN fares, NEW j \in DOMAIN fares, raw[i].id = raw[j].id
                 PROVE  i = j
      OBVIOUS
    <3>1. fares[i].name = fares[j].name
      BY <2>3
    <3>2. fares[i] = fares[j]
      BY <2>2, <3>1, FaresAssumption
    <3> QED
      BY <3>2, AnswersAreLists
  <2>5. \/ UNCHANGED market
        \/ market' = {o \in market : \A i \in DOMAIN raw : raw[i].id # o.id}
                          \cup {raw[i] : i \in DOMAIN raw}
    BY <1>1 DEF Fetch
  <2>6. DOMAIN raw = DOMAIN fares
    OBVIOUS
  <2> HIDE DEF raw
  <2> QED
    BY <1>0, <2>3, <2>4, <2>5, <2>6 DEF MarketInv
<1>2. ASSUME NEW o \in market, Reprice(o) PROVE MarketInv'
  <2> DEFINE p == [o EXCEPT !.total_amount = @ + Raise]
  <2>1. Quoted(o) /\ o.total_amount + Raise \in Nat
    BY <1>0, QuotedSlots DEF MarketInv
  <2>2. Quoted(p) /\ p.id = o.id
    BY <2>1, QuotedAgain
  <2>3. market' = (market \ {o}) \cup {p}
    BY <1>2 DEF Reprice
  <2> HIDE DEF p
  <2> QED
    BY <1>0, <2>2, <2>3 DEF MarketInv
<1>3. ASSUME NEW o \in market, Withdraw(o) PROVE MarketInv'
  BY <1>0, <1>3 DEF MarketInv, Withdraw
<1>4. CASE UNCHANGED market
  BY <1>0, <1>4 DEF MarketInv
<1>5. \/ \E data \in SearchRequests : Search(data)
      \/ Hit \/ Miss \/ FetchFails \/ Store \/ Respond \/ (\E key \in DOMAIN cache : Expire(key))
      \/ Booking \/ UNCHANGED vars
      => UNCHANGED market
  BY DEF Search, Hit, Miss, FetchFails, Store, Respond, Expire, Booking, Book, GetOffer, PostOrder,
         SaveOrder, Rewrite, vars
<1> QED
  BY <1>1, <1>2, <1>3, <1>4, <1>5 DEF Next, Searching, Provider

----------------------------------------------------------------------------
(* Booking.                                                                     *)

\* Slots and passengers, as far as both go: one to one, and in order.
LEMMA BoundInOrder ==
    ASSUME NEW slots, IsList(slots), \A i \in DOMAIN slots : slots[i].id = i,
           NEW passengers \in Parties
    PROVE  LET booked == DuffelPassengers(slots, passengers) IN
           /\ \A i \in DOMAIN booked : booked[i].person = passengers[i]
           /\ \A i, j \in DOMAIN booked : i # j => booked[i].id # booked[j].id
           /\ Len(passengers) >= Len(booked)
<1> DEFINE booked == DuffelPassengers(slots, passengers)
           n      == Len(slots)
           m      == Len(passengers)
           both   == IF n <= m THEN n ELSE m
<1>1. n \in Nat /\ DOMAIN slots = 1..n /\ m \in Nat /\ DOMAIN passengers = 1..m
  BY PartiesAssumption DEF IsList
<1> HIDE DEF n, m
<1>2. booked = [i \in 1..both |-> [id |-> slots[i].id, person |-> passengers[i]]]
  BY <1>1 DEF DuffelPassengers
<1>3. both \in Nat /\ both <= n /\ both <= m
  BY <1>1
<1> HIDE DEF both, booked
<1>4. DOMAIN booked = 1..both /\ Len(booked) = both
  BY <1>2, <1>3, ListOf
<1>5. \A i \in 1..both : booked[i].id = i /\ booked[i].person = passengers[i]
  BY <1>1, <1>2, <1>3
<1> QED
  BY <1>1, <1>3, <1>4, <1>5 DEF booked, m

\* What is sent to the provider for a fetched offer.
Payload(quote, passengers, id) ==
    [offer |-> id, amount |-> quote.total_amount,
     passengers |-> DuffelPassengers(quote.passengers, passengers)]

\* The order the provider makes of it, and names n.
NewOrder(quote, passengers, n) ==
    Duffel!MapOrder([id |-> n, booking_reference |-> n,
                     total_amount |-> quote.total_amount, total_currency |-> quote.total_currency,
                     slices |-> quote.slices], passengers)

\* The order of a booked offer: its amount is what was paid, and its people are on it.
LEMMA OrderIsCharged ==
    ASSUME NEW made, IsList(made), NEW quote, Quoted(quote), NEW passengers \in Parties, NEW id
    PROVE  LET payload == Payload(quote, passengers, id)
               order   == NewOrder(quote, passengers, Len(made) + 1)
               now     == Append(made, payload)
           IN  Booked(order, now) /\ order.total.amount = now[order.id].amount
<1> DEFINE payload == Payload(quote, passengers, id)
           booked  == payload.passengers
           order   == NewOrder(quote, passengers, Len(made) + 1)
           now     == Append(made, payload)
<1>1. order.id = Len(made) + 1 /\ order.passengers = passengers
  BY DEF Duffel!MapOrder, NewOrder
<1>2. HasFields(order, OrderFields)
  BY DEF HasFields, OrderFields, Duffel!MapOrder, NewOrder
<1>3. IsMoney(order.total) /\ order.total.amount = payload.amount
  <2>1. order.total = [amount |-> payload.amount, currency |-> Duffel!Code(quote.total_currency)]
    BY DEF Duffel!MapOrder, Duffel!MakeMoney, NewOrder, Payload
  <2>2. payload.amount \in Nat
    BY QuotedSlots DEF Payload
  <2> HIDE DEF order, payload
  <2> QED
    BY <2>1, <2>2 DEF IsMoney, HasFields
<1>4. /\ \A i \in DOMAIN booked : booked[i].person = passengers[i]
      /\ \A i, j \in DOMAIN booked : i # j => booked[i].id # booked[j].id
      /\ Len(passengers) >= Len(booked)
  <2>1. booked = DuffelPassengers(quote.passengers, passengers)
    BY DEF Payload
  <2> HIDE DEF booked
  <2> QED
    BY <2>1, QuotedSlots, BoundInOrder
<1> HIDE DEF order, payload
<1>5. order.id \in DOMAIN now /\ now[order.id] = payload
  BY <1>1, AppendToList
<1>6. Booked(order, now) /\ order.total.amount = now[order.id].amount
  BY <1>1, <1>2, <1>3, <1>4, <1>5 DEF Booked
<1> QED
  BY <1>6 DEF order, payload

\* The orders there were are as they were when one more is placed.
LEMMA PlacedStays ==
    ASSUME NEW made, IsList(made), NEW payload, NEW doc, Stored(doc, made)
    PROVE  Stored(doc, Append(made, payload))
<1>1. doc.id \in DOMAIN made
  BY DEF Stored, Booked
<1>2. doc.id \in DOMAIN Append(made, payload) /\ Append(made, payload)[doc.id] = made[doc.id]
  BY <1>1, AppendToList
<1> QED
  BY <1>2 DEF Stored, Booked

\* What PostOrder does: nothing, or one more order at the provider, of which we may learn.
LEMMA PostOrderPlaces ==
    ASSUME PostOrder
    PROVE  LET payload == Payload(buying.quote, buying.passengers, buying.id)
               order   == NewOrder(buying.quote, buying.passengers, Len(placed) + 1)
           IN  /\ buying.at = "pay" /\ UNCHANGED <<search, cache, market, orders>>
               /\ \/ UNCHANGED placed /\ buying' = Idle
                  \/ placed' = Append(placed, payload) /\ buying' = Idle
                  \/ /\ placed' = Append(placed, payload)
                     /\ buying' = [buying EXCEPT !.at = "save", !.quote = order]
  BY DEF PostOrder, Payload, NewOrder

\* What is about to be paid is an offer, what is about to be stored an order that was charged.
LEMMA BuyingStep == IInv /\ [Next]_vars => BuyingInv'
<1> SUFFICES ASSUME IInv, [Next]_vars PROVE BuyingInv'
  OBVIOUS
<1>0. BuyingInv
  BY DEF IInv
<1>1. HasFields(Idle, {"at", "id", "passengers", "quote"}) /\ Idle.at = "idle"
  BY DEF Idle, HasFields
<1>2. ASSUME NEW id \in Ids(market), NEW passengers \in Parties, Book(id, passengers) PROVE BuyingInv'
  <2>1. /\ HasFields(buying', {"at", "id", "passengers", "quote"})
        /\ buying'.at = "price" /\ buying'.passengers = passengers
        /\ UNCHANGED placed /\ Len(placed) < MaxOrders
    BY <1>2 DEF Book, Idle, HasFields
  <2> QED
    BY <2>1 DEF BuyingInv
<1>3. CASE buying' = Idle
  BY <1>1, <1>3 DEF BuyingInv
<1>4. CASE GetOffer
  <2>1. ASSUME NEW o \in market, buying.at = "price", buying' = [buying EXCEPT !.at = "pay", !.quote = o]
        PROVE  BuyingInv'
    <3>1. Quoted(o)
      BY DEF IInv, MarketInv
    <3>2. /\ HasFields(buying', {"at", "id", "passengers", "quote"})
          /\ buying'.at = "pay" /\ buying'.quote = o /\ buying'.passengers = buying.passengers
          /\ UNCHANGED placed
      BY <1>0, <1>4, <2>1 DEF BuyingInv, HasFields, GetOffer
    <3> QED
      BY <1>0, <2>1, <3>1, <3>2 DEF BuyingInv
  <2> QED
    BY <1>3, <1>4, <2>1 DEF GetOffer
<1>5. CASE PostOrder
  <2> DEFINE payload == Payload(buying.quote, buying.passengers, buying.id)
             order   == NewOrder(buying.quote, buying.passengers, Len(placed) + 1)
  <2>1. buying.at = "pay"
    BY <1>5, PostOrderPlaces
  <2>2. ASSUME placed' = Append(placed, payload), buying' = [buying EXCEPT !.at = "save", !.quote = order]
        PROVE  BuyingInv'
    <3>1. IsList(placed) /\ Quoted(buying.quote) /\ buying.passengers \in Parties
      BY <1>0, <2>1 DEF IInv, OrdersInv, BuyingInv
    <3>2. Booked(order, placed') /\ order.total.amount = placed'[order.id].amount
      <4>1. /\ Booked(order, Append(placed, payload))
            /\ order.total.amount = Append(placed, payload)[order.id].amount
        BY <3>1, OrderIsCharged
      <4> HIDE DEF order, payload
      <4> QED
        BY <2>2, <4>1
    <3> HIDE DEF order
    <3>3. /\ HasFields(buying', {"at", "id", "passengers", "quote"})
          /\ buying'.at = "save" /\ buying'.quote = order /\ buying'.passengers = buying.passengers
      BY <1>0, <2>2 DEF BuyingInv, HasFields
    <3> QED
      BY <3>1, <3>2, <3>3 DEF BuyingInv
  <2>3. buying' = Idle \/ (placed' = Append(placed, payload)
                              /\ buying' = [buying EXCEPT !.at = "save", !.quote = order])
    BY <1>5, PostOrderPlaces
  <2> QED
    BY <1>3, <2>2, <2>3
<1>6. CASE SaveOrder
  BY <1>3, <1>6 DEF SaveOrder
<1>7. CASE UNCHANGED <<buying, placed>>
  BY <1>0, <1>7 DEF BuyingInv
<1>8. Searching \/ Provider \/ (\E doc \in orders : Rewrite(doc)) \/ UNCHANGED vars
      => UNCHANGED <<buying, placed>>
  BY DEF Searching, Search, Hit, Miss, Fetch, FetchFails, Store, Respond, Expire, Provider, Reprice,
         Withdraw, Rewrite, vars
<1> QED
  BY <1>2, <1>4, <1>5, <1>6, <1>7, <1>8 DEF Next, Booking

\* Orders stay as they were charged, with the people they were booked for, however often they are
\* written again.
LEMMA OrdersStep == IInv /\ [Next]_vars => OrdersInv'
<1> SUFFICES ASSUME IInv, [Next]_vars PROVE OrdersInv'
  OBVIOUS
<1>0. OrdersInv /\ BuyingInv
  BY DEF IInv
<1>1. CASE PostOrder
  <2> DEFINE payload == Payload(buying.quote, buying.passengers, buying.id)
  <2>1. orders' = orders /\ Len(placed) < MaxOrders /\ IsList(placed)
    BY <1>0, <1>1, PostOrderPlaces DEF BuyingInv, OrdersInv
  <2>2. placed' = placed \/ placed' = Append(placed, payload)
    BY <1>1, PostOrderPlaces
  <2> HIDE DEF payload
  <2>3. CASE placed' = placed
    BY <1>0, <2>1, <2>3 DEF OrdersInv
  <2>4. CASE placed' = Append(placed, payload)
    <3>1. IsList(placed') /\ Len(placed') = Len(placed) + 1
      BY <2>1, <2>4, AppendToList
    <3>2. \A doc \in orders' : Stored(doc, placed')
      BY <1>0, <2>1, <2>4, PlacedStays DEF OrdersInv
    <3>3. Len(placed) \in Nat /\ MaxOrders \in Nat
      BY <2>1 DEF IsList, BoundsAssumption
    <3> QED
      BY <2>1, <3>1, <3>2, <3>3 DEF OrdersInv
  <2> QED
    BY <2>2, <2>3, <2>4
<1>2. CASE SaveOrder
  <2> DEFINE order == buying.quote
             doc   == DumpOrder(order)
  <2>1. Booked(order, placed) /\ order.total.amount = placed[order.id].amount
    BY <1>0, <1>2 DEF BuyingInv, SaveOrder
  <2>2. /\ HasFields(doc, OrderFields) /\ IsMoney(doc.total)
        /\ doc.total.amount = TwoDecimals(order.total.amount)
        /\ doc.id = order.id /\ doc.passengers = order.passengers
    BY <2>1, DumpOrderKeeps DEF Booked
  <2>3. orders' \in {orders, orders \cup {doc}} /\ placed' = placed
    BY <1>2 DEF SaveOrder
  <2> HIDE DEF order, doc
  <2>4. doc.total.amount - order.total.amount \in -5..5 /\ doc.total.amount % 10 = 0
    BY <2>1, <2>2, RoundsToTwoDecimals DEF Booked, IsMoney
  <2>5. Stored(doc, placed)
    BY <2>1, <2>2, <2>4 DEF Stored, Booked
  <2> QED
    BY <1>0, <2>3, <2>5 DEF OrdersInv
<1>3. ASSUME NEW doc \in orders, Rewrite(doc) PROVE OrdersInv'
  <2> DEFINE again == DumpOrder(LoadOrder(doc))
  <2>1. Stored(doc, placed)
    BY <1>0 DEF OrdersInv
  <2>2. /\ HasFields(again, OrderFields) /\ IsMoney(again.total)
        /\ again.total.amount = doc.total.amount
        /\ again.id = doc.id /\ again.passengers = doc.passengers
    BY <2>1, RewrittenKeeps DEF Stored, Booked
  <2>3. orders' = (orders \ {doc}) \cup {again} /\ placed' = placed
    BY <1>3 DEF Rewrite
  <2> HIDE DEF again
  <2>4. Stored(again, placed)
    BY <2>1, <2>2 DEF Stored, Booked
  <2> QED
    BY <1>0, <2>3, <2>4 DEF OrdersInv
<1>4. CASE UNCHANGED <<placed, orders>>
  BY <1>0, <1>4 DEF OrdersInv
<1>5. \/ Searching \/ Provider \/ GetOffer \/ UNCHANGED vars
      \/ \E id \in Ids(market), passengers \in Parties : Book(id, passengers)
      => UNCHANGED <<placed, orders>>
  BY DEF Searching, Search, Hit, Miss, Fetch, FetchFails, Store, Respond, Expire, Provider, Reprice,
         Withdraw, Book, GetOffer, vars
<1> QED
  BY <1>1, <1>2, <1>3, <1>4, <1>5 DEF Next, Booking

----------------------------------------------------------------------------
(* The theorems.                                                                *)

\* The invariant holds at the start.
LEMMA InitIInv == Init => IInv
<1> SUFFICES ASSUME Init PROVE IInv
  OBVIOUS
<1>1. IsList(<<>>) /\ Len(<<>>) = 0
  BY DEF IsList
<1>2. SearchInv
  BY DEF Init, SearchInv
<1>3. CacheInv /\ MarketInv
  BY DEF Init, CacheInv, MarketInv
<1>4. BuyingInv
  BY DEF Init, BuyingInv, Idle, HasFields
<1>5. OrdersInv
  BY <1>1, BoundsAssumption DEF Init, OrdersInv
<1> QED
  BY <1>2, <1>3, <1>4, <1>5 DEF IInv

\* Every reachable state has it.
LEMMA Invariance == Spec => []IInv
<1>1. IInv /\ [Next]_vars => IInv'
  BY SearchStep, CacheStep, MarketStep, BuyingStep, OrdersStep DEF IInv
<1> QED
  BY <1>1, InitIInv, PTL DEF Spec

\* TypeOK: the state of search, cache, provider and orders keeps its type.
THEOREM TypeCorrect == Spec => []TypeOK
<1>1. IInv => TypeOK
  <2> SUFFICES ASSUME IInv PROVE TypeOK
    OBVIOUS
  <2>1. \A k \in DOMAIN cache : \A i \in DOMAIN cache[k] : "total_stops" \in DOMAIN cache[k][i]
    <3> TAKE k \in DOMAIN cache
    <3> DEFINE offers == LoadAll(cache[k])
    <3>1. IsAnswer(offers, k) /\ cache[k] = DumpAll(offers)
      BY DEF IInv, CacheInv
    <3> HIDE DEF offers
    <3>2. \A i \in DOMAIN cache[k] : IsOffer(offers[i]) /\ cache[k][i] = Dump(offers[i])
      BY <3>1 DEF IsAnswer, DumpAll
    <3> QED
      BY <3>2, DumpShows
  <2>2. \A doc \in orders : doc.id \in DOMAIN placed
    BY DEF IInv, OrdersInv, Stored, Booked
  <2> QED
    BY <2>1, <2>2 DEF IInv, TypeOK, SearchInv, MarketInv, BuyingInv, OrdersInv
<1> QED
  BY <1>1, Invariance, PTL

\* AnswersTheQuestion: what a search answers is about what was asked, whether it was fetched or came
\* from the cache.
THEOREM AnswersAreAbout == Spec => []AnswersTheQuestion
<1>1. IInv => AnswersTheQuestion
  BY DEF IInv, SearchInv, IsAnswer, AnswersTheQuestion
<1> QED
  BY <1>1, Invariance, PTL

\* CheapestOnTop: the prices a client is shown are in order, rounded as they are.
THEOREM ShownCheapestFirst == Spec => []CheapestOnTop
<1>1. IInv => CheapestOnTop
  <2> SUFFICES ASSUME IInv, at = "respond" PROVE CheapestOnTop
    BY DEF CheapestOnTop
  <2>1. IsAnswer(found, asked)
    BY DEF IInv, SearchInv
  <2> QED
    BY <2>1, ShownInOrder DEF CheapestOnTop
<1> QED
  BY <1>1, Invariance, PTL

\* CachedAsServed: an answer from the cache reads as the one that was stored.
THEOREM CacheIsFaithful == Spec => CachedAsServed
<1>1. IInv /\ [Next]_vars => [Hit => DumpAll(found') = cache[CacheKey(asked)]]_vars
  BY DEF IInv, CacheInv, Hit, CacheKey
<1> QED
  BY <1>1, Invariance, PTL DEF Spec, CachedAsServed

\* StoredIsCharged: a stored order shows what was paid, up to half a cent, however often it is rewritten.
THEOREM ChargesAreStored == Spec => []StoredIsCharged
<1>1. IInv => StoredIsCharged
  BY DEF IInv, OrdersInv, Stored, StoredIsCharged
<1> QED
  BY <1>1, Invariance, PTL

\* PassengersBound: a stored order has the people who are on the provider's order, slot by slot.
THEOREM PeopleAreBound == Spec => []PassengersBound
<1>1. IInv => PassengersBound
  BY DEF IInv, OrdersInv, Stored, Booked, PassengersBound
<1> QED
  BY <1>1, Invariance, PTL

\* AdaptersAgree: a journey becomes the same offer whichever of the two adapters it comes through.
THEOREM AdaptersAlwaysAgree == Spec => []AdaptersAgree
<1>1. AdaptersAgree
  BY JourneysAssumption, AdaptersMapAlike DEF AdaptersAgree
<1> QED
  BY <1>1, PTL
=============================================================================

---------------------------- MODULE DomainProofs ----------------------------
(* What the operators of Domain return: rounded money, JSON and back, and the    *)
(* order of the offers, for lists of any length.                                 *)
EXTENDS Domain, FiniteSetTheorems, SequenceTheorems, TLAPS

----------------------------------------------------------------------------
(* Lists.                                                                       *)

\* A function on 1..n is a list of length n.
LEMMA ListOf ==
    ASSUME NEW n \in Nat, NEW s, s = [i \in 1..n |-> s[i]]
    PROVE  IsList(s) /\ Len(s) = n /\ DOMAIN s = 1..n
<1> DEFINE S == {s[i] : i \in 1..n}
<1>1. s \in Seq(S) /\ Len(s) = n
  OBVIOUS
<1> QED
  BY <1>1 DEF IsList

\* Append leaves what was there and puts one more at the end.
LEMMA AppendToList ==
    ASSUME NEW s, IsList(s), NEW e
    PROVE  LET t == Append(s, e) IN
           /\ IsList(t) /\ Len(t) = Len(s) + 1
           /\ DOMAIN t = DOMAIN s \cup {Len(s) + 1}
           /\ \A i \in DOMAIN s : t[i] = s[i]
           /\ t[Len(s) + 1] = e
<1> DEFINE S == {s[i] : i \in DOMAIN s} \cup {e}
           t == Append(s, e)
<1>1. s \in Seq(S) /\ DOMAIN s = 1..Len(s) /\ Len(s) \in Nat
  BY DEF IsList
<1>2. /\ t \in Seq(S) /\ Len(t) = Len(s) + 1
      /\ \A i \in 1..Len(s) : t[i] = s[i]
      /\ t[Len(s) + 1] = e
  BY <1>1, AppendProperties DEF S
<1> HIDE DEF t
<1>3. t = [i \in 1..Len(t) |-> t[i]] /\ DOMAIN t = 1..Len(t)
  BY <1>2, LenProperties
<1> QED
  BY <1>1, <1>2, <1>3 DEF IsList, t

----------------------------------------------------------------------------
(* Money: f"{v:.2f}".                                                           *)

\* Rounding moves an amount by half a cent at most, and leaves two decimals.
LEMMA RoundsToTwoDecimals ==
    ASSUME NEW a \in Int
    PROVE  /\ TwoDecimals(a) \in Int
           /\ TwoDecimals(a) - a \in -5..5
           /\ TwoDecimals(a) % 10 = 0
  BY SMTT(30) DEF TwoDecimals

\* What was rounded stays as it is.
LEMMA RoundsOnce ==
    ASSUME NEW a \in Int, a % 10 = 0
    PROVE  TwoDecimals(a) = a
  BY SMTT(30) DEF TwoDecimals

\* Rounding keeps the order of two amounts.
LEMMA RoundsInOrder ==
    ASSUME NEW a \in Int, NEW b \in Int, a <= b
    PROVE  TwoDecimals(a) <= TwoDecimals(b)
  BY SMTT(30) DEF TwoDecimals

----------------------------------------------------------------------------
(* Models as JSON and back.                                                     *)

\* The fields of an offer and of an order in the normalized models.
OfferFields == {"id", "provider", "owner", "total", "slices", "passenger_types", "cabin_class"}
OrderFields == {"id", "provider", "booking_reference", "status", "total", "slices", "passengers"}

\* A record with these fields and no others.
HasFields(doc, fields) == doc = [f \in fields |-> doc[f]]

\* Money: an amount and a currency.
IsMoney(total) == HasFields(total, {"amount", "currency"}) /\ total.amount \in Int

\* Slices before the computed field is added.
AreSlices(slices) ==
    /\ slices = [i \in DOMAIN slices |-> slices[i]]
    /\ \A i \in DOMAIN slices : HasFields(slices[i], {"origin", "destination", "segments"})

\* An offer as the domain has it.
IsOffer(offer) ==
    HasFields(offer, OfferFields) /\ IsMoney(offer.total) /\ AreSlices(offer.slices)

\* A field that is added and taken out again.
LEMMA WithoutWith ==
    \A fields, field, value, doc :
        HasFields(doc, fields) /\ field \notin fields => Without(With(doc, field, value), field) = doc
  BY DEF Without, With, HasFields

\* The slices survive: stops is computed, and ignored when read.
LEMMA LoadDumpSlices ==
    ASSUME NEW slices, AreSlices(slices)
    PROVE  LoadSlices(DumpSlices(slices)) = slices
<1> DEFINE fields == {"origin", "destination", "segments"}
           dumped == DumpSlices(slices)
<1>1. \A i \in DOMAIN slices : Without(With(slices[i], "stops", Stops(slices[i])), "stops") = slices[i]
  <2> TAKE i \in DOMAIN slices
  <2>1. HasFields(slices[i], fields) /\ "stops" \notin fields
    BY DEF AreSlices
  <2> QED
    BY <2>1, WithoutWith
<1>2. dumped = [i \in DOMAIN slices |-> With(slices[i], "stops", Stops(slices[i]))]
  BY DEF DumpSlices
<1>3. LoadSlices(dumped) = [i \in DOMAIN slices |-> slices[i]]
  BY <1>1, <1>2 DEF LoadSlices
<1> QED
  BY <1>3 DEF AreSlices

\* An offer that goes through JSON comes back with its money rounded, and otherwise as it was.
LEMMA LoadDump ==
    ASSUME NEW offer, IsOffer(offer)
    PROVE  Load(Dump(offer)) = [offer EXCEPT !.total = DumpMoney(@)]
<1> DEFINE dumped == [offer EXCEPT !.total = DumpMoney(@), !.slices = DumpSlices(@)]
<1>1. HasFields(dumped, OfferFields)
  BY DEF IsOffer, HasFields
<1>2. Dump(offer) = With(dumped, "total_stops", TotalStops(offer.slices))
  BY DEF Dump
<1>3. "total_stops" \notin OfferFields
  BY DEF OfferFields
<1> HIDE DEF dumped
<1>4. Without(Dump(offer), "total_stops") = dumped
  BY <1>1, <1>2, <1>3, WithoutWith
<1>5. Load(Dump(offer)) = [dumped EXCEPT !.slices = LoadSlices(@)]
  BY <1>4 DEF Load
<1>6. dumped.slices = DumpSlices(offer.slices)
  BY DEF IsOffer, HasFields, OfferFields, dumped
<1>7. LoadSlices(dumped.slices) = offer.slices
  BY <1>6, LoadDumpSlices DEF IsOffer
<1>8. [dumped EXCEPT !.slices = LoadSlices(@)] = [offer EXCEPT !.total = DumpMoney(@)]
  BY <1>7 DEF IsOffer, HasFields, OfferFields, dumped
<1> QED
  BY <1>5, <1>8

\* Money as JSON is money, and does not change again.
LEMMA DumpMoneyTwice ==
    ASSUME NEW total, IsMoney(total)
    PROVE  /\ IsMoney(DumpMoney(total))
           /\ DumpMoney(total).amount = TwoDecimals(total.amount)
           /\ DumpMoney(DumpMoney(total)) = DumpMoney(total)
<1>1. DumpMoney(total).amount = TwoDecimals(total.amount)
  BY DEF DumpMoney, IsMoney, HasFields
<1>2. TwoDecimals(total.amount) \in Int /\ TwoDecimals(total.amount) % 10 = 0
  BY RoundsToTwoDecimals DEF IsMoney
<1>3. TwoDecimals(TwoDecimals(total.amount)) = TwoDecimals(total.amount)
  BY <1>2, RoundsOnce
<1>4. IsMoney(DumpMoney(total))
  BY <1>1, <1>2 DEF DumpMoney, IsMoney, HasFields
<1>5. DumpMoney(DumpMoney(total)) = DumpMoney(total)
  BY <1>1, <1>3 DEF DumpMoney, IsMoney, HasFields
<1> QED
  BY <1>1, <1>4, <1>5

\* What is read back from JSON is an offer, and is written as it was read.
LEMMA DumpLoadDump ==
    ASSUME NEW offer, IsOffer(offer)
    PROVE  LET again == Load(Dump(offer)) IN
           /\ IsOffer(again)
           /\ again.total.amount = TwoDecimals(offer.total.amount)
           /\ again.slices = offer.slices
           /\ again.passenger_types = offer.passenger_types
           /\ Dump(again) = Dump(offer)
<1> DEFINE again == Load(Dump(offer))
<1>1. again = [offer EXCEPT !.total = DumpMoney(@)]
  BY LoadDump
<1> HIDE DEF again
<1>2. again.total = DumpMoney(offer.total)
  BY <1>1 DEF IsOffer, HasFields, OfferFields
<1>3. again.slices = offer.slices /\ again.passenger_types = offer.passenger_types
  BY <1>1 DEF IsOffer, HasFields, OfferFields
<1>4. HasFields(again, OfferFields)
  BY <1>1 DEF IsOffer, HasFields
<1>5. IsMoney(again.total) /\ again.total.amount = TwoDecimals(offer.total.amount)
  BY <1>2, DumpMoneyTwice DEF IsOffer
<1>6. DumpMoney(again.total) = DumpMoney(offer.total)
  BY <1>2, DumpMoneyTwice DEF IsOffer
<1>7. [again EXCEPT !.total = DumpMoney(@), !.slices = DumpSlices(@)]
          = [offer EXCEPT !.total = DumpMoney(@), !.slices = DumpSlices(@)]
  BY <1>1, <1>2, <1>3, <1>6 DEF IsOffer, HasFields, OfferFields
<1>8. Dump(again) = Dump(offer)
  BY <1>3, <1>7 DEF Dump
<1> QED
  BY <1>3, <1>4, <1>5, <1>8 DEF IsOffer, again

\* An order as JSON has its money rounded, and is otherwise the same order but for its slices.
LEMMA DumpOrderKeeps ==
    ASSUME NEW order, HasFields(order, OrderFields), IsMoney(order.total)
    PROVE  LET doc == DumpOrder(order) IN
           /\ HasFields(doc, OrderFields) /\ IsMoney(doc.total)
           /\ doc.total.amount = TwoDecimals(order.total.amount)
           /\ doc.id = order.id /\ doc.passengers = order.passengers
<1> DEFINE doc == DumpOrder(order)
<1>1. HasFields(doc, OrderFields)
  BY DEF DumpOrder, HasFields
<1>2. /\ doc.total = DumpMoney(order.total)
      /\ doc.id = order.id /\ doc.passengers = order.passengers
  BY DEF DumpOrder, HasFields, OrderFields
<1> HIDE DEF doc
<1>3. IsMoney(doc.total) /\ doc.total.amount = TwoDecimals(order.total.amount)
  BY <1>2, DumpMoneyTwice
<1> QED
  BY <1>1, <1>2, <1>3 DEF doc

\* A document that is read and written again keeps its amount.
LEMMA RewrittenKeeps ==
    ASSUME NEW doc, HasFields(doc, OrderFields), IsMoney(doc.total), doc.total.amount % 10 = 0
    PROVE  LET again == DumpOrder(LoadOrder(doc)) IN
           /\ HasFields(again, OrderFields) /\ IsMoney(again.total)
           /\ again.total.amount = doc.total.amount
           /\ again.id = doc.id /\ again.passengers = doc.passengers
<1> DEFINE order == LoadOrder(doc)
           again == DumpOrder(order)
<1>1. /\ HasFields(order, OrderFields) /\ order.total = doc.total
      /\ order.id = doc.id /\ order.passengers = doc.passengers
  BY DEF LoadOrder, HasFields, OrderFields
<1> HIDE DEF order
<1>2. /\ HasFields(again, OrderFields) /\ IsMoney(again.total)
      /\ again.total.amount = TwoDecimals(doc.total.amount)
      /\ again.id = doc.id /\ again.passengers = doc.passengers
  BY <1>1, DumpOrderKeeps
<1>3. TwoDecimals(doc.total.amount) = doc.total.amount
  BY RoundsOnce DEF IsMoney
<1> HIDE DEF again
<1>4. /\ HasFields(again, OrderFields) /\ IsMoney(again.total)
      /\ again.total.amount = doc.total.amount
      /\ again.id = doc.id /\ again.passengers = doc.passengers
  BY <1>2, <1>3
<1> QED
  BY <1>4 DEF again, order

\* The amount that is shown is the rounded one, and the computed field is there.
LEMMA DumpShows ==
    ASSUME NEW offer, IsOffer(offer)
    PROVE  /\ Dump(offer).total.amount = TwoDecimals(offer.total.amount)
           /\ "total_stops" \in DOMAIN Dump(offer)
<1> DEFINE dumped == [offer EXCEPT !.total = DumpMoney(@), !.slices = DumpSlices(@)]
<1>1. HasFields(dumped, OfferFields) /\ dumped.total = DumpMoney(offer.total)
  BY DEF IsOffer, HasFields, OfferFields
<1>2. Dump(offer).total = dumped.total
  <2>1. Dump(offer) = With(dumped, "total_stops", TotalStops(offer.slices))
    BY DEF Dump
  <2> QED
    BY <1>1, <2>1 DEF With, HasFields, OfferFields
<1>3. Dump(offer).total.amount = TwoDecimals(offer.total.amount)
  BY <1>1, <1>2, DumpMoneyTwice DEF IsOffer
<1>4. "total_stops" \in DOMAIN Dump(offer)
  BY DEF Dump, With
<1> QED
  BY <1>3, <1>4

----------------------------------------------------------------------------
(* offers.sort(key=lambda o: o.total.amount).                                   *)

\* The sort key, with the position as the last word.
Before(offers, i, j) ==
    \/ offers[i].total.amount < offers[j].total.amount
    \/ offers[i].total.amount = offers[j].total.amount /\ i < j

\* The offers that go before one, and how many they are.
Ahead(offers, i) == {j \in DOMAIN offers : Before(offers, j, i)}
Rank(offers, i)  == Cardinality(Ahead(offers, i))

\* The one of each two that goes before the other has the lower rank.
LEMMA RanksDiffer ==
    ASSUME NEW n \in Nat, NEW offers, DOMAIN offers = 1..n,
           \A i \in 1..n : offers[i].total.amount \in Int
    PROVE  /\ \A i \in 1..n : Rank(offers, i) \in 0..(n - 1)
           /\ \A i, j \in 1..n : Before(offers, i, j) => Rank(offers, i) < Rank(offers, j)
           /\ \A i, j \in 1..n : i # j => Before(offers, i, j) \/ Before(offers, j, i)
<1> DEFINE price(i) == offers[i].total.amount
<1>1. \A i \in 1..n : price(i) \in Int
  OBVIOUS
<1>2. \A i, j \in 1..n :
          Before(offers, i, j) <=> price(i) < price(j) \/ (price(i) = price(j) /\ i < j)
  BY DEF Before
<1>3. \A i \in 1..n : Ahead(offers, i) = {j \in 1..n : Before(offers, j, i)}
  BY DEF Ahead
<1> HIDE DEF price
<1>4. \A i \in 1..n : Ahead(offers, i) \subseteq (1..n) \ {i}
  BY <1>1, <1>2, <1>3
<1>5. IsFiniteSet(1..n) /\ Cardinality(1..n) = n
  BY FS_Interval
<1>6. ASSUME NEW i \in 1..n
      PROVE  IsFiniteSet(Ahead(offers, i)) /\ Rank(offers, i) \in 0..(n - 1)
  <2>1. IsFiniteSet((1..n) \ {i}) /\ Cardinality((1..n) \ {i}) = n - 1
    BY <1>5, FS_RemoveElement
  <2>2. IsFiniteSet(Ahead(offers, i)) /\ Cardinality(Ahead(offers, i)) <= n - 1
    BY <1>4, <2>1, FS_Subset
  <2> QED
    BY <2>2, FS_CardinalityType DEF Rank
<1>7. ASSUME NEW i \in 1..n, NEW j \in 1..n, Before(offers, i, j)
      PROVE  Rank(offers, i) < Rank(offers, j)
  <2>1. Ahead(offers, i) \subseteq Ahead(offers, j)
    BY <1>1, <1>2, <1>3, <1>7
  <2>2. i \in Ahead(offers, j) /\ i \notin Ahead(offers, i)
    BY <1>3, <1>4, <1>7
  <2>3. /\ Rank(offers, i) <= Rank(offers, j)
        /\ Rank(offers, i) = Rank(offers, j) => Ahead(offers, i) = Ahead(offers, j)
    BY <1>6, <2>1, FS_Subset DEF Rank
  <2> QED
    BY <1>6, <2>2, <2>3
<1>8. \A i, j \in 1..n : i # j => Before(offers, i, j) \/ Before(offers, j, i)
  BY <1>1, <1>2
<1> QED
  BY <1>6, <1>7, <1>8

\* So there is one offer of each rank.
LEMMA RanksAreTaken ==
    ASSUME NEW n \in Nat, NEW offers, DOMAIN offers = 1..n,
           \A i \in 1..n : offers[i].total.amount \in Int
    PROVE  \A m \in 1..n : \E i \in 1..n : Rank(offers, i) = m - 1
<1> DEFINE rank == [i \in 1..n |-> Rank(offers, i)]
<1>1. rank \in [1..n -> 0..(n - 1)]
  BY RanksDiffer
<1>2. \A i, j \in 1..n : i # j => rank[i] # rank[j]
  <2> SUFFICES ASSUME NEW i \in 1..n, NEW j \in 1..n, i # j PROVE Rank(offers, i) # Rank(offers, j)
    OBVIOUS
  <2>1. Rank(offers, i) < Rank(offers, j) \/ Rank(offers, j) < Rank(offers, i)
    BY RanksDiffer
  <2> QED
    BY <2>1, RanksDiffer
<1>3. rank \in Injection(1..n, 0..(n - 1))
  BY <1>1, <1>2 DEF Injection, IsInjective
<1>4. /\ IsFiniteSet(0..(n - 1)) /\ Cardinality(0..(n - 1)) = n
      /\ Cardinality(1..n) = n
  <2>1. 0 \in Int /\ 1 \in Int /\ n \in Int /\ n - 1 \in Int
    OBVIOUS
  <2>2. IsFiniteSet(0..(n - 1)) /\ Cardinality(0..(n - 1)) = IF 0 > n - 1 THEN 0 ELSE n - 1 - 0 + 1
    BY <2>1, FS_Interval
  <2>3. Cardinality(1..n) = IF 1 > n THEN 0 ELSE n - 1 + 1
    BY <2>1, FS_Interval
  <2> QED
    BY <2>2, <2>3
<1>5. rank \in Surjection(1..n, 0..(n - 1))
  BY <1>3, <1>4, FS_Injection
<1>6. \A m \in 1..n : m - 1 \in 0..(n - 1)
  OBVIOUS
<1>7. \A r \in 0..(n - 1) : \E i \in 1..n : rank[i] = r
  BY <1>5 DEF Surjection
<1> QED
  BY <1>6, <1>7

\* Sorting rearranges the offers, puts no dearer one before a cheaper one, and leaves those of one
\* price as they came.
THEOREM CheapestFirstSorts ==
    ASSUME NEW n \in Nat, NEW offers, DOMAIN offers = 1..n,
           \A i \in 1..n : offers[i].total.amount \in Int
    PROVE  LET sorted == CheapestFirst(offers) IN
           /\ sorted = [m \in 1..n |-> sorted[m]]
           /\ \E from \in Bijection(1..n, 1..n) :
                 /\ \A m \in 1..n : sorted[m] = offers[from[m]]
                 /\ \A m, k \in 1..n :
                       m < k /\ sorted[m].total.amount = sorted[k].total.amount => from[m] < from[k]
           /\ \A m, k \in 1..n : m < k => sorted[m].total.amount <= sorted[k].total.amount
<1> DEFINE sorted == CheapestFirst(offers)
           from   == [m \in 1..n |-> CHOOSE i \in 1..n : Rank(offers, i) = m - 1]
<1>1. sorted = [m \in 1..n |-> offers[from[m]]]
  BY DEF CheapestFirst, Rank, Ahead, Before
<1>2. \A m \in 1..n : from[m] \in 1..n /\ Rank(offers, from[m]) = m - 1
  BY RanksAreTaken
<1> HIDE DEF from, sorted
<1>3. \A m, k \in 1..n : from[m] = from[k] => m = k
  <2> SUFFICES ASSUME NEW m \in 1..n, NEW k \in 1..n, from[m] = from[k] PROVE m = k
    OBVIOUS
  <2>1. m - 1 = k - 1
    BY <1>2
  <2> QED
    BY <2>1
<1>4. from \in Bijection(1..n, 1..n)
  <2>1. from \in [1..n -> 1..n]
    BY <1>2 DEF from
  <2>2. from \in Injection(1..n, 1..n)
    BY <2>1, <1>3 DEF Injection, IsInjective
  <2>3. IsFiniteSet(1..n)
    BY FS_Interval
  <2> QED
    BY <2>2, <2>3, FS_Injection DEF Bijection
<1>5. ASSUME NEW m \in 1..n, NEW k \in 1..n, m < k
      PROVE  /\ sorted[m].total.amount <= sorted[k].total.amount
             /\ sorted[m].total.amount = sorted[k].total.amount => from[m] < from[k]
  <2> DEFINE i == from[m]
             j == from[k]
  <2>1. i \in 1..n /\ j \in 1..n /\ Rank(offers, i) < Rank(offers, j)
    BY <1>2, <1>5
  <2>2. ~ Before(offers, j, i)
    BY <2>1, RanksDiffer
  <2>3. i # j
    BY <1>3, <1>5
  <2>4. /\ offers[i].total.amount <= offers[j].total.amount
        /\ offers[i].total.amount = offers[j].total.amount => i < j
    BY <2>1, <2>2, <2>3 DEF Before
  <2> QED
    BY <1>1, <2>4
<1>6. /\ sorted = [m \in 1..n |-> sorted[m]]
      /\ \A m \in 1..n : sorted[m] = offers[from[m]]
  BY <1>1
<1> QED
  BY <1>4, <1>5, <1>6 DEF sorted

----------------------------------------------------------------------------
(* Offer.total_stops.                                                           *)

\* What a slice adds.  (How any number of slices add up would take an induction.)
LEMMA StopsAdded ==
    ASSUME NEW slices, Len(slices) \in 1..2,
           \A n \in 1..Len(slices) : Stops(slices[n]) \in Int
    PROVE  TotalStops(slices) =
               IF Len(slices) = 1 THEN Stops(slices[1]) ELSE Stops(slices[1]) + Stops(slices[2])
<1> DEFINE last   == Len(slices)
           stops(n) == Stops(slices[n])
           Sums(f) == f = [n \in 0..last |-> IF n = 0 THEN 0 ELSE f[n - 1] + stops(n)]
           upTo   == CHOOSE f : Sums(f)
           sum    == [n \in 0..last |-> CASE n = 0 -> 0 [] n = 1 -> stops(1)
                                           [] OTHER -> stops(1) + stops(2)]
<1>1. last \in 1..2 /\ \A n \in 1..last : stops(n) \in Int
  OBVIOUS
<1>2. TotalStops(slices) = upTo[last]
  BY DEF TotalStops
<1> HIDE DEF last, stops
<1>3. Sums(sum)
  <2> DEFINE next == [n \in 0..last |-> IF n = 0 THEN 0 ELSE sum[n - 1] + stops(n)]
  <2>1. \A n \in 0..last : sum[n] = next[n]
    BY <1>1
  <2> QED
    BY <2>1
<1>4. Sums(upTo)
  <2> HIDE DEF Sums, sum
  <2> QED
    BY <1>3
<1> HIDE DEF upTo
<1>5. upTo[0] = 0 /\ upTo[1] = stops(1) /\ (last = 2 => upTo[2] = stops(1) + stops(2))
  BY <1>1, <1>4
<1> QED
  BY <1>1, <1>2, <1>5 DEF last, stops
=============================================================================

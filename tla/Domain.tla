------------------------------- MODULE Domain -------------------------------
(* The normalized models of domain/models.py that search, cache and booking     *)
(* speak: what their validators accept, what they compute, and what becomes of   *)
(* them in JSON and back (the Redis offer cache, the orders collection, HTTP).   *)
(*                                                                               *)
(* A code (airport, carrier, currency) is given as somebody wrote it: a record   *)
(* of the code meant and of how it is spelled.  Amounts are in tenths of a cent, *)
(* so that a third decimal can be told.  Names, times of day and aircraft are    *)
(* left out.                                                                     *)
EXTENDS Integers, Sequences, FiniteSets

CONSTANT None   \* Python's None

\* Enums of domain/enums.py.
CabinClasses   == {"economy", "premium_economy", "business", "first"}
PassengerTypes == {"adult", "child", "infant_without_seat"}
PlaceTypes     == {"airport", "city"}

\* _airport_code, _carrier_code and _currency_iso4217: strip().upper(), then the form is checked.
\* The spellings: exact, lower_case, padded, malformed, and null for no code at all.
Acceptable(raw) == raw.spelling \notin {"malformed", "null"}
Code(raw)       == raw.code

\* Where the field may be missing altogether (Carrier | None).
AcceptableOrNone(raw) == raw # None => Acceptable(raw)
CodeOrNone(raw)       == IF raw = None THEN None ELSE Code(raw)

MakePlace(rawCode, type)       == [iata_code |-> Code(rawCode), type |-> type]
MakeMoney(amount, rawCurrency) == [amount |-> amount, currency |-> Code(rawCurrency)]

\* A list, of whatever.
IsList(s) == Len(s) \in Nat /\ s = [i \in 1..Len(s) |-> s[i]]

\* A Slice has a segment and an Offer a slice at least (Field(min_length=1)).
NonEmpty(parts) == Len(parts) >= 1

\* Slice.stops and Offer.total_stops, the computed fields.
Stops(slice) == Len(slice.segments) - 1

TotalStops(slices) ==
    LET upTo[n \in 0..Len(slices)] == IF n = 0 THEN 0 ELSE upTo[n - 1] + Stops(slices[n])
    IN  upTo[Len(slices)]

\* Mutant of CheapestFirst: left in the provider's order.
CheapestFirstAsIs(offers) == offers

\* offers.sort(key=lambda o: o.total.amount), which is stable.
CheapestFirst(offers) ==
    LET Before(i, j) == \/ offers[i].total.amount < offers[j].total.amount
                        \/ offers[i].total.amount = offers[j].total.amount /\ i < j
    IN  [n \in DOMAIN offers |->
            offers[CHOOSE i \in DOMAIN offers :
                       Cardinality({j \in DOMAIN offers : Before(j, i)}) = n - 1]]

----------------------------------------------------------------------------

\* Mutant of TwoDecimals: money serialized as it is held only looks right while nobody reads it
\* back; rounding away from zero moves with every turn.
TwoDecimalsAway(amount) == 10 * ((amount + 10) \div 10)

\* f"{v:.2f}" of a Decimal: two decimals, a tie goes to the even one.
TwoDecimals(amount) ==
    LET cents == amount \div 10
        rest  == amount % 10
    IN  10 * (IF rest > 5 \/ (rest = 5 /\ cents % 2 = 1) THEN cents + 1 ELSE cents)

\* A JSON object with one more field, or with one less.
With(doc, field, value) ==
    [f \in DOMAIN doc \cup {field} |-> IF f = field THEN value ELSE doc[f]]
Without(doc, field) == [f \in DOMAIN doc \ {field} |-> doc[f]]

DumpMoney(total)  == [total EXCEPT !.amount = TwoDecimals(@)]
DumpSlices(slices) == [i \in DOMAIN slices |-> With(slices[i], "stops", Stops(slices[i]))]

\* Mutant of Dump: the computed fields of the offer are left out.
DumpWithoutStops(offer) == [offer EXCEPT !.total = DumpMoney(@), !.slices = DumpSlices(@)]

\* model_dump(mode="json"): money with two decimals, the computed fields beside the others.
Dump(offer) ==
    With([offer EXCEPT !.total = DumpMoney(@), !.slices = DumpSlices(@)],
         "total_stops", TotalStops(offer.slices))

LoadSlices(slices) == [i \in DOMAIN slices |-> Without(slices[i], "stops")]

\* Offer.model_validate of such a document: Offer and Slice ignore the computed fields.
Load(doc) == [Without(doc, "total_stops") EXCEPT !.slices = LoadSlices(@)]

\* An Order has no computed field of its own; its slices have.
DumpOrder(order) == [order EXCEPT !.total = DumpMoney(@), !.slices = DumpSlices(@)]
LoadOrder(doc)   == [doc EXCEPT !.slices = LoadSlices(@)]

----------------------------------------------------------------------------

\* SearchRequestSerializer and build_criteria: no passengers, or an empty list, is one adult.
Adult == [type |-> "adult", age |-> None]

BuildCriteria(data) ==
    [origin          |-> Code(data.origin),
     destination     |-> Code(data.destination),
     departure_date  |-> data.departure_date,
     return_date     |-> data.return_date,
     cabin_class     |-> data.cabin_class,
     passengers      |-> IF data.passengers = <<>> THEN <<Adult>> ELSE data.passengers,
     max_connections |-> data.max_connections]

\* The validators of SearchCriteria: codes, and the rules across fields (on the codes as normalized).
ValidRequest(data) ==
    /\ Acceptable(data.origin) /\ Acceptable(data.destination)
    /\ Code(data.origin) # Code(data.destination)
    /\ data.return_date # None => data.return_date >= data.departure_date
=============================================================================

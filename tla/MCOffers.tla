------------------------------ MODULE MCOffers ------------------------------
(* An instance of Offers for TLC.                                                *)
EXTENDS Offers

Spelled(code, spelling) == [code |-> code, spelling |-> spelling]

Ask(from, to, back, passengers) ==
    [origin |-> from, destination |-> to, departure_date |-> 2, return_date |-> back,
     cabin_class |-> "economy", passengers |-> passengers, max_connections |-> 1]

Child == [type |-> "child", age |-> 7]

\* One question in two spellings, the same with a return for two, and what the domain refuses.
TheRequests ==
    {Ask(Exactly("LHR"), Exactly("JFK"), None, <<>>),
     Ask(Spelled("LHR", "lower_case"), Exactly("JFK"), None, <<Adult>>),
     Ask(Exactly("LHR"), Exactly("JFK"), 3, <<Adult, Child>>),
     Ask(Exactly("LHR"), Exactly("JFK"), 1, <<Adult, Child>>),
     Ask(Exactly("LHR"), Spelled("LHR", "lower_case"), None, <<>>),
     Ask(Spelled("LHR", "malformed"), Exactly("JFK"), None, <<>>)}

Fare(name, price, stops, spelling) ==
    [name |-> name, price |-> price, stops |-> stops, spelling |-> spelling, place |-> "airport",
     cabins |-> <<"economy">>]

\* Ties in the third decimal that are rounded down and up, a connection, a slice without segments, a place without a code.
TheFares ==
    {Fare("direct", 100025, 0, "exact"), Fare("connection", 99995, 1, "exact"),
     Fare("empty", 50000, -1, "exact"), Fare("nowhere", 50000, 0, "null")}

TheParties == {<<"ann">>, <<"ann", "bob">>}

Leg(id, from, to, cabin) ==
    [id |-> id, from |-> from, to |-> to, date |-> 2, carrier |-> "BA", cabin |-> cabin]

Slices(out, from, to) ==
    {<<Leg(<<out, 1>>, from, to, c)>> : c \in {"economy", "business"}} \cup
    {<<Leg(<<out, 1>>, from, "AMS", c), Leg(<<out, 2>>, "AMS", to, d)>> : c, d \in {"economy", "business"}}

TheJourneys ==
    [id : {"j"}, owner : {"LH"}, price : {100005},
     slices : {<<s>> : s \in Slices(1, "LHR", "JFK")} \cup
              {<<s, t>> : s \in Slices(1, "LHR", "JFK"), t \in Slices(2, "JFK", "LHR")},
     party : {<<p>> : p \in PassengerTypes} \cup {<<"adult", p>> : p \in PassengerTypes}]
=============================================================================

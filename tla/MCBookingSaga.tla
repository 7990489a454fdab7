--------------------------- MODULE MCBookingSaga ---------------------------
(* BookingSaga for TLC: a booking, and a run of a longer saga that has a step in  *)
(* the middle without a compensation.                                            *)
EXTENDS BookingSaga

CONSTANTS booking, other

MCRuns        == {booking, other}
MCBookings    == {booking}
MCN           == [r \in MCRuns |-> IF r = booking THEN 3 ELSE 4]
MCCompensable == [r \in MCRuns |-> IF r = booking THEN {1, 2} ELSE {1, 3, 4}]
=============================================================================

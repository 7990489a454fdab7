----------------------------- MODULE MCBooking -----------------------------
(* Instances of Booking for TLC.  Requests are interchangeable: Booking treats   *)
(* them only through =, \in and functions over them.                             *)
EXTENDS Booking, TLC

RequestSymmetry == Permutations(Requests)
=============================================================================

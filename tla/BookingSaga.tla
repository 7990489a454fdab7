---------------------------- MODULE BookingSaga ----------------------------
(* build_booking_saga of bookings/saga.py: the saga reserve, pay, ticket, where  *)
(* _void undoes _reserve, _refund undoes _pay, and a ticket is not undone.       *)
EXTENDS Saga

CONSTANT Bookings   \* the runs of this saga

reserve == 1
pay     == 2
ticket  == 3

ASSUME BookingsAssumption ==
    \A r \in Bookings : r \in Runs /\ N[r] = ticket /\ Compensable[r] = {reserve, pay}

\* What becomes of the customer's money without a fault: it is taken for good only with a
\* ticket, and a reservation is not left unpaid.
PaidOnlyForTicket ==
    \A r \in Bookings : Sound(r) /\ at[r] \in {"completed", "failed"} =>
        /\ reserve \in standing[r] <=> ticket \in standing[r]
        /\ pay \in standing[r] <=> ticket \in standing[r]
=============================================================================

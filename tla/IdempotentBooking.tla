------------------------- MODULE IdempotentBooking -------------------------
(* What the documentation of the booking endpoint promises about an idempotency  *)
(* key (bookings/services.py, ADR 0004): the key is bound to at most one order,  *)
(* the binding never changes, and every client that is told of success for the   *)
(* key is given exactly the bound order.                                         *)
CONSTANTS Keys, Orders, NoOrder

VARIABLES
    bound,   \* the order each key is bound to, or NoOrder
    handed   \* pairs <<key, order>> that clients were given

promise == <<bound, handed>>

Init ==
    /\ bound = [k \in Keys |-> NoOrder]
    /\ handed = {}

Bind(k, o) ==
    /\ bound[k] = NoOrder
    /\ bound' = [bound EXCEPT ![k] = o]
    /\ UNCHANGED handed

HandOut(k) ==
    /\ bound[k] # NoOrder
    /\ handed' = handed \cup {<<k, bound[k]>>}
    /\ UNCHANGED bound

Next ==
    \E k \in Keys : HandOut(k) \/ \E o \in Orders : Bind(k, o)

Spec == Init /\ [][Next]_promise
=============================================================================

------------------------------ MODULE FlyDesk ------------------------------
(* The whole way of an order: the booking endpoint (Booking) stores it together  *)
(* with its outbox event, and relay and worker (EventPipeline) bring it to its   *)
(* ticket.  The two meet in the orders collection: the write that puts a         *)
(* document there is the pipeline's Confirm.                                     *)
EXTENDS Integers, Sequences, FiniteSets

CONSTANTS Requests, Keys, NoKey, NoOrder, RequestTimeout, ReservationTTL,   \* see Booking
          Absent, BatchLimit, MaxCrashes                                    \* see EventPipeline

VARIABLES pc, key, left, answer, returned, ttl, wire, booked, stored, blind,
          doc, relayAt, batch, log, committed, pos, workerAt, copy, marked, effects,
          relayCrashes, workerCrashes

Endpoint == INSTANCE Booking
Pipeline == INSTANCE EventPipeline WITH Orders <- Requests

\* What the two modules assume of the constants.
ASSUME EndpointAssumption ==
    /\ NoKey \notin Keys /\ NoOrder \notin Requests
    /\ RequestTimeout \in Nat /\ ReservationTTL \in Nat /\ 2 * RequestTimeout < ReservationTTL
ASSUME PipelineAssumption ==
    /\ {"poll", "publish"} \cap Requests = {}
    /\ Absent \notin [status : {"CONFIRMED", "TICKETED"}, published : BOOLEAN]
    /\ BatchLimit \in Nat \ {0} /\ MaxCrashes \in Nat

endpoint == <<pc, key, left, answer, returned, ttl, wire, booked, stored, blind>>
pipeline == <<doc, relayAt, batch, log, committed, pos, workerAt, copy, marked, effects,
              relayCrashes, workerCrashes>>
vars     == <<endpoint, pipeline>>

Init == Endpoint!Init /\ Pipeline!Init

\* Mutant of Stores: only the endpoint's own state changes, and the event is lost.
StoresWithoutEvent(o) == UNCHANGED pipeline

\* repository.save of a new order writes order and outbox event as one document.
Stores(o) == Pipeline!Confirm(o)

\* What a step of the endpoint does to the pipeline: nothing, unless it stores an order.
Confirms ==
    IF stored' = stored THEN UNCHANGED pipeline
    ELSE \E o \in stored' \ stored : Stores(o)

EndpointStep == Endpoint!Next /\ Confirms

\* A step of relay or worker; Confirm is not theirs.
PipelineStep ==
    /\ Pipeline!Relay \/ Pipeline!RelayCrash \/ Pipeline!Worker \/ Pipeline!WorkerCrash
    /\ UNCHANGED endpoint

Next == EndpointStep \/ PipelineStep

Spec == Init /\ [][Next]_vars

\* Handlers go on unless they are killed, time passes, relay and worker are restarted and go on.
Fairness ==
    /\ \A r \in Requests : WF_vars(Endpoint!Handler(r) /\ Confirms)
    /\ WF_vars(Endpoint!Tick /\ Confirms)
    /\ WF_vars(Pipeline!Relay /\ UNCHANGED endpoint)
    /\ WF_vars(Pipeline!Worker /\ UNCHANGED endpoint)

FairSpec == Spec /\ Fairness

----------------------------------------------------------------------------

\* The orders the clients may learn of are the documents relay and worker serve.
TypeOK == Endpoint!TypeOK /\ Pipeline!TypeOK /\ stored = {o \in Requests : Pipeline!Stored(o)}

Tickets(o) == effects[<<"ticketing", o>>]

\* However often a client retries, is charged or is killed, and however often events are delivered:
\* one idempotency key gets one ticket at most, and the request it was booked by was charged.
OneTicketPerKey ==
    \A r, s \in Requests :
        /\ Tickets(r) <= 1
        /\ Tickets(r) > 0 => r \in booked
        /\ Endpoint!SameKey(r, s) => Tickets(r) + Tickets(s) <= 1

\* A request a worker takes ends in an error, with a dead worker or with a ticket: a 201 is for
\* an order, its own or the one it replays, that is ticketed in the end unless the consumers'
\* worker crashes.
EveryRequestServed ==
    \A r \in Requests :
        Endpoint!InFlight(r) ~>
            \/ answer[r] \in Endpoint!Refusals \cup {"killed"}
            \/ answer[r] = "created" /\ \E o \in Requests : returned[r] = o /\ Tickets(o) = 1
            \/ answer[r] = "created" /\ workerCrashes > 0

\* A reservation left behind by a handler that died or failed does not block its key for good: it
\* runs out (ex=RESERVATION_TTL).
ReservationExpires == \A k \in Keys : ttl[k] > 0 ~> ttl[k] = 0
=============================================================================

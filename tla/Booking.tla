------------------------------ MODULE Booking ------------------------------
(* POST /api/v1/bookings: several gunicorn workers run create_booking            *)
(* (bookings/services.py) at the same time against Redis (the reservation of an  *)
(* idempotency key), the flight provider (DuffelProvider.create_order) and the   *)
(* orders collection in MongoDB (bookings/repository.py).                        *)
(*                                                                               *)
(* A provider order is named by the request whose POST created it: the provider  *)
(* makes at most one order out of one POST, and the order's id is also the id of *)
(* the document that stores it.  Time is relative: what is left of a request's   *)
(* allowance and of a key's reservation, so the model needs no clock.            *)
EXTENDS Integers

CONSTANTS
    Requests,        \* HTTP requests; retries and double clicks are requests too
    Keys,            \* values of the Idempotency-Key header
    NoKey,           \* no header, or an empty one: both are falsy in the service
    NoOrder,         \* "the answer carries no order"
    RequestTimeout,  \* what gunicorn allows a request before it kills the worker
    ReservationTTL   \* RESERVATION_TTL of services.py

ASSUME NoKeyAssumption   == NoKey \notin Keys
ASSUME NoOrderAssumption == NoOrder \notin Requests
ASSUME TimeoutAssumption == RequestTimeout \in Nat
\* gunicorn's 30 seconds against the 120 of the reservation.
ASSUME TTLAssumption     == ReservationTTL \in Nat /\ 2 * RequestTimeout < ReservationTTL

VARIABLES
    pc,        \* where the handler of each request stands in create_booking
    key,       \* the idempotency key of each request
    left,      \* time left before gunicorn kills the request's worker
    answer,    \* how the client was answered
    returned,  \* the order in that answer
    ttl,       \* Redis: time left of each key's reservation, 0 when there is none
    wire,      \* POST /air/orders calls the provider has not decided yet
    booked,    \* orders the provider has created and charged
    stored,    \* documents of the orders collection
    blind      \* history: requests that ran while Redis failed to protect their key

redis    == <<ttl, blind>>
provider == <<wire, booked>>
client   == <<answer, returned>>
vars     == <<pc, key, left, answer, returned, ttl, wire, booked, stored, blind>>

----------------------------------------------------------------------------

\* The lines of create_booking at which a handler stands; at "wait" its POST is out.
Calling   == {"price", "post", "wait", "save"}
Running   == {"lookup", "reserve", "recheck", "resolve", "respond"} \cup Calling
Locations == {"idle", "done"} \cup Running

\* "provider_error" stands for OfferNotFoundError, ProviderError and ProviderTimeoutError;
\* "validation_error" is the 400 made of a Pydantic error, "server_error" any 500.
Refusals == {"booking_in_progress", "validation_error", "server_error", "provider_error"}
Answers  == {"none", "killed", "created"} \cup Refusals

InFlight(r) == pc[r] \in Running
Persisted(k) == {s \in stored : key[s] = k}

Goto(r, l) == pc' = [pc EXCEPT ![r] = l]

\* drf_exception_handler turns an exception into an error response and the handler ends.
Refuse(r, why) ==
    /\ Goto(r, "done")
    /\ answer' = [answer EXCEPT ![r] = why]
    /\ UNCHANGED returned

\* The handler has an order to return, still to be sent as 201.
Return(r, o) ==
    /\ Goto(r, "respond")
    /\ returned' = [returned EXCEPT ![r] = o]
    /\ UNCHANGED answer

\* PyMongo gives up on a read (find_one): no handler catches it, hence a 500.
ReadFails(r) == Refuse(r, "server_error")

----------------------------------------------------------------------------

Init ==
    /\ pc = [r \in Requests |-> "idle"]
    /\ key = [r \in Requests |-> NoKey]
    /\ left = [r \in Requests |-> 0]
    /\ answer = [r \in Requests |-> "none"]
    /\ returned = [r \in Requests |-> NoOrder]
    /\ ttl = [k \in Keys |-> 0]
    /\ wire = {} /\ booked = {} /\ stored = {} /\ blind = {}

\* A worker takes a valid request; only keyed requests meet the idempotency layer.
Arrive(r, k) ==
    /\ pc[r] = "idle"
    /\ Goto(r, IF k = NoKey THEN "price" ELSE "lookup")
    /\ key' = [key EXCEPT ![r] = k]
    /\ left' = [left EXCEPT ![r] = RequestTimeout]
    /\ UNCHANGED <<client, redis, provider, stored>>

\* find_by_idempotency_key before anything else: a stored order is replayed.
Lookup(r) ==
    /\ pc[r] = "lookup"
    /\ \/ \E s \in Persisted(key[r]) : Return(r, s)
       \/ Persisted(key[r]) = {} /\ Goto(r, "reserve") /\ UNCHANGED client
       \/ ReadFails(r)
    /\ UNCHANGED <<key, left, redis, provider, stored>>

\* Mutants of Reserve: SET without NX; a reservation no longer than a request.
ReserveWithoutNX(r) ==
    /\ pc[r] = "reserve"
    /\ ttl' = [ttl EXCEPT ![key[r]] = ReservationTTL]
    /\ Goto(r, "price")
    /\ UNCHANGED <<key, left, client, provider, stored, blind>>

ReserveTooShort(r) ==
    /\ pc[r] = "reserve"
    /\ \/ ttl[key[r]] = 0 /\ ttl' = [ttl EXCEPT ![key[r]] = RequestTimeout] /\ Goto(r, "price")
       \/ ttl[key[r]] > 0 /\ Goto(r, "recheck") /\ UNCHANGED ttl
    /\ UNCHANGED <<key, left, client, provider, stored, blind>>

\* SET idem:<key> NX EX RESERVATION_TTL, and Redis answers.
Reserve(r) ==
    /\ pc[r] = "reserve"
    /\ \/ /\ ttl[key[r]] = 0
          /\ ttl' = [ttl EXCEPT ![key[r]] = ReservationTTL]
          /\ Goto(r, "price")
       \/ /\ ttl[key[r]] > 0
          /\ Goto(r, "recheck")
          /\ UNCHANGED ttl
    /\ UNCHANGED <<key, left, client, provider, stored, blind>>

\* SET raises RedisError, whether or not it took effect: _reserve returns True.
ReserveUnprotected(r) ==
    /\ pc[r] = "reserve"
    /\ \/ ttl[key[r]] = 0 /\ ttl' = [ttl EXCEPT ![key[r]] = ReservationTTL]
       \/ UNCHANGED ttl
    /\ blind' = blind \cup {r}
    /\ Goto(r, "price")
    /\ UNCHANGED <<key, left, client, provider, stored>>

\* Mutant of Recheck: wait for the other request's order instead of answering 409.
RecheckWaits(r) ==
    /\ pc[r] = "recheck"
    /\ \E s \in Persisted(key[r]) : Return(r, s)
    /\ UNCHANGED <<key, left, redis, provider, stored>>

\* The key is reserved: replay its order if it is stored by now, else 409.
Recheck(r) ==
    /\ pc[r] = "recheck"
    /\ \/ \E s \in Persisted(key[r]) : Return(r, s)
       \/ Persisted(key[r]) = {} /\ Refuse(r, "booking_in_progress")
       \/ ReadFails(r)
    /\ UNCHANGED <<key, left, redis, provider, stored>>

\* GET /air/offers/<id>: any HTTP failure, a body that is no JSON (500) or no offer (400).
GetOffer(r) ==
    /\ pc[r] = "price"
    /\ \/ Goto(r, "post") /\ UNCHANGED client
       \/ \E why \in {"provider_error", "server_error", "validation_error"} : Refuse(r, why)
    /\ UNCHANGED <<key, left, redis, provider, stored>>

\* POST /air/orders leaves for the provider.
PostOrder(r) ==
    /\ pc[r] = "post"
    /\ Goto(r, "wait")
    /\ wire' = wire \cup {r}
    /\ UNCHANGED <<key, left, client, redis, booked, stored>>

\* The provider books and charges, also when nobody waits for its answer any more.
ProviderBooks(r) ==
    /\ r \in wire
    /\ wire' = wire \ {r}
    /\ booked' = booked \cup {r}
    /\ UNCHANGED <<pc, key, left, client, redis, stored>>

\* The provider refuses the order, or the POST never reaches it.
ProviderDrops(r) ==
    /\ r \in wire
    /\ wire' = wire \ {r}
    /\ UNCHANGED <<pc, key, left, client, redis, booked, stored>>

\* The answer to the POST: an order, or a 2xx body that is no JSON or no order.
ProviderAnswers(r) ==
    /\ pc[r] = "wait" /\ r \in booked
    /\ \/ Goto(r, "save") /\ UNCHANGED client
       \/ \E why \in {"server_error", "validation_error"} : Refuse(r, why)
    /\ UNCHANGED <<key, left, redis, provider, stored>>

\* Mutant of CallFails: the status is not looked at, an error is taken for an order.
CallFailsUnnoticed(r) ==
    /\ pc[r] = "wait"
    /\ Goto(r, "save")
    /\ UNCHANGED <<key, left, client, redis, provider, stored>>

\* httpx times out or loses the connection, or the status is 400 or above; it says
\* nothing of what became of the order.
CallFails(r) ==
    /\ pc[r] = "wait"
    /\ Refuse(r, "provider_error")
    /\ UNCHANGED <<key, left, redis, provider, stored>>

\* Mutant of Save: no unique index.
SaveUnindexed(r) ==
    /\ pc[r] = "save"
    /\ stored' = stored \cup {r}
    /\ Return(r, r)
    /\ UNCHANGED <<key, left, redis, provider>>

\* replace_one(upsert) under the unique index.  The document always has the field
\* idempotency_key, null without a key, so the sparse index covers the null too.
Save(r) ==
    /\ pc[r] = "save"
    /\ \/ /\ Persisted(key[r]) \subseteq {r}
          /\ stored' = stored \cup {r}
          /\ Return(r, r)
       \/ /\ ~(Persisted(key[r]) \subseteq {r})
          /\ Goto(r, "resolve")
          /\ UNCHANGED <<client, stored>>
    /\ UNCHANGED <<key, left, redis, provider>>

\* PyMongo gives up on the write, applied or not: only DuplicateKeyError is caught.
SaveFails(r) ==
    /\ pc[r] = "save"
    /\ \/ UNCHANGED stored
       \/ Persisted(key[r]) \subseteq {r} /\ stored' = stored \cup {r}
    /\ Refuse(r, "server_error")
    /\ UNCHANGED <<key, left, redis, provider>>

\* DuplicateKeyError: the winner's order is returned, and without one it is raised again.
Resolve(r) ==
    /\ pc[r] = "resolve"
    /\ \/ key[r] # NoKey /\ \E s \in Persisted(key[r]) : Return(r, s)
       \/ (key[r] = NoKey \/ Persisted(key[r]) = {}) /\ Refuse(r, "server_error")
       \/ key[r] # NoKey /\ ReadFails(r)
    /\ UNCHANGED <<key, left, redis, provider, stored>>

\* 201 with the order.
Respond(r) ==
    /\ pc[r] = "respond"
    /\ Goto(r, "done")
    /\ answer' = [answer EXCEPT ![r] = "created"]
    /\ UNCHANGED <<key, left, returned, redis, provider, stored>>

\* The worker dies: gunicorn's timeout, a crash, a deployment.  Nobody releases the
\* reservation, and a POST that left stays on the wire.
Kill(r) ==
    /\ InFlight(r)
    /\ Goto(r, "done")
    /\ answer' = [answer EXCEPT ![r] = "killed"]
    /\ returned' = [returned EXCEPT ![r] = NoOrder]
    /\ UNCHANGED <<key, left, redis, provider, stored>>

\* Mutant of Tick: reservations made without EX.
TickWithoutExpiry ==
    /\ \A r \in Requests : InFlight(r) => left[r] > 0
    /\ \E r \in Requests : InFlight(r)
    /\ left' = [r \in Requests |-> IF InFlight(r) THEN left[r] - 1 ELSE left[r]]
    /\ UNCHANGED <<pc, key, client, ttl, provider, stored, blind>>

\* One unit of time.  A request out of time has been killed or has ended by now.
Tick ==
    /\ \A r \in Requests : InFlight(r) => left[r] > 0
    /\ \/ \E k \in Keys : ttl[k] > 0
       \/ \E r \in Requests : InFlight(r)
    /\ left' = [r \in Requests |-> IF InFlight(r) THEN left[r] - 1 ELSE left[r]]
    /\ ttl' = [k \in Keys |-> IF ttl[k] > 0 THEN ttl[k] - 1 ELSE 0]
    /\ UNCHANGED <<pc, key, client, provider, stored, blind>>

\* Redis restarts without a volume: every reservation is gone.
RedisRestart ==
    /\ \E k \in Keys : ttl[k] > 0
    /\ ttl' = [k \in Keys |-> 0]
    /\ blind' = blind \cup {r \in Requests : InFlight(r)}
    /\ UNCHANGED <<pc, key, left, client, provider, stored>>

----------------------------------------------------------------------------

Handler(r) ==
    \/ Lookup(r) \/ Reserve(r) \/ ReserveUnprotected(r) \/ Recheck(r)
    \/ GetOffer(r) \/ PostOrder(r) \/ ProviderAnswers(r) \/ CallFails(r)
    \/ Save(r) \/ SaveFails(r) \/ Resolve(r) \/ Respond(r)

Provider(r) == ProviderBooks(r) \/ ProviderDrops(r)

Next ==
    \/ \E r \in Requests :
          \/ \E k \in Keys \cup {NoKey} : Arrive(r, k)
          \/ Handler(r) \/ Provider(r) \/ Kill(r)
    \/ Tick \/ RedisRestart

Spec == Init /\ [][Next]_vars

\* The behaviours in which Redis never fails, for what must hold at least then.
RedisFault   == RedisRestart \/ \E r \in Requests : ReserveUnprotected(r)
RedisUpSpec  == Init /\ [][Next /\ ~RedisFault]_vars

----------------------------------------------------------------------------

\* Every variable keeps its type; pending and decided provider calls do not overlap.
TypeOK ==
    /\ pc \in [Requests -> Locations]
    /\ key \in [Requests -> Keys \cup {NoKey}]
    /\ left \in [Requests -> 0..RequestTimeout]
    /\ answer \in [Requests -> Answers]
    /\ returned \in [Requests -> Requests \cup {NoOrder}]
    /\ ttl \in [Keys -> 0..ReservationTTL]
    /\ wire \subseteq Requests /\ booked \subseteq Requests /\ wire \cap booked = {}
    /\ stored \subseteq booked
    /\ blind \subseteq Requests

\* Two requests that carry one idempotency key.
SameKey(r, s) == r # s /\ key[r] = key[s] /\ key[r] # NoKey

\* All 201 answers to one key carry one and the same order, and that order is stored
\* under that key: replays, losers of a race and the winner agree.
IdempotentReplies ==
    \A r, s \in Requests :
        /\ answer[r] = "created" /\ answer[s] = "created"
        /\ key[r] = key[s] /\ key[r] # NoKey
        => /\ returned[r] = returned[s]
           /\ returned[r] \in stored
           /\ key[returned[r]] = key[r]

\* The window the reservation closes: two requests with one key are never both on
\* their way through the provider call, unless Redis failed one of them.
ExclusiveProviderCall ==
    \A r, s \in Requests :
        SameKey(r, s) /\ pc[r] \in Calling /\ pc[s] \in Calling => r \in blind \/ s \in blind

\* Once an order is stored under a key, no other request with that key is on its way to
\* the provider, unless Redis failed one of the two.  It takes the lookup, the
\* reservation and its outliving two request timeouts together.
NoCallAfterPersist ==
    \A r, s \in Requests :
        SameKey(r, s) /\ pc[r] \in Calling /\ s \in stored => r \in blind \/ s \in blind

\* When two requests with one key were both charged although Redis protected both, one
\* of them has ended without being stored: the double charge needs an outcome that was lost.
DoubleChargeNeedsLoss ==
    \A r, s \in Requests :
        SameKey(r, s) /\ r \in booked /\ s \in booked /\ r \notin blind /\ s \notin blind
        => \E x \in {r, s} : pc[x] = "done" /\ x \notin stored /\ answer[x] # "created"

\* What the booking endpoint promises of keys: IdempotentBooking, whose binding of a key is
\* the stored order with that key and whose answers are the 201 answers to keyed requests.
TheOrder(S) == IF S = {} THEN NoOrder ELSE CHOOSE s \in S : TRUE
boundOrder  == [k \in Keys |-> TheOrder(Persisted(k))]
handedOut   ==
    {<<key[r], returned[r]>> : r \in {s \in Requests : answer[s] = "created" /\ key[s] # NoKey}}

Promise == INSTANCE IdempotentBooking
               WITH Orders <- Requests, bound <- boundOrder, handed <- handedOut

\* Every behaviour of the endpoint binds a key once, to one order, and only ever hands out
\* that order for it.
ImplementsPromise == Promise!Spec

----------------------------------------------------------------------------
(* What the documentation says and the code does not do.                        *)

\* ADR 0004: a network retry or a double click must never create two orders or charge twice.
ChargedOnce == \A r, s \in Requests : SameKey(r, s) => ~(r \in booked /\ s \in booked)

\* repository.py: the sparse index only concerns documents that have a key, so an order
\* booked without a key meets no duplicate.
KeylessNeverCollides == \A r \in Requests : key[r] = NoKey => pc[r] # "resolve"
=============================================================================

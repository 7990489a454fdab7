# FlyDesk in TLA+

Specifications of FlyDesk, a flight search and booking backend (Django and DRF, MongoDB, Redis,
Kafka, Duffel as the flight provider). They model what runs concurrently or fails in parts: the
booking endpoint, the outbox relay with the event consumers, the booking saga, and search; and what
happens to an offer's data on its way through them. TLC checks them on small instances; TLAPS proves
their safety properties for every instance.

    tlc -config Booking.cfg MCBooking.tla
    tlapm BookingProofs.tla

## 1. The system

| Component | Code | State | Operations | Talks to |
|---|---|---|---|---|
| booking endpoint | `bookings/views.py`, `services.py`, `serializers.py`, `common/exceptions.py` | locals of the request; reservation `idem:<key>` in Redis | `create_booking`, `get_booking` | Redis, provider, repository |
| order repository | `bookings/repository.py` | collection `orders`, sparse unique index on `idempotency_key` | `save` (whole document), `get`, `find_by_idempotency_key`, `find_with_unpublished_outbox` | MongoDB |
| Duffel booking client | `providers/duffel/client.py` | none of its own | `create_order`: GET the offer, POST the order | Duffel over HTTP |
| booking saga | `bookings/saga.py` | locals of the run | `run`, `_compensate` | three injected services |
| outbox relay | `events/relay.py`, command `relay_outbox` | the polled batch | poll, publish, stamp, save | repository, Kafka |
| event consumers | `events/consumers.py`, `dedupe.py`, command `consume_events` | collection `processed_events`, committed offset | ticketing, notification, audit; commit | Kafka, repository |
| event publisher | `events/publisher.py`, `topics.py` | topics | `publish` | Kafka |
| search fan-out | `search/async_service.py`, `providers/duffel/async_client.py` | locals of the search | `search_all` | providers, breakers |
| resilience primitives | `common/resilience.py` | breakers per process and provider | `retry_async`, `CircuitBreaker.call` | search fan-out |
| search cache, endpoint | `search/cache.py`, `views.py` | `offers:<hash>` in Redis | `cached_search` | Redis, fan-out |
| Duffel mapper, schemas | `providers/duffel/mapper.py`, `schemas.py` | none | parse, map offers and orders, build the request | search fan-out, booking client |
| Amadeus mapper, schemas | `providers/amadeus/mapper.py`, `schemas.py` | none | parse, map offers | tests |
| domain models | `domain/models.py`, `enums.py` | none | validation, normalization, JSON and back | all of the above |
| wiring, observability, demo | `common/`, `config/`, `demo/`, `scripts/` | metrics, logs | | |

The web service runs three gunicorn sync workers (`Dockerfile`), each one request at a time; relay and
worker are one process each (`docker-compose.yml`). They share MongoDB, Redis and Kafka, and nothing
else. The hard behaviours are in these shares: two requests with one key, a request that dies with a
provider call out, a reservation that outlives its request, relay and worker rewriting one document
from older copies, redelivery after a crash, deadlines and retries adding up, and a cache filled by
slow workers. Beside them stands the data: two vocabularies of providers, codes in any spelling, money
that is rounded whenever it is written, a price that changes between search and payment, and passengers
bound to slots by position. `PROJECT.json` lists all this as hazards, at their lines, with the
properties that cover them.

What makes each part correct: a key is answered with one order, and only a lost outcome can charge
twice (booking); nothing done twice and nothing forgotten (events); all or nothing, undone in reverse
(saga); in time, complete and not stale, and a failing provider left alone (search); answers that are
about the question, cheapest first, and orders that are what was paid, for whom (offers).

## 2. Modules

| Module | Models | Notes |
|---|---|---|
| `Booking` | `create_booking` in any number of requests, Redis, the provider, MongoDB, gunicorn's timeout | |
| `IdempotentBooking` | what ADR 0004 promises of a key | abstract; `Booking` implements it |
| `BookingProofs` | theorems about `Booking` | |
| `EventPipeline` | relay, topic, worker with three consumers, crashes | |
| `EventPipelineProofs` | theorems about `EventPipeline` | |
| `FlyDesk` | `Booking` and `EventPipeline` together | the orders collection is where they meet |
| `FlyDeskProofs` | theorems about `FlyDesk` | uses those of the two parts |
| `Saga`, `BookingSaga` | `Saga.run` for any steps; `build_booking_saga` | |
| `SagaProofs` | theorems about `Saga` and `BookingSaga` | |
| `Search` | `cached_search`, `search_all`, retries, breakers, cache | |
| `SearchProofs` | theorems about `Search` | |
| `Domain` | the normalized models: validation, computed fields, JSON | operators only |
| `DuffelMapper`, `AmadeusMapper` | what the two adapters accept and make of a payload | operators only |
| `Adapters` | one journey in both vocabularies | the journeys are external |
| `Offers` | the data of a search and of a booking, while the provider changes its offers | |
| `DomainProofs` | lemmas about money, JSON and back, and the sort by price | |
| `AdaptersProofs` | what either adapter makes of any journey | uses `DomainProofs` |
| `OffersProofs` | theorems about `Offers` | uses the two above |
| `MCBooking`, `MCEventPipeline`, `MCBookingSaga`, `MCSearch`, `MCOffers` | instances for TLC: symmetry, constants | |

Operators called mutants in the comments are variations of an action with a plausible mistake; no
specification uses them. They are kept beside the action to show that each property notices one.

### Booking

`pc` is the line of `create_booking` a handler stands at. An action is the stretch from one call to
another process to the next: `Lookup`, `Reserve`, `Recheck`, `GetOffer`, `PostOrder`, `Save`,
`Resolve`, `Respond`. Every such call may fail, before or after it took effect: `ReadFails`,
`ReserveUnprotected` (Redis errors count as acquired), `SaveFails`, `CallFails`. The provider decides
a POST by itself (`ProviderBooks`, `ProviderDrops`), also after the handler gave up: `wire` holds the
POSTs it has not decided. An order is named by the request whose POST created it. `Kill` is any death of
a worker; `Tick` passes one unit of time, `left` is what is left of gunicorn's allowance and `ttl` of the
reservations. `blind` is history: requests during which Redis failed to protect their key.

Left out: the payload (see Offers), `ensure_order_indexes` failing, `get_booking`, requests refused by
validation before they reach Redis.

### EventPipeline

`doc` has what matters of an order: its status, and whether its one outbox event is stamped. The relay's
`RelayPoll` copies pending documents, `RelayPublish` appends to `log`, `RelaySave` replaces the document
by the stamped *copy*; the worker's `ReadOrder` and `SaveTicketed` do the same with the status. Both
processes wait in between, so either may overwrite the other. `MarkIfNew` is the insert into
`processed_events`; `Work` is what a consumer does once and is counted in `effects`. `RelayCrash` and
`WorkerCrash` stand for every exception, as neither process catches one; docker restarts them, the
worker at the committed offset.

Left out: several partitions (events of different orders do not interact) and several workers
(one is deployed).

### FlyDesk

`Endpoint` is an instance of `Booking`, `Pipeline` one of `EventPipeline` with the requests as orders. Their
variables are disjoint, and so are their steps, but for one: the endpoint's write of a new order is
the pipeline's `Confirm`, as `create_booking` saves the order and its outbox event in one document. `TypeOK`
says that the endpoint's `stored` and the pipeline's documents are the same orders at all times.

### Saga

A run goes forward through its steps and back through the completed ones. A step that raises may have
taken effect, a compensation may raise, the process may die; `faults` is the history of these, with the
step each happened at. `AllOrNothing`, `UndoneInReverse` and `PaidOnlyForTicket` are about runs without
faults; `OnlyWhatRaisedStays` is about every run that ends in `SagaError`: each compensable effect that is
left is traced to its own late failure or to its own failed compensation, so no fault keeps the other steps
from being undone. Nothing but the tests starts a saga.

### Search

A worker is `idle`, looks into the cache, fans out, stores and responds; within a fan-out `call` says for
each provider whether its call waits for the semaphore, for the provider, between two attempts, or
is over. `tries` and `due` are the retry's and the deadline's; `failures` and `cooling` the breaker's:
`Closed` is `_opened_at is None`, a positive number an open circuit and 0 a half-open one. `failures`
stops at the threshold, as the code only compares it with the threshold. `age` is the age of the
offers a worker holds, so that the staleness of answers can be stated. Offers are abstracted to
the provider they come from; their data and their order by price are in Offers.

Computation takes no time, and the timers of the event loop fire when due; a worker that waits for Redis
(no socket timeout is set) waits until Redis answers or gunicorn kills it.

### Domain, DuffelMapper, AmadeusMapper, Adapters

Pure translation, as operators. A code is a record of what is meant and of how it is spelled (exact, lower
case, padded, malformed, null), so that the validators' strip, upper and pattern are a choice between
accepting and refusing, and normalization forgets the spelling. Amounts are integers in tenths of a
cent: `TwoDecimals` is `f"{v:.2f}"`, half to even. `Dump` adds the computed fields, `Load` drops them.
`Parses...` is what Pydantic accepts of a payload, `Accepts...` what the domain models accept of the result,
`MapOffer` and `MapOrder` build it. `Agree` gives both adapters the same journey.

Left out: names of carriers, airports and cities, times of day, durations, baggage, aircraft.

### Offers

One search and one booking at a time (what several do to each other is in Search and Booking). `market` is what
Duffel has for sale, in Duffel's words; `Reprice` and `Withdraw` change it at any moment. A search builds the request
from the criteria (`Duffel!OfferRequest`), gets up to two offers of the instance's fares, parses and maps
them all or loses them all, sorts, stores the JSON and answers; a hit loads the JSON. A booking prices the
offer again, binds passengers to slots (`DuffelPassengers` is the zip), pays the amount of that answer, and
stores the order it maps from the reply; `Rewrite` is what relay and worker do to the document.

Left out: the fields Domain leaves out; a provider that answers something else than it was asked.

## 3. Runs

| Run | Config | Instance | Shows |
|---|---|---|---|
| booking_safety | `Booking.cfg` | 3 requests, 1 key or none, timeout 1, TTL 3 | replies agree, calls exclude each other, no call beside a stored order, a double charge needs a loss, refinement of `IdempotentBooking` |
| booking_charged_once | `BookingChargedOnce.cfg` | 2 requests, Redis works | **violation**: charged twice |
| booking_keyless | `BookingKeyless.cfg` | 2 requests | **violation**: bookings without a key collide |
| events_safety | `EventPipeline.cfg` | 3 orders, batches of 2, one crash each | no effect twice, stamps and commits true, marks before work, publications bounded |
| events_liveness | `EventPipelineLive.cfg` | 2 orders, batches of 1, one crash each | every event relayed and seen; all work done unless the worker crashed |
| events_lost_status | `EventPipelineLostStatus.cfg` | 1 order, no crash | **violation**: TICKETED reverts to CONFIRMED |
| events_lost_ticket | `EventPipelineLostTicket.cfg` | 1 order, one crash | **violation**: a ticket is never issued |
| flydesk | `FlyDesk.cfg` | 2 requests, 1 key or none, timeout 0, TTL 1, batches of 1, no crashes of the pipeline | one ticket per key, only for what was charged; every request ends in an error, a dead worker or a ticket; reservations run out |
| sagas | `BookingSaga.cfg` | a booking, and a saga of 4 steps with one uncompensated | all or nothing, reverse order, paid only for a ticket, what is left raised itself or could not be undone |
| search_fanout | `SearchFanout.cfg` | 1 worker, 2 providers, 1 slot | bound on fan-outs, open circuits rest, the probe decides, searches end |
| search_cache | `SearchCache.cfg` | 2 workers, 2 providers | cached results are complete, answers fresh |
| offers | `Offers.cfg` | 6 requests in different spellings, 4 fares, 2 offers live, 1 cached answer, 1 order; journeys of up to 2 slices of up to 2 legs, for up to 2 | answers are about the question and in order of price, also from the cache; orders are what was paid, for whom; Duffel and Amadeus agree |

**Bounds.** Two requests are enough to race, the third retries after both or races a retry; the
time constants are the smallest with the inequality of the code's (`2 * RequestTimeout <
ReservationTTL`, 30 and 120 seconds). Two keys would not interact but through the null of keyless
orders, which is there. Three orders with batches of two leave one for a later poll. A second crash of one
process adds nothing a first cannot do to another event, and the proofs need no bound. In search, one
slot for two providers makes calls queue, a threshold of 2 makes failures count over two searches, and
the cooldown is shorter than a call so that circuits half-open in the middle of fan-outs; search_cache,
about two workers and one cache, drops the backoff and opens circuits at the first failure. In flydesk the
pipeline does not crash: `workerCrashes` is in the property because the model allows for it, what crashes do to it
is checked in events_liveness, and the proofs of `FlyDesk` allow any number. In offers the prices lie on both sides
of a tie in the third decimal, a fare comes without segments and one without a place's code, and
one order is enough as orders do not touch each other. The safety
runs of booking, events and search_cache use symmetry; liveness runs do not. `CHECK_DEADLOCK FALSE`
stands where finitely many requests, orders or runs come to their end.

**Fairness.** `FlyDesk`: a handler goes on or is killed, as every wait inside it has a timeout (httpx's
or gunicorn's), and time passes; nothing is assumed of the provider, of arrivals or of failures. Relay and worker go
on, as docker restarts them and their loops are unconditional. `EventPipeline` has the same fairness
for these two; crashes are bounded in the instance. `Search`: a worker goes on or is killed, and time passes;
providers need not answer. The other specifications are about safety only.

## 4. Where code and documentation disagree

- *Charged twice* (`ChargedOnce`): the first request books at the provider and its outcome is lost (timeout,
  kill, failed save); after the reservation ran out, the retry posts again. ADR 0004 says "must never
  create two orders or charge twice". `DoubleChargeNeedsLoss`, proved, says that this is the only way
  while Redis works.
- *Keyless bookings* (`KeylessNeverCollides`): `model_dump` writes `idempotency_key: null`, a sparse index
  indexes explicit nulls, so the second booking without a key is charged and answered 500. mongomock in
  the tests books only one.
- *Lost status* (`TicketedForGood`): the relay's save overwrites the ticketed order with the copy it
  polled; the dedupe mark prevents the repair.
- *Lost ticket* (`TicketedAtLeastOnce`): the mark precedes the work, so a crash between them makes the
  consumers at-most-once.

Seen while modelling, without a run: a failed request keeps its reservation, so retries are answered
"already being processed" for two minutes; a provider response to the POST that does not parse is answered 400,
like a client's mistake, for a booked order; `zip(strict=False)` in `create_order` drops passengers beyond
the offer's slots, and the stored order names them all the same; the GET of the offer is only
parsed, the domain's rules are not applied to it; `Money` is said to keep its precision (`domain/models.py:68`) and has
two decimals once it was JSON; Amadeus's `grand_total or total` takes a grand total of zero for
none; `retry_async` says it is for timeouts and 5xx and is given every `ProviderError`, 4xx
included; compensations are best-effort, while the saga's header says a booking is never left
half-finished; `OfferExpiredError` is raised nowhere.

## 5. Proofs

Theorems about a specification are of the form `Spec => []P` (or `Spec => ImplementsPromise`), for any
number of requests, keys, orders, steps and crashes; those of `DomainProofs` and `AdaptersProofs` are about
operators, for any argument of the kind named. They use the named assumptions on constants only;
TLC evaluates these on every run. Every invariant and every action property that a passing run checks is
stated by a theorem.

**BookingProofs.** `IInv` strengthens the type invariant by: what each location of `create_booking`
implies of `wire`, `booked` and `stored` (progress); one stored order per key, and only stored
orders are handed over (handover); a key whose request is between reservation and save has a
reservation whose time left is `ReservationTTL - RequestTimeout` more than the request's, so the request
ends first (covered); a reservation lives on while some
request may still act on a lookup made before the order was stored (shielded: this is where
`2 * RequestTimeout < ReservationTTL` is needed); protected calls exclude each other (exclusive). Each
part is a lemma with one step per action. `Inductive` combines them; from it follow `TypeCorrect`,
`RepliesAgree`, `CallsExclude`, `PersistedMeansNoCall`, `ChargeTwiceOnlyAfterLoss`. `Refinement` shows
that every step binds one unbound key, hands out a bound order, or changes neither.

**EventPipelineProofs.** `IInv` says that a consumer's work is only ahead of a worker that made the mark
itself and not yet worked (hence `EffectsAtMostOnce`), that the copies relay and worker hold carry
only stamps that are true (`StampsAreTrue`), and which marks the worker's position implies
(`CommitsAreMarked`). `Backed` adds that topic and batch name stored orders only and that a ticketed copy
in the batch has its mark, so no save can bring back what was not there (`WorkIsBacked`). For
`RedeliveryIsBounded` every order has at most two chances to be published again: the relay may have it before it
(`MayPublish`), and the worker may hold a copy without the stamp (`MayWipe`); a publication uses up the
first, saving the copy turns the second into the first, and only a crash of the relay gives a new one.

**FlyDeskProofs.** A behaviour of the whole is one of `Booking` and one of `EventPipeline` (`Projections`), so
their invariants hold; `EndpointMeetsPipeline` adds that a document exists exactly for the orders the
endpoint stored, as relay and worker only rewrite documents that are there. One stored order per
key, one effect per order and an effect only for a stored order give `KeysGetOneTicket`.

**SagaProofs.** The inductive invariant is a conjunction over the runs (`RunInv`), so that a step is proved for
the run it changes (`OneRun`). What stands of a run without faults is determined by its phase and
step (`StandingOf`); `RunsAreAtomic` and `UndoIsReverse` follow. With faults, what stands on the way
back is still ahead of the loop or has raised (`LeftoverOf`), and at the end only the latter is left:
`FaultsStayApart`. `NoTicketNoPayment` is `StandingOf` for the three steps of a booking.

**SearchProofs.** `IInv` has three parts: calls (where they can be, how much of an attempt is left), breakers
(no attempt at an open circuit; what opened a circuit is not forgotten), and data (the age of what a worker
holds; entries and answers are complete). `ResultsAreComplete`, `AnswersAreFresh`, `CircuitsRest` and
`ProbesDecide` follow. For `FanoutsEnd` there is a schedule (`OnSchedule`): one call, with all
its attempts and sleeps, holds its slot for `CallBound` at most, so by the end of the m-th interval of that
length m times the slots have been through, or will be by then with what their attempts can still take;
`Waves` such intervals are enough for all providers. The counting is of finite sets, for any number of them.

**DomainProofs.** Rounding to two decimals moves an amount by half a cent at most, keeps the order of two
amounts, and does nothing to an amount that was rounded (`RoundsToTwoDecimals`, `RoundsInOrder`, `RoundsOnce`).
An offer that is written as JSON and read back is the same but for the rounding (`LoadDump`), so it is written
the second time as the first (`DumpLoadDump`). `CheapestFirstSorts` takes offers of any number: an offer's
rank is how many go before it by price, then by position; no two share a rank (`RanksDiffer`), so by counting
there is one for each place (`RanksAreTaken`), and the result is a permutation, in order, and stable.

**AdaptersProofs.** `Sold` spells out the offer that a journey is. `DuffelMapsJourney` and `AmadeusMapsJourney`
show that each adapter makes just this of its own payload: Duffel's cabin stands with the segment and
passenger, Amadeus's is looked up by the segment's id among the fares of the first traveler, and is the right
one because a journey's leg ids differ (`LegsAreListed`, `CabinIsFound`). `AdaptersMapAlike` follows, for one
or two slices with any number of legs, and any party, the empty one included.

**OffersProofs.** `IInv` has a part for each actor.

- `SearchInv`: a search under way has valid criteria, and from the fetch to the answer what it has found is
  a sorted list about them. `AnswersAreAbout` and, as rounding keeps the order, `ShownCheapestFirst` follow.
- `CacheInv`: what is cached under criteria reads as an answer about them and is written as it was read. It is
  needed because a hit has nothing but the cache to go by; `CacheIsFaithful` is about just this.
- `MarketInv`: every live offer was quoted of some fare for some question, at some price, and its id names it alone.
- `BuyingInv`: what is about to be paid is such an offer, whatever happened to the market since; what is about to be
  saved is an order as it was charged; and there is room for one more order while one is on its way.
- `OrdersInv`: a document's amount is that of the provider's order, rounded, and its people are bound one to one
  and in order. `Rewrite` keeps both, as a rounded amount is not rounded again. `ChargesAreStored` and `PeopleAreBound`
  follow.

The step from a quote to an answer is `QuoteIsAbout`: what the mapper accepts of a fare's offer is flown
between the places and on the day of each leg of the request, with one slot for each passenger. That the
malformed ones are refused is part of it, as there is nothing to fly in a slice without segments.
TLC checked `IInv` as an invariant of the instance of the offers run before it was proved.

The assumptions of `Offers` say what the types in the code say: `RequestsAssumption`, that DRF's serializer makes dates of
dates, and of each passenger a type of the enum and an age or null; `PartiesAssumption`, that passengers are a
list; `BoundsAssumption`, that the bounds are numbers. About the external side, `FaresAssumption` says that prices are
not negative, that ids are unique, and that a fare is direct, over one hub, or without segments;
`JourneysAssumption`, that a journey has one slice or two, out and back, with a leg each at least, and leg ids of
its own. `CabinsAssumption` and the last line of `RequestsAssumption` say that a record is not null, which TLA+
leaves open.

Only model-checked: all liveness (`EveryRequestServed`, `ReservationExpires`, `EveryBookingRelayed`,
`EveryBookingServed`, `EverySearchEnds`), as fairness is beyond the prover. `TotalStops` is proved to be the sum for
one or two slices, which is what a search makes; for any number it would take an induction. The runs that
expect a violation show states that can be reached, which no invariant could exclude.

## 6. Not modelled

- The Amadeus provider raises `NotImplementedError` on every call of the port; the mock provider serves the tests.
- Settings, clients, URL routing: the constants of the models stand for them.
- Metrics, logs, correlation ids: nothing reads them back into a decision.
- The demo cockpit (with its own provider, seed data and stats exporter) and the scripts: demonstration around the same
  service, and tools of a developer.
- The field types the serializers check: the requests of the models have them.
- Several breaker calls at once in one process cannot happen as deployed (sync workers, one provider of each
  name). Several workers in one consumer group are not deployed either.

## 7. Plan

Done: booking, events, saga, search, their composition in `FlyDesk`, the data in `Offers`, with proofs for all
of them. Left:

1. Proofs that do not depend on the shape of the instance's fares: `QuoteIsAbout` for offers with any number of
   connections.
2. A group of several workers with rebalancing, should one be deployed.

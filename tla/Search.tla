------------------------------- MODULE Search -------------------------------
(* POST /api/v1/search: gunicorn workers serve one request at a time each.       *)
(* cached_search (search/cache.py) looks into Redis; a miss fans out to all      *)
(* providers at once (search_all of search/async_service.py), each call behind   *)
(* the process's circuit breaker of the provider, a retry and a deadline         *)
(* (common/resilience.py), and a complete result is cached.                      *)
(*                                                                               *)
(* Time is relative: what is left of deadlines, cooldowns and cache entries.     *)
(* Computation takes none; waiting for a provider, for the backoff of a retry    *)
(* and for Redis does.                                                           *)
EXTENDS Integers, FiniteSets

CONSTANTS
    Workers,           \* gunicorn's processes, each with its own circuit breakers
    Providers,         \* get_async_providers
    Criteria,          \* what is searched for: the keys of the cache
    MaxConcurrency,    \* max_concurrency of search_all
    Deadline,          \* per_provider_timeout
    Attempts,          \* attempts of retry_async
    Backoff,           \* the longest sleep between two attempts
    FailureThreshold,  \* failure_threshold of a circuit breaker
    ResetTimeout,      \* its reset_timeout
    OfferTTL,          \* offer_cache_ttl
    RequestTimeout     \* what gunicorn allows a request

ASSUME ProvidersAssumption == IsFiniteSet(Providers) /\ Providers # {}
ASSUME PositiveAssumption ==
    {MaxConcurrency, Deadline, Attempts, FailureThreshold, ResetTimeout, OfferTTL} \subseteq Nat \ {0}
ASSUME DelayAssumption == Backoff \in Nat /\ RequestTimeout \in Nat

\* The longest call of one provider, and the longest fan-out: calls queue at the semaphore.
CallBound   == Attempts * Deadline + (Attempts - 1) * Backoff
Waves       == (Cardinality(Providers) + MaxConcurrency - 1) \div MaxConcurrency
FanoutBound == Waves * CallBound

\* 16.2 seconds for up to ten providers, against gunicorn's 30.
ASSUME FanoutAssumption == FanoutBound < RequestTimeout

VARIABLES
    at,        \* where each worker stands in cached_search
    want,      \* the criteria it searches for
    call,      \* per worker and provider: where _search_one stands
    tries,     \* attempts it has failed
    due,       \* time left until its deadline, or of its backoff
    failures,  \* circuit breaker: _failures, counted up to FailureThreshold
    cooling,   \* circuit breaker: time left until half-open, or Closed
    age,       \* age of the offers a worker holds, counted from the start of their fan-out
    cache,     \* Redis: what is cached under each criteria
    reply      \* the answer a worker is about to send: whose offers, which providers degraded

breakers == <<failures, cooling>>
fanout   == <<call, tries, due>>
vars     == <<at, want, call, tries, due, failures, cooling, age, cache, reply>>

Closed   == -1        \* _opened_at is None
Open(w, p) == cooling[w][p] > 0

\* A call waits for the semaphore, for its provider, or between two attempts; it is over.
Holding  == {"trying", "backoff"}
Over     == {"offers", "failed"}
Calls    == {"none", "queued"} \cup Holding \cup Over

Answered(w) == {p \in Providers : call[w][p] = "offers"}
Degraded(w) == {p \in Providers : call[w][p] = "failed"}

\* An entry says whose offers it holds, how old they were when stored, and how long it stays.
NoEntry == [by |-> {}, born |-> 0, ttl |-> 0]
NoReply == [by |-> {}, degraded |-> {}]

----------------------------------------------------------------------------

Init ==
    /\ at = [w \in Workers |-> "idle"]
    /\ want \in [Workers -> Criteria]
    /\ call = [w \in Workers |-> [p \in Providers |-> "none"]]
    /\ tries = [w \in Workers |-> [p \in Providers |-> 0]]
    /\ due = [w \in Workers |-> [p \in Providers |-> 0]]
    /\ failures = [w \in Workers |-> [p \in Providers |-> 0]]
    /\ cooling = [w \in Workers |-> [p \in Providers |-> Closed]]
    /\ age = [w \in Workers |-> 0]
    /\ cache = [c \in Criteria |-> NoEntry]
    /\ reply = [w \in Workers |-> NoReply]

Goto(w, l) == at' = [at EXCEPT ![w] = l]

\* A valid search request reaches an idle worker.
Request(w, c) ==
    /\ at[w] = "idle"
    /\ Goto(w, "lookup")
    /\ want' = [want EXCEPT ![w] = c]
    /\ UNCHANGED <<fanout, breakers, age, cache, reply>>

\* The cache has a result: it is the answer.
Hit(w) ==
    /\ at[w] = "lookup" /\ cache[want[w]].ttl > 0
    /\ Goto(w, "respond")
    /\ LET e == cache[want[w]] IN
          /\ reply' = [reply EXCEPT ![w] = [by |-> e.by, degraded |-> {}]]
          /\ age' = [age EXCEPT ![w] = e.born + (OfferTTL - e.ttl)]
    /\ UNCHANGED <<want, fanout, breakers, cache>>

\* It has none, or Redis fails: search_all starts a call for every provider.
Miss(w) ==
    /\ at[w] = "lookup"
    /\ Goto(w, "fanout")
    /\ call' = [call EXCEPT ![w] = [p \in Providers |-> "queued"]]
    /\ tries' = [tries EXCEPT ![w] = [p \in Providers |-> 0]]
    /\ UNCHANGED <<want, due, breakers, age, cache, reply>>

----------------------------------------------------------------------------

SlotFree(w) == Cardinality({p \in Providers : call[w][p] \in Holding}) < MaxConcurrency

\* Mutant of Begin: the state of the circuit is not looked at.
BeginUnchecked(w, p) ==
    /\ call[w][p] = "queued" /\ SlotFree(w)
    /\ call' = [call EXCEPT ![w][p] = "trying"]
    /\ due' = [due EXCEPT ![w][p] = Deadline]
    /\ UNCHANGED <<at, want, tries, breakers, age, cache, reply>>

\* A call passes the semaphore and a circuit that is not open, and attempts begin.
Begin(w, p) ==
    /\ call[w][p] = "queued" /\ SlotFree(w) /\ ~Open(w, p)
    /\ call' = [call EXCEPT ![w][p] = "trying"]
    /\ due' = [due EXCEPT ![w][p] = Deadline]
    /\ UNCHANGED <<at, want, tries, breakers, age, cache, reply>>

\* An open circuit raises CircuitOpenError, which is no failure of the provider.
FailFast(w, p) ==
    /\ call[w][p] = "queued" /\ SlotFree(w) /\ Open(w, p)
    /\ call' = [call EXCEPT ![w][p] = "failed"]
    /\ UNCHANGED <<at, want, tries, due, breakers, age, cache, reply>>

\* provider.search returns offers in time: _on_success closes the circuit.
Offers(w, p) ==
    /\ call[w][p] = "trying"
    /\ call' = [call EXCEPT ![w][p] = "offers"]
    /\ failures' = [failures EXCEPT ![w][p] = 0]
    /\ cooling' = [cooling EXCEPT ![w][p] = Closed]
    /\ UNCHANGED <<at, want, tries, due, age, cache, reply>>

\* Mutant of OnFailure: an opening circuit counts anew.
OnFailureForgets(w, p) ==
    LET n == failures[w][p] + 1 IN
    /\ failures' = [failures EXCEPT ![w][p] = IF n >= FailureThreshold THEN 0 ELSE n]
    /\ cooling' = [cooling EXCEPT ![w][p] = IF n >= FailureThreshold THEN ResetTimeout ELSE @]

\* _on_failure: from the threshold on every failure opens the circuit anew.
OnFailure(w, p) ==
    LET n == failures[w][p] + 1 IN
    /\ failures' = [failures EXCEPT ![w][p] = IF n > FailureThreshold THEN @ ELSE n]
    /\ cooling' = [cooling EXCEPT ![w][p] = IF n >= FailureThreshold THEN ResetTimeout ELSE @]

\* The call of the breaker fails for good.
Fail(w, p) ==
    /\ call' = [call EXCEPT ![w][p] = "failed"]
    /\ OnFailure(w, p)

\* Mutant of AttemptFails: one attempt too many.
AttemptFailsOffByOne(w, p) ==
    /\ call[w][p] = "trying"
    /\ tries' = [tries EXCEPT ![w][p] = @ + 1]
    /\ \/ /\ tries'[w][p] <= Attempts
          /\ call' = [call EXCEPT ![w][p] = "backoff"]
          /\ due' = [due EXCEPT ![w][p] = Backoff]
          /\ UNCHANGED breakers
       \/ tries'[w][p] > Attempts /\ Fail(w, p) /\ UNCHANGED due
    /\ UNCHANGED <<at, want, age, cache, reply>>

\* A TimeoutError or ProviderError: retry_async sleeps and tries again, or gives up.
AttemptFails(w, p) ==
    /\ call[w][p] = "trying"
    /\ tries' = [tries EXCEPT ![w][p] = @ + 1]
    /\ \/ /\ tries'[w][p] < Attempts
          /\ call' = [call EXCEPT ![w][p] = "backoff"]
          /\ due' = [due EXCEPT ![w][p] = Backoff]
          /\ UNCHANGED breakers
       \/ tries'[w][p] >= Attempts /\ Fail(w, p) /\ UNCHANGED due
    /\ UNCHANGED <<at, want, age, cache, reply>>

\* Mutant of TimesOut: no deadline.
NeverTimesOut(w, p) == FALSE /\ UNCHANGED vars

\* asyncio.timeout ends the attempt.
TimesOut(w, p) == due[w][p] = 0 /\ AttemptFails(w, p)

\* The connection fails or the status is 400 or above: a ProviderError, which is retried.
Breaks(w, p) == AttemptFails(w, p)

\* The body is no JSON or does not parse: an exception retry_async does not catch.
Garbles(w, p) ==
    /\ call[w][p] = "trying"
    /\ Fail(w, p)
    /\ UNCHANGED <<at, want, tries, due, age, cache, reply>>

\* The sleep of random length ends, after Backoff at the latest.  The next attempt does not
\* look at the circuit.
Retry(w, p) ==
    /\ call[w][p] = "backoff"
    /\ call' = [call EXCEPT ![w][p] = "trying"]
    /\ due' = [due EXCEPT ![w][p] = Deadline]
    /\ UNCHANGED <<at, want, tries, breakers, age, cache, reply>>

----------------------------------------------------------------------------

Gathered(w) == at[w] = "fanout" /\ \A p \in Providers : call[w][p] \in Over

\* The locals of search_all are gone.
ForgetCalls(w) ==
    /\ call' = [call EXCEPT ![w] = [p \in Providers |-> "none"]]
    /\ tries' = [tries EXCEPT ![w] = [p \in Providers |-> 0]]
    /\ due' = [due EXCEPT ![w] = [p \in Providers |-> 0]]

\* Mutant of Gather: partial results are cached too.
GatherCachesAll(w) ==
    /\ Gathered(w)
    /\ reply' = [reply EXCEPT ![w] = [by |-> Answered(w), degraded |-> Degraded(w)]]
    /\ Goto(w, "store")
    /\ ForgetCalls(w)
    /\ UNCHANGED <<want, breakers, age, cache>>

\* gather is done: offers of the one, names of the other; only a complete result is cached.
Gather(w) ==
    /\ Gathered(w)
    /\ reply' = [reply EXCEPT ![w] = [by |-> Answered(w), degraded |-> Degraded(w)]]
    /\ Goto(w, IF Degraded(w) = {} THEN "store" ELSE "respond")
    /\ ForgetCalls(w)
    /\ UNCHANGED <<want, breakers, age, cache>>

\* SET key offers EX offer_cache_ttl.
Store(w) ==
    /\ at[w] = "store"
    /\ cache' = [cache EXCEPT ![want[w]] =
           [by |-> reply[w].by, born |-> age[w], ttl |-> OfferTTL]]
    /\ Goto(w, "respond")
    /\ UNCHANGED <<want, fanout, breakers, age, reply>>

\* Redis fails: the answer is the same, and nothing is cached.
StoreFails(w) ==
    /\ at[w] = "store"
    /\ Goto(w, "respond")
    /\ UNCHANGED <<want, fanout, breakers, age, cache, reply>>

Respond(w) ==
    /\ at[w] = "respond"
    /\ Goto(w, "idle")
    /\ reply' = [reply EXCEPT ![w] = NoReply]
    /\ age' = [age EXCEPT ![w] = 0]
    /\ UNCHANGED <<want, fanout, breakers, cache>>

\* The process dies and is replaced: the breakers of the new one are closed.
Kill(w) ==
    /\ Goto(w, "idle")
    /\ ForgetCalls(w)
    /\ failures' = [failures EXCEPT ![w] = [p \in Providers |-> 0]]
    /\ cooling' = [cooling EXCEPT ![w] = [p \in Providers |-> Closed]]
    /\ age' = [age EXCEPT ![w] = 0]
    /\ reply' = [reply EXCEPT ![w] = NoReply]
    /\ UNCHANGED <<want, cache>>

\* Redis restarts or evicts an entry.
Evict(c) ==
    /\ cache[c] # NoEntry
    /\ cache' = [cache EXCEPT ![c] = NoEntry]
    /\ UNCHANGED <<at, want, fanout, breakers, age, reply>>

----------------------------------------------------------------------------

Waits(w, p) == call[w][p] \in Holding

\* Time passes while nothing is due: no deadline or sleep is over, no call can begin, no
\* fan-out is complete, no answer ready, and gunicorn has killed who ran out of time.
TimeMayPass ==
    /\ \A w \in Workers, p \in Providers :
          /\ Waits(w, p) => due[w][p] > 0
          /\ ~(call[w][p] = "queued" /\ SlotFree(w))
    /\ \A w \in Workers :
          /\ ~Gathered(w) /\ at[w] # "respond"
          /\ at[w] \in {"fanout", "store"} => age[w] < RequestTimeout

Down(n) == IF n > 0 THEN n - 1 ELSE n

Aged(e) == IF e.ttl <= 1 THEN NoEntry ELSE [e EXCEPT !.ttl = @ - 1]

\* Mutant of Tick: cached without EX.
TickKeepsEntries ==
    /\ TimeMayPass
    /\ due' = [w \in Workers |-> [p \in Providers |->
           IF Waits(w, p) THEN due[w][p] - 1 ELSE due[w][p]]]
    /\ cooling' = [w \in Workers |-> [p \in Providers |-> Down(cooling[w][p])]]
    /\ age' = [w \in Workers |->
           IF at[w] \in {"fanout", "store"} THEN age[w] + 1 ELSE age[w]]
    /\ cache' = [c \in Criteria |-> [cache[c] EXCEPT !.born = @ + 1]]
    /\ UNCHANGED <<at, want, call, tries, failures, reply>>

Tick ==
    /\ TimeMayPass
    /\ due' = [w \in Workers |-> [p \in Providers |->
           IF Waits(w, p) THEN due[w][p] - 1 ELSE due[w][p]]]
    /\ cooling' = [w \in Workers |-> [p \in Providers |-> Down(cooling[w][p])]]
    /\ age' = [w \in Workers |->
           IF at[w] \in {"fanout", "store"} THEN age[w] + 1 ELSE age[w]]
    /\ cache' = [c \in Criteria |-> Aged(cache[c])]
    /\ UNCHANGED <<at, want, call, tries, failures, reply>>

----------------------------------------------------------------------------

\* What a worker does by itself, and what the providers do to it.
Handler(w) ==
    \/ Hit(w) \/ Miss(w) \/ Gather(w) \/ Store(w) \/ StoreFails(w) \/ Respond(w)
    \/ \E p \in Providers :
          \/ Begin(w, p) \/ FailFast(w, p) \/ TimesOut(w, p)
          \/ due[w][p] = 0 /\ Retry(w, p)

Answer(w) ==
    \E p \in Providers :
        Offers(w, p) \/ Breaks(w, p) \/ Garbles(w, p) \/ Retry(w, p)

Next ==
    \/ \E w \in Workers :
          \/ \E c \in Criteria : Request(w, c)
          \/ Handler(w) \/ Answer(w) \/ Kill(w)
    \/ \E c \in Criteria : Evict(c)
    \/ Tick

Spec == Init /\ [][Next]_vars

\* A worker goes on or is killed (also when Redis hangs), and time passes.  Providers need
\* not answer.
FairSpec == Spec /\ (\A w \in Workers : WF_vars(Handler(w))) /\ WF_vars(Tick)

----------------------------------------------------------------------------

Replies == [by : SUBSET Providers, degraded : SUBSET Providers]
Entries ==
    [by : SUBSET Providers, born : 0..RequestTimeout, ttl : 0..OfferTTL]

\* Every variable keeps its type.
TypeOK ==
    /\ at \in [Workers -> {"idle", "lookup", "fanout", "store", "respond"}]
    /\ want \in [Workers -> Criteria]
    /\ call \in [Workers -> [Providers -> Calls]]
    /\ tries \in [Workers -> [Providers -> 0..Attempts]]
    /\ due \in [Workers -> [Providers -> Nat]]
    /\ failures \in [Workers -> [Providers -> 0..FailureThreshold]]
    /\ cooling \in [Workers -> [Providers -> -1..ResetTimeout]]
    /\ age \in [Workers -> Nat]
    /\ cache \in [Criteria -> Entries]
    /\ reply \in [Workers -> Replies]

\* cache.py: never a result with holes from the cache.  Whatever the other workers stored,
\* every answer accounts for each provider once, by its offers or as degraded; and a cached
\* result has everybody's offers.
NothingMissing ==
    /\ \A c \in Criteria : cache[c].ttl > 0 => cache[c].by = Providers
    /\ \A w \in Workers : at[w] \in {"store", "respond"} =>
          /\ reply[w].by \cup reply[w].degraded = Providers
          /\ reply[w].by \cap reply[w].degraded = {}
          /\ at[w] = "store" => reply[w].degraded = {}

\* No offer a client is shown is older than a request may last plus the time it is cached,
\* although a worker may store what it gathered long after.
RepliesAreFresh ==
    \A w \in Workers : at[w] = "respond" => age[w] <= RequestTimeout + OfferTTL

\* Deadlines, retries and the semaphore together keep a fan-out within its bound, so that
\* gunicorn never kills a worker because of its providers.
FanoutEndsInTime == \A w \in Workers : at[w] = "fanout" => age[w] <= FanoutBound

\* resilience.py: while a circuit is open its provider is left alone, by attempts that had
\* begun as well.
OpenCircuitRests ==
    \A w \in Workers, p \in Providers : Open(w, p) => call[w][p] \notin Holding

\* A half-open circuit opens again with the first call that fails, and closes with the first
\* that brings offers.
ProbeDecides ==
    [][\A w \in Workers, p \in Providers :
         cooling[w][p] = 0 /\ Waits(w, p) /\ at'[w] # "idle" =>
             /\ call'[w][p] = "failed" => cooling'[w][p] = ResetTimeout
             /\ call'[w][p] = "offers" => cooling'[w][p] = Closed]_vars

\* Every search is answered or its worker is replaced, whatever the providers do.
EverySearchEnds == \A w \in Workers : at[w] # "idle" ~> at[w] = "idle"
=============================================================================

---------------------------- MODULE SearchProofs ----------------------------
(* Proofs about Search, for any number of workers, providers and criteria, and    *)
(* any deadlines, attempts, slots and times to live.                              *)
EXTENDS Search, FiniteSetTheorems, TLAPS

USE PositiveAssumption, DelayAssumption

\* The calls: a worker has some only while it fans out, and an attempt that runs or is slept for has
\* not used up the retry.
CallTypes ==
    /\ call \in [Workers -> [Providers -> Calls]]
    /\ tries \in [Workers -> [Providers -> 0..Attempts]]
    /\ due \in [Workers -> [Providers -> Nat]]

Located ==
    \A w \in Workers, p \in Providers : (call[w][p] = "none") = (at[w] # "fanout")

\* What is left of an attempt or a sleep is at most the whole of it, and a queued call has all its attempts.
Timed ==
    \A w \in Workers, p \in Providers :
        /\ call[w][p] = "queued" => tries[w][p] = 0
        /\ call[w][p] = "trying" => tries[w][p] < Attempts /\ due[w][p] <= Deadline
        /\ call[w][p] = "backoff" => tries[w][p] \in 1..(Attempts - 1) /\ due[w][p] <= Backoff

BreakerTypes ==
    /\ failures \in [Workers -> [Providers -> 0..FailureThreshold]]
    /\ cooling \in [Workers -> [Providers -> -1..ResetTimeout]]

\* A circuit that is open or half-open has not forgotten the failures that opened it.
StillCounting ==
    \A w \in Workers, p \in Providers : cooling[w][p] # Closed => failures[w][p] = FailureThreshold

DataTypes ==
    /\ at \in [Workers -> {"idle", "lookup", "fanout", "store", "respond"}]
    /\ want \in [Workers -> Criteria]
    /\ age \in [Workers -> 0..(RequestTimeout + OfferTTL)]
    /\ cache \in [Criteria -> Entries]
    /\ reply \in [Workers -> Replies]

\* Offers are as old as their fan-out, which gunicorn ends.
Aging ==
    \A w \in Workers :
        /\ at[w] \in {"idle", "lookup"} => age[w] = 0
        /\ at[w] \in {"fanout", "store"} => age[w] <= RequestTimeout

CallInv    == CallTypes /\ Located /\ Timed
BreakerInv == BreakerTypes /\ OpenCircuitRests /\ StillCounting
DataInv    == DataTypes /\ Aging /\ NothingMissing

IInv == CallInv /\ BreakerInv /\ DataInv

----------------------------------------------------------------------------

\* The invariant holds at the start.
LEMMA InitIInv == Init => IInv
<1> SUFFICES ASSUME Init PROVE IInv
  OBVIOUS
<1>1. CallInv
  BY DEF Init, CallInv, CallTypes, Located, Timed, Calls, Holding, Over
<1>2. BreakerInv
  BY DEF Init, BreakerInv, BreakerTypes, OpenCircuitRests, StillCounting, Open, Closed, Holding
<1>3. DataInv
  BY DEF Init, DataInv, DataTypes, Aging, NothingMissing, Entries, Replies, NoEntry, NoReply
<1>4. QED
  BY <1>1, <1>2, <1>3 DEF IInv

\* The actions of Next, those that come down to a failed attempt as one.
LEMMA Actions ==
    ASSUME [Next]_vars
    PROVE  \/ \E w \in Workers :
                 \/ \E c \in Criteria : Request(w, c)
                 \/ Hit(w) \/ Miss(w) \/ Gather(w) \/ Store(w) \/ StoreFails(w) \/ Respond(w) \/ Kill(w)
                 \/ \E p \in Providers :
                       \/ Begin(w, p) \/ FailFast(w, p) \/ Offers(w, p)
                       \/ AttemptFails(w, p) \/ Garbles(w, p) \/ Retry(w, p)
           \/ \E c \in Criteria : Evict(c)
           \/ Tick
           \/ UNCHANGED vars
BY DEF Next, Handler, Answer, TimesOut, Breaks

\* Calls.
LEMMA CallStep ==
    ASSUME CallInv, DataTypes, [Next]_vars PROVE CallInv'
<1> USE DEF CallInv, CallTypes, Located, Timed, DataTypes, Calls, Holding, Over, Goto, fanout, breakers
<1>1. ASSUME NEW w \in Workers, NEW c \in Criteria, Request(w, c) PROVE CallInv'
  BY <1>1 DEF Request
<1>2. ASSUME NEW w \in Workers, Hit(w) PROVE CallInv'
  BY <1>2 DEF Hit
<1>3. ASSUME NEW w \in Workers, Miss(w) PROVE CallInv'
  BY <1>3 DEF Miss
<1>4. ASSUME NEW w \in Workers, Gather(w) PROVE CallInv'
  BY <1>4 DEF Gather, Gathered, ForgetCalls
<1>5. ASSUME NEW w \in Workers, Store(w) PROVE CallInv'
  BY <1>5 DEF Store
<1>6. ASSUME NEW w \in Workers, StoreFails(w) PROVE CallInv'
  BY <1>6 DEF StoreFails
<1>7. ASSUME NEW w \in Workers, Respond(w) PROVE CallInv'
  BY <1>7 DEF Respond
<1>8. ASSUME NEW w \in Workers, Kill(w) PROVE CallInv'
  BY <1>8 DEF Kill, ForgetCalls
<1>9. ASSUME NEW w \in Workers, NEW p \in Providers, Begin(w, p) PROVE CallInv'
  BY <1>9 DEF Begin
<1>10. ASSUME NEW w \in Workers, NEW p \in Providers, FailFast(w, p) PROVE CallInv'
  BY <1>10 DEF FailFast
<1>11. ASSUME NEW w \in Workers, NEW p \in Providers, Offers(w, p) PROVE CallInv'
  BY <1>11 DEF Offers
<1>12. ASSUME NEW w \in Workers, NEW p \in Providers, AttemptFails(w, p) PROVE CallInv'
  <2>1. CASE tries'[w][p] < Attempts /\ call' = [call EXCEPT ![w][p] = "backoff"]
               /\ due' = [due EXCEPT ![w][p] = Backoff]
    BY <1>12, <2>1 DEF AttemptFails
  <2>2. CASE Fail(w, p) /\ UNCHANGED due
    BY <1>12, <2>2 DEF AttemptFails, Fail
  <2>3. QED
    BY <1>12, <2>1, <2>2 DEF AttemptFails
<1>13. ASSUME NEW w \in Workers, NEW p \in Providers, Garbles(w, p) PROVE CallInv'
  BY <1>13 DEF Garbles, Fail
<1>14. ASSUME NEW w \in Workers, NEW p \in Providers, Retry(w, p) PROVE CallInv'
  BY <1>14 DEF Retry
<1>15. ASSUME NEW c \in Criteria, Evict(c) PROVE CallInv'
  BY <1>15 DEF Evict
<1>16. CASE Tick
  BY <1>16 DEF Tick, TimeMayPass, Waits
<1>17. CASE UNCHANGED vars
  BY <1>17 DEF vars
<1>18. QED
  BY <1>1, <1>2, <1>3, <1>4, <1>5, <1>6, <1>7, <1>8, <1>9, <1>10, <1>11, <1>12, <1>13, <1>14, <1>15,
     <1>16, <1>17, Actions

\* Breakers: nothing is attempted behind an open circuit.
LEMMA BreakerStep ==
    ASSUME CallInv, BreakerInv, [Next]_vars PROVE BreakerInv'
<1> USE DEF CallInv, CallTypes, BreakerInv, BreakerTypes, OpenCircuitRests, StillCounting, Open, Closed, Holding, Calls, Over, Goto, fanout, breakers
<1>1. ASSUME NEW w \in Workers, NEW c \in Criteria, Request(w, c) PROVE BreakerInv'
  BY <1>1 DEF Request
<1>2. ASSUME NEW w \in Workers, Hit(w) PROVE BreakerInv'
  BY <1>2 DEF Hit
<1>3. ASSUME NEW w \in Workers, Miss(w) PROVE BreakerInv'
  BY <1>3 DEF Miss
<1>4. ASSUME NEW w \in Workers, Gather(w) PROVE BreakerInv'
  BY <1>4 DEF Gather, ForgetCalls
<1>5. ASSUME NEW w \in Workers, Store(w) PROVE BreakerInv'
  BY <1>5 DEF Store
<1>6. ASSUME NEW w \in Workers, StoreFails(w) PROVE BreakerInv'
  BY <1>6 DEF StoreFails
<1>7. ASSUME NEW w \in Workers, Respond(w) PROVE BreakerInv'
  BY <1>7 DEF Respond
<1>8. ASSUME NEW w \in Workers, Kill(w) PROVE BreakerInv'
  BY <1>8 DEF Kill, ForgetCalls
<1>9. ASSUME NEW w \in Workers, NEW p \in Providers, Begin(w, p) PROVE BreakerInv'
  BY <1>9 DEF Begin
<1>10. ASSUME NEW w \in Workers, NEW p \in Providers, FailFast(w, p) PROVE BreakerInv'
  BY <1>10 DEF FailFast
<1>11. ASSUME NEW w \in Workers, NEW p \in Providers, Offers(w, p) PROVE BreakerInv'
  BY <1>11 DEF Offers
<1>12. ASSUME NEW w \in Workers, NEW p \in Providers, AttemptFails(w, p) PROVE BreakerInv'
  <2>1. CASE call' = [call EXCEPT ![w][p] = "backoff"] /\ UNCHANGED breakers
    BY <1>12, <2>1 DEF AttemptFails
  <2>2. CASE Fail(w, p)
    BY <1>12, <2>2 DEF Fail, OnFailure
  <2>3. QED
    BY <1>12, <2>1, <2>2 DEF AttemptFails
<1>13. ASSUME NEW w \in Workers, NEW p \in Providers, Garbles(w, p) PROVE BreakerInv'
  BY <1>13 DEF Garbles, Fail, OnFailure
<1>14. ASSUME NEW w \in Workers, NEW p \in Providers, Retry(w, p) PROVE BreakerInv'
  BY <1>14 DEF Retry
<1>15. ASSUME NEW c \in Criteria, Evict(c) PROVE BreakerInv'
  BY <1>15 DEF Evict
<1>16. CASE Tick
  BY <1>16 DEF Tick, Down, Waits
<1>17. CASE UNCHANGED vars
  BY <1>17 DEF vars
<1>18. QED
  BY <1>1, <1>2, <1>3, <1>4, <1>5, <1>6, <1>7, <1>8, <1>9, <1>10, <1>11, <1>12, <1>13, <1>14, <1>15,
     <1>16, <1>17, Actions

\* Ages, cache and replies.
LEMMA DataStep ==
    ASSUME CallInv, DataInv, [Next]_vars PROVE DataInv'
<1> USE DEF DataInv, DataTypes, Aging, NothingMissing, Goto, fanout, breakers
<1>1. ASSUME NEW w \in Workers, NEW c \in Criteria, Request(w, c) PROVE DataInv'
  BY <1>1 DEF Request
<1>2. ASSUME NEW w \in Workers, Hit(w) PROVE DataInv'
  BY <1>2 DEF Hit, Entries, Replies
<1>3. ASSUME NEW w \in Workers, Miss(w) PROVE DataInv'
  BY <1>3 DEF Miss
<1>4. ASSUME NEW w \in Workers, Gather(w) PROVE DataInv'
  <2>1. DataTypes' /\ Aging'
    BY <1>4 DEF Gather, Gathered, Answered, Degraded, Replies
  <2>2. \A p \in Providers : call[w][p] \in Over
    BY <1>4 DEF Gather, Gathered
  <2>3. /\ Answered(w) \cup Degraded(w) = Providers
        /\ Answered(w) \cap Degraded(w) = {}
    BY <2>2 DEF Answered, Degraded, Over
  <2>4. /\ reply' = [reply EXCEPT ![w] = [by |-> Answered(w), degraded |-> Degraded(w)]]
        /\ at' = [at EXCEPT ![w] = IF Degraded(w) = {} THEN "store" ELSE "respond"]
        /\ cache' = cache
    BY <1>4 DEF Gather
  <2>5. NothingMissing'
    BY <2>3, <2>4
  <2>6. QED
    BY <2>1, <2>5
<1>5. ASSUME NEW w \in Workers, Store(w) PROVE DataInv'
  <2> DEFINE e == [by |-> reply[w].by, born |-> age[w], ttl |-> OfferTTL]
  <2>1. e \in Entries /\ e.by = Providers
    <3>1. reply[w] \in Replies /\ reply[w].by \cup reply[w].degraded = Providers /\ reply[w].degraded = {}
      BY <1>5 DEF Store
    <3>2. age[w] \in 0..(RequestTimeout + OfferTTL) /\ age[w] <= RequestTimeout
      BY <1>5 DEF Store
    <3>3. OfferTTL \in 0..OfferTTL /\ age[w] \in 0..RequestTimeout
      BY <3>2
    <3>4. QED
      BY <3>1, <3>3 DEF Replies, Entries
  <2>2. /\ at' = [at EXCEPT ![w] = "respond"] /\ cache' = [cache EXCEPT ![want[w]] = e]
        /\ UNCHANGED <<want, age, reply>>
    BY <1>5 DEF Store
  <2>3. DataTypes' /\ Aging'
    BY <2>1, <2>2
  <2>4. NothingMissing'
    <3>1. e.by = Providers
      BY <2>1
    <3>2. at[w] = "store"
      BY <1>5 DEF Store
    <3>3. QED
      BY <2>2, <3>1, <3>2
  <2>5. QED
    BY <2>3, <2>4
<1>6. ASSUME NEW w \in Workers, StoreFails(w) PROVE DataInv'
  BY <1>6 DEF StoreFails
<1>7. ASSUME NEW w \in Workers, Respond(w) PROVE DataInv'
  BY <1>7 DEF Respond, NoReply, Replies
<1>8. ASSUME NEW w \in Workers, Kill(w) PROVE DataInv'
  BY <1>8 DEF Kill, NoReply, Replies
<1>9. ASSUME NEW w \in Workers, NEW p \in Providers, Begin(w, p) PROVE DataInv'
  BY <1>9 DEF Begin
<1>10. ASSUME NEW w \in Workers, NEW p \in Providers, FailFast(w, p) PROVE DataInv'
  BY <1>10 DEF FailFast
<1>11. ASSUME NEW w \in Workers, NEW p \in Providers, Offers(w, p) PROVE DataInv'
  BY <1>11 DEF Offers
<1>12. ASSUME NEW w \in Workers, NEW p \in Providers, AttemptFails(w, p) PROVE DataInv'
  BY <1>12 DEF AttemptFails
<1>13. ASSUME NEW w \in Workers, NEW p \in Providers, Garbles(w, p) PROVE DataInv'
  BY <1>13 DEF Garbles
<1>14. ASSUME NEW w \in Workers, NEW p \in Providers, Retry(w, p) PROVE DataInv'
  BY <1>14 DEF Retry
<1>15. ASSUME NEW c \in Criteria, Evict(c) PROVE DataInv'
  BY <1>15 DEF Evict, NoEntry, Entries
<1>16. CASE Tick
  <2>1. \A c \in Criteria : Aged(cache[c]) \in Entries /\ (Aged(cache[c]).ttl > 0 => Aged(cache[c]).by = cache[c].by /\ cache[c].ttl > 0)
    BY DEF Aged, Entries, NoEntry
  <2>2. \A w \in Workers :
            /\ age'[w] \in 0..(RequestTimeout + OfferTTL)
            /\ at[w] \in {"fanout", "store"} => age'[w] <= RequestTimeout
    BY <1>16 DEF Tick, TimeMayPass
  <2>3. QED
    BY <1>16, <2>1, <2>2 DEF Tick
<1>17. CASE UNCHANGED vars
  BY <1>17 DEF vars
<1>18. QED
  BY <1>1, <1>2, <1>3, <1>4, <1>5, <1>6, <1>7, <1>8, <1>9, <1>10, <1>11, <1>12, <1>13, <1>14, <1>15,
     <1>16, <1>17, Actions

\* Every step keeps the invariant.
LEMMA StepIInv == IInv /\ [Next]_vars => IInv'
BY CallStep, BreakerStep, DataStep DEF IInv, CallInv, BreakerInv, DataInv

LEMMA Inductive == Spec => []IInv
BY InitIInv, StepIInv, PTL DEF Spec

\* Locals, breakers, cache and replies keep their types.
THEOREM TypeCorrect == Spec => []TypeOK
<1>1. IInv => TypeOK
  BY DEF IInv, CallInv, CallTypes, BreakerInv, BreakerTypes, DataInv, DataTypes, TypeOK
<1>2. QED
  BY <1>1, Inductive, PTL

\* What is answered, cached or not, accounts for every provider, and the cache holds complete results
\* only: no worker's partial result reaches another's client as if it were whole.
THEOREM ResultsAreComplete == Spec => []NothingMissing
<1>1. IInv => NothingMissing
  BY DEF IInv, DataInv
<1>2. QED
  BY <1>1, Inductive, PTL

\* No offer is shown that is older than a request and a stay in the cache.
THEOREM AnswersAreFresh == Spec => []RepliesAreFresh
<1>1. IInv => RepliesAreFresh
  BY DEF IInv, DataInv, DataTypes, RepliesAreFresh
<1>2. QED
  BY <1>1, Inductive, PTL

\* A provider with an open circuit is left alone.
THEOREM CircuitsRest == Spec => []OpenCircuitRests
<1>1. IInv => OpenCircuitRests
  BY DEF IInv, BreakerInv
<1>2. QED
  BY <1>1, Inductive, PTL

----------------------------------------------------------------------------
(* The bound on fan-outs.  Calls start whenever a slot is free, and each takes    *)
(* CallBound at most: by the end of the m-th interval of that length m times the  *)
(* slots' number of calls are over, or all of them.                               *)

\* An upper bound on what is left of a call that holds a slot.
Left(w, p) ==
    IF call[w][p] = "trying"
    THEN due[w][p] + (Attempts - 1 - tries[w][p]) * (Deadline + Backoff)
    ELSE due[w][p] + Deadline + (Attempts - 1 - tries[w][p]) * (Deadline + Backoff)

\* The calls that end within the first m intervals, whatever happens.
EndsBy(w, m) ==
    {p \in Providers : \/ call[w][p] \in Over
                       \/ call[w][p] \in Holding /\ age[w] + Left(w, p) <= m * CallBound}

AtLeast(n, m) == n >= m * MaxConcurrency \/ n >= Cardinality(Providers)

OnSchedule ==
    \A w \in Workers : at[w] = "fanout" =>
        /\ age[w] <= FanoutBound
        /\ \A m \in Nat \ {0} :
              age[w] > (m - 1) * CallBound => AtLeast(Cardinality(EndsBy(w, m)), m)

\* A call is bounded, and the number of waves is enough for all providers.
LEMMA Bounds ==
    /\ CallBound \in Nat \ {0}
    /\ Cardinality(Providers) \in Nat \ {0}
    /\ Waves \in Nat \ {0}
    /\ Waves * MaxConcurrency >= Cardinality(Providers)
    /\ FanoutBound = Waves * CallBound
<1>1. Attempts * Deadline \in Nat \ {0} /\ (Attempts - 1) * Backoff \in Nat
  OBVIOUS
<1>2. CallBound \in Nat \ {0}
  BY <1>1 DEF CallBound
<1>3. Cardinality(Providers) \in Nat \ {0}
  BY ProvidersAssumption, FS_CardinalityType, FS_EmptySet
<1>4. ASSUME NEW n \in Nat \ {0}, NEW k \in Nat \ {0}
      PROVE  (n + k - 1) \div k \in Nat \ {0} /\ ((n + k - 1) \div k) * k >= n
  OBVIOUS
<1>5. MaxConcurrency \in Nat \ {0}
  OBVIOUS
<1>6. QED
  BY <1>2, <1>3, <1>4, <1>5 DEF Waves, FanoutBound

\* What is left of a call shrinks with each step of it, by one with each unit of time, and is at most
\* the whole when it begins.
LEMMA LeftTypes ==
    ASSUME CallInv, NEW w \in Workers, NEW p \in Providers, call[w][p] \in Holding
    PROVE  Left(w, p) \in Nat /\ Left(w, p) >= due[w][p] /\ Left(w, p) <= CallBound
<1> DEFINE k == Attempts - 1 - tries[w][p]
<1>1. k \in Nat /\ k <= Attempts - 1 /\ due[w][p] \in Nat
  BY DEF CallInv, CallTypes, Timed, Holding
<1>2. k * (Deadline + Backoff) \in Nat
  BY <1>1
<1>3. k * (Deadline + Backoff) <= (Attempts - 1) * (Deadline + Backoff)
  BY <1>1
<1>4. CallBound = Deadline + (Attempts - 1) * (Deadline + Backoff)
  BY DEF CallBound
<1>5. CASE call[w][p] = "trying"
  <2>1. due[w][p] <= Deadline
    BY <1>5 DEF CallInv, Timed
  <2>2. QED
    BY <1>1, <1>2, <1>3, <1>4, <1>5, <2>1 DEF Left
<1>6. CASE call[w][p] = "backoff"
  <2>1. due[w][p] <= Backoff /\ k + 1 <= Attempts - 1
    BY <1>1, <1>6 DEF CallInv, Timed
  <2>2. (k + 1) * (Deadline + Backoff) <= (Attempts - 1) * (Deadline + Backoff)
    BY <1>1, <2>1
  <2>3. (k + 1) * (Deadline + Backoff) = k * (Deadline + Backoff) + Deadline + Backoff
    BY <1>1
  <2>4. QED
    BY <1>1, <1>2, <1>4, <1>6, <2>1, <2>2, <2>3 DEF Left
<1>7. QED
  BY <1>5, <1>6 DEF Holding

LEMMA LeftAfter ==
    ASSUME CallInv', NEW w \in Workers, NEW p \in Providers, call'[w][p] \in Holding
    PROVE  Left(w, p)' \in Nat
<1>1. Attempts - 1 - tries'[w][p] \in Nat /\ due'[w][p] \in Nat
  BY DEF CallInv, CallTypes, Timed, Holding
<1>2. (Attempts - 1 - tries'[w][p]) * (Deadline + Backoff) \in Nat
  BY <1>1
<1>3. QED
  BY <1>1, <1>2 DEF Left

\* A step that takes no call back and makes none last longer.
Advances(w) ==
    \A p \in Providers :
        /\ call[w][p] \in Over => call'[w][p] \in Over
        /\ call[w][p] \in Holding =>
              \/ call'[w][p] \in Over
              \/ call'[w][p] \in Holding /\ age'[w] + Left(w, p)' <= age[w] + Left(w, p)

\* Such a step keeps the schedule.
LEMMA AdvanceKeeps ==
    ASSUME CallInv, CallInv', DataTypes, DataTypes', NEW w \in Workers, Advances(w), NEW m \in Nat \ {0},
           AtLeast(Cardinality(EndsBy(w, m)), m)
    PROVE  AtLeast(Cardinality(EndsBy(w, m)'), m)
<1>1. m * CallBound \in Nat /\ m * MaxConcurrency \in Nat
  BY Bounds
<1>2. ASSUME NEW p \in Providers, p \in EndsBy(w, m) PROVE p \in EndsBy(w, m)'
  <2>1. CASE call'[w][p] \in Over
    BY <2>1 DEF EndsBy
  <2>2. CASE call'[w][p] \notin Over
    <3>1. call[w][p] \in Holding /\ call'[w][p] \in Holding
      BY <1>2, <2>2 DEF EndsBy, Advances
    <3>2. /\ age[w] + Left(w, p) <= m * CallBound
          /\ age'[w] + Left(w, p)' <= age[w] + Left(w, p)
      BY <1>2, <2>2, <3>1 DEF EndsBy, Advances, Holding, Over
    <3>3. Left(w, p) \in Nat /\ age[w] \in Nat /\ age'[w] \in Nat
      BY <3>1, LeftTypes DEF DataTypes
    <3>4. Left(w, p)' \in Nat
      BY <3>1, LeftAfter
    <3>5. age'[w] + Left(w, p)' <= m * CallBound
      BY <1>1, <3>2, <3>3, <3>4
    <3>6. QED
      BY <3>1, <3>5 DEF EndsBy
  <2>3. QED
    BY <2>1, <2>2
<1>3. EndsBy(w, m) \subseteq EndsBy(w, m)' /\ EndsBy(w, m)' \subseteq Providers
  BY <1>2 DEF EndsBy
<1>4. /\ Cardinality(EndsBy(w, m)) <= Cardinality(EndsBy(w, m)')
      /\ Cardinality(EndsBy(w, m)) \in Nat /\ Cardinality(EndsBy(w, m)') \in Nat
  BY <1>3, ProvidersAssumption, FS_Subset, FS_CardinalityType
<1>5. QED
  BY <1>1, <1>4, Bounds DEF AtLeast

\* All steps but the passing of time start a fan-out, end it, or advance it at its age.
LEMMA StepAdvances ==
    ASSUME IInv, [Next]_vars, ~Tick, NEW w \in Workers, at'[w] = "fanout"
    PROVE  \/ at[w] = "fanout" /\ age'[w] = age[w] /\ Advances(w)
           \/ age'[w] = 0
<1> USE DEF IInv, CallInv, DataInv, DataTypes, CallTypes, Goto, fanout, breakers
<1> DEFINE Goal == \/ at[w] = "fanout" /\ age'[w] = age[w] /\ Advances(w)
                   \/ age'[w] = 0
           SameCall(p) == /\ call'[w][p] = call[w][p]
                          /\ tries'[w][p] = tries[w][p] /\ due'[w][p] = due[w][p]
<1>1. ASSUME NEW p \in Providers, SameCall(p), call[w][p] \in Holding
      PROVE  call'[w][p] \in Holding /\ Left(w, p)' <= Left(w, p)
  BY <1>1, LeftTypes DEF Left
<1>2. ASSUME NEW p \in Providers, at'[w] = at[w], age'[w] = age[w], \A q \in Providers \ {p} : SameCall(q),
             \/ call[w][p] = "queued"
             \/ call'[w][p] \in Over
             \/ call[w][p] \in Holding /\ call'[w][p] \in Holding /\ Left(w, p)' <= Left(w, p)
      PROVE  Goal
  <2>1. ASSUME NEW q \in Providers, call[w][q] \in Holding
        PROVE  \/ call'[w][q] \in Over
               \/ call'[w][q] \in Holding /\ Left(w, q)' <= Left(w, q)
    BY <1>1, <1>2, <2>1 DEF Holding, Over
  <2>2. ASSUME NEW q \in Providers, call[w][q] \in Over PROVE call'[w][q] \in Over
    BY <1>2, <2>2 DEF Holding, Over
  <2>3. ASSUME NEW q \in Providers, call[w][q] \in Holding, call'[w][q] \in Holding, Left(w, q)' <= Left(w, q)
        PROVE  age'[w] + Left(w, q)' <= age[w] + Left(w, q)
    <3>1. Left(w, q) \in Nat /\ age[w] \in Nat
      BY <2>3, LeftTypes
    <3>2. Left(w, q)' \in Nat
      <4>1. CallInv'
        BY CallStep
      <4>2. QED
        BY <2>3, <4>1, LeftAfter
    <3>3. QED
      BY <1>2, <2>3, <3>1, <3>2
  <2>4. QED
    BY <1>2, <2>1, <2>2, <2>3 DEF Advances
<1>3. CASE at'[w] = at[w] /\ age'[w] = age[w] /\ \A p \in Providers : SameCall(p)
  <2>1. PICK p \in Providers : TRUE
    BY ProvidersAssumption
  <2>2. call[w][p] \in Holding \cup Over \cup {"queued"}
    BY <1>3 DEF Located, Calls
  <2>3. QED
    BY <1>1, <1>2, <1>3, <2>2
<1>4. ASSUME NEW v \in Workers, NEW c \in Criteria, Request(v, c) PROVE Goal
  BY <1>3, <1>4 DEF Request
<1>5. ASSUME NEW v \in Workers, Hit(v) \/ Store(v) \/ StoreFails(v) \/ Respond(v) PROVE Goal
  BY <1>3, <1>5 DEF Hit, Store, StoreFails, Respond
<1>6. ASSUME NEW v \in Workers, Miss(v) PROVE Goal
  BY <1>3, <1>6 DEF Miss, Aging
<1>7. ASSUME NEW v \in Workers, Gather(v) \/ Kill(v) PROVE Goal
  BY <1>3, <1>7 DEF Gather, Kill, ForgetCalls
<1>8. ASSUME NEW v \in Workers, NEW p \in Providers, Begin(v, p) PROVE Goal
  <2>1. CASE v = w
    <3>1. /\ at'[w] = at[w] /\ age'[w] = age[w] /\ call[w][p] = "queued"
          /\ \A q \in Providers \ {p} : SameCall(q)
      BY <1>8, <2>1 DEF Begin
    <3>2. QED
      BY <1>2, <3>1
  <2>2. CASE v # w
    <3>1. /\ at'[w] = at[w] /\ age'[w] = age[w]
          /\ \A q \in Providers : SameCall(q)
      BY <1>8, <2>2 DEF Begin
    <3>2. QED
      BY <1>3, <3>1
  <2>3. QED
    BY <2>1, <2>2
<1>9. ASSUME NEW v \in Workers, NEW p \in Providers, FailFast(v, p) \/ Offers(v, p) \/ Garbles(v, p) PROVE Goal
  <2>1. CASE v = w
    <3>1. /\ at'[w] = at[w] /\ age'[w] = age[w] /\ call'[w][p] \in Over
          /\ \A q \in Providers \ {p} : SameCall(q)
      BY <1>9, <2>1 DEF FailFast, Offers, Garbles, Fail, Over
    <3>2. QED
      BY <1>2, <3>1
  <2>2. CASE v # w
    <3>1. /\ at'[w] = at[w] /\ age'[w] = age[w]
          /\ \A q \in Providers : SameCall(q)
      BY <1>9, <2>2 DEF FailFast, Offers, Garbles, Fail, Over
    <3>2. QED
      BY <1>3, <3>1
  <2>3. QED
    BY <2>1, <2>2
<1>10. ASSUME NEW v \in Workers, NEW p \in Providers, AttemptFails(v, p) PROVE Goal
  <2>1. CASE Fail(v, p) /\ UNCHANGED due
    <3>1. CASE v = w
      <4>1. /\ at'[w] = at[w] /\ age'[w] = age[w] /\ call'[w][p] \in Over
            /\ \A q \in Providers \ {p} : SameCall(q)
        BY <1>10, <2>1, <3>1 DEF AttemptFails, Fail, Over
      <4>2. QED
        BY <1>2, <4>1
    <3>2. CASE v # w
      <4>1. /\ at'[w] = at[w] /\ age'[w] = age[w]
            /\ \A q \in Providers : SameCall(q)
        BY <1>10, <2>1, <3>2 DEF AttemptFails, Fail, Over
      <4>2. QED
        BY <1>3, <4>1
    <3>3. QED
      BY <3>1, <3>2
  <2>2. CASE /\ call' = [call EXCEPT ![v][p] = "backoff"] /\ due' = [due EXCEPT ![v][p] = Backoff]
             /\ tries'[v][p] < Attempts
    <3>1. CASE v = w
      <4> DEFINE k == Attempts - 1 - tries[w][p]
      <4>1. /\ call[w][p] = "trying" /\ call'[w][p] = "backoff" /\ tries'[w][p] = tries[w][p] + 1
            /\ due'[w][p] = Backoff /\ k \in Nat \ {0} /\ due[w][p] \in Nat
        BY <1>10, <2>2, <3>1 DEF AttemptFails
      <4>2. Left(w, p) = due[w][p] + k * (Deadline + Backoff)
        BY <4>1 DEF Left
      <4>3. Left(w, p)' = Backoff + Deadline + (k - 1) * (Deadline + Backoff)
        BY <4>1 DEF Left
      <4>4. k - 1 \in Nat /\ Deadline + Backoff \in Nat
        BY <4>1
      <4>5. (k - 1) * (Deadline + Backoff) + (Deadline + Backoff) = k * (Deadline + Backoff)
        BY <4>4
      <4>6. k * (Deadline + Backoff) \in Nat /\ (k - 1) * (Deadline + Backoff) \in Nat
        BY <4>1, <4>4
      <4>7. Left(w, p)' <= Left(w, p)
        BY <4>1, <4>2, <4>3, <4>5, <4>6
      <4>8. /\ at'[w] = at[w] /\ age'[w] = age[w]
            /\ \A q \in Providers \ {p} : SameCall(q)
        BY <1>10, <2>2, <3>1 DEF AttemptFails
      <4>9. call[w][p] \in Holding /\ call'[w][p] \in Holding
        BY <4>1 DEF Holding
      <4>10. QED
        BY <1>2, <4>7, <4>8, <4>9
    <3>2. CASE v # w
      BY <1>3, <1>10, <2>2, <3>2 DEF AttemptFails
    <3>3. QED
      BY <3>1, <3>2
  <2>3. QED
    BY <1>10, <2>1, <2>2 DEF AttemptFails
<1>11. ASSUME NEW v \in Workers, NEW p \in Providers, Retry(v, p) PROVE Goal
  <2>1. CASE v = w
    <3>1. /\ call[w][p] = "backoff" /\ call'[w][p] = "trying" /\ tries'[w][p] = tries[w][p]
          /\ due'[w][p] = Deadline
      BY <1>11, <2>1 DEF Retry
    <3>2. Attempts - 1 - tries[w][p] \in Nat /\ due[w][p] \in Nat
      BY <3>1 DEF Timed
    <3>3. (Attempts - 1 - tries[w][p]) * (Deadline + Backoff) \in Nat
      BY <3>2
    <3>4. Left(w, p)' <= Left(w, p)
      BY <3>1, <3>2, <3>3 DEF Left
    <3>5. /\ at'[w] = at[w] /\ age'[w] = age[w]
          /\ \A q \in Providers \ {p} : SameCall(q)
      BY <1>11, <2>1 DEF Retry
    <3>6. QED
      BY <1>2, <3>1, <3>4, <3>5 DEF Holding
  <2>2. CASE v # w
    BY <1>3, <1>11, <2>2 DEF Retry
  <2>3. QED
    BY <2>1, <2>2
<1>12. ASSUME NEW c \in Criteria, Evict(c) PROVE Goal
  BY <1>3, <1>12 DEF Evict
<1>13. CASE UNCHANGED vars
  BY <1>3, <1>13 DEF vars
<1>14. QED
  BY <1>4, <1>5, <1>6, <1>7, <1>8, <1>9, <1>10, <1>11, <1>12, <1>13, Actions

\* Time passes while every slot is in use or no call waits for one.
LEMMA TickKeepsSchedule ==
    ASSUME IInv, IInv', OnSchedule, Tick, NEW w \in Workers, at[w] = "fanout"
    PROVE  /\ age'[w] <= FanoutBound
           /\ \A m \in Nat \ {0} :
                 age'[w] > (m - 1) * CallBound => AtLeast(Cardinality(EndsBy(w, m)'), m)
<1> DEFINE O == {p \in Providers : call[w][p] \in Over}
           H == {p \in Providers : call[w][p] \in Holding}
           N == Cardinality(Providers)
<1>1. /\ age'[w] = age[w] + 1 /\ age[w] \in Nat
      /\ \A p \in Providers : call[w][p] \in Holding => due[w][p] > 0
      /\ \A p \in Providers : call[w][p] # "queued" \/ Cardinality(H) >= MaxConcurrency
      /\ ~ \A p \in Providers : call[w][p] \in Over
  <2>1. Cardinality(H) \in Nat
    BY ProvidersAssumption, FS_Subset, FS_CardinalityType
  <2>2. /\ \A p \in Providers : call[w][p] \in Holding => due[w][p] > 0
        /\ \A p \in Providers : call[w][p] # "queued" \/ ~SlotFree(w)
        /\ ~ \A p \in Providers : call[w][p] \in Over
    BY DEF Tick, TimeMayPass, Waits, Gathered
  <2>3. ~SlotFree(w) => Cardinality(H) >= MaxConcurrency
    BY <2>1 DEF SlotFree
  <2>4. age'[w] = age[w] + 1 /\ age[w] \in Nat
    BY DEF Tick, IInv, DataInv, DataTypes
  <2>5. QED
    BY <2>2, <2>3, <2>4
<1>2. \A p \in Providers : call[w][p] \in Holding =>
          /\ Left(w, p) \in Nat /\ Left(w, p) > 0 /\ Left(w, p) <= CallBound
  BY <1>1, LeftTypes DEF IInv, CallInv, CallTypes
<1>3. \A m \in Nat \ {0} : age[w] >= m * CallBound => EndsBy(w, m) \subseteq O
  <2> SUFFICES ASSUME NEW m \in Nat \ {0}, age[w] >= m * CallBound, NEW p \in Providers, p \in EndsBy(w, m)
               PROVE  call[w][p] \in Over
    BY DEF EndsBy
  <2>1. m * CallBound \in Nat
    BY Bounds
  <2>2. QED
    BY <1>1, <1>2, <2>1 DEF EndsBy
<1>4. /\ IsFiniteSet(O) /\ IsFiniteSet(H) /\ Cardinality(O) \in Nat /\ Cardinality(H) \in Nat /\ N \in Nat
      /\ Cardinality(O) = N => O = Providers
      /\ Cardinality(O \cup H) = Cardinality(O) + Cardinality(H)
  <2>1. O \subseteq Providers /\ H \subseteq Providers /\ O \cap H = {}
    BY DEF Over, Holding
  <2>2. IsFiniteSet(O) /\ IsFiniteSet(H) /\ Cardinality(O) \in Nat /\ Cardinality(H) \in Nat /\ N \in Nat
    BY <2>1, ProvidersAssumption, FS_Subset, FS_CardinalityType
  <2>3. Cardinality(O \cup H) = Cardinality(O) + Cardinality(H) - Cardinality({})
    BY <2>1, <2>2, FS_Union
  <2>4. QED
    BY <2>1, <2>2, <2>3, ProvidersAssumption, FS_Subset, FS_EmptySet
<1>5. O # Providers
  BY <1>1
<1>6. ASSUME NEW m \in Nat \ {0}, age[w] >= m * CallBound
      PROVE  Cardinality(O) >= m * MaxConcurrency
  <2>1. (m - 1) * CallBound < m * CallBound /\ (m - 1) * CallBound \in Nat /\ m * CallBound \in Nat
    <3>1. m * CallBound = (m - 1) * CallBound + CallBound
      BY Bounds
    <3>2. (m - 1) * CallBound \in Nat
      BY Bounds
    <3>3. QED
      BY <3>1, <3>2, Bounds
  <2>2. AtLeast(Cardinality(EndsBy(w, m)), m)
    BY <1>1, <1>6, <2>1 DEF OnSchedule
  <2>3. /\ Cardinality(EndsBy(w, m)) <= Cardinality(O) /\ Cardinality(EndsBy(w, m)) \in Nat
        /\ Cardinality(O) <= N
    <3>1. EndsBy(w, m) \subseteq O /\ O \subseteq Providers
      BY <1>3, <1>6
    <3>2. QED
      BY <3>1, <1>4, ProvidersAssumption, FS_Subset, FS_CardinalityType
  <2>4. m * MaxConcurrency \in Nat
    OBVIOUS
  <2>5. Cardinality(O) # N
    BY <1>4, <1>5
  <2>6. Cardinality(O) \in Nat /\ N \in Nat
    BY <1>4
  <2>7. \A c, o, n, k \in Nat : c <= o /\ o <= n /\ o # n /\ (c >= k \/ c >= n) => o >= k
    OBVIOUS
  <2>8. Cardinality(EndsBy(w, m)) >= m * MaxConcurrency \/ Cardinality(EndsBy(w, m)) >= N
    BY <2>2 DEF AtLeast
  <2>9. QED
    <3> HIDE DEF O, N
    <3> QED
      BY <2>3, <2>4, <2>5, <2>6, <2>7, <2>8
<1>7. age'[w] <= FanoutBound
  <2>1. SUFFICES ASSUME age[w] >= Waves * CallBound PROVE FALSE
    <3>1. age[w] <= Waves * CallBound /\ Waves * CallBound \in Nat
      BY Bounds DEF OnSchedule
    <3>2. QED
      BY <1>1, <3>1, Bounds
  <2>2. Cardinality(O) >= Waves * MaxConcurrency
    BY <1>6, <2>1, Bounds
  <2>3. Cardinality(O) <= N
    BY <1>4, ProvidersAssumption, FS_Subset
  <2>4. Waves * MaxConcurrency \in Nat /\ Waves * MaxConcurrency >= N
    BY Bounds
  <2>5. Cardinality(O) = N
    BY <1>4, <2>2, <2>3, <2>4
  <2>6. QED
    BY <1>4, <1>5, <2>5
<1>8. ASSUME NEW m \in Nat \ {0}, age'[w] > (m - 1) * CallBound
      PROVE  AtLeast(Cardinality(EndsBy(w, m)'), m)
  <2>1. Advances(w)
    <3> SUFFICES ASSUME NEW p \in Providers, call[w][p] \in Holding
                 PROVE  Left(w, p)' = Left(w, p) - 1 /\ call'[w][p] \in Holding
      BY <1>1, <1>2 DEF Advances, Tick
    <3>1. /\ due'[w][p] = due[w][p] - 1 /\ call'[w][p] = call[w][p] /\ tries'[w][p] = tries[w][p]
      BY DEF Tick, Waits
    <3>2. /\ due[w][p] \in Nat /\ Attempts - 1 - tries[w][p] \in Nat
      BY DEF IInv, CallInv, CallTypes, Timed, Holding
    <3>3. (Attempts - 1 - tries[w][p]) * (Deadline + Backoff) \in Nat
      BY <3>2
    <3>4. QED
      BY <3>1, <3>2, <3>3 DEF Left
  <2>2. (m - 1) * CallBound \in Nat /\ m * CallBound = (m - 1) * CallBound + CallBound
    BY Bounds
  <2>3. AtLeast(Cardinality(EndsBy(w, m)), m)
    <3>1. CASE age[w] > (m - 1) * CallBound
      BY <3>1 DEF OnSchedule
    <3>2. CASE age[w] = (m - 1) * CallBound
      <4>1. O \cup H \subseteq EndsBy(w, m) /\ EndsBy(w, m) \subseteq Providers
        BY <1>1, <1>2, <2>2, <3>2, Bounds DEF EndsBy
      <4>2. /\ Cardinality(O) + Cardinality(H) <= Cardinality(EndsBy(w, m))
            /\ Cardinality(EndsBy(w, m)) \in Nat
        BY <4>1, <1>4, ProvidersAssumption, FS_Subset, FS_CardinalityType
      <4>3. CASE \A p \in Providers : call[w][p] # "queued"
        <5>1. EndsBy(w, m) = Providers
          <6>1. ASSUME NEW p \in Providers PROVE p \in O \cup H
            BY <4>3 DEF IInv, CallInv, CallTypes, Located, Calls
          <6>2. QED
            BY <4>1, <6>1
        <5>2. QED
          BY <5>1, <1>4 DEF AtLeast
      <4>4. CASE Cardinality(H) >= MaxConcurrency
        <5>1. Cardinality(O) >= (m - 1) * MaxConcurrency
          <6>1. CASE m = 1
            BY <6>1, <1>4
          <6>2. CASE m # 1
            BY <6>2, <1>6, <1>1, <2>2, <3>2
          <6>3. QED
            BY <6>1, <6>2
        <5>2. (m - 1) * MaxConcurrency + MaxConcurrency = m * MaxConcurrency /\ (m - 1) * MaxConcurrency \in Nat
          OBVIOUS
        <5>3. QED
          BY <1>4, <4>2, <4>4, <5>1, <5>2 DEF AtLeast
      <4>5. QED
        BY <1>1, <4>3, <4>4
    <3>3. QED
      BY <1>1, <1>8, <2>2, <3>1, <3>2
  <2>4. QED
    BY <2>1, <2>3, AdvanceKeeps DEF IInv, DataInv
<1>9. QED
  BY <1>7, <1>8

LEMMA InitOnSchedule == Init => OnSchedule
BY DEF Init, OnSchedule

LEMMA StepOnSchedule == IInv /\ OnSchedule /\ [Next]_vars => OnSchedule'
<1> SUFFICES ASSUME IInv, OnSchedule, [Next]_vars, NEW w \in Workers, at'[w] = "fanout"
             PROVE  /\ age'[w] <= FanoutBound
                    /\ \A m \in Nat \ {0} :
                          age'[w] > (m - 1) * CallBound => AtLeast(Cardinality(EndsBy(w, m)'), m)
  BY DEF OnSchedule, FanoutBound, Waves, CallBound, AtLeast
<1>1. IInv'
  BY StepIInv
<1>2. CASE Tick
  <2>1. at[w] = "fanout"
    BY <1>2 DEF Tick
  <2>2. QED
    BY <1>1, <1>2, <2>1, TickKeepsSchedule
<1>3. CASE ~Tick
  <2>1. CASE at[w] = "fanout" /\ age'[w] = age[w] /\ Advances(w)
    BY <1>1, <2>1, AdvanceKeeps DEF OnSchedule, IInv, DataInv
  <2>2. CASE age'[w] = 0
    <3>1. \A m \in Nat \ {0} : (m - 1) * CallBound \in Nat
      BY Bounds
    <3>2. FanoutBound \in Nat
      BY Bounds
    <3>3. QED
      BY <2>2, <3>1, <3>2
  <2>3. QED
    BY <1>3, <2>1, <2>2, StepAdvances
<1>4. QED
  BY <1>2, <1>3

\* Deadlines, retries and the semaphore keep every fan-out within its bound, for any number of
\* providers and slots: no provider can make gunicorn kill a worker.
THEOREM FanoutsEnd == Spec => []FanoutEndsInTime
<1>1. OnSchedule => FanoutEndsInTime
  BY DEF OnSchedule, FanoutEndsInTime
<1>2. Spec => []OnSchedule
  BY Inductive, InitOnSchedule, StepOnSchedule, PTL DEF Spec
<1>3. QED
  BY <1>1, <1>2, PTL

\* What becomes of the attempt of a half-open circuit, whoever steps.
LEMMA Probed ==
    ASSUME IInv, [Next]_vars, NEW w \in Workers, NEW p \in Providers,
           cooling[w][p] = 0, call[w][p] \in Holding, at'[w] # "idle", call'[w][p] \in Over
    PROVE  /\ call'[w][p] = "failed" => cooling'[w][p] = ResetTimeout
           /\ call'[w][p] = "offers" => cooling'[w][p] = Closed
<1> USE DEF IInv, CallInv, CallTypes, BreakerInv, BreakerTypes, DataInv, DataTypes, Goto, fanout
<1>1. call'[w][p] # call[w][p]
  BY DEF Holding, Over
<1>2. ASSUME NEW v \in Workers, Miss(v) \/ Kill(v) PROVE FALSE
  <2>1. at[w] = "fanout"
    BY DEF Located, Holding
  <2>2. QED
    BY <1>1, <1>2, <2>1 DEF Miss, Kill, ForgetCalls
<1>3. ASSUME NEW v \in Workers, Gather(v) PROVE FALSE
  BY <1>1, <1>3 DEF Gather, Gathered, ForgetCalls, Over, Holding
<1>4. ASSUME NEW v \in Workers, NEW q \in Providers, NEW l, call' = [call EXCEPT ![v][q] = l]
      PROVE  v = w /\ q = p /\ call'[w][p] = l
  <2>1. CASE v = w /\ q = p
    BY <1>4, <2>1
  <2>2. CASE v = w /\ q # p
    BY <1>1, <1>4, <2>2
  <2>3. CASE v # w
    BY <1>1, <1>4, <2>3
  <2>4. QED
    BY <2>1, <2>2, <2>3
<1>5. ASSUME NEW v \in Workers, NEW q \in Providers, NEW l \in Holding,
             call' = [call EXCEPT ![v][q] = l]
      PROVE  FALSE
  BY <1>4, <1>5 DEF Over, Holding
<1>6. ASSUME NEW v \in Workers, NEW q \in Providers, FailFast(v, q) PROVE FALSE
  BY <1>4, <1>6 DEF FailFast, Holding
<1>7. ASSUME NEW v \in Workers, NEW q \in Providers, Offers(v, q)
      PROVE  call'[w][p] = "offers" /\ cooling'[w][p] = Closed
  <2>1. v = w /\ q = p /\ call'[w][p] = "offers"
    BY <1>4, <1>7 DEF Offers
  <2>2. QED
    BY <1>7, <2>1 DEF Offers
<1>8. ASSUME NEW v \in Workers, NEW q \in Providers, Fail(v, q)
      PROVE  call'[w][p] = "failed" /\ cooling'[w][p] = ResetTimeout
  <2>1. v = w /\ q = p /\ call'[w][p] = "failed"
    BY <1>4, <1>8 DEF Fail
  <2>2. failures[w][p] = FailureThreshold
    BY DEF StillCounting, Closed
  <2>3. QED
    BY <1>8, <2>1, <2>2 DEF Fail, OnFailure
<1>9. ASSUME NEW v \in Workers, NEW q \in Providers,
             Begin(v, q) \/ Retry(v, q) \/ FailFast(v, q) \/ Offers(v, q) \/ AttemptFails(v, q) \/ Garbles(v, q)
      PROVE  Offers(v, q) \/ Fail(v, q)
  BY <1>5, <1>6, <1>9 DEF Begin, Retry, AttemptFails, Garbles, Holding
<1>10. ASSUME \/ \E v \in Workers : \/ \E c \in Criteria : Request(v, c)
                                    \/ Hit(v) \/ Store(v) \/ StoreFails(v) \/ Respond(v)
              \/ \E c \in Criteria : Evict(c)
              \/ Tick
              \/ UNCHANGED vars
       PROVE  FALSE
  BY <1>1, <1>10 DEF Request, Hit, Store, StoreFails, Respond, Evict, Tick, vars
<1>11. \E v \in Workers, q \in Providers : Offers(v, q) \/ Fail(v, q)
  BY <1>2, <1>3, <1>9, <1>10, Actions
<1>12. QED
  BY <1>7, <1>8, <1>11

\* A probe of a half-open circuit decides: one failure opens it again, because the failures that
\* opened it still count, and one success closes it.
THEOREM ProbesDecide == Spec => ProbeDecides
<1>1. IInv /\ [Next]_vars =>
          [\A w \in Workers, p \in Providers :
              cooling[w][p] = 0 /\ Waits(w, p) /\ at'[w] # "idle" =>
                  /\ call'[w][p] = "failed" => cooling'[w][p] = ResetTimeout
                  /\ call'[w][p] = "offers" => cooling'[w][p] = Closed]_vars
  BY Probed DEF Waits, Over
<1>2. QED
  BY <1>1, Inductive, PTL DEF Spec, ProbeDecides
=============================================================================

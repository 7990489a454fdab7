--------------------------- MODULE BookingProofs ---------------------------
(* Proofs about Booking, for any number of requests and keys and any timeouts    *)
(* with 2 * RequestTimeout < ReservationTTL.                                     *)
EXTENDS Booking, TLAPS

\* A keyed request that Redis has protected so far.
Guarded(r) == r \notin blind /\ key[r] # NoKey

\* A request whose own order has come back and gone through Save.
Settled(r) ==
    \/ r \in stored
    \/ r \in booked /\ (pc[r] \in {"resolve", "respond"} \/ answer[r] = "created")

\* Where a request can be, given what the provider has of it, and which are the answered.
Progress ==
    \A r \in Requests :
        /\ r \in wire => pc[r] \in {"wait", "done"} /\ answer[r] # "created"
        /\ r \in booked => pc[r] \in {"wait", "save", "resolve", "respond", "done"}
        /\ pc[r] \in {"save", "resolve"} => r \in booked
        /\ r \in stored => pc[r] \in {"respond", "done"}
        /\ answer[r] = "created" => pc[r] = "done"
        /\ pc[r] \in {"lookup", "reserve", "recheck"} => key[r] # NoKey
        /\ pc[r] = "idle" => r \notin wire \cup booked

\* Orders to be handed out are stored under the key of the request, one order per key.
Handover ==
    /\ \A r \in Requests :
          pc[r] = "respond" \/ answer[r] = "created"
          => returned[r] \in stored /\ key[returned[r]] = key[r]
    /\ \A r, s \in stored : key[r] = key[s] => r = s
    /\ \A r \in Requests : pc[r] = "resolve" => Persisted(key[r]) # {}

\* A guarded call is covered by its reservation, with time to spare.
Covered ==
    \A r \in Requests :
        Guarded(r) /\ pc[r] \in Calling => ttl[key[r]] >= ReservationTTL - RequestTimeout + left[r]

\* A request about to reserve a key that a guarded request has settled finds it reserved.
Shielded ==
    \A r, s \in Requests :
        SameKey(r, s) /\ Guarded(r) /\ Guarded(s) /\ Settled(r) /\ pc[s] = "reserve"
        => ttl[key[s]] >= ReservationTTL - 2 * RequestTimeout + left[s]

\* Of two guarded requests with one key, at most one is in its call or settled.
Exclusive ==
    \A r, s \in Requests :
        SameKey(r, s) /\ Guarded(r) /\ Guarded(s)
        => ~( (pc[r] \in Calling \/ Settled(r)) /\ (pc[s] \in Calling \/ Settled(s)) )

IInv == TypeOK /\ Progress /\ Handover /\ Covered /\ Shielded /\ Exclusive

----------------------------------------------------------------------------

USE NoKeyAssumption, NoOrderAssumption, TimeoutAssumption, TTLAssumption

\* The invariant holds at the start.
LEMMA InitIInv == Init => IInv
BY DEF Init, IInv, TypeOK, Locations, Running, Calling, Answers, Refusals, Progress, Handover,
       Covered, Shielded, Exclusive, Guarded, Settled, SameKey, Persisted


\* Types, and stored orders are booked.

\* Types, and stored orders are booked.

\* Types, and stored orders are booked.

\* Types, and stored orders are booked.

\* Types, and stored orders are booked.
LEMMA TypeStep ==
    ASSUME TypeOK, Progress, [Next]_vars PROVE TypeOK'
<1> USE DEF TypeOK, Progress, Answers, Refusals, Locations, Running, Calling, InFlight,
            Goto, Refuse, Return, ReadFails, Persisted, client, redis, provider
<1>1. ASSUME NEW r \in Requests, NEW k \in Keys \cup {NoKey}, Arrive(r, k) PROVE TypeOK'
  BY <1>1 DEF Arrive
<1>2. ASSUME NEW r \in Requests, Lookup(r) PROVE TypeOK'
  BY <1>2 DEF Lookup
<1>3. ASSUME NEW r \in Requests, Reserve(r) PROVE TypeOK'
  BY <1>3 DEF Reserve
<1>4. ASSUME NEW r \in Requests, ReserveUnprotected(r) PROVE TypeOK'
  BY <1>4 DEF ReserveUnprotected
<1>5. ASSUME NEW r \in Requests, Recheck(r) PROVE TypeOK'
  BY <1>5 DEF Recheck
<1>6. ASSUME NEW r \in Requests, GetOffer(r) PROVE TypeOK'
  BY <1>6 DEF GetOffer
<1>7. ASSUME NEW r \in Requests, PostOrder(r) PROVE TypeOK'
  BY <1>7 DEF PostOrder
<1>8. ASSUME NEW r \in Requests, ProviderAnswers(r) PROVE TypeOK'
  BY <1>8 DEF ProviderAnswers
<1>9. ASSUME NEW r \in Requests, CallFails(r) PROVE TypeOK'
  BY <1>9 DEF CallFails
<1>10. ASSUME NEW r \in Requests, Save(r) PROVE TypeOK'
  BY <1>10 DEF Save
<1>11. ASSUME NEW r \in Requests, SaveFails(r) PROVE TypeOK'
  BY <1>11 DEF SaveFails
<1>12. ASSUME NEW r \in Requests, Resolve(r) PROVE TypeOK'
  BY <1>12 DEF Resolve
<1>13. ASSUME NEW r \in Requests, Respond(r) PROVE TypeOK'
  BY <1>13 DEF Respond
<1>14. ASSUME NEW r \in Requests, ProviderBooks(r) PROVE TypeOK'
  BY <1>14 DEF ProviderBooks
<1>15. ASSUME NEW r \in Requests, ProviderDrops(r) PROVE TypeOK'
  BY <1>15 DEF ProviderDrops
<1>16. ASSUME NEW r \in Requests, Kill(r) PROVE TypeOK'
  BY <1>16 DEF Kill
<1>17. CASE Tick
  BY <1>17 DEF Tick
<1>18. CASE RedisRestart
  BY <1>18 DEF RedisRestart
<1>19. CASE UNCHANGED vars
  BY <1>19 DEF vars
<1>20. QED
  BY <1>1, <1>2, <1>3, <1>4, <1>5, <1>6, <1>7, <1>8, <1>9, <1>10, <1>11, <1>12, <1>13,
     <1>14, <1>15, <1>16, <1>17, <1>18, <1>19 DEF Next, Handler, Provider

\* What a location says of the provider's side, and the other way round.
LEMMA ProgressStep ==
    ASSUME TypeOK, Progress, [Next]_vars PROVE Progress'
<1> USE DEF TypeOK, Progress, Locations, Running, Calling, InFlight, Goto, Refuse, Return,
            ReadFails, Persisted, client, redis, provider
<1>1. ASSUME NEW r \in Requests, NEW k \in Keys \cup {NoKey}, Arrive(r, k) PROVE Progress'
  BY <1>1 DEF Arrive
<1>2. ASSUME NEW r \in Requests, Lookup(r) PROVE Progress'
  BY <1>2 DEF Lookup
<1>3. ASSUME NEW r \in Requests, Reserve(r) PROVE Progress'
  BY <1>3 DEF Reserve
<1>4. ASSUME NEW r \in Requests, ReserveUnprotected(r) PROVE Progress'
  BY <1>4 DEF ReserveUnprotected
<1>5. ASSUME NEW r \in Requests, Recheck(r) PROVE Progress'
  BY <1>5 DEF Recheck
<1>6. ASSUME NEW r \in Requests, GetOffer(r) PROVE Progress'
  BY <1>6 DEF GetOffer
<1>7. ASSUME NEW r \in Requests, PostOrder(r) PROVE Progress'
  BY <1>7 DEF PostOrder
<1>8. ASSUME NEW r \in Requests, ProviderAnswers(r) PROVE Progress'
  BY <1>8 DEF ProviderAnswers
<1>9. ASSUME NEW r \in Requests, CallFails(r) PROVE Progress'
  BY <1>9 DEF CallFails
<1>10. ASSUME NEW r \in Requests, Save(r) PROVE Progress'
  BY <1>10 DEF Save
<1>11. ASSUME NEW r \in Requests, SaveFails(r) PROVE Progress'
  BY <1>11 DEF SaveFails
<1>12. ASSUME NEW r \in Requests, Resolve(r) PROVE Progress'
  BY <1>12 DEF Resolve
<1>13. ASSUME NEW r \in Requests, Respond(r) PROVE Progress'
  BY <1>13 DEF Respond
<1>14. ASSUME NEW r \in Requests, ProviderBooks(r) PROVE Progress'
  BY <1>14 DEF ProviderBooks
<1>15. ASSUME NEW r \in Requests, ProviderDrops(r) PROVE Progress'
  BY <1>15 DEF ProviderDrops
<1>16. ASSUME NEW r \in Requests, Kill(r) PROVE Progress'
  BY <1>16 DEF Kill
<1>17. CASE Tick
  BY <1>17 DEF Tick
<1>18. CASE RedisRestart
  BY <1>18 DEF RedisRestart
<1>19. CASE UNCHANGED vars
  BY <1>19 DEF vars
<1>20. QED
  BY <1>1, <1>2, <1>3, <1>4, <1>5, <1>6, <1>7, <1>8, <1>9, <1>10, <1>11, <1>12, <1>13,
     <1>14, <1>15, <1>16, <1>17, <1>18, <1>19 DEF Next, Handler, Provider

\* The unique index keeps one order per key, and only stored orders are handed over.
LEMMA HandoverStep ==
    ASSUME TypeOK, Progress, Handover, [Next]_vars PROVE Handover'
<1> USE DEF TypeOK, Progress, Handover, Locations, Running, Calling, InFlight, Goto,
            Refuse, Return, ReadFails, Persisted, client, redis, provider
<1>1. ASSUME NEW r \in Requests, NEW k \in Keys \cup {NoKey}, Arrive(r, k) PROVE Handover'
  BY <1>1 DEF Arrive
<1>2. ASSUME NEW r \in Requests, Lookup(r) PROVE Handover'
  BY <1>2 DEF Lookup
<1>3. ASSUME NEW r \in Requests, Reserve(r) PROVE Handover'
  BY <1>3 DEF Reserve
<1>4. ASSUME NEW r \in Requests, ReserveUnprotected(r) PROVE Handover'
  BY <1>4 DEF ReserveUnprotected
<1>5. ASSUME NEW r \in Requests, Recheck(r) PROVE Handover'
  BY <1>5 DEF Recheck
<1>6. ASSUME NEW r \in Requests, GetOffer(r) PROVE Handover'
  BY <1>6 DEF GetOffer
<1>7. ASSUME NEW r \in Requests, PostOrder(r) PROVE Handover'
  BY <1>7 DEF PostOrder
<1>8. ASSUME NEW r \in Requests, ProviderAnswers(r) PROVE Handover'
  BY <1>8 DEF ProviderAnswers
<1>9. ASSUME NEW r \in Requests, CallFails(r) PROVE Handover'
  BY <1>9 DEF CallFails
<1>10. ASSUME NEW r \in Requests, Save(r) PROVE Handover'
  BY <1>10 DEF Save
<1>11. ASSUME NEW r \in Requests, SaveFails(r) PROVE Handover'
  BY <1>11 DEF SaveFails
<1>12. ASSUME NEW r \in Requests, Resolve(r) PROVE Handover'
  BY <1>12 DEF Resolve
<1>13. ASSUME NEW r \in Requests, Respond(r) PROVE Handover'
  BY <1>13 DEF Respond
<1>14. ASSUME NEW r \in Requests, ProviderBooks(r) PROVE Handover'
  BY <1>14 DEF ProviderBooks
<1>15. ASSUME NEW r \in Requests, ProviderDrops(r) PROVE Handover'
  BY <1>15 DEF ProviderDrops
<1>16. ASSUME NEW r \in Requests, Kill(r) PROVE Handover'
  BY <1>16 DEF Kill
<1>17. CASE Tick
  BY <1>17 DEF Tick
<1>18. CASE RedisRestart
  BY <1>18 DEF RedisRestart
<1>19. CASE UNCHANGED vars
  BY <1>19 DEF vars
<1>20. QED
  BY <1>1, <1>2, <1>3, <1>4, <1>5, <1>6, <1>7, <1>8, <1>9, <1>10, <1>11, <1>12, <1>13,
     <1>14, <1>15, <1>16, <1>17, <1>18, <1>19 DEF Next, Handler, Provider

\* A reservation is never shorter than what is left of the request that made it.
LEMMA CoveredStep ==
    ASSUME TypeOK, Progress, Covered, [Next]_vars PROVE Covered'
<1> USE DEF TypeOK, Progress, Covered, Guarded, Locations, Running, Calling, InFlight,
            Goto, Refuse, Return, ReadFails, Persisted, client, redis, provider
<1>1. ASSUME NEW r \in Requests, NEW k \in Keys \cup {NoKey}, Arrive(r, k) PROVE Covered'
  BY <1>1 DEF Arrive
<1>2. ASSUME NEW r \in Requests, Lookup(r) PROVE Covered'
  BY <1>2 DEF Lookup
<1>3. ASSUME NEW r \in Requests, Reserve(r) PROVE Covered'
  BY <1>3 DEF Reserve
<1>4. ASSUME NEW r \in Requests, ReserveUnprotected(r) PROVE Covered'
  BY <1>4 DEF ReserveUnprotected
<1>5. ASSUME NEW r \in Requests, Recheck(r) PROVE Covered'
  BY <1>5 DEF Recheck
<1>6. ASSUME NEW r \in Requests, GetOffer(r) PROVE Covered'
  BY <1>6 DEF GetOffer
<1>7. ASSUME NEW r \in Requests, PostOrder(r) PROVE Covered'
  BY <1>7 DEF PostOrder
<1>8. ASSUME NEW r \in Requests, ProviderAnswers(r) PROVE Covered'
  BY <1>8 DEF ProviderAnswers
<1>9. ASSUME NEW r \in Requests, CallFails(r) PROVE Covered'
  BY <1>9 DEF CallFails
<1>10. ASSUME NEW r \in Requests, Save(r) PROVE Covered'
  BY <1>10 DEF Save
<1>11. ASSUME NEW r \in Requests, SaveFails(r) PROVE Covered'
  BY <1>11 DEF SaveFails
<1>12. ASSUME NEW r \in Requests, Resolve(r) PROVE Covered'
  BY <1>12 DEF Resolve
<1>13. ASSUME NEW r \in Requests, Respond(r) PROVE Covered'
  BY <1>13 DEF Respond
<1>14. ASSUME NEW r \in Requests, ProviderBooks(r) PROVE Covered'
  BY <1>14 DEF ProviderBooks
<1>15. ASSUME NEW r \in Requests, ProviderDrops(r) PROVE Covered'
  BY <1>15 DEF ProviderDrops
<1>16. ASSUME NEW r \in Requests, Kill(r) PROVE Covered'
  BY <1>16 DEF Kill
<1>17. CASE Tick
  BY <1>17 DEF Tick
<1>18. CASE RedisRestart
  BY <1>18 DEF RedisRestart
<1>19. CASE UNCHANGED vars
  BY <1>19 DEF vars
<1>20. QED
  BY <1>1, <1>2, <1>3, <1>4, <1>5, <1>6, <1>7, <1>8, <1>9, <1>10, <1>11, <1>12, <1>13,
     <1>14, <1>15, <1>16, <1>17, <1>18, <1>19 DEF Next, Handler, Provider

\* The reservation outlives every lookup that was too early to see the stored order.
LEMMA ShieldedStep ==
    ASSUME TypeOK, Progress, Handover, Covered, Shielded, [Next]_vars PROVE Shielded'
<1> USE DEF TypeOK, Progress, Handover, Covered, Shielded, Guarded, Settled, SameKey,
            Locations, Running, Calling, InFlight, Goto, Refuse, Return, ReadFails,
            Persisted, client, redis, provider
<1>1. ASSUME NEW r \in Requests, NEW k \in Keys \cup {NoKey}, Arrive(r, k) PROVE Shielded'
  BY <1>1 DEF Arrive
<1>2. ASSUME NEW r \in Requests, Lookup(r) PROVE Shielded'
  BY <1>2 DEF Lookup
<1>3. ASSUME NEW r \in Requests, Reserve(r) PROVE Shielded'
  BY <1>3 DEF Reserve
<1>4. ASSUME NEW r \in Requests, ReserveUnprotected(r) PROVE Shielded'
  BY <1>4 DEF ReserveUnprotected
<1>5. ASSUME NEW r \in Requests, Recheck(r) PROVE Shielded'
  BY <1>5 DEF Recheck
<1>6. ASSUME NEW r \in Requests, GetOffer(r) PROVE Shielded'
  BY <1>6 DEF GetOffer
<1>7. ASSUME NEW r \in Requests, PostOrder(r) PROVE Shielded'
  BY <1>7 DEF PostOrder
<1>8. ASSUME NEW r \in Requests, ProviderAnswers(r) PROVE Shielded'
  BY <1>8 DEF ProviderAnswers
<1>9. ASSUME NEW r \in Requests, CallFails(r) PROVE Shielded'
  BY <1>9 DEF CallFails
<1>10. ASSUME NEW r \in Requests, Save(r) PROVE Shielded'
  BY <1>10 DEF Save
<1>11. ASSUME NEW r \in Requests, SaveFails(r) PROVE Shielded'
  BY <1>11 DEF SaveFails
<1>12. ASSUME NEW r \in Requests, Resolve(r) PROVE Shielded'
  BY <1>12 DEF Resolve
<1>13. ASSUME NEW r \in Requests, Respond(r) PROVE Shielded'
  BY <1>13 DEF Respond
<1>14. ASSUME NEW r \in Requests, ProviderBooks(r) PROVE Shielded'
  BY <1>14 DEF ProviderBooks
<1>15. ASSUME NEW r \in Requests, ProviderDrops(r) PROVE Shielded'
  BY <1>15 DEF ProviderDrops
<1>16. ASSUME NEW r \in Requests, Kill(r) PROVE Shielded'
  BY <1>16 DEF Kill
<1>17. CASE Tick
  BY <1>17 DEF Tick
<1>18. CASE RedisRestart
  BY <1>18 DEF RedisRestart
<1>19. CASE UNCHANGED vars
  BY <1>19 DEF vars
<1>20. QED
  BY <1>1, <1>2, <1>3, <1>4, <1>5, <1>6, <1>7, <1>8, <1>9, <1>10, <1>11, <1>12, <1>13,
     <1>14, <1>15, <1>16, <1>17, <1>18, <1>19 DEF Next, Handler, Provider

\* Nobody acquires a key that is in use or settled.
LEMMA ExclusiveStep ==
    ASSUME TypeOK, Progress, Handover, Covered, Shielded, Exclusive, [Next]_vars PROVE Exclusive'
<1> USE DEF TypeOK, Progress, Covered, Shielded, Exclusive, Guarded, Settled, SameKey,
            Locations, Running, Calling, InFlight, Goto, Refuse, Return, ReadFails,
            Persisted, client, redis, provider
<1>1. ASSUME NEW r \in Requests, NEW k \in Keys \cup {NoKey}, Arrive(r, k) PROVE Exclusive'
  BY <1>1 DEF Arrive
<1>2. ASSUME NEW r \in Requests, Lookup(r) PROVE Exclusive'
  BY <1>2 DEF Lookup
<1>3. ASSUME NEW r \in Requests, Reserve(r) PROVE Exclusive'
  BY <1>3 DEF Reserve
<1>4. ASSUME NEW r \in Requests, ReserveUnprotected(r) PROVE Exclusive'
  BY <1>4 DEF ReserveUnprotected
<1>5. ASSUME NEW r \in Requests, Recheck(r) PROVE Exclusive'
  BY <1>5 DEF Recheck
<1>6. ASSUME NEW r \in Requests, GetOffer(r) PROVE Exclusive'
  BY <1>6 DEF GetOffer
<1>7. ASSUME NEW r \in Requests, PostOrder(r) PROVE Exclusive'
  BY <1>7 DEF PostOrder
<1>8. ASSUME NEW r \in Requests, ProviderAnswers(r) PROVE Exclusive'
  BY <1>8 DEF ProviderAnswers
<1>9. ASSUME NEW r \in Requests, CallFails(r) PROVE Exclusive'
  BY <1>9 DEF CallFails
<1>10. ASSUME NEW r \in Requests, Save(r) PROVE Exclusive'
  BY <1>10 DEF Save
<1>11. ASSUME NEW r \in Requests, SaveFails(r) PROVE Exclusive'
  BY <1>11 DEF SaveFails
<1>12. ASSUME NEW r \in Requests, Resolve(r) PROVE Exclusive'
  BY <1>12 DEF Resolve
<1>13. ASSUME NEW r \in Requests, Respond(r) PROVE Exclusive'
  BY <1>13 DEF Respond
<1>14. ASSUME NEW r \in Requests, ProviderBooks(r) PROVE Exclusive'
  BY <1>14 DEF ProviderBooks
<1>15. ASSUME NEW r \in Requests, ProviderDrops(r) PROVE Exclusive'
  BY <1>15 DEF ProviderDrops
<1>16. ASSUME NEW r \in Requests, Kill(r) PROVE Exclusive'
  BY <1>16 DEF Kill
<1>17. CASE Tick
  BY <1>17 DEF Tick
<1>18. CASE RedisRestart
  BY <1>18 DEF RedisRestart
<1>19. CASE UNCHANGED vars
  BY <1>19 DEF vars
<1>20. QED
  BY <1>1, <1>2, <1>3, <1>4, <1>5, <1>6, <1>7, <1>8, <1>9, <1>10, <1>11, <1>12, <1>13,
     <1>14, <1>15, <1>16, <1>17, <1>18, <1>19 DEF Next, Handler, Provider

\* IInv is inductive.
THEOREM Inductive == Spec => []IInv
<1>1. IInv /\ [Next]_vars => IInv'
  BY TypeStep, ProgressStep, HandoverStep, CoveredStep, ShieldedStep, ExclusiveStep DEF IInv
<1>2. QED
  BY InitIInv, <1>1, PTL DEF Spec
\* Every variable keeps its type, as the code's own assignments and guards leave it.
THEOREM TypeCorrect == Spec => []TypeOK
BY Inductive, PTL DEF IInv

\* Whatever the race, all 201 answers to a key carry one order, stored under that key:
\* find_by_idempotency_key, the unique index and the winner's lookup make it so.
THEOREM RepliesAgree == Spec => []IdempotentReplies
<1>1. IInv => IdempotentReplies
  BY DEF IInv, TypeOK, Handover, IdempotentReplies
<1>2. QED
  BY Inductive, <1>1, PTL

\* The reservation closes the window between lookup and Save for every number of racing
\* requests that Redis protects.
THEOREM CallsExclude == Spec => []ExclusiveProviderCall
<1>1. IInv => ExclusiveProviderCall
  BY DEF IInv, Exclusive, ExclusiveProviderCall, Guarded, SameKey
<1>2. QED
  BY Inductive, <1>1, PTL

\* Nothing is sent to the provider for a key whose order is stored: this is where
\* RESERVATION_TTL has to outlive two request timeouts.
THEOREM PersistedMeansNoCall == Spec => []NoCallAfterPersist
<1>1. IInv => NoCallAfterPersist
  BY DEF IInv, Exclusive, NoCallAfterPersist, Guarded, SameKey, Settled
<1>2. QED
  BY Inductive, <1>1, PTL

\* A customer is charged twice for a key only after one of the two orders was lost: its
\* handler ended without storing it and without success.
THEOREM ChargeTwiceOnlyAfterLoss == Spec => []DoubleChargeNeedsLoss
<1>1. ASSUME IInv, NEW r \in Requests, Guarded(r), r \in booked
      PROVE  \/ pc[r] \in Calling \/ Settled(r)
             \/ pc[r] = "done" /\ r \notin stored /\ answer[r] # "created"
  <2>1. pc[r] \in {"wait", "save", "resolve", "respond", "done"}
    BY <1>1 DEF IInv, Progress
  <2>2. QED
    BY <1>1, <2>1 DEF Settled, Calling
<1>2. IInv => DoubleChargeNeedsLoss
  <2> SUFFICES ASSUME IInv, NEW r \in Requests, NEW s \in Requests, SameKey(r, s),
                      r \in booked, s \in booked, r \notin blind, s \notin blind
               PROVE  \E x \in {r, s} : pc[x] = "done" /\ x \notin stored /\ answer[x] # "created"
    BY DEF DoubleChargeNeedsLoss
  <2>1. Guarded(r) /\ Guarded(s)
    BY DEF Guarded, SameKey
  <2>2. ~( (pc[r] \in Calling \/ Settled(r)) /\ (pc[s] \in Calling \/ Settled(s)) )
    BY <2>1 DEF IInv, Exclusive
  <2>3. QED
    BY <1>1, <2>1, <2>2
<1>3. QED
  BY Inductive, <1>2, PTL

----------------------------------------------------------------------------
(* Booking implements IdempotentBooking.                                         *)

\* A key is bound to the one stored order that has it.
LEMMA BoundOrder ==
    ASSUME IInv, NEW k \in Keys
    PROVE  /\ \A s \in stored : key[s] = k => boundOrder[k] = s
           /\ Persisted(k) = {} => boundOrder[k] = NoOrder
<1>1. Persisted(k) = {} => boundOrder[k] = NoOrder
  BY DEF boundOrder, TheOrder
<1>2. ASSUME NEW s \in stored, key[s] = k PROVE boundOrder[k] = s
  <2>1. Persisted(k) = {s}
    BY <1>2 DEF IInv, TypeOK, Handover, Persisted
  <2>2. boundOrder[k] = CHOOSE x \in Persisted(k) : TRUE
    BY <2>1 DEF boundOrder, TheOrder
  <2>3. QED
    BY <2>1, <2>2
<1>3. QED
  BY <1>1, <1>2

\* Steps that leave the stored orders and their keys alone leave the bindings alone.
LEMMA BindingsKept ==
    ASSUME stored' = stored, \A s \in stored : key'[s] = key[s]
    PROVE  boundOrder' = boundOrder
<1>1. \A k : Persisted(k)' = Persisted(k)
  BY DEF Persisted
<1>2. QED
  BY <1>1 DEF boundOrder

\* Storing the order of a request that has a key nobody else's order has binds the key.
LEMMA StoringBinds ==
    ASSUME IInv, IInv', NEW r \in Requests, Persisted(key[r]) \subseteq {r}, r \notin stored,
           stored' = stored \cup {r}, key' = key
    PROVE  \/ boundOrder' = boundOrder
           \/ /\ key[r] \in Keys /\ boundOrder[key[r]] = NoOrder
              /\ boundOrder' = [boundOrder EXCEPT ![key[r]] = r]
<1>1. \A k : k # key[r] => Persisted(k)' = Persisted(k)
  BY DEF Persisted
<1>2. Persisted(key[r]) = {}
  BY DEF Persisted
<1>3. CASE key[r] = NoKey
  <2>1. \A k \in Keys : Persisted(k)' = Persisted(k)
    BY <1>1, <1>3, NoKeyAssumption
  <2>2. QED
    BY <2>1 DEF boundOrder
<1>4. CASE key[r] # NoKey
  <2>1. key[r] \in Keys
    BY <1>4 DEF IInv, TypeOK
  <2>2. boundOrder[key[r]] = NoOrder
    BY <1>2, <2>1, BoundOrder
  <2>3. boundOrder'[key[r]] = r
    <3>1. Persisted(key[r])' = {r}
      BY <1>2 DEF Persisted
    <3>2. boundOrder'[key[r]] = CHOOSE x \in Persisted(key[r])' : TRUE
      BY <2>1, <3>1 DEF boundOrder, TheOrder
    <3>3. QED
      BY <3>1, <3>2
  <2>4. \A k \in Keys : k # key[r] => boundOrder'[k] = boundOrder[k]
    BY <1>1 DEF boundOrder
  <2>5. boundOrder' = [boundOrder EXCEPT ![key[r]] = r]
    BY <2>3, <2>4 DEF boundOrder
  <2>6. QED
    BY <2>1, <2>2, <2>5
<1>5. QED
  BY <1>3, <1>4

\* Steps that leave the 201 answers alone leave what was handed out alone.
LEMMA HandoutsKept ==
    ASSUME \A x \in Requests :
               /\ (answer'[x] = "created") <=> (answer[x] = "created")
               /\ answer[x] = "created" => key'[x] = key[x] /\ returned'[x] = returned[x]
    PROVE  handedOut' = handedOut
<1>1. \A x \in Requests :
        (answer'[x] = "created" /\ key'[x] # NoKey) <=> (answer[x] = "created" /\ key[x] # NoKey)
  OBVIOUS
<1> DEFINE G == {s \in Requests : answer[s] = "created" /\ key[s] # NoKey}
<1>2. G' = G
  BY <1>1
<1>3. \A x \in G : <<key'[x], returned'[x]>> = <<key[x], returned[x]>>
  OBVIOUS
<1>4. handedOut = {<<key[x], returned[x]>> : x \in G} /\ handedOut' = {<<key'[x], returned'[x]>> : x \in G'}
  BY DEF handedOut
<1> HIDE DEF G
<1>5. QED
  BY <1>2, <1>3, <1>4

\* Every step of the endpoint binds one key, hands out a bound order, or changes neither.
LEMMA StepPromise ==
    ASSUME IInv, IInv', [Next]_vars
    PROVE  [Promise!Next]_<<boundOrder, handedOut>>
<1> DEFINE Kept == boundOrder' = boundOrder
           Held == handedOut' = handedOut
           Goal == [Promise!Next]_<<boundOrder, handedOut>>
<1>q. ASSUME stored' = stored, \A s \in stored : key'[s] = key[s] PROVE Kept
  BY <1>q, BindingsKept
<1>h. ASSUME answer' = answer, key' = key,
             \A x \in Requests : answer[x] = "created" => returned'[x] = returned[x]
      PROVE  Held
  BY <1>h, HandoutsKept
<1>s. Kept /\ Held => Goal
  OBVIOUS
<1> HIDE DEF Goal
<1> USE DEF IInv, TypeOK, Progress, Locations, Running, Calling, Answers, Refusals, Goto, Refuse,
            Return, ReadFails, client, redis, provider
<1>1. ASSUME NEW r \in Requests, NEW k \in Keys \cup {NoKey}, Arrive(r, k) PROVE Goal
  <2>1. Kept
    BY <1>1, <1>q DEF Arrive
  <2>2. Held
    BY <1>1, HandoutsKept DEF Arrive
  <2>3. QED
    BY <2>1, <2>2, <1>s
<1>2. ASSUME NEW r \in Requests, Lookup(r) PROVE Goal
  <2>1. Kept
    BY <1>2, <1>q DEF Lookup
  <2>2. Held
    BY <1>2, HandoutsKept DEF Lookup
  <2>3. QED
    BY <2>1, <2>2, <1>s
<1>3. ASSUME NEW r \in Requests, Reserve(r) PROVE Goal
  <2>1. Kept
    BY <1>3, <1>q DEF Reserve
  <2>2. Held
    BY <1>3, HandoutsKept DEF Reserve
  <2>3. QED
    BY <2>1, <2>2, <1>s
<1>4. ASSUME NEW r \in Requests, ReserveUnprotected(r) PROVE Goal
  <2>1. Kept
    BY <1>4, <1>q DEF ReserveUnprotected
  <2>2. Held
    BY <1>4, HandoutsKept DEF ReserveUnprotected
  <2>3. QED
    BY <2>1, <2>2, <1>s
<1>5. ASSUME NEW r \in Requests, Recheck(r) PROVE Goal
  <2>1. Kept
    BY <1>5, <1>q DEF Recheck
  <2>2. Held
    BY <1>5, HandoutsKept DEF Recheck
  <2>3. QED
    BY <2>1, <2>2, <1>s
<1>6. ASSUME NEW r \in Requests, GetOffer(r) PROVE Goal
  <2>1. Kept
    BY <1>6, <1>q DEF GetOffer
  <2>2. Held
    BY <1>6, HandoutsKept DEF GetOffer
  <2>3. QED
    BY <2>1, <2>2, <1>s
<1>7. ASSUME NEW r \in Requests, PostOrder(r) PROVE Goal
  <2>1. Kept
    BY <1>7, <1>q DEF PostOrder
  <2>2. Held
    BY <1>7, HandoutsKept DEF PostOrder
  <2>3. QED
    BY <2>1, <2>2, <1>s
<1>8. ASSUME NEW r \in Requests, ProviderAnswers(r) PROVE Goal
  <2>1. Kept
    BY <1>8, <1>q DEF ProviderAnswers
  <2>2. Held
    BY <1>8, HandoutsKept DEF ProviderAnswers
  <2>3. QED
    BY <2>1, <2>2, <1>s
<1>9. ASSUME NEW r \in Requests, CallFails(r) PROVE Goal
  <2>1. Kept
    BY <1>9, <1>q DEF CallFails
  <2>2. Held
    BY <1>9, HandoutsKept DEF CallFails
  <2>3. QED
    BY <2>1, <2>2, <1>s
<1>10. ASSUME NEW r \in Requests, Resolve(r) PROVE Goal
  <2>1. Kept
    BY <1>10, <1>q DEF Resolve
  <2>2. Held
    BY <1>10, HandoutsKept DEF Resolve
  <2>3. QED
    BY <2>1, <2>2, <1>s
<1>11. ASSUME NEW r \in Requests, ProviderBooks(r) PROVE Goal
  <2>1. Kept
    BY <1>11, <1>q DEF ProviderBooks
  <2>2. Held
    BY <1>11, HandoutsKept DEF ProviderBooks
  <2>3. QED
    BY <2>1, <2>2, <1>s
<1>12. ASSUME NEW r \in Requests, ProviderDrops(r) PROVE Goal
  <2>1. Kept
    BY <1>12, <1>q DEF ProviderDrops
  <2>2. Held
    BY <1>12, HandoutsKept DEF ProviderDrops
  <2>3. QED
    BY <2>1, <2>2, <1>s
<1>13. ASSUME NEW r \in Requests, Kill(r) PROVE Goal
  <2>1. Kept
    BY <1>13, <1>q DEF Kill, InFlight
  <2>2. Held
    BY <1>13, HandoutsKept DEF Kill, InFlight
  <2>3. QED
    BY <2>1, <2>2, <1>s
<1>14. ASSUME NEW r \in Requests, Save(r) PROVE Goal
  <2>1. Held
    BY <1>14, HandoutsKept DEF Save
  <2>2. CASE stored' = stored
    BY <1>14, <1>q, <1>s, <2>1, <2>2 DEF Save
  <2>3. CASE stored' # stored
    <3>1. Persisted(key[r]) \subseteq {r} /\ r \notin stored /\ stored' = stored \cup {r} /\ key' = key
      BY <1>14, <2>3 DEF Save
    <3>2. Kept \/ (key[r] \in Keys /\ Promise!Bind(key[r], r))
      BY <3>1, <2>1, StoringBinds DEF Promise!Bind
    <3>3. QED
      BY <3>2, <2>1, <1>s DEF Goal, Promise!Next
  <2>4. QED
    BY <2>2, <2>3
<1>15. ASSUME NEW r \in Requests, SaveFails(r) PROVE Goal
  <2>1. Held
    BY <1>15, HandoutsKept DEF SaveFails
  <2>2. CASE stored' = stored
    BY <1>15, <1>q, <1>s, <2>1, <2>2 DEF SaveFails
  <2>3. CASE stored' # stored
    <3>1. Persisted(key[r]) \subseteq {r} /\ r \notin stored /\ stored' = stored \cup {r} /\ key' = key
      BY <1>15, <2>3 DEF SaveFails
    <3>2. Kept \/ (key[r] \in Keys /\ Promise!Bind(key[r], r))
      BY <3>1, <2>1, StoringBinds DEF Promise!Bind
    <3>3. QED
      BY <3>2, <2>1, <1>s DEF Goal, Promise!Next
  <2>4. QED
    BY <2>2, <2>3
<1>16. ASSUME NEW r \in Requests, Respond(r) PROVE Goal
  <2>1. Kept
    BY <1>16, <1>q DEF Respond
  <2>2. CASE key[r] = NoKey
    <3>1. Held
      <4>1. \A x \in Requests : (answer'[x] = "created" /\ key'[x] # NoKey)
                                 <=> (answer[x] = "created" /\ key[x] # NoKey)
        BY <1>16, <2>2 DEF Respond
      <4>2. returned' = returned /\ key' = key
        BY <1>16 DEF Respond
      <4>3. QED
        BY <4>1, <4>2 DEF handedOut
    <3>2. QED
      BY <2>1, <3>1, <1>s
  <2>3. CASE key[r] # NoKey
    <3>1. key[r] \in Keys /\ boundOrder[key[r]] = returned[r] /\ returned[r] # NoOrder
      BY <1>16, <2>3, BoundOrder, NoOrderAssumption DEF Respond, Handover
    <3>2. handedOut' = handedOut \cup {<<key[r], returned[r]>>}
      <4>1. returned' = returned /\ key' = key
        BY <1>16 DEF Respond
      <4>2. {s \in Requests : answer'[s] = "created" /\ key'[s] # NoKey}
             = {s \in Requests : answer[s] = "created" /\ key[s] # NoKey} \cup {r}
        BY <1>16, <2>3 DEF Respond
      <4>3. QED
        BY <4>1, <4>2 DEF handedOut
    <3>3. Promise!HandOut(key[r])
      BY <2>1, <3>1, <3>2 DEF Promise!HandOut
    <3>4. QED
      BY <3>1, <3>3 DEF Goal, Promise!Next
  <2>4. QED
    BY <2>2, <2>3
<1>17. CASE Tick
  BY <1>17, <1>q, <1>h, <1>s DEF Tick
<1>18. CASE RedisRestart
  BY <1>18, <1>q, <1>h, <1>s DEF RedisRestart
<1>19. CASE UNCHANGED vars
  BY <1>19, <1>q, <1>h, <1>s DEF vars
<1> HIDE DEF IInv, TypeOK, Progress, Locations, Running, Calling, Answers, Refusals, Goto, Refuse,
             Return, ReadFails, client, redis, provider
<1>20. Goal
  BY <1>1, <1>2, <1>3, <1>4, <1>5, <1>6, <1>7, <1>8, <1>9, <1>10, <1>11, <1>12, <1>13,
     <1>14, <1>15, <1>16, <1>17, <1>18, <1>19 DEF Next, Handler, Provider, Goal
<1>21. QED
  BY <1>20 DEF Goal

\* The endpoint implements IdempotentBooking: a key is bound once and only its bound order
\* is handed out, whatever Redis, the provider, MongoDB and gunicorn do.
THEOREM Refinement == Spec => ImplementsPromise
<1>1. Init => Promise!Init
  BY DEF Init, Promise!Init, boundOrder, TheOrder, handedOut, Persisted
<1>2. IInv /\ IInv' /\ [Next]_vars => [Promise!Next]_<<boundOrder, handedOut>>
  BY StepPromise
<1>3. QED
  BY Inductive, <1>1, <1>2, PTL DEF Spec, ImplementsPromise, Promise!Spec, Promise!promise
=============================================================================

--------------------------- MODULE FlyDeskProofs ---------------------------
(* Proofs about FlyDesk, for any number of requests, keys, crashes and any batch  *)
(* limit: what is proved of the endpoint and of the pipeline alone, together with *)
(* where they meet, the orders collection.                                        *)
EXTENDS FlyDesk, TLAPS

Desk == INSTANCE BookingProofs
Pipe == INSTANCE EventPipelineProofs WITH Orders <- Requests

USE EndpointAssumption, PipelineAssumption

\* The endpoint's steps are those its proofs are about.
LEMMA DeskSteps == Endpoint!Next => Desk!Next
BY DEF Endpoint!Next, Endpoint!Handler, Endpoint!Provider, Endpoint!Arrive, Endpoint!Lookup,
       Endpoint!Reserve, Endpoint!ReserveUnprotected, Endpoint!Recheck, Endpoint!GetOffer,
       Endpoint!PostOrder, Endpoint!ProviderBooks, Endpoint!ProviderDrops, Endpoint!ProviderAnswers,
       Endpoint!CallFails, Endpoint!Save, Endpoint!SaveFails, Endpoint!Resolve, Endpoint!Respond,
       Endpoint!Kill, Endpoint!Tick, Endpoint!RedisRestart, Endpoint!InFlight, Endpoint!Persisted,
       Endpoint!Goto, Endpoint!Refuse, Endpoint!Return, Endpoint!ReadFails, Endpoint!Running,
       Endpoint!Calling, Endpoint!redis, Endpoint!provider, Endpoint!client,
       Desk!Next, Desk!Handler, Desk!Provider, Desk!Arrive, Desk!Lookup,
       Desk!Reserve, Desk!ReserveUnprotected, Desk!Recheck, Desk!GetOffer,
       Desk!PostOrder, Desk!ProviderBooks, Desk!ProviderDrops, Desk!ProviderAnswers,
       Desk!CallFails, Desk!Save, Desk!SaveFails, Desk!Resolve, Desk!Respond,
       Desk!Kill, Desk!Tick, Desk!RedisRestart, Desk!InFlight, Desk!Persisted,
       Desk!Goto, Desk!Refuse, Desk!Return, Desk!ReadFails, Desk!Running,
       Desk!Calling, Desk!redis, Desk!provider, Desk!client

\* A step of the endpoint stores one order at most, and none is ever removed.
LEMMA StoresOne ==
    ASSUME Desk!Next
    PROVE  stored' = stored \/ \E r \in Requests : stored' = stored \cup {r}
BY DEF Desk!Next, Desk!Handler, Desk!Provider, Desk!Arrive, Desk!Lookup,
       Desk!Reserve, Desk!ReserveUnprotected, Desk!Recheck, Desk!GetOffer,
       Desk!PostOrder, Desk!ProviderBooks, Desk!ProviderDrops, Desk!ProviderAnswers,
       Desk!CallFails, Desk!Save, Desk!SaveFails, Desk!Resolve, Desk!Respond,
       Desk!Kill, Desk!Tick, Desk!RedisRestart

\* So are those of the pipeline, Confirm among them.
LEMMA ConfirmSteps == ASSUME NEW o, Pipeline!Confirm(o) PROVE Pipe!Confirm(o)
BY DEF Pipeline!Confirm, Pipe!Confirm, Pipeline!relayVars, Pipeline!workerVars, Pipeline!crashes,
       Pipe!relayVars, Pipe!workerVars, Pipe!crashes

\* The relay's steps.
LEMMA RelaySteps == Pipeline!Relay \/ Pipeline!RelayCrash => Pipe!Relay \/ Pipe!RelayCrash
<1> USE DEF Pipeline!relayVars, Pipeline!workerVars, Pipeline!crashes,
            Pipe!relayVars, Pipe!workerVars, Pipe!crashes
<1>1. Pipeline!RelayPoll => Pipe!RelayPoll
  <2>1. Pipeline!Pending = Pipe!Pending
    BY DEF Pipeline!Pending, Pipe!Pending
  <2>2. \A B : Pipeline!Cardinality(B) = Pipe!Cardinality(B)
    BY DEF Pipeline!Cardinality, Pipe!Cardinality
  <2>3. QED
    BY <2>1, <2>2 DEF Pipeline!RelayPoll, Pipe!RelayPoll
<1>2. ASSUME NEW o, Pipeline!RelayPublish(o) PROVE Pipe!RelayPublish(o)
  BY <1>2 DEF Pipeline!RelayPublish, Pipe!RelayPublish
<1>3. ASSUME NEW o, Pipeline!RelaySave(o) PROVE Pipe!RelaySave(o)
  BY <1>3 DEF Pipeline!RelaySave, Pipe!RelaySave
<1>4. Pipeline!RelayCrash => Pipe!RelayCrash
  BY DEF Pipeline!RelayCrash, Pipe!RelayCrash
<1>5. QED
  BY <1>1, <1>2, <1>3, <1>4 DEF Pipeline!Relay, Pipe!Relay

\* The worker's steps.
LEMMA WorkerSteps == Pipeline!Worker \/ Pipeline!WorkerCrash => Pipe!Worker \/ Pipe!WorkerCrash
BY DEF Pipeline!Worker, Pipeline!Fetch, Pipeline!MarkTicketing, Pipeline!MarkNotification,
       Pipeline!MarkAudit, Pipeline!MarkIfNew, Pipeline!ReadOrder, Pipeline!SaveTicketed,
       Pipeline!IssueTicket, Pipeline!Notify, Pipeline!InsertAudit, Pipeline!Work, Pipeline!Commit,
       Pipeline!WorkerCrash, Pipeline!Event, Pipeline!relayVars, Pipeline!workerVars, Pipeline!crashes,
       Pipe!Worker, Pipe!Fetch, Pipe!MarkTicketing, Pipe!MarkNotification,
       Pipe!MarkAudit, Pipe!MarkIfNew, Pipe!ReadOrder, Pipe!SaveTicketed,
       Pipe!IssueTicket, Pipe!Notify, Pipe!InsertAudit, Pipe!Work, Pipe!Commit,
       Pipe!WorkerCrash, Pipe!Event, Pipe!relayVars, Pipe!workerVars, Pipe!crashes

----------------------------------------------------------------------------

\* Every step is one of the endpoint or leaves it alone ...
LEMMA DeskStep == [Next]_vars => [Desk!Next]_Desk!vars
BY DeskSteps DEF Next, EndpointStep, PipelineStep, vars, endpoint, Desk!vars

\* ... and one of the pipeline, or leaves that alone.
LEMMA PipeStep == [Next]_vars => [Pipe!Next]_Pipe!vars
<1>1. CASE EndpointStep
  <2>1. CASE UNCHANGED pipeline
    BY <2>1 DEF pipeline, Pipe!vars
  <2>2. CASE stored' # stored
    <3>1. PICK o \in stored' \ stored : Pipeline!Confirm(o)
      BY <1>1, <2>2 DEF EndpointStep, Confirms, Stores
    <3>2. o \in Requests
      BY <1>1, <3>1, DeskSteps, StoresOne DEF EndpointStep
    <3>3. QED
      BY <3>1, <3>2, ConfirmSteps DEF Pipe!Next
  <2>3. QED
    BY <1>1, <2>1, <2>2 DEF EndpointStep, Confirms
<1>2. CASE PipelineStep
  BY <1>2, RelaySteps, WorkerSteps DEF PipelineStep, Pipe!Next
<1>3. CASE UNCHANGED vars
  BY <1>3 DEF vars, pipeline, Pipe!vars
<1>4. QED
  BY <1>1, <1>2, <1>3 DEF Next

\* A behaviour of the whole is one of the endpoint and one of the pipeline.
THEOREM Projections == Spec => Desk!Spec /\ Pipe!Spec
<1>1. Init => Desk!Init /\ Pipe!Init
  BY DEF Init, Endpoint!Init, Desk!Init, Pipeline!Init, Pipe!Init, Pipeline!Consumers, Pipe!Consumers
<1>2. QED
  BY <1>1, DeskStep, PipeStep, PTL DEF Spec, Desk!Spec, Pipe!Spec

----------------------------------------------------------------------------

\* Of the endpoint: one stored order per key, and every stored order is booked.
OnePerKey ==
    /\ stored \subseteq booked /\ booked \subseteq Requests
    /\ \A r, s \in stored : key[r] = key[s] => r = s

\* Of the pipeline, for every order: what the three theorems about it say.
Served ==
    /\ doc \in [Requests -> Pipe!Documents \cup {Absent}]
    /\ \A r \in Requests : Tickets(r) \in Nat /\ Tickets(r) <= 1 /\ (Tickets(r) > 0 => Pipe!Stored(r))
    /\ \A r \in DOMAIN batch : r \in Requests /\ Pipe!Stored(r) /\ batch[r] \in Pipe!Documents
    /\ relayAt \in Requests => relayAt \in DOMAIN batch
    /\ workerAt = "save" => log[pos] \in Requests /\ Pipe!Stored(log[pos]) /\ copy \in Pipe!Documents

\* Where the two meet: the endpoint's stored orders are the documents.
Meet == stored = {o \in Requests : Pipe!Stored(o)}

\* What the endpoint's proofs say here.
LEMMA DeskHolds == Spec => []OnePerKey
<1>1. Desk!IInv => OnePerKey
  BY DEF Desk!IInv, Desk!TypeOK, Desk!Handover, OnePerKey
<1>2. QED
  BY <1>1, Projections, Desk!Inductive, PTL

\* What the pipeline's proofs say here.
LEMMA PipeHolds == Spec => []Served
<1>1. Pipe!IInv /\ Pipe!Backed /\ Pipe!NoSecondEffect /\ Pipe!WorkFollowsBooking => Served
  <2> SUFFICES ASSUME Pipe!IInv, Pipe!Backed, Pipe!NoSecondEffect, Pipe!WorkFollowsBooking PROVE Served
    OBVIOUS
  <2>1. doc \in [Requests -> Pipe!Documents \cup {Absent}]
    BY DEF Pipe!IInv, Pipe!TypeOK
  <2>2. \A r \in Requests : Tickets(r) \in Nat /\ Tickets(r) <= 1 /\ (Tickets(r) > 0 => Pipe!Stored(r))
    BY DEF Pipe!IInv, Pipe!TypeOK, Pipe!NoSecondEffect, Pipe!WorkFollowsBooking, Pipe!Consumers, Tickets
  <2>3. \A r \in DOMAIN batch : r \in Requests /\ Pipe!Stored(r) /\ batch[r] \in Pipe!Documents
    BY DEF Pipe!IInv, Pipe!TypeOK, Pipe!Backed
  <2>4. relayAt \in Requests => relayAt \in DOMAIN batch
    BY DEF Pipe!IInv, Pipe!Stamps
  <2>5. ASSUME workerAt = "save"
        PROVE  log[pos] \in Requests /\ Pipe!Stored(log[pos]) /\ copy \in Pipe!Documents
    <3>1. Pipe!TypeOK /\ pos \in 1..Len(log)
      BY <2>5 DEF Pipe!IInv, Pipe!TypeOK
    <3>2. log[pos] \in Pipe!Logged /\ log[pos] \in Requests
      BY <3>1 DEF Pipe!TypeOK, Pipe!Logged
    <3>3. QED
      BY <2>5, <3>2 DEF Pipe!IInv, Pipe!Stamps, Pipe!Backed
  <2>6. QED
    BY <2>1, <2>2, <2>3, <2>4, <2>5 DEF Served
<1>2. QED
  BY <1>1, Projections, Pipe!Inductive, Pipe!BackedInductive, Pipe!EffectsAtMostOnce, Pipe!WorkIsBacked, PTL

\* Documents come with the endpoint's stores only, and none is removed.
LEMMA MeetStep ==
    ASSUME OnePerKey, Served, Meet, [Next]_vars PROVE Meet'
<1> USE DEF Meet, Pipe!Stored
<1>1. CASE EndpointStep
  <2>1. CASE stored' = stored
    <3>1. doc' = doc
      BY <1>1, <2>1 DEF EndpointStep, Confirms, pipeline
    <3>2. QED
      BY <2>1, <3>1
  <2>2. CASE stored' # stored
    <3>1. PICK o \in stored' \ stored : Pipeline!Confirm(o)
      BY <1>1, <2>2 DEF EndpointStep, Confirms, Stores
    <3>2. PICK r \in Requests : stored' = stored \cup {r}
      BY <1>1, <2>2, DeskSteps, StoresOne DEF EndpointStep
    <3>3. o = r
      BY <3>1, <3>2
    <3>4. /\ doc'[r] # Absent
          /\ \A x \in Requests \ {r} : doc'[x] = doc[x]
      <4> DEFINE new == [status |-> "CONFIRMED", published |-> FALSE]
      <4>1. new # Absent
        <5>1. new \in [status : {"CONFIRMED", "TICKETED"}, published : BOOLEAN]
          OBVIOUS
        <5>2. QED
          <6> HIDE DEF new
          <6> QED
            BY <5>1, PipelineAssumption
      <4>2. doc' = [doc EXCEPT ![r] = new]
        BY <3>1, <3>3 DEF Pipeline!Confirm
      <4>3. QED
        <5> HIDE DEF new
        <5> QED
          BY <4>1, <4>2 DEF Served
    <3>5. QED
      BY <3>2, <3>4
  <2>3. QED
    BY <2>1, <2>2
<1>2. CASE PipelineStep
  <2>1. stored' = stored
    BY <1>2 DEF PipelineStep, endpoint
  <2>2. ASSUME NEW o \in Requests, NEW d \in Pipe!Documents, doc[o] # Absent, doc' = [doc EXCEPT ![o] = d]
        PROVE  \A x \in Requests : doc'[x] # Absent <=> doc[x] # Absent
    BY <2>2 DEF Served, Pipe!Documents
  <2>3. ASSUME NEW o \in Requests, Pipeline!RelaySave(o)
        PROVE  \A x \in Requests : doc'[x] # Absent <=> doc[x] # Absent
    <3>1. batch[o] \in Pipe!Documents /\ doc[o] # Absent
      BY <2>3 DEF Pipeline!RelaySave, Served
    <3>2. [batch[o] EXCEPT !.published = TRUE] \in Pipe!Documents
      BY <3>1 DEF Pipe!Documents
    <3>3. QED
      BY <2>2, <2>3, <3>1, <3>2 DEF Pipeline!RelaySave
  <2>4. ASSUME Pipeline!SaveTicketed
        PROVE  \A x \in Requests : doc'[x] # Absent <=> doc[x] # Absent
    <3>1. log[pos] \in Requests /\ copy \in Pipe!Documents /\ doc[log[pos]] # Absent
      BY <2>4 DEF Pipeline!SaveTicketed, Served
    <3>2. [copy EXCEPT !.status = "TICKETED"] \in Pipe!Documents
      BY <3>1 DEF Pipe!Documents
    <3>3. QED
      BY <2>2, <2>4, <3>1, <3>2 DEF Pipeline!SaveTicketed, Pipeline!Event
  <2>5. CASE doc' = doc
    BY <2>1, <2>5
  <2>6. \/ doc' = doc \/ Pipeline!SaveTicketed \/ \E o \in Requests : Pipeline!RelaySave(o)
    BY <1>2 DEF PipelineStep, Pipeline!Relay, Pipeline!RelayPoll, Pipeline!RelayPublish,
       Pipeline!RelayCrash, Pipeline!Worker, Pipeline!Fetch, Pipeline!MarkTicketing,
       Pipeline!MarkNotification, Pipeline!MarkAudit, Pipeline!MarkIfNew, Pipeline!ReadOrder,
       Pipeline!IssueTicket, Pipeline!Notify, Pipeline!InsertAudit, Pipeline!Work, Pipeline!Commit,
       Pipeline!WorkerCrash
  <2>7. QED
    BY <2>1, <2>3, <2>4, <2>5, <2>6
<1>3. CASE UNCHANGED vars
  BY <1>3 DEF vars, endpoint, pipeline
<1>4. QED
  BY <1>1, <1>2, <1>3 DEF Next

\* A document is there exactly for the orders the endpoint has stored.
THEOREM EndpointMeetsPipeline == Spec => []Meet
<1>1. Init => Meet
  BY DEF Init, Meet, Endpoint!Init, Pipeline!Init, Pipe!Stored
<1>2. QED
  BY <1>1, MeetStep, DeskHolds, PipeHolds, PTL DEF Spec

\* Endpoint and pipeline keep their types and agree on what is stored.
THEOREM TypeCorrect == Spec => []TypeOK
<1>1. Desk!TypeOK => Endpoint!TypeOK
  BY DEF Desk!TypeOK, Desk!Locations, Desk!Running, Desk!Calling, Desk!Answers, Desk!Refusals,
         Endpoint!TypeOK, Endpoint!Locations, Endpoint!Running, Endpoint!Calling, Endpoint!Answers,
         Endpoint!Refusals
<1>2. Pipe!TypeOK => Pipeline!TypeOK
  BY DEF Pipe!TypeOK, Pipe!Documents, Pipe!RelayPoints, Pipe!WorkerPoints, Pipe!Consumers,
         Pipeline!TypeOK, Pipeline!Documents, Pipeline!RelayPoints, Pipeline!WorkerPoints,
         Pipeline!Consumers
<1>3. Meet => stored = {o \in Requests : Pipeline!Stored(o)}
  BY DEF Meet, Pipe!Stored, Pipeline!Stored
<1>4. QED
  BY <1>1, <1>2, <1>3, Projections, Desk!TypeCorrect, Pipe!TypeCorrect, EndpointMeetsPipeline, PTL
     DEF TypeOK

\* However often a client retries, is charged or is killed, and however often events are delivered:
\* one idempotency key gets one ticket at most, and the request it was booked by was charged.
THEOREM KeysGetOneTicket == Spec => []OneTicketPerKey
<1>1. OnePerKey /\ Served /\ Meet => OneTicketPerKey
  <2> SUFFICES ASSUME OnePerKey, Served, Meet, NEW r \in Requests, NEW s \in Requests
               PROVE  /\ Tickets(r) <= 1
                      /\ Tickets(r) > 0 => r \in booked
                      /\ Endpoint!SameKey(r, s) => Tickets(r) + Tickets(s) <= 1
    BY DEF OneTicketPerKey
  <2>1. /\ Tickets(r) \in Nat /\ Tickets(r) <= 1 /\ (Tickets(r) > 0 => r \in stored)
        /\ Tickets(s) \in Nat /\ Tickets(s) <= 1 /\ (Tickets(s) > 0 => s \in stored)
    BY DEF Served, Meet
  <2>2. Endpoint!SameKey(r, s) => r \notin stored \/ s \notin stored
    BY DEF OnePerKey, Endpoint!SameKey
  <2>3. QED
    BY <2>1, <2>2 DEF OnePerKey
<1>2. QED
  BY <1>1, DeskHolds, PipeHolds, EndpointMeetsPipeline, PTL
=============================================================================

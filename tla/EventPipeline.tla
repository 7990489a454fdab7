--------------------------- MODULE EventPipeline ---------------------------
(* What happens after a booking is stored: the outbox relay (events/relay.py,    *)
(* command relay_outbox) publishes its BookingConfirmed event to Kafka, and the  *)
(* worker (events/consumers.py, command consume_events) runs the ticketing,      *)
(* notification and audit consumers on it.  Relay and worker are one process     *)
(* each; either may crash anywhere and is restarted.  Both rewrite the whole     *)
(* order document from the copy they read earlier (repository.save).             *)
(*                                                                               *)
(* An order has exactly one outbox event, so an event is named by its order.     *)
EXTENDS Integers, Sequences, FiniteSets

CONSTANTS
    Orders,
    Absent,       \* no document with this id
    BatchLimit,   \* limit of find_with_unpublished_outbox
    MaxCrashes    \* bound on the crashes of each process

\* Where the relay stands is told from an order, and a missing document from a document.
ASSUME NamesAssumption ==
    /\ {"poll", "publish"} \cap Orders = {}
    /\ Absent \notin [status : {"CONFIRMED", "TICKETED"}, published : BOOLEAN]
ASSUME BatchAssumption == BatchLimit \in Nat \ {0}
ASSUME CrashAssumption == MaxCrashes \in Nat

VARIABLES
    doc,        \* orders collection: status, and whether the outbox event is stamped published
    relayAt,    \* where the relay stands in relay_once
    batch,      \* the relay's copies of the polled orders it has not finished
    log,        \* topic bookings.confirmed
    committed,  \* offset the consumer group has committed
    pos,        \* messages the running worker has taken
    workerAt,   \* where the worker stands with the message it took last
    copy,       \* the order document handle_ticketing has read
    marked,     \* processed_events: unique pairs of consumer and event
    effects,    \* tickets issued, notifications sent and audit rows, per order
    relayCrashes, workerCrashes  \* history

relayVars  == <<relayAt, batch>>
workerVars == <<committed, pos, workerAt, copy, marked, effects>>
crashes    == <<relayCrashes, workerCrashes>>
vars == <<doc, relayAt, batch, log, committed, pos, workerAt, copy, marked, effects,
          relayCrashes, workerCrashes>>

Consumers == {"ticketing", "notifications", "audit"}
Documents == [status : {"CONFIRMED", "TICKETED"}, published : BOOLEAN]

\* The relay is about to publish the next order of its batch, or has to save order o.
RelayPoints  == {"poll", "publish"} \cup Orders
\* A consumer's name stands for its call of mark_if_new, the others for the work behind it.
WorkerPoints == {"fetch", "read", "save", "issue", "notify", "insert", "commit"} \cup Consumers

Event == log[pos]
Pending == {o \in Orders : doc[o] # Absent /\ ~doc[o].published}

----------------------------------------------------------------------------

Init ==
    /\ doc = [o \in Orders |-> Absent]
    /\ relayAt = "poll" /\ batch = [o \in {} |-> Absent]
    /\ log = <<>> /\ committed = 0 /\ pos = 0
    /\ workerAt = "fetch" /\ copy = Absent
    /\ marked = {}
    /\ effects = [x \in Consumers \X Orders |-> 0]
    /\ relayCrashes = 0 /\ workerCrashes = 0

\* create_booking stores the order with its unpublished event in one document write.
Confirm(o) ==
    /\ doc[o] = Absent
    /\ doc' = [doc EXCEPT ![o] = [status |-> "CONFIRMED", published |-> FALSE]]
    /\ UNCHANGED <<relayVars, log, workerVars, crashes>>

\* relay_once reads up to BatchLimit pending orders, all of them if they are no more.
RelayPoll ==
    /\ relayAt = "poll"
    /\ \E B \in (SUBSET Pending) \ {{}} :
          /\ \/ B = Pending /\ Cardinality(B) <= BatchLimit
             \/ B # Pending /\ Cardinality(B) = BatchLimit
          /\ batch' = [o \in B |-> doc[o]]
    /\ relayAt' = "publish"
    /\ UNCHANGED <<doc, log, workerVars, crashes>>

\* Mutant of RelayPublish: the send is not awaited and gets lost.
RelayPublishLost(o) ==
    /\ relayAt = "publish" /\ o \in DOMAIN batch
    /\ relayAt' = o
    /\ UNCHANGED <<doc, batch, log, workerVars, crashes>>

\* await publisher.publish: the worker runs on while the relay waits.
RelayPublish(o) ==
    /\ relayAt = "publish" /\ o \in DOMAIN batch
    /\ log' = Append(log, o)
    /\ relayAt' = o
    /\ UNCHANGED <<doc, batch, workerVars, crashes>>

\* Mutant of RelaySave: the stamped copy is not saved.
RelaySaveForgotten(o) ==
    /\ relayAt = o
    /\ batch' = [x \in DOMAIN batch \ {o} |-> batch[x]]
    /\ relayAt' = IF DOMAIN batch = {o} THEN "poll" ELSE "publish"
    /\ UNCHANGED <<doc, log, workerVars, crashes>>

\* The stamp goes on the copy read at the poll, and the copy replaces the document.
RelaySave(o) ==
    /\ relayAt = o
    /\ doc' = [doc EXCEPT ![o] = [batch[o] EXCEPT !.published = TRUE]]
    /\ batch' = [x \in DOMAIN batch \ {o} |-> batch[x]]
    /\ relayAt' = IF DOMAIN batch = {o} THEN "poll" ELSE "publish"
    /\ UNCHANGED <<log, workerVars, crashes>>

\* Any failure of the relay ends the process; docker restarts it.
RelayCrash ==
    /\ relayAt # "poll" /\ relayCrashes < MaxCrashes
    /\ relayAt' = "poll" /\ batch' = [o \in {} |-> Absent]
    /\ relayCrashes' = relayCrashes + 1
    /\ UNCHANGED <<doc, log, workerVars, workerCrashes>>

----------------------------------------------------------------------------

\* Mutants of Fetch: auto-commit; a message taken that is not there.
FetchAutoCommit ==
    /\ workerAt = "fetch" /\ pos < Len(log)
    /\ pos' = pos + 1 /\ committed' = pos + 1
    /\ workerAt' = "ticketing"
    /\ UNCHANGED <<doc, relayVars, log, copy, marked, effects, crashes>>

FetchPastEnd ==
    /\ workerAt = "fetch" /\ pos <= Len(log)
    /\ pos' = pos + 1
    /\ workerAt' = "ticketing"
    /\ UNCHANGED <<doc, relayVars, log, committed, copy, marked, effects, crashes>>

\* async for message in consumer
Fetch ==
    /\ workerAt = "fetch" /\ pos < Len(log)
    /\ pos' = pos + 1
    /\ workerAt' = "ticketing"
    /\ UNCHANGED <<doc, relayVars, log, committed, copy, marked, effects, crashes>>

\* Mutants of MarkIfNew: no unique index, so every insert succeeds; no insert at all.
MarkWithoutIndex(c, work, next) ==
    /\ workerAt = c
    /\ workerAt' = work
    /\ marked' = marked \cup {<<c, Event>>}
    /\ UNCHANGED <<doc, relayVars, log, committed, pos, copy, effects, crashes>>

MarkForgotten(c, work, next) ==
    /\ workerAt = c
    /\ workerAt' = IF <<c, Event>> \in marked THEN next ELSE work
    /\ UNCHANGED <<doc, relayVars, log, committed, pos, copy, marked, effects, crashes>>

\* mark_if_new: the first insert wins, a duplicate skips the consumer's work.
MarkIfNew(c, work, next) ==
    /\ workerAt = c
    /\ workerAt' = IF <<c, Event>> \in marked THEN next ELSE work
    /\ marked' = marked \cup {<<c, Event>>}
    /\ UNCHANGED <<doc, relayVars, log, committed, pos, copy, effects, crashes>>

MarkTicketing    == MarkIfNew("ticketing", "read", "notifications")
MarkNotification == MarkIfNew("notifications", "notify", "audit")
MarkAudit        == MarkIfNew("audit", "insert", "commit")

\* handle_ticketing reads the order; a missing one is skipped, a ticketed one not saved again.
ReadOrder ==
    /\ workerAt = "read"
    /\ copy' = doc[Event]
    /\ workerAt' = CASE doc[Event] = Absent -> "notifications"
                     [] doc[Event] # Absent /\ doc[Event].status = "TICKETED" -> "issue"
                     [] OTHER -> "save"
    /\ UNCHANGED <<doc, relayVars, log, committed, pos, marked, effects, crashes>>

\* CONFIRMED -> TICKETED on the copy, and the copy replaces the document.
SaveTicketed ==
    /\ workerAt = "save"
    /\ doc' = [doc EXCEPT ![Event] = [copy EXCEPT !.status = "TICKETED"]]
    /\ workerAt' = "issue"
    /\ UNCHANGED <<relayVars, log, committed, pos, copy, marked, effects, crashes>>

\* The work a consumer does once: emit TicketIssued, send the e-mail, insert the audit row.
Work(c, at, next) ==
    /\ workerAt = at
    /\ effects' = [effects EXCEPT ![<<c, Event>>] = @ + 1]
    /\ workerAt' = next
    /\ UNCHANGED <<doc, relayVars, log, committed, pos, copy, marked, crashes>>

IssueTicket == Work("ticketing", "issue", "notifications")
Notify      == Work("notifications", "notify", "audit")
InsertAudit == Work("audit", "insert", "commit")

\* consumer.commit() after the three consumers are through with the message.
Commit ==
    /\ workerAt = "commit"
    /\ committed' = pos
    /\ workerAt' = "fetch"
    /\ UNCHANGED <<doc, relayVars, log, pos, copy, marked, effects, crashes>>

\* Any failure of the worker ends the process; it resumes at the committed offset.
WorkerCrash ==
    /\ workerAt # "fetch" /\ workerCrashes < MaxCrashes
    /\ workerAt' = "fetch" /\ pos' = committed /\ copy' = Absent
    /\ workerCrashes' = workerCrashes + 1
    /\ UNCHANGED <<doc, relayVars, log, committed, marked, effects, relayCrashes>>

----------------------------------------------------------------------------

Relay  == RelayPoll \/ \E o \in Orders : RelayPublish(o) \/ RelaySave(o)

Worker ==
    \/ Fetch \/ MarkTicketing \/ ReadOrder \/ SaveTicketed \/ IssueTicket
    \/ MarkNotification \/ Notify \/ MarkAudit \/ InsertAudit \/ Commit

Next ==
    \/ \E o \in Orders : Confirm(o)
    \/ Relay \/ RelayCrash
    \/ Worker \/ WorkerCrash

Spec == Init /\ [][Next]_vars

\* Both processes are restarted and go on; nothing is assumed of bookings or crashes.
FairSpec == Spec /\ WF_vars(Relay) /\ WF_vars(Worker)

----------------------------------------------------------------------------

\* Every variable keeps its type.
TypeOK ==
    /\ doc \in [Orders -> Documents \cup {Absent}]
    /\ relayAt \in RelayPoints
    /\ DOMAIN batch \subseteq Orders
    /\ \A o \in DOMAIN batch : batch[o] \in Documents
    /\ log \in Seq(Orders)
    /\ committed \in Nat /\ pos \in Nat
    /\ committed <= pos /\ pos <= Len(log)
    /\ workerAt \in WorkerPoints
    /\ workerAt # "fetch" => pos > 0
    /\ copy \in Documents \cup {Absent}
    /\ marked \subseteq Consumers \X Orders
    /\ effects \in [Consumers \X Orders -> Nat]
    /\ relayCrashes \in 0..MaxCrashes /\ workerCrashes \in 0..MaxCrashes

Logged  == {log[i] : i \in 1..Len(log)}
Stored(o)   == doc[o] # Absent
Stamped(o)  == Stored(o) /\ doc[o].published
Ticketed(o) == Stored(o) /\ doc[o].status = "TICKETED"

\* ADR 0005: redelivery never issues a second ticket, sends a second e-mail or writes a second
\* audit row, however often the event is published and the worker restarted.
NoSecondEffect == \A c \in Consumers, o \in Orders : effects[<<c, o>>] <= 1

\* The outbox never says published of an event that is not in the topic, although relay
\* and worker overwrite the stamp with older copies.
StampedIsLogged == \A o \in Orders : Stamped(o) => o \in Logged

\* A commit never passes an event one of the consumers has not seen.
CommittedIsMarked ==
    \A i \in 1..committed : \A c \in Consumers : <<c, log[i]>> \in marked

\* An event is in the topic only when its order is stored, so the consumers never look for an
\* order that is not there; and every effect and every ticketed order has its mark.
WorkFollowsBooking ==
    /\ \A o \in Logged : Stored(o)
    /\ \A c \in Consumers, o \in Orders : effects[<<c, o>>] > 0 => <<c, o>> \in marked /\ o \in Logged
    /\ \A o \in Orders : Ticketed(o) => <<"ticketing", o>> \in marked

Published(o) == Cardinality({i \in 1..Len(log) : log[i] = o})

\* Redelivery is bounded: an event is published again only after a relay crash, or once
\* because the worker's copy wiped out the relay's stamp.
RepublishBounded == \A o \in Orders : Published(o) <= 2 + relayCrashes

\* No booking's event is forgotten: in the end it is published and stays stamped, and all
\* three consumers have seen it, through crashes of both processes.
EveryBookingRelayed ==
    \A o \in Orders :
        /\ Stored(o) ~> []Stamped(o)
        /\ Stored(o) ~> \A c \in Consumers : <<c, o>> \in marked

\* While the worker does not crash, every booking is ticketed, notified and audited.
EveryBookingServed ==
    \A o \in Orders : Stored(o) ~> (workerCrashes > 0 \/ \A c \in Consumers : effects[<<c, o>>] = 1)

----------------------------------------------------------------------------
(* What the documentation says and the code does not do.                        *)

\* ADR 0005: CONFIRMED -> TICKETED, and the API shows these states honestly: no step takes a
\* ticketed order back to CONFIRMED.
TicketedForGood ==
    [][\A o \in Orders : Ticketed(o) => Ticketed(o)']_vars

\* consume_events.py: at-least-once, redelivery is safe: every booking's ticket is issued in
\* the end, also when the worker crashes.
TicketedAtLeastOnce == \A o \in Orders : Stored(o) ~> effects[<<"ticketing", o>>] > 0
=============================================================================

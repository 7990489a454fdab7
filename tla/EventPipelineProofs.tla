------------------------ MODULE EventPipelineProofs ------------------------
(* Proofs about EventPipeline, for any number of orders, batch limit and crashes. *)
EXTENDS EventPipeline, FiniteSetTheorems, TLAPS

USE BatchAssumption, CrashAssumption, NamesAssumption

\* The message the worker has taken is the one after the committed offset.
Position ==
    /\ workerAt = "fetch" => pos = committed
    /\ workerAt # "fetch" => pos = committed + 1

\* Every consumer behind the worker's current point has marked the message.
TicketingDone == workerAt \in {"read", "save", "issue", "notifications", "notify", "audit", "insert", "commit"}
NotifyDone    == workerAt \in {"notify", "audit", "insert", "commit"}
AuditDone     == workerAt \in {"insert", "commit"}

MarkedSoFar ==
    /\ TicketingDone => <<"ticketing", Event>> \in marked
    /\ NotifyDone => <<"notifications", Event>> \in marked
    /\ AuditDone => <<"audit", Event>> \in marked

\* A consumer's work is done at most once, and not yet while the worker stands before it.
Owed(c) ==
    \/ c = "ticketing" /\ workerAt \in {"read", "save", "issue"}
    \/ c = "notifications" /\ workerAt = "notify"
    \/ c = "audit" /\ workerAt = "insert"

EffectsCounted ==
    \A c \in Consumers, o \in Orders :
        /\ effects[<<c, o>>] <= 1
        /\ effects[<<c, o>>] = 1 => <<c, o>> \in marked /\ ~(Owed(c) /\ o = Event)

\* Whatever copy is written back, a stamp in it is of an event in the topic.
Stamps ==
    /\ \A o \in Orders : Stamped(o) => o \in Logged
    /\ relayAt \in Orders => relayAt \in DOMAIN batch /\ relayAt \in Logged
    /\ workerAt = "save" => copy \in Documents

IInv == TypeOK /\ Position /\ MarkedSoFar /\ EffectsCounted /\ Stamps /\ CommittedIsMarked

----------------------------------------------------------------------------

\* TypeOK in three parts.
DocTypes ==
    /\ doc \in [Orders -> Documents \cup {Absent}]
    /\ relayAt \in RelayPoints
    /\ DOMAIN batch \subseteq Orders
    /\ \A o \in DOMAIN batch : batch[o] \in Documents

LogTypes ==
    /\ log \in Seq(Orders)
    /\ committed \in Nat /\ pos \in Nat
    /\ committed <= pos /\ pos <= Len(log)
    /\ workerAt # "fetch" => pos > 0

WorkTypes ==
    /\ workerAt \in WorkerPoints
    /\ copy \in Documents \cup {Absent}
    /\ marked \subseteq Consumers \X Orders
    /\ effects \in [Consumers \X Orders -> Nat]
    /\ relayCrashes \in 0..MaxCrashes /\ workerCrashes \in 0..MaxCrashes

\* The invariant holds at the start.
LEMMA InitIInv == Init => IInv
BY DEF Init, IInv, TypeOK, Documents, RelayPoints, WorkerPoints, Consumers, Position, MarkedSoFar,
       TicketingDone, NotifyDone, AuditDone, EffectsCounted, Owed, Stamps, Stamped, Stored, Logged,
       CommittedIsMarked

\* Appending to the topic keeps what is in it where it is.
LEMMA AppendKeeps ==
    ASSUME log \in Seq(Orders), NEW o \in Orders, log' = Append(log, o)
    PROVE  /\ log' \in Seq(Orders) /\ Len(log') = Len(log) + 1
           /\ \A i \in 1..Len(log) : log'[i] = log[i]
           /\ Logged' = Logged \cup {o}
<1>1. /\ log' \in Seq(Orders) /\ Len(log') = Len(log) + 1
      /\ \A i \in 1..Len(log) : log'[i] = log[i]
      /\ log'[Len(log) + 1] = o
  OBVIOUS
<1>2. Logged' = Logged \cup {o}
  BY <1>1 DEF Logged
<1>3. QED
  BY <1>1, <1>2

\* A publish leaves the worker's message and everything before it alone.
LEMMA PublishKeeps ==
    ASSUME TypeOK, NEW o \in Orders, RelayPublish(o)
    PROVE  /\ log' \in Seq(Orders) /\ Len(log') = Len(log) + 1
           /\ Logged' = Logged \cup {o}
           /\ \A i \in 1..pos : log'[i] = log[i]
           /\ workerAt # "fetch" => Event' = Event
<1>1. /\ log' \in Seq(Orders) /\ Len(log') = Len(log) + 1
      /\ \A i \in 1..Len(log) : log'[i] = log[i]
      /\ Logged' = Logged \cup {o}
  BY AppendKeeps DEF RelayPublish, TypeOK
<1>2. pos' = pos
  BY DEF RelayPublish, workerVars
<1>3. \A i \in 1..pos : log'[i] = log[i]
  <2>1. 1..pos \subseteq 1..Len(log)
    BY DEF TypeOK
  <2>2. QED
    BY <1>1, <2>1
<1>4. QED
  BY <1>1, <1>2, <1>3 DEF TypeOK, Event

\* The event in the worker's hands is in the topic.
LEMMA EventLogged ==
    ASSUME TypeOK, workerAt # "fetch"
    PROVE  Event \in Logged /\ Event \in Orders
<1>1. pos \in 1..Len(log)
  BY DEF TypeOK
<1>2. QED
  BY <1>1 DEF Event, Logged, TypeOK

\* Documents and the relay's batch.
LEMMA DocTypesStep ==
    ASSUME TypeOK, Stamps, [Next]_vars PROVE DocTypes'
<1> USE DEF TypeOK, DocTypes, RelayPoints, Documents, relayVars, workerVars, crashes
<1>1. ASSUME NEW o \in Orders, Confirm(o) PROVE DocTypes'
  BY <1>1 DEF Confirm
<1>2. CASE RelayPoll
  BY <1>2 DEF RelayPoll, Pending
<1>3. ASSUME NEW o \in Orders, RelayPublish(o) PROVE DocTypes'
  BY <1>3 DEF RelayPublish
<1>4. ASSUME NEW o \in Orders, RelaySave(o) PROVE DocTypes'
  BY <1>4 DEF RelaySave, Stamps
<1>5. CASE RelayCrash
  BY <1>5 DEF RelayCrash
<1>6. CASE Fetch
  BY <1>6 DEF Fetch
<1>7. CASE MarkTicketing
  BY <1>7 DEF MarkTicketing, MarkIfNew
<1>8. CASE MarkNotification
  BY <1>8 DEF MarkNotification, MarkIfNew
<1>9. CASE MarkAudit
  BY <1>9 DEF MarkAudit, MarkIfNew
<1>10. CASE ReadOrder
  BY <1>10 DEF ReadOrder
<1>11. CASE SaveTicketed
  <2>1. Event \in Orders /\ copy \in Documents
    BY <1>11, EventLogged DEF SaveTicketed, Stamps
  <2>2. QED
    BY <1>11, <2>1 DEF SaveTicketed
<1>12. CASE IssueTicket
  BY <1>12 DEF IssueTicket, Work
<1>13. CASE Notify
  BY <1>13 DEF Notify, Work
<1>14. CASE InsertAudit
  BY <1>14 DEF InsertAudit, Work
<1>15. CASE Commit
  BY <1>15 DEF Commit
<1>16. CASE WorkerCrash
  BY <1>16 DEF WorkerCrash
<1>17. CASE UNCHANGED vars
  BY <1>17 DEF vars
<1>18. QED
  BY <1>1, <1>2, <1>3, <1>4, <1>5, <1>6, <1>7, <1>8, <1>9, <1>10, <1>11, <1>12, <1>13, <1>14,
     <1>15, <1>16, <1>17 DEF Next, Relay, Worker

\* The topic and the offsets.
LEMMA LogTypesStep ==
    ASSUME TypeOK, Position, [Next]_vars PROVE LogTypes'
<1> USE DEF TypeOK, LogTypes, relayVars, workerVars, crashes, Position
<1>1. ASSUME NEW o \in Orders, Confirm(o) PROVE LogTypes'
  BY <1>1 DEF Confirm
<1>2. CASE RelayPoll
  BY <1>2 DEF RelayPoll
<1>3. ASSUME NEW o \in Orders, RelayPublish(o) PROVE LogTypes'
  <2>1. log' \in Seq(Orders) /\ Len(log') = Len(log) + 1
    BY <1>3, PublishKeeps
  <2>2. QED
    BY <1>3, <2>1 DEF RelayPublish
<1>4. ASSUME NEW o \in Orders, RelaySave(o) PROVE LogTypes'
  BY <1>4 DEF RelaySave
<1>5. CASE RelayCrash
  BY <1>5 DEF RelayCrash
<1>6. CASE Fetch
  BY <1>6 DEF Fetch
<1>7. CASE MarkTicketing
  BY <1>7 DEF MarkTicketing, MarkIfNew
<1>8. CASE MarkNotification
  BY <1>8 DEF MarkNotification, MarkIfNew
<1>9. CASE MarkAudit
  BY <1>9 DEF MarkAudit, MarkIfNew
<1>10. CASE ReadOrder
  BY <1>10 DEF ReadOrder
<1>11. CASE SaveTicketed
  BY <1>11 DEF SaveTicketed
<1>12. CASE IssueTicket
  BY <1>12 DEF IssueTicket, Work
<1>13. CASE Notify
  BY <1>13 DEF Notify, Work
<1>14. CASE InsertAudit
  BY <1>14 DEF InsertAudit, Work
<1>15. CASE Commit
  BY <1>15 DEF Commit
<1>16. CASE WorkerCrash
  BY <1>16 DEF WorkerCrash
<1>17. CASE UNCHANGED vars
  BY <1>17 DEF vars
<1>18. QED
  BY <1>1, <1>2, <1>3, <1>4, <1>5, <1>6, <1>7, <1>8, <1>9, <1>10, <1>11, <1>12, <1>13, <1>14,
     <1>15, <1>16, <1>17 DEF Next, Relay, Worker

\* Where the worker stands and what it has done.
LEMMA WorkTypesStep ==
    ASSUME TypeOK, [Next]_vars PROVE WorkTypes'
<1> USE DEF TypeOK, WorkTypes, WorkerPoints, Consumers, relayVars, workerVars, crashes
<1>1. ASSUME NEW o \in Orders, Confirm(o) PROVE WorkTypes'
  BY <1>1 DEF Confirm
<1>2. CASE RelayPoll
  BY <1>2 DEF RelayPoll
<1>3. ASSUME NEW o \in Orders, RelayPublish(o) PROVE WorkTypes'
  BY <1>3 DEF RelayPublish
<1>4. ASSUME NEW o \in Orders, RelaySave(o) PROVE WorkTypes'
  BY <1>4 DEF RelaySave
<1>5. CASE RelayCrash
  BY <1>5 DEF RelayCrash
<1>6. CASE Fetch
  BY <1>6 DEF Fetch
<1>7. CASE MarkTicketing
  <2>1. Event \in Orders
    BY <1>7, EventLogged DEF MarkTicketing, MarkIfNew
  <2>2. QED
    BY <1>7, <2>1 DEF MarkTicketing, MarkIfNew
<1>8. CASE MarkNotification
  <2>1. Event \in Orders
    BY <1>8, EventLogged DEF MarkNotification, MarkIfNew
  <2>2. QED
    BY <1>8, <2>1 DEF MarkNotification, MarkIfNew
<1>9. CASE MarkAudit
  <2>1. Event \in Orders
    BY <1>9, EventLogged DEF MarkAudit, MarkIfNew
  <2>2. QED
    BY <1>9, <2>1 DEF MarkAudit, MarkIfNew
<1>10. CASE ReadOrder
  <2>1. Event \in Orders
    BY <1>10, EventLogged DEF ReadOrder
  <2>2. QED
    BY <1>10, <2>1 DEF ReadOrder
<1>11. CASE SaveTicketed
  BY <1>11 DEF SaveTicketed
<1>12. CASE IssueTicket
  <2>1. Event \in Orders
    BY <1>12, EventLogged DEF IssueTicket, Work
  <2>2. QED
    BY <1>12, <2>1 DEF IssueTicket, Work
<1>13. CASE Notify
  <2>1. Event \in Orders
    BY <1>13, EventLogged DEF Notify, Work
  <2>2. QED
    BY <1>13, <2>1 DEF Notify, Work
<1>14. CASE InsertAudit
  <2>1. Event \in Orders
    BY <1>14, EventLogged DEF InsertAudit, Work
  <2>2. QED
    BY <1>14, <2>1 DEF InsertAudit, Work
<1>15. CASE Commit
  BY <1>15 DEF Commit
<1>16. CASE WorkerCrash
  BY <1>16 DEF WorkerCrash
<1>17. CASE UNCHANGED vars
  BY <1>17 DEF vars
<1>18. QED
  BY <1>1, <1>2, <1>3, <1>4, <1>5, <1>6, <1>7, <1>8, <1>9, <1>10, <1>11, <1>12, <1>13, <1>14,
     <1>15, <1>16, <1>17 DEF Next, Relay, Worker

\* The worker handles one message beyond the committed offset.
LEMMA PositionStep ==
    ASSUME TypeOK, Position, [Next]_vars PROVE Position'
<1> USE DEF TypeOK, Position, relayVars, workerVars, crashes
<1>1. ASSUME NEW o \in Orders, Confirm(o) PROVE Position'
  BY <1>1 DEF Confirm
<1>2. CASE RelayPoll
  BY <1>2 DEF RelayPoll
<1>3. ASSUME NEW o \in Orders, RelayPublish(o) PROVE Position'
  BY <1>3, PublishKeeps DEF RelayPublish
<1>4. ASSUME NEW o \in Orders, RelaySave(o) PROVE Position'
  BY <1>4 DEF RelaySave
<1>5. CASE RelayCrash
  BY <1>5 DEF RelayCrash
<1>6. CASE Fetch
  BY <1>6 DEF Fetch
<1>7. CASE MarkTicketing
  BY <1>7 DEF MarkTicketing, MarkIfNew
<1>8. CASE MarkNotification
  BY <1>8 DEF MarkNotification, MarkIfNew
<1>9. CASE MarkAudit
  BY <1>9 DEF MarkAudit, MarkIfNew
<1>10. CASE ReadOrder
  BY <1>10 DEF ReadOrder
<1>11. CASE SaveTicketed
  BY <1>11 DEF SaveTicketed
<1>12. CASE IssueTicket
  BY <1>12 DEF IssueTicket, Work
<1>13. CASE Notify
  BY <1>13 DEF Notify, Work
<1>14. CASE InsertAudit
  BY <1>14 DEF InsertAudit, Work
<1>15. CASE Commit
  BY <1>15 DEF Commit
<1>16. CASE WorkerCrash
  BY <1>16 DEF WorkerCrash
<1>17. CASE UNCHANGED vars
  BY <1>17 DEF vars
<1>18. QED
  BY <1>1, <1>2, <1>3, <1>4, <1>5, <1>6, <1>7, <1>8, <1>9, <1>10, <1>11, <1>12, <1>13, <1>14,
     <1>15, <1>16, <1>17 DEF Next, Relay, Worker

\* The marks the worker leaves behind it.
LEMMA MarkedStep ==
    ASSUME TypeOK, Position, MarkedSoFar, [Next]_vars PROVE MarkedSoFar'
<1> USE DEF TypeOK, MarkedSoFar, Event, Consumers, TicketingDone, NotifyDone, AuditDone,
            relayVars, workerVars, crashes
<1>1. ASSUME NEW o \in Orders, Confirm(o) PROVE MarkedSoFar'
  BY <1>1 DEF Confirm
<1>2. CASE RelayPoll
  BY <1>2 DEF RelayPoll
<1>3. ASSUME NEW o \in Orders, RelayPublish(o) PROVE MarkedSoFar'
  BY <1>3, PublishKeeps DEF RelayPublish
<1>4. ASSUME NEW o \in Orders, RelaySave(o) PROVE MarkedSoFar'
  BY <1>4 DEF RelaySave
<1>5. CASE RelayCrash
  BY <1>5 DEF RelayCrash
<1>6. CASE Fetch
  BY <1>6 DEF Fetch
<1>7. CASE MarkTicketing
  BY <1>7 DEF MarkTicketing, MarkIfNew
<1>8. CASE MarkNotification
  BY <1>8 DEF MarkNotification, MarkIfNew
<1>9. CASE MarkAudit
  BY <1>9 DEF MarkAudit, MarkIfNew
<1>10. CASE ReadOrder
  BY <1>10 DEF ReadOrder
<1>11. CASE SaveTicketed
  BY <1>11 DEF SaveTicketed
<1>12. CASE IssueTicket
  BY <1>12 DEF IssueTicket, Work
<1>13. CASE Notify
  BY <1>13 DEF Notify, Work
<1>14. CASE InsertAudit
  BY <1>14 DEF InsertAudit, Work
<1>15. CASE Commit
  BY <1>15 DEF Commit
<1>16. CASE WorkerCrash
  BY <1>16 DEF WorkerCrash
<1>17. CASE UNCHANGED vars
  BY <1>17 DEF vars
<1>18. QED
  BY <1>1, <1>2, <1>3, <1>4, <1>5, <1>6, <1>7, <1>8, <1>9, <1>10, <1>11, <1>12, <1>13, <1>14,
     <1>15, <1>16, <1>17 DEF Next, Relay, Worker

\* Work follows a fresh mark, so it is never done twice.
LEMMA EffectsStep ==
    ASSUME TypeOK, MarkedSoFar, EffectsCounted, [Next]_vars PROVE EffectsCounted'
<1> USE DEF TypeOK, MarkedSoFar, EffectsCounted, Owed, Consumers, Event, TicketingDone,
            NotifyDone, AuditDone, relayVars, workerVars, crashes
<1>1. ASSUME NEW o \in Orders, Confirm(o) PROVE EffectsCounted'
  BY <1>1 DEF Confirm
<1>2. CASE RelayPoll
  BY <1>2 DEF RelayPoll
<1>3. ASSUME NEW o \in Orders, RelayPublish(o) PROVE EffectsCounted'
  BY <1>3, PublishKeeps DEF RelayPublish
<1>4. ASSUME NEW o \in Orders, RelaySave(o) PROVE EffectsCounted'
  BY <1>4 DEF RelaySave
<1>5. CASE RelayCrash
  BY <1>5 DEF RelayCrash
<1>6. CASE Fetch
  BY <1>6 DEF Fetch
<1>7. CASE MarkTicketing
  <2>1. Event \in Orders
    BY <1>7, EventLogged DEF MarkTicketing, MarkIfNew
  <2>2. QED
    BY <1>7, <2>1 DEF MarkTicketing, MarkIfNew
<1>8. CASE MarkNotification
  <2>1. Event \in Orders
    BY <1>8, EventLogged DEF MarkNotification, MarkIfNew
  <2>2. QED
    BY <1>8, <2>1 DEF MarkNotification, MarkIfNew
<1>9. CASE MarkAudit
  <2>1. Event \in Orders
    BY <1>9, EventLogged DEF MarkAudit, MarkIfNew
  <2>2. QED
    BY <1>9, <2>1 DEF MarkAudit, MarkIfNew
<1>10. CASE ReadOrder
  BY <1>10, EventLogged DEF ReadOrder
<1>11. CASE SaveTicketed
  BY <1>11, EventLogged DEF SaveTicketed
<1>12. CASE IssueTicket
  <2>1. Event \in Orders /\ Event' = Event
    BY <1>12, EventLogged DEF IssueTicket, Work
  <2>2. <<"ticketing", Event>> \in marked /\ marked' = marked
    BY <1>12 DEF IssueTicket, Work
  <2>3. effects[<<"ticketing", Event>>] = 0
    BY <1>12, <2>1 DEF IssueTicket, Work
  <2>4. effects' = [effects EXCEPT ![<<"ticketing", Event>>] = 1]
    BY <1>12, <2>3 DEF IssueTicket, Work
  <2>5. \A x \in Consumers : ~Owed(x)'
    BY <1>12 DEF IssueTicket, Work
  <2>6. \A x \in Consumers, o \in Orders :
            /\ x = "ticketing" /\ o = Event => effects'[<<x, o>>] = 1
            /\ ~(x = "ticketing" /\ o = Event) => effects'[<<x, o>>] = effects[<<x, o>>]
    BY <2>1, <2>4
  <2>7. ASSUME NEW x \in Consumers, NEW o \in Orders
        PROVE  effects'[<<x, o>>] <= 1 /\ (effects'[<<x, o>>] = 1 => <<x, o>> \in marked)
    <3>1. CASE x = "ticketing" /\ o = Event
      BY <2>2, <2>6, <3>1
    <3>2. CASE ~(x = "ticketing" /\ o = Event)
      <4>1. effects[<<x, o>>] <= 1 /\ (effects[<<x, o>>] = 1 => <<x, o>> \in marked)
        OBVIOUS
      <4>2. effects'[<<x, o>>] = effects[<<x, o>>]
        BY <2>6, <3>2
      <4>3. QED
        BY <4>1, <4>2
    <3>3. QED
      BY <3>1, <3>2
  <2>8. QED
    BY <2>2, <2>5, <2>7
<1>13. CASE Notify
  <2>1. Event \in Orders /\ Event' = Event
    BY <1>13, EventLogged DEF Notify, Work
  <2>2. <<"notifications", Event>> \in marked /\ marked' = marked
    BY <1>13 DEF Notify, Work
  <2>3. effects[<<"notifications", Event>>] = 0
    BY <1>13, <2>1 DEF Notify, Work
  <2>4. effects' = [effects EXCEPT ![<<"notifications", Event>>] = 1]
    BY <1>13, <2>3 DEF Notify, Work
  <2>5. \A x \in Consumers : ~Owed(x)'
    BY <1>13 DEF Notify, Work
  <2>6. \A x \in Consumers, o \in Orders :
            /\ x = "notifications" /\ o = Event => effects'[<<x, o>>] = 1
            /\ ~(x = "notifications" /\ o = Event) => effects'[<<x, o>>] = effects[<<x, o>>]
    BY <2>1, <2>4
  <2>7. ASSUME NEW x \in Consumers, NEW o \in Orders
        PROVE  effects'[<<x, o>>] <= 1 /\ (effects'[<<x, o>>] = 1 => <<x, o>> \in marked)
    <3>1. CASE x = "notifications" /\ o = Event
      BY <2>2, <2>6, <3>1
    <3>2. CASE ~(x = "notifications" /\ o = Event)
      <4>1. effects[<<x, o>>] <= 1 /\ (effects[<<x, o>>] = 1 => <<x, o>> \in marked)
        OBVIOUS
      <4>2. effects'[<<x, o>>] = effects[<<x, o>>]
        BY <2>6, <3>2
      <4>3. QED
        BY <4>1, <4>2
    <3>3. QED
      BY <3>1, <3>2
  <2>8. QED
    BY <2>2, <2>5, <2>7
<1>14. CASE InsertAudit
  <2>1. Event \in Orders /\ Event' = Event
    BY <1>14, EventLogged DEF InsertAudit, Work
  <2>2. <<"audit", Event>> \in marked /\ marked' = marked
    BY <1>14 DEF InsertAudit, Work
  <2>3. effects[<<"audit", Event>>] = 0
    BY <1>14, <2>1 DEF InsertAudit, Work
  <2>4. effects' = [effects EXCEPT ![<<"audit", Event>>] = 1]
    BY <1>14, <2>3 DEF InsertAudit, Work
  <2>5. \A x \in Consumers : ~Owed(x)'
    BY <1>14 DEF InsertAudit, Work
  <2>6. \A x \in Consumers, o \in Orders :
            /\ x = "audit" /\ o = Event => effects'[<<x, o>>] = 1
            /\ ~(x = "audit" /\ o = Event) => effects'[<<x, o>>] = effects[<<x, o>>]
    BY <2>1, <2>4
  <2>7. ASSUME NEW x \in Consumers, NEW o \in Orders
        PROVE  effects'[<<x, o>>] <= 1 /\ (effects'[<<x, o>>] = 1 => <<x, o>> \in marked)
    <3>1. CASE x = "audit" /\ o = Event
      BY <2>2, <2>6, <3>1
    <3>2. CASE ~(x = "audit" /\ o = Event)
      <4>1. effects[<<x, o>>] <= 1 /\ (effects[<<x, o>>] = 1 => <<x, o>> \in marked)
        OBVIOUS
      <4>2. effects'[<<x, o>>] = effects[<<x, o>>]
        BY <2>6, <3>2
      <4>3. QED
        BY <4>1, <4>2
    <3>3. QED
      BY <3>1, <3>2
  <2>8. QED
    BY <2>2, <2>5, <2>7
<1>15. CASE Commit
  BY <1>15 DEF Commit
<1>16. CASE WorkerCrash
  BY <1>16 DEF WorkerCrash
<1>17. CASE UNCHANGED vars
  BY <1>17 DEF vars
<1>18. QED
  BY <1>1, <1>2, <1>3, <1>4, <1>5, <1>6, <1>7, <1>8, <1>9, <1>10, <1>11, <1>12, <1>13, <1>14,
     <1>15, <1>16, <1>17 DEF Next, Relay, Worker

\* A stamp is only put on, or copied from, an event that is in the topic.
LEMMA StampsStep ==
    ASSUME TypeOK, Stamps, [Next]_vars PROVE Stamps'
<1> USE DEF TypeOK, Stamps, Stamped, Stored, Documents, Logged, RelayPoints, relayVars,
            workerVars
<1>1. ASSUME NEW o \in Orders, Confirm(o) PROVE Stamps'
  BY <1>1, EventLogged DEF Confirm
<1>2. CASE RelayPoll
  BY <1>2, EventLogged DEF RelayPoll
<1>3. ASSUME NEW o \in Orders, RelayPublish(o) PROVE Stamps'
  BY <1>3, PublishKeeps DEF RelayPublish
<1>4. ASSUME NEW o \in Orders, RelaySave(o) PROVE Stamps'
  BY <1>4, EventLogged DEF RelaySave
<1>5. CASE RelayCrash
  BY <1>5, EventLogged DEF RelayCrash
<1>6. CASE Fetch
  BY <1>6, EventLogged DEF Fetch
<1>7. CASE MarkTicketing
  BY <1>7, EventLogged DEF MarkTicketing, MarkIfNew
<1>8. CASE MarkNotification
  BY <1>8, EventLogged DEF MarkNotification, MarkIfNew
<1>9. CASE MarkAudit
  BY <1>9, EventLogged DEF MarkAudit, MarkIfNew
<1>10. CASE ReadOrder
  BY <1>10, EventLogged DEF ReadOrder
<1>11. CASE SaveTicketed
  BY <1>11, EventLogged DEF SaveTicketed
<1>12. CASE IssueTicket
  BY <1>12, EventLogged DEF IssueTicket, Work
<1>13. CASE Notify
  BY <1>13, EventLogged DEF Notify, Work
<1>14. CASE InsertAudit
  BY <1>14, EventLogged DEF InsertAudit, Work
<1>15. CASE Commit
  BY <1>15, EventLogged DEF Commit
<1>16. CASE WorkerCrash
  BY <1>16, EventLogged DEF WorkerCrash
<1>17. CASE UNCHANGED vars
  BY <1>17 DEF vars
<1>18. QED
  BY <1>1, <1>2, <1>3, <1>4, <1>5, <1>6, <1>7, <1>8, <1>9, <1>10, <1>11, <1>12, <1>13, <1>14,
     <1>15, <1>16, <1>17 DEF Next, Relay, Worker

\* The offset is committed when all three consumers have marked the message.
LEMMA CommittedStep ==
    ASSUME TypeOK, Position, MarkedSoFar, CommittedIsMarked, [Next]_vars PROVE CommittedIsMarked'
<1> USE DEF TypeOK, Position, MarkedSoFar, CommittedIsMarked, Event, Consumers, TicketingDone,
            NotifyDone, AuditDone, relayVars, workerVars, crashes
<1>1. ASSUME NEW o \in Orders, Confirm(o) PROVE CommittedIsMarked'
  BY <1>1 DEF Confirm
<1>2. CASE RelayPoll
  BY <1>2 DEF RelayPoll
<1>3. ASSUME NEW o \in Orders, RelayPublish(o) PROVE CommittedIsMarked'
  <2>1. \A i \in 1..pos : log'[i] = log[i]
    BY <1>3, PublishKeeps
  <2>2. committed' = committed /\ marked' = marked /\ 1..committed \subseteq 1..pos
    BY <1>3 DEF RelayPublish
  <2>3. QED
    BY <2>1, <2>2
<1>4. ASSUME NEW o \in Orders, RelaySave(o) PROVE CommittedIsMarked'
  BY <1>4 DEF RelaySave
<1>5. CASE RelayCrash
  BY <1>5 DEF RelayCrash
<1>6. CASE Fetch
  BY <1>6 DEF Fetch
<1>7. CASE MarkTicketing
  BY <1>7 DEF MarkTicketing, MarkIfNew
<1>8. CASE MarkNotification
  BY <1>8 DEF MarkNotification, MarkIfNew
<1>9. CASE MarkAudit
  BY <1>9 DEF MarkAudit, MarkIfNew
<1>10. CASE ReadOrder
  BY <1>10 DEF ReadOrder
<1>11. CASE SaveTicketed
  BY <1>11 DEF SaveTicketed
<1>12. CASE IssueTicket
  BY <1>12 DEF IssueTicket, Work
<1>13. CASE Notify
  BY <1>13 DEF Notify, Work
<1>14. CASE InsertAudit
  BY <1>14 DEF InsertAudit, Work
<1>15. CASE Commit
  <2>1. \A c \in Consumers : <<c, log[pos]>> \in marked
    BY <1>15 DEF Commit
  <2>2. committed' = pos /\ pos = committed + 1 /\ log' = log /\ marked' = marked
    BY <1>15 DEF Commit
  <2>3. 1..committed' = (1..committed) \cup {pos}
    BY <2>2
  <2>4. QED
    BY <2>1, <2>2, <2>3
<1>16. CASE WorkerCrash
  BY <1>16 DEF WorkerCrash
<1>17. CASE UNCHANGED vars
  BY <1>17 DEF vars
<1>18. QED
  BY <1>1, <1>2, <1>3, <1>4, <1>5, <1>6, <1>7, <1>8, <1>9, <1>10, <1>11, <1>12, <1>13, <1>14,
     <1>15, <1>16, <1>17 DEF Next, Relay, Worker

\* IInv is inductive.
THEOREM Inductive == Spec => []IInv
<1>1. IInv /\ [Next]_vars => TypeOK'
  BY DocTypesStep, LogTypesStep, WorkTypesStep DEF IInv, TypeOK, DocTypes, LogTypes, WorkTypes
<1>2. IInv /\ [Next]_vars => IInv'
  BY <1>1, PositionStep, MarkedStep, EffectsStep, StampsStep, CommittedStep DEF IInv
<1>3. QED
  BY InitIInv, <1>2, PTL DEF Spec

\* Every variable keeps its type.
THEOREM TypeCorrect == Spec => []TypeOK
BY Inductive, PTL DEF IInv

\* No redelivery, crash or repeated publish issues a second ticket, e-mail or audit row.
THEOREM EffectsAtMostOnce == Spec => []NoSecondEffect
<1>1. IInv => NoSecondEffect
  BY DEF IInv, EffectsCounted, NoSecondEffect
<1>2. QED
  BY Inductive, <1>1, PTL

\* An event the outbox calls published is in the topic, whichever stale copy was saved last.
THEOREM StampsAreTrue == Spec => []StampedIsLogged
<1>1. IInv => StampedIsLogged
  BY DEF IInv, Stamps, StampedIsLogged
<1>2. QED
  BY Inductive, <1>1, PTL

\* A committed offset has been seen by all three consumers.
THEOREM CommitsAreMarked == Spec => []CommittedIsMarked
BY Inductive, PTL DEF IInv

----------------------------------------------------------------------------
(* Work follows bookings.                                                       *)

\* Topic and batch name stored orders only; what is ticketed, or was when the relay read it, has its mark;
\* and there is no effect of an event outside the topic.
Backed ==
    /\ \A o \in Logged : Stored(o)
    /\ \A o \in DOMAIN batch : Stored(o)
    /\ \A o \in DOMAIN batch : batch[o].status = "TICKETED" => <<"ticketing", o>> \in marked
    /\ \A o \in Orders : Ticketed(o) => <<"ticketing", o>> \in marked
    /\ \A c \in Consumers, o \in Orders : effects[<<c, o>>] > 0 => o \in Logged

\* The steps that write documents, marks or effects keep it so.
LEMMA BackedStep ==
    ASSUME IInv, Backed, [Next]_vars PROVE Backed'
<1> USE DEF IInv, TypeOK, Backed, Stored, Ticketed, Logged, Documents, Consumers, relayVars, workerVars, crashes
<1>1. ASSUME NEW o \in Orders, Confirm(o) PROVE Backed'
  BY <1>1 DEF Confirm
<1>2. CASE RelayPoll
  BY <1>2 DEF RelayPoll, Pending
<1>3. ASSUME NEW o \in Orders, RelayPublish(o) PROVE Backed'
  <2>1. Logged' = Logged \cup {o} /\ Stored(o)
    BY <1>3, PublishKeeps DEF RelayPublish
  <2>2. QED
    BY <1>3, <2>1 DEF RelayPublish
<1>4. ASSUME NEW o \in Orders, RelaySave(o) PROVE Backed'
  <2>1. o \in DOMAIN batch /\ batch[o] \in Documents
    BY <1>4 DEF RelaySave, IInv, Stamps
  <2> DEFINE d == [batch[o] EXCEPT !.published = TRUE]
  <2>2. d # Absent /\ d.status = batch[o].status
    BY <2>1
  <2>3. /\ doc' = [doc EXCEPT ![o] = d] /\ batch' = [x \in DOMAIN batch \ {o} |-> batch[x]]
        /\ UNCHANGED <<log, workerVars>>
    BY <1>4 DEF RelaySave
  <2>4. ASSUME NEW x \in Orders PROVE (Stored(x) => Stored(x)') /\ (Ticketed(x)' => <<"ticketing", x>> \in marked)
    <3> HIDE DEF d
    <3>1. CASE x = o
      <4>1. doc'[x] = d
        BY <2>3, <3>1
      <4>2. QED
        BY <2>1, <2>2, <3>1, <4>1
    <3>2. CASE x # o
      <4>1. doc'[x] = doc[x]
        BY <2>3, <3>2
      <4>2. QED
        BY <4>1
    <3>3. QED
      BY <3>1, <3>2
  <2>5. QED
    <3> HIDE DEF d
    <3>1. Logged' = Logged /\ marked' = marked /\ effects' = effects
      BY <2>3
    <3>2. \A x \in DOMAIN batch' : x \in DOMAIN batch /\ batch'[x] = batch[x]
      BY <2>3
    <3>3. /\ \A x \in Logged' : Stored(x)'
          /\ \A x \in DOMAIN batch' : Stored(x)'
      <4>1. Logged \subseteq Orders
        OBVIOUS
      <4>2. QED
        BY <2>4, <3>1, <3>2, <4>1
    <3>4. \A x \in DOMAIN batch' : batch'[x].status = "TICKETED" => <<"ticketing", x>> \in marked'
      BY <3>1, <3>2
    <3>5. \A x \in Orders : Ticketed(x)' => <<"ticketing", x>> \in marked'
      BY <2>4, <3>1
    <3>6. \A c \in Consumers, x \in Orders : effects'[<<c, x>>] > 0 => x \in Logged'
      BY <3>1
    <3>7. QED
      BY <3>3, <3>4, <3>5, <3>6
<1>5. CASE RelayCrash
  BY <1>5 DEF RelayCrash
<1>6. CASE Fetch
  BY <1>6 DEF Fetch
<1>7. CASE MarkTicketing
  BY <1>7 DEF MarkTicketing, MarkIfNew
<1>8. CASE MarkNotification
  BY <1>8 DEF MarkNotification, MarkIfNew
<1>9. CASE MarkAudit
  BY <1>9 DEF MarkAudit, MarkIfNew
<1>10. CASE ReadOrder
  BY <1>10 DEF ReadOrder
<1>11. CASE SaveTicketed
  <2>1. Event \in Orders /\ <<"ticketing", Event>> \in marked /\ copy \in Documents
    BY <1>11, EventLogged DEF SaveTicketed, IInv, MarkedSoFar, TicketingDone, Stamps
  <2> DEFINE d == [copy EXCEPT !.status = "TICKETED"]
  <2>2. d # Absent
    BY <2>1
  <2>3. doc' = [doc EXCEPT ![Event] = d] /\ UNCHANGED <<relayVars, log, marked, effects>>
    BY <1>11 DEF SaveTicketed
  <2>4. ASSUME NEW x \in Orders PROVE (Stored(x) => Stored(x)') /\ (Ticketed(x)' => <<"ticketing", x>> \in marked)
    <3> HIDE DEF d
    <3>1. CASE x = Event
      <4>1. doc'[x] = d
        BY <2>3, <3>1
      <4>2. QED
        BY <2>1, <2>2, <3>1, <4>1
    <3>2. CASE x # Event
      <4>1. doc'[x] = doc[x]
        BY <2>3, <3>2
      <4>2. QED
        BY <4>1
    <3>3. QED
      BY <3>1, <3>2
  <2>5. QED
    <3> HIDE DEF d
    <3>1. Logged' = Logged /\ marked' = marked /\ effects' = effects
      BY <2>3
    <3>2. batch' = batch
      BY <2>3
    <3>3. /\ \A x \in Logged' : Stored(x)'
          /\ \A x \in DOMAIN batch' : Stored(x)'
      <4>1. Logged \subseteq Orders
        OBVIOUS
      <4>2. QED
        BY <2>4, <3>1, <3>2, <4>1
    <3>4. \A x \in DOMAIN batch' : batch'[x].status = "TICKETED" => <<"ticketing", x>> \in marked'
      BY <3>1, <3>2
    <3>5. \A x \in Orders : Ticketed(x)' => <<"ticketing", x>> \in marked'
      BY <2>4, <3>1
    <3>6. \A c \in Consumers, x \in Orders : effects'[<<c, x>>] > 0 => x \in Logged'
      BY <3>1
    <3>7. QED
      BY <3>3, <3>4, <3>5, <3>6
<1>12. CASE IssueTicket
  <2>1. Event \in Logged /\ Event \in Orders
    BY <1>12, EventLogged DEF IssueTicket, Work
  <2>2. \A c \in Consumers, o \in Orders : o # Event => effects'[<<c, o>>] = effects[<<c, o>>]
    BY <1>12 DEF IssueTicket, Work
  <2>3. QED
    BY <1>12, <2>1, <2>2 DEF IssueTicket, Work
<1>13. CASE Notify
  <2>1. Event \in Logged /\ Event \in Orders
    BY <1>13, EventLogged DEF Notify, Work
  <2>2. \A c \in Consumers, o \in Orders : o # Event => effects'[<<c, o>>] = effects[<<c, o>>]
    BY <1>13 DEF Notify, Work
  <2>3. QED
    BY <1>13, <2>1, <2>2 DEF Notify, Work
<1>14. CASE InsertAudit
  <2>1. Event \in Logged /\ Event \in Orders
    BY <1>14, EventLogged DEF InsertAudit, Work
  <2>2. \A c \in Consumers, o \in Orders : o # Event => effects'[<<c, o>>] = effects[<<c, o>>]
    BY <1>14 DEF InsertAudit, Work
  <2>3. QED
    BY <1>14, <2>1, <2>2 DEF InsertAudit, Work
<1>15. CASE Commit
  BY <1>15 DEF Commit
<1>16. CASE WorkerCrash
  BY <1>16 DEF WorkerCrash
<1>17. CASE UNCHANGED vars
  BY <1>17 DEF vars
<1>18. QED
  BY <1>1, <1>2, <1>3, <1>4, <1>5, <1>6, <1>7, <1>8, <1>9, <1>10, <1>11, <1>12, <1>13, <1>14,
     <1>15, <1>16, <1>17 DEF Next, Relay, Worker

\* Backed is invariant.
THEOREM BackedInductive == Spec => []Backed
<1>1. Init => Backed
  BY DEF Init, Backed, Logged, Stored, Ticketed, Consumers
<1>2. IInv /\ Backed /\ [Next]_vars => Backed'
  BY BackedStep
<1>3. QED
  BY <1>1, <1>2, Inductive, PTL DEF Spec

\* Whatever copies are written back and however often events are published and delivered: an event in the
\* topic, an effect and a ticketed order all have a booking and the marks that belong to them.
THEOREM WorkIsBacked == Spec => []WorkFollowsBooking
<1>1. IInv /\ Backed => WorkFollowsBooking
  <2> SUFFICES ASSUME IInv, Backed PROVE WorkFollowsBooking
    OBVIOUS
  <2>1. \A c \in Consumers, o \in Orders : effects[<<c, o>>] > 0 => <<c, o>> \in marked
    BY DEF IInv, EffectsCounted, TypeOK
  <2>2. QED
    BY <2>1 DEF Backed, WorkFollowsBooking
<1>2. QED
  BY <1>1, Inductive, BackedInductive, PTL

----------------------------------------------------------------------------
(* Redelivery is bounded.                                                       *)

\* The relay has, or will poll again, an order it has not published from its batch.
MayPublish(o) ==
    \/ o \in DOMAIN batch /\ relayAt # o
    \/ o \notin DOMAIN batch /\ ~Stamped(o)

\* The worker has yet to save the order, from a copy that may lack the stamp.
MayWipe(o) ==
    \/ <<"ticketing", o>> \notin marked
    \/ workerAt = "read" /\ Event = o
    \/ workerAt = "save" /\ Event = o /\ ~copy.published

Chances(o) == (IF MayPublish(o) THEN 1 ELSE 0) + (IF MayWipe(o) THEN 1 ELSE 0)

\* Each publication uses up a chance, and only a crash of the relay gives a new one.
ChancesLeft ==
    /\ relayAt = "poll" => DOMAIN batch = {}
    /\ \A o \in Orders : Published(o) + Chances(o) <= 2 + relayCrashes

\* How often an event is in the topic is a number.
LEMMA PublishedNat ==
    ASSUME TypeOK, NEW o \in Orders
    PROVE  IsFiniteSet({i \in 1..Len(log) : log[i] = o}) /\ Published(o) \in Nat
<1> DEFINE At == {i \in 1..Len(log) : log[i] = o}
<1>1. Len(log) \in Nat
  BY DEF TypeOK
<1>2. IsFiniteSet(1..Len(log))
  BY <1>1, FS_Interval
<1>3. IsFiniteSet(At)
  BY <1>2, FS_Subset
<1>4. QED
  BY <1>3, FS_CardinalityType DEF Published

\* A publication of an order counts once, for this order.
LEMMA PublishCounts ==
    ASSUME TypeOK, NEW o \in Orders, RelayPublish(o), NEW x \in Orders
    PROVE  Published(x)' = IF x = o THEN Published(x) + 1 ELSE Published(x)
<1> DEFINE At == {i \in 1..Len(log) : log[i] = x}
           AtNext == {i \in 1..Len(log') : log'[i] = x}
           n == Len(log) + 1
<1>1. /\ Len(log) \in Nat /\ Len(log') = n
      /\ \A i \in 1..Len(log) : log'[i] = log[i]
      /\ log'[n] = o
  BY DEF TypeOK, RelayPublish
<1>2. 1..Len(log') = (1..Len(log)) \cup {n} /\ n \notin 1..Len(log)
  BY <1>1
<1>3. IsFiniteSet(At) /\ Published(x) = Cardinality(At) /\ n \notin At
  BY <1>2, PublishedNat DEF Published
<1>4. CASE x = o
  <2>1. AtNext = At \cup {n}
    BY <1>1, <1>2, <1>4
  <2>2. Cardinality(AtNext) = Cardinality(At) + 1
    BY <1>3, <2>1, FS_AddElement
  <2>3. QED
    BY <1>3, <1>4, <2>2 DEF Published
<1>5. CASE x # o
  <2>1. AtNext = At
    BY <1>1, <1>2, <1>5
  <2>2. QED
    BY <1>3, <1>5, <2>1 DEF Published
<1>6. QED
  BY <1>4, <1>5

\* A step that publishes nothing and gives no chance keeps the account.
LEMMA NoNewChance ==
    ASSUME TypeOK, ChancesLeft, NEW x \in Orders, log' = log, relayCrashes' = relayCrashes,
           MayPublish(x)' => MayPublish(x), MayWipe(x)' => MayWipe(x)
    PROVE  Published(x)' + Chances(x)' <= 2 + relayCrashes'
<1>1. Published(x)' = Published(x) /\ Published(x) \in Nat
  BY PublishedNat DEF Published
<1>2. Published(x) + Chances(x) <= 2 + relayCrashes /\ relayCrashes \in Nat
  BY DEF ChancesLeft, TypeOK
<1>3. QED
  BY <1>1, <1>2 DEF Chances

\* Every step keeps the account.
LEMMA ChancesStep ==
    ASSUME IInv, ChancesLeft, [Next]_vars PROVE ChancesLeft'
<1>0. TypeOK /\ relayCrashes \in Nat
  BY DEF IInv, TypeOK
<1>p. relayAt = "poll" => DOMAIN batch = {}
  BY DEF ChancesLeft
<1>q. (relayAt = "poll" => DOMAIN batch = {})'
  <2> USE <1>p DEF relayVars, workerVars
  <2>1. ASSUME NEW o \in Orders, RelaySave(o) PROVE (relayAt = "poll" => DOMAIN batch = {})'
    BY <2>1 DEF RelaySave
  <2>2. ASSUME NEW o \in Orders, RelayPublish(o) PROVE (relayAt = "poll" => DOMAIN batch = {})'
    BY <2>2, NamesAssumption DEF RelayPublish
  <2>3. CASE RelayPoll \/ RelayCrash
    BY <2>3 DEF RelayPoll, RelayCrash
  <2>4. CASE UNCHANGED relayVars
    BY <2>4
  <2>5. QED
    BY <2>1, <2>2, <2>3, <2>4 DEF Next, Relay, Worker, Confirm, Fetch, MarkTicketing, MarkNotification,
       MarkAudit, MarkIfNew, ReadOrder, SaveTicketed, IssueTicket, Notify, InsertAudit, Work, Commit,
       WorkerCrash, vars
<1> SUFFICES ASSUME NEW x \in Orders PROVE Published(x)' + Chances(x)' <= 2 + relayCrashes'
  BY <1>q DEF ChancesLeft
<1> USE DEF MayPublish, MayWipe, Stamped, Stored, relayVars, workerVars, crashes
<1>1. ASSUME NEW o \in Orders, Confirm(o)
      PROVE Published(x)' + Chances(x)' <= 2 + relayCrashes'
  <2>1. (MayPublish(x)' => MayPublish(x)) /\ (MayWipe(x)' => MayWipe(x))
    BY <1>0, <1>1 DEF Confirm, Event, TypeOK
  <2>2. QED
    BY <1>0, <1>1, <2>1, NoNewChance DEF Confirm
<1>2. CASE RelayPoll
  <2>1. PICK B \in (SUBSET Pending) \ {{}} : batch' = [o \in B |-> doc[o]]
    BY <1>2 DEF RelayPoll
  <2>2. (MayPublish(x)' => MayPublish(x)) /\ (MayWipe(x)' => MayWipe(x))
    BY <1>2, <1>p, <2>1 DEF RelayPoll, Pending, Event
  <2>3. QED
    BY <1>0, <1>2, <2>2, NoNewChance DEF RelayPoll
<1>3. ASSUME NEW o \in Orders, RelayPublish(o)
      PROVE Published(x)' + Chances(x)' <= 2 + relayCrashes'
  <2>1. Published(x)' = (IF x = o THEN Published(x) + 1 ELSE Published(x)) /\ Published(x) \in Nat
    BY <1>0, <1>3, PublishCounts, PublishedNat
  <2>2. MayWipe(x)' = MayWipe(x)
    BY <1>0, <1>3, PublishKeeps DEF RelayPublish
  <2>3. x = o => MayPublish(x) /\ ~MayPublish(x)'
    BY <1>3 DEF RelayPublish
  <2>4. x # o => MayPublish(x)' = MayPublish(x)
    BY <1>3 DEF RelayPublish
  <2>5. relayCrashes' = relayCrashes
    BY <1>3 DEF RelayPublish
  <2>6. Published(x) + Chances(x) <= 2 + relayCrashes
    BY DEF ChancesLeft
  <2>7. QED
    <3> HIDE DEF MayPublish, MayWipe
    <3> QED
      BY <1>0, <2>1, <2>2, <2>3, <2>4, <2>5, <2>6 DEF Chances
<1>4. ASSUME NEW o \in Orders, RelaySave(o)
      PROVE Published(x)' + Chances(x)' <= 2 + relayCrashes'
  <2>1. o \in DOMAIN batch /\ batch[o] \in Documents
    BY <1>0, <1>4 DEF RelaySave, IInv, Stamps, TypeOK
  <2>2. [batch[o] EXCEPT !.published = TRUE] # Absent /\ [batch[o] EXCEPT !.published = TRUE].published
    BY <2>1 DEF Documents
  <2>3. x = o => ~MayPublish(x)'
    <3>1. doc'[o] = [batch[o] EXCEPT !.published = TRUE] /\ DOMAIN batch' = DOMAIN batch \ {o}
      BY <1>0, <1>4 DEF RelaySave, TypeOK
    <3>2. QED
      BY <2>2, <3>1
  <2>4. x # o => (MayPublish(x)' => MayPublish(x))
    <3>1. x # o => doc'[x] = doc[x]
      BY <1>0, <1>4 DEF RelaySave, TypeOK
    <3>2. DOMAIN batch' = DOMAIN batch \ {o} /\ relayAt = o
      BY <1>4 DEF RelaySave
    <3>3. QED
      BY <3>1, <3>2
  <2>5. MayWipe(x)' => MayWipe(x)
    BY <1>4 DEF RelaySave, Event
  <2>6. QED
    BY <1>0, <1>4, <2>3, <2>4, <2>5, NoNewChance DEF RelaySave
<1>5. CASE RelayCrash
  <2>1. Published(x)' = Published(x) /\ Published(x) \in Nat
    BY <1>0, <1>5, PublishedNat DEF RelayCrash, Published
  <2>2. MayWipe(x)' = MayWipe(x)
    BY <1>5 DEF RelayCrash, Event
  <2>3. Published(x) + Chances(x) <= 2 + relayCrashes
    BY DEF ChancesLeft
  <2>4. DOMAIN batch' = {} /\ relayCrashes' = relayCrashes + 1
    BY <1>5 DEF RelayCrash
  <2>5. QED
    <3> HIDE DEF MayPublish, MayWipe
    <3> QED
      BY <1>0, <2>1, <2>2, <2>3, <2>4 DEF Chances
<1>6. CASE SaveTicketed
  <2>1. Event \in Orders /\ <<"ticketing", Event>> \in marked /\ copy \in Documents
    BY <1>0, <1>6, EventLogged DEF SaveTicketed, IInv, MarkedSoFar, TicketingDone, Stamps
  <2> DEFINE d == [copy EXCEPT !.status = "TICKETED"]
  <2>2. d # Absent /\ d.published = copy.published /\ copy.published \in BOOLEAN
    BY <2>1 DEF Documents
  <2>3. doc' = [doc EXCEPT ![Event] = d] /\ workerAt = "save" /\ workerAt' = "issue"
        /\ UNCHANGED <<relayVars, log, pos, copy, marked, crashes>>
    BY <1>6 DEF SaveTicketed
  <2>4. MayWipe(x)' => MayWipe(x)
    BY <2>3
  <2>5. CASE x # Event
    <3>1. doc'[x] = doc[x]
      BY <2>3, <2>5
    <3>2. MayPublish(x)' => MayPublish(x)
      BY <2>3, <3>1
    <3>3. QED
      BY <1>0, <2>3, <2>4, <3>2, NoNewChance
  <2>6. CASE x = Event /\ copy.published
    <3>1. doc'[x] = d
      BY <1>0, <2>3, <2>6 DEF TypeOK
    <3>2. MayPublish(x)' => MayPublish(x)
      BY <2>2, <2>3, <2>6, <3>1
    <3>3. QED
      BY <1>0, <2>3, <2>4, <3>2, NoNewChance
  <2>7. CASE x = Event /\ ~copy.published
    <3>1. MayWipe(x) /\ ~MayWipe(x)'
      BY <2>1, <2>3, <2>7
    <3>2. Published(x)' = Published(x) /\ Published(x) \in Nat
      BY <1>0, <2>3, PublishedNat DEF Published
    <3>3. Published(x) + Chances(x) <= 2 + relayCrashes
      BY DEF ChancesLeft
    <3>4. relayCrashes' = relayCrashes /\ batch' = batch /\ relayAt' = relayAt
      BY <2>3
    <3>5. QED
      <4> HIDE DEF MayPublish, MayWipe
      <4> QED
        BY <1>0, <3>1, <3>2, <3>3, <3>4 DEF Chances
  <2>8. QED
    BY <2>5, <2>6, <2>7
<1>7. ASSUME NEW c \in Consumers, NEW work, NEW next, MarkIfNew(c, work, next),
             work = "read" => c = "ticketing", work # "save", next \notin {"read", "save"}
      PROVE Published(x)' + Chances(x)' <= 2 + relayCrashes'
  <2>1. (MayPublish(x)' => MayPublish(x)) /\ (MayWipe(x)' => MayWipe(x))
    BY <1>7 DEF MarkIfNew, Event
  <2>2. QED
    BY <1>0, <1>7, <2>1, NoNewChance DEF MarkIfNew
<1>8. CASE ReadOrder
  <2>1. (MayPublish(x)' => MayPublish(x)) /\ (MayWipe(x)' => MayWipe(x))
    BY <1>8 DEF ReadOrder, Event
  <2>2. QED
    BY <1>0, <1>8, <2>1, NoNewChance DEF ReadOrder
<1>9. ASSUME NEW c \in Consumers, NEW at, NEW next, Work(c, at, next), next \notin {"read", "save"}
      PROVE Published(x)' + Chances(x)' <= 2 + relayCrashes'
  <2>1. (MayPublish(x)' => MayPublish(x)) /\ (MayWipe(x)' => MayWipe(x))
    BY <1>9 DEF Work, Event
  <2>2. QED
    BY <1>0, <1>9, <2>1, NoNewChance DEF Work
<1>10. CASE Fetch \/ Commit \/ WorkerCrash
  <2>1. (MayPublish(x)' => MayPublish(x)) /\ (MayWipe(x)' => MayWipe(x))
    BY <1>10 DEF Fetch, Commit, WorkerCrash, Event
  <2>2. QED
    BY <1>0, <1>10, <2>1, NoNewChance DEF Fetch, Commit, WorkerCrash
<1>11. CASE UNCHANGED vars
  <2>1. (MayPublish(x)' => MayPublish(x)) /\ (MayWipe(x)' => MayWipe(x))
    BY <1>11 DEF vars, Event
  <2>2. QED
    BY <1>0, <1>11, <2>1, NoNewChance DEF vars
<1>12. CASE MarkTicketing \/ MarkNotification \/ MarkAudit
  BY <1>7, <1>12 DEF MarkTicketing, MarkNotification, MarkAudit, Consumers
<1>13. CASE IssueTicket \/ Notify \/ InsertAudit
  BY <1>9, <1>13 DEF IssueTicket, Notify, InsertAudit, Consumers
<1>14. QED
  BY <1>1, <1>2, <1>3, <1>4, <1>5, <1>6, <1>8, <1>10, <1>11, <1>12, <1>13 DEF Next, Relay, Worker

\* An event is published again only after a crash of the relay, or once for a stamp the worker overwrote.
THEOREM RedeliveryIsBounded == Spec => []RepublishBounded
<1>1. Init => ChancesLeft
  <2> SUFFICES ASSUME Init, NEW o \in Orders PROVE Published(o) = 0
    BY DEF Init, ChancesLeft, Chances
  <2>1. {i \in 1..Len(log) : log[i] = o} = {}
    BY DEF Init
  <2>2. QED
    BY <2>1, FS_EmptySet DEF Published
<1>2. IInv /\ ChancesLeft /\ [Next]_vars => ChancesLeft'
  BY ChancesStep
<1>3. IInv /\ ChancesLeft => RepublishBounded
  <2> SUFFICES ASSUME IInv, ChancesLeft, NEW o \in Orders PROVE Published(o) <= 2 + relayCrashes
    BY DEF RepublishBounded
  <2>1. TypeOK /\ relayCrashes \in Nat
    BY DEF IInv, TypeOK
  <2>2. Published(o) \in Nat
    BY <2>1, PublishedNat
  <2>3. Published(o) + Chances(o) <= 2 + relayCrashes
    BY DEF ChancesLeft
  <2>4. QED
    BY <2>1, <2>2, <2>3 DEF Chances
<1>4. QED
  BY <1>1, <1>2, <1>3, Inductive, PTL DEF Spec
=============================================================================

----------------------------- MODULE OutboxRelay -----------------------------
(***************************************************************************)
(* The transactional outbox: producers insert events in the transaction    *)
(* that makes the change they report, and relays publish the pending ones  *)
(* to the RabbitMQ exchange and record how it went.  Publishing and        *)
(* recording are two systems, so they are two steps; a relay takes no lock *)
(* on the rows it has fetched.                                             *)
(***************************************************************************)
EXTENDS Integers, FiniteSets, Sequences

CONSTANTS
    Events,             \* events that may ever be raised
    Producers,          \* sessions that raise them
    Relays,             \* running relay processes
    NoEvent,            \* stands for "no event"
    BatchSize,          \* OUTBOX_BATCH_SIZE
    Exchanges,          \* exchanges of the broker
    DefaultExchange,    \* DEFAULT_OUTBOX_EXCHANGE
    MaxFaults           \* bound on crashes, lost confirms and failed statements

ASSUME EventsAssumption ==
    /\ IsFiniteSet(Events)
    /\ NoEvent \notin Events
    /\ DefaultExchange \in Exchanges

ASSUME BoundsAssumption == BatchSize \in Nat \ {0} /\ MaxFaults \in Nat

VARIABLES
    status,     \* column status; "absent" before the commit, "removed" after
                \* the clean-up has deleted the row
    createdAt,  \* column created_at: when the producer's transaction began
    attempts,   \* column attempts
    clock,      \* now() of the next transaction
    open,       \* the event each producer has flushed but not committed
    old,        \* rows sent more than seven days ago
    pc,         \* where each relay is
    batch,      \* events fetched and not yet handled, in order of creation
    current,    \* the event a relay is publishing
    log,        \* messages the broker accepted, oldest first
    faults      \* faults so far

table == <<status, createdAt, attempts, old>>
producer == <<clock, open>>
relay == <<pc, batch, current>>
vars == <<table, producer, relay, log, faults>>

Statuses == {"absent", "PENDING", "SENT", "FAILED", "removed"}

TypeOK ==
    /\ status \in [Events -> Statuses]
    /\ createdAt \in [Events -> Nat]
    /\ attempts \in [Events -> Nat]
    /\ clock \in Nat
    /\ open \in [Producers -> Events \cup {NoEvent}]
    /\ old \in SUBSET Events
    /\ pc \in [Relays -> {"idle", "batch", "sent", "failed"}]
    /\ batch \in [Relays -> SUBSET Events]
    /\ current \in [Relays -> Events \cup {NoEvent}]
    /\ log \in Seq([event : Events, exchange : Exchanges])
    /\ faults \in 0..MaxFaults

\* Seeded bug: failed events are taken up again.
PendingOrFailed == {e \in Events : status[e] \in {"PENDING", "FAILED"}}

Pending == {e \in Events : status[e] = "PENDING"}
Published == {e \in Events : \E i \in DOMAIN log : log[i].event = e}
Unused == {e \in Events : status[e] = "absent" /\ \A p \in Producers : open[p] # e}
-----------------------------------------------------------------------------
Init ==
    /\ status = [e \in Events |-> "absent"]
    /\ createdAt = [e \in Events |-> 0]
    /\ attempts = [e \in Events |-> 0]
    /\ clock = 1
    /\ open = [p \in Producers |-> NoEvent]
    /\ old = {}
    /\ pc = [r \in Relays |-> "idle"]
    /\ batch = [r \in Relays |-> {}]
    /\ current = [r \in Relays |-> NoEvent]
    /\ log = <<>>
    /\ faults = 0

(***************************************************************************)
(* A producer: add_outbox_event inside a transaction that began earlier,   *)
(* then the commit of that transaction, or its rollback.                   *)
(***************************************************************************)
AddEvent(p, e) ==
    /\ open[p] = NoEvent
    /\ e \in Unused
    /\ open' = [open EXCEPT ![p] = e]
    /\ createdAt' = [createdAt EXCEPT ![e] = clock]
    /\ clock' = clock + 1
    /\ UNCHANGED <<status, attempts, old, relay, log, faults>>

CommitEvent(p) ==
    /\ open[p] # NoEvent
    /\ status' = [status EXCEPT ![open[p]] = "PENDING"]
    /\ open' = [open EXCEPT ![p] = NoEvent]
    /\ UNCHANGED <<createdAt, attempts, old, clock, relay, log, faults>>

RollBackEvent(p) ==
    /\ open[p] # NoEvent
    /\ faults < MaxFaults
    /\ faults' = faults + 1
    /\ open' = [open EXCEPT ![p] = NoEvent]
    /\ UNCHANGED <<table, clock, relay, log>>

\* Seven days pass after an event was sent.
Age(e) ==
    /\ status[e] = "SENT"
    /\ e \notin old
    /\ old' = old \cup {e}
    /\ UNCHANGED <<status, createdAt, attempts, producer, relay, log, faults>>
-----------------------------------------------------------------------------
(***************************************************************************)
(* One iteration of a relay, _process_pending_events.                      *)
(***************************************************************************)

\* Seeded bug: no ORDER BY.
AnyPending(b) ==
    /\ b \subseteq Pending
    /\ Cardinality(b) <= BatchSize
    /\ b = Pending \/ Cardinality(b) = BatchSize

\* The oldest pending events, no more than the batch size.
OldestPending(b) ==
    /\ b \subseteq Pending
    /\ Cardinality(b) <= BatchSize
    /\ b = Pending \/ Cardinality(b) = BatchSize
    /\ \A e \in b, f \in Pending \ b : createdAt[e] <= createdAt[f]

\* An iteration that finds nothing pending ends at once, without clean-up.
Fetch(r) ==
    /\ pc[r] = "idle"
    /\ Pending # {}
    /\ \E b \in SUBSET Pending :
          /\ OldestPending(b)
          /\ batch' = [batch EXCEPT ![r] = b]
    /\ pc' = [pc EXCEPT ![r] = "batch"]
    /\ UNCHANGED <<table, producer, current, log, faults>>

\* The next event of the batch.
IsNext(r, e) == e \in batch[r] /\ \A f \in batch[r] : createdAt[e] <= createdAt[f]

\* _publish_event: every message goes to the exchange the relay was started
\* with, whatever destination the event names.
Message(e) == [event |-> e, exchange |-> DefaultExchange]

\* Take the next event of the batch and go on to place.
TakeNext(r, e, place) ==
    /\ pc[r] = "batch"
    /\ IsNext(r, e)
    /\ batch' = [batch EXCEPT ![r] = @ \ {e}]
    /\ current' = [current EXCEPT ![r] = e]
    /\ pc' = [pc EXCEPT ![r] = place]
    /\ UNCHANGED <<table, producer>>

Publish(r, e) ==
    /\ TakeNext(r, e, "sent")
    /\ log' = Append(log, Message(e))
    /\ UNCHANGED faults

\* The broker refuses or cannot be reached.
\* Seeded bug: the refusal goes unnoticed.
PublishRefusedUnnoticed(r, e) ==
    /\ TakeNext(r, e, "sent")
    /\ UNCHANGED <<log, faults>>

PublishRefused(r, e) ==
    /\ TakeNext(r, e, "failed")
    /\ UNCHANGED <<log, faults>>

\* The broker has the message but the confirm is lost.
PublishUnconfirmed(r, e) ==
    /\ faults < MaxFaults
    /\ faults' = faults + 1
    /\ TakeNext(r, e, "failed")
    /\ log' = Append(log, Message(e))

\* The update of the row of the current event, if the row is still there, and
\* the commit.
Record(r, outcome) ==
    LET e == current[r]
    IN IF status[e] = "removed"
       THEN UNCHANGED <<status, attempts>>
       ELSE /\ status' = [status EXCEPT ![e] = outcome]
            /\ attempts' = [attempts EXCEPT ![e] = @ + 1]

BackToBatch(r) ==
    /\ pc' = [pc EXCEPT ![r] = "batch"]
    /\ current' = [current EXCEPT ![r] = NoEvent]
    /\ UNCHANGED <<createdAt, old, producer, batch, log>>

\* Seeded bugs: the update is not committed; the row gets an unknown status.
MarkSentUncommitted(r) ==
    /\ pc[r] = "sent"
    /\ BackToBatch(r)
    /\ UNCHANGED <<status, attempts, faults>>

MarkSentUnknown(r) ==
    /\ pc[r] = "sent"
    /\ Record(r, "PUBLISHED")
    /\ BackToBatch(r)
    /\ UNCHANGED faults

MarkSent(r) ==
    /\ pc[r] = "sent"
    /\ Record(r, "SENT")
    /\ BackToBatch(r)
    /\ UNCHANGED faults

\* Seeded bug: the failure is only logged.
MarkFailedOnlyLogged(r) ==
    /\ pc[r] = "failed"
    /\ BackToBatch(r)
    /\ UNCHANGED <<status, attempts, faults>>

MarkFailed(r) ==
    /\ pc[r] = "failed"
    /\ Record(r, "FAILED")
    /\ BackToBatch(r)
    /\ UNCHANGED faults

\* The iteration ends and its session is closed; the loop starts another.
StopIteration(r) ==
    /\ pc' = [pc EXCEPT ![r] = "idle"]
    /\ batch' = [batch EXCEPT ![r] = {}]
    /\ current' = [current EXCEPT ![r] = NoEvent]

\* The update or its commit fails.  The handler of the failure uses the same
\* broken transaction to mark the event as failed, so it raises as well; the
\* commit itself may have reached the database.
RecordFails(r) ==
    /\ pc[r] \in {"sent", "failed"}
    /\ faults < MaxFaults
    /\ faults' = faults + 1
    /\ \/ Record(r, IF pc[r] = "sent" THEN "SENT" ELSE "FAILED")
       \/ UNCHANGED <<status, attempts>>
    /\ StopIteration(r)
    /\ UNCHANGED <<createdAt, old, producer, log>>

\* delete_old_sent_outbox_events, after the last event of the batch.
CleanUp(r) ==
    /\ pc[r] = "batch"
    /\ batch[r] = {}
    /\ status' = [e \in Events |-> IF status[e] = "SENT" /\ e \in old
                                   THEN "removed" ELSE status[e]]
    /\ StopIteration(r)
    /\ UNCHANGED <<createdAt, attempts, old, producer, log, faults>>

\* The process dies and is started again.
Crash(r) ==
    /\ pc[r] # "idle"
    /\ faults < MaxFaults
    /\ faults' = faults + 1
    /\ StopIteration(r)
    /\ UNCHANGED <<table, producer, log>>
-----------------------------------------------------------------------------
RelayStep(r) ==
    \/ Fetch(r) \/ MarkSent(r) \/ MarkFailed(r) \/ CleanUp(r)
    \/ \E e \in Events : Publish(r, e) \/ PublishRefused(r, e)

Fault(r) == RecordFails(r) \/ Crash(r) \/ \E e \in Events : PublishUnconfirmed(r, e)

Produce(p) == (\E e \in Events : AddEvent(p, e)) \/ CommitEvent(p) \/ RollBackEvent(p)

Next ==
    \/ \E p \in Producers : Produce(p)
    \/ \E r \in Relays : RelayStep(r) \/ Fault(r)
    \/ \E e \in Events : Age(e)

Spec == Init /\ [][Next]_vars

\* A relay that is running keeps polling and working through its batch.
FairSpec == Spec /\ \A r \in Relays : WF_vars(RelayStep(r))
-----------------------------------------------------------------------------
(***************************************************************************)
(* Properties.                                                             *)
(***************************************************************************)

\* CHANGELOG, the transactional outbox pattern: no message for a change that
\* was not committed, and no event recorded as sent that the broker never got,
\* whatever crashes, lost confirms and failed updates come in between.
OutboxSound ==
    \A e \in Events :
        /\ e \in Published => status[e] # "absent"
        /\ status[e] \in {"SENT", "removed"} => e \in Published

\* get_pending_outbox_events orders by creation: with one producer and one
\* relay, consumers never see an older event after a newer one, although an
\* interrupted iteration publishes some events again.
PublishedInOrder ==
    \A i, j \in DOMAIN log :
        i < j => createdAt[log[i].event] <= createdAt[log[j].event]

\* A message is published again only by an iteration that follows a fault.
Repeats == Len(log) - Cardinality(Published)

RepeatsNeedFaults == Repeats <= faults

\* An event whose outcome is on record is not published again and does not
\* get another outcome.
SettledStaysSettled ==
    [][\A e \in Events : status[e] \in {"SENT", "FAILED"} =>
          /\ status'[e] \in {status[e], "removed"}
          /\ \A i \in DOMAIN log' \ DOMAIN log : log'[i].event # e]_vars

\* Every committed event gets an outcome: one that cannot be published does
\* not hold up those behind it.
EveryEventSettles == \A e \in Events : status[e] = "PENDING" ~> status[e] # "PENDING"

\* The relay implements the abstract delivery service; the clean-up of a sent
\* row changes nothing there.
StageOf == [absent |-> "none", PENDING |-> "raised", SENT |-> "done",
            removed |-> "done", FAILED |-> "abandoned"]

Delivery == INSTANCE EventDelivery WITH
                stage <- [e \in Events |-> StageOf[status[e]]],
                delivered <- Published

DeliversEvents == Delivery!Spec
=============================================================================

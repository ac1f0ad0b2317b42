------------------------- MODULE OutboxRelay_proofs -------------------------
(***************************************************************************)
(* Proofs about OutboxRelay: the types, the soundness of the outbox for    *)
(* any number of producers and relays, and, for a single relay, that it    *)
(* implements EventDelivery.                                               *)
(***************************************************************************)
EXTENDS OutboxRelay, FiniteSetTheorems, TLAPS

Messages == [event : Events, exchange : Exchanges]

LEMMA MessageType == ASSUME NEW e \in Events PROVE Message(e) \in Messages
  BY EventsAssumption DEF Message, Messages

LEMMA InitTypes == Init => TypeOK
  BY EventsAssumption, BoundsAssumption DEF Init, TypeOK, Statuses, Messages

\* What a relay step does to the row it records.
LEMMA RecordTypes ==
    ASSUME TypeOK, NEW r \in Relays, current[r] \in Events,
           NEW outcome \in Statuses, Record(r, outcome)
    PROVE  status' \in [Events -> Statuses] /\ attempts' \in [Events -> Nat]
  <1>1. CASE status[current[r]] = "removed"
    BY <1>1 DEF TypeOK, Record
  <1>2. CASE status[current[r]] # "removed"
    <2>1. /\ status' = [status EXCEPT ![current[r]] = outcome]
          /\ attempts' = [attempts EXCEPT ![current[r]] = @ + 1]
      BY <1>2 DEF Record
    <2> QED
      BY <2>1 DEF TypeOK
  <1> QED
    BY <1>1, <1>2

(***************************************************************************)
(* A relay that publishes or records holds an event.                       *)
(***************************************************************************)
Holds == \A r \in Relays : pc[r] \in {"sent", "failed"} => current[r] \in Events

TypeInv == TypeOK /\ Holds

LEMMA TypeStep == TypeInv /\ [Next]_vars => TypeInv'
  <1> SUFFICES ASSUME TypeInv, [Next]_vars PROVE TypeInv'
    OBVIOUS
  <1> USE DEF TypeInv, Holds
  <1>1. ASSUME NEW p \in Producers, NEW e \in Events, AddEvent(p, e) PROVE TypeInv'
    BY <1>1 DEF AddEvent, TypeOK, relay
  <1>2. ASSUME NEW p \in Producers, CommitEvent(p) PROVE TypeInv'
    BY <1>2 DEF CommitEvent, TypeOK, relay, Statuses
  <1>3. ASSUME NEW p \in Producers, RollBackEvent(p) PROVE TypeInv'
    BY <1>3, BoundsAssumption DEF RollBackEvent, TypeOK, relay, table
  <1>4. ASSUME NEW e \in Events, Age(e) PROVE TypeInv'
    BY <1>4 DEF Age, TypeOK, relay, producer
  <1>5. ASSUME NEW r \in Relays, Fetch(r) PROVE TypeInv'
    <2>1. PICK b \in SUBSET Pending : batch' = [batch EXCEPT ![r] = b]
      BY <1>5 DEF Fetch
    <2>2. b \in SUBSET Events
      BY <2>1 DEF Pending
    <2> QED
      BY <1>5, <2>1, <2>2 DEF Fetch, TypeOK, table, producer
  <1>6. ASSUME NEW r \in Relays, NEW e \in Events,
               Publish(r, e) \/ PublishRefused(r, e) \/ PublishUnconfirmed(r, e)
        PROVE  TypeInv'
    <2>0. log \in Seq(Messages) /\ Message(e) \in Messages
      BY MessageType DEF TypeOK, Messages
    <2>1. log' \in Seq(Messages)
      BY <1>6, <2>0 DEF Publish, PublishRefused, PublishUnconfirmed
    <2>3. faults' \in 0..MaxFaults
      BY <1>6, BoundsAssumption DEF Publish, PublishRefused, PublishUnconfirmed, TypeOK
    <2>2. PICK place \in {"sent", "failed"} : TakeNext(r, e, place)
      BY <1>6 DEF Publish, PublishRefused, PublishUnconfirmed
    <2> QED
      BY <2>1, <2>2, <2>3 DEF TakeNext, TypeOK, Messages, table, producer
  <1>7. ASSUME NEW r \in Relays, MarkSent(r) \/ MarkFailed(r) PROVE TypeInv'
    <2>1. current[r] \in Events /\ BackToBatch(r) /\ UNCHANGED faults
      BY <1>7 DEF MarkSent, MarkFailed
    <2>2. status' \in [Events -> Statuses] /\ attempts' \in [Events -> Nat]
      BY <1>7, <2>1, RecordTypes DEF MarkSent, MarkFailed, Statuses
    <2> QED
      BY <2>1, <2>2 DEF BackToBatch, TypeOK, producer
  <1>8. ASSUME NEW r \in Relays, RecordFails(r) PROVE TypeInv'
    <2>1. current[r] \in Events
      BY <1>8 DEF RecordFails
    <2>2. status' \in [Events -> Statuses] /\ attempts' \in [Events -> Nat]
      BY <1>8, <2>1, RecordTypes DEF RecordFails, Statuses, TypeOK
    <2>3. faults' \in 0..MaxFaults
      BY <1>8, BoundsAssumption DEF RecordFails, TypeOK
    <2> QED
      BY <1>8, <2>2, <2>3 DEF RecordFails, StopIteration, TypeOK, producer
  <1>9. ASSUME NEW r \in Relays, CleanUp(r) PROVE TypeInv'
    BY <1>9 DEF CleanUp, StopIteration, TypeOK, producer, Statuses
  <1>10. ASSUME NEW r \in Relays, Crash(r) PROVE TypeInv'
    BY <1>10, BoundsAssumption DEF Crash, StopIteration, TypeOK, producer, table
  <1>11. CASE UNCHANGED vars
    BY <1>11 DEF vars, table, producer, relay, TypeOK
  <1> QED
    BY <1>1, <1>2, <1>3, <1>4, <1>5, <1>6, <1>7, <1>8, <1>9, <1>10, <1>11
       DEF Next, Produce, RelayStep, Fault

LEMMA TypeInvariance == Spec => []TypeInv
  <1>1. Init => TypeInv
    BY InitTypes DEF Init, TypeInv, Holds
  <1> QED
    BY <1>1, TypeStep, PTL DEF Spec

\* Every variable of the outbox keeps its type.
THEOREM TypeCorrect == Spec => []TypeOK
  <1>1. TypeInv => TypeOK
    BY DEF TypeInv
  <1> QED
    BY <1>1, TypeInvariance, PTL

(***************************************************************************)
(* The soundness of the outbox.  A relay works only on events that were    *)
(* committed, and one about to record an event as sent has published it.   *)
(***************************************************************************)
Committed(e) == status[e] # "absent"

SoundInv ==
    /\ OutboxSound
    /\ \A r \in Relays :
          /\ \A e \in batch[r] : Committed(e)
          /\ pc[r] \in {"sent", "failed"} => Committed(current[r])
          /\ pc[r] = "sent" => current[r] \in Published

LEMMA PublishedType == Published \in SUBSET Events
  BY DEF Published

\* Publishing adds one event to those the broker has seen.
LEMMA PublishedAfter ==
    ASSUME TypeInv, NEW e \in Events, log' = Append(log, Message(e))
    PROVE  Published' = Published \cup {e}
  <1>1. log \in Seq(Messages) /\ Message(e) \in Messages
    BY MessageType DEF TypeInv, TypeOK, Messages
  <1>2. DOMAIN log = 1..Len(log) /\ DOMAIN log' = 1..(Len(log) + 1) /\ Len(log) \in Nat
    BY <1>1
  <1>3. \A i \in 1..Len(log) : log'[i] = log[i]
    BY <1>1
  <1>4. log'[Len(log) + 1] = Message(e) /\ Message(e).event = e
    BY <1>1 DEF Message
  <1>5. ASSUME NEW f \in Published' PROVE f \in Published \cup {e}
    <2>1. PICK i \in DOMAIN log' : log'[i].event = f
      BY DEF Published
    <2>2. CASE i \in 1..Len(log)
      BY <2>1, <2>2, <1>2, <1>3 DEF Published
    <2>3. CASE i = Len(log) + 1
      BY <2>1, <2>3, <1>4
    <2> QED
      BY <2>2, <2>3, <1>2
  <1>6. ASSUME NEW f \in Published PROVE f \in Published'
    <2>1. PICK i \in DOMAIN log : log[i].event = f
      BY DEF Published
    <2> QED
      BY <2>1, <1>2, <1>3 DEF Published
  <1>7. e \in Published'
    <2>1. Len(log) + 1 \in DOMAIN log'
      BY <1>2
    <2> QED
      BY <2>1, <1>4 DEF Published
  <1> QED
    BY <1>5, <1>6, <1>7

LEMMA PublishedSame == ASSUME UNCHANGED log PROVE Published' = Published
  BY DEF Published

\* The three actions that take the next event: what they do to the log.
LEMMA PublishEffect ==
    ASSUME TypeInv, NEW r \in Relays, NEW e \in Events,
           Publish(r, e) \/ PublishRefused(r, e) \/ PublishUnconfirmed(r, e)
    PROVE  /\ Published' \in {Published, Published \cup {e}}
           /\ pc'[r] = "sent" => e \in Published'
           /\ pc[r] = "batch" /\ e \in batch[r]
           /\ batch' = [batch EXCEPT ![r] = @ \ {e}]
           /\ current' = [current EXCEPT ![r] = e]
           /\ \E place \in {"sent", "failed"} : pc' = [pc EXCEPT ![r] = place]
           /\ UNCHANGED <<table, producer>>
  <1>1. CASE Publish(r, e)
    <2>1. Published' = Published \cup {e}
      BY <1>1, PublishedAfter DEF Publish
    <2> QED
      BY <1>1, <2>1 DEF Publish, TakeNext, IsNext
  <1>2. CASE PublishRefused(r, e)
    <2>1. Published' = Published
      BY <1>2, PublishedSame DEF PublishRefused
    <2> QED
      BY <1>2, <2>1 DEF PublishRefused, TakeNext, IsNext, TypeInv, TypeOK
  <1>3. CASE PublishUnconfirmed(r, e)
    <2>1. Published' = Published \cup {e}
      BY <1>3, PublishedAfter DEF PublishUnconfirmed
    <2> QED
      BY <1>3, <2>1 DEF PublishUnconfirmed, TakeNext, IsNext
  <1> QED
    BY <1>1, <1>2, <1>3

\* The three actions that record an outcome.
LEMMA RecordEffect ==
    ASSUME TypeInv, NEW r \in Relays, MarkSent(r) \/ MarkFailed(r) \/ RecordFails(r)
    PROVE  LET e == current[r]
           IN /\ e \in Events
              /\ pc[r] \in {"sent", "failed"}
              /\ pc' \in [Relays -> {"idle", "batch", "sent", "failed"}]
              /\ pc'[r] \in {"idle", "batch"}
              /\ \A q \in Relays \ {r} : pc'[q] = pc[q] /\ batch'[q] = batch[q]
                                         /\ current'[q] = current[q]
              /\ batch'[r] \subseteq batch[r]
              /\ UNCHANGED <<log, createdAt, producer>>
              /\ \/ UNCHANGED status
                 \/ /\ status[e] # "removed"
                    /\ \E outcome \in {"SENT", "FAILED"} :
                          /\ outcome = "SENT" => pc[r] = "sent"
                          /\ status' = [status EXCEPT ![e] = outcome]
  <1>1. current[r] \in Events /\ pc[r] \in {"sent", "failed"}
    BY DEF TypeInv, Holds, MarkSent, MarkFailed, RecordFails
  <1>2. CASE MarkSent(r) \/ MarkFailed(r)
    <2>1. BackToBatch(r)
      BY <1>2 DEF MarkSent, MarkFailed
    <2>2. \/ UNCHANGED status
          \/ /\ status[current[r]] # "removed"
             /\ \E outcome \in {"SENT", "FAILED"} :
                   /\ outcome = "SENT" => pc[r] = "sent"
                   /\ status' = [status EXCEPT ![current[r]] = outcome]
      BY <1>2 DEF MarkSent, MarkFailed, Record
    <2> QED
      BY <1>1, <2>1, <2>2 DEF BackToBatch, TypeInv, TypeOK
  <1>3. CASE RecordFails(r)
    <2>1. StopIteration(r) /\ UNCHANGED <<log, createdAt, producer>>
      BY <1>3 DEF RecordFails
    <2>2. \/ UNCHANGED status
          \/ /\ status[current[r]] # "removed"
             /\ \E outcome \in {"SENT", "FAILED"} :
                   /\ outcome = "SENT" => pc[r] = "sent"
                   /\ status' = [status EXCEPT ![current[r]] = outcome]
      BY <1>3 DEF RecordFails, Record
    <2> QED
      BY <1>1, <2>1, <2>2 DEF StopIteration, TypeInv, TypeOK
  <1> QED
    BY <1>2, <1>3

LEMMA SoundStep == TypeInv /\ SoundInv /\ [Next]_vars => SoundInv'
  <1> SUFFICES ASSUME TypeInv, SoundInv, [Next]_vars PROVE SoundInv'
    OBVIOUS
  <1> USE PublishedType DEF SoundInv, OutboxSound, Committed
  <1>1. ASSUME NEW p \in Producers, Produce(p) PROVE SoundInv'
    <2>1. Published' = Published /\ UNCHANGED <<pc, batch, current>>
      BY <1>1, PublishedSame
         DEF Produce, AddEvent, CommitEvent, RollBackEvent, relay
    <2>2. \/ UNCHANGED status
          \/ open[p] \in Events /\ status' = [status EXCEPT ![open[p]] = "PENDING"]
      BY <1>1 DEF Produce, AddEvent, CommitEvent, RollBackEvent, table, TypeInv, TypeOK
    <2> QED
      BY <2>1, <2>2 DEF TypeInv, TypeOK, Holds
  <1>2. ASSUME NEW e \in Events, Age(e) PROVE SoundInv'
    BY <1>2, PublishedSame DEF Age, relay
  <1>3. ASSUME NEW r \in Relays, Fetch(r) PROVE SoundInv'
    <2>1. Published' = Published
      BY <1>3, PublishedSame DEF Fetch
    <2>2. PICK b \in SUBSET Pending : batch' = [batch EXCEPT ![r] = b]
      BY <1>3 DEF Fetch
    <2> QED
      BY <1>3, <2>1, <2>2 DEF Fetch, table, TypeInv, TypeOK, Pending
  <1>4. ASSUME NEW r \in Relays, NEW e \in Events,
               Publish(r, e) \/ PublishRefused(r, e) \/ PublishUnconfirmed(r, e)
        PROVE  SoundInv'
    <2>1. status' = status /\ Published \subseteq Published' /\ Published' \subseteq Published \cup {e}
      BY <1>4, PublishEffect DEF table
    <2>2. Committed(e) /\ (pc'[r] = "sent" => e \in Published')
      BY <1>4, PublishEffect
    <2>3. OutboxSound'
      BY <2>1, <2>2
    <2>4. /\ batch' = [batch EXCEPT ![r] = @ \ {e}]
          /\ current' = [current EXCEPT ![r] = e]
          /\ \E place \in {"sent", "failed"} : pc' = [pc EXCEPT ![r] = place]
      BY <1>4, PublishEffect
    <2>5. ASSUME NEW q \in Relays
          PROVE  /\ \A f \in batch'[q] : Committed(f)'
                 /\ pc'[q] \in {"sent", "failed"} => Committed(current[q])'
                 /\ pc'[q] = "sent" => current'[q] \in Published'
      <3>1. CASE q = r
        BY <2>1, <2>2, <2>4, <3>1 DEF TypeInv, TypeOK
      <3>2. CASE q # r
        BY <2>1, <2>4, <3>2 DEF TypeInv, TypeOK
      <3> QED
        BY <3>1, <3>2
    <2> QED
      BY <2>3, <2>5
  <1>5. ASSUME NEW r \in Relays, MarkSent(r) \/ MarkFailed(r) \/ RecordFails(r)
        PROVE  SoundInv'
    <2>1. Published' = Published
      BY <1>5, RecordEffect, PublishedSame
    <2>0. /\ current[r] \in Events /\ Committed(current[r])
          /\ \/ UNCHANGED status
             \/ /\ status[current[r]] # "removed"
                /\ \E outcome \in {"SENT", "FAILED"} :
                      /\ outcome = "SENT" => pc[r] = "sent"
                      /\ status' = [status EXCEPT ![current[r]] = outcome]
      BY <1>5, RecordEffect
    <2>2. \A f \in Events : Committed(f) => Committed(f)'
      BY <2>0 DEF TypeInv, TypeOK
    <2>3. OutboxSound'
      BY <2>0, <2>1, <2>2 DEF TypeInv, TypeOK
    <2>4. ASSUME NEW q \in Relays
          PROVE  /\ \A f \in batch'[q] : Committed(f)'
                 /\ pc'[q] \in {"sent", "failed"} => Committed(current[q])'
                 /\ pc'[q] = "sent" => current'[q] \in Published'
      <3>1. CASE q = r
        <4>1. pc'[r] \in {"idle", "batch"} /\ batch'[r] \subseteq batch[r]
          BY <1>5, RecordEffect
        <4>2. batch[r] \subseteq Events
          BY DEF TypeInv, TypeOK
        <4> QED
          BY <2>2, <3>1, <4>1, <4>2
      <3>2. CASE q # r
        <4>1. pc'[q] = pc[q] /\ batch'[q] = batch[q] /\ current'[q] = current[q]
          BY <1>5, <3>2, RecordEffect
        <4>2. pc[q] \in {"sent", "failed"} => current[q] \in Events
          BY DEF TypeInv, Holds
        <4>3. batch[q] \subseteq Events
          BY DEF TypeInv, TypeOK
        <4> QED
          BY <2>1, <2>2, <4>1, <4>2, <4>3
      <3> QED
        BY <3>1, <3>2
    <2> QED
      BY <2>3, <2>4
  <1>6. ASSUME NEW r \in Relays, CleanUp(r) PROVE SoundInv'
    BY <1>6, PublishedSame DEF CleanUp, StopIteration, TypeInv, TypeOK, Holds
  <1>7. ASSUME NEW r \in Relays, Crash(r) PROVE SoundInv'
    BY <1>7, PublishedSame DEF Crash, StopIteration, table, TypeInv, TypeOK
  <1>8. CASE UNCHANGED vars
    BY <1>8, PublishedSame DEF vars, table, relay
  <1> QED
    BY <1>1, <1>2, <1>3, <1>4, <1>5, <1>6, <1>7, <1>8 DEF Next, RelayStep, Fault

\* No message without a committed event, and no event recorded as sent that
\* the broker never got: for any number of relays and producers, through
\* crashes, lost confirms and failed updates.
THEOREM OutboxIsSound == Spec => []OutboxSound
  <1>1. Init => SoundInv
    BY DEF Init, SoundInv, OutboxSound, Published
  <1>2. SoundInv => OutboxSound
    BY DEF SoundInv
  <1> QED
    BY <1>1, <1>2, SoundStep, TypeInvariance, PTL DEF Spec

(***************************************************************************)
(* A single relay works only on pending events, each of them once per      *)
(* batch, so that what it does to an event is what EventDelivery allows.   *)
(***************************************************************************)
SingleRelay == \A r, q \in Relays : r = q

RelayInv ==
    \A r \in Relays :
        /\ batch[r] \subseteq Pending
        /\ pc[r] \in {"sent", "failed"} =>
              current[r] \in Pending /\ current[r] \notin batch[r]

ProducerInv ==
    \A p \in Producers : open[p] # NoEvent =>
        /\ status[open[p]] = "absent"
        /\ \A q \in Producers \ {p} : open[q] # open[p]

LEMMA ProducerStep ==
    TypeInv /\ SoundInv /\ ProducerInv /\ [Next]_vars => ProducerInv'
  <1> SUFFICES ASSUME TypeInv, SoundInv, ProducerInv, [Next]_vars PROVE ProducerInv'
    OBVIOUS
  <1> USE EventsAssumption DEF ProducerInv
  <1>1. ASSUME NEW p \in Producers, NEW e \in Events, AddEvent(p, e) PROVE ProducerInv'
    BY <1>1 DEF AddEvent, Unused, TypeInv, TypeOK
  <1>2. ASSUME NEW p \in Producers, CommitEvent(p) PROVE ProducerInv'
    BY <1>2 DEF CommitEvent, TypeInv, TypeOK
  <1>3. ASSUME NEW p \in Producers, RollBackEvent(p) PROVE ProducerInv'
    BY <1>3 DEF RollBackEvent, table, TypeInv, TypeOK
  <1>4. ASSUME UNCHANGED open,
               \A e \in Events : status[e] = "absent" => status'[e] = "absent"
        PROVE  ProducerInv'
    BY <1>4 DEF TypeInv, TypeOK
  <1>5. ASSUME NEW e \in Events, Age(e) PROVE ProducerInv'
    BY <1>4, <1>5 DEF Age, producer
  <1>6. ASSUME NEW r \in Relays, Fetch(r) \/ Crash(r) PROVE ProducerInv'
    BY <1>4, <1>6 DEF Fetch, Crash, producer, table
  <1>7. ASSUME NEW r \in Relays, NEW e \in Events,
               Publish(r, e) \/ PublishRefused(r, e) \/ PublishUnconfirmed(r, e)
        PROVE  ProducerInv'
    BY <1>4, <1>7, PublishEffect DEF producer, table
  <1>8. ASSUME NEW r \in Relays, MarkSent(r) \/ MarkFailed(r) \/ RecordFails(r)
        PROVE  ProducerInv'
    <2>1. current[r] \in Events /\ status[current[r]] # "absent"
      BY <1>8, RecordEffect DEF SoundInv, Committed
    <2>2. UNCHANGED open /\ \/ UNCHANGED status
                            \/ \E outcome \in {"SENT", "FAILED"} :
                                  status' = [status EXCEPT ![current[r]] = outcome]
      BY <1>8, RecordEffect DEF producer
    <2> QED
      BY <1>4, <2>1, <2>2 DEF TypeInv, TypeOK
  <1>9. ASSUME NEW r \in Relays, CleanUp(r) PROVE ProducerInv'
    BY <1>4, <1>9 DEF CleanUp, producer, TypeInv, TypeOK
  <1>10. CASE UNCHANGED vars
    BY <1>10 DEF vars, producer, table
  <1> QED
    BY <1>1, <1>2, <1>3, <1>5, <1>6, <1>7, <1>8, <1>9, <1>10
       DEF Next, Produce, RelayStep, Fault

LEMMA RelayStepInv ==
    ASSUME SingleRelay, TypeInv, ProducerInv, RelayInv, [Next]_vars
    PROVE  RelayInv'
  <1> USE DEF RelayInv
  <1>1. ASSUME Pending \subseteq Pending', UNCHANGED relay PROVE RelayInv'
    BY <1>1 DEF relay
  <1>2. ASSUME NEW p \in Producers, Produce(p) PROVE RelayInv'
    <2>1. UNCHANGED relay
      BY <1>2 DEF Produce, AddEvent, CommitEvent, RollBackEvent
    <2>2. \/ UNCHANGED status
          \/ open[p] \in Events /\ status' = [status EXCEPT ![open[p]] = "PENDING"]
      BY <1>2 DEF Produce, AddEvent, CommitEvent, RollBackEvent, table, TypeInv, TypeOK
    <2>3. Pending \subseteq Pending'
      BY <2>2 DEF Pending, TypeInv, TypeOK
    <2> QED
      BY <1>1, <2>1, <2>3
  <1>3. ASSUME NEW e \in Events, Age(e) PROVE RelayInv'
    BY <1>1, <1>3 DEF Age, Pending
  <1>4. ASSUME NEW r \in Relays, Fetch(r) PROVE RelayInv'
    <2>1. PICK b \in SUBSET Pending : batch' = [batch EXCEPT ![r] = b]
      BY <1>4 DEF Fetch
    <2>2. Pending' = Pending /\ pc' = [pc EXCEPT ![r] = "batch"]
      BY <1>4 DEF Fetch, table, Pending
    <2> QED
      BY <2>1, <2>2 DEF SingleRelay, TypeInv, TypeOK
  <1>5. ASSUME NEW r \in Relays, NEW e \in Events,
               Publish(r, e) \/ PublishRefused(r, e) \/ PublishUnconfirmed(r, e)
        PROVE  RelayInv'
    <2>1. Pending' = Pending
      BY <1>5, PublishEffect DEF table, Pending
    <2>2. /\ e \in batch[r]
          /\ batch' = [batch EXCEPT ![r] = @ \ {e}]
          /\ current' = [current EXCEPT ![r] = e]
      BY <1>5, PublishEffect
    <2> QED
      BY <2>1, <2>2 DEF SingleRelay, TypeInv, TypeOK
  <1>6. ASSUME NEW r \in Relays, MarkSent(r) \/ MarkFailed(r) \/ RecordFails(r)
        PROVE  RelayInv'
    <2>1. /\ pc[r] \in {"sent", "failed"} /\ pc'[r] \in {"idle", "batch"}
          /\ batch'[r] \subseteq batch[r]
      BY <1>6, RecordEffect
    <2>2. \/ UNCHANGED status
          \/ \E outcome \in {"SENT", "FAILED"} :
                status' = [status EXCEPT ![current[r]] = outcome]
      BY <1>6, RecordEffect
    <2>3. \A f \in batch[r] : f \in Pending'
      BY <2>1, <2>2 DEF Pending, TypeInv, TypeOK
    <2> QED
      BY <2>1, <2>3 DEF SingleRelay
  <1>7. ASSUME NEW r \in Relays, CleanUp(r) \/ Crash(r) PROVE RelayInv'
    BY <1>7 DEF CleanUp, Crash, StopIteration, SingleRelay, TypeInv, TypeOK
  <1>8. CASE UNCHANGED vars
    BY <1>1, <1>8 DEF vars, table, Pending
  <1> QED
    BY <1>2, <1>3, <1>4, <1>5, <1>6, <1>7, <1>8 DEF Next, RelayStep, Fault

FullInv == TypeInv /\ SoundInv /\ ProducerInv /\ RelayInv

LEMMA FullInvariance == ASSUME SingleRelay PROVE Spec => []FullInv
  <1>1. Init => FullInv
    BY InitTypes
       DEF Init, FullInv, TypeInv, Holds, SoundInv, OutboxSound, Published, ProducerInv, RelayInv
  <1>2. FullInv /\ [Next]_vars => FullInv'
    BY TypeStep, SoundStep, ProducerStep, RelayStepInv DEF FullInv
  <1> QED
    BY <1>1, <1>2, PTL DEF Spec

(***************************************************************************)
(* The refinement.                                                         *)
(***************************************************************************)
Stage == [e \in Events |-> StageOf[status[e]]]

LEMMA StageValues ==
    /\ StageOf["absent"] = "none" /\ StageOf["PENDING"] = "raised"
    /\ StageOf["SENT"] = "done" /\ StageOf["removed"] = "done"
    /\ StageOf["FAILED"] = "abandoned"
  BY DEF StageOf

\* How the change of one status shows in the stages.
LEMMA StageAfter ==
    ASSUME TypeInv, NEW e \in Events, NEW s \in Statuses,
           status' = [status EXCEPT ![e] = s]
    PROVE  Stage' = [Stage EXCEPT ![e] = StageOf[s]]
  BY DEF Stage, TypeInv, TypeOK

\* Every step of the relay system is a step of EventDelivery or none.
LEMMA StepRefines ==
    ASSUME SingleRelay, FullInv, [Next]_vars
    PROVE  \/ \E e \in Events :
                 \/ /\ Stage[e] = "none"
                    /\ Stage' = [Stage EXCEPT ![e] = "raised"]
                    /\ Published' = Published
                 \/ /\ Stage[e] = "raised"
                    /\ Published' = Published \cup {e}
                    /\ Stage' = Stage
                 \/ /\ Stage[e] = "raised" /\ e \in Published
                    /\ Stage' = [Stage EXCEPT ![e] = "done"]
                    /\ Published' = Published
                 \/ /\ Stage[e] = "raised"
                    /\ Stage' = [Stage EXCEPT ![e] = "abandoned"]
                    /\ Published' = Published
           \/ Stage' = Stage /\ Published' = Published
  <1> DEFINE Goal == \/ \E e \in Events :
                           \/ /\ Stage[e] = "none"
                              /\ Stage' = [Stage EXCEPT ![e] = "raised"]
                              /\ Published' = Published
                           \/ /\ Stage[e] = "raised"
                              /\ Published' = Published \cup {e}
                              /\ Stage' = Stage
                           \/ /\ Stage[e] = "raised" /\ e \in Published
                              /\ Stage' = [Stage EXCEPT ![e] = "done"]
                              /\ Published' = Published
                           \/ /\ Stage[e] = "raised"
                              /\ Stage' = [Stage EXCEPT ![e] = "abandoned"]
                              /\ Published' = Published
                     \/ Stage' = Stage /\ Published' = Published
  <1>0. TypeInv /\ SoundInv /\ ProducerInv /\ RelayInv
    BY DEF FullInv
  <1>s. ASSUME UNCHANGED status PROVE Stage' = Stage
    BY <1>s DEF Stage
  <1>1. ASSUME NEW p \in Producers, Produce(p) PROVE Goal
    <2>1. Published' = Published
      BY <1>1, PublishedSame DEF Produce, AddEvent, CommitEvent, RollBackEvent
    <2>2. CASE CommitEvent(p)
      <3>1. open[p] \in Events /\ status[open[p]] = "absent"
        BY <1>0, <2>2 DEF CommitEvent, ProducerInv, TypeInv, TypeOK
      <3>2. Stage' = [Stage EXCEPT ![open[p]] = "raised"]
        BY <1>0, <2>2, <3>1, StageAfter, StageValues DEF CommitEvent, Statuses
      <3>3. Stage[open[p]] = "none"
        BY <3>1, StageValues DEF Stage
      <3> QED
        BY <2>1, <3>1, <3>2, <3>3
    <2>3. CASE ~CommitEvent(p)
      <3>1. UNCHANGED status
        BY <1>1, <2>3 DEF Produce, AddEvent, RollBackEvent, table
      <3> QED
        BY <1>s, <2>1, <3>1
    <2> QED
      BY <2>2, <2>3
  <1>2. ASSUME NEW e \in Events, Age(e) PROVE Goal
    BY <1>2, <1>s, PublishedSame DEF Age
  <1>3. ASSUME NEW r \in Relays, Fetch(r) \/ Crash(r) PROVE Goal
    BY <1>3, <1>s, PublishedSame DEF Fetch, Crash, table
  <1>4. ASSUME NEW r \in Relays, NEW e \in Events,
               Publish(r, e) \/ PublishRefused(r, e) \/ PublishUnconfirmed(r, e)
        PROVE  Goal
    <2>1. Stage' = Stage
      BY <1>0, <1>4, <1>s, PublishEffect DEF table
    <2>2. e \in Pending
      BY <1>0, <1>4, PublishEffect DEF RelayInv
    <2>3. Stage[e] = "raised"
      BY <2>2, StageValues DEF Stage, Pending
    <2>4. Published' \in {Published, Published \cup {e}}
      BY <1>0, <1>4, PublishEffect
    <2> QED
      BY <2>1, <2>3, <2>4
  <1>5. ASSUME NEW r \in Relays, MarkSent(r) \/ MarkFailed(r) \/ RecordFails(r)
        PROVE  Goal
    <2>1. /\ current[r] \in Events /\ pc[r] \in {"sent", "failed"} /\ UNCHANGED log
          /\ \/ UNCHANGED status
             \/ \E outcome \in {"SENT", "FAILED"} :
                   /\ outcome = "SENT" => pc[r] = "sent"
                   /\ status' = [status EXCEPT ![current[r]] = outcome]
      BY <1>0, <1>5, RecordEffect
    <2>2. Published' = Published
      BY <2>1, PublishedSame
    <2>3. Stage[current[r]] = "raised"
      BY <1>0, <2>1, StageValues DEF RelayInv, Stage, Pending
    <2>4. pc[r] = "sent" => current[r] \in Published
      BY <1>0 DEF SoundInv
    <2>5. CASE UNCHANGED status
      BY <1>s, <2>2, <2>5
    <2>6. CASE pc[r] = "sent" /\ status' = [status EXCEPT ![current[r]] = "SENT"]
      <3>1. Stage' = [Stage EXCEPT ![current[r]] = "done"]
        BY <1>0, <2>1, <2>6, StageAfter, StageValues DEF Statuses
      <3> QED
        BY <2>1, <2>2, <2>3, <2>4, <2>6, <3>1
    <2>7. CASE status' = [status EXCEPT ![current[r]] = "FAILED"]
      <3>1. Stage' = [Stage EXCEPT ![current[r]] = "abandoned"]
        BY <1>0, <2>1, <2>7, StageAfter, StageValues DEF Statuses
      <3> QED
        BY <2>1, <2>2, <2>3, <3>1
    <2> QED
      BY <2>1, <2>5, <2>6, <2>7
  <1>6. ASSUME NEW r \in Relays, CleanUp(r) PROVE Goal
    <2>1. \A e \in Events : StageOf[status'[e]] = StageOf[status[e]]
      BY <1>6, StageValues DEF CleanUp
    <2>2. Stage' = Stage
      BY <2>1 DEF Stage
    <2> QED
      BY <1>6, <2>2, PublishedSame DEF CleanUp
  <1>7. CASE UNCHANGED vars
    BY <1>7, <1>s, PublishedSame DEF vars, table
  <1> QED
    BY <1>1, <1>2, <1>3, <1>4, <1>5, <1>6, <1>7 DEF Next, RelayStep, Fault

\* One relay delivers what EventDelivery promises: it hands over only raised
\* events, and settles one as done only after the exchange took it.
THEOREM RelayImplementsDelivery == ASSUME SingleRelay PROVE Spec => DeliversEvents
  <1>1. Init => Delivery!Init
    BY StageValues DEF Init, Delivery!Init, Published
  <1>2. FullInv /\ [Next]_vars => [Delivery!Next]_(Delivery!vars)
    BY StepRefines
       DEF Delivery!Next, Delivery!Raise, Delivery!Deliver, Delivery!Finish,
           Delivery!Abandon, Delivery!vars, Stage
  <1> QED
    BY <1>1, <1>2, FullInvariance, PTL DEF Spec, DeliversEvents, Delivery!Spec

\* With one relay an event whose outcome is on record is never published
\* again, and its outcome stands until the clean-up removes the row.
THEOREM OutcomesAreFinal == ASSUME SingleRelay PROVE Spec => SettledStaysSettled
  <1> DEFINE Kept == \A e \in Events : status[e] \in {"SENT", "FAILED"} =>
                        /\ status'[e] \in {status[e], "removed"}
                        /\ \A i \in DOMAIN log' \ DOMAIN log : log'[i].event # e
  <1>1. ASSUME FullInv, Next PROVE Kept
    <2>0. TypeInv /\ SoundInv /\ ProducerInv /\ RelayInv
      BY <1>1 DEF FullInv
    <2>1. ASSUME UNCHANGED <<status, log>> PROVE Kept
      BY <2>1
    <2>2. ASSUME NEW p \in Producers, Produce(p) PROVE Kept
      BY <2>0, <2>2 DEF Produce, AddEvent, CommitEvent, RollBackEvent, table,
                        ProducerInv, TypeInv, TypeOK
    <2>3. ASSUME NEW r \in Relays, NEW e \in Events,
                 Publish(r, e) \/ PublishRefused(r, e) \/ PublishUnconfirmed(r, e)
          PROVE  Kept
      <3>1. e \in Pending /\ status' = status
        BY <2>0, <2>3, PublishEffect DEF RelayInv, table
      <3>2. \/ UNCHANGED log
            \/ log' = Append(log, Message(e))
        BY <2>3 DEF Publish, PublishRefused, PublishUnconfirmed
      <3>3. log \in Seq(Messages) /\ Message(e) \in Messages /\ Message(e).event = e
        BY <2>0, MessageType DEF TypeInv, TypeOK, Messages, Message
      <3>4. \A i \in DOMAIN log' \ DOMAIN log : log'[i].event = e
        BY <3>2, <3>3
      <3> QED
        BY <3>1, <3>4 DEF Pending
    <2>4. ASSUME NEW r \in Relays, MarkSent(r) \/ MarkFailed(r) \/ RecordFails(r)
          PROVE  Kept
      <3>1. /\ UNCHANGED log
            /\ \/ UNCHANGED status
               \/ \E outcome \in {"SENT", "FAILED"} :
                     status' = [status EXCEPT ![current[r]] = outcome]
            /\ current[r] \in Pending
        BY <2>0, <2>4, RecordEffect DEF RelayInv
      <3> QED
        BY <2>0, <3>1 DEF Pending, TypeInv, TypeOK
    <2>5. ASSUME NEW r \in Relays, CleanUp(r) PROVE Kept
      BY <2>5 DEF CleanUp
    <2> QED
      BY <1>1, <2>1, <2>2, <2>3, <2>4, <2>5
         DEF Next, RelayStep, Fault, Fetch, Crash, Age, table
  <1>2. FullInv /\ [Next]_vars => [Kept]_vars
    BY <1>1
  <1> QED
    BY <1>2, FullInvariance, PTL DEF Spec, SettledStaysSettled
-----------------------------------------------------------------------------
(***************************************************************************)
(* Why a repetition needs a fault.  An event that was published and is     *)
(* still PENDING will be published again, unless a relay is about to       *)
(* record it.  Each fault puts at most one event at risk, and the          *)
(* repetition of an event takes it out of danger until the next fault.     *)
(***************************************************************************)
AtRisk ==
    {e \in Pending \cap Published :
        \A r \in Relays : ~(pc[r] = "sent" /\ current[r] = e)}

RepeatInv == Repeats + Cardinality(AtRisk) <= faults

LEMMA RiskIsFinite ==
    ASSUME TypeInv
    PROVE  /\ IsFiniteSet(AtRisk) /\ Cardinality(AtRisk) \in Nat
           /\ IsFiniteSet(Published) /\ Cardinality(Published) \in Nat
           /\ Len(log) \in Nat /\ faults \in Nat
  <1>1. AtRisk \in SUBSET Events /\ Published \in SUBSET Events
    BY DEF AtRisk, Pending, Published
  <1>2. Len(log) \in Nat
    BY DEF TypeInv, TypeOK
  <1>3. faults \in Nat
    BY BoundsAssumption DEF TypeInv, TypeOK
  <1> QED
    BY <1>1, <1>2, <1>3, EventsAssumption, FS_Subset, FS_CardinalityType

\* A step that publishes nothing and puts no event at risk without a fault.
LEMMA RiskKept ==
    ASSUME TypeInv, TypeInv', RepeatInv, UNCHANGED log,
           \/ AtRisk' \subseteq AtRisk /\ faults <= faults'
           \/ \E e \in Events : AtRisk' \subseteq AtRisk \cup {e} /\ faults' = faults + 1
    PROVE  RepeatInv'
  <1>1. Repeats' = Repeats
    BY PublishedSame DEF Repeats
  <1>2. /\ IsFiniteSet(AtRisk) /\ Cardinality(AtRisk) \in Nat
        /\ Len(log) \in Nat /\ Cardinality(Published) \in Nat /\ faults \in Nat
    BY RiskIsFinite
  <1>f. faults' \in Nat
    BY BoundsAssumption DEF TypeInv, TypeOK
  <1>3. CASE AtRisk' \subseteq AtRisk /\ faults <= faults'
    <2>1. /\ Cardinality(AtRisk') <= Cardinality(AtRisk)
          /\ IsFiniteSet(AtRisk') /\ Cardinality(AtRisk') \in Nat
      BY <1>2, <1>3, FS_Subset, FS_CardinalityType
    <2> QED
      BY <1>1, <1>2, <1>f, <1>3, <2>1 DEF RepeatInv, Repeats
  <1>4. ASSUME NEW e \in Events, AtRisk' \subseteq AtRisk \cup {e}, faults' = faults + 1
        PROVE  RepeatInv'
    <2> DEFINE more == AtRisk \cup {e}
    <2>0. /\ IsFiniteSet(more)
          /\ Cardinality(more) = IF e \in AtRisk THEN Cardinality(AtRisk)
                                               ELSE Cardinality(AtRisk) + 1
      BY <1>2, FS_AddElement, Zenon
    <2>1. IsFiniteSet(more) /\ Cardinality(more) <= Cardinality(AtRisk) + 1
      BY <1>2, <2>0
    <2> HIDE DEF more
    <2>2. /\ Cardinality(AtRisk') <= Cardinality(more) /\ Cardinality(more) \in Nat
          /\ IsFiniteSet(AtRisk') /\ Cardinality(AtRisk') \in Nat
      <3>1. AtRisk' \subseteq more
        BY <1>4 DEF more
      <3> QED
        BY <2>1, <3>1, FS_Subset, FS_CardinalityType
    <2> QED
      BY <1>1, <1>2, <1>f, <1>4, <2>1, <2>2 DEF RepeatInv, Repeats
  <1> QED
    BY <1>3, <1>4

\* A message more, and perhaps an event more that the broker has seen.
LEMMA PublishedCount ==
    ASSUME TypeInv, NEW e \in Events, log' = Append(log, Message(e))
    PROVE  /\ Published' = Published \cup {e}
           /\ Repeats' = IF e \in Published THEN Repeats + 1 ELSE Repeats
  <1>1. Published' = Published \cup {e}
    BY PublishedAfter
  <1>2. log \in Seq(Messages) /\ Message(e) \in Messages
    BY MessageType DEF TypeInv, TypeOK, Messages
  <1>3. Len(log') = Len(log) + 1
    BY <1>2
  <1>4. IsFiniteSet(Published) /\ Cardinality(Published) \in Nat /\ Len(log) \in Nat
    BY RiskIsFinite
  <1>5. Cardinality(Published \cup {e}) = IF e \in Published THEN Cardinality(Published)
                                          ELSE Cardinality(Published) + 1
    BY <1>4, FS_AddElement, Zenon
  <1>6. Cardinality(Published') = Cardinality(Published \cup {e})
    BY <1>1
  <1>7. Repeats' = Len(log') - Cardinality(Published')
    BY DEF Repeats
  <1> QED
    BY <1>1, <1>3, <1>4, <1>5, <1>6, <1>7 DEF Repeats

LEMMA PublishRisk ==
    ASSUME SingleRelay, FullInv, RepeatInv, NEW r \in Relays, NEW e \in Events,
           Publish(r, e) \/ PublishUnconfirmed(r, e)
    PROVE  RepeatInv'
  <1>1. TypeInv /\ RelayInv
    BY DEF FullInv
  <1>2. /\ pc[r] = "batch" /\ e \in Pending /\ status' = status
        /\ current' = [current EXCEPT ![r] = e]
        /\ log' = Append(log, Message(e))
    BY <1>1 DEF Publish, PublishUnconfirmed, TakeNext, IsNext, table, RelayInv
  <1>3. /\ Published' = Published \cup {e}
        /\ Repeats' = IF e \in Published THEN Repeats + 1 ELSE Repeats
    BY <1>1, <1>2, PublishedCount
  <1>4. AtRisk = Pending \cap Published
    BY <1>2 DEF AtRisk, SingleRelay
  <1>5. Pending' = Pending
    BY <1>2 DEF Pending
  <1>6. /\ IsFiniteSet(AtRisk) /\ Cardinality(AtRisk) \in Nat /\ faults \in Nat
        /\ Len(log) \in Nat /\ Cardinality(Published) \in Nat
    BY <1>1, RiskIsFinite
  <1>7. Repeats \in Int
    BY <1>6 DEF Repeats
  <1>8. CASE Publish(r, e)
    <2>1. pc'[r] = "sent" /\ current'[r] = e /\ faults' = faults
      BY <1>1, <1>8 DEF Publish, TakeNext, TypeInv, TypeOK
    <2>2. AtRisk' = AtRisk \ {e}
      BY <1>3, <1>4, <1>5, <2>1 DEF AtRisk, SingleRelay
    <2>3. Cardinality(AtRisk \ {e}) = IF e \in AtRisk THEN Cardinality(AtRisk) - 1
                                      ELSE Cardinality(AtRisk)
      BY <1>6, FS_RemoveElement, Zenon
    <2>4. e \in AtRisk <=> e \in Published
      BY <1>2, <1>4
    <2>5. Cardinality(AtRisk)' = Cardinality(AtRisk \ {e})
      BY <2>2
    <2>6. RepeatInv' <=> Repeats' + Cardinality(AtRisk)' <= faults'
      BY DEF RepeatInv
    <2> QED
      BY <1>3, <1>6, <1>7, <2>1, <2>3, <2>4, <2>5, <2>6 DEF RepeatInv
  <1>9. CASE PublishUnconfirmed(r, e)
    <2>1. pc'[r] = "failed" /\ faults' = faults + 1
      BY <1>1, <1>9 DEF PublishUnconfirmed, TakeNext, TypeInv, TypeOK
    <2>2. AtRisk' = AtRisk \cup {e}
      BY <1>2, <1>3, <1>4, <1>5, <2>1 DEF AtRisk, SingleRelay
    <2>3. Cardinality(AtRisk \cup {e}) = IF e \in AtRisk THEN Cardinality(AtRisk)
                                         ELSE Cardinality(AtRisk) + 1
      BY <1>6, FS_AddElement, Zenon
    <2>4. e \in AtRisk <=> e \in Published
      BY <1>2, <1>4
    <2>5. Cardinality(AtRisk)' = Cardinality(AtRisk \cup {e})
      BY <2>2
    <2>6. RepeatInv' <=> Repeats' + Cardinality(AtRisk)' <= faults'
      BY DEF RepeatInv
    <2> QED
      BY <1>3, <1>6, <1>7, <2>1, <2>3, <2>4, <2>5, <2>6 DEF RepeatInv
  <1> QED
    BY <1>8, <1>9

LEMMA RepeatStep ==
    ASSUME SingleRelay, FullInv, TypeInv', RepeatInv, [Next]_vars
    PROVE  RepeatInv'
  <1>0. TypeInv /\ SoundInv /\ ProducerInv /\ RelayInv
    BY DEF FullInv
  <1>f. faults \in Nat
    BY <1>0, RiskIsFinite
  <1>k. ASSUME UNCHANGED log, AtRisk' \subseteq AtRisk, faults' \in {faults, faults + 1}
        PROVE  RepeatInv'
    BY <1>0, <1>f, <1>k, RiskKept
  <1>1. ASSUME NEW p \in Producers, Produce(p) PROVE RepeatInv'
    <2>1. UNCHANGED <<log, pc, current>> /\ faults' \in {faults, faults + 1}
      BY <1>1 DEF Produce, AddEvent, CommitEvent, RollBackEvent, relay
    <2>2. Published' = Published
      BY <2>1, PublishedSame
    <2>3. Pending' \cap Published \subseteq Pending
      <3>1. \/ UNCHANGED status
            \/ /\ open[p] \in Events /\ status[open[p]] = "absent"
               /\ status' = [status EXCEPT ![open[p]] = "PENDING"]
        BY <1>0, <1>1 DEF Produce, AddEvent, CommitEvent, RollBackEvent, table,
                          ProducerInv, TypeInv, TypeOK
      <3>2. \A e \in Published : status[e] # "absent"
        BY <1>0, PublishedType DEF SoundInv, OutboxSound
      <3> QED
        BY <1>0, <3>1, <3>2 DEF Pending, TypeInv, TypeOK
    <2>4. AtRisk' \subseteq AtRisk
      BY <2>1, <2>2, <2>3 DEF AtRisk
    <2> QED
      BY <1>k, <2>1, <2>4
  <1>2. ASSUME NEW e \in Events, Age(e) PROVE RepeatInv'
    BY <1>k, <1>2, PublishedSame DEF Age, relay, AtRisk, Pending
  <1>3. ASSUME NEW r \in Relays, Fetch(r) PROVE RepeatInv'
    <2>1. /\ UNCHANGED <<log, faults, current, status>>
          /\ pc[r] = "idle"
      BY <1>3 DEF Fetch, table
    <2>2. Published' = Published /\ Pending' = Pending
      BY <2>1, PublishedSame DEF Pending
    <2>3. AtRisk' \subseteq AtRisk
      BY <2>1, <2>2 DEF AtRisk, SingleRelay
    <2> QED
      BY <1>k, <2>1, <2>3
  <1>4. ASSUME NEW r \in Relays, NEW e \in Events, PublishRefused(r, e) PROVE RepeatInv'
    <2>1. /\ UNCHANGED <<log, faults, status>> /\ pc[r] = "batch"
      BY <1>4 DEF PublishRefused, TakeNext, table
    <2>2. Published' = Published /\ Pending' = Pending
      BY <2>1, PublishedSame DEF Pending
    <2>3. AtRisk' \subseteq AtRisk
      BY <2>1, <2>2 DEF AtRisk, SingleRelay
    <2> QED
      BY <1>k, <2>1, <2>3
  <1>5. ASSUME NEW r \in Relays, MarkSent(r) \/ MarkFailed(r) PROVE RepeatInv'
    <2>1. /\ UNCHANGED <<log, faults>> /\ current[r] \in Pending
          /\ \E outcome \in {"SENT", "FAILED"} :
                status' = [status EXCEPT ![current[r]] = outcome]
      BY <1>0, <1>5 DEF MarkSent, MarkFailed, BackToBatch, Record, RelayInv, Pending
    <2>2. Published' = Published /\ Pending' \subseteq Pending \ {current[r]}
      BY <1>0, <2>1, PublishedSame DEF Pending, TypeInv, TypeOK
    <2>3. AtRisk' \subseteq AtRisk
      BY <2>1, <2>2 DEF AtRisk, SingleRelay
    <2> QED
      BY <1>k, <2>1, <2>3
  <1>6. ASSUME NEW r \in Relays, RecordFails(r) \/ Crash(r) PROVE RepeatInv'
    <2>1. UNCHANGED log /\ faults' = faults + 1
      BY <1>6 DEF RecordFails, Crash
    <2>2. Pending' \subseteq Pending
      <3>1. CASE Crash(r)
        BY <3>1 DEF Crash, table, Pending
      <3>2. CASE RecordFails(r)
        <4>1. current[r] \in Events
          BY <1>0, <3>2, RecordEffect
        <4>2. \/ UNCHANGED status
              \/ \E outcome \in {"SENT", "FAILED"} :
                    status' = [status EXCEPT ![current[r]] = outcome]
          BY <1>0, <3>2, RecordEffect
        <4> QED
          BY <1>0, <4>1, <4>2 DEF Pending, TypeInv, TypeOK
      <3> QED
        BY <1>6, <3>1, <3>2
    <2>3. Published' = Published
      BY <2>1, PublishedSame
    <2>4. AtRisk' \subseteq AtRisk \cup {current[r]}
      BY <2>2, <2>3 DEF AtRisk, SingleRelay
    <2>5. CASE current[r] \in Events
      BY <1>0, <2>1, <2>4, <2>5, RiskKept
    <2>6. CASE current[r] \notin Events
      <3>1. AtRisk' \subseteq AtRisk
        BY <2>4, <2>6 DEF AtRisk, Pending
      <3> QED
        BY <1>k, <2>1, <3>1
    <2> QED
      BY <2>5, <2>6
  <1>7. ASSUME NEW r \in Relays, CleanUp(r) PROVE RepeatInv'
    <2>1. UNCHANGED <<log, faults>> /\ pc[r] = "batch"
      BY <1>7 DEF CleanUp
    <2>2. Published' = Published /\ Pending' \subseteq Pending
      BY <1>7, <2>1, PublishedSame DEF CleanUp, Pending
    <2>3. AtRisk' \subseteq AtRisk
      BY <2>1, <2>2 DEF AtRisk, SingleRelay
    <2> QED
      BY <1>k, <2>1, <2>3
  <1>8. CASE UNCHANGED vars
    BY <1>k, <1>8, PublishedSame DEF vars, table, relay, AtRisk, Pending
  <1> QED
    BY <1>1, <1>2, <1>3, <1>4, <1>5, <1>6, <1>7, <1>8, PublishRisk
       DEF Next, RelayStep, Fault

\* With one relay a message is published more often than once only after that
\* many crashes, lost confirms and failed updates: for any number of events
\* and producers.
THEOREM RepeatsAreBounded == ASSUME SingleRelay PROVE Spec => []RepeatsNeedFaults
  <1>1. Init => RepeatInv
    <2> SUFFICES ASSUME Init PROVE RepeatInv
      OBVIOUS
    <2>1. Published = {} /\ AtRisk = {} /\ Len(log) = 0 /\ faults = 0
      BY DEF Init, Published, AtRisk
    <2> QED
      BY <2>1, FS_EmptySet DEF RepeatInv, Repeats
  <1>2. FullInv /\ FullInv' /\ RepeatInv /\ [Next]_vars => RepeatInv'
    BY RepeatStep DEF FullInv
  <1>3. FullInv /\ RepeatInv => RepeatsNeedFaults
    <2> SUFFICES ASSUME TypeInv, RepeatInv PROVE RepeatsNeedFaults
      BY DEF FullInv
    <2>1. /\ Cardinality(AtRisk) \in Nat /\ Cardinality(Published) \in Nat
          /\ Len(log) \in Nat /\ faults \in Nat
      BY RiskIsFinite
    <2> QED
      BY <2>1 DEF RepeatInv, RepeatsNeedFaults, Repeats
  <1> QED
    BY <1>1, <1>2, <1>3, FullInvariance, PTL DEF Spec
-----------------------------------------------------------------------------
(***************************************************************************)
(* Why one producer and one relay keep the order.  An event is committed   *)
(* after every event that is older than it, so what is pending is never    *)
(* older than what was published, nor than what the relay has in hand.     *)
(***************************************************************************)
SingleProducer == \A p, q \in Producers : p = q

InHand(r, e) == pc[r] \in {"sent", "failed"} /\ current[r] = e

\* created_at follows the commits.
CommitOrder ==
    /\ \A e \in Events : status[e] # "absent" => createdAt[e] < clock
    /\ \A p \in Producers : open[p] # NoEvent =>
          /\ createdAt[open[p]] < clock
          /\ \A e \in Events : status[e] # "absent" => createdAt[e] <= createdAt[open[p]]

\* The relay takes the pending events from the oldest on.
RelayOrder ==
    /\ \A e \in Pending, f \in Published : createdAt[f] <= createdAt[e]
    /\ \A r \in Relays :
          /\ \A e \in batch[r], f \in Pending \ batch[r] :
                InHand(r, f) \/ createdAt[e] <= createdAt[f]
          /\ \A e, f \in Pending : InHand(r, e) => createdAt[e] <= createdAt[f]

OrderInv == CommitOrder /\ RelayOrder /\ PublishedInOrder

LEMMA CommitOrderStep ==
    ASSUME SingleProducer, FullInv, CommitOrder, [Next]_vars
    PROVE  CommitOrder'
  <1>0. TypeInv /\ SoundInv /\ ProducerInv /\ RelayInv
    BY DEF FullInv
  <1>t. /\ createdAt \in [Events -> Nat] /\ clock \in Nat
        /\ status \in [Events -> Statuses]
        /\ \A p \in Producers : open[p] # NoEvent => open[p] \in Events
    BY <1>0 DEF TypeInv, TypeOK
  <1>k. ASSUME UNCHANGED <<createdAt, clock, open>>,
               \A e \in Events : status[e] = "absent" => status'[e] = "absent"
        PROVE  CommitOrder'
    BY <1>k DEF CommitOrder
  <1>1. ASSUME NEW p \in Producers, NEW e \in Events, AddEvent(p, e) PROVE CommitOrder'
    <2>1. /\ status[e] = "absent" /\ UNCHANGED status
          /\ createdAt' = [createdAt EXCEPT ![e] = clock] /\ clock' = clock + 1
          /\ open' = [open EXCEPT ![p] = e]
          /\ \A q \in Producers : open[q] # e
      BY <1>1 DEF AddEvent, Unused
    <2>2. open \in [Producers -> Events \cup {NoEvent}]
      BY <1>0 DEF TypeInv, TypeOK
    <2>3. \A f \in Events : /\ f # e => createdAt'[f] = createdAt[f]
                            /\ createdAt'[e] = clock
      BY <1>t, <2>1
    <2>4. \A f \in Events : status'[f] # "absent" =>
              f # e /\ createdAt'[f] < clock /\ createdAt'[f] < clock'
      BY <1>t, <2>1, <2>3 DEF CommitOrder
    <2>5. \A q \in Producers : q = p
      BY DEF SingleProducer
    <2>6. open'[p] = e
      BY <2>1, <2>2
    <2> QED
      BY <1>t, <2>1, <2>3, <2>4, <2>5, <2>6 DEF CommitOrder
  <1>2. ASSUME NEW p \in Producers, CommitEvent(p) PROVE CommitOrder'
    <2>1. /\ open[p] \in Events /\ UNCHANGED <<createdAt, clock>>
          /\ status' = [status EXCEPT ![open[p]] = "PENDING"]
          /\ open' = [open EXCEPT ![p] = NoEvent]
      BY <1>t, <1>2 DEF CommitEvent
    <2>2. \A q \in Producers : open'[q] = NoEvent
      BY <1>0, <2>1 DEF SingleProducer, TypeInv, TypeOK
    <2>3. createdAt[open[p]] < clock
      BY <1>2 DEF CommitEvent, CommitOrder
    <2> QED
      BY <1>t, <2>1, <2>2, <2>3 DEF CommitOrder
  <1>3. ASSUME NEW p \in Producers, RollBackEvent(p) PROVE CommitOrder'
    <2>1. /\ UNCHANGED <<createdAt, clock, status>>
          /\ open' = [open EXCEPT ![p] = NoEvent]
      BY <1>3 DEF RollBackEvent, table
    <2> QED
      BY <1>0, <2>1 DEF CommitOrder, TypeInv, TypeOK
  <1>4. ASSUME NEW e \in Events, Age(e) PROVE CommitOrder'
    BY <1>4, <1>k DEF Age, producer
  <1>5. ASSUME NEW r \in Relays, Fetch(r) \/ Crash(r) PROVE CommitOrder'
    BY <1>5, <1>k DEF Fetch, Crash, producer, table
  <1>6. ASSUME NEW r \in Relays, NEW e \in Events,
               Publish(r, e) \/ PublishRefused(r, e) \/ PublishUnconfirmed(r, e)
        PROVE  CommitOrder'
    BY <1>6, <1>k DEF Publish, PublishRefused, PublishUnconfirmed, TakeNext, producer, table
  <1>7. ASSUME NEW r \in Relays, MarkSent(r) \/ MarkFailed(r) \/ RecordFails(r)
        PROVE  CommitOrder'
    <2>1. /\ UNCHANGED <<createdAt, producer>>
          /\ current[r] \in Events /\ status[current[r]] # "absent"
          /\ \/ UNCHANGED status
             \/ \E outcome \in {"SENT", "FAILED"} :
                   status' = [status EXCEPT ![current[r]] = outcome]
      BY <1>0, <1>7, RecordEffect DEF SoundInv, Committed
    <2>2. \A e \in Events : status[e] = "absent" => status'[e] = "absent"
      BY <1>t, <2>1
    <2> QED
      BY <1>k, <2>1, <2>2 DEF producer
  <1>8. ASSUME NEW r \in Relays, CleanUp(r) PROVE CommitOrder'
    BY <1>8, <1>k DEF CleanUp, producer
  <1>9. CASE UNCHANGED vars
    BY <1>9, <1>k DEF vars, table, producer
  <1> QED
    BY <1>1, <1>2, <1>3, <1>4, <1>5, <1>6, <1>7, <1>8, <1>9
       DEF Next, Produce, RelayStep, Fault

\* What is pending changes only by a commit, or by an event leaving.
LEMMA RelayOrderKept ==
    ASSUME RelayOrder, Pending' \subseteq Pending, Published' = Published,
           \A e \in Pending \cup Published : createdAt'[e] = createdAt[e],
           \A r \in Relays :
              /\ batch'[r] \subseteq batch[r] /\ batch[r] \subseteq Pending
              /\ \A f \in Pending' : f \in batch[r] => f \in batch'[r] \/ batch'[r] = {}
              /\ \A f \in Pending' : /\ InHand(r, f)' => InHand(r, f)
                                     /\ InHand(r, f) => InHand(r, f)' \/ batch'[r] = {}
    PROVE  RelayOrder'
  BY DEF RelayOrder

\* The three ways to take the next event, and what is known of it.
LEMMA TakenEvent ==
    ASSUME FullInv, RelayOrder, NEW r \in Relays, NEW e \in Events,
           Publish(r, e) \/ PublishRefused(r, e) \/ PublishUnconfirmed(r, e)
    PROVE  /\ e \in batch[r] /\ e \in Pending /\ batch[r] \subseteq Pending
           /\ UNCHANGED <<status, createdAt>>
           /\ \A f \in Pending : createdAt[e] <= createdAt[f]
           /\ batch' = [batch EXCEPT ![r] = @ \ {e}]
           /\ current' = [current EXCEPT ![r] = e]
           /\ pc[r] = "batch" /\ pc'[r] \in {"sent", "failed"}
  <1>1. TypeInv /\ RelayInv
    BY DEF FullInv
  <1>2. /\ IsNext(r, e) /\ pc[r] = "batch"
        /\ batch' = [batch EXCEPT ![r] = @ \ {e}]
        /\ current' = [current EXCEPT ![r] = e]
        /\ pc'[r] \in {"sent", "failed"}
        /\ UNCHANGED <<status, createdAt>>
    BY <1>1 DEF Publish, PublishRefused, PublishUnconfirmed, TakeNext, table, TypeInv, TypeOK
  <1>3. e \in batch[r] /\ batch[r] \subseteq Pending
    BY <1>1, <1>2 DEF IsNext, RelayInv
  <1>4. \A f \in Pending : createdAt[e] <= createdAt[f]
    <2>1. \A f \in batch[r] : createdAt[e] <= createdAt[f]
      BY <1>2 DEF IsNext
    <2>2. \A f \in Pending \ batch[r] : createdAt[e] <= createdAt[f]
      BY <1>2, <1>3 DEF RelayOrder, InHand
    <2> QED
      BY <2>1, <2>2
  <1> QED
    BY <1>2, <1>3, <1>4

LEMMA RelayOrderStep ==
    ASSUME SingleRelay, FullInv, CommitOrder, RelayOrder, [Next]_vars
    PROVE  RelayOrder'
  <1>0. TypeInv /\ SoundInv /\ ProducerInv /\ RelayInv
    BY DEF FullInv
  <1>t. /\ createdAt \in [Events -> Nat] /\ clock \in Nat
        /\ status \in [Events -> Statuses] /\ Published \subseteq Events
        /\ \A p \in Producers : open[p] # NoEvent => open[p] \in Events
        /\ \A r \in Relays : batch[r] \subseteq Pending
    BY <1>0, PublishedType DEF TypeInv, TypeOK, RelayInv
  <1>p. Pending \subseteq Events /\ \A e \in Published : status[e] # "absent"
    BY <1>0, PublishedType DEF Pending, SoundInv, OutboxSound
  <1>k. ASSUME UNCHANGED <<status, createdAt, log, relay>> PROVE RelayOrder'
    <2>1. Pending' = Pending /\ Published' = Published
      BY <1>k, PublishedSame DEF Pending
    <2> QED
      BY <1>k, <2>1 DEF RelayOrder, InHand, relay
  <1>1. ASSUME NEW p \in Producers, NEW e \in Events, AddEvent(p, e) PROVE RelayOrder'
    <2>1. /\ status[e] = "absent" /\ UNCHANGED <<status, log, relay>>
          /\ createdAt' = [createdAt EXCEPT ![e] = clock]
      BY <1>1 DEF AddEvent, Unused
    <2>2. Pending' = Pending /\ Published' = Published
      BY <2>1, PublishedSame DEF Pending
    <2>3. \A f \in Pending \cup Published : createdAt'[f] = createdAt[f]
      BY <1>t, <1>p, <2>1 DEF Pending
    <2> QED
      BY <1>t, <2>1, <2>2, <2>3, RelayOrderKept DEF relay, InHand
  <1>2. ASSUME NEW p \in Producers, CommitEvent(p) PROVE RelayOrder'
    <2> DEFINE n == open[p]
    <2>1. /\ n \in Events /\ UNCHANGED <<createdAt, log, relay>>
          /\ status' = [status EXCEPT ![n] = "PENDING"]
      BY <1>t, <1>2 DEF CommitEvent
    <2>2. Published' = Published /\ Pending' = Pending \cup {n}
      BY <1>t, <2>1, PublishedSame DEF Pending
    <2>3. \A e \in Events : status[e] # "absent" => createdAt[e] <= createdAt[n]
      BY <1>2 DEF CommitEvent, CommitOrder
    <2>4. \A e \in Pending \cup Published : createdAt[e] <= createdAt[n]
      <3>1. \A e \in Pending \cup Published : e \in Events /\ status[e] # "absent"
        BY <1>t, <1>p DEF Pending
      <3> HIDE DEF n
      <3> QED BY <2>3, <3>1
    <2>5. status[n] = "absent"
      BY <1>0, <1>2 DEF CommitEvent, ProducerInv
    <2>6. \A r \in Relays : n \notin batch[r] /\ ~InHand(r, n)
      BY <1>0, <1>t, <2>5 DEF InHand, RelayInv, Pending
    <2>7. \A r \in Relays : batch'[r] = batch[r] /\ \A f \in Events : InHand(r, f)' <=> InHand(r, f)
      BY <2>1 DEF relay, InHand
    <2> HIDE DEF n
    <2>8. createdAt[n] <= createdAt[n]
      BY <1>t, <2>1
    <2>9. \A e \in Pending', f \in Published' : createdAt'[f] <= createdAt'[e]
      BY <2>1, <2>2, <2>4 DEF RelayOrder
    <2>10. ASSUME NEW r \in Relays, NEW e \in batch'[r], NEW f \in Pending' \ batch'[r]
           PROVE  InHand(r, f)' \/ createdAt'[e] <= createdAt'[f]
      <3>1. e \in batch[r] /\ e \in Pending
        BY <1>t, <2>7, <2>10
      <3>2. CASE f = n
        BY <2>1, <2>4, <3>1, <3>2
      <3>3. CASE f # n
        BY <1>p, <2>1, <2>2, <2>7, <2>10, <3>1, <3>3 DEF RelayOrder
      <3> QED
        BY <3>2, <3>3
    <2>11. ASSUME NEW r \in Relays, NEW e \in Pending', NEW f \in Pending', InHand(r, e)'
           PROVE  createdAt'[e] <= createdAt'[f]
      <3>1. e \in Events /\ InHand(r, e) /\ e # n /\ e \in Pending
        BY <1>p, <2>1, <2>2, <2>6, <2>7, <2>11
      <3>2. CASE f = n
        BY <2>1, <2>4, <3>1, <3>2
      <3>3. CASE f # n
        BY <2>1, <2>2, <3>1, <3>3 DEF RelayOrder
      <3> QED
        BY <3>2, <3>3
    <2> QED
      BY <2>9, <2>10, <2>11 DEF RelayOrder
  <1>3. ASSUME NEW p \in Producers, RollBackEvent(p) PROVE RelayOrder'
    BY <1>3, <1>k DEF RollBackEvent, table
  <1>4. ASSUME NEW e \in Events, Age(e) PROVE RelayOrder'
    BY <1>4, <1>k DEF Age
  <1>5. ASSUME NEW r \in Relays, Fetch(r) PROVE RelayOrder'
    <2>1. PICK b \in SUBSET Pending : OldestPending(b) /\ batch' = [batch EXCEPT ![r] = b]
      BY <1>5 DEF Fetch
    <2>2. /\ UNCHANGED <<status, createdAt, log, current>>
          /\ pc' = [pc EXCEPT ![r] = "batch"]
      BY <1>5 DEF Fetch, table
    <2>3. Pending' = Pending /\ Published' = Published
      BY <2>2, PublishedSame DEF Pending
    <2>4. batch'[r] = b /\ pc'[r] = "batch" /\ \A q \in Relays : q = r
      BY <1>0, <2>1, <2>2 DEF TypeInv, TypeOK, SingleRelay
    <2>5. \A e \in b, f \in Pending \ b : createdAt[e] <= createdAt[f]
      BY <2>1 DEF OldestPending
    <2> QED
      BY <2>2, <2>3, <2>4, <2>5 DEF RelayOrder, InHand
  <1>6. ASSUME NEW r \in Relays, NEW e \in Events,
               Publish(r, e) \/ PublishRefused(r, e) \/ PublishUnconfirmed(r, e)
        PROVE  RelayOrder'
    <2>1. /\ e \in batch[r] /\ e \in Pending /\ batch[r] \subseteq Pending
          /\ UNCHANGED <<status, createdAt>>
          /\ \A f \in Pending : createdAt[e] <= createdAt[f]
          /\ batch' = [batch EXCEPT ![r] = @ \ {e}]
          /\ current' = [current EXCEPT ![r] = e]
          /\ pc[r] = "batch" /\ pc'[r] \in {"sent", "failed"}
      BY <1>6, TakenEvent
    <2>2. Pending' = Pending /\ Published' \subseteq Published \cup {e}
      BY <1>0, <1>6, <2>1, PublishEffect DEF Pending
    <2>3. batch'[r] = batch[r] \ {e} /\ current'[r] = e /\ \A q \in Relays : q = r
      BY <1>0, <2>1 DEF TypeInv, TypeOK, SingleRelay
    <2>4. \A f \in Pending, g \in Published' : createdAt'[g] <= createdAt'[f]
      BY <2>1, <2>2 DEF RelayOrder
    <2>5. \A d \in batch[r], f \in Pending \ batch[r] : createdAt[d] <= createdAt[f]
      BY <2>1 DEF RelayOrder, InHand
    <2>6. \A f \in Pending : InHand(r, f)' <=> f = e
      BY <2>1, <2>3 DEF InHand
    <2> QED
      BY <2>1, <2>2, <2>3, <2>4, <2>5, <2>6 DEF RelayOrder
  <1>7. ASSUME NEW r \in Relays, MarkSent(r) \/ MarkFailed(r) PROVE RelayOrder'
    <2>1. /\ UNCHANGED <<log, createdAt, batch>> /\ current[r] \in Pending
          /\ pc'[r] = "batch"
          /\ \E outcome \in {"SENT", "FAILED"} :
                status' = [status EXCEPT ![current[r]] = outcome]
      BY <1>0, <1>7 DEF MarkSent, MarkFailed, BackToBatch, Record, RelayInv, Pending,
                        TypeInv, TypeOK
    <2>2. Published' = Published /\ Pending' \subseteq Pending \ {current[r]}
      BY <1>t, <2>1, PublishedSame DEF Pending
    <2>3. \A f \in Pending' : ~InHand(r, f) /\ ~InHand(r, f)'
      BY <2>1, <2>2 DEF InHand
    <2> QED
      BY <1>t, <2>1, <2>2, <2>3, RelayOrderKept DEF SingleRelay
  <1>8. ASSUME NEW r \in Relays, RecordFails(r) \/ Crash(r) \/ CleanUp(r) PROVE RelayOrder'
    <2>1. /\ UNCHANGED <<log, createdAt>> /\ batch'[r] = {} /\ pc'[r] = "idle"
      BY <1>0, <1>8 DEF RecordFails, Crash, CleanUp, StopIteration, table, TypeInv, TypeOK
    <2>2. Pending' \subseteq Pending
      <3>1. CASE Crash(r) \/ CleanUp(r)
        BY <3>1 DEF Crash, CleanUp, table, Pending
      <3>2. CASE RecordFails(r)
        <4>1. /\ current[r] \in Events
              /\ \/ UNCHANGED status
                 \/ \E outcome \in {"SENT", "FAILED"} :
                       status' = [status EXCEPT ![current[r]] = outcome]
          BY <1>0, <3>2, RecordEffect
        <4> QED
          BY <1>t, <4>1 DEF Pending
      <3> QED
        BY <1>8, <3>1, <3>2
    <2>3. Published' = Published
      BY <2>1, PublishedSame
    <2> QED
      BY <1>t, <2>1, <2>2, <2>3, RelayOrderKept DEF SingleRelay, InHand
  <1>9. CASE UNCHANGED vars
    BY <1>9, <1>k DEF vars, table
  <1> QED
    BY <1>1, <1>2, <1>3, <1>4, <1>5, <1>6, <1>7, <1>8, <1>9
       DEF Next, Produce, RelayStep, Fault

\* A message is appended behind those that are not younger.
LEMMA PublishedOrderStep ==
    ASSUME FullInv, OrderInv, [Next]_vars
    PROVE  PublishedInOrder'
  <1>0. TypeInv /\ SoundInv
    BY DEF FullInv
  <1>t. /\ createdAt \in [Events -> Nat]
        /\ log \in Seq(Messages) /\ DOMAIN log = 1..Len(log) /\ Len(log) \in Nat
    BY <1>0 DEF TypeInv, TypeOK, Messages
  <1>l. \A i \in DOMAIN log : log[i].event \in Published
    <2>1. \A i \in DOMAIN log : log[i] \in Messages
      BY <1>t
    <2>2. \A i \in DOMAIN log : log[i].event \in Events
      BY <2>1 DEF Messages
    <2> QED
      BY <2>2 DEF Published
  <1>1. CASE UNCHANGED log
    <2>1. \A e \in Published : createdAt'[e] = createdAt[e]
      <3>1. ASSUME NEW p \in Producers, NEW e \in Events, AddEvent(p, e)
            PROVE  \A f \in Published : createdAt'[f] = createdAt[f]
        <4>1. status[e] = "absent" /\ createdAt' = [createdAt EXCEPT ![e] = clock]
          BY <3>1 DEF AddEvent, Unused
        <4>2. e \notin Published
          BY <1>0, <4>1 DEF SoundInv, OutboxSound
        <4> QED
          BY <1>t, <4>1, <4>2, PublishedType
      <3>2. ASSUME UNCHANGED createdAt
            PROVE  \A f \in Published : createdAt'[f] = createdAt[f]
        BY <3>2
      <3> QED
        BY <3>1, <3>2
           DEF Next, Produce, CommitEvent, RollBackEvent, Age, RelayStep, Fault, Fetch, Crash,
               Publish, PublishRefused, PublishUnconfirmed, TakeNext, MarkSent, MarkFailed,
               RecordFails, BackToBatch, CleanUp, table, vars
    <2> QED
      BY <1>1, <1>l, <2>1 DEF OrderInv, PublishedInOrder
  <1>2. ASSUME NEW r \in Relays, NEW e \in Events, Publish(r, e) \/ PublishUnconfirmed(r, e)
        PROVE  PublishedInOrder'
    <2>1. log' = Append(log, Message(e))
      BY <1>2 DEF Publish, PublishUnconfirmed
    <2>2. UNCHANGED createdAt /\ e \in Pending
      BY <1>2, TakenEvent DEF OrderInv
    <2>3. Message(e) \in Messages /\ Message(e).event = e
      BY MessageType DEF Message
    <2>4. /\ DOMAIN log' = 1..(Len(log) + 1)
          /\ log'[Len(log) + 1] = Message(e)
          /\ \A i \in 1..Len(log) : log'[i] = log[i]
      BY <1>t, <2>1, <2>3
    <2>5. \A i \in 1..Len(log) : createdAt[log[i].event] <= createdAt[e]
      BY <1>t, <1>l, <2>2 DEF OrderInv, RelayOrder
    <2> SUFFICES ASSUME NEW i \in DOMAIN log', NEW j \in DOMAIN log', i < j
                 PROVE  createdAt'[log'[i].event] <= createdAt'[log'[j].event]
      BY DEF PublishedInOrder
    <2>6. i \in 1..Len(log)
      BY <1>t, <2>4
    <2>7. CASE j \in 1..Len(log)
      BY <1>t, <2>2, <2>4, <2>6, <2>7 DEF OrderInv, PublishedInOrder
    <2>8. CASE j = Len(log) + 1
      BY <2>2, <2>3, <2>4, <2>5, <2>6, <2>8
    <2> QED
      BY <1>t, <2>4, <2>7, <2>8
  <1> QED
    BY <1>1, <1>2
       DEF Next, Produce, AddEvent, CommitEvent, RollBackEvent, Age, RelayStep, Fault, Fetch,
           Crash, PublishRefused, MarkSent, MarkFailed, RecordFails, BackToBatch, CleanUp, vars

\* get_pending_outbox_events orders by creation: with one producer and one relay
\* no consumer sees an older event after a newer one, through any number of
\* crashes, lost confirms and repetitions.
THEOREM MessagesKeepTheOrder ==
    ASSUME SingleProducer, SingleRelay PROVE Spec => []PublishedInOrder
  <1>1. Init => OrderInv
    BY DEF Init, OrderInv, CommitOrder, RelayOrder, PublishedInOrder, Pending, Published, InHand
  <1>2. FullInv /\ OrderInv /\ [Next]_vars => OrderInv'
    BY CommitOrderStep, RelayOrderStep, PublishedOrderStep DEF OrderInv
  <1>3. OrderInv => PublishedInOrder
    BY DEF OrderInv
  <1> QED
    BY <1>1, <1>2, <1>3, FullInvariance, PTL DEF Spec
=============================================================================

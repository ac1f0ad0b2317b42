# A formal model of the SKA Data Lifecycle Manager

TLA+ modules for the Data Lifecycle Manager (DLM) of this repository, TLC
configurations that check them on small instances, and proofs, checked by the
TLA+ proof system, of what holds for every instance. Paths below are relative
to the repository; the Python sources are under `src/ska_dlm/`.

To check a run: `tlc -config MCOutboxRelay.cfg MCOutboxRelay`; to check a proof:
`tlapm OutboxRelay_proofs.tla`. `PROJECT.json` lists the runs, and maps each
definition to the source lines it translates.

## 1. The system

The DLM is a set of Python services over one PostgreSQL database and an rclone
server. The services keep next to nothing in memory. Their state is the
database (`data_item`, `storage`, `migration`, `outbox_events`, ...), the files
on the storage volumes, the job table of rclone and the RabbitMQ exchange.
They write to the database in two ways: some calls go through PostgREST, which
commits each of them, others through a SQLAlchemy session whose transaction is
committed some calls later. No step locks a row and none is atomic across two of
these stores. That is where the hard behaviour lies.

| Component | State | Operations | Correct when |
|---|---|---|---|
| **Phase arithmetic** (`dlm_heuristics/heuristics.py`: `CombineUidPhasesHeuristic`, `IdentifyTargetStorageHeuristic`) | none | phase of a set of copies; volumes suitable for one more | the sum agrees with pairing copies up, is monotone, and a suitable volume does reach the target |
| **Expiry and deletion** (`UidExpiryHeuristic`, `DeleteUidHeuristic`, `delete_data_item_payload`, the engine's loop) | `item_state`, `deleted`, `OID_phase`, `UID_expiration`; payloads; the pass of the engine | scan, check resilience, rclone delete, set state, mark | nothing is marked deleted whose payload is there, no deletion drops an item below its target, whatever can go goes |
| **Phase changes** (`ChangeOidPhase`, `OidPhaseEnforce`, `IncreaseOidPhase`, `DecreaseOidPhase`, `OidExpiry`) | the same columns | make or remove copies until a phase is reached | the phase is reached, not overstated, and no item is lost on the way |
| **Outbox** (`dlm_outbox/`) | `outbox_events`; batch of the relay; the exchange | add event, fetch, publish, mark sent or failed, clean up | every committed event gets an outcome, none that was not committed is published, order, no false SENT |
| **Migration** (`dlm_migration/`) | `data_item` rows of copies, `migration`, rclone jobs | `copy_data_item` and its undo; status poller | READY rows have a payload, no copy is forgotten, a completion is recorded and reported once |
| **Ingest** (`dlm_ingest/`, triggers in `setup/DB/`) | `data_item`, `eb_data_item` | init, register, link to execution blocks | one row per item and volume, no half-registered item |
| **Data item** (`data_item/`) | `data_item` | set state, uri, phase, tags; delete entry | updates are not lost |
| **Storage set-up** (`dlm_storage/`) | `location`, `storage`, `storage_config` | init, rclone configuration | each is there once, also when services start together |
| **Requests** (`dlm_request/`) | none | queries | answers are about READY, existing copies |
| **Database layer** (`dlm_db/`, SQL) | all tables | sessions, PostgREST, triggers | - |
| **CLI, REST plumbing, gateway, charts** | none | argument conversion, authentication, deployment | - |

How they interact: a registration and a copy both create `data_item` rows with
`init_data_item`. The migration poller moves a copy's row to READY, or deletes it.
The heuristics read those rows to decide which payload may go, and remove
payloads by rclone. The poller raises an outbox event in the transaction that
completes a migration, and the relay publishes it.

What is hard here: check-then-act over several calls (resilience check, deletion,
update); a crash between two commits; a job known by a number that rclone
gives again after a restart; a row found by (OID, storage) rather than by its key;
a session whose transaction has failed and is used again; a confirm that is lost;
a batch limit with a backlog behind it. `PROJECT.json` lists these hazards, each
at its line, with the properties that would notice.

## 2. Modules

| Module | Models | Extends |
|---|---|---|
| `Phases` | the phase arithmetic, as operators | - |
| `MCPhases` | a walk over all groups of copies; the reference definition (pairing) | `Phases` |
| `Retention` | table, payloads, volumes, heuristic engines, copies coming and going | `Phases` |
| `MCRetention` | two instances of an item, volumes | `Retention` |
| `PhaseHeuristics` | changing, enforcing and expiring the phase of a whole item | `Retention` |
| `MCPhaseHeuristics` | an item to lower and one to raise | `PhaseHeuristics` |
| `EventDelivery` | abstract: what an outbox promises about an event | - |
| `OutboxRelay` | producers, relays, table, exchange; implements `EventDelivery` | instantiates it |
| `MCOutboxRelay` | events and destinations | `OutboxRelay` |
| `Migration` | copy requests, rclone's jobs, status pollers, `data_item` and `migration` rows | - |
| `MCMigration` | items and storages | `Migration` |
| `StorageSetup` | the start of storage managers: locations, storages, rclone configurations | - |
| `Ingest` | registrations of clients while the managers set their volumes up | `StorageSetup` |
| `MCIngest` | managers, clients, a volume | `Ingest` |
| `*_proofs` | theorems and proofs about the module of that name | it, `TLAPS` |

Definitions introduced by "Seeded bug" are not part of a specification. Each
is a plausible mistake in the definition that follows it. `PROJECT.json` pairs
each with a property which fails when the mistake replaces the definition, so
that no property is listed that could not fail.

### Phases

`Weight`, `Level` and `Combine` are the three lines of `CombineUidPhasesHeuristic`
(1, 2 or 4 per copy, 3 read as 2, at most 4); `Suitable` is the test in the loop
of `IdentifyTargetStorageHeuristic`. A set of copies is counted by `CountIn`.

### Retention

`row`, `deleted`, `expired` and `oidPhase` are the columns of `data_item`;
`payload` is what is on the volumes; `up` the volumes rclone reaches. Everything
about an engine is `pc`, `todo`, `item`, `result`: the pass over the expired rows
(`Scan`, `LoadRow`, `EndPass`) and one execution of `DeleteUidHeuristic`, a step
per external call:

| Action | Code |
|---|---|
| `Scan` | the query of `UidExpiryHeuristic.execute` (`heuristics.py:538-541`): expired and not flagged deleted, in whatever state |
| `LoadRow` | the query of the row; a row that is gone is a failed deletion, and the pass goes on |
| `CheckResilience` | steps 2 to 4: other instances not flagged deleted, their phase, the target |
| `QueryReady` | `delete_data_item_payload` looks for a READY row |
| `Purge` | `rclone_delete`: refuses on a volume that is down or a file that is gone |
| `SetState` | `set_state(DELETED)`, committed by PostgREST |
| `MarkDeleted` | step 6, committed by the session: row, children, phase of the OID |
| `DatabaseFails`, `Crash` | an exception in one call; the end of the process |
| `AnswerLost` | the deletion outlasts the ten seconds `rclone_delete` waits |

`BeginCopy`, `CopyLands`, `CopyReady`, `CopyFailed` stand for the migration service
(module `Migration`) as far as the table and the payloads show it, and `Expire`,
`Extend`, `VolumeDown`, `VolumeUp` for time, users and operators. A copy is made
from a READY row of the item's *name*, as in the code (`NameOf`, `Namesakes`). A container
is a directory: rclone takes everything below it (`RemovedWith`, `Contents`), the code marks
the rows whose column `parents` names it (`Children`). Nothing makes the two agree, for
registration takes over the parent it is given. Step 0 of the heuristic is left out, as the
module explains: it compares a row's volume with itself. `Staying` are the engines (in `Migration`
the pollers) that are not about to be replaced: fairness is for them, any other may stop at any step.

### PhaseHeuristics

The rows, the payloads and the deletion of an instance are those of `Retention`.
What is added is `call`: which heuristic an engine runs, for which OID, towards
which phase, and at which `Stages` it is. A deletion is a call at `"delete"`
whose engine has left `"next"`: `NextInstance` begins it (for a row that is gone it is a
failed deletion already), `DeleteInstance` is any step of it but the last,
`InstanceDeleted` the last.

| Action | Code |
|---|---|
| `CallChange`, `ChangeOidPhase`, `ConcludeChange` | `ChangeOidPhaseHeuristic`: measure, delete until the phase is the one asked for, or raise |
| `CallEnforce`, `OidPhaseEnforce`, `DecreaseList`, `VerifyPhase`, `ConcludeDecrease` | `OidPhaseEnforceHeuristic` and `DecreaseOidPhaseHeuristic` |
| `CallOidExpiry`, `ExpiryList`, `ConcludeExpiry` | `OidExpiryHeuristic`: all instances of all expired OIDs, failures do not stop it |
| `IdentifyTargetStorage`, `CopyDataItem`, `CopyRefused`, `CombineWithCopy` | `IncreaseOidPhaseHeuristic`: a volume, a copy there, the phase recorded with it |
| `HeuristicFails`, `EngineDies`, `CopyGoesOn` | an exception in a query or in the update that concludes a change, the end of the process, the migration service |

`Candidates` are the volumes `IdentifyTargetStorage` may take. A row that does
not exist yet belongs to one volume, so the volume found is the row copied to.

### OutboxRelay

`AddEvent`, `CommitEvent`, `RollBackEvent` are a session that calls
`add_outbox_event`; `created_at` is the time its transaction *began*. `Fetch`
is `get_pending_outbox_events`, `Publish`, `PublishRefused` and `PublishUnconfirmed`
the three outcomes of `_publish_event`, `MarkSent`, `MarkFailed` the update and the
commit, `CleanUp` the deletion of rows sent more than a week ago (`Age`).
`RecordFails` includes that the handler of a failed update works on the same
aborted transaction, raises, and ends the iteration.

### Migration

`Ask`, `InitDataItem`, `RcloneCopy`, `CreateMigrationRecord` are
`_copy_data_item`, `Undo` its `except` clause, `CopierFails` a death anywhere in it.
The request names an OID, its source is a READY row of that item's name (`NameOf`),
which other OIDs may have. A place is an OID on a storage; that two items of one name
may also be given one path there is not modelled.
`RcloneCopyFails` and `CreateMigrationRecordFails` fail before or *after* the call
took effect. rclone is `copying` (what becomes of the bytes), `jobs` and `nextJob`
(what it says about a number). The poller is one step per call:
`QueryJobStatus`, `QueryDataItem`, `SetStateOrDelete` (PostgREST, committed),
`UpdateMigration` (session: migration and outbox event together), with
`broken` for a session whose transaction has failed and `SetStateOfNothing` for a
row that was deleted between the lookup and the update. `QueryJobFails` and
`CallFails` are calls to rclone and PostgREST that fail.

### StorageSetup and Ingest

`locations`, `storages` and `config` are the tables a storage manager fills from
its configuration files at start-up (`lifespan`), `known` what each rclone
server has been given. `at` is the place of a manager in `_setup_location` and
`_setup_storage`; each PostgREST call and each post to an rclone server is a step.
An exception ends the manager (`Down`), its supervisor starts it again
(`Restart`). `InsertConflict` is the UNIQUE column of another manager's row,
`InsertLost` an insert whose answer is lost, `RcloneRefuses` an answer other than 200:
raised by the first `create_rclone_config` of a volume, ignored by the second.

`Ingest` adds the clients: `pc` is the step of `register_data_item`, named (1) to
(7) as in the code, `items` the table, `uid` what `init_data_item` returned. A
registration can end at every step, with or without the effect of the call it was
making (`RegistrationFails`), and the client may call again.

## 3. Runs

| Run | Instance | Shows |
|---|---|---|
| `phases` | up to 5 copies per phase | `CombineIsPairing`: the sum is the pairing rule of the documentation; `NeverBelowACopy`; `CombineIsMonotone`; `IdentifiedVolumeReachesTarget` |
| `retention` | two engines, one of which may stop for good; two instances of an item on one LIQUID volume, one stored and one copied, withdrawn and copied again during the run; one fault | `TombstoneSound`; `OnlyRivalsSpoilDecisions`: between check and act a decision becomes wrong only by a withdrawn copy or the other engine's deletion, and by no step, crash or failed call of the engine itself; `RemovableIsRemoved` (liveness) |
| `outbox` | one producer, one relay, three events, batches of two, two faults | `OutboxSound`, `PublishedInOrder`, `RepeatsNeedFaults`, `SettledStaysSettled`, `DeliversEvents` (refinement), `EveryEventSettles` (liveness) |
| `migration_faults` | two requests, one poller, two items, all kinds of fault, removals | `CompletionAnnouncedOnce` |
| `migration_live` | two pollers, one of which may stop for good; one request at a time, one item with two copies; one failing call, record or commit or a crash of a poller | `ReadyIsReal`, `CopiesAreTracked`, `AnnouncedMeansEnded`; `EveryMigrationStaysComplete` (liveness): a stale answer opens a completed migration again, but not for ever |
| `phase_change` | one engine; an item with two LIQUID instances to lower, one with a GAS instance to raise by a copy on a SOLID volume; one fault; calls in any order | `LoweringStepwiseKeepsGoal`, `DoneMeansGoal`, `OnlyEnforceOverstates`; `ExpirySuccessMeansGone`: an expiry that reports success has left no instance of the OIDs it went through, and reports each it leaves |
| `registration` | two managers, one location and volume, one rclone server; two clients, one item; one fault of any kind | `ServingMeansConfigured`, `OneConfigEach`, `RecordedMeansKnown`, `OneRowEach`, `ReadyHasPath` and the liveness properties `EveryServiceStarts`, `RefusalIsJustified` |

Five further runs end in a counterexample, where the code does not do what the
documentation or a comment says of it:

| Run | Disagreement |
|---|---|
| `retention_copying` | A copy that is only INITIALISED counts as an instance (`heuristics.py:428`). The expired original goes; if the copy then fails, the item is lost. |
| `migration_failed_again` | A second copy to a place that has a READY row is not refused; when its job fails, the poller deletes the first row of that place, which may be the registered one. |
| `migration_restart` | After a restart rclone numbers jobs from one again; the poller takes the outcome of another job and sets a row READY whose copy never arrived. |
| `phase_enforce` | `IncreaseOidPhase` records the phase an item will have while its copy is INITIALISED. The copy fails, the recorded phase stays, and Enforce, which hands the recorded phase on, refuses to repair it at every call. |
| `phase_overshoot` | Lowering stops only when the phase equals the one asked for (223). With an instance on a SOLID volume, the default of `_setup_storage`, the sum skips it and the loop deletes on. |

### Bounds, and why they are enough

* `retention` has the fewest engines and instances that can spoil each other's
  decisions: a row to decide on and one to lose, by the other engine or as a
  copy that fails. Both instances are under different paths of one volume, so that it going
  down refuses them together. One fault puts a crash, a failed call or a late answer between each
  pair of calls. A second crash meets states that one can reach already, because an engine
  restarts with no memory.
* `migration_live` has two copies, for the second completion makes a pass
  outlast the first; one fault puts a crash or a failure between each pair of its
  calls. With it a migration is opened again and reported twice, which the
  properties allow.
* Two faults in `outbox` and `migration_faults` let a retry fail as well; three events
  and batches of two leave one event behind the batch.
* Two items and two requests in `migration_faults` give rclone two jobs to confuse, and give the broken
  session of the poller a second migration to spoil.
* Two instances are the fewest that can be lowered with one remaining, and an item
  with one instance and a free volume the smallest that can be raised. Both
  are in one run so that a failed expiry of one item has another behind it. With it `ExpirySuccessMeansGone` meets failures that are
  followed by successes. The copy is
  on a SOLID volume, as a volume is by default; with it the raised item is one of
  those `LoweringStepwiseKeepsGoal` does not speak of.
* Two managers meet each other between every check and insert, and with one fault one
  of them dies, or loses an answer, at every step. With a second rclone server
  the same properties were checked once (498 150 states); the theorems hold
  for any number of servers. Two clients and one item are the race of step (3) with (4).
* `MaxFaults`, `Items`, `Events`, `Uids`, `BatchSize`, and the sets of managers,
  volumes, clients and names of `Ingest`, of engines and pollers, are all the bounds there are;
  the clock and job numbers are bounded through `Events` and `Uids`.
  The theorems hold without any of these bounds.

Deadlock checking is off for `outbox` and `migration_*`: when all events
have an outcome, or all copies are made, the services find nothing pending and
these systems rightly stop.

### Fairness

Weak fairness of the steps of an engine, relay, poller or request that is running:
each is a sequential loop that sleeps a fixed time and begins again (the
engine every interval, relay and poller every 10 s), and a process that dies is
restarted by its supervisor. Of engines and pollers this is assumed of `Staying` only: while a
rolling update overlaps an old process with a new one, the old one may stop at any step
for good. `Migration` adds weak fairness of the end of a
running rclone job: rclone's transfers have timeouts. `PhaseHeuristics` assumes that
a heuristic that was called runs to its end; nothing in the repository
schedules these heuristics, so `EnforceRepairs` speaks of
items for which Enforce is called again and again. `Ingest` assumes that a manager which
ended is started again and that a registration that was called goes on. Nothing is assumed of
users, expirations, volumes, the broker or faults; the latter are bounded.
`RemovableIsRemoved` therefore says "not removable for ever": an item whose volume
goes up and down may escape each pass, and in the code it may, too.

## 4. Proofs

The theorems hold for all values of the constants that satisfy the modules'
named assumptions, which state what schema and registration establish.

* **`Phases_proofs`**. `CombineIsTotal` (no lookup in the inverse table fails),
  `CombineCopiesMonotone`, `CombineNotBelowACopy`, `IdentifyIsSound`, for all finite
  sets of copies. Argument: the phase depends on the weight only through the steps
  at 2 and 4; the cardinalities grow with the set. Lemma `OneCopyLess`: taking one
  GAS or LIQUID copy from a set leaves a phase at most one step lower.
* **`MCPhases_proofs`**. What the run `phases` checks up to five copies per phase, for
  any number: `WeightedSumIsPairing`, `GroupIsNeverBelowACopy`, `AcceptedVolumeSuffices`,
  `GroupPhaseMonotone`. Argument: a group's cardinality per phase is the walk's count
  (`GroupCounts`), and the rest is arithmetic of `Weight` and halves.
* **`Retention_proofs`**. `TypeCorrect` and `TombstonesAreSound` for any number
  of engines and faults. The invariant adds what an engine knows at each place
  of its pass: from `state` on the payload of `item` is gone and stays gone, because a
  row that is not `absent` or INITIALISED gets no payload. The latter assumes
  `ChildrenInside`: rows that name a container lie in it (a row that
  names one and lies elsewhere is marked deleted with it, while its payload stays). `OnlyRivalsAreToBlame`, with any number of engines, withdrawn copies and
  faults: between check and act no other step lowers what remains of an item, and an
  engine's own mark is outside `Remaining` of its row.
  `LoneEngineKeepsResilience`, `RecordedPhaseIsReal` for one engine
  (`\A e, f \in Engines : e = f`) and `~Withdrawals`, since a withdrawn copy takes an
  instance away after the check; the last also for `Containers = {}`, see below.
  They rest on `CombineCopiesMonotone`: all that others do meanwhile is to add rows.
  `SettledPayloadsAreSafe` is the promise for payloads instead of rows, with one engine,
  `MaxFaults = 0` and `SettledItems` (every instance of an item whose target is above GAS
  is stored and in no container; the other items are free to be copied, withdrawn
  and contained). Then each row not deleted is READY with its payload, but for the
  one the engine has just purged (`Stored`), so what the check counted is what is left.
* **`PhaseHeuristics_proofs`**. Each step of a heuristic is a step of `Retention` or
  leaves rows and payloads alone (`HeuristicSteps`), so the invariants of
  `Retention_proofs` carry over: `PhaseTypeCorrect` and (with `ChildrenInside`)
  `HeuristicsKeepTombstones` for any number of engines and faults, `HeuristicsKeepResilience` for one engine and
  `~Withdrawals`. The other three are for a `PlainWorld`: one engine, no withdrawn
  copies, no containers, one target for the rows of an item. The invariant of the
  loops (`LoopOf`) says what a call still knows between two of its queries: the instances it
  will visit are of its item, they give at least the phase it has `reached`, a lowering by
  Enforce has a row recorded above the goal or instances that reach it, and the
  volume found for a raise still suffices. It needs that the result of a
  check is exactly what will remain (`ExactDecision`), because no loop adds a row during
  a deletion. `OnlyEnforceMayOverstate`: row by row, no step but Enforce's
  measurement records more than the instances give, and that one records the target
  (`RecordRow`). `DoneIsTheGoal` adds that the rows of an item agree on the recorded phase
  but for new ones (`OneRecord`), since Enforce concludes from any row; it
  covers volumes of every phase, PLASMA too, where the code compares names.
  `LoweringStopsInTime` speaks of the items whose instances each are GAS or LIQUID,
  whatever the others are: a loop goes on only above its goal (`LowerOf`), and one
  copy less is then not below it (`OneInstanceLess`). With a SOLID instance that is
  false, see `phase_overshoot`. `ExpiryReportsFailures`, for one engine but with withdrawn
  copies, containers and every fault: an expiry that has not failed has left of an OID no more
  than the instances it has yet to visit (`ExpiryOf`), for it adds no row itself, and a row leaves
  the OID only by a deletion that succeeded or a copy withdrawn.
* **`OutboxRelay_proofs`**. `TypeCorrect` and `OutboxIsSound` for any number of
  relays and producers. The invariant adds that events in a batch are committed and
  that the event of a relay at `sent` is published. With one relay,
  events still in its batch are PENDING (`RelayInv`) and flushed events are `absent`
  (`ProducerInv`). This gives `OutcomesAreFinal` and `RelayImplementsDelivery`,
  the safety refinement of `EventDelivery`: each step of the relay maps to a step of
  the service or to a stutter. `RepeatsAreBounded`: the messages beyond the first of
  each event, plus the published events that are pending again and in no relay's hands
  (`AtRisk`), are at most the faults: only a fault puts an event at risk, and its next
  message uses the risk up. `MessagesKeepTheOrder`, with one producer too: an open
  transaction began after all that is committed (`CommitOrder`), and what is pending
  is not older than anything published (`RelayOrder`).
* **`Migration_proofs`**. `TypeCorrect` for any numbers. `CompletionIsAnnouncedOnce`
  with one poller, under all faults: `RequestInv` (the row
  a request holds has no migration before it records one) and `PassInv` (what a
  poller has yet to do is still open) make the count inductive. `NothingIsAnnouncedEarly`, for
  any number of pollers, if rclone is not restarted: an answer is about the
  migration in hand (`JobsInv`), a job that has ended stays so, and none is started
  for a migration on record (`InHandInv`, `EndedInv`). `ReadyRowsAreReal`,
  for any number of pollers, if nothing is removed and rclone is not restarted:
  `JobsInv` (a number names at most one copy, for ever), `CopiedInv` (a successful job
  has filled its place) and `VerdictInv` (what a poller believes of the job in
  its hands did happen). `NoCopyIsLost` for any number of requests and pollers, if no
  request dies (`"copier" \notin FaultKinds`) and none copies to a place its item has a row
  at (`~Repeated`, and `OnePlaceEach` for the registered rows): each place has one row
  (`PlacesInv`), so that the row a poller
  finds by place is the one its migration is about (`TurnInv`).
* **`StorageSetup_proofs`, `Ingest_proofs`**. `ManagersServeWhatIsSetUp`,
  `ConfigurationsAreRecordedOnce`, `RecordedConfigurationsAreKnown`,
  `RetriesDoNotDuplicate`, `ReadyRowsHavePaths` and `TypeCorrect` for any number of
  managers, entries, rclone servers, clients, items and faults. The invariant of the
  set-up says what a manager at each stage has established (`EntryOK`: at
  `"record"` it has no configuration of its own for the volume, and every server
  was given it) and that each entry it is through with is set up (`DoneOK`).
  Tables and what servers were given only grow (`Grows`), so that a step of one manager
  disturbs no other (`OthersKeep`). A client about to insert has no row there yet,
  one past the insert holds a row, one at `"state"` has given it its path (`ClientOK`).

What stays with TLC is liveness: `RemovableIsRemoved`, `EveryEventSettles`,
`EveryMigrationStaysComplete`, `EveryServiceStarts`, `RefusalIsJustified`. It rests on fairness and `ENABLED`, which the prover does not handle. Every invariant and action
property that a passing run checks is also a theorem. What `LoneEngineKeepsResilience`,
`HeuristicsKeepResilience`, `RecordedPhaseIsReal` and `SettledPayloadsAreSafe` state is proved only:
no run checks it, except that `retention_copying` shows the last to fail without its hypotheses.

## 5. Limits of what is shown

These are cases in which a property does not hold, so that its run or theorem
excludes them by a constant that says so. Two engines and the expiry of OIDs
disagree with the documentation too, though no run ends in them:

* **Two engines** (a rolling update): each may remove the instance the other
  counted, and the item loses both: check and deletion are apart (`heuristics.py:448`, 463).
  `retention` names the step, `RemovalKeepsResilience` holds for one engine.
* **Rows of a container that lie elsewhere** are marked deleted with it
  (492 goes by the column `parents` alone, taken over unseen at registration);
  `TombstoneSound` holds where children are inside. No run has a container: they are
  covered by the theorems.
* **Items of one name** may get each other's payload: the source of a copy is the first READY
  row of the name (`dlm_migration_requests.py:546`), which need not be unique. Every
  run gives each item a name of its own; the theorems allow any names.
* **A container** takes the payloads of its children with it. Their own targets are not
  checked, and the phase recorded for their OIDs stays: `RemovalKeepsResilience`
  speaks of the item in hand and `PhaseNotOverstated` is for rows without containers.
* **A withdrawn copy** (a failed job, `Withdrawals`) may be one the engine has just
  counted: `OnlyRivalsSpoilDecisions` names it, `RemovalKeepsResilience` is without.
* **Two relays** publish a batch twice and may give a SENT event another outcome;
  **two pollers** may re-open a migration for a while, and report it twice
  (`migration_live` shows what still holds). The chart deploys
  one of each by default (`charts/ska-dlm/values.yaml`); nothing in the code enforces
  it, and a rolling update overlaps two for a while.
* **A request that dies** between the insert and the migration record
  (`"copier"`) leaves an INITIALISED row for ever; a **job that rclone forgets**
  before the poll (`"forget"`) leaves its migration open for ever.
  `migration_live` excludes both.
* **A copy removed** while its migration is settled a second time, after a failed
  commit or by a second poller, is set READY again: `ReadyIsReal` is for `Retention = FALSE`.
* **A deletion that outlasts its request**, or a failure just after it, leaves a row
  READY whose payload is gone. Every later pass fails on it, and it counts as an
  instance meanwhile.
* **A crash after `set_state`** leaves a row DELETED but not flagged `deleted`. It is
  no longer READY, so no pass finishes it, and the resilience check goes on counting
  it. For both reasons `PayloadRemovalSafe` is for runs without faults.
* **Items two levels below a deleted container** stay READY for ever: only direct
  children are marked (`heuristics.py:492`), the payload of the others is gone, and the check
  that should notice (388-413) compares the row's volume with itself. No run has one.
* **The destination of an event** is never read: every message goes to the
  default exchange (`relay.py:68`, 141), whatever `relay.py:43-44` says.
* **Enforce counts deleted rows** (`heuristics.py:689`) and may record more than is
  there; `OnlyEnforceOverstates` and `DoneMeansGoal` exempt that.
* **Lowering to GAS** may delete the last instance, for nothing at all counts as GAS.
  With a SOLID instance lowering may overshoot, since it stops only at
  exactly the phase asked for (223): `phase_overshoot`. `LoweringStepwiseKeepsGoal` is
  about the other items.
* **The comparison of phases by name** (`heuristics.py:860`) is modelled
  (`NameOrder`); it matters only with a PLASMA volume, which no run has. There, too,
  a raise that reports success has reached its goal (`DoneIsTheGoal`), because the volume
  was chosen by order, not by name.
* **OID expiry** deletes through `DeleteUidHeuristic` (621), which checks the target, so
  with a target above GAS the last instances of an expired item stay, where
  `docs/src/heuristics/data_item_expiry.rst:3` and 14 say that all go. The call reports
  that as a failure each time, which is what `ExpirySuccessMeansGone` says.
* `phase_change` is for one engine, copies that do not fail, and volumes that stay
  up; `UID_expiration` plays no part in it.
* **Two managers** that start together may each record a configuration of the same
  volume: `storage_config` has no UNIQUE column, and `OneConfigEach` is per manager.
  A replaced rclone server has lost its remotes until a manager starts again
  (`forgotten`).
* **Two clients** may both pass check (3) and both insert: `OneRowEach` is
  per client. A registration that dies after the insert leaves an INITIALISED row that refuses
  the item for ever: `RefusalIsJustified` exempts runs with a fault.
* **Several producers** commit in another order than they began, and an older
  event may be published after a newer one: `PublishedInOrder` is for one producer.

Not modelled: formats, URIs, authentication, the CLI and REST plumbing, the
gateway, charts, benchmark and the read-only queries (no state of their own);
checksums and metadata (data no decision here depends on);
`delete_uids`, `check_storage_capacity`, `perform_phase_transitions` (no caller).

## 6. Plan

Done: `Phases`, `Retention`, `PhaseHeuristics`, `OutboxRelay` over `EventDelivery`,
`Migration`, `StorageSetup`, `Ingest`. Left, in this order:

1. **`Lifecycle`**: `Migration` and `Retention` over one table, so that copies
   withdrawn, revived and removed are the poller's own; abstract specification: an item
   with a set of durable copies never falls below its target.
2. **`ItemTags`** (read, merge, write of tags) and the trigger that links execution
   blocks (`create-eb-data-item-trigger.sql`).

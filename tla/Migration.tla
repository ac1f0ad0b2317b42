------------------------------ MODULE Migration ------------------------------
(***************************************************************************)
(* Copying data items between storages.  A request of the migration API    *)
(* inserts a row for the copy, starts an rclone job and inserts a row in   *)
(* the migration table; a poller asks rclone how the open migrations are   *)
(* doing, sets the state of the copy's row (through PostgREST) and then    *)
(* updates the migration and raises an outbox event (in one transaction of *)
(* its own session).  Every call is a step: other requests, another        *)
(* poller and the retention engine run in between.                         *)
(*                                                                         *)
(* A copy, its data_item row and its migration share an identifier here.   *)
(* The code of the poller knows only the migration's OID and destination.  *)
(***************************************************************************)
EXTENDS Integers, FiniteSets

CONSTANTS
    Uids,           \* rows of data_item that may ever exist
    Originals,      \* those that are registered and READY at the start
    OriginalPlace,  \* their OID and storage
    Oids, Storages,
    NameOf,         \* column item_name, by OID; need not be unique
    Copiers,        \* requests to copy_data_item that run at the same time
    Pollers,        \* running pollers
    Staying,        \* those of them that are not about to be replaced
    Nothing,        \* stands for no row, no place, no storage
    Repeated,       \* may a copy be asked for where the OID has a row already?
    Retention,      \* may the retention engine remove a READY copy?
    FaultKinds,     \* the kinds of faults that may happen
    MaxFaults       \* and how many of them

Places == Oids \X Storages

ASSUME RowsAssumption ==
    /\ IsFiniteSet(Uids)
    /\ Originals \subseteq Uids
    /\ OriginalPlace \in [Originals -> Places]
    /\ Nothing \notin Uids
    /\ Staying \subseteq Pollers

ASSUME FaultsAssumption ==
    /\ FaultKinds \subseteq {"copier", "record", "poller", "call", "commit",
                             "forget", "restart"}
    /\ MaxFaults \in Nat
    /\ Repeated \in BOOLEAN /\ Retention \in BOOLEAN

VARIABLES
    row,        \* item_state of each row; "none" before the insert, "gone"
                \* after the delete
    place,      \* columns oid and storage_id
    payload,    \* places that hold the whole payload
    mig,        \* migration row: "none", "open" or "complete"
    jobId,      \* its column job_id
    announced,  \* outbox events raised that say "complete"
    copying,    \* what really became of the copy's rclone job
    source,     \* the place the job copies from
    jobs,       \* rclone's job table: a job's number and its copy
    nextJob,    \* the number rclone gives the next job
    cpc, new,   \* where each request is, and the row it has made
    at, from,   \* the destination and the source it has looked up
    ppc,        \* where each poller is
    todo,       \* open migrations of its pass it has not reached
    cur,        \* the migration in hand
    verdict,    \* what rclone said of its job
    target,     \* dest_data_item[0]
    broken,     \* the transaction of its session has failed
    faults

items == <<row, place, payload>>
migrations == <<mig, jobId, announced>>
rclone == <<copying, source, jobs, nextJob>>
copier == <<cpc, new, at, from>>
poller == <<ppc, todo, cur, verdict, target, broken>>
vars == <<items, migrations, rclone, copier, poller, faults>>

TypeOK ==
    /\ row \in [Uids -> {"none", "INITIALISED", "READY", "DELETED", "gone"}]
    /\ place \in [Uids -> Places \cup {Nothing}]
    /\ payload \in SUBSET Places
    /\ mig \in [Uids -> {"none", "open", "complete"}]
    /\ jobId \in [Uids -> Nat]
    /\ announced \in [Uids -> Nat]
    /\ copying \in [Uids -> {"none", "running", "success", "failed", "lost"}]
    /\ source \in [Uids -> Places \cup {Nothing}]
    /\ jobs \in SUBSET (Nat \X Uids)
    /\ nextJob \in Nat \ {0}
    /\ cpc \in [Copiers -> {"idle", "init", "launch", "record", "undo"}]
    /\ new \in [Copiers -> Uids \cup {Nothing}]
    /\ at \in [Copiers -> Places \cup {Nothing}]
    /\ from \in [Copiers -> Places \cup {Nothing}]
    /\ ppc \in [Pollers -> {"idle", "pass", "lookup", "settle", "save"}]
    /\ todo \in [Pollers -> SUBSET Uids]
    /\ cur \in [Pollers -> Uids \cup {Nothing}]
    /\ verdict \in [Pollers -> {"running", "success", "failed"}]
    /\ target \in [Pollers -> Uids \cup {Nothing}]
    /\ broken \in [Pollers -> BOOLEAN]
    /\ faults \in 0..MaxFaults

Existing == {u \in Uids : row[u] \notin {"none", "gone"}}
RowsAt(p) == {u \in Existing : place[u] = p}

Init ==
    /\ row = [u \in Uids |-> IF u \in Originals THEN "READY" ELSE "none"]
    /\ place = [u \in Uids |-> IF u \in Originals THEN OriginalPlace[u] ELSE Nothing]
    /\ payload = {OriginalPlace[u] : u \in Originals}
    /\ mig = [u \in Uids |-> "none"]
    /\ jobId = [u \in Uids |-> 0]
    /\ announced = [u \in Uids |-> 0]
    /\ copying = [u \in Uids |-> "none"]
    /\ source = [u \in Uids |-> Nothing]
    /\ jobs = {}
    /\ nextJob = 1
    /\ cpc = [c \in Copiers |-> "idle"]
    /\ new = [c \in Copiers |-> Nothing]
    /\ at = [c \in Copiers |-> Nothing]
    /\ from = [c \in Copiers |-> Nothing]
    /\ ppc = [p \in Pollers |-> "idle"]
    /\ todo = [p \in Pollers |-> {}]
    /\ cur = [p \in Pollers |-> Nothing]
    /\ verdict = [p \in Pollers |-> "running"]
    /\ target = [p \in Pollers |-> Nothing]
    /\ broken = [p \in Pollers |-> FALSE]
    /\ faults = 0

FaultOf(kind) ==
    /\ kind \in FaultKinds
    /\ faults < MaxFaults
    /\ faults' = faults + 1
-----------------------------------------------------------------------------
(***************************************************************************)
(* A request, _copy_data_item.                                             *)
(***************************************************************************)

\* The client asks for a copy of the item o on storage d.  The source is the
\* first of the READY rows with the item's name, of whatever OID; nothing asks
\* whether the destination holds the item already.
Ask(c, o, d) ==
    /\ cpc[c] = "idle"
    /\ Repeated \/ /\ RowsAt(<<o, d>>) = {}
                   /\ \A b \in Copiers : cpc[b] = "init" => at[b] # <<o, d>>
    /\ \E orig \in Existing : place[orig][1] = o
    /\ \E u \in Existing :
          /\ row[u] = "READY"
          /\ NameOf[place[u][1]] = NameOf[o]
          /\ from' = [from EXCEPT ![c] = place[u]]
    /\ at' = [at EXCEPT ![c] = <<o, d>>]
    /\ cpc' = [cpc EXCEPT ![c] = "init"]
    /\ UNCHANGED <<items, migrations, rclone, new, poller, faults>>

\* init_data_item
InitDataItem(c, u) ==
    /\ cpc[c] = "init"
    /\ row[u] = "none"
    /\ row' = [row EXCEPT ![u] = "INITIALISED"]
    /\ place' = [place EXCEPT ![u] = at[c]]
    /\ new' = [new EXCEPT ![c] = u]
    /\ cpc' = [cpc EXCEPT ![c] = "launch"]
    /\ UNCHANGED <<payload, migrations, rclone, at, from, poller, faults>>

\* rclone takes the job of request c and numbers it.
RcloneStarts(c) ==
    /\ jobs' = jobs \cup {<<nextJob, new[c]>>}
    /\ nextJob' = nextJob + 1
    /\ copying' = [copying EXCEPT ![new[c]] = "running"]
    /\ source' = [source EXCEPT ![new[c]] = from[c]]

\* rclone_copy; content["jobid"] is kept for the migration row.
RcloneCopy(c) ==
    /\ cpc[c] = "launch"
    /\ RcloneStarts(c)
    /\ jobId' = [jobId EXCEPT ![new[c]] = nextJob]
    /\ cpc' = [cpc EXCEPT ![c] = "record"]
    /\ UNCHANGED <<items, mig, announced, new, at, from, poller, faults>>

\* rclone refuses, or takes the job and the answer is lost.
RcloneCopyFails(c) ==
    /\ cpc[c] = "launch"
    /\ FaultOf("record")
    /\ RcloneStarts(c) \/ UNCHANGED rclone
    /\ cpc' = [cpc EXCEPT ![c] = "undo"]
    /\ UNCHANGED <<items, migrations, new, at, from, poller>>

Leave(c) ==
    /\ cpc' = [cpc EXCEPT ![c] = "idle"]
    /\ new' = [new EXCEPT ![c] = Nothing]
    /\ at' = [at EXCEPT ![c] = Nothing]
    /\ from' = [from EXCEPT ![c] = Nothing]

\* _create_migration_record, which commits.
CreateMigrationRecord(c) ==
    /\ cpc[c] = "record"
    /\ mig' = [mig EXCEPT ![new[c]] = "open"]
    /\ Leave(c)
    /\ UNCHANGED <<items, jobId, announced, rclone, poller, faults>>

\* The insert or its commit fails; the commit may have reached the database.
CreateMigrationRecordFails(c) ==
    /\ cpc[c] = "record"
    /\ FaultOf("record")
    /\ \/ mig' = [mig EXCEPT ![new[c]] = "open"]
       \/ UNCHANGED mig
    /\ cpc' = [cpc EXCEPT ![c] = "undo"]
    /\ UNCHANGED <<items, jobId, announced, rclone, new, at, from, poller>>

\* The except clause: delete_data_item_entry, then raise.
UndoTo(c, state) ==
    /\ cpc[c] = "undo"
    /\ row' = [row EXCEPT ![new[c]] = state]
    /\ Leave(c)
    /\ UNCHANGED <<place, payload, migrations, rclone, poller, faults>>

\* Seeded bugs: the row stays; the row gets a state nobody knows.
UndoNothing(c) == UndoTo(c, "INITIALISED")
UndoAsFailed(c) == UndoTo(c, "FAILED")

Undo(c) == UndoTo(c, "gone")

\* The process dies, or a call outside the try fails.
CopierFails(c) ==
    /\ cpc[c] # "idle"
    /\ FaultOf("copier")
    /\ Leave(c)
    /\ UNCHANGED <<items, migrations, rclone, poller>>
-----------------------------------------------------------------------------
(***************************************************************************)
(* rclone: its jobs end well or badly, and it forgets them: each some time *)
(* after its end, all of them when it restarts, numbering from one again.  *)
(***************************************************************************)
JobSucceeds(u) ==
    /\ copying[u] = "running"
    /\ source[u] \in payload
    /\ copying' = [copying EXCEPT ![u] = "success"]
    /\ payload' = payload \cup {place[u]}
    /\ UNCHANGED <<row, place, migrations, source, jobs, nextJob, copier, poller, faults>>

JobFails(u) ==
    /\ copying[u] = "running"
    /\ copying' = [copying EXCEPT ![u] = "failed"]
    /\ UNCHANGED <<items, migrations, source, jobs, nextJob, copier, poller, faults>>

JobForgotten(u) ==
    /\ copying[u] # "running"
    /\ \E j \in jobs : j[2] = u
    /\ FaultOf("forget")
    /\ jobs' = {j \in jobs : j[2] # u}
    /\ UNCHANGED <<items, migrations, copying, source, nextJob, copier, poller>>

RcloneRestarts ==
    /\ nextJob # 1
    /\ FaultOf("restart")
    /\ jobs' = {}
    /\ nextJob' = 1
    /\ copying' = [u \in Uids |-> IF copying[u] = "running" THEN "lost" ELSE copying[u]]
    /\ UNCHANGED <<items, migrations, source, copier, poller>>

\* dlm_heuristics removes a copy that has expired (module Retention).
Remove(u) ==
    /\ Retention
    /\ row[u] = "READY"
    /\ row' = [row EXCEPT ![u] = "DELETED"]
    /\ payload' = payload \ {place[u]}
    /\ UNCHANGED <<place, migrations, rclone, copier, poller, faults>>
-----------------------------------------------------------------------------
(***************************************************************************)
(* A pass of a poller, _update_migration_statuses, in a session of its own. *)
(***************************************************************************)
\* Seeded bug: no filter on complete.
OpenOrComplete == {u \in Uids : mig[u] # "none"}

Open == {u \in Uids : mig[u] = "open"}

BeginPass(p) ==
    /\ ppc[p] = "idle"
    /\ Open # {}
    /\ todo' = [todo EXCEPT ![p] = Open]
    /\ ppc' = [ppc EXCEPT ![p] = "pass"]
    /\ UNCHANGED <<items, migrations, rclone, copier, cur, verdict, target, broken, faults>>

\* Done with the migration in hand.
Drop(p) ==
    /\ ppc' = [ppc EXCEPT ![p] = "pass"]
    /\ cur' = [cur EXCEPT ![p] = Nothing]
    /\ target' = [target EXCEPT ![p] = Nothing]
    /\ verdict' = [verdict EXCEPT ![p] = "running"]

\* The copy rclone makes under a number, if it knows the number.
JobsNumbered(n) == {u \in Uids : <<n, u>> \in jobs}

\* job/status.  rclone answers for the job that has the number now.
QueryJobStatus(p, u) ==
    /\ ppc[p] = "pass"
    /\ u \in todo[p]
    /\ \E v \in JobsNumbered(jobId[u]) :
          /\ verdict' = [verdict EXCEPT ![p] = copying[v]]
          /\ ppc' = [ppc EXCEPT ![p] = IF copying[v] = "running" THEN "save" ELSE "lookup"]
    /\ todo' = [todo EXCEPT ![p] = @ \ {u}]
    /\ cur' = [cur EXCEPT ![p] = u]
    /\ UNCHANGED <<items, migrations, rclone, copier, target, broken, faults>>

\* The exception is logged, the migration is left as it is.
Skip(p, u) ==
    /\ ppc[p] = "pass"
    /\ u \in todo[p]
    /\ todo' = [todo EXCEPT ![p] = @ \ {u}]
    /\ UNCHANGED <<items, migrations, rclone, copier, ppc, cur, verdict, target, broken>>

\* rclone knows no such job: the answer has no "group".
QueryJobUnknown(p, u) ==
    /\ JobsNumbered(jobId[u]) = {}
    /\ Skip(p, u)
    /\ UNCHANGED faults

\* rclone cannot be reached.
QueryJobFails(p, u) == FaultOf("call") /\ Skip(p, u)

\* query_data_item(oid, storage_id)[0]: any row of the place, in any state.
QueryDataItem(p) ==
    /\ ppc[p] = "lookup"
    /\ LET rows == RowsAt(place[cur[p]])
       IN \/ /\ rows # {}
             /\ \E t \in rows : target' = [target EXCEPT ![p] = t]
             /\ ppc' = [ppc EXCEPT ![p] = "settle"]
          \/ /\ rows = {}
             /\ ppc' = [ppc EXCEPT ![p] = "save"]
             /\ UNCHANGED target
    /\ UNCHANGED <<items, migrations, rclone, copier, todo, cur, verdict, broken, faults>>

\* Seeded bug: finished is taken for successful.
SettledReady(p) ==
    IF target[p] \in Existing
    THEN row' = [row EXCEPT ![target[p]] = "READY"]
    ELSE UNCHANGED row

\* set_state or delete_data_item_entry takes effect, if the row is still there.
Settled(p) ==
    IF target[p] \in Existing
    THEN row' = [row EXCEPT ![target[p]] =
                    IF verdict[p] = "success" THEN "READY" ELSE "gone"]
    ELSE UNCHANGED row

SetStateOrDelete(p) ==
    /\ ppc[p] = "settle"
    /\ verdict[p] = "success" => target[p] \in Existing
    /\ Settled(p)
    /\ ppc' = [ppc EXCEPT ![p] = "save"]
    /\ UNCHANGED <<place, payload, migrations, rclone, copier, todo, cur, verdict,
                   target, broken, faults>>

\* set_state of a row that is gone: the update returns no rows and [0] raises.
SetStateOfNothing(p) ==
    /\ ppc[p] = "settle"
    /\ verdict[p] = "success"
    /\ target[p] \notin Existing
    /\ Drop(p)
    /\ UNCHANGED <<items, migrations, rclone, copier, todo, broken, faults>>

\* Seeded bug: whatever rclone answers completes a migration.
SavedComplete(p) ==
    /\ mig' = [mig EXCEPT ![cur[p]] = "complete"]
    /\ announced' = [announced EXCEPT ![cur[p]] = @ + 1]
    /\ UNCHANGED jobId

\* The update of the migration and the outbox event, and their commit.
Saved(p) ==
    /\ \/ /\ verdict[p] = "running"
          /\ mig' = [mig EXCEPT ![cur[p]] = "open"]
          /\ UNCHANGED announced
       \/ /\ verdict[p] # "running"
          /\ mig' = [mig EXCEPT ![cur[p]] = "complete"]
          /\ announced' = [announced EXCEPT ![cur[p]] = @ + 1]
    /\ UNCHANGED jobId

UpdateMigration(p) ==
    /\ ppc[p] = "save"
    /\ ~broken[p]
    /\ Saved(p)
    /\ Drop(p)
    /\ UNCHANGED <<items, rclone, copier, todo, broken, faults>>

\* Nothing rolls the session back between migrations: after a failed
\* transaction each later update of the pass raises too.
UpdateOnBrokenSession(p) ==
    /\ ppc[p] = "save"
    /\ broken[p]
    /\ Drop(p)
    /\ UNCHANGED <<items, migrations, rclone, copier, todo, broken, faults>>

\* Seeded bug: one session for all passes.
EndPassSameSession(p) ==
    /\ ppc[p] = "pass"
    /\ todo[p] = {}
    /\ ppc' = [ppc EXCEPT ![p] = "idle"]
    /\ UNCHANGED <<items, migrations, rclone, copier, todo, cur, verdict, target,
                   broken, faults>>

EndPass(p) ==
    /\ ppc[p] = "pass"
    /\ todo[p] = {}
    /\ ppc' = [ppc EXCEPT ![p] = "idle"]
    /\ broken' = [broken EXCEPT ![p] = FALSE]
    /\ UNCHANGED <<items, migrations, rclone, copier, todo, cur, verdict, target, faults>>

\* A call to PostgREST fails, before or after it took effect; the exception is
\* logged and the pass goes on with the next migration.
CallFails(p) ==
    /\ ppc[p] \in {"lookup", "settle"}
    /\ FaultOf("call")
    /\ \/ ppc[p] = "settle" /\ Settled(p)
       \/ UNCHANGED row
    /\ Drop(p)
    /\ UNCHANGED <<place, payload, migrations, rclone, copier, todo, broken>>

\* The update or its commit fails; the commit may have reached the database.
CommitFails(p) ==
    /\ ppc[p] = "save"
    /\ ~broken[p]
    /\ FaultOf("commit")
    /\ Saved(p) \/ UNCHANGED migrations
    /\ broken' = [broken EXCEPT ![p] = TRUE]
    /\ Drop(p)
    /\ UNCHANGED <<items, rclone, copier, todo>>

\* The service dies and is started again.
PollerCrash(p) ==
    /\ ppc[p] # "idle"
    /\ FaultOf("poller")
    /\ ppc' = [ppc EXCEPT ![p] = "idle"]
    /\ todo' = [todo EXCEPT ![p] = {}]
    /\ cur' = [cur EXCEPT ![p] = Nothing]
    /\ target' = [target EXCEPT ![p] = Nothing]
    /\ verdict' = [verdict EXCEPT ![p] = "running"]
    /\ broken' = [broken EXCEPT ![p] = FALSE]
    /\ UNCHANGED <<items, migrations, rclone, copier>>
-----------------------------------------------------------------------------
CopierStep(c) ==
    \/ \E u \in Uids : InitDataItem(c, u)
    \/ RcloneCopy(c) \/ CreateMigrationRecord(c) \/ Undo(c)

CopierFault(c) == RcloneCopyFails(c) \/ CreateMigrationRecordFails(c) \/ CopierFails(c)

PollerStep(p) ==
    \/ BeginPass(p) \/ EndPass(p)
    \/ \E u \in Uids : QueryJobStatus(p, u) \/ QueryJobUnknown(p, u)
    \/ QueryDataItem(p) \/ SetStateOrDelete(p) \/ SetStateOfNothing(p)
    \/ UpdateMigration(p) \/ UpdateOnBrokenSession(p)

PollerFault(p) ==
    \/ \E u \in Uids : QueryJobFails(p, u)
    \/ CallFails(p) \/ CommitFails(p) \/ PollerCrash(p)

JobEnds(u) == JobSucceeds(u) \/ JobFails(u)

RcloneFault == RcloneRestarts \/ \E u \in Uids : JobForgotten(u)

Next ==
    \/ \E c \in Copiers :
          \/ \E o \in Oids, d \in Storages : Ask(c, o, d)
          \/ CopierStep(c) \/ CopierFault(c)
    \/ \E u \in Uids : JobEnds(u) \/ Remove(u)
    \/ RcloneFault
    \/ \E p \in Pollers : PollerStep(p) \/ PollerFault(p)

Spec == Init /\ [][Next]_vars

\* The poll loop never stops, but that of a poller a rolling update replaces may,
\* at any step; requests run on, and rclone's jobs end.
FairSpec ==
    /\ Spec
    /\ \A c \in Copiers : WF_vars(CopierStep(c))
    /\ \A p \in Staying : WF_vars(PollerStep(p))
    /\ \A u \in Uids : WF_vars(JobEnds(u))
-----------------------------------------------------------------------------
(***************************************************************************)
(* Properties.                                                             *)
(***************************************************************************)

\* overview: "query_item_storage, returns a list of all storage volumes
\* containing a copy of a data_item": what it returns are the READY rows.
ReadyIsReal == \A u \in Uids : row[u] = "READY" => place[u] \in payload

\* A copy whose outcome is unknown is in somebody's hands: a request is still
\* at work on it, or the poller will look at its migration.
CopiesAreTracked ==
    \A u \in Uids : row[u] = "INITIALISED" =>
        mig[u] = "open" \/ \E c \in Copiers : new[c] = u

\* The outbox reports the completion of a migration once, in the transaction that
\* records it, whatever fails and is tried again by the one poller.
CompletionAnnouncedOnce ==
    \A u \in Uids : announced[u] = IF mig[u] = "complete" THEN 1 ELSE 0

\* Two pollers, as a rolling update of the service has, may open a completed
\* migration again with an answer of rclone that has become stale.  Still no
\* completion is announced of a job that goes on.
AnnouncedMeansEnded ==
    \A u \in Uids : announced[u] > 0 => copying[u] \in {"success", "failed"}

\* And it does not open a migration for ever: each that is recorded is in the end
\* complete for good, if one poller stays and rclone keeps its jobs.
EveryMigrationStaysComplete ==
    \A u \in Uids : mig[u] = "open" ~> [](mig[u] = "complete")

\* heuristics/data_item_deletion: "Once a data_item is registered with the DLM
\* the database records will be maintained".
RecordsAreMaintained ==
    [][\A u \in Uids : row[u] \in {"READY", "DELETED"} => row'[u] # "gone"]_vars
=============================================================================

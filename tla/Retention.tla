------------------------------ MODULE Retention ------------------------------
(***************************************************************************)
(* Expiry and deletion of data items.  The state is the data_item table    *)
(* (one row per UID), the payloads on the storage volumes, and the         *)
(* heuristic engines that look for expired rows and delete their payloads. *)
(* Every call an engine makes to the database or to rclone is a step of    *)
(* its own, because PostgREST, the engine's own session and rclone each    *)
(* commit separately.  Copies of an item appear and disappear as           *)
(* dlm_migration creates, completes or withdraws them.                     *)
(***************************************************************************)
EXTENDS Phases

CONSTANTS
    Items,          \* UIDs: the rows the data_item table can ever hold
    Registered,     \* those whose payload is stored and registered at start
    NoItem,         \* stands for "no UID"
    Storages,       \* storage volumes
    Engines,        \* running heuristic engine processes
    Staying,        \* those of them that are not about to be replaced
    OidOf,          \* column OID: the item a row is an instance of
    NameOf,         \* column item_name, by OID; need not be unique
    StorageOf,      \* column storage_id
    StoragePhase,   \* column storage_phase of the storage table
    Target,         \* column target_phase
    Parent,         \* column parents: the container a row belongs to, or NoItem
    Containers,     \* rows of item_type container; their payload is a directory
    Contents,       \* rows whose payload lies below that directory
    Withdrawals,    \* FALSE restricts the runs to those where no copy job fails
    MaxFaults       \* bound on engine crashes and failed database calls

\* What the schema and the registration of items establish.
ASSUME RowsAssumption ==
    /\ IsFiniteSet(Items)
    /\ Registered \subseteq Items
    /\ NoItem \notin Items
    /\ OidOf \in [Items -> Items]
    /\ StorageOf \in [Items -> Storages]
    /\ StoragePhase \in [Storages -> Phases]
    /\ Target \in [Items -> Phases]
    /\ Staying \subseteq Engines

\* Registration takes over the parent it is given, unseen: nothing says that
\* the payload of a row lies in the directory of its parent.  _copy_data_item
\* does not pass the parent on to a copy.
ASSUME ContainersAssumption ==
    /\ Containers \subseteq Items
    /\ Parent \in [Items -> Items \cup {NoItem}]
    /\ Contents \in [Items -> SUBSET Items]
    /\ \A u \in Items : Parent[u] # NoItem => u \in Registered

ASSUME FaultsAssumption == Withdrawals \in BOOLEAN /\ MaxFaults \in Nat

VARIABLES
    row,        \* column item_state, or "absent"
    deleted,    \* rows with deleted = TRUE
    expired,    \* rows whose UID_expiration has passed
    oidPhase,   \* column OID_phase
    payload,    \* rows whose payload is on its volume
    up,         \* volumes rclone can reach
    pc,         \* where each engine is in its pass
    todo,       \* UIDs of this pass still to visit
    item,       \* the UID DeleteUidHeuristic is working on
    result,     \* its result_phase
    faults      \* faults so far

table == <<row, deleted, expired, oidPhase>>
world == <<payload, up>>
engine == <<pc, todo, item, result>>
vars == <<table, world, engine, faults>>

RowStates == {"absent", "INITIALISED", "READY", "DELETED"}
Places == {"idle", "next", "check", "query", "purge", "state", "mark"}

TypeOK ==
    /\ row \in [Items -> RowStates]
    /\ deleted \in SUBSET Items
    /\ expired \in SUBSET Items
    /\ oidPhase \in [Items -> Phases]
    /\ payload \in SUBSET Items
    /\ up \in SUBSET Storages
    /\ pc \in [Engines -> Places]
    /\ todo \in [Engines -> SUBSET Items]
    /\ item \in [Engines -> Items \cup {NoItem}]
    /\ result \in [Engines -> Phases]
    /\ faults \in 0..MaxFaults
-----------------------------------------------------------------------------
Rows == {u \in Items : row[u] # "absent"}

\* The phase each row inherits from its volume.
UidPhase == [u \in Items |-> StoragePhase[StorageOf[u]]]

Group(o) == {u \in Rows : OidOf[u] = o}

\* The rows check_item_on_storage looks among for something to copy: those with
\* the item's name, of whatever OID.
Namesakes(o) == {u \in Rows : NameOf[OidOf[u]] = NameOf[o]}

\* The instances of an OID that count: every row not flagged deleted, whatever
\* its item_state.
Live(o) == Group(o) \ deleted

\* The phase a set of instances gives; none at all counts as GAS.
ResultPhase(instances) ==
    IF instances = {} THEN "GAS" ELSE CombineCopies(instances, UidPhase)

Remaining(u) == Live(OidOf[u]) \ {u}

\* rclone deletes the file of an item, or purges the directory of a container.
RemovedWith(u) == IF u \in Containers THEN {u} \cup Contents[u] ELSE {u}

\* The direct children of a container; deeper descendants are not visited.
Children(u) == IF u \in Containers THEN {c \in Rows : Parent[c] = u} ELSE {}
-----------------------------------------------------------------------------
Init ==
    /\ row = [u \in Items |-> IF u \in Registered THEN "READY" ELSE "absent"]
    /\ deleted = {}
    /\ expired = {}
    /\ oidPhase = [u \in Items |-> "GAS"]
    /\ payload = Registered
    /\ up = Storages
    /\ pc = [e \in Engines |-> "idle"]
    /\ todo = [e \in Engines |-> {}]
    /\ item = [e \in Engines |-> NoItem]
    /\ result = [e \in Engines |-> "GAS"]
    /\ faults = 0

(***************************************************************************)
(* The world around the engines.                                           *)
(***************************************************************************)

\* The UID_expiration of a row passes.
Expire(u) ==
    /\ u \in Rows \ expired
    /\ expired' = expired \cup {u}
    /\ UNCHANGED <<row, deleted, oidPhase, world, engine, faults>>

\* A user moves the UID_expiration of a row to a later date.
Extend(u) ==
    /\ u \in expired \cap Rows
    /\ expired' = expired \ {u}
    /\ UNCHANGED <<row, deleted, oidPhase, world, engine, faults>>

\* _copy_data_item: there is a READY row of that name, and the new row takes over
\* the OID and the expiration of the row the request named.
BeginCopy(u, orig) ==
    /\ row[u] = "absent"
    /\ orig \in Group(OidOf[u])
    /\ \E s \in Namesakes(OidOf[u]) : row[s] = "READY"
    /\ row' = [row EXCEPT ![u] = "INITIALISED"]
    /\ expired' = IF orig \in expired THEN expired \cup {u} ELSE expired \ {u}
    /\ oidPhase' = [oidPhase EXCEPT ![u] = "GAS"]
    /\ UNCHANGED <<deleted, world, engine, faults>>

\* rclone can copy only what some row of the name still holds.  (A job reads one
\* of them; which one is dlm_migration's choice and is left open here.)
SourceLeft(o) == \E s \in payload : NameOf[OidOf[s]] = NameOf[o]

CopyLands(u) ==
    /\ row[u] = "INITIALISED"
    /\ u \notin payload
    /\ SourceLeft(OidOf[u])
    /\ payload' = payload \cup {u}
    /\ UNCHANGED <<table, up, engine, faults>>

\* The poller finds the job finished and successful.
CopyReady(u) ==
    /\ row[u] = "INITIALISED"
    /\ u \in payload
    /\ row' = [row EXCEPT ![u] = "READY"]
    /\ UNCHANGED <<deleted, expired, oidPhase, world, engine, faults>>

\* The poller finds the job failed and withdraws the row.
CopyFailed(u) ==
    /\ row[u] = "INITIALISED"
    /\ u \notin payload
    /\ Withdrawals
    /\ row' = [row EXCEPT ![u] = "absent"]
    /\ UNCHANGED <<deleted, expired, oidPhase, world, engine, faults>>

VolumeDown(s) ==
    /\ s \in up
    /\ up' = up \ {s}
    /\ UNCHANGED <<table, payload, engine, faults>>

VolumeUp(s) ==
    /\ s \in Storages \ up
    /\ up' = up \cup {s}
    /\ UNCHANGED <<table, payload, engine, faults>>
-----------------------------------------------------------------------------
(***************************************************************************)
(* UidExpiryHeuristic: one pass over the rows found expired when the pass  *)
(* began, in no fixed order; a failed deletion does not end the pass.      *)
(***************************************************************************)
\* Seeded bug: a pass takes up only the first of the expired rows.
ScanFirst(e) ==
    LET found == (expired \cap Rows) \ deleted
    IN /\ pc[e] = "idle"
       /\ todo' = [todo EXCEPT ![e] = IF found = {} THEN {} ELSE {CHOOSE u \in found : TRUE}]
       /\ pc' = [pc EXCEPT ![e] = "next"]
       /\ UNCHANGED <<table, world, item, result, faults>>

Scan(e) ==
    /\ pc[e] = "idle"
    /\ todo' = [todo EXCEPT ![e] = (expired \cap Rows) \ deleted]
    /\ pc' = [pc EXCEPT ![e] = "next"]
    /\ UNCHANGED <<table, world, item, result, faults>>

EndPass(e) ==
    /\ pc[e] = "next"
    /\ todo[e] = {}
    /\ pc' = [pc EXCEPT ![e] = "idle"]
    /\ UNCHANGED <<table, world, todo, item, result, faults>>

(***************************************************************************)
(* DeleteUidHeuristic.execute.  The storage and item checks of its step 0  *)
(* are left out: the one branch they lead to marks the row without         *)
(* deleting anything when the item's own row says it is on another volume, *)
(* and a row's volume does not change once it is registered.               *)
(***************************************************************************)
LoadRow(e) ==
    /\ pc[e] = "next"
    /\ \E u \in todo[e] :
          /\ todo' = [todo EXCEPT ![e] = @ \ {u}]
          /\ IF u \in Rows
             THEN /\ item' = [item EXCEPT ![e] = u]
                  /\ pc' = [pc EXCEPT ![e] = "check"]
             ELSE UNCHANGED <<item, pc>>
    /\ UNCHANGED <<table, world, result, faults>>

\* Steps 2 to 4: the phase the OID keeps, against the target of the row.
CheckKept(e, kept) ==
    /\ pc[e] = "check"
    /\ IF Below(kept, Target[item[e]])
       THEN /\ pc' = [pc EXCEPT ![e] = "next"]
            /\ UNCHANGED result
       ELSE /\ pc' = [pc EXCEPT ![e] = "query"]
            /\ result' = [result EXCEPT ![e] = kept]
    /\ UNCHANGED <<table, world, todo, item, faults>>

\* Seeded bug: the phase the OID has now.
CheckCurrentPhase(e) == CheckKept(e, ResultPhase(Live(OidOf[item[e]])))

CheckResilience(e) == CheckKept(e, ResultPhase(Remaining(item[e])))

\* Step 5, delete_data_item_payload: only a READY row has a payload to delete.
QueryReady(e) ==
    /\ pc[e] = "query"
    /\ pc' = [pc EXCEPT ![e] = IF row[item[e]] = "READY" THEN "purge" ELSE "next"]
    /\ UNCHANGED <<table, world, todo, item, result, faults>>

\* rclone stats the payload and deletes it; neither works on a volume that is
\* down or for a payload that is not there.
\* Seeded bug: the answer of rclone is not looked at.
PurgeUnchecked(e) ==
    LET u == item[e]
    IN /\ pc[e] = "purge"
       /\ payload' = IF StorageOf[u] \in up THEN payload \ RemovedWith(u) ELSE payload
       /\ pc' = [pc EXCEPT ![e] = "state"]
       /\ UNCHANGED <<table, up, todo, item, result, faults>>

Purge(e) ==
    LET u == item[e]
    IN /\ pc[e] = "purge"
       /\ IF StorageOf[u] \in up /\ u \in payload
          THEN /\ payload' = payload \ RemovedWith(u)
               /\ pc' = [pc EXCEPT ![e] = "state"]
          ELSE /\ pc' = [pc EXCEPT ![e] = "next"]
               /\ UNCHANGED payload
       /\ UNCHANGED <<table, up, todo, item, result, faults>>

\* rclone deletes, but the answer does not come within the ten seconds the
\* request waits: the call raises and the pass goes on with the next UID.  The
\* payload may go a little later; that is taken together with the timeout.
AnswerLost(e) ==
    LET u == item[e]
    IN /\ pc[e] = "purge"
       /\ StorageOf[u] \in up /\ u \in payload
       /\ faults < MaxFaults
       /\ faults' = faults + 1
       /\ payload' = payload \ RemovedWith(u)
       /\ pc' = [pc EXCEPT ![e] = "next"]
       /\ UNCHANGED <<table, up, todo, item, result>>

\* set_state, committed by PostgREST on its own.
\* Seeded bug: the state of a row that has only expired.
SetStateExpired(e) ==
    /\ pc[e] = "state"
    /\ row' = [row EXCEPT ![item[e]] = "EXPIRED"]
    /\ pc' = [pc EXCEPT ![e] = "mark"]
    /\ UNCHANGED <<deleted, expired, oidPhase, world, todo, item, result, faults>>

SetState(e) ==
    /\ pc[e] = "state"
    /\ row' = [row EXCEPT ![item[e]] = "DELETED"]
    /\ pc' = [pc EXCEPT ![e] = "mark"]
    /\ UNCHANGED <<deleted, expired, oidPhase, world, todo, item, result, faults>>

\* Step 6, one transaction: the row, the children of a container, and the
\* OID_phase of every row of the OID.
MarkDeleted(e) ==
    LET u == item[e]
        marked == {u} \cup Children(u)
    IN /\ pc[e] = "mark"
       /\ row' = [v \in Items |-> IF v \in marked THEN "DELETED" ELSE row[v]]
       /\ deleted' = deleted \cup marked
       /\ oidPhase' = [v \in Items |-> IF v \in Group(OidOf[u])
                                       THEN result[e] ELSE oidPhase[v]]
       /\ pc' = [pc EXCEPT ![e] = "next"]
       /\ UNCHANGED <<expired, world, todo, item, result, faults>>

\* A database call raises: the heuristic rolls back, reports the failure and
\* the pass goes on with the next UID.
DatabaseFails(e) ==
    /\ pc[e] \in {"check", "query", "state", "mark"}
    /\ faults < MaxFaults
    /\ faults' = faults + 1
    /\ pc' = [pc EXCEPT ![e] = "next"]
    /\ UNCHANGED <<table, world, todo, item, result>>

\* The process dies and starts again from nothing.
Crash(e) ==
    /\ pc[e] # "idle"
    /\ faults < MaxFaults
    /\ faults' = faults + 1
    /\ pc' = [pc EXCEPT ![e] = "idle"]
    /\ todo' = [todo EXCEPT ![e] = {}]
    /\ item' = [item EXCEPT ![e] = NoItem]
    /\ UNCHANGED <<table, world, result>>
-----------------------------------------------------------------------------
EngineStep(e) ==
    \/ Scan(e) \/ EndPass(e) \/ LoadRow(e) \/ CheckResilience(e)
    \/ QueryReady(e) \/ Purge(e) \/ SetState(e) \/ MarkDeleted(e)

Fault(e) == DatabaseFails(e) \/ AnswerLost(e) \/ Crash(e)

Clock == \E u \in Items : Expire(u) \/ Extend(u)

Copying == \E u \in Items : \/ \E orig \in Items : BeginCopy(u, orig)
                            \/ CopyLands(u) \/ CopyReady(u) \/ CopyFailed(u)

Volumes == \E s \in Storages : VolumeDown(s) \/ VolumeUp(s)

Next == \/ \E e \in Engines : EngineStep(e) \/ Fault(e)
        \/ Clock \/ Copying \/ Volumes

Spec == Init /\ [][Next]_vars

\* An engine never stops polling, but one that a rolling update replaces may, at
\* any step; nothing else is promised to happen.
FairSpec == Spec /\ \A e \in Staying : WF_vars(EngineStep(e))
-----------------------------------------------------------------------------
(***************************************************************************)
(* Properties.                                                             *)
(***************************************************************************)

\* docs/src/heuristics/data_item_deletion.rst: DELETED means that the payload
\* does not exist any more.  A row flagged deleted is in that state, and a row
\* in that state has no payload: neither mark is set before the rclone deletion,
\* whatever crashes, failed calls and other engines come in between.  (Where a
\* row names a container it does not lie in, its payload stays.)
TombstoneSound ==
    \A u \in Items : /\ u \in deleted => row[u] = "DELETED"
                     /\ row[u] = "DELETED" => u \notin payload

\* An engine acts on what DeleteUidHeuristic decided, from the check to the last
\* update.
Deciding == {"query", "purge", "state", "mark"}

\* The rows that remain still give the phase the check found, and that is enough
\* for the target.  GAS asks nothing of them: it is also the phase of an OID
\* that has no instance left.
DecisionStands(e) ==
    /\ Below("GAS", result[e]) => ~Below(ResultPhase(Remaining(item[e])), result[e])
    /\ ~Below(result[e], Target[item[e]])

\* A copy of the item that was counted is withdrawn in this step ...
CopyWithdrawn(o) == \E u \in Items : OidOf[u] = o /\ CopyFailed(u)

\* ... or another engine flags an instance of the item deleted.
MarkedByAnother(e) ==
    \E f \in Engines \ {e} :
        /\ MarkDeleted(f)
        /\ \E u \in {item[f]} \cup Children(item[f]) : OidOf[u] = OidOf[item[e]]

\* Nothing but those two makes a decision wrong while an engine acts on it, for
\* the check and the deletion are separate calls: not the engine's own steps, no
\* crash, no failed call, no new copy, and no deletion of other items.
OnlyRivalsSpoilDecisions ==
    [][\A e \in Engines :
          pc'[e] \in Deciding /\ ~DecisionStands(e)' =>
              /\ pc[e] \in Deciding
              /\ \/ ~DecisionStands(e)
                 \/ CopyWithdrawn(OidOf[item[e]])
                 \/ MarkedByAnother(e)]_vars

\* docs/src/heuristics/data_item_deletion.rst: an engine takes the payload of
\* a UID only when the instances on record that remain satisfy its target.
RemovalKeepsResilience ==
    [][\A e \in Engines :
          /\ pc[e] = "purge" /\ pc'[e] # "purge"
          /\ item[e] \in payload \ payload'
          /\ Below("GAS", Target[item[e]])
          => ~Below(ResultPhase(Remaining(item[e])), Target[item[e]])]_vars

\* The OID_phase a deletion writes is never more than the rows that stay give;
\* GAS is the default of the column.
PhaseNotOverstated ==
    \A u \in Rows :
        Below("GAS", oidPhase[u]) =>
            ~Below(ResultPhase(Live(OidOf[u])), oidPhase[u])

\* The instances whose payload really is there to be read.
Durable(o) == {u \in Live(o) : row[u] = "READY" /\ u \in payload}

\* The same promise, of payloads instead of rows: whenever a payload is taken
\* away, the payloads left of that item satisfy its target.
PayloadRemovalSafe ==
    [][\A u \in payload \ payload' :
          Below("GAS", Target[u]) =>
              ~Below(ResultPhase(Durable(OidOf[u])'), Target[u])]_vars

\* The payload of u could be deleted now.
Removable(u) ==
    /\ u \in expired
    /\ row[u] = "READY"
    /\ u \in payload
    /\ StorageOf[u] \in up
    /\ ~Below(ResultPhase(Remaining(u)), Target[u])

\* No item that stays removable is passed over for ever: failures of other
\* items, crashes and polls that find nothing do not starve it.
RemovableIsRemoved == \A u \in Items : []<>~Removable(u)
=============================================================================

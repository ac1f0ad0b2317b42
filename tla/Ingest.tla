------------------------------- MODULE Ingest -------------------------------
(***************************************************************************)
(* Registration of data items (register_data_item), while the storage      *)
(* managers set the volumes up.  A registration is seven steps, each a     *)
(* PostgREST call that commits on its own; nothing undoes the earlier ones *)
(* when a later one fails.  Clients call again as they like.  The table    *)
(* holds its rows in the order of their insertion, and a UID is a row's    *)
(* position in it.                                                         *)
(***************************************************************************)
EXTENDS StorageSetup, Sequences

CONSTANTS
    Clients,    \* clients, each with one registration at a time
    Names       \* item names

VARIABLES
    items,      \* the data_item table
    pc,         \* where the registration of each client is
    place,      \* the item and volume it is for
    uid         \* the UID init_data_item returned, or 0

registry == <<items, pc, place, uid>>
vars == <<setupVars, registry>>

Places == [name : Names, volume : Volumes]

Rows == [place : Places, owner : Clients, uri : BOOLEAN, state : {"INITIALISED", "READY"}]

Calls == {"storage", "access", "exists", "init", "uri", "state", "metadata"}

IngestTypeOK ==
    /\ SetupTypeOK
    /\ items \in Seq(Rows)
    /\ pc \in [Clients -> {"idle"} \cup Calls]
    /\ place \in [Clients -> Places]
    /\ uid \in [Clients -> 0..Len(items)]

\* query_data_item(item_name, storage_id): rows in any state.
At(p) == {u \in 1..Len(items) : items[u].place = p}

IngestInit ==
    /\ SetupInit
    /\ items = <<>>
    /\ pc = [c \in Clients |-> "idle"]
    /\ \E p \in Places : place = [c \in Clients |-> p]
    /\ uid = [c \in Clients |-> 0]
-----------------------------------------------------------------------------
Continue(c, call) ==
    /\ pc' = [pc EXCEPT ![c] = call]
    /\ UNCHANGED <<place, setupVars>>

Register(c) ==
    /\ pc[c] = "idle"
    /\ \E p \in Places : place' = [place EXCEPT ![c] = p]
    /\ pc' = [pc EXCEPT ![c] = "storage"]
    /\ UNCHANGED <<items, uid, setupVars>>

\* (1) An exception ends the registration; so does its return.  The access
\* check is an option of the call.
QueryStorage(c) ==
    /\ pc[c] = "storage"
    /\ IF place[c].volume \in storages
       THEN Continue(c, "access") \/ Continue(c, "exists")
       ELSE Continue(c, "idle")
    /\ UNCHANGED <<items, uid>>

\* (2) check_storage_access asks one of the servers.  The row and the
\* configuration it looks up do not go away, so it is one step.
CheckAccess(c) ==
    /\ pc[c] = "access"
    /\ \E r \in Servers :
          Continue(c, IF Configured(place[c].volume) /\ place[c].volume \in known[r]
                      THEN "exists" ELSE "idle")
    /\ UNCHANGED <<items, uid>>

\* (3)
\* Seeded bug: only an item that is READY counts as registered.
CheckRegisteredReady(c) ==
    /\ pc[c] = "exists"
    /\ Continue(c, IF \E u \in At(place[c]) : items[u].state = "READY" THEN "idle" ELSE "init")
    /\ UNCHANGED <<items, uid>>

CheckRegistered(c) ==
    /\ pc[c] = "exists"
    /\ Continue(c, IF At(place[c]) # {} THEN "idle" ELSE "init")
    /\ UNCHANGED <<items, uid>>

\* (4) No constraint keeps two rows from having one place.
\* Seeded bugs: the row is inserted READY; the UID returned is not that of the row.
NewRowReady(c) == [place |-> place[c], owner |-> c, uri |-> FALSE, state |-> "READY"]

NewRow(c) == [place |-> place[c], owner |-> c, uri |-> FALSE, state |-> "INITIALISED"]

InitDataItemOther(c) ==
    /\ pc[c] = "init"
    /\ items' = Append(items, NewRow(c))
    /\ uid' = [uid EXCEPT ![c] = Len(items) + 2]
    /\ Continue(c, "uri")

InitDataItem(c) ==
    /\ pc[c] = "init"
    /\ items' = Append(items, NewRow(c))
    /\ uid' = [uid EXCEPT ![c] = Len(items) + 1]
    /\ Continue(c, "uri")

\* (5)
SetUri(c) ==
    /\ pc[c] = "uri"
    /\ items' = [items EXCEPT ![uid[c]].uri = TRUE]
    /\ Continue(c, "state")
    /\ UNCHANGED uid

\* (6)
\* Seeded bug: the state is left to whoever initialised the row.
SetStateNot(c) ==
    /\ pc[c] = "state"
    /\ Continue(c, "metadata")
    /\ UNCHANGED <<items, uid>>

SetState(c) ==
    /\ pc[c] = "state"
    /\ items' = [items EXCEPT ![uid[c]].state = "READY"]
    /\ Continue(c, "metadata")
    /\ UNCHANGED uid

\* (7) The metadata column; no property reads it.
SetMetadata(c) ==
    /\ pc[c] = "metadata"
    /\ Continue(c, "idle")
    /\ uid' = [uid EXCEPT ![c] = 0]
    /\ UNCHANGED items

\* A call raises, without or after its effect, or the process dies.
RegistrationFails(c) ==
    /\ pc[c] \in Calls
    /\ faults < MaxFaults
    /\ faults' = faults + 1
    /\ pc' = [pc EXCEPT ![c] = "idle"]
    /\ uid' = [uid EXCEPT ![c] = 0]
    /\ \/ UNCHANGED items
       \/ pc[c] = "init" /\ items' = Append(items, NewRow(c))
       \/ pc[c] = "uri" /\ items' = [items EXCEPT ![uid[c]].uri = TRUE]
       \/ pc[c] = "state" /\ items' = [items EXCEPT ![uid[c]].state = "READY"]
    /\ UNCHANGED <<place, tables, remotes, service>>
-----------------------------------------------------------------------------
ClientStep(c) ==
    \/ QueryStorage(c) \/ CheckAccess(c) \/ CheckRegistered(c) \/ InitDataItem(c)
    \/ SetUri(c) \/ SetState(c) \/ SetMetadata(c)

IngestNext ==
    \/ \E c \in Clients : Register(c) \/ ClientStep(c) \/ RegistrationFails(c)
    \/ SetupNext /\ UNCHANGED registry

IngestSpec == IngestInit /\ [][IngestNext]_vars

\* Services start and are restarted; a registration that was called goes on.
FairIngestSpec ==
    /\ IngestSpec
    /\ \A s \in Services : WF_vars(ServiceStep(s) /\ UNCHANGED registry)
    /\ \A c \in Clients : WF_vars(ClientStep(c))
-----------------------------------------------------------------------------
(***************************************************************************)
(* Properties.                                                             *)
(***************************************************************************)

\* dlm_ingest_requests.py, register_data_item: a client that calls again after a
\* failure or a lost answer never gets a second row for an item on a volume.
\* Two rows need two clients between check (3) and insert (4) at once.
OneRowEach ==
    \A u, w \in 1..Len(items) :
        u # w => items[u].place # items[w].place \/ items[u].owner # items[w].owner

\* An item is READY, for others to read, copy or delete, only once the path of
\* its payload is set, whatever fails in between and whoever races.
ReadyHasPath == \A u \in 1..Len(items) : items[u].state = "READY" => items[u].uri

\* register_data_item: an item is refused because it is registered; unless some
\* call has failed, a row that stands in the way becomes READY.
RefusalIsJustified ==
    \A p \in Places :
        (At(p) # {}) ~> (faults > 0 \/ \A u \in At(p) : items[u].state = "READY")
=============================================================================

---------------------------- MODULE StorageSetup ----------------------------
(***************************************************************************)
(* What a storage manager does before it serves: it makes sure that every  *)
(* location and volume of its configuration files is in the database, that *)
(* the volume has an rclone configuration on record, and that the rclone   *)
(* servers know it.  Every PostgREST call and every post to an rclone      *)
(* server is a step.  Several managers may start at once (a rolling        *)
(* update); one that fails ends, and is started again from the beginning.  *)
(***************************************************************************)
EXTENDS Naturals, FiniteSets

CONSTANTS
    Services,       \* storage manager processes
    Locations,      \* names in LOCATION_CONFIG
    Volumes,        \* names in STORAGE_CONFIG
    LocationOf,     \* the location each volume names
    Servers,        \* rclone servers (CONFIG.RCLONE)
    MaxFaults       \* bound on crashes, failed calls and replaced servers

ASSUME SetupAssumption ==
    /\ LocationOf \in [Volumes -> Locations]
    /\ Locations \cap Volumes = {}
    /\ Servers # {}
    /\ MaxFaults \in Nat

VARIABLES
    locations,  \* rows of location
    storages,   \* rows of storage
    config,     \* number of rows in storage_config, by volume and inserting service
    known,      \* volumes each rclone server has a remote for
    forgotten,  \* those it had a remote for before it was replaced
    at,         \* where each service is
    todo,       \* entries of the configuration files still to set up
    current,    \* the entry being set up
    unasked,    \* servers create_rclone_config has still to post to
    faults

tables == <<locations, storages, config>>
remotes == <<known, forgotten>>
service == <<at, todo, current, unasked>>
setupVars == <<tables, remotes, service, faults>>

Entries == Locations \cup Volumes
Stages == {"down", "next", "init_location", "insert_location", "locate", "insert_storage",
           "config", "create", "record", "again", "serving"}

SetupTypeOK ==
    /\ locations \in SUBSET Locations
    /\ storages \in SUBSET Volumes
    /\ config \in [Volumes -> [Services -> Nat]]
    /\ known \in [Servers -> SUBSET Volumes]
    /\ forgotten \in [Servers -> SUBSET Volumes]
    /\ at \in [Services -> Stages]
    /\ todo \in [Services -> SUBSET Entries]
    /\ current \in [Services -> Entries]
    /\ unasked \in [Services -> SUBSET Servers]
    /\ faults \in 0..MaxFaults

\* get_storage_config finds something.
Configured(v) == \E s \in Services : config[v][s] > 0

SetupInit ==
    /\ locations = {}
    /\ storages = {}
    /\ config = [v \in Volumes |-> [s \in Services |-> 0]]
    /\ known = [r \in Servers |-> {}]
    /\ forgotten = [r \in Servers |-> {}]
    /\ at = [s \in Services |-> "next"]
    /\ todo = [s \in Services |-> Entries]
    /\ \E x \in Entries : current = [s \in Services |-> x]
    /\ unasked = [s \in Services |-> {}]
    /\ faults = 0
-----------------------------------------------------------------------------
Goto(s, stage) == at' = [at EXCEPT ![s] = stage]

\* An exception during start-up, or a crash: uvicorn ends, and with it the
\* service's own state.
Down(s) ==
    /\ Goto(s, "down")
    /\ todo' = [todo EXCEPT ![s] = Entries]
    /\ unasked' = [unasked EXCEPT ![s] = {}]
    /\ UNCHANGED current

Restart(s) ==
    /\ at[s] = "down"
    /\ Goto(s, "next")
    /\ UNCHANGED <<tables, remotes, todo, current, unasked, faults>>

\* The next entry of the files, locations before volumes.
Take(s, x) ==
    /\ at[s] = "next"
    /\ x \in todo[s]
    /\ todo' = [todo EXCEPT ![s] = @ \ {x}]
    /\ current' = [current EXCEPT ![s] = x]
    /\ UNCHANGED <<tables, remotes, unasked, faults>>

\* Seeded bug: a location is initialised whether it is there or not.
SetupLocationAlways(s) ==
    \E l \in Locations : Take(s, l) /\ Goto(s, "init_location")

SetupLocation(s) ==
    \E l \in Locations :
        Take(s, l) /\ Goto(s, IF l \in locations THEN "next" ELSE "init_location")

\* init_location looks again and raises ValueAlreadyInDB.
InitLocation(s) ==
    /\ at[s] = "init_location"
    /\ IF current[s] \in locations THEN Down(s)
       ELSE Goto(s, "insert_location") /\ UNCHANGED <<todo, current, unasked>>
    /\ UNCHANGED <<tables, remotes, faults>>

SetupStorage(s) ==
    /\ todo[s] \cap Locations = {}
    /\ \E v \in Volumes : Take(s, v) /\ Goto(s, IF v \in storages THEN "config" ELSE "locate")

Locate(s) ==
    /\ at[s] = "locate"
    /\ IF LocationOf[current[s]] \in locations
       THEN Goto(s, "insert_storage") /\ UNCHANGED <<todo, current, unasked>>
       ELSE Down(s)
    /\ UNCHANGED <<tables, remotes, faults>>

\* Seeded bugs: the configuration is recorded before the servers have it; every
\* start records a configuration.
GetConfigRecordFirst(s) ==
    /\ at[s] = "config"
    /\ Goto(s, IF Configured(current[s]) THEN "again" ELSE "record")
    /\ unasked' = [unasked EXCEPT ![s] = Servers]
    /\ UNCHANGED <<tables, remotes, todo, current, faults>>
GetConfigAlways(s) ==
    /\ at[s] = "config"
    /\ Goto(s, "create")
    /\ unasked' = [unasked EXCEPT ![s] = Servers]
    /\ UNCHANGED <<tables, remotes, todo, current, faults>>

GetConfig(s) ==
    /\ at[s] = "config"
    /\ Goto(s, IF Configured(current[s]) THEN "again" ELSE "create")
    /\ unasked' = [unasked EXCEPT ![s] = Servers]
    /\ UNCHANGED <<tables, remotes, todo, current, faults>>

\* create_rclone_config, one server after the other.  It is called before a
\* configuration is recorded, and once more for every volume.
CreateRemote(s) ==
    /\ at[s] \in {"create", "again"}
    /\ \E r \in unasked[s] :
          /\ known' = [known EXCEPT ![r] = @ \cup {current[s]}]
          /\ unasked' = [unasked EXCEPT ![s] = @ \ {r}]
          /\ Goto(s, IF unasked[s] # {r} THEN at[s]
                     ELSE IF at[s] = "create" THEN "record" ELSE "next")
    /\ UNCHANGED <<tables, forgotten, todo, current, faults>>

\* A server answers with an error: the first call raises, the answer of the
\* second is not looked at.  Neither asks the servers that remain.
\* Seeded bug: the manager goes on with the next volume in either case.
RcloneRefusesUnnoticed(s) ==
    /\ at[s] \in {"create", "again"}
    /\ faults < MaxFaults
    /\ faults' = faults + 1
    /\ Goto(s, "next")
    /\ unasked' = [unasked EXCEPT ![s] = {}]
    /\ UNCHANGED <<tables, remotes, todo, current>>

RcloneRefuses(s) ==
    /\ at[s] \in {"create", "again"}
    /\ faults < MaxFaults
    /\ faults' = faults + 1
    /\ IF at[s] = "create" THEN Down(s)
       ELSE /\ Goto(s, "next")
            /\ unasked' = [unasked EXCEPT ![s] = {}]
            /\ UNCHANGED <<todo, current>>
    /\ UNCHANGED <<tables, remotes>>
-----------------------------------------------------------------------------
\* The row of an insert.  Names of locations and storages are UNIQUE,
\* configurations are not.
Row(s) ==
    LET x == current[s]
    IN \/ /\ at[s] = "insert_location" /\ x \notin locations
          /\ locations' = locations \cup {x}
          /\ UNCHANGED <<storages, config>>
       \/ /\ at[s] = "insert_storage" /\ x \notin storages
          /\ storages' = storages \cup {x}
          /\ UNCHANGED <<locations, config>>
       \/ /\ at[s] = "record"
          /\ config' = [config EXCEPT ![x][s] = @ + 1]
          /\ UNCHANGED <<locations, storages>>

After == [insert_location |-> "next", insert_storage |-> "config", record |-> "again"]

Insert(s) ==
    /\ Row(s)
    /\ Goto(s, After[at[s]])
    /\ unasked' = [unasked EXCEPT ![s] = IF at[s] = "record" THEN Servers ELSE {}]
    /\ UNCHANGED <<remotes, todo, current, faults>>

\* The row is inserted and the answer does not arrive.
InsertLost(s) ==
    /\ Row(s)
    /\ faults < MaxFaults
    /\ faults' = faults + 1
    /\ Down(s)
    /\ UNCHANGED remotes

\* Another service was faster: the insert violates UNIQUE.
InsertConflict(s) ==
    /\ \/ at[s] = "insert_location" /\ current[s] \in locations
       \/ at[s] = "insert_storage" /\ current[s] \in storages
    /\ Down(s)
    /\ UNCHANGED <<tables, remotes, faults>>

Serve(s) ==
    /\ at[s] = "next"
    /\ todo[s] = {}
    /\ Goto(s, "serving")
    /\ UNCHANGED <<tables, remotes, todo, current, unasked, faults>>

\* A call raises, or the process is killed.
ServiceDies(s) ==
    /\ at[s] # "down"
    /\ faults < MaxFaults
    /\ faults' = faults + 1
    /\ Down(s)
    /\ UNCHANGED <<tables, remotes>>

\* The container of an rclone server is replaced; its remotes go with it.
RcloneReplaced(r) ==
    /\ known[r] # {}
    /\ faults < MaxFaults
    /\ faults' = faults + 1
    /\ known' = [known EXCEPT ![r] = {}]
    /\ forgotten' = [forgotten EXCEPT ![r] = @ \cup known[r]]
    /\ UNCHANGED <<tables, service>>
-----------------------------------------------------------------------------
ServiceStep(s) ==
    \/ Restart(s) \/ SetupLocation(s) \/ InitLocation(s) \/ SetupStorage(s) \/ Locate(s)
    \/ GetConfig(s) \/ CreateRemote(s) \/ Insert(s) \/ InsertConflict(s) \/ Serve(s)

ServiceFault(s) == RcloneRefuses(s) \/ InsertLost(s) \/ ServiceDies(s)

SetupNext ==
    \/ \E s \in Services : ServiceStep(s) \/ ServiceFault(s)
    \/ \E r \in Servers : RcloneReplaced(r)

SetupSpec == SetupInit /\ [][SetupNext]_setupVars
-----------------------------------------------------------------------------
(***************************************************************************)
(* Properties.                                                             *)
(***************************************************************************)

\* dlm_storage_requests.py, _setup_location and _setup_storage: a manager serves
\* only when every volume of its files has its location, its row and a
\* configuration, whoever inserted them and however many starts it took.
ServingMeansConfigured ==
    \A s \in Services :
        at[s] = "serving" => \A v \in Volumes : /\ LocationOf[v] \in locations
                                                /\ v \in storages
                                                /\ Configured(v)

\* storage_config has no UNIQUE constraint: retries and restarts of one manager
\* never record a volume twice.  Two rows need two managers starting together.
OneConfigEach == \A v \in Volumes, s \in Services : config[v][s] <= 1

\* create_storage_config: a configuration on record is one that every rclone
\* server was given, whichever call failed on the way.  (A server that was
\* replaced has lost it, and only the start of a manager gives it back.)
RecordedMeansKnown ==
    \A v \in Volumes, r \in Servers : Configured(v) => v \in known[r] \cup forgotten[r]

\* Managers that start together and trip over each other's inserts all serve in
\* the end: every one that fails finds more done at its next start.
EveryServiceStarts == \A s \in Services : <>[](at[s] = "serving")
=============================================================================

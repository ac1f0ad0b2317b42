------------------------- MODULE StorageSetup_proofs -------------------------
(***************************************************************************)
(* What holds of the set-up for any number of managers, entries, servers   *)
(* and faults.  The invariant says, for each manager, what the stage it is *)
(* at has established; what one manager establishes no other one undoes.   *)
(***************************************************************************)
EXTENDS StorageSetup, TLAPS

LocationStages == {"init_location", "insert_location"}
VolumeStages == {"locate", "insert_storage", "config", "create", "record", "again"}

\* Servers that have been given volume v, even if they have lost it since.
Given(r) == known[r] \cup forgotten[r]

\* What the stage of manager s says about the entry it works on.
EntryOK(s) ==
    /\ at[s] \in LocationStages => current[s] \in Locations
    /\ at[s] \in VolumeStages => current[s] \in Volumes
    /\ at[s] = "insert_storage" => LocationOf[current[s]] \in locations
    /\ at[s] \in {"config", "create", "record", "again"} => current[s] \in storages
    /\ at[s] \in {"create", "record"} => config[current[s]][s] = 0
    /\ at[s] = "create" => \A r \in Servers \ unasked[s] : current[s] \in Given(r)
    /\ at[s] = "record" => \A r \in Servers : current[s] \in Given(r)
    /\ at[s] = "again" => Configured(current[s])

\* The entries it is through with are set up.
DoneOK(s) ==
    /\ \A l \in Locations \ todo[s] :
          l \in locations \/ (at[s] \in LocationStages /\ current[s] = l)
    /\ \A v \in Volumes \ todo[s] :
          \/ v \in storages /\ Configured(v)
          \/ at[s] \in VolumeStages /\ current[s] = v
    /\ at[s] = "serving" => todo[s] = {}

ServiceOK(s) == EntryOK(s) /\ DoneOK(s)

\* The foreign key of storage.
RowsOK == \A v \in storages : LocationOf[v] \in locations

SetupInv ==
    /\ SetupTypeOK
    /\ RowsOK
    /\ OneConfigEach
    /\ RecordedMeansKnown
    /\ \A s \in Services : ServiceOK(s)
-----------------------------------------------------------------------------
LEMMA SetupInvInit == SetupInit => SetupInv
  BY SetupAssumption
  DEF SetupInit, SetupInv, SetupTypeOK, Stages, Entries, RowsOK, OneConfigEach,
      RecordedMeansKnown, Configured, ServiceOK, EntryOK, DoneOK, LocationStages,
      VolumeStages

\* Nothing that is established is lost.
Grows ==
    /\ locations \subseteq locations'
    /\ storages \subseteq storages'
    /\ \A v \in Volumes : Configured(v) => Configured(v)'
    /\ \A r \in Servers : Given(r) \subseteq Given(r)'

\* Manager t is where it was.
Stays(t) ==
    /\ at'[t] = at[t] /\ todo'[t] = todo[t]
    /\ current'[t] = current[t] /\ unasked'[t] = unasked[t]
    /\ \A v \in Volumes : config'[v][t] = config[v][t]

LEMMA OthersKeep ==
    ASSUME NEW t \in Services, SetupTypeOK, Grows, Stays(t), ServiceOK(t)
    PROVE  ServiceOK(t)'
  <1> USE SetupAssumption
  <1>1. EntryOK(t)'
    <2>1. at[t] \in VolumeStages => current[t] \in Volumes
      BY DEF ServiceOK, EntryOK
    <2> QED
      BY <2>1 DEF ServiceOK, EntryOK, Grows, Stays, SetupTypeOK, VolumeStages, LocationStages
  <1>2. DoneOK(t)'
    BY DEF ServiceOK, DoneOK, Grows, Stays
  <1> QED
    BY <1>1, <1>2 DEF ServiceOK

\* A step of manager s that touches no table and no server.
LEMMA LocalStep ==
    ASSUME SetupInv, SetupTypeOK', NEW s \in Services, UNCHANGED <<tables, remotes>>,
           \A t \in Services \ {s} : Stays(t),
           ServiceOK(s)'
    PROVE  SetupInv'
  <1>1. Grows
    BY DEF Grows, tables, remotes, Configured, Given
  <1>2. \A t \in Services : ServiceOK(t)'
    BY <1>1, OthersKeep DEF SetupInv
  <1>3. (RowsOK /\ OneConfigEach /\ RecordedMeansKnown)'
    BY DEF SetupInv, RowsOK, OneConfigEach, RecordedMeansKnown, Configured, tables, remotes
  <1> QED
    BY <1>2, <1>3 DEF SetupInv

\* A manager that ends, or starts from the beginning, claims nothing.
LEMMA NothingClaimed ==
    ASSUME NEW s \in Services, SetupTypeOK', todo'[s] = Entries,
           at'[s] \in {"down", "next"}
    PROVE  ServiceOK(s)'
  BY DEF ServiceOK, EntryOK, DoneOK, LocationStages, VolumeStages, Entries

LEMMA DownKeeps ==
    ASSUME SetupInv, NEW s \in Services, Down(s), UNCHANGED <<tables, remotes>>,
           faults' \in 0..MaxFaults
    PROVE  SetupInv'
  <1>1. SetupTypeOK'
    BY DEF SetupInv, SetupTypeOK, Down, Goto, tables, remotes, Stages, Entries
  <1>2. \A t \in Services \ {s} : Stays(t)
    BY DEF SetupInv, SetupTypeOK, Down, Goto, tables, Stays
  <1>3. ServiceOK(s)'
    BY <1>1, NothingClaimed DEF SetupInv, SetupTypeOK, Down, Goto
  <1> QED
    BY <1>1, <1>2, <1>3, LocalStep

-----------------------------------------------------------------------------
LEMMA TakeKeeps ==
    ASSUME SetupInv, NEW s \in Services, NEW x \in Entries, NEW stage \in Stages,
           Take(s, x), Goto(s, stage),
           \/ /\ x \in Locations
              /\ \/ stage = "init_location"
                 \/ stage = "next" /\ x \in locations
           \/ /\ x \in Volumes
              /\ \/ stage = "locate"
                 \/ stage = "config" /\ x \in storages
    PROVE  SetupInv'
  <1> USE SetupAssumption
  <1>1. SetupTypeOK'
    BY DEF SetupInv, SetupTypeOK, Take, Goto, tables, remotes
  <1>2. \A t \in Services \ {s} : Stays(t)
    BY DEF SetupInv, SetupTypeOK, Take, Goto, tables, Stays
  <1>3. at[s] = "next" /\ ServiceOK(s)
    BY DEF SetupInv, Take
  <1>4. /\ at'[s] = stage /\ current'[s] = x /\ todo'[s] = todo[s] \ {x}
        /\ UNCHANGED <<locations, storages, config, known, forgotten>>
    BY DEF SetupInv, SetupTypeOK, Take, Goto, tables, remotes
  <1>5. EntryOK(s)'
    BY <1>4 DEF EntryOK, LocationStages, VolumeStages
  <1>6. DoneOK(s)'
    BY <1>3, <1>4 DEF ServiceOK, DoneOK, LocationStages, VolumeStages, Configured
  <1>7. UNCHANGED <<tables, remotes>>
    BY DEF Take
  <1> QED
    BY <1>1, <1>2, <1>5, <1>6, <1>7, LocalStep DEF ServiceOK

\* A manager goes on with the same entry.
LEMMA MoveKeeps ==
    ASSUME SetupInv, NEW s \in Services, NEW stage \in Stages, NEW asks \in SUBSET Servers,
           Goto(s, stage), unasked' = [unasked EXCEPT ![s] = asks],
           UNCHANGED <<tables, remotes, todo, current>>, faults' \in 0..MaxFaults,
           \/ at[s] = "init_location" /\ stage = "insert_location"
           \/ at[s] = "locate" /\ stage = "insert_storage"
              /\ LocationOf[current[s]] \in locations
           \/ at[s] = "config" /\ stage = "create"
              /\ asks = Servers /\ ~Configured(current[s])
           \/ at[s] = "config" /\ stage = "again" /\ Configured(current[s])
           \/ at[s] = "again" /\ stage = "next"
           \/ at[s] = "next" /\ todo[s] = {} /\ stage = "serving"
    PROVE  SetupInv'
  <1> USE SetupAssumption
  <1>1. SetupTypeOK'
    BY DEF SetupInv, SetupTypeOK, Goto, tables, remotes
  <1>2. \A t \in Services \ {s} : Stays(t)
    BY DEF SetupInv, SetupTypeOK, Goto, tables, Stays
  <1>3. ServiceOK(s)
    BY DEF SetupInv
  <1>4. /\ at'[s] = stage /\ current'[s] = current[s] /\ todo'[s] = todo[s]
        /\ unasked'[s] = asks
        /\ UNCHANGED <<locations, storages, config, known, forgotten>>
    BY DEF SetupInv, SetupTypeOK, Goto, tables, remotes
  <1>5. EntryOK(s)'
    <2>1. at[s] = "config" /\ ~Configured(current[s]) => config[current[s]][s] = 0
      <3>1. at[s] = "config" => current[s] \in Volumes
        BY <1>3 DEF ServiceOK, EntryOK, VolumeStages
      <3>2. ASSUME current[s] \in Volumes
            PROVE  config[current[s]][s] \in Nat
        BY <3>2 DEF SetupInv, SetupTypeOK
      <3> QED
        BY <3>1, <3>2 DEF Configured
    <2> QED
      BY <1>3, <1>4, <2>1 DEF ServiceOK, EntryOK, LocationStages, VolumeStages, Configured, Given
  <1>6. DoneOK(s)'
    <2>1. /\ at[s] \in LocationStages <=> stage \in LocationStages
          /\ stage # "next" => (at[s] \in VolumeStages <=> stage \in VolumeStages)
          /\ stage = "next" => at[s] = "again"
          /\ stage = "serving" => todo[s] = {}
      BY DEF LocationStages, VolumeStages
    <2>2. at[s] = "again" => /\ current[s] \in storages /\ current[s] \in Volumes
                             /\ Configured(current[s])
      BY <1>3 DEF ServiceOK, EntryOK, VolumeStages
    <2>3. \A v : Configured(v) => Configured(v)'
      BY <1>4 DEF Configured
    <2> QED
      BY <1>3, <1>4, <2>1, <2>2, <2>3 DEF ServiceOK, DoneOK
  <1> QED
    BY <1>1, <1>2, <1>5, <1>6, LocalStep DEF ServiceOK

-----------------------------------------------------------------------------
\* What an insert establishes, whether its answer arrives or not.
LEMMA RowKeeps ==
    ASSUME SetupInv, NEW s \in Services, Row(s), UNCHANGED remotes
    PROVE  /\ Grows
           /\ (RowsOK /\ OneConfigEach /\ RecordedMeansKnown)'
           /\ locations' \in SUBSET Locations
           /\ storages' \in SUBSET Volumes
           /\ config' \in [Volumes -> [Services -> Nat]]
           /\ \A t \in Services \ {s}, v \in Volumes : config'[v][t] = config[v][t]
  <1> USE SetupAssumption
  <1> DEFINE x == current[s]
  <1>1. SetupTypeOK /\ EntryOK(s)
    BY DEF SetupInv, ServiceOK
  <1>2. CASE at[s] = "insert_location"
    <2>1. x \in Locations /\ locations' = locations \cup {x} /\ UNCHANGED <<storages, config>>
      BY <1>1, <1>2 DEF Row, EntryOK, LocationStages
    <2> QED
      BY <1>1, <2>1 DEF SetupInv, SetupTypeOK, remotes, Grows, Given, Configured, RowsOK,
                        OneConfigEach, RecordedMeansKnown
  <1>3. CASE at[s] = "insert_storage"
    <2>1. /\ x \in Volumes /\ LocationOf[x] \in locations
          /\ storages' = storages \cup {x} /\ UNCHANGED <<locations, config>>
      BY <1>1, <1>3 DEF Row, EntryOK, VolumeStages
    <2> QED
      BY <1>1, <2>1 DEF SetupInv, SetupTypeOK, remotes, Grows, Given, Configured, RowsOK,
                        OneConfigEach, RecordedMeansKnown
  <1>4. CASE at[s] = "record"
    <2>1. /\ x \in Volumes /\ config[x][s] = 0
          /\ \A r \in Servers : x \in Given(r)
          /\ config' = [config EXCEPT ![x][s] = @ + 1] /\ UNCHANGED <<locations, storages>>
      BY <1>1, <1>4 DEF Row, EntryOK, VolumeStages
    <2>2. /\ config' \in [Volumes -> [Services -> Nat]]
          /\ config'[x][s] = 1
          /\ \A v \in Volumes, t \in Services :
                v # x \/ t # s => config'[v][t] = config[v][t]
      BY <1>1, <2>1 DEF SetupTypeOK
    <2>3. \A v \in Volumes : Configured(v)' => Configured(v) \/ v = x
      BY <2>2 DEF Configured
    <2>4. \A v \in Volumes : Configured(v) => Configured(v)'
      <3> SUFFICES ASSUME NEW v \in Volumes, NEW t \in Services, config[v][t] > 0
                   PROVE  config'[v][t] > 0
        BY DEF Configured
      <3> QED
        BY <2>2
    <2>5. OneConfigEach'
      BY <2>2 DEF SetupInv, OneConfigEach
    <2>6. RecordedMeansKnown'
      BY <2>1, <2>3 DEF SetupInv, RecordedMeansKnown, Given, remotes
    <2>7. Grows
      BY <2>1, <2>4 DEF Grows, Given, remotes
    <2>8. RowsOK'
      BY <2>1 DEF SetupInv, RowsOK
    <2> QED
      BY <1>1, <2>1, <2>2, <2>5, <2>6, <2>7, <2>8 DEF SetupTypeOK
  <1> QED
    BY <1>2, <1>3, <1>4 DEF Row

LEMMA InsertKeeps == ASSUME SetupInv, NEW s \in Services, Insert(s) PROVE SetupInv'
  <1> USE SetupAssumption
  <1> DEFINE x == current[s]
  <1>1. SetupTypeOK /\ ServiceOK(s) /\ Row(s) /\ UNCHANGED remotes
    BY DEF SetupInv, Insert
  <1>2. at[s] \in {"insert_location", "insert_storage", "record"}
    BY <1>1 DEF Row
  <1>3. /\ at' = [at EXCEPT ![s] = After[at[s]]]
        /\ unasked' = [unasked EXCEPT ![s] = IF at[s] = "record" THEN Servers ELSE {}]
        /\ UNCHANGED <<remotes, todo, current, faults>>
    BY DEF Insert, Goto
  <1>4. SetupTypeOK'
    BY <1>1, <1>2, <1>3, RowKeeps DEF SetupTypeOK, After, Stages, remotes
  <1>5. ASSUME NEW t \in Services, t # s PROVE ServiceOK(t)'
    <2>1. Stays(t)
      BY <1>1, <1>3, <1>5, RowKeeps DEF Stays, SetupTypeOK
    <2> QED
      BY <1>1, <2>1, RowKeeps, OthersKeep DEF SetupInv
  <1>6. at'[s] = After[at[s]] /\ current'[s] = x /\ todo'[s] = todo[s]
    BY <1>1, <1>3 DEF SetupTypeOK
  <1>7. ASSUME at[s] = "insert_location" PROVE ServiceOK(s)'
    <2>1. locations' = locations \cup {x} /\ UNCHANGED <<storages, config>> /\ at'[s] = "next"
      BY <1>1, <1>6, <1>7 DEF Row, After
    <2> QED
      BY <1>1, <1>6, <1>7, <2>1
      DEF ServiceOK, EntryOK, DoneOK, LocationStages, VolumeStages, Configured
  <1>8. ASSUME at[s] = "insert_storage" PROVE ServiceOK(s)'
    <2>1. storages' = storages \cup {x} /\ UNCHANGED <<locations, config>> /\ at'[s] = "config"
      BY <1>1, <1>6, <1>8 DEF Row, After
    <2> QED
      BY <1>1, <1>6, <1>8, <2>1
      DEF ServiceOK, EntryOK, DoneOK, LocationStages, VolumeStages, Configured
  <1>9. ASSUME at[s] = "record" PROVE ServiceOK(s)'
    <2>1. /\ x \in Volumes /\ x \in storages /\ config[x][s] = 0
          /\ config' = [config EXCEPT ![x][s] = @ + 1] /\ UNCHANGED <<locations, storages>>
          /\ at'[s] = "again"
      BY <1>1, <1>6, <1>9 DEF Row, After, ServiceOK, EntryOK, VolumeStages
    <2>2. Configured(x)'
      <3>1. config'[x][s] = 1
        BY <1>1, <2>1 DEF SetupTypeOK
      <3> QED
        BY <3>1, <1>6 DEF Configured
    <2>3. EntryOK(s)'
      BY <1>6, <2>1, <2>2 DEF EntryOK, LocationStages, VolumeStages
    <2>4. DoneOK(s)'
      BY <1>1, <1>6, <1>9, <2>1, RowKeeps DEF ServiceOK, DoneOK, LocationStages, VolumeStages, Grows
    <2> QED
      BY <2>3, <2>4 DEF ServiceOK
  <1>10. ServiceOK(s)'
    BY <1>2, <1>7, <1>8, <1>9
  <1> QED
    BY <1>1, <1>4, <1>5, <1>10, RowKeeps DEF SetupInv

LEMMA InsertLostKeeps == ASSUME SetupInv, NEW s \in Services, InsertLost(s) PROVE SetupInv'
  <1> USE SetupAssumption
  <1>1. SetupTypeOK /\ Row(s) /\ UNCHANGED remotes
    BY DEF SetupInv, InsertLost
  <1>2. /\ Down(s) /\ faults' \in 0..MaxFaults
    BY <1>1 DEF InsertLost, SetupTypeOK
  <1>3. SetupTypeOK'
    BY <1>1, <1>2, RowKeeps DEF SetupTypeOK, Down, Goto, Stages, remotes, Entries
  <1>4. ASSUME NEW t \in Services, t # s PROVE ServiceOK(t)'
    <2>1. Stays(t)
      BY <1>1, <1>2, <1>4, RowKeeps DEF Stays, SetupTypeOK, Down, Goto
    <2> QED
      BY <1>1, <2>1, RowKeeps, OthersKeep DEF SetupInv
  <1>5. ServiceOK(s)'
    BY <1>1, <1>2, <1>3, NothingClaimed DEF SetupTypeOK, Down, Goto
  <1> QED
    BY <1>1, <1>3, <1>4, <1>5, RowKeeps DEF SetupInv

LEMMA CreateRemoteKeeps == ASSUME SetupInv, NEW s \in Services, CreateRemote(s) PROVE SetupInv'
  <1> USE SetupAssumption
  <1> DEFINE x == current[s]
  <1>1. SetupTypeOK /\ ServiceOK(s) /\ at[s] \in {"create", "again"} /\ x \in Volumes
    BY DEF SetupInv, CreateRemote, ServiceOK, EntryOK, VolumeStages
  <1>2. PICK r \in unasked[s] :
          /\ known' = [known EXCEPT ![r] = @ \cup {x}]
          /\ unasked' = [unasked EXCEPT ![s] = @ \ {r}]
          /\ at' = [at EXCEPT ![s] = IF unasked[s] # {r} THEN at[s]
                                     ELSE IF at[s] = "create" THEN "record" ELSE "next"]
    BY DEF CreateRemote, Goto
  <1>3. UNCHANGED <<locations, storages, config, forgotten, todo, current, faults>>
    BY DEF CreateRemote, tables
  <1>4. r \in Servers
    BY <1>1, <1>2 DEF SetupTypeOK
  <1>5. SetupTypeOK'
    BY <1>1, <1>2, <1>3, <1>4 DEF SetupTypeOK, Stages
  <1>6. x \in Given(r)' /\ \A q \in Servers : Given(q) \subseteq Given(q)'
    BY <1>1, <1>2, <1>3, <1>4 DEF Given, SetupTypeOK
  <1>7. Grows
    BY <1>3, <1>6 DEF Grows, Configured
  <1>8. ASSUME NEW t \in Services, t # s PROVE ServiceOK(t)'
    <2>1. Stays(t)
      BY <1>1, <1>2, <1>3, <1>8 DEF Stays, SetupTypeOK
    <2> QED
      BY <1>1, <1>7, <2>1, OthersKeep DEF SetupInv
  <1>9. /\ at'[s] = (IF unasked[s] # {r} THEN at[s]
                     ELSE IF at[s] = "create" THEN "record" ELSE "next")
        /\ unasked'[s] = unasked[s] \ {r} /\ current'[s] = x /\ todo'[s] = todo[s]
    BY <1>1, <1>2, <1>3 DEF SetupTypeOK
  <1>10. EntryOK(s)'
    <2>1. CASE at'[s] = "create"
      <3>1. at[s] = "create"
        BY <1>1, <1>9, <2>1
      <3>2. \A q \in Servers \ unasked'[s] : x \in Given(q)'
        BY <1>1, <1>6, <1>9, <3>1 DEF ServiceOK, EntryOK
      <3> QED
        BY <1>1, <1>3, <1>9, <2>1, <3>1, <3>2
        DEF ServiceOK, EntryOK, LocationStages, VolumeStages
    <2>2. CASE at'[s] = "record"
      <3>1. at[s] = "create" /\ unasked[s] = {r}
        BY <1>1, <1>9, <2>2
      <3>2. \A q \in Servers : x \in Given(q)'
        BY <1>1, <1>6, <3>1 DEF ServiceOK, EntryOK
      <3> QED
        BY <1>1, <1>3, <1>9, <2>2, <3>1, <3>2
        DEF ServiceOK, EntryOK, LocationStages, VolumeStages
    <2>3. CASE at'[s] = "again"
      <3>1. at[s] = "again"
        BY <1>1, <1>9, <2>3
      <3> QED
        BY <1>1, <1>3, <1>9, <2>3, <3>1
        DEF ServiceOK, EntryOK, LocationStages, VolumeStages, Configured
    <2>4. CASE at'[s] = "next"
      BY <2>4 DEF EntryOK, LocationStages, VolumeStages
    <2> QED
      BY <1>1, <1>9, <2>1, <2>2, <2>3, <2>4
  <1>11. DoneOK(s)'
    <2>1. /\ at[s] \notin LocationStages /\ at'[s] # "serving"
          /\ at'[s] \in VolumeStages \/ at[s] = "again"
      BY <1>1, <1>9 DEF LocationStages, VolumeStages
    <2>2. at[s] = "again" => x \in storages /\ Configured(x)
      BY <1>1 DEF ServiceOK, EntryOK
    <2> QED
      BY <1>1, <1>3, <1>7, <1>9, <2>1, <2>2 DEF ServiceOK, DoneOK, Grows
  <1>12. (RowsOK /\ OneConfigEach /\ RecordedMeansKnown)'
    BY <1>3, <1>6 DEF SetupInv, RowsOK, OneConfigEach, RecordedMeansKnown, Configured, Given
  <1> QED
    BY <1>5, <1>8, <1>10, <1>11, <1>12 DEF SetupInv, ServiceOK

LEMMA RcloneReplacedKeeps ==
    ASSUME SetupInv, NEW r \in Servers, RcloneReplaced(r)
    PROVE  SetupInv'
  <1> USE SetupAssumption
  <1>1. SetupTypeOK
    BY DEF SetupInv
  <1>2. /\ UNCHANGED <<locations, storages, config, at, todo, current, unasked>>
        /\ known' = [known EXCEPT ![r] = {}]
        /\ forgotten' = [forgotten EXCEPT ![r] = @ \cup known[r]]
    BY DEF RcloneReplaced, tables, service
  <1>3. SetupTypeOK'
    BY <1>1, <1>2 DEF SetupTypeOK, RcloneReplaced
  <1>4. \A q \in Servers : Given(q)' = Given(q)
    BY <1>1, <1>2 DEF Given, SetupTypeOK
  <1>5. ASSUME NEW t \in Services PROVE ServiceOK(t)'
    <2>1. Grows /\ Stays(t)
      BY <1>2, <1>4 DEF Grows, Stays, Configured
    <2> QED
      BY <1>1, <2>1, OthersKeep DEF SetupInv
  <1>6. (RowsOK /\ OneConfigEach /\ RecordedMeansKnown)'
    BY <1>2, <1>4 DEF SetupInv, RowsOK, OneConfigEach, RecordedMeansKnown, Configured, Given
  <1> QED
    BY <1>3, <1>5, <1>6 DEF SetupInv

LEMMA RestartKeeps == ASSUME SetupInv, NEW s \in Services, Restart(s) PROVE SetupInv'
  <1>1. SetupTypeOK'
    BY DEF SetupInv, SetupTypeOK, Restart, Goto, tables, remotes, Stages
  <1>2. \A t \in Services \ {s} : Stays(t)
    BY DEF SetupInv, SetupTypeOK, Restart, Goto, tables, Stays
  <1>3. /\ at[s] = "down" /\ at'[s] = "next" /\ current'[s] = current[s] /\ todo'[s] = todo[s]
        /\ UNCHANGED <<locations, storages, config, known, forgotten>>
    BY DEF SetupInv, SetupTypeOK, Restart, Goto, tables, remotes
  <1>4. ServiceOK(s)'
    BY <1>3 DEF SetupInv, ServiceOK, EntryOK, DoneOK, LocationStages, VolumeStages, Configured
  <1> QED
    BY <1>1, <1>2, <1>4, LocalStep DEF Restart
-----------------------------------------------------------------------------
LEMMA SetupStepKeeps == ASSUME SetupInv, [SetupNext]_setupVars PROVE SetupInv'
  <1> USE SetupAssumption
  <1>0. SetupTypeOK /\ \A s \in Services : ServiceOK(s)
    BY DEF SetupInv
  <1>1. ASSUME NEW s \in Services, SetupLocation(s) PROVE SetupInv'
    BY <1>1, TakeKeeps DEF SetupLocation, Entries, Stages
  <1>2. ASSUME NEW s \in Services, InitLocation(s) PROVE SetupInv'
    <2>1. CASE Down(s)
      BY <1>0, <1>2, <2>1, DownKeeps DEF InitLocation, SetupTypeOK
    <2>2. CASE ~Down(s)
      <3>1. /\ at[s] = "init_location" /\ Goto(s, "insert_location")
            /\ UNCHANGED <<tables, remotes, todo, current>> /\ unasked' = unasked
            /\ faults' = faults
        BY <1>2, <2>2 DEF InitLocation
      <3>2. unasked' = [unasked EXCEPT ![s] = unasked[s]] /\ unasked[s] \in SUBSET Servers
        BY <1>0, <3>1 DEF SetupTypeOK
      <3>3. faults' \in 0..MaxFaults /\ "insert_location" \in Stages
        BY <1>0, <3>1 DEF SetupTypeOK, Stages
      <3> QED
        BY <3>1, <3>2, <3>3, MoveKeeps
    <2> QED
      BY <2>1, <2>2
  <1>3. ASSUME NEW s \in Services, SetupStorage(s) PROVE SetupInv'
    BY <1>3, TakeKeeps DEF SetupStorage, Entries, Stages
  <1>4. ASSUME NEW s \in Services, Locate(s) PROVE SetupInv'
    <2>1. CASE Down(s)
      BY <1>0, <1>4, <2>1, DownKeeps DEF Locate, SetupTypeOK
    <2>2. CASE ~Down(s)
      <3>1. /\ at[s] = "locate" /\ Goto(s, "insert_storage")
            /\ LocationOf[current[s]] \in locations
            /\ UNCHANGED <<tables, remotes, todo, current>> /\ unasked' = unasked
            /\ faults' = faults
        BY <1>4, <2>2 DEF Locate
      <3>2. unasked' = [unasked EXCEPT ![s] = unasked[s]] /\ unasked[s] \in SUBSET Servers
        BY <1>0, <3>1 DEF SetupTypeOK
      <3>3. faults' \in 0..MaxFaults /\ "insert_storage" \in Stages
        BY <1>0, <3>1 DEF SetupTypeOK, Stages
      <3> QED
        BY <3>1, <3>2, <3>3, MoveKeeps
    <2> QED
      BY <2>1, <2>2
  <1>5. ASSUME NEW s \in Services, GetConfig(s) PROVE SetupInv'
    BY <1>0, <1>5, MoveKeeps DEF GetConfig, SetupTypeOK, Stages
  <1>6. ASSUME NEW s \in Services, RcloneRefuses(s) PROVE SetupInv'
    <2>1. faults' \in 0..MaxFaults
      BY <1>0, <1>6 DEF RcloneRefuses, SetupTypeOK
    <2>2. CASE at[s] = "create"
      BY <1>6, <2>1, <2>2, DownKeeps DEF RcloneRefuses
    <2>3. CASE at[s] # "create"
      BY <1>6, <2>1, <2>3, MoveKeeps DEF RcloneRefuses, Stages
    <2> QED
      BY <2>2, <2>3
  <1>7. ASSUME NEW s \in Services, InsertConflict(s) PROVE SetupInv'
    BY <1>0, <1>7, DownKeeps DEF InsertConflict, SetupTypeOK
  <1>8. ASSUME NEW s \in Services, ServiceDies(s) PROVE SetupInv'
    <2>1. faults' \in 0..MaxFaults
      BY <1>0, <1>8 DEF ServiceDies, SetupTypeOK
    <2> QED
      BY <1>8, <2>1, DownKeeps DEF ServiceDies
  <1>9. ASSUME NEW s \in Services, Serve(s) PROVE SetupInv'
    <2>1. unasked' = [unasked EXCEPT ![s] = unasked[s]] /\ unasked[s] \in SUBSET Servers
      BY <1>0, <1>9 DEF Serve, SetupTypeOK
    <2>2. faults' \in 0..MaxFaults /\ "serving" \in Stages
      BY <1>0, <1>9 DEF Serve, SetupTypeOK, Stages
    <2> QED
      BY <1>9, <2>1, <2>2, MoveKeeps DEF Serve
  <1>10. CASE UNCHANGED setupVars
    <2>1. UNCHANGED <<locations, storages, config, known, forgotten, at, todo, current,
                      unasked, faults>>
      BY <1>10 DEF setupVars, tables, remotes, service
    <2> QED
      BY <2>1 DEF SetupInv, SetupTypeOK, RowsOK, OneConfigEach, RecordedMeansKnown, Configured,
                  ServiceOK, EntryOK, DoneOK, Given
  <1> QED
    BY <1>1, <1>2, <1>3, <1>4, <1>5, <1>6, <1>7, <1>8, <1>9, <1>10, InsertKeeps,
       InsertLostKeeps, CreateRemoteKeeps, RcloneReplacedKeeps, RestartKeeps
    DEF SetupNext, ServiceStep, ServiceFault

\* What the invariant is for: a manager serves only what is set up, and records
\* a configuration at most once and only after every server was given it.
LEMMA SetupInvImplies == SetupInv => ServingMeansConfigured /\ OneConfigEach /\ RecordedMeansKnown
  BY SetupAssumption
  DEF SetupInv, RowsOK, ServiceOK, DoneOK, ServingMeansConfigured, LocationStages, VolumeStages
=============================================================================

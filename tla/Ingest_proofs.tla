---------------------------- MODULE Ingest_proofs ----------------------------
(***************************************************************************)
(* What holds of registrations for any number of clients, managers, items, *)
(* volumes and faults.  The set-up has an invariant of its own, which no   *)
(* registration disturbs; what is added here relates the place a client    *)
(* has reached to the rows of the table.                                   *)
(***************************************************************************)
EXTENDS Ingest, StorageSetup_proofs

RegistryTypeOK ==
    /\ items \in Seq(Rows)
    /\ pc \in [Clients -> {"idle"} \cup Calls]
    /\ place \in [Clients -> Places]
    /\ uid \in [Clients -> 0..Len(items)]

\* A client about to insert has no row there yet; one that has inserted holds a
\* row; one about to set it READY has given it its path.
ClientOK(c) ==
    /\ pc[c] = "init" =>
          \A u \in 1..Len(items) : items[u].place # place[c] \/ items[u].owner # c
    /\ pc[c] \in {"uri", "state", "metadata"} => uid[c] \in 1..Len(items)
    /\ pc[c] = "state" => items[uid[c]].uri

RegistryInv ==
    /\ RegistryTypeOK
    /\ OneRowEach
    /\ ReadyHasPath
    /\ \A c \in Clients : ClientOK(c)

IngestInv == SetupInv /\ RegistryInv

LEMMA IngestInvInit == IngestInit => IngestInv
  <1> SUFFICES ASSUME IngestInit PROVE RegistryInv
    BY SetupInvInit DEF IngestInit, IngestInv
  <1>1. items = <<>> /\ Len(items) = 0
    BY DEF IngestInit
  <1>2. RegistryTypeOK
    BY <1>1 DEF IngestInit, RegistryTypeOK
  <1>3. \A c \in Clients : ClientOK(c)
    BY DEF IngestInit, ClientOK
  <1> QED
    BY <1>1, <1>2, <1>3 DEF RegistryInv, OneRowEach, ReadyHasPath
-----------------------------------------------------------------------------
\* What a step of client c may do to the table: rows keep their place, their
\* owner and their path, and new ones are its own.
TableGrows(c) ==
    /\ items' \in Seq(Rows)
    /\ Len(items) <= Len(items')
    /\ \A u \in 1..Len(items) : /\ items'[u].place = items[u].place
                                /\ items'[u].owner = items[u].owner
                                /\ items[u].uri => items'[u].uri
    /\ \A u \in 1..Len(items') : u > Len(items) => items'[u].owner = c

\* Only client c moves.
OnlyMoves(c) ==
    \A d \in Clients \ {c} : pc'[d] = pc[d] /\ place'[d] = place[d] /\ uid'[d] = uid[d]

LEMMA OtherClientsKeep ==
    ASSUME RegistryInv, NEW c \in Clients, TableGrows(c), OnlyMoves(c)
    PROVE  \A d \in Clients \ {c} : ClientOK(d)'
  <1> SUFFICES ASSUME NEW d \in Clients, d # c PROVE ClientOK(d)'
    OBVIOUS
  <1>1. /\ ClientOK(d) /\ pc'[d] = pc[d] /\ place'[d] = place[d] /\ uid'[d] = uid[d]
        /\ Len(items) \in Nat /\ Len(items') \in Nat
    BY DEF RegistryInv, RegistryTypeOK, OnlyMoves, TableGrows
  <1>2. ASSUME pc[d] = "init", NEW u \in 1..Len(items')
        PROVE  items'[u].place # place[d] \/ items'[u].owner # d
    <2>1. CASE u \in 1..Len(items)
      BY <1>1, <1>2, <2>1 DEF ClientOK, TableGrows
    <2>2. CASE u > Len(items)
      BY <2>2 DEF TableGrows
    <2> QED
      BY <1>1, <2>1, <2>2
  <1>3. pc[d] \in {"uri", "state", "metadata"} => uid[d] \in 1..Len(items')
    BY <1>1 DEF ClientOK, TableGrows
  <1>4. pc[d] = "state" => items'[uid[d]].uri
    BY <1>1 DEF ClientOK, TableGrows
  <1> QED
    BY <1>1, <1>2, <1>3, <1>4 DEF ClientOK

\* A step that leaves the table alone.
LEMMA NoRowKeeps ==
    ASSUME RegistryInv, NEW c \in Clients, UNCHANGED items, OnlyMoves(c), RegistryTypeOK',
           ClientOK(c)'
    PROVE  RegistryInv'
  <1>1. TableGrows(c)
    BY DEF RegistryInv, RegistryTypeOK, TableGrows
  <1>2. \A d \in Clients : ClientOK(d)'
    BY <1>1, OtherClientsKeep
  <1> QED
    BY <1>2 DEF RegistryInv, OneRowEach, ReadyHasPath

\* The insert, whether its answer arrives or not.
LEMMA AppendKeeps ==
    ASSUME RegistryInv, NEW c \in Clients, pc[c] = "init", items' = Append(items, NewRow(c)),
           OnlyMoves(c), RegistryTypeOK', ClientOK(c)'
    PROVE  RegistryInv'
  <1> DEFINE n == Len(items) + 1
  <1>1. /\ items \in Seq(Rows) /\ Len(items) \in Nat
        /\ place[c] \in Places /\ NewRow(c) \in Rows
    BY DEF RegistryInv, RegistryTypeOK, NewRow, Rows
  <1>2. /\ items' \in Seq(Rows) /\ Len(items') = n /\ items'[n] = NewRow(c)
        /\ \A u \in 1..Len(items) : items'[u] = items[u]
    BY <1>1
  <1>3. NewRow(c).place = place[c] /\ NewRow(c).owner = c /\ NewRow(c).state # "READY"
    BY DEF NewRow
  <1>4. TableGrows(c)
    <2>1. \A u \in 1..Len(items') : u > Len(items) => u = n
      BY <1>1, <1>2
    <2> QED
      BY <1>1, <1>2, <1>3, <2>1 DEF TableGrows
  <1>5. \A u \in 1..n : u = n \/ u \in 1..Len(items)
    BY <1>1
  <1>6. OneRowEach'
    <2>1. \A u \in 1..Len(items) : items[u].place # place[c] \/ items[u].owner # c
      BY DEF RegistryInv, ClientOK
    <2>2. ASSUME NEW u \in 1..n, NEW w \in 1..n, u # w
          PROVE  items'[u].place # items'[w].place \/ items'[u].owner # items'[w].owner
      <3>1. CASE u = n
        BY <1>2, <1>3, <1>5, <2>1, <2>2, <3>1
      <3>2. CASE w = n
        BY <1>2, <1>3, <1>5, <2>1, <2>2, <3>2
      <3>3. CASE u # n /\ w # n
        BY <1>2, <1>5, <2>2, <3>3 DEF RegistryInv, OneRowEach
      <3> QED
        BY <3>1, <3>2, <3>3
    <2> QED
      BY <1>2, <2>2 DEF OneRowEach
  <1>7. ReadyHasPath'
    BY <1>2, <1>3, <1>5 DEF RegistryInv, ReadyHasPath
  <1>8. \A d \in Clients : ClientOK(d)'
    BY <1>4, OtherClientsKeep
  <1> QED
    BY <1>6, <1>7, <1>8 DEF RegistryInv

\* The path of a row is set, or a row with a path becomes READY.
LEMMA UpdateKeeps ==
    ASSUME RegistryInv, NEW c \in Clients, NEW u \in 1..Len(items),
           \/ items' = [items EXCEPT ![u].uri = TRUE]
           \/ items[u].uri /\ items' = [items EXCEPT ![u].state = "READY"],
           OnlyMoves(c), RegistryTypeOK', ClientOK(c)'
    PROVE  RegistryInv'
  <1>1. items \in Seq(Rows) /\ Len(items) \in Nat /\ \A w \in 1..Len(items) : items[w] \in Rows
    BY DEF RegistryInv, RegistryTypeOK
  <1>2. /\ Len(items') = Len(items)
        /\ \A w \in 1..Len(items) : w # u => items'[w] = items[w]
    BY <1>1
  <1>3. /\ items'[u].place = items[u].place /\ items'[u].owner = items[u].owner
        /\ items'[u].uri
    <2>1. items[u] \in Rows
      BY <1>1
    <2>2. CASE items' = [items EXCEPT ![u].uri = TRUE]
      BY <1>1, <2>1, <2>2 DEF Rows
    <2>3. CASE items[u].uri /\ items' = [items EXCEPT ![u].state = "READY"]
      BY <1>1, <2>1, <2>3 DEF Rows
    <2> QED
      BY <2>2, <2>3
  <1>4. items' \in Seq(Rows)
    BY DEF RegistryTypeOK
  <1>5. TableGrows(c)
    BY <1>1, <1>2, <1>3, <1>4 DEF TableGrows
  <1>6. OneRowEach'
    BY <1>2, <1>3 DEF RegistryInv, OneRowEach
  <1>7. ReadyHasPath'
    BY <1>2, <1>3 DEF RegistryInv, ReadyHasPath
  <1>8. \A d \in Clients : ClientOK(d)'
    BY <1>5, OtherClientsKeep
  <1> QED
    BY <1>6, <1>7, <1>8 DEF RegistryInv

LEMMA RowTypes ==
    ASSUME RegistryTypeOK, NEW c \in Clients, NEW u \in 1..Len(items)
    PROVE  /\ [items EXCEPT ![u].uri = TRUE] \in Seq(Rows)
           /\ [items EXCEPT ![u].state = "READY"] \in Seq(Rows)
           /\ Len([items EXCEPT ![u].uri = TRUE]) = Len(items)
           /\ Len([items EXCEPT ![u].state = "READY"]) = Len(items)
  <1>1. items \in Seq(Rows) /\ items[u] \in Rows
    BY DEF RegistryTypeOK
  <1>2. /\ [items[u] EXCEPT !.uri = TRUE] \in Rows
        /\ [items[u] EXCEPT !.state = "READY"] \in Rows
    BY <1>1 DEF Rows
  <1> QED
    BY <1>1, <1>2
-----------------------------------------------------------------------------
\* The steps of a registration that end in another call and change no row.
LEMMA MoveOn ==
    ASSUME RegistryInv, NEW c \in Clients, NEW call \in {"idle"} \cup Calls,
           pc' = [pc EXCEPT ![c] = call], UNCHANGED items,
           \/ UNCHANGED place
           \/ \E p \in Places : place' = [place EXCEPT ![c] = p],
           UNCHANGED uid \/ uid' = [uid EXCEPT ![c] = 0],
           call \in {"uri", "state"} => FALSE,
           call = "init" => UNCHANGED place /\ At(place[c]) = {},
           call = "metadata" => UNCHANGED uid /\ pc[c] = "state"
    PROVE  RegistryInv'
  <1>1. RegistryTypeOK /\ ClientOK(c)
    BY DEF RegistryInv
  <1>2. RegistryTypeOK'
    BY <1>1 DEF RegistryTypeOK
  <1>3. OnlyMoves(c)
    BY <1>1 DEF RegistryTypeOK, OnlyMoves
  <1>4. pc'[c] = call
    BY <1>1 DEF RegistryTypeOK
  <1>5. call = "init" => \A u \in 1..Len(items) : items[u].place # place'[c]
    BY <1>1 DEF At
  <1>6. ClientOK(c)'
    BY <1>1, <1>4, <1>5 DEF ClientOK
  <1> QED
    BY <1>2, <1>3, <1>6, NoRowKeeps

LEMMA RegisterKeeps ==
    ASSUME RegistryInv, NEW c \in Clients, Register(c) PROVE RegistryInv'
  BY MoveOn DEF Register, Calls

LEMMA QueryStorageKeeps ==
    ASSUME RegistryInv, NEW c \in Clients, QueryStorage(c) PROVE RegistryInv'
  <1>1. PICK call \in {"idle", "access", "exists"} : Continue(c, call)
    BY DEF QueryStorage
  <1> QED
    BY <1>1, MoveOn DEF QueryStorage, Continue, Calls

LEMMA CheckAccessKeeps ==
    ASSUME RegistryInv, NEW c \in Clients, CheckAccess(c) PROVE RegistryInv'
  <1>1. PICK call \in {"idle", "exists"} : Continue(c, call)
    BY DEF CheckAccess
  <1> QED
    BY <1>1, MoveOn DEF CheckAccess, Continue, Calls

LEMMA CheckRegisteredKeeps ==
    ASSUME RegistryInv, NEW c \in Clients, CheckRegistered(c) PROVE RegistryInv'
  <1>1. CASE At(place[c]) = {}
    BY <1>1, MoveOn DEF CheckRegistered, Continue, Calls
  <1>2. CASE At(place[c]) # {}
    BY <1>2, MoveOn DEF CheckRegistered, Continue, Calls
  <1> QED
    BY <1>1, <1>2

LEMMA SetMetadataKeeps ==
    ASSUME RegistryInv, NEW c \in Clients, SetMetadata(c) PROVE RegistryInv'
  BY MoveOn DEF SetMetadata, Continue, Calls

LEMMA InitDataItemKeeps ==
    ASSUME RegistryInv, NEW c \in Clients, InitDataItem(c) PROVE RegistryInv'
  <1>1. /\ RegistryTypeOK /\ pc[c] = "init"
        /\ items' = Append(items, NewRow(c))
        /\ uid' = [uid EXCEPT ![c] = Len(items) + 1]
        /\ pc' = [pc EXCEPT ![c] = "uri"] /\ place' = place
    BY DEF RegistryInv, InitDataItem, Continue
  <1>2. /\ NewRow(c) \in Rows /\ items \in Seq(Rows) /\ Len(items) \in Nat
    BY <1>1 DEF RegistryTypeOK, NewRow, Rows
  <1>3. items' \in Seq(Rows) /\ Len(items') = Len(items) + 1
    BY <1>1, <1>2
  <1>4. RegistryTypeOK'
    <2>1. uid' \in [Clients -> 0..Len(items')]
      BY <1>1, <1>2, <1>3 DEF RegistryTypeOK
    <2> QED
      BY <1>1, <1>3, <2>1 DEF RegistryTypeOK, Calls
  <1>5. OnlyMoves(c)
    BY <1>1 DEF RegistryTypeOK, OnlyMoves
  <1>6. ClientOK(c)'
    <2>1. pc'[c] = "uri" /\ uid'[c] = Len(items) + 1
      BY <1>1 DEF RegistryTypeOK
    <2> QED
      BY <1>2, <1>3, <2>1 DEF ClientOK
  <1> QED
    BY <1>1, <1>4, <1>5, <1>6, AppendKeeps

LEMMA SetUriKeeps ==
    ASSUME RegistryInv, NEW c \in Clients, SetUri(c) PROVE RegistryInv'
  <1> DEFINE u == uid[c]
  <1>1. /\ RegistryTypeOK /\ u \in 1..Len(items)
        /\ items' = [items EXCEPT ![u].uri = TRUE]
        /\ pc' = [pc EXCEPT ![c] = "state"] /\ place' = place /\ uid' = uid
    BY DEF RegistryInv, ClientOK, SetUri, Continue
  <1>2. RegistryTypeOK'
    <2>1. items' \in Seq(Rows) /\ Len(items') = Len(items)
      BY <1>1, RowTypes
    <2> QED
      BY <1>1, <2>1 DEF RegistryTypeOK, Calls
  <1>3. OnlyMoves(c)
    BY <1>1 DEF RegistryTypeOK, OnlyMoves
  <1>4. ClientOK(c)'
    <2>1. items'[u].uri /\ u \in 1..Len(items')
      <3>1. items \in Seq(Rows) /\ items[u] \in Rows
        BY <1>1 DEF RegistryTypeOK
      <3> QED
        BY <1>1, <3>1 DEF Rows
    <2>2. pc'[c] = "state" /\ uid'[c] = u
      BY <1>1 DEF RegistryTypeOK
    <2> QED
      BY <2>1, <2>2 DEF ClientOK
  <1> QED
    BY <1>1, <1>2, <1>3, <1>4, UpdateKeeps

LEMMA SetStateKeeps ==
    ASSUME RegistryInv, NEW c \in Clients, SetState(c) PROVE RegistryInv'
  <1> DEFINE u == uid[c]
  <1>1. /\ RegistryTypeOK /\ u \in 1..Len(items) /\ items[u].uri
        /\ items' = [items EXCEPT ![u].state = "READY"]
        /\ pc' = [pc EXCEPT ![c] = "metadata"] /\ place' = place /\ uid' = uid
    BY DEF RegistryInv, ClientOK, SetState, Continue
  <1>2. items' \in Seq(Rows) /\ Len(items') = Len(items)
    BY <1>1, RowTypes
  <1>3. RegistryTypeOK'
    BY <1>1, <1>2 DEF RegistryTypeOK, Calls
  <1>4. OnlyMoves(c)
    BY <1>1 DEF RegistryTypeOK, OnlyMoves
  <1>5. ClientOK(c)'
    <2>1. pc'[c] = "metadata" /\ uid'[c] = u
      BY <1>1 DEF RegistryTypeOK
    <2> QED
      BY <1>1, <1>2, <2>1 DEF ClientOK
  <1> QED
    BY <1>1, <1>3, <1>4, <1>5, UpdateKeeps

LEMMA RegistrationFailsKeeps ==
    ASSUME RegistryInv, NEW c \in Clients, RegistrationFails(c) PROVE RegistryInv'
  <1> DEFINE u == uid[c]
  <1>1. /\ RegistryTypeOK /\ ClientOK(c)
        /\ pc' = [pc EXCEPT ![c] = "idle"] /\ uid' = [uid EXCEPT ![c] = 0] /\ place' = place
    BY DEF RegistryInv, RegistrationFails
  <1>2. OnlyMoves(c)
    BY <1>1 DEF RegistryTypeOK, OnlyMoves
  <1>3. ClientOK(c)'
    BY <1>1 DEF RegistryTypeOK, ClientOK
  <1>4. ASSUME items' \in Seq(Rows), Len(items) <= Len(items')
        PROVE  RegistryTypeOK'
    <2>1. Len(items) \in Nat /\ Len(items') \in Nat
      BY <1>1, <1>4 DEF RegistryTypeOK
    <2>2. uid' \in [Clients -> 0..Len(items')]
      BY <1>1, <1>4, <2>1 DEF RegistryTypeOK
    <2> QED
      BY <1>1, <1>4, <2>2 DEF RegistryTypeOK
  <1>5. CASE UNCHANGED items
    BY <1>1, <1>2, <1>3, <1>4, <1>5, NoRowKeeps DEF RegistryTypeOK
  <1>6. CASE pc[c] = "init" /\ items' = Append(items, NewRow(c))
    <2>1. NewRow(c) \in Rows /\ items \in Seq(Rows)
      BY <1>1 DEF RegistryTypeOK, NewRow, Rows
    <2>2. items' \in Seq(Rows) /\ Len(items') = Len(items) + 1 /\ Len(items) \in Nat
      BY <1>6, <2>1
    <2> QED
      BY <1>2, <1>3, <1>4, <1>6, <2>2, AppendKeeps
  <1>7. CASE pc[c] = "uri" /\ items' = [items EXCEPT ![u].uri = TRUE]
    <2>1. u \in 1..Len(items)
      BY <1>1, <1>7 DEF ClientOK
    <2>2. items' \in Seq(Rows) /\ Len(items') = Len(items)
      BY <1>1, <1>7, <2>1, RowTypes
    <2>3. RegistryTypeOK'
      <3>1. Len(items) \in Nat
        BY <1>1 DEF RegistryTypeOK
      <3> QED
        BY <1>4, <2>2, <3>1
    <2> QED
      BY <1>2, <1>3, <1>7, <2>1, <2>3, UpdateKeeps
  <1>8. CASE pc[c] = "state" /\ items' = [items EXCEPT ![u].state = "READY"]
    <2>1. u \in 1..Len(items) /\ items[u].uri
      BY <1>1, <1>8 DEF ClientOK
    <2>2. items' \in Seq(Rows) /\ Len(items') = Len(items)
      BY <1>1, <1>8, <2>1, RowTypes
    <2>3. RegistryTypeOK'
      <3>1. Len(items) \in Nat
        BY <1>1 DEF RegistryTypeOK
      <3> QED
        BY <1>4, <2>2, <3>1
    <2> QED
      BY <1>2, <1>3, <1>8, <2>1, <2>3, UpdateKeeps
  <1> QED
    BY <1>5, <1>6, <1>7, <1>8 DEF RegistrationFails
-----------------------------------------------------------------------------
\* No registration touches what the managers set up; the faults are shared.
LEMMA SetupUndisturbed ==
    ASSUME SetupInv, UNCHANGED <<tables, remotes, service>>, faults' \in 0..MaxFaults
    PROVE  SetupInv'
  <1>1. UNCHANGED <<locations, storages, config, known, forgotten, at, todo, current, unasked>>
    BY DEF tables, remotes, service
  <1> QED
    BY <1>1 DEF SetupInv, SetupTypeOK, RowsOK, OneConfigEach, RecordedMeansKnown, Configured,
                ServiceOK, EntryOK, DoneOK, Given

LEMMA IngestStepKeeps == ASSUME IngestInv, [IngestNext]_vars PROVE IngestInv'
  <1>1. SetupInv /\ RegistryInv /\ faults \in 0..MaxFaults
    BY DEF IngestInv, SetupInv, SetupTypeOK
  <1>2. ASSUME UNCHANGED registry PROVE RegistryInv'
    BY <1>1, <1>2 DEF registry, RegistryInv, RegistryTypeOK, OneRowEach, ReadyHasPath, ClientOK
  <1>3. ASSUME UNCHANGED setupVars PROVE SetupInv'
    BY <1>1, <1>3, SetupUndisturbed DEF setupVars
  <1>4. ASSUME NEW c \in Clients, Register(c) \/ ClientStep(c) PROVE IngestInv'
    <2>1. UNCHANGED setupVars
      BY <1>4 DEF Register, ClientStep, QueryStorage, CheckAccess, CheckRegistered,
                  InitDataItem, SetUri, SetState, SetMetadata, Continue
    <2> QED
      BY <1>1, <1>3, <1>4, <2>1, RegisterKeeps, QueryStorageKeeps, CheckAccessKeeps,
         CheckRegisteredKeeps, InitDataItemKeeps, SetUriKeeps, SetStateKeeps, SetMetadataKeeps
      DEF IngestInv, ClientStep
  <1>5. ASSUME NEW c \in Clients, RegistrationFails(c) PROVE IngestInv'
    <2>1. UNCHANGED <<tables, remotes, service>> /\ faults' \in 0..MaxFaults
      BY <1>1, <1>5, SetupAssumption DEF RegistrationFails
    <2> QED
      BY <1>1, <1>5, <2>1, SetupUndisturbed, RegistrationFailsKeeps DEF IngestInv
  <1>6. CASE SetupNext /\ UNCHANGED registry
    BY <1>1, <1>2, <1>6, SetupStepKeeps DEF IngestInv
  <1>7. CASE UNCHANGED vars
    BY <1>1, <1>2, <1>3, <1>7 DEF IngestInv, vars
  <1> QED
    BY <1>4, <1>5, <1>6, <1>7 DEF IngestNext

LEMMA IngestInvariant == IngestSpec => []IngestInv
  BY IngestInvInit, IngestStepKeeps, PTL DEF IngestSpec

\* The tables, the remotes, the managers and the registrations stay in the sets
\* the code's columns and call sequences allow.
THEOREM TypeCorrect == IngestSpec => []IngestTypeOK
  <1>1. IngestInv => IngestTypeOK
    BY DEF IngestInv, SetupInv, RegistryInv, RegistryTypeOK, IngestTypeOK
  <1> QED
    BY <1>1, IngestInvariant, PTL

\* _setup_location, _setup_storage: however many managers start together, crash
\* and trip over each other's rows, one that serves has all its volumes set up.
THEOREM ManagersServeWhatIsSetUp == IngestSpec => []ServingMeansConfigured
  BY SetupInvImplies, IngestInvariant, PTL DEF IngestInv

\* create_storage_config: no retry of a manager records a volume a second time,
\* whichever of its calls failed or lost its answer.
THEOREM ConfigurationsAreRecordedOnce == IngestSpec => []OneConfigEach
  BY SetupInvImplies, IngestInvariant, PTL DEF IngestInv

\* create_storage_config: what is on record was given to every rclone server.
THEOREM RecordedConfigurationsAreKnown == IngestSpec => []RecordedMeansKnown
  BY SetupInvImplies, IngestInvariant, PTL DEF IngestInv

\* register_data_item: a client that registers again after any failure does not
\* get a second row for the same item and volume.
THEOREM RetriesDoNotDuplicate == IngestSpec => []OneRowEach
  BY IngestInvariant, PTL DEF IngestInv, RegistryInv

\* register_data_item, steps (5) and (6): no row becomes READY without its path.
THEOREM ReadyRowsHavePaths == IngestSpec => []ReadyHasPath
  BY IngestInvariant, PTL DEF IngestInv, RegistryInv
=============================================================================

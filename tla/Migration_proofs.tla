--------------------------- MODULE Migration_proofs ---------------------------
(***************************************************************************)
(* Proofs about Migration, for any number of rows, storages, requests and  *)
(* faults: the types; with a single poller, the completion of a migration  *)
(* is announced once; while rclone is not restarted, no completion is      *)
(* announced of a job that goes on, however many pollers run, and a READY  *)
(* row has its payload if nothing is removed; and, while requests live and *)
(* each place is asked for once, no unfinished copy is lost sight of.      *)
(***************************************************************************)
EXTENDS Migration, TLAPS

\* What the steps of a request and of a poller rely on: they hold a row, a row
\* has a place, and rclone answers only for jobs it has run.
Held ==
    /\ \A c \in Copiers : /\ cpc[c] = "init" => at[c] \in Places
                          /\ cpc[c] \in {"launch", "record", "undo"} => new[c] \in Uids
                          /\ new[c] # Nothing => row[new[c]] # "none"
    /\ \A p \in Pollers : /\ ppc[p] \in {"lookup", "settle", "save"} => cur[p] \in Uids
                          /\ ppc[p] = "settle" => target[p] \in Uids
    /\ \A u \in Uids : /\ row[u] # "none" => place[u] \in Places
                       /\ copying[u] # "none" => row[u] # "none"
    /\ \A j \in jobs : copying[j[2]] \in {"running", "success", "failed"}

TypeInv == TypeOK /\ Held

LEMMA InitTypes == Init => TypeInv
  BY RowsAssumption, FaultsAssumption DEF Init, TypeInv, TypeOK, Held

LEMMA FaultType ==
    ASSUME TypeOK, NEW kind, FaultOf(kind) PROVE faults' \in 0..MaxFaults
  BY FaultsAssumption DEF TypeOK, FaultOf

\* The steps of a request.
LEMMA CopierTypes ==
    ASSUME TypeInv, NEW c \in Copiers,
           \/ \E o \in Oids, d \in Storages : Ask(c, o, d)
           \/ CopierStep(c) \/ CopierFault(c)
    PROVE  TypeInv'
  <1> USE RowsAssumption DEF TypeInv, Held
  <1>f. UNCHANGED poller => UNCHANGED <<ppc, todo, cur, verdict, target, broken>>
    BY DEF poller
  <1>1. ASSUME NEW o \in Oids, NEW d \in Storages, Ask(c, o, d) PROVE TypeInv'
    <2>1. PICK u \in Existing : row[u] = "READY" /\ from' = [from EXCEPT ![c] = place[u]]
      BY <1>1 DEF Ask
    <2>2. place[u] \in Places /\ <<o, d>> \in Places
      BY <2>1 DEF Existing, Places
    <2>3. from' \in [Copiers -> Places \cup {Nothing}]
      BY <2>1, <2>2 DEF TypeOK
    <2>4. /\ at' \in [Copiers -> Places \cup {Nothing}]
          /\ cpc' \in [Copiers -> {"idle", "init", "launch", "record", "undo"}]
      BY <1>1, <2>2 DEF Ask, TypeOK
    <2>5. UNCHANGED <<items, migrations, rclone, new, poller, faults>>
      BY <1>1 DEF Ask
    <2>6. TypeOK'
      <3> HIDE DEF Held
      <3> QED
        BY <1>f, <2>3, <2>4, <2>5 DEF TypeOK, items, migrations, rclone
    <2>7. Held'
      <3>1. /\ cpc' = [cpc EXCEPT ![c] = "init"]
            /\ at' = [at EXCEPT ![c] = <<o, d>>]
        BY <1>1 DEF Ask
      <3>2. \A b \in Copiers :
                /\ cpc'[b] = "init" => at'[b] \in Places
                /\ cpc'[b] \in {"launch", "record", "undo"} => new[b] \in Uids
        BY <2>2, <3>1 DEF TypeOK
      <3>3. UNCHANGED <<row, place, new, copying, jobs, ppc, cur, target>>
        BY <1>f, <2>5 DEF items, rclone
      <3> QED
        BY <3>2, <3>3
    <2> QED
      BY <2>6, <2>7
  <1>2. ASSUME NEW u \in Uids, InitDataItem(c, u) PROVE TypeInv'
    BY <1>2, <1>f DEF InitDataItem, TypeOK, migrations, rclone
  <1>3. ASSUME RcloneStarts(c) \/ UNCHANGED rclone, cpc[c] = "launch"
        PROVE  /\ copying' \in [Uids -> {"none", "running", "success", "failed", "lost"}]
               /\ source' \in [Uids -> Places \cup {Nothing}]
               /\ jobs' \in SUBSET (Nat \X Uids)
               /\ nextJob' \in Nat \ {0}
               /\ \A u \in Uids : copying'[u] # "none" => row[u] # "none"
               /\ \A j \in jobs' : copying'[j[2]] \in {"running", "success", "failed"}
    <2>1. CASE UNCHANGED rclone
      BY <2>1 DEF rclone, TypeOK
    <2>2. CASE RcloneStarts(c)
      BY <1>3, <2>2 DEF RcloneStarts, TypeOK
    <2> QED
      BY <1>3, <2>1, <2>2
  <1>4. CASE RcloneCopy(c)
    BY <1>3, <1>4, <1>f DEF RcloneCopy, TypeOK, items
  <1>5. CASE RcloneCopyFails(c)
    BY <1>3, <1>5, <1>f, FaultType DEF RcloneCopyFails, TypeOK, items, migrations
  <1>6. CASE CreateMigrationRecord(c)
    BY <1>6, <1>f DEF CreateMigrationRecord, Leave, TypeOK, items, rclone
  <1>7. CASE CreateMigrationRecordFails(c)
    <2>1. mig' \in [Uids -> {"none", "open", "complete"}]
      BY <1>7 DEF CreateMigrationRecordFails, TypeOK
    <2> QED
      BY <1>7, <1>f, <2>1, FaultType DEF CreateMigrationRecordFails, TypeOK, items, rclone
  <1>8. CASE Undo(c)
    BY <1>8, <1>f DEF Undo, UndoTo, Leave, TypeOK, migrations, rclone
  <1>9. CASE CopierFails(c)
    BY <1>9, <1>f, FaultType DEF CopierFails, Leave, TypeOK, items, migrations, rclone
  <1> QED
    BY <1>1, <1>2, <1>4, <1>5, <1>6, <1>7, <1>8, <1>9 DEF CopierStep, CopierFault

\* The steps of rclone and of the retention engine.
LEMMA WorldTypes ==
    ASSUME TypeInv, (\E u \in Uids : JobEnds(u) \/ Remove(u)) \/ RcloneFault
    PROVE  TypeInv'
  <1> USE RowsAssumption DEF TypeInv, Held
  <1>1. ASSUME NEW u \in Uids, JobEnds(u) PROVE TypeInv'
    <2>1. place[u] \in Places /\ (JobSucceeds(u) \/ JobFails(u))
      BY <1>1 DEF JobEnds, JobSucceeds, JobFails
    <2>2. CASE JobSucceeds(u)
      BY <2>1, <2>2 DEF JobSucceeds, TypeOK, migrations, copier, poller
    <2>3. CASE JobFails(u)
      BY <2>3 DEF JobFails, TypeOK, items, migrations, copier, poller
    <2> QED
      BY <2>1, <2>2, <2>3
  <1>2. ASSUME NEW u \in Uids, Remove(u) PROVE TypeInv'
    BY <1>2 DEF Remove, TypeOK, migrations, rclone, copier, poller
  <1>3. ASSUME NEW u \in Uids, JobForgotten(u) PROVE TypeInv'
    BY <1>3, FaultType DEF JobForgotten, TypeOK, items, migrations, copier, poller
  <1>4. CASE RcloneRestarts
    BY <1>4, FaultType DEF RcloneRestarts, TypeOK, items, migrations, copier, poller
  <1> QED
    BY <1>1, <1>2, <1>3, <1>4 DEF RcloneFault

LEMMA DropTypes ==
    ASSUME TypeInv, NEW p \in Pollers, Drop(p)
    PROVE  /\ ppc' = [ppc EXCEPT ![p] = "pass"]
           /\ cur' \in [Pollers -> Uids \cup {Nothing}]
           /\ target' \in [Pollers -> Uids \cup {Nothing}]
           /\ verdict' \in [Pollers -> {"running", "success", "failed"}]
           /\ ppc' \in [Pollers -> {"idle", "pass", "lookup", "settle", "save"}]
           /\ \A q \in Pollers : /\ ppc'[q] \in {"lookup", "settle", "save"} => cur'[q] \in Uids
                                 /\ ppc'[q] = "settle" => target'[q] \in Uids
  BY DEF TypeInv, TypeOK, Held, Drop

LEMMA SettledTypes ==
    ASSUME TypeInv, NEW p \in Pollers, Settled(p) \/ UNCHANGED row
    PROVE  /\ row' \in [Uids -> {"none", "INITIALISED", "READY", "DELETED", "gone"}]
           /\ \A u \in Uids : row'[u] = "none" <=> row[u] = "none"
  BY DEF TypeInv, TypeOK, Settled, Existing

LEMMA SavedTypes ==
    ASSUME TypeInv, NEW p \in Pollers, Saved(p) \/ UNCHANGED migrations
    PROVE  /\ mig' \in [Uids -> {"none", "open", "complete"}]
           /\ announced' \in [Uids -> Nat]
           /\ jobId' = jobId
  <1>1. CASE UNCHANGED migrations
    BY <1>1 DEF TypeInv, TypeOK, migrations
  <1>2. CASE Saved(p)
    BY <1>2 DEF TypeInv, TypeOK, Saved
  <1> QED
    BY <1>1, <1>2

\* The steps of a poller.
LEMMA PollerTypes ==
    ASSUME TypeInv, NEW p \in Pollers, PollerStep(p) \/ PollerFault(p)
    PROVE  TypeInv'
  <1> USE DEF TypeInv, Held
  <1>c. UNCHANGED copier => UNCHANGED <<cpc, new, at, from>>
    BY DEF copier
  <1>1. CASE BeginPass(p)
    <2>1. todo' \in [Pollers -> SUBSET Uids] /\ ppc' = [ppc EXCEPT ![p] = "pass"]
      BY <1>1 DEF BeginPass, Open, TypeOK
    <2>2. UNCHANGED <<items, migrations, rclone, copier, cur, verdict, target, broken, faults>>
      BY <1>1 DEF BeginPass
    <2> QED
      BY <1>c, <2>1, <2>2 DEF TypeOK, items, migrations, rclone
  <1>2. CASE EndPass(p)
    BY <1>2, <1>c DEF EndPass, TypeOK, items, migrations, rclone
  <1>3. ASSUME NEW u \in Uids, QueryJobStatus(p, u) PROVE TypeInv'
    <2>1. PICK v \in JobsNumbered(jobId[u]) :
              /\ verdict' = [verdict EXCEPT ![p] = copying[v]]
              /\ ppc' = [ppc EXCEPT ![p] = IF copying[v] = "running" THEN "save" ELSE "lookup"]
      BY <1>3 DEF QueryJobStatus
    <2>2. copying[v] \in {"running", "success", "failed"}
      BY <2>1 DEF JobsNumbered
    <2> QED
      BY <1>3, <1>c, <2>1, <2>2 DEF QueryJobStatus, TypeOK, items, migrations, rclone
  <1>4. ASSUME NEW u \in Uids, QueryJobUnknown(p, u) \/ QueryJobFails(p, u) PROVE TypeInv'
    <2>1. /\ todo' = [todo EXCEPT ![p] = @ \ {u}] /\ faults' \in 0..MaxFaults
          /\ UNCHANGED <<items, migrations, rclone, copier, ppc, cur, verdict, target, broken>>
      BY <1>4, FaultType DEF QueryJobUnknown, QueryJobFails, Skip, TypeOK
    <2>2. todo' \in [Pollers -> SUBSET Uids]
      BY <2>1 DEF TypeOK
    <2> QED
      BY <1>c, <2>1, <2>2 DEF TypeOK, items, migrations, rclone
  <1>5. CASE QueryDataItem(p)
    <2>1. /\ target' \in [Pollers -> Uids \cup {Nothing}]
          /\ ppc' \in [Pollers -> {"idle", "pass", "lookup", "settle", "save"}]
          /\ ppc'[p] = "settle" => target'[p] \in Uids
          /\ \A q \in Pollers \ {p} : ppc'[q] = ppc[q] /\ target'[q] = target[q]
      BY <1>5 DEF QueryDataItem, RowsAt, Existing, TypeOK
    <2> QED
      BY <1>5, <1>c, <2>1 DEF QueryDataItem, TypeOK, items, migrations, rclone
  <1>6. CASE SetStateOrDelete(p)
    <2>1. Settled(p) \/ UNCHANGED row
      BY <1>6 DEF SetStateOrDelete
    <2> QED
      BY <1>6, <1>c, <2>1, SettledTypes DEF SetStateOrDelete, TypeOK, migrations, rclone
  <1>7. CASE SetStateOfNothing(p)
    BY <1>7, <1>c, DropTypes DEF SetStateOfNothing, TypeOK, items, migrations, rclone
  <1>8. CASE UpdateMigration(p)
    BY <1>8, <1>c, DropTypes, SavedTypes DEF UpdateMigration, TypeOK, items, rclone
  <1>9. CASE UpdateOnBrokenSession(p)
    BY <1>9, <1>c, DropTypes DEF UpdateOnBrokenSession, TypeOK, items, migrations, rclone
  <1>10. CASE CallFails(p)
    <2>1. Settled(p) \/ UNCHANGED row
      BY <1>10 DEF CallFails
    <2> QED
      BY <1>10, <1>c, <2>1, SettledTypes, DropTypes, FaultType
         DEF CallFails, TypeOK, migrations, rclone
  <1>11. CASE CommitFails(p)
    <2>1. Saved(p) \/ UNCHANGED migrations
      BY <1>11 DEF CommitFails
    <2> QED
      BY <1>11, <1>c, <2>1, SavedTypes, DropTypes, FaultType
         DEF CommitFails, TypeOK, items, rclone
  <1>12. CASE PollerCrash(p)
    BY <1>12, <1>c, FaultType DEF PollerCrash, TypeOK, items, migrations, rclone
  <1> QED
    BY <1>1, <1>2, <1>3, <1>4, <1>5, <1>6, <1>7, <1>8, <1>9, <1>10, <1>11, <1>12
       DEF PollerStep, PollerFault

LEMMA TypeStep == TypeInv /\ [Next]_vars => TypeInv'
  <1>1. ASSUME TypeInv, UNCHANGED vars PROVE TypeInv'
    BY <1>1 DEF TypeInv, TypeOK, Held, vars, items, migrations, rclone, copier, poller
  <1> QED
    BY <1>1, CopierTypes, WorldTypes, PollerTypes DEF Next

LEMMA TypeInvariance == Spec => []TypeInv
  BY InitTypes, TypeStep, PTL DEF Spec

\* Every variable of the migration service keeps its type.
THEOREM TypeCorrect == Spec => []TypeOK
  <1>1. TypeInv => TypeOK
    BY DEF TypeInv
  <1> QED
    BY <1>1, TypeInvariance, PTL

(***************************************************************************)
(* Completion.  With one poller the migrations of a pass stay open until   *)
(* their turn has come, and a request records a migration for a row of its *)
(* own that has none yet.                                                  *)
(***************************************************************************)
SinglePoller == \A p, q \in Pollers : p = q

RequestInv ==
    /\ \A u \in Uids : mig[u] # "none" => row[u] # "none"
    /\ \A c \in Copiers :
          /\ cpc[c] \in {"launch", "record"} => mig[new[c]] = "none"
          /\ new[c] # Nothing => \A b \in Copiers \ {c} : new[b] # new[c]

PassInv ==
    \A p \in Pollers :
        /\ todo[p] \subseteq Open
        /\ ppc[p] \in {"lookup", "settle", "save"} => cur[p] \in Open \ todo[p]

CompletionInv == RequestInv /\ PassInv /\ CompletionAnnouncedOnce

\* What a step of a request does to the rows and the migrations.
LEMMA CopierEffect ==
    ASSUME TypeInv, NEW c \in Copiers,
           \/ \E o \in Oids, d \in Storages : Ask(c, o, d)
           \/ CopierStep(c) \/ CopierFault(c)
    PROVE  /\ UNCHANGED <<announced, poller>>
           /\ \/ UNCHANGED mig
              \/ cpc[c] = "record" /\ mig' = [mig EXCEPT ![new[c]] = "open"]
           /\ \A u \in Uids : row[u] # "none" => row'[u] # "none"
           /\ \A b \in Copiers \ {c} : cpc'[b] = cpc[b] /\ new'[b] = new[b]
           /\ cpc'[c] \in {"launch", "record"} =>
                 \/ /\ cpc[c] = "init" /\ row[new'[c]] = "none" /\ new'[c] \in Uids
                    /\ UNCHANGED mig
                 \/ cpc[c] = "launch" /\ new'[c] = new[c] /\ UNCHANGED mig
           /\ \/ new'[c] \in {Nothing, new[c]}
              \/ row[new'[c]] = "none" /\ new'[c] \in Uids
  <1> USE DEF TypeInv
  <1>1. ASSUME NEW o \in Oids, NEW d \in Storages, Ask(c, o, d) PROVE cpc'[c] = "init" /\ UNCHANGED <<row, mig, announced, new, poller>> /\ \A b \in Copiers \ {c} : cpc'[b] = cpc[b]
    BY <1>1 DEF Ask, TypeOK, items, migrations
  <1>2. CASE \E u \in Uids : InitDataItem(c, u)
    BY <1>2 DEF InitDataItem, TypeOK, migrations
  <1>3. CASE RcloneCopy(c)
    BY <1>3 DEF RcloneCopy, TypeOK, items
  <1>4. CASE RcloneCopyFails(c)
    BY <1>4 DEF RcloneCopyFails, TypeOK, items, migrations
  <1>5. CASE CreateMigrationRecord(c)
    BY <1>5 DEF CreateMigrationRecord, Leave, TypeOK, items
  <1>6. CASE CreateMigrationRecordFails(c)
    BY <1>6 DEF CreateMigrationRecordFails, TypeOK, items
  <1>7. CASE Undo(c)
    BY <1>7 DEF Undo, UndoTo, Leave, TypeOK, migrations
  <1>8. CASE CopierFails(c)
    BY <1>8 DEF CopierFails, Leave, TypeOK, items, migrations
  <1> QED
    BY <1>1, <1>2, <1>3, <1>4, <1>5, <1>6, <1>7, <1>8 DEF CopierStep, CopierFault

\* What a step of a poller does to the rows and the migrations.
LEMMA PollerEffect ==
    ASSUME TypeInv, NEW p \in Pollers, PollerStep(p) \/ PollerFault(p)
    PROVE  /\ UNCHANGED copier
           /\ \A u \in Uids : row[u] # "none" => row'[u] # "none"
           /\ \/ /\ UNCHANGED migrations
                 /\ \/ todo'[p] = Open /\ ppc'[p] = "pass"
                    \/ /\ todo'[p] \subseteq todo[p]
                       /\ ppc'[p] \in {"lookup", "settle", "save"} =>
                             \/ /\ cur'[p] = cur[p] /\ todo'[p] = todo[p]
                                /\ ppc[p] \in {"lookup", "settle", "save"}
                             \/ cur'[p] \in todo[p] \ todo'[p]
              \/ /\ Saved(p) /\ ppc[p] = "save" /\ ppc'[p] = "pass"
                 /\ todo'[p] = todo[p]
  <1> USE DEF TypeInv
  <1>0. ASSUME Settled(p) \/ UNCHANGED row
        PROVE  \A u \in Uids : row[u] # "none" => row'[u] # "none"
    BY <1>0, SettledTypes
  <1>d. ASSUME Drop(p) PROVE ppc'[p] = "pass"
    BY <1>d DEF Drop, TypeOK
  <1>1. CASE BeginPass(p)
    BY <1>1 DEF BeginPass, TypeOK, items
  <1>2. CASE EndPass(p)
    BY <1>2 DEF EndPass, TypeOK, items
  <1>3. ASSUME NEW u \in Uids, QueryJobStatus(p, u)
        PROVE  /\ UNCHANGED <<items, migrations, copier>>
               /\ todo'[p] \subseteq todo[p] /\ cur'[p] \in todo[p] \ todo'[p]
    BY <1>3 DEF QueryJobStatus, TypeOK
  <1>4. ASSUME NEW u \in Uids, QueryJobUnknown(p, u) \/ QueryJobFails(p, u)
        PROVE  /\ UNCHANGED <<items, migrations, copier>>
               /\ todo'[p] \subseteq todo[p] /\ ppc'[p] = "pass"
    BY <1>4 DEF QueryJobUnknown, QueryJobFails, Skip, TypeOK
  <1>5. CASE QueryDataItem(p)
    BY <1>5 DEF QueryDataItem, items
  <1>6. CASE SetStateOrDelete(p)
    BY <1>0, <1>6 DEF SetStateOrDelete
  <1>7. CASE SetStateOfNothing(p)
    BY <1>d, <1>7 DEF SetStateOfNothing, items
  <1>8. CASE UpdateMigration(p)
    BY <1>d, <1>8 DEF UpdateMigration, items
  <1>9. CASE UpdateOnBrokenSession(p)
    BY <1>d, <1>9 DEF UpdateOnBrokenSession, items
  <1>10. CASE CallFails(p)
    BY <1>0, <1>d, <1>10 DEF CallFails
  <1>11. CASE CommitFails(p)
    BY <1>d, <1>11 DEF CommitFails, items
  <1>12. CASE PollerCrash(p)
    BY <1>12 DEF PollerCrash, items, TypeOK
  <1> QED
    BY <1>1, <1>2, <1>3, <1>4, <1>5, <1>6, <1>7, <1>8, <1>9, <1>10, <1>11, <1>12
       DEF PollerStep, PollerFault, items

\* A request opens only the migration of its own row, which has none yet.
LEMMA CopierOpens ==
    ASSUME TypeInv, RequestInv, NEW c \in Copiers,
           \/ \E o \in Oids, d \in Storages : Ask(c, o, d)
           \/ CopierStep(c) \/ CopierFault(c)
    PROVE  /\ RequestInv'
           /\ \/ UNCHANGED mig
              \/ /\ cpc[c] = "record" /\ new[c] \in Uids /\ mig[new[c]] = "none"
                 /\ mig' = [mig EXCEPT ![new[c]] = "open"]
  <1> USE RowsAssumption
  <1>e. /\ \/ UNCHANGED mig
           \/ cpc[c] = "record" /\ mig' = [mig EXCEPT ![new[c]] = "open"]
        /\ \A u \in Uids : row[u] # "none" => row'[u] # "none"
        /\ \A b \in Copiers \ {c} : cpc'[b] = cpc[b] /\ new'[b] = new[b]
        /\ cpc'[c] \in {"launch", "record"} =>
              \/ /\ cpc[c] = "init" /\ row[new'[c]] = "none" /\ new'[c] \in Uids
                 /\ UNCHANGED mig
              \/ cpc[c] = "launch" /\ new'[c] = new[c] /\ UNCHANGED mig
        /\ \/ new'[c] \in {Nothing, new[c]}
           \/ row[new'[c]] = "none" /\ new'[c] \in Uids
    BY CopierEffect
  <1>n. /\ new \in [Copiers -> Uids \cup {Nothing}]
        /\ mig \in [Uids -> {"none", "open", "complete"}]
        /\ \A b \in Copiers : new[b] # Nothing => row[new[b]] # "none"
        /\ \A b \in Copiers : cpc[b] \in {"launch", "record"} => new[b] \in Uids
    BY DEF TypeInv, TypeOK, Held
  <1>m. \/ UNCHANGED mig
        \/ /\ cpc[c] = "record" /\ new[c] \in Uids /\ mig[new[c]] = "none"
           /\ mig' = [mig EXCEPT ![new[c]] = "open"]
    BY <1>e, <1>n DEF RequestInv
  <1>1. \A b \in Copiers : cpc'[b] \in {"launch", "record"} => mig'[new'[b]] = "none"
    <2>1. ASSUME cpc'[c] \in {"launch", "record"} PROVE mig'[new'[c]] = "none"
      BY <1>e, <1>n, <2>1 DEF RequestInv
    <2>2. ASSUME NEW b \in Copiers \ {c}, cpc'[b] \in {"launch", "record"}
          PROVE  mig'[new'[b]] = "none"
      <3>1. mig[new[b]] = "none" /\ new'[b] = new[b] /\ new[b] \in Uids
        BY <1>e, <1>n, <2>2 DEF RequestInv
      <3>2. cpc[c] = "record" => new[b] # new[c]
        BY <1>n, <2>2 DEF RequestInv
      <3> QED
        BY <1>m, <1>n, <3>1, <3>2
    <2> QED
      BY <2>1, <2>2
  <1>2. \A b \in Copiers : new'[b] # Nothing => \A a \in Copiers \ {b} : new'[a] # new'[b]
    BY <1>e, <1>n DEF RequestInv
  <1>3. \A u \in Uids : mig'[u] # "none" => row'[u] # "none"
    BY <1>e, <1>m, <1>n DEF RequestInv
  <1> QED
    BY <1>1, <1>2, <1>3, <1>m DEF RequestInv

\* A request disturbs nobody's pass.
LEMMA CopierCompletion ==
    ASSUME TypeInv, CompletionInv, NEW c \in Copiers,
           \/ \E o \in Oids, d \in Storages : Ask(c, o, d)
           \/ CopierStep(c) \/ CopierFault(c)
    PROVE  CompletionInv'
  <1>e. UNCHANGED <<announced, poller>>
    BY CopierEffect
  <1>m. /\ RequestInv'
        /\ \/ UNCHANGED mig
           \/ /\ new[c] \in Uids /\ mig[new[c]] = "none"
              /\ mig' = [mig EXCEPT ![new[c]] = "open"]
    BY CopierOpens DEF CompletionInv
  <1>n. /\ mig \in [Uids -> {"none", "open", "complete"}]
        /\ announced \in [Uids -> Nat]
    BY DEF TypeInv, TypeOK
  <1>1. CompletionAnnouncedOnce'
    BY <1>e, <1>m, <1>n DEF CompletionInv, CompletionAnnouncedOnce
  <1>2. PassInv'
    <2>1. Open \subseteq Open' /\ UNCHANGED <<todo, ppc, cur>>
      BY <1>e, <1>m, <1>n DEF Open, poller
    <2> QED
      BY <2>1 DEF CompletionInv, PassInv
  <1> QED
    BY <1>1, <1>2, <1>m DEF CompletionInv

\* The only poller settles what its pass still holds open.
LEMMA PollerCompletion ==
    ASSUME SinglePoller, TypeInv, CompletionInv, NEW p \in Pollers,
           PollerStep(p) \/ PollerFault(p)
    PROVE  CompletionInv'
  <1>t. /\ mig \in [Uids -> {"none", "open", "complete"}]
        /\ announced \in [Uids -> Nat]
        /\ todo \in [Pollers -> SUBSET Uids]
        /\ \A c \in Copiers : cpc[c] \in {"launch", "record"} => new[c] \in Uids
    BY DEF TypeInv, TypeOK, Held
  <1>p. \A q \in Pollers : q = p
    BY DEF SinglePoller
  <1>e. /\ UNCHANGED <<cpc, new>>
        /\ \A u \in Uids : row[u] # "none" => row'[u] # "none"
    BY PollerEffect DEF copier
  <1>1. CASE /\ UNCHANGED migrations
             /\ \/ todo'[p] = Open /\ ppc'[p] = "pass"
                \/ /\ todo'[p] \subseteq todo[p]
                   /\ ppc'[p] \in {"lookup", "settle", "save"} =>
                         \/ /\ cur'[p] = cur[p] /\ todo'[p] = todo[p]
                            /\ ppc[p] \in {"lookup", "settle", "save"}
                         \/ cur'[p] \in todo[p] \ todo'[p]
    <2>1. mig' = mig /\ announced' = announced /\ Open' = Open
      BY <1>1 DEF migrations, Open
    <2>2. PassInv'
      BY <1>1, <1>p, <2>1 DEF CompletionInv, PassInv
    <2> QED
      BY <1>e, <2>1, <2>2 DEF CompletionInv, RequestInv, CompletionAnnouncedOnce
  <1>2. CASE /\ Saved(p) /\ ppc[p] = "save" /\ ppc'[p] = "pass"
             /\ todo'[p] = todo[p]
    <2>1. cur[p] \in Uids /\ mig[cur[p]] = "open" /\ cur[p] \notin todo[p]
      BY <1>2 DEF CompletionInv, PassInv, Open
    <2>2. \/ UNCHANGED <<mig, announced>>
          \/ /\ mig' = [mig EXCEPT ![cur[p]] = "complete"]
             /\ announced' = [announced EXCEPT ![cur[p]] = @ + 1]
      <3>1. mig[cur[p]] = "open" => [mig EXCEPT ![cur[p]] = "open"] = mig
        BY <1>t, <2>1
      <3> QED
        BY <1>2, <2>1, <3>1 DEF Saved
    <2>3. CompletionAnnouncedOnce'
      BY <1>t, <2>1, <2>2 DEF CompletionInv, CompletionAnnouncedOnce
    <2>4. PassInv'
      <3>1. todo[p] \subseteq Open'
        BY <1>t, <2>1, <2>2 DEF CompletionInv, PassInv, Open
      <3> QED
        BY <1>2, <1>p, <3>1 DEF PassInv
    <2>5. \A c \in Copiers : cpc[c] \in {"launch", "record"} => mig'[new[c]] = "none"
      BY <1>t, <2>1, <2>2 DEF CompletionInv, RequestInv
    <2>6. \A u \in Uids : mig'[u] # "none" => row'[u] # "none"
      BY <1>t, <1>e, <2>1, <2>2 DEF CompletionInv, RequestInv
    <2> QED
      BY <1>e, <1>t, <2>1, <2>2, <2>3, <2>4, <2>5, <2>6 DEF CompletionInv, RequestInv
  <1> QED
    BY <1>1, <1>2, PollerEffect

\* What rclone and the retention engine leave alone.
LEMMA WorldEffect ==
    ASSUME TypeInv, (\E u \in Uids : JobEnds(u) \/ Remove(u)) \/ RcloneFault
    PROVE  /\ UNCHANGED <<migrations, copier, poller>>
           /\ \A u \in Uids : row[u] # "none" => row'[u] # "none"
  <1>1. ASSUME NEW u \in Uids, JobEnds(u)
        PROVE  UNCHANGED <<row, migrations, copier, poller>>
    BY <1>1 DEF JobEnds, JobSucceeds, JobFails, items
  <1>2. ASSUME NEW u \in Uids, Remove(u)
        PROVE  /\ UNCHANGED <<migrations, copier, poller>>
               /\ row' = [row EXCEPT ![u] = "DELETED"]
    BY <1>2 DEF Remove
  <1>3. RcloneFault => UNCHANGED <<row, migrations, copier, poller>>
    BY DEF RcloneFault, RcloneRestarts, JobForgotten, items
  <1> QED
    BY <1>1, <1>2, <1>3 DEF TypeInv, TypeOK

LEMMA CompletionStep ==
    ASSUME SinglePoller, TypeInv, CompletionInv, [Next]_vars
    PROVE  CompletionInv'
  <1>1. ASSUME UNCHANGED <<migrations, copier, poller>>,
               \A u \in Uids : row[u] # "none" => row'[u] # "none"
        PROVE  CompletionInv'
    BY <1>1 DEF CompletionInv, RequestInv, PassInv, CompletionAnnouncedOnce, Open,
               migrations, copier, poller
  <1>2. CASE UNCHANGED vars
    BY <1>1, <1>2 DEF vars, items
  <1>3. CASE (\E u \in Uids : JobEnds(u) \/ Remove(u)) \/ RcloneFault
    BY <1>1, <1>3, WorldEffect
  <1> QED
    BY <1>2, <1>3, CopierCompletion, PollerCompletion DEF Next

LEMMA CompletionInvariance ==
    ASSUME SinglePoller PROVE Spec => [](TypeInv /\ CompletionInv)
  <1>1. Init => CompletionInv
    BY DEF Init, CompletionInv, RequestInv, PassInv, CompletionAnnouncedOnce, Open
  <1>2. CompletionInv /\ TypeInv /\ [Next]_vars => CompletionInv'
    BY CompletionStep
  <1> QED
    BY <1>1, <1>2, InitTypes, TypeStep, PTL DEF Spec

\* A completed migration is reported by one outbox event, whatever fails and is
\* tried again: the event is raised in the transaction that completes it.
THEOREM CompletionIsAnnouncedOnce ==
    ASSUME SinglePoller PROVE Spec => []CompletionAnnouncedOnce
  <1>1. CompletionInv => CompletionAnnouncedOnce
    BY DEF CompletionInv
  <1> QED
    BY <1>1, CompletionInvariance, PTL

(***************************************************************************)
(* READY rows are real, with any number of pollers, while the retention    *)
(* engine removes nothing and rclone keeps numbering its jobs: a number    *)
(* then names one job for good, so the answer a poller gets is about the   *)
(* migration it asked for.                                                 *)
(***************************************************************************)
JobsInv ==
    /\ \A j \in jobs : 0 < j[1] /\ j[1] < nextJob
    /\ \A u \in Uids : jobId[u] < nextJob
    /\ \A u, v \in Uids : <<jobId[u], v>> \in jobs => u = v

CopiedInv ==
    /\ ReadyIsReal
    /\ \A u \in Uids : copying[u] = "success" => place[u] \in payload
    /\ \A u \in Uids : mig[u] # "none" => row[u] # "none"

VerdictInv ==
    \A p \in Pollers :
        /\ \A u \in todo[p] : row[u] # "none"
        /\ ppc[p] \in {"lookup", "settle", "save"} =>
              /\ row[cur[p]] # "none"
              /\ verdict[p] = "success" => place[cur[p]] \in payload
        /\ ppc[p] = "settle" => /\ row[target[p]] # "none"
                                /\ place[target[p]] = place[cur[p]]

ReadyInv == JobsInv /\ CopiedInv /\ VerdictInv

\* What everything but a poller's settling does to the rows and the payloads:
\* a row that exists keeps its place, and no row becomes READY.
RowsKept ==
    /\ \A u \in Uids : row[u] # "none" => row'[u] # "none" /\ place'[u] = place[u]
    /\ \A u \in Uids : row'[u] = "READY" => row[u] = "READY"
    /\ payload \subseteq payload'

LEMMA CopiedKept ==
    ASSUME TypeInv, CopiedInv, RowsKept,
           \A u \in Uids : copying'[u] = "success" =>
                              copying[u] = "success" \/ place'[u] \in payload',
           \A u \in Uids : mig'[u] # "none" => mig[u] # "none" \/ row'[u] # "none"
    PROVE  CopiedInv'
  BY DEF TypeInv, Held, CopiedInv, ReadyIsReal, RowsKept

LEMMA VerdictKept ==
    ASSUME TypeInv, VerdictInv, RowsKept, UNCHANGED poller
    PROVE  VerdictInv'
  <1>1. \A p \in Pollers : /\ todo[p] \subseteq Uids
                           /\ ppc[p] \in {"lookup", "settle", "save"} => cur[p] \in Uids
                           /\ ppc[p] = "settle" => target[p] \in Uids
    BY DEF TypeInv, TypeOK, Held
  <1> QED
    BY <1>1 DEF VerdictInv, RowsKept, poller

\* A request gives its job a number nobody has.
LEMMA CopierReady ==
    ASSUME TypeInv, ReadyInv, NEW c \in Copiers,
           \/ \E o \in Oids, d \in Storages : Ask(c, o, d)
           \/ CopierStep(c) \/ CopierFault(c)
    PROVE  ReadyInv'
  <1>e. /\ UNCHANGED poller
        /\ \A u \in Uids : row[u] # "none" => row'[u] # "none"
        /\ \/ UNCHANGED mig
           \/ cpc[c] = "record" /\ mig' = [mig EXCEPT ![new[c]] = "open"]
    BY CopierEffect
  <1>t. /\ row \in [Uids -> {"none", "INITIALISED", "READY", "DELETED", "gone"}]
        /\ mig \in [Uids -> {"none", "open", "complete"}]
        /\ place \in [Uids -> Places \cup {Nothing}]
        /\ copying \in [Uids -> {"none", "running", "success", "failed", "lost"}]
        /\ jobId \in [Uids -> Nat] /\ nextJob \in Nat \ {0} /\ jobs \in SUBSET (Nat \X Uids)
        /\ cpc[c] \in {"launch", "record", "undo"} => new[c] \in Uids /\ row[new[c]] # "none"
    BY RowsAssumption DEF TypeInv, TypeOK, Held
  <1>m. \A u \in Uids : mig'[u] # "none" => mig[u] # "none" \/ row'[u] # "none"
    BY <1>e, <1>t
  <1>1. CASE \E u \in Uids : InitDataItem(c, u)
    <2>1. PICK u \in Uids : InitDataItem(c, u)
      BY <1>1
    <2>2. RowsKept
      BY <1>t, <2>1 DEF InitDataItem, RowsKept
    <2>3. UNCHANGED <<jobs, nextJob, jobId, copying>>
      BY <2>1 DEF InitDataItem, rclone, migrations
    <2>4. JobsInv'
      BY <2>3 DEF ReadyInv, JobsInv
    <2> QED
      BY <1>e, <1>m, <2>2, <2>3, <2>4, CopiedKept, VerdictKept DEF ReadyInv
  <1>2. CASE Undo(c)
    <2>1. RowsKept
      BY <1>t, <1>2 DEF Undo, UndoTo, RowsKept
    <2>2. UNCHANGED <<jobs, nextJob, jobId, copying>>
      BY <1>2 DEF Undo, UndoTo, rclone, migrations
    <2>3. JobsInv'
      BY <2>2 DEF ReadyInv, JobsInv
    <2> QED
      BY <1>e, <1>m, <2>1, <2>2, <2>3, CopiedKept, VerdictKept DEF ReadyInv
  <1>3. ASSUME UNCHANGED items,
               \/ UNCHANGED rclone /\ UNCHANGED jobId
               \/ /\ RcloneStarts(c) /\ new[c] \in Uids
                  /\ \/ UNCHANGED jobId
                     \/ jobId' = [jobId EXCEPT ![new[c]] = nextJob]
        PROVE  ReadyInv'
    <2>1. RowsKept
      BY <1>3 DEF items, RowsKept
    <2>2. \A u \in Uids : copying'[u] = "success" => copying[u] = "success"
      BY <1>t, <1>3 DEF rclone, RcloneStarts
    <2>3. JobsInv'
      <3>1. CASE UNCHANGED rclone /\ UNCHANGED jobId
        BY <3>1 DEF ReadyInv, JobsInv, rclone
      <3>2. CASE RcloneStarts(c) /\ new[c] \in Uids /\ UNCHANGED jobId
        BY <1>t, <3>2 DEF ReadyInv, JobsInv, RcloneStarts
      <3>3. CASE /\ RcloneStarts(c) /\ new[c] \in Uids
                 /\ jobId' = [jobId EXCEPT ![new[c]] = nextJob]
        BY <1>t, <3>3 DEF ReadyInv, JobsInv, RcloneStarts
      <3> QED
        BY <1>3, <3>1, <3>2, <3>3
    <2> QED
      BY <1>e, <1>m, <2>1, <2>2, <2>3, CopiedKept, VerdictKept DEF ReadyInv
  <1>4. ASSUME NEW o \in Oids, NEW d \in Storages, Ask(c, o, d) PROVE ReadyInv'
    BY <1>3, <1>4 DEF Ask, migrations
  <1>5. CASE RcloneCopy(c)
    BY <1>3, <1>5, <1>t DEF RcloneCopy
  <1>6. CASE RcloneCopyFails(c)
    BY <1>3, <1>6, <1>t DEF RcloneCopyFails, migrations
  <1>7. CASE CreateMigrationRecord(c)
    BY <1>3, <1>7 DEF CreateMigrationRecord
  <1>8. CASE CreateMigrationRecordFails(c)
    BY <1>3, <1>8 DEF CreateMigrationRecordFails
  <1>9. CASE CopierFails(c)
    BY <1>3, <1>9 DEF CopierFails, migrations
  <1> QED
    BY <1>1, <1>2, <1>4, <1>5, <1>6, <1>7, <1>8, <1>9 DEF CopierStep, CopierFault

\* What rclone does: it starts no job of its own, and stores the payload before
\* it says so.
RcloneHonest ==
    /\ RowsKept
    /\ UNCHANGED <<nextJob, jobId, mig, poller>>
    /\ jobs' \subseteq jobs
    /\ \A u \in Uids : copying'[u] = "success" =>
                          copying[u] = "success" \/ place'[u] \in payload'

LEMMA WorldReady ==
    ASSUME ~Retention, "restart" \notin FaultKinds, TypeInv, ReadyInv,
           (\E u \in Uids : JobEnds(u) \/ Remove(u)) \/ RcloneFault
    PROVE  ReadyInv'
  <1>t. copying \in [Uids -> {"none", "running", "success", "failed", "lost"}]
    BY DEF TypeInv, TypeOK
  <1>1. RcloneHonest
    <2>1. ASSUME NEW u \in Uids, JobSucceeds(u)
          PROVE  RcloneHonest
      BY <1>t, <2>1 DEF JobSucceeds, RcloneHonest, RowsKept, migrations
    <2>2. ASSUME NEW u \in Uids, JobFails(u)
          PROVE  RcloneHonest
      BY <1>t, <2>2 DEF JobFails, RcloneHonest, RowsKept, migrations, items
    <2>3. ASSUME NEW u \in Uids, JobForgotten(u)
          PROVE  RcloneHonest
      BY <2>3 DEF JobForgotten, RcloneHonest, RowsKept, migrations, items
    <2> QED
      BY <2>1, <2>2, <2>3 DEF JobEnds, Remove, RcloneFault, RcloneRestarts, FaultOf
  <1>2. JobsInv'
    BY <1>1 DEF ReadyInv, JobsInv, RcloneHonest
  <1> QED
    BY <1>1, <1>2, CopiedKept, VerdictKept DEF ReadyInv, RcloneHonest

\* A poller makes READY only what rclone has said is there.
LEMMA SettledReal ==
    ASSUME TypeInv, ReadyInv, NEW p \in Pollers, ppc[p] = "settle",
           Settled(p) \/ UNCHANGED row, UNCHANGED <<place, payload>>
    PROVE  /\ ReadyIsReal'
           /\ \A u \in Uids : row[u] # "none" <=> row'[u] # "none"
  <1>1. target[p] \in Uids /\ (verdict[p] = "success" => place[target[p]] \in payload)
    BY DEF TypeInv, Held, ReadyInv, VerdictInv
  <1>2. \A u \in Uids : row[u] = "READY" => place[u] \in payload
    BY DEF ReadyInv, CopiedInv, ReadyIsReal
  <1>3. \A u \in Uids : row'[u] = "READY" =>
            row[u] = "READY" \/ (u = target[p] /\ verdict[p] = "success")
    BY DEF Settled, TypeInv, TypeOK
  <1> QED
    BY <1>1, <1>2, <1>3, SettledTypes DEF ReadyIsReal

\* The poller's own place in its pass, after a step that keeps every row.
LEMMA PassReady ==
    ASSUME TypeInv, ReadyInv, NEW p \in Pollers, PollerStep(p) \/ PollerFault(p),
           UNCHANGED <<place, payload>>,
           \A u \in Uids : row[u] # "none" <=> row'[u] # "none"
    PROVE  VerdictInv'
  <1> USE DEF TypeInv, ReadyInv
  <1>t. /\ todo \in [Pollers -> SUBSET Uids]
        /\ ppc \in [Pollers -> {"idle", "pass", "lookup", "settle", "save"}]
        /\ cur \in [Pollers -> Uids \cup {Nothing}]
        /\ target \in [Pollers -> Uids \cup {Nothing}]
        /\ verdict \in [Pollers -> {"running", "success", "failed"}]
        /\ \A q \in Pollers : /\ ppc[q] \in {"lookup", "settle", "save"} => cur[q] \in Uids
                              /\ ppc[q] = "settle" => target[q] \in Uids
    BY DEF TypeOK, Held
  <1>v. \A q \in Pollers :
            /\ \A u \in todo[q] : row'[u] # "none"
            /\ ppc[q] \in {"lookup", "settle", "save"} =>
                  /\ row'[cur[q]] # "none"
                  /\ verdict[q] = "success" => place'[cur[q]] \in payload'
            /\ ppc[q] = "settle" => /\ row'[target[q]] # "none"
                                    /\ place'[target[q]] = place'[cur[q]]
    BY <1>t DEF VerdictInv
  <1>d. ASSUME Drop(p), UNCHANGED todo PROVE VerdictInv'
    BY <1>d, <1>t, <1>v DEF VerdictInv, Drop
  <1>1. CASE BeginPass(p)
    <2>1. \A u \in Open : row'[u] # "none"
      BY DEF Open, CopiedInv
    <2>2. /\ todo' = [todo EXCEPT ![p] = Open] /\ ppc' = [ppc EXCEPT ![p] = "pass"]
          /\ UNCHANGED <<cur, verdict, target>>
      BY <1>1 DEF BeginPass
    <2> QED
      BY <1>t, <1>v, <2>1, <2>2 DEF VerdictInv
  <1>2. CASE EndPass(p)
    BY <1>2, <1>t, <1>v DEF EndPass, VerdictInv
  <1>3. ASSUME NEW u \in Uids, QueryJobStatus(p, u) PROVE VerdictInv'
    <2>1. PICK v \in JobsNumbered(jobId[u]) :
              /\ verdict' = [verdict EXCEPT ![p] = copying[v]]
              /\ ppc' = [ppc EXCEPT ![p] = IF copying[v] = "running" THEN "save" ELSE "lookup"]
      BY <1>3 DEF QueryJobStatus
    <2>2. v = u
      BY <2>1 DEF JobsNumbered, JobsInv
    <2>3. copying[u] = "success" => place'[u] \in payload'
      BY DEF CopiedInv
    <2>4. row'[u] # "none" /\ ppc[p] = "pass"
      BY <1>3, <1>v DEF QueryJobStatus
    <2>5. /\ todo' = [todo EXCEPT ![p] = @ \ {u}] /\ cur' = [cur EXCEPT ![p] = u]
          /\ UNCHANGED target
      BY <1>3 DEF QueryJobStatus
    <2> QED
      BY <1>t, <1>v, <2>1, <2>2, <2>3, <2>4, <2>5 DEF VerdictInv
  <1>4. ASSUME NEW u \in Uids, QueryJobUnknown(p, u) \/ QueryJobFails(p, u) PROVE VerdictInv'
    BY <1>4, <1>t, <1>v DEF QueryJobUnknown, QueryJobFails, Skip, VerdictInv
  <1>5. CASE QueryDataItem(p)
    <2>1. \A t \in RowsAt(place[cur[p]]) : /\ t \in Uids /\ row'[t] # "none"
                                           /\ place'[t] = place'[cur[p]]
      BY DEF RowsAt, Existing
    <2>2. /\ ppc[p] = "lookup" /\ UNCHANGED <<todo, cur, verdict>>
          /\ \/ /\ \E t \in RowsAt(place[cur[p]]) : target' = [target EXCEPT ![p] = t]
                /\ ppc' = [ppc EXCEPT ![p] = "settle"]
             \/ /\ ppc' = [ppc EXCEPT ![p] = "save"]
                /\ UNCHANGED target
      BY <1>5 DEF QueryDataItem
    <2> QED
      BY <1>t, <1>v, <2>1, <2>2 DEF VerdictInv
  <1>6. CASE SetStateOrDelete(p)
    BY <1>6, <1>t, <1>v DEF SetStateOrDelete, VerdictInv
  <1>7. CASE SetStateOfNothing(p)
    BY <1>7, <1>d DEF SetStateOfNothing
  <1>8. CASE UpdateMigration(p)
    BY <1>8, <1>d DEF UpdateMigration
  <1>9. CASE UpdateOnBrokenSession(p)
    BY <1>9, <1>d DEF UpdateOnBrokenSession
  <1>10. CASE CallFails(p)
    BY <1>10, <1>d DEF CallFails
  <1>11. CASE CommitFails(p)
    BY <1>11, <1>d DEF CommitFails
  <1>12. CASE PollerCrash(p)
    BY <1>12, <1>t, <1>v DEF PollerCrash, VerdictInv
  <1> QED
    BY <1>1, <1>2, <1>3, <1>4, <1>5, <1>6, <1>7, <1>8, <1>9, <1>10, <1>11, <1>12
       DEF PollerStep, PollerFault

LEMMA PollerReady ==
    ASSUME TypeInv, ReadyInv, NEW p \in Pollers, PollerStep(p) \/ PollerFault(p)
    PROVE  ReadyInv'
  <1>1. UNCHANGED <<place, payload, rclone>>
    BY DEF PollerStep, PollerFault, BeginPass, EndPass, QueryJobStatus, QueryJobUnknown,
           QueryJobFails, Skip, QueryDataItem, SetStateOrDelete, SetStateOfNothing, UpdateMigration,
           UpdateOnBrokenSession, CallFails, CommitFails, PollerCrash, items
  <1>2. \/ UNCHANGED row
        \/ ppc[p] = "settle" /\ Settled(p)
    BY DEF PollerStep, PollerFault, BeginPass, EndPass, QueryJobStatus, QueryJobUnknown,
           QueryJobFails, Skip, QueryDataItem, SetStateOrDelete, SetStateOfNothing, UpdateMigration,
           UpdateOnBrokenSession, CallFails, CommitFails, PollerCrash, items
  <1>3. /\ ReadyIsReal'
        /\ \A u \in Uids : row[u] # "none" <=> row'[u] # "none"
    <2>1. CASE UNCHANGED row
      BY <1>1, <2>1 DEF ReadyInv, CopiedInv, ReadyIsReal
    <2>2. CASE ppc[p] = "settle" /\ Settled(p)
      BY <1>1, <2>2, SettledReal
    <2> QED
      BY <1>2, <2>1, <2>2
  <1>4. /\ jobId' = jobId
        /\ \A u \in Uids : mig'[u] # "none" => mig[u] # "none" \/ row[u] # "none"
    <2>1. CASE UNCHANGED migrations
      BY <2>1 DEF migrations
    <2>2. CASE Saved(p) /\ ppc[p] = "save"
      <3>1. cur[p] \in Uids /\ row[cur[p]] # "none"
        BY <2>2 DEF TypeInv, Held, ReadyInv, VerdictInv
      <3> QED
        BY <2>2, <3>1 DEF Saved, TypeInv, TypeOK
    <2> QED
      BY <2>1, <2>2, PollerEffect
  <1>5. JobsInv'
    BY <1>1, <1>4 DEF ReadyInv, JobsInv, rclone
  <1>6. CopiedInv'
    BY <1>1, <1>3, <1>4 DEF ReadyInv, CopiedInv, rclone
  <1>7. VerdictInv'
    BY <1>1, <1>3, PassReady
  <1> QED
    BY <1>5, <1>6, <1>7 DEF ReadyInv

\* While rclone keeps its job numbers and no copy is removed, every READY row
\* has its payload, whatever fails and however many pollers run.
THEOREM ReadyRowsAreReal ==
    ASSUME ~Retention, "restart" \notin FaultKinds
    PROVE  Spec => []ReadyIsReal
  <1>1. Init => ReadyInv
    BY RowsAssumption
       DEF Init, ReadyInv, JobsInv, CopiedInv, VerdictInv, ReadyIsReal
  <1>2. TypeInv /\ ReadyInv /\ [Next]_vars => ReadyInv'
    <2>1. ASSUME TypeInv, ReadyInv, UNCHANGED vars PROVE ReadyInv'
      <3>1. UNCHANGED <<row, place, payload, mig, jobId, copying, jobs, nextJob>>
        BY <2>1 DEF vars, items, migrations, rclone
      <3>2. UNCHANGED poller
        BY <2>1 DEF vars
      <3> QED
        BY <2>1, <3>1, <3>2
           DEF ReadyInv, JobsInv, CopiedInv, VerdictInv, ReadyIsReal, poller
    <2> QED
      BY <2>1, CopierReady, WorldReady, PollerReady DEF Next
  <1>3. ReadyInv => ReadyIsReal
    BY DEF ReadyInv, CopiedInv
  <1> QED
    BY <1>1, <1>2, <1>3, InitTypes, TypeStep, PTL DEF Spec

(***************************************************************************)
(* What is announced has ended, with any number of pollers: while rclone   *)
(* keeps numbering its jobs the answer is about the migration in hand, a   *)
(* job that has ended stays ended, and none is started for a migration     *)
(* that is recorded.                                                       *)
(***************************************************************************)
EndedJob(u) == copying[u] \in {"success", "failed"}

InHandInv ==
    \A p \in Pollers :
        /\ \A u \in todo[p] : mig[u] # "none"
        /\ ppc[p] \in {"lookup", "settle", "save"} =>
              /\ mig[cur[p]] # "none"
              /\ verdict[p] # "running" => EndedJob(cur[p])

EndedInv ==
    /\ RequestInv /\ JobsInv /\ InHandInv /\ AnnouncedMeansEnded
    /\ \A u \in Uids : announced[u] > 0 => mig[u] # "none"

\* A request starts a job for the row it has just made, or none.
LEMMA CopierStarts ==
    ASSUME TypeInv, NEW c \in Copiers,
           \/ \E o \in Oids, d \in Storages : Ask(c, o, d)
           \/ CopierStep(c) \/ CopierFault(c)
    PROVE  \/ UNCHANGED <<rclone, jobId>>
           \/ /\ cpc[c] = "launch" /\ new[c] \in Uids /\ RcloneStarts(c)
              /\ \/ UNCHANGED jobId
                 \/ jobId' = [jobId EXCEPT ![new[c]] = nextJob]
  <1>1. cpc[c] = "launch" => new[c] \in Uids
    BY DEF TypeInv, Held
  <1> QED
    BY <1>1 DEF CopierStep, CopierFault, Ask, InitDataItem, RcloneCopy, RcloneCopyFails,
                CreateMigrationRecord, CreateMigrationRecordFails, Undo, UndoTo, CopierFails,
                migrations

\* The pollers that have a migration in hand, while the jobs that have ended
\* stay ended.
LEMMA InHandKept ==
    ASSUME TypeInv, InHandInv, UNCHANGED poller,
           \A u \in Uids : mig[u] # "none" =>
              /\ mig'[u] # "none"
              /\ EndedJob(u) => EndedJob(u)'
    PROVE  InHandInv'
  <1>1. \A p \in Pollers : /\ todo[p] \subseteq Uids
                           /\ ppc[p] \in {"lookup", "settle", "save"} => cur[p] \in Uids
    BY DEF TypeInv, TypeOK, Held
  <1>2. UNCHANGED <<ppc, todo, cur, verdict>>
    BY DEF poller
  <1> QED
    BY <1>1, <1>2 DEF InHandInv, EndedJob

LEMMA CopierEnded ==
    ASSUME TypeInv, EndedInv, NEW c \in Copiers,
           \/ \E o \in Oids, d \in Storages : Ask(c, o, d)
           \/ CopierStep(c) \/ CopierFault(c)
    PROVE  EndedInv'
  <1>e. UNCHANGED <<announced, poller>>
    BY CopierEffect
  <1>m. /\ RequestInv'
        /\ \/ UNCHANGED mig
           \/ /\ new[c] \in Uids /\ mig[new[c]] = "none"
              /\ mig' = [mig EXCEPT ![new[c]] = "open"]
    BY CopierOpens DEF EndedInv
  <1>t. /\ mig \in [Uids -> {"none", "open", "complete"}]
        /\ copying \in [Uids -> {"none", "running", "success", "failed", "lost"}]
        /\ jobId \in [Uids -> Nat] /\ nextJob \in Nat \ {0} /\ jobs \in SUBSET (Nat \X Uids)
    BY DEF TypeInv, TypeOK
  <1>1. CASE UNCHANGED <<rclone, jobId>>
    <2>1. \A u \in Uids : mig[u] # "none" => mig'[u] # "none"
      BY <1>m, <1>t
    <2>2. InHandInv'
      BY <1>1, <1>e, <2>1, InHandKept DEF EndedInv, EndedJob, rclone
    <2> QED
      BY <1>1, <1>e, <1>m, <2>1, <2>2 DEF EndedInv, JobsInv, AnnouncedMeansEnded, rclone
  <1>2. CASE /\ cpc[c] = "launch" /\ new[c] \in Uids /\ RcloneStarts(c)
             /\ \/ UNCHANGED jobId
                \/ jobId' = [jobId EXCEPT ![new[c]] = nextJob]
    <2>1. mig[new[c]] = "none"
      BY <1>2 DEF EndedInv, RequestInv
    <2>2. \A u \in Uids : mig[u] # "none" => mig'[u] # "none" /\ copying'[u] = copying[u]
      BY <1>2, <1>m, <1>t, <2>1 DEF RcloneStarts
    <2>3. InHandInv'
      BY <1>e, <2>2, InHandKept DEF EndedInv, EndedJob
    <2>4. JobsInv'
      BY <1>2, <1>t DEF EndedInv, JobsInv, RcloneStarts
    <2> QED
      BY <1>e, <1>m, <2>2, <2>3, <2>4 DEF EndedInv, AnnouncedMeansEnded
  <1> QED
    BY <1>1, <1>2, CopierStarts

LEMMA WorldEnded ==
    ASSUME "restart" \notin FaultKinds, TypeInv, EndedInv,
           (\E u \in Uids : JobEnds(u) \/ Remove(u)) \/ RcloneFault
    PROVE  EndedInv'
  <1>e. /\ UNCHANGED <<migrations, copier, poller>>
        /\ \A u \in Uids : row[u] # "none" => row'[u] # "none"
    BY WorldEffect
  <1> DEFINE Kept == /\ jobs' \subseteq jobs /\ UNCHANGED nextJob
                     /\ \A u \in Uids : EndedJob(u) => EndedJob(u)'
  <1>1. Kept
    <2>t. copying \in [Uids -> {"none", "running", "success", "failed", "lost"}]
      BY DEF TypeInv, TypeOK
    <2>1. ASSUME NEW u \in Uids, JobEnds(u) PROVE Kept
      BY <2>t, <2>1 DEF JobEnds, JobSucceeds, JobFails, EndedJob
    <2>2. ASSUME NEW u \in Uids, Remove(u) PROVE Kept
      BY <2>2 DEF Remove, rclone, EndedJob
    <2>3. ASSUME NEW u \in Uids, JobForgotten(u) PROVE Kept
      BY <2>3 DEF JobForgotten, EndedJob
    <2> QED
      BY <2>1, <2>2, <2>3 DEF RcloneFault, RcloneRestarts, FaultOf
  <1>2. UNCHANGED <<mig, announced, jobId, cpc, new>>
    BY <1>e DEF migrations, copier
  <1>3. InHandInv'
    BY <1>1, <1>2, <1>e, InHandKept DEF EndedInv
  <1>4. RequestInv'
    BY <1>2, <1>e DEF EndedInv, RequestInv
  <1> QED
    BY <1>1, <1>2, <1>3, <1>4 DEF EndedInv, JobsInv, AnnouncedMeansEnded, EndedJob

\* A poller completes a migration only with an answer that its job has ended.
LEMMA PollerEnded ==
    ASSUME TypeInv, EndedInv, NEW p \in Pollers, PollerStep(p) \/ PollerFault(p)
    PROVE  EndedInv'
  <1>t. /\ mig \in [Uids -> {"none", "open", "complete"}]
        /\ announced \in [Uids -> Nat]
        /\ todo \in [Pollers -> SUBSET Uids]
        /\ ppc \in [Pollers -> {"idle", "pass", "lookup", "settle", "save"}]
        /\ cur \in [Pollers -> Uids \cup {Nothing}]
        /\ verdict \in [Pollers -> {"running", "success", "failed"}]
        /\ \A q \in Pollers : ppc[q] \in {"lookup", "settle", "save"} => cur[q] \in Uids
    BY DEF TypeInv, TypeOK, Held
  <1>r. UNCHANGED rclone
    BY DEF PollerStep, PollerFault, BeginPass, EndPass, QueryJobStatus, QueryJobUnknown,
           QueryJobFails, Skip, QueryDataItem, SetStateOrDelete, SetStateOfNothing, UpdateMigration,
           UpdateOnBrokenSession, CallFails, CommitFails, PollerCrash
  <1>e. /\ UNCHANGED <<cpc, new>>
        /\ \A u \in Uids : row[u] # "none" => row'[u] # "none"
        /\ UNCHANGED migrations \/ (Saved(p) /\ ppc[p] = "save")
    BY PollerEffect DEF copier
  <1>m. /\ \A u \in Uids : mig[u] # "none" <=> mig'[u] # "none"
        /\ jobId' = jobId
        /\ \A u \in Uids : announced'[u] > 0 =>
              announced[u] > 0 \/ (EndedJob(u) /\ mig[u] # "none")
    <2>1. CASE UNCHANGED migrations
      BY <2>1 DEF migrations
    <2>2. CASE Saved(p) /\ ppc[p] = "save"
      <3>1. /\ cur[p] \in Uids /\ mig[cur[p]] # "none"
            /\ verdict[p] # "running" => EndedJob(cur[p])
        BY <1>t, <2>2 DEF EndedInv, InHandInv
      <3>2. /\ mig' \in {[mig EXCEPT ![cur[p]] = "open"], [mig EXCEPT ![cur[p]] = "complete"]}
            /\ jobId' = jobId
            /\ \A u \in Uids : announced'[u] = announced[u] \/ (u = cur[p] /\ verdict[p] # "running")
        BY <1>t, <2>2, <3>1 DEF Saved
      <3>3. \A u \in Uids : mig[u] # "none" <=> mig'[u] # "none"
        BY <1>t, <3>1, <3>2
      <3> QED
        BY <1>t, <3>1, <3>2, <3>3
    <2> QED
      BY <1>e, <2>1, <2>2
  <1>c. \A u \in Uids : EndedJob(u)' <=> EndedJob(u)
    BY <1>r DEF rclone, EndedJob
  <1>v. \A q \in Pollers :
            /\ \A u \in todo[q] : mig'[u] # "none"
            /\ ppc[q] \in {"lookup", "settle", "save"} =>
                  /\ mig'[cur[q]] # "none"
                  /\ verdict[q] # "running" => copying'[cur[q]] \in {"success", "failed"}
    BY <1>t, <1>m, <1>c DEF EndedInv, InHandInv, EndedJob
  <1>i. InHandInv'
    <2> USE DEF EndedJob
    <2>d. ASSUME Drop(p), UNCHANGED todo PROVE InHandInv'
      BY <2>d, <1>t, <1>v DEF InHandInv, Drop
    <2>1. CASE BeginPass(p)
      <3>1. \A u \in Open : mig'[u] # "none"
        BY <1>m DEF Open
      <3>2. /\ todo' = [todo EXCEPT ![p] = Open] /\ ppc' = [ppc EXCEPT ![p] = "pass"]
            /\ UNCHANGED <<cur, verdict>>
        BY <2>1 DEF BeginPass
      <3> QED
        BY <1>t, <1>v, <3>1, <3>2 DEF InHandInv
    <2>2. CASE EndPass(p)
      BY <2>2, <1>t, <1>v DEF EndPass, InHandInv
    <2>3. ASSUME NEW u \in Uids, QueryJobStatus(p, u) PROVE InHandInv'
      <3>1. PICK v \in JobsNumbered(jobId[u]) :
                /\ verdict' = [verdict EXCEPT ![p] = copying[v]]
                /\ ppc' = [ppc EXCEPT ![p] = IF copying[v] = "running" THEN "save" ELSE "lookup"]
        BY <2>3 DEF QueryJobStatus
      <3>2. v = u /\ copying[u] \in {"running", "success", "failed"}
        BY <3>1 DEF JobsNumbered, EndedInv, JobsInv, TypeInv, Held
      <3>3. /\ ppc[p] = "pass" /\ mig'[u] # "none" /\ copying' = copying
            /\ todo' = [todo EXCEPT ![p] = @ \ {u}] /\ cur' = [cur EXCEPT ![p] = u]
        BY <2>3, <1>v DEF QueryJobStatus, rclone
      <3> QED
        BY <1>t, <1>v, <3>1, <3>2, <3>3 DEF InHandInv
    <2>4. ASSUME NEW u \in Uids, QueryJobUnknown(p, u) \/ QueryJobFails(p, u)
          PROVE  InHandInv'
      BY <2>4, <1>t, <1>v DEF QueryJobUnknown, QueryJobFails, Skip, InHandInv
    <2>5. CASE QueryDataItem(p)
      BY <2>5, <1>t, <1>v DEF QueryDataItem, InHandInv
    <2>6. CASE SetStateOrDelete(p)
      BY <2>6, <1>t, <1>v DEF SetStateOrDelete, InHandInv
    <2>7. CASE SetStateOfNothing(p)
      BY <2>7, <2>d DEF SetStateOfNothing
    <2>8. CASE UpdateMigration(p)
      BY <2>8, <2>d DEF UpdateMigration
    <2>9. CASE UpdateOnBrokenSession(p)
      BY <2>9, <2>d DEF UpdateOnBrokenSession
    <2>10. CASE CallFails(p)
      BY <2>10, <2>d DEF CallFails
    <2>11. CASE CommitFails(p)
      BY <2>11, <2>d DEF CommitFails
    <2>12. CASE PollerCrash(p)
      BY <2>12, <1>t, <1>v DEF PollerCrash, InHandInv
    <2> QED
      BY <2>1, <2>2, <2>3, <2>4, <2>5, <2>6, <2>7, <2>8, <2>9, <2>10, <2>11, <2>12
         DEF PollerStep, PollerFault
  <1>j. JobsInv'
    BY <1>r, <1>m DEF EndedInv, JobsInv, rclone
  <1>q. RequestInv'
    BY <1>e, <1>m DEF EndedInv, RequestInv, TypeInv, Held
  <1>a. AnnouncedMeansEnded' /\ \A u \in Uids : announced'[u] > 0 => mig'[u] # "none"
    BY <1>m, <1>c DEF EndedInv, AnnouncedMeansEnded, EndedJob
  <1> QED
    BY <1>a, <1>i, <1>j, <1>q DEF EndedInv

\* With any number of pollers, whatever fails and however stale an answer has
\* become, no completion is announced of a job that goes on, while rclone keeps
\* its job numbers.
THEOREM NothingIsAnnouncedEarly ==
    ASSUME "restart" \notin FaultKinds
    PROVE  Spec => []AnnouncedMeansEnded
  <1>1. Init => EndedInv
    BY RowsAssumption
       DEF Init, EndedInv, RequestInv, JobsInv, InHandInv, AnnouncedMeansEnded
  <1>2. TypeInv /\ EndedInv /\ [Next]_vars => EndedInv'
    <2>1. ASSUME TypeInv, EndedInv, UNCHANGED vars PROVE EndedInv'
      BY <2>1 DEF EndedInv, RequestInv, JobsInv, InHandInv, AnnouncedMeansEnded, EndedJob,
                  vars, items, migrations, rclone, copier, poller
    <2> QED
      BY <2>1, CopierEnded, WorldEnded, PollerEnded DEF Next
  <1>3. EndedInv => AnnouncedMeansEnded
    BY DEF EndedInv
  <1> QED
    BY <1>1, <1>2, <1>3, InitTypes, TypeStep, PTL DEF Spec

(***************************************************************************)
(* Tracking.  While one place holds one row at most, a poller finds the    *)
(* row of the migration in hand, and completes no migration whose row is   *)
(* still INITIALISED; a request that lives leaves an open migration or no  *)
(* row.                                                                    *)
(***************************************************************************)
PlacesInv ==
    /\ \A u, v \in Existing : place[u] = place[v] => u = v
    /\ \A c \in Copiers : cpc[c] = "init" =>
          /\ RowsAt(at[c]) = {}
          /\ \A b \in Copiers \ {c} : cpc[b] = "init" => at[b] # at[c]
    /\ \A c \in Copiers : cpc[c] \in {"idle", "init"} => new[c] = Nothing

TurnInv ==
    /\ \A u \in Uids : mig[u] # "none" => row[u] # "none"
    /\ \A p \in Pollers :
        /\ \A u \in todo[p] : row[u] # "none"
        /\ ppc[p] \in {"lookup", "settle", "save"} => row[cur[p]] # "none"
        /\ ppc[p] = "settle" => (row[cur[p]] = "INITIALISED" => target[p] = cur[p])
        /\ ppc[p] = "save" /\ verdict[p] # "running" => row[cur[p]] # "INITIALISED"

TrackInv == CopiesAreTracked /\ PlacesInv /\ TurnInv

\* A row that was inserted is not taken back, nor INITIALISED again.
RowsGoOn ==
    \A u \in Uids : row[u] # "none" =>
        /\ row'[u] # "none"
        /\ row'[u] = "INITIALISED" => row[u] = "INITIALISED"

\* Nothing is inserted either.
NoNewRow ==
    /\ RowsGoOn
    /\ UNCHANGED place
    /\ \A u \in Uids : row[u] \in {"none", "gone"} => row'[u] = row[u]

LEMMA PlacesKept ==
    ASSUME TypeInv, PlacesInv, NoNewRow,
           \A c \in Copiers :
              /\ cpc'[c] = "init" => cpc[c] = "init" /\ at'[c] = at[c]
              /\ cpc'[c] \in {"idle", "init"} =>
                    new'[c] = Nothing \/ (cpc[c] \in {"idle", "init"} /\ new'[c] = new[c])
    PROVE  PlacesInv'
  <1>1. Existing' \subseteq Existing
    BY DEF Existing, NoNewRow
  <1>2. \A u, v \in Existing' : place'[u] = place'[v] => u = v
    BY <1>1 DEF PlacesInv, NoNewRow
  <1>3. ASSUME NEW c \in Copiers, cpc'[c] = "init" PROVE RowsAt(at[c])' = {}
    BY <1>1, <1>3 DEF PlacesInv, NoNewRow, RowsAt
  <1> QED
    BY <1>2, <1>3 DEF PlacesInv

LEMMA TurnKept ==
    ASSUME TypeInv, TurnInv, RowsGoOn, UNCHANGED poller,
           \A u \in Uids : mig'[u] # "none" => mig[u] # "none" \/ row[u] # "none"
    PROVE  TurnInv'
  <1>1. \A p \in Pollers : /\ todo[p] \subseteq Uids
                           /\ ppc[p] \in {"lookup", "settle", "save"} => cur[p] \in Uids
    BY DEF TypeInv, TypeOK, Held
  <1>2. UNCHANGED <<ppc, todo, cur, verdict, target>>
    BY DEF poller
  <1> QED
    BY <1>1, <1>2 DEF TurnInv, RowsGoOn

\* A request inserts its row where there is none, and lets go of it once the
\* migration is recorded or the row deleted.
LEMMA CopierTracks ==
    ASSUME ~Repeated, "copier" \notin FaultKinds, TypeInv, TrackInv, NEW c \in Copiers,
           \/ \E o \in Oids, d \in Storages : Ask(c, o, d)
           \/ CopierStep(c) \/ CopierFault(c)
    PROVE  TrackInv'
  <1>e. /\ UNCHANGED poller
        /\ \A u \in Uids : row[u] # "none" => row'[u] # "none"
        /\ \/ UNCHANGED mig
           \/ cpc[c] = "record" /\ mig' = [mig EXCEPT ![new[c]] = "open"]
        /\ \A b \in Copiers \ {c} : cpc'[b] = cpc[b] /\ new'[b] = new[b]
    BY CopierEffect
  <1>t. /\ row \in [Uids -> {"none", "INITIALISED", "READY", "DELETED", "gone"}]
        /\ mig \in [Uids -> {"none", "open", "complete"}]
        /\ place \in [Uids -> Places \cup {Nothing}]
        /\ cpc \in [Copiers -> {"idle", "init", "launch", "record", "undo"}]
        /\ new \in [Copiers -> Uids \cup {Nothing}]
        /\ at \in [Copiers -> Places \cup {Nothing}]
        /\ cpc[c] \in {"launch", "record", "undo"} => new[c] \in Uids /\ row[new[c]] # "none"
    BY RowsAssumption DEF TypeInv, TypeOK, Held
  <1>m. \A u \in Uids : mig'[u] # "none" => mig[u] # "none" \/ row[u] # "none"
    BY <1>e, <1>t
  <1>i. /\ \A u \in Uids : row[u] = "INITIALISED" =>
              mig[u] = "open" \/ \E b \in Copiers : new[b] = u
        /\ \A b \in Copiers : cpc[b] \in {"idle", "init"} => new[b] = Nothing
    BY DEF TrackInv, CopiesAreTracked, PlacesInv
  <1>1. ASSUME NEW o \in Oids, NEW d \in Storages, Ask(c, o, d) PROVE TrackInv'
    <2>1. /\ RowsAt(<<o, d>>) = {}
          /\ \A b \in Copiers : cpc[b] = "init" => at[b] # <<o, d>>
          /\ cpc[c] = "idle"
          /\ at' = [at EXCEPT ![c] = <<o, d>>]
          /\ cpc' = [cpc EXCEPT ![c] = "init"]
          /\ UNCHANGED <<row, place, mig, new>>
      BY <1>1 DEF Ask, items, migrations
    <2>2. RowsGoOn
      BY <2>1 DEF RowsGoOn
    <2>3. TurnInv'
      BY <1>e, <1>m, <2>2, TurnKept DEF TrackInv
    <2>4. CopiesAreTracked'
      BY <2>1, <1>i DEF CopiesAreTracked
    <2>5. \A q : RowsAt(q)' = RowsAt(q) /\ Existing' = Existing
      BY <2>1 DEF RowsAt, Existing
    <2>6. \A b \in Copiers : cpc'[b] = "init" => RowsAt(at'[b]) = {}
      BY <1>t, <2>1 DEF TrackInv, PlacesInv
    <2>7. \A a, b \in Copiers : a # b /\ cpc'[a] = "init" /\ cpc'[b] = "init" => at'[b] # at'[a]
      BY <1>t, <2>1 DEF TrackInv, PlacesInv
    <2>8. \A b \in Copiers : cpc'[b] \in {"idle", "init"} => new'[b] = Nothing
      BY <1>t, <2>1, <1>i
    <2>9. \A u, v \in Existing' : place'[u] = place'[v] => u = v
      BY <2>1, <2>5 DEF TrackInv, PlacesInv
    <2>10. \A b \in Copiers : cpc'[b] = "init" => RowsAt(at[b])' = {}
      BY <2>1, <2>6 DEF RowsAt, Existing
    <2> QED
      BY <2>3, <2>4, <2>7, <2>8, <2>9, <2>10 DEF TrackInv, PlacesInv
  <1>2. ASSUME NEW u \in Uids, InitDataItem(c, u) PROVE TrackInv'
    <2>1. /\ cpc[c] = "init" /\ row[u] = "none" /\ new[c] = Nothing
          /\ row' = [row EXCEPT ![u] = "INITIALISED"]
          /\ place' = [place EXCEPT ![u] = at[c]]
          /\ new' = [new EXCEPT ![c] = u]
          /\ cpc' = [cpc EXCEPT ![c] = "launch"]
          /\ UNCHANGED <<mig, at>>
      BY <1>2, <1>i DEF InitDataItem, migrations
    <2>2. RowsGoOn
      BY <2>1, <1>t DEF RowsGoOn
    <2>3. TurnInv'
      BY <1>e, <1>m, <2>2, TurnKept DEF TrackInv
    <2>4. CopiesAreTracked'
      <3> SUFFICES ASSUME NEW v \in Uids, row'[v] = "INITIALISED"
                   PROVE  mig'[v] = "open" \/ \E b \in Copiers : new'[b] = v
        BY DEF CopiesAreTracked
      <3>1. CASE v = u
        BY <2>1, <1>t, <3>1
      <3>2. ASSUME v # u PROVE mig'[v] = "open" \/ \E b \in Copiers \ {c} : new'[b] = v
        <4>1. row[v] = "INITIALISED" /\ v # Nothing
          BY <2>1, <1>t, <3>2, RowsAssumption
        <4> QED
          BY <2>1, <1>i, <1>e, <4>1
      <3> QED
        BY <3>1, <3>2
    <2>5. /\ Existing' = Existing \cup {u} /\ u \notin Existing
          /\ \A v \in Existing : place'[v] = place[v] /\ place[v] # at[c]
          /\ place'[u] = at[c]
      <3>1. Existing' = Existing \cup {u} /\ u \notin Existing
        BY <2>1, <1>t DEF Existing
      <3>2. RowsAt(at[c]) = {}
        BY <2>1 DEF TrackInv, PlacesInv
      <3> QED
        BY <2>1, <1>t, <3>1, <3>2 DEF RowsAt, Existing
    <2>6. \A v, w \in Existing' : place'[v] = place'[w] => v = w
      BY <2>5 DEF TrackInv, PlacesInv
    <2>7. ASSUME NEW b \in Copiers, cpc'[b] = "init"
          PROVE  b # c /\ cpc[b] = "init" /\ RowsAt(at[b])' = {}
      <3>1. b # c /\ cpc[b] = "init"
        BY <2>1, <1>t, <2>7
      <3>2. at[b] # at[c] /\ RowsAt(at[b]) = {}
        BY <2>1, <3>1 DEF TrackInv, PlacesInv
      <3> QED
        BY <2>1, <2>5, <3>1, <3>2 DEF RowsAt
    <2>8. \A b \in Copiers : cpc'[b] \in {"idle", "init"} => new'[b] = Nothing
      BY <2>1, <1>t, <1>i
    <2>9. \A a \in Copiers : cpc'[a] = "init" =>
              \A b \in Copiers \ {a} : cpc'[b] = "init" => at'[b] # at'[a]
      BY <2>1, <2>7 DEF TrackInv, PlacesInv
    <2>10. PlacesInv'
      BY <2>6, <2>7, <2>8, <2>9 DEF PlacesInv
    <2> QED
      BY <2>3, <2>4, <2>10 DEF TrackInv
  <1>3. ASSUME NoNewRow,
               cpc[c] \in {"launch", "record", "undo"},
               at' = [at EXCEPT ![c] = Nothing] \/ UNCHANGED at,
               \/ cpc'[c] \in {"launch", "record", "undo"} /\ new'[c] = new[c]
               \/ /\ cpc'[c] = "idle" /\ new'[c] = Nothing
                  /\ mig'[new[c]] = "open" \/ row'[new[c]] # "INITIALISED"
        PROVE  TrackInv'
    <2>1. \A b \in Copiers :
              /\ cpc'[b] = "init" => cpc[b] = "init" /\ at'[b] = at[b]
              /\ cpc'[b] \in {"idle", "init"} =>
                    new'[b] = Nothing \/ (cpc[b] \in {"idle", "init"} /\ new'[b] = new[b])
      BY <1>3, <1>e, <1>t
    <2>2. PlacesInv'
      BY <1>3, <2>1, PlacesKept DEF TrackInv
    <2>3. TurnInv'
      BY <1>3, <1>e, <1>m, TurnKept DEF TrackInv, NoNewRow
    <2>4. ASSUME NEW v \in Uids, row'[v] = "INITIALISED"
          PROVE  mig'[v] = "open" \/ \E b \in Copiers : new'[b] = v
      <3>1. row[v] = "INITIALISED"
        BY <1>3, <2>4 DEF NoNewRow, RowsGoOn
      <3>2. CASE mig[v] = "open"
        BY <3>2, <1>e, <1>t
      <3>3. ASSUME NEW b \in Copiers \ {c}, new[b] = v
            PROVE  \E a \in Copiers : new'[a] = v
        BY <3>3, <1>e
      <3>4. CASE new[c] = v
        BY <3>4, <1>3, <2>4
      <3> QED
        BY <1>i, <3>1, <3>2, <3>3, <3>4
    <2> QED
      BY <2>2, <2>3, <2>4 DEF TrackInv, CopiesAreTracked
  <1>4. UNCHANGED items => NoNewRow
    BY DEF items, NoNewRow, RowsGoOn
  <1>5. CASE RcloneCopy(c)
    <2>1. /\ cpc'[c] = "record" /\ cpc[c] = "launch" /\ UNCHANGED <<new, at, items>>
      BY <1>5, <1>t DEF RcloneCopy
    <2> QED
      BY <2>1, <1>3, <1>4
  <1>6. CASE RcloneCopyFails(c)
    <2>1. /\ cpc'[c] = "undo" /\ cpc[c] = "launch" /\ UNCHANGED <<new, at, items>>
      BY <1>6, <1>t DEF RcloneCopyFails
    <2> QED
      BY <2>1, <1>3, <1>4
  <1>7. CASE CreateMigrationRecord(c)
    <2>1. /\ cpc'[c] = "idle" /\ cpc[c] = "record" /\ new'[c] = Nothing
          /\ at' = [at EXCEPT ![c] = Nothing] /\ UNCHANGED items
          /\ mig'[new[c]] = "open"
      BY <1>7, <1>t DEF CreateMigrationRecord, Leave
    <2> QED
      BY <2>1, <1>3, <1>4
  <1>8. CASE CreateMigrationRecordFails(c)
    <2>1. /\ cpc'[c] = "undo" /\ cpc[c] = "record" /\ UNCHANGED <<new, at, items>>
      BY <1>8, <1>t DEF CreateMigrationRecordFails
    <2> QED
      BY <2>1, <1>3, <1>4
  <1>9. CASE Undo(c)
    <2>1. /\ cpc'[c] = "idle" /\ cpc[c] = "undo" /\ new'[c] = Nothing
          /\ at' = [at EXCEPT ![c] = Nothing] /\ UNCHANGED place
          /\ row' = [row EXCEPT ![new[c]] = "gone"]
      BY <1>9, <1>t DEF Undo, UndoTo, Leave
    <2>2. new[c] \in Uids /\ row[new[c]] # "none"
      BY <2>1, <1>t
    <2>3. NoNewRow
      BY <2>1, <2>2, <1>t DEF NoNewRow, RowsGoOn
    <2>4. row'[new[c]] # "INITIALISED"
      BY <2>1, <2>2, <1>t
    <2> QED
      BY <2>1, <2>3, <2>4, <1>3
  <1>10. ~ CopierFails(c)
    BY DEF CopierFails, FaultOf
  <1> QED
    BY <1>1, <1>2, <1>5, <1>6, <1>7, <1>8, <1>9, <1>10 DEF CopierStep, CopierFault

\* rclone and the retention engine insert nothing.
LEMMA WorldTracks ==
    ASSUME TypeInv, TrackInv, (\E u \in Uids : JobEnds(u) \/ Remove(u)) \/ RcloneFault
    PROVE  TrackInv'
  <1>1. NoNewRow /\ UNCHANGED <<mig, copier, poller>>
    <2>1. ASSUME NEW u \in Uids, Remove(u) PROVE NoNewRow /\ UNCHANGED <<mig, copier, poller>>
      BY <2>1 DEF Remove, NoNewRow, RowsGoOn, TypeInv, TypeOK, migrations
    <2>2. ASSUME NEW u \in Uids, JobEnds(u) PROVE NoNewRow /\ UNCHANGED <<mig, copier, poller>>
      BY <2>2 DEF JobEnds, JobSucceeds, JobFails, NoNewRow, RowsGoOn, items, migrations
    <2>3. CASE RcloneFault
      BY <2>3 DEF RcloneFault, RcloneRestarts, JobForgotten, NoNewRow, RowsGoOn, items, migrations
    <2> QED
      BY <2>1, <2>2, <2>3
  <1>2. UNCHANGED <<cpc, new, at>>
    BY <1>1 DEF copier
  <1>3. PlacesInv'
    BY <1>1, <1>2, PlacesKept DEF TrackInv
  <1>4. TurnInv'
    BY <1>1, TurnKept DEF TrackInv, NoNewRow
  <1>5. CopiesAreTracked'
    <2>1. \A u \in Uids : row'[u] = "INITIALISED" => row[u] = "INITIALISED"
      BY <1>1 DEF NoNewRow, RowsGoOn, TypeInv, TypeOK
    <2> QED
      BY <1>1, <1>2, <2>1 DEF TrackInv, CopiesAreTracked
  <1> QED
    BY <1>3, <1>4, <1>5 DEF TrackInv

\* A poller finds the row of its migration, and settles it before it completes
\* the migration.
LEMMA PollerTurn ==
    ASSUME TypeInv, TrackInv, NEW p \in Pollers, PollerStep(p) \/ PollerFault(p),
           NoNewRow,
           \A u \in Uids : mig'[u] # "none" => row[u] # "none"
    PROVE  TurnInv'
  <1> USE DEF TypeInv, TrackInv
  <1>t. /\ todo \in [Pollers -> SUBSET Uids]
        /\ ppc \in [Pollers -> {"idle", "pass", "lookup", "settle", "save"}]
        /\ cur \in [Pollers -> Uids \cup {Nothing}]
        /\ target \in [Pollers -> Uids \cup {Nothing}]
        /\ verdict \in [Pollers -> {"running", "success", "failed"}]
        /\ row \in [Uids -> {"none", "INITIALISED", "READY", "DELETED", "gone"}]
        /\ \A q \in Pollers : /\ ppc[q] \in {"lookup", "settle", "save"} => cur[q] \in Uids
                              /\ ppc[q] = "settle" => target[q] \in Uids
    BY DEF TypeOK, Held
  <1>v. \A q \in Pollers :
            /\ \A u \in todo[q] : row'[u] # "none"
            /\ ppc[q] \in {"lookup", "settle", "save"} => row'[cur[q]] # "none"
            /\ ppc[q] = "settle" => (row'[cur[q]] = "INITIALISED" => target[q] = cur[q])
            /\ ppc[q] = "save" /\ verdict[q] # "running" => row'[cur[q]] # "INITIALISED"
    BY <1>t DEF TurnInv, NoNewRow, RowsGoOn
  <1>m. \A u \in Uids : mig'[u] # "none" => row'[u] # "none"
    BY DEF NoNewRow, RowsGoOn
  <1>d. ASSUME Drop(p), UNCHANGED todo PROVE TurnInv'
    BY <1>d, <1>t, <1>v, <1>m DEF TurnInv, Drop
  <1>1. CASE BeginPass(p)
    <2>1. \A u \in Open : row'[u] # "none"
      BY DEF Open, TurnInv, NoNewRow, RowsGoOn
    <2>2. /\ todo' = [todo EXCEPT ![p] = Open] /\ ppc' = [ppc EXCEPT ![p] = "pass"]
          /\ UNCHANGED <<cur, verdict, target>>
      BY <1>1 DEF BeginPass
    <2> QED
      BY <1>t, <1>v, <1>m, <2>1, <2>2 DEF TurnInv
  <1>2. CASE EndPass(p)
    BY <1>2, <1>t, <1>v, <1>m DEF EndPass, TurnInv
  <1>3. ASSUME NEW u \in Uids, QueryJobStatus(p, u) PROVE TurnInv'
    <2>1. PICK v \in JobsNumbered(jobId[u]) :
              /\ verdict' = [verdict EXCEPT ![p] = copying[v]]
              /\ ppc' = [ppc EXCEPT ![p] = IF copying[v] = "running" THEN "save" ELSE "lookup"]
      BY <1>3 DEF QueryJobStatus
    <2>2. row'[u] # "none" /\ ppc[p] = "pass"
      BY <1>3, <1>v DEF QueryJobStatus
    <2>3. /\ todo' = [todo EXCEPT ![p] = @ \ {u}] /\ cur' = [cur EXCEPT ![p] = u]
          /\ UNCHANGED target
      BY <1>3 DEF QueryJobStatus
    <2> QED
      BY <1>t, <1>v, <1>m, <2>1, <2>2, <2>3 DEF TurnInv
  <1>4. ASSUME NEW u \in Uids, QueryJobUnknown(p, u) \/ QueryJobFails(p, u) PROVE TurnInv'
    BY <1>4, <1>t, <1>v, <1>m DEF QueryJobUnknown, QueryJobFails, Skip, TurnInv
  <1>5. CASE QueryDataItem(p)
    <2>1. cur[p] \in Uids
      BY <1>5, <1>t DEF QueryDataItem
    <2>2. row'[cur[p]] = "INITIALISED" =>
              /\ cur[p] \in RowsAt(place[cur[p]])
              /\ \A t \in RowsAt(place[cur[p]]) : t = cur[p]
      <3>1. row'[cur[p]] = "INITIALISED" => cur[p] \in Existing
        BY <1>t, <2>1 DEF Existing, NoNewRow, RowsGoOn
      <3> QED
        BY <3>1 DEF RowsAt, PlacesInv
    <2>3. /\ ppc[p] = "lookup" /\ UNCHANGED <<todo, cur, verdict>>
          /\ \/ /\ \E t \in RowsAt(place[cur[p]]) : target' = [target EXCEPT ![p] = t]
                /\ ppc' = [ppc EXCEPT ![p] = "settle"]
             \/ /\ RowsAt(place[cur[p]]) = {}
                /\ ppc' = [ppc EXCEPT ![p] = "save"]
                /\ UNCHANGED target
      BY <1>5 DEF QueryDataItem
    <2> QED
      BY <1>t, <1>v, <1>m, <2>2, <2>3 DEF TurnInv
  <1>6. CASE SetStateOrDelete(p)
    <2>1. /\ ppc[p] = "settle" /\ Settled(p) /\ ppc' = [ppc EXCEPT ![p] = "save"]
          /\ UNCHANGED <<todo, cur, verdict, target>>
      BY <1>6 DEF SetStateOrDelete
    <2>2. row'[cur[p]] # "INITIALISED"
      <3>1. cur[p] \in Uids /\ (row[cur[p]] = "INITIALISED" => target[p] = cur[p])
        BY <2>1, <1>t DEF TurnInv
      <3>2. CASE row[cur[p]] = "INITIALISED"
        BY <2>1, <3>1, <3>2, <1>t DEF Settled, Existing
      <3>3. CASE row[cur[p]] # "INITIALISED"
        BY <2>1, <3>1, <3>3, <1>t DEF Settled
      <3> QED
        BY <3>2, <3>3
    <2> QED
      BY <1>t, <1>v, <1>m, <2>1, <2>2 DEF TurnInv
  <1>7. CASE SetStateOfNothing(p)
    BY <1>7, <1>d DEF SetStateOfNothing
  <1>8. CASE UpdateMigration(p)
    BY <1>8, <1>d DEF UpdateMigration
  <1>9. CASE UpdateOnBrokenSession(p)
    BY <1>9, <1>d DEF UpdateOnBrokenSession
  <1>10. CASE CallFails(p)
    BY <1>10, <1>d DEF CallFails
  <1>11. CASE CommitFails(p)
    BY <1>11, <1>d DEF CommitFails
  <1>12. CASE PollerCrash(p)
    BY <1>12, <1>t, <1>v, <1>m DEF PollerCrash, TurnInv
  <1> QED
    BY <1>1, <1>2, <1>3, <1>4, <1>5, <1>6, <1>7, <1>8, <1>9, <1>10, <1>11, <1>12
       DEF PollerStep, PollerFault

LEMMA PollerTracks ==
    ASSUME TypeInv, TrackInv, NEW p \in Pollers, PollerStep(p) \/ PollerFault(p)
    PROVE  TrackInv'
  <1>1. UNCHANGED <<place, copier>>
    BY DEF PollerStep, PollerFault, BeginPass, EndPass, QueryJobStatus, QueryJobUnknown,
           QueryJobFails, Skip, QueryDataItem, SetStateOrDelete, SetStateOfNothing, UpdateMigration,
           UpdateOnBrokenSession, CallFails, CommitFails, PollerCrash, items
  <1>2. UNCHANGED row \/ Settled(p)
    BY DEF PollerStep, PollerFault, BeginPass, EndPass, QueryJobStatus, QueryJobUnknown,
           QueryJobFails, Skip, QueryDataItem, SetStateOrDelete, SetStateOfNothing, UpdateMigration,
           UpdateOnBrokenSession, CallFails, CommitFails, PollerCrash, items
  <1>3. NoNewRow
    <2>1. CASE UNCHANGED row
      BY <1>1, <2>1 DEF NoNewRow, RowsGoOn
    <2>2. CASE Settled(p)
      BY <1>1, <2>2 DEF NoNewRow, RowsGoOn, Settled, Existing, TypeInv, TypeOK
    <2> QED
      BY <1>2, <2>1, <2>2
  <1>4. /\ \A u \in Uids : mig'[u] # "none" => row[u] # "none"
        /\ \A u \in Uids : mig[u] = "open" /\ row[u] = "INITIALISED" => mig'[u] = "open"
    <2>1. CASE UNCHANGED migrations
      BY <2>1 DEF migrations, TrackInv, TurnInv
    <2>2. CASE Saved(p) /\ ppc[p] = "save"
      <3>1. /\ cur[p] \in Uids /\ row[cur[p]] # "none"
            /\ verdict[p] # "running" => row[cur[p]] # "INITIALISED"
        BY <2>2 DEF TypeInv, Held, TrackInv, TurnInv
      <3>2. mig \in [Uids -> {"none", "open", "complete"}]
        BY DEF TypeInv, TypeOK
      <3> QED
        BY <2>2, <3>1, <3>2 DEF Saved, TrackInv, TurnInv
    <2> QED
      BY <2>1, <2>2, PollerEffect
  <1>5. UNCHANGED <<cpc, new, at>>
    BY <1>1 DEF copier
  <1>6. PlacesInv'
    BY <1>3, <1>5, PlacesKept DEF TrackInv
  <1>7. TurnInv'
    BY <1>3, <1>4, PollerTurn
  <1>8. CopiesAreTracked'
    <2>1. \A u \in Uids : row'[u] = "INITIALISED" => row[u] = "INITIALISED"
      BY <1>3 DEF NoNewRow, RowsGoOn, TypeInv, TypeOK
    <2> QED
      BY <1>4, <1>5, <2>1 DEF TrackInv, CopiesAreTracked
  <1> QED
    BY <1>6, <1>7, <1>8 DEF TrackInv

OnePlaceEach == \A u, v \in Originals : OriginalPlace[u] = OriginalPlace[v] => u = v

\* While no request dies and no copy is asked for where the item has a row
\* already, a copy whose outcome is unknown is in the hands of its request or has
\* an open migration: whatever rclone, the pollers, the database and the
\* retention engine do, and however many requests and pollers run.
THEOREM NoCopyIsLost ==
    ASSUME ~Repeated, "copier" \notin FaultKinds, OnePlaceEach
    PROVE  Spec => []CopiesAreTracked
  <1>1. Init => TrackInv
    <2> SUFFICES ASSUME Init PROVE TrackInv
      OBVIOUS
    <2>1. \A u \in Existing : u \in Originals /\ place[u] = OriginalPlace[u]
      BY DEF Init, Existing
    <2>2. PlacesInv
      BY <2>1 DEF Init, PlacesInv, OnePlaceEach
    <2>3. CopiesAreTracked /\ TurnInv
      BY DEF Init, CopiesAreTracked, TurnInv
    <2> QED
      BY <2>2, <2>3 DEF TrackInv
  <1>2. TypeInv /\ TrackInv /\ [Next]_vars => TrackInv'
    <2>1. ASSUME TypeInv, TrackInv, UNCHANGED vars PROVE TrackInv'
      <3>1. UNCHANGED <<row, place, mig, cpc, new, at, poller>>
        BY <2>1 DEF vars, items, migrations, copier
      <3>2. NoNewRow
        BY <3>1 DEF NoNewRow, RowsGoOn
      <3>3. PlacesInv' /\ TurnInv'
        BY <2>1, <3>1, <3>2, PlacesKept, TurnKept DEF TrackInv, NoNewRow
      <3>4. CopiesAreTracked'
        BY <2>1, <3>1 DEF TrackInv, CopiesAreTracked
      <3> QED
        BY <3>3, <3>4 DEF TrackInv
    <2> QED
      BY <2>1, CopierTracks, WorldTracks, PollerTracks DEF Next
  <1>3. TrackInv => CopiesAreTracked
    BY DEF TrackInv
  <1> QED
    BY <1>1, <1>2, <1>3, InitTypes, TypeStep, PTL DEF Spec
=============================================================================

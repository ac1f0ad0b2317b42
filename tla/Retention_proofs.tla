--------------------------- MODULE Retention_proofs ---------------------------
(***************************************************************************)
(* What holds of expiry and deletion for any number of rows, volumes and   *)
(* engines.                                                                *)
(***************************************************************************)
EXTENDS Retention, Phases_proofs

\* A phase computed for any set of rows is a phase.
LEMMA ResultPhaseType ==
    ASSUME NEW S \in SUBSET Items
    PROVE  ResultPhase(S) \in Phases
  <1>1. IsFiniteSet(S)
    BY RowsAssumption, FS_Subset
  <1>2. CombineCopies(S, UidPhase) \in Phases
    BY <1>1, CombineCopiesMonotone
  <1> QED
    BY <1>2 DEF ResultPhase, Phases

\* An engine that is past LoadRow works on a UID of the table.
Working == \A e \in Engines :
              pc[e] \in {"check", "query", "purge", "state", "mark"} =>
                  item[e] \in Items

TypeInv == TypeOK /\ Working

LEMMA InitTypes == Init => TypeInv
  BY RowsAssumption, ContainersAssumption, FaultsAssumption
     DEF Init, TypeInv, Working, TypeOK, RowStates, Places, Phases

LEMMA TypeStep == TypeInv /\ [Next]_vars => TypeInv'
  <1> USE RowsAssumption, ContainersAssumption, FaultsAssumption
  <1> SUFFICES ASSUME TypeInv, [Next]_vars
               PROVE  TypeInv'
    OBVIOUS
  <1> USE DEF TypeInv, TypeOK, Working
  <1>1. ASSUME NEW u \in Items, Expire(u) PROVE TypeInv'
    BY <1>1 DEF Expire, world, engine, Rows
  <1>2. ASSUME NEW u \in Items, Extend(u) PROVE TypeInv'
    BY <1>2 DEF Extend, world, engine
  <1>3. ASSUME NEW u \in Items, NEW orig \in Items, BeginCopy(u, orig) PROVE TypeInv'
    BY <1>3 DEF BeginCopy, world, engine, RowStates, Phases
  <1>4. ASSUME NEW u \in Items, CopyLands(u) PROVE TypeInv'
    BY <1>4 DEF CopyLands, table, engine
  <1>5. ASSUME NEW u \in Items, CopyReady(u) PROVE TypeInv'
    BY <1>5 DEF CopyReady, world, engine, RowStates
  <1>6. ASSUME NEW u \in Items, CopyFailed(u) PROVE TypeInv'
    BY <1>6 DEF CopyFailed, world, engine, RowStates
  <1>7. ASSUME NEW s \in Storages, VolumeDown(s) \/ VolumeUp(s) PROVE TypeInv'
    BY <1>7 DEF VolumeDown, VolumeUp, table, engine
  <1>8. ASSUME NEW e \in Engines, Scan(e) PROVE TypeInv'
    BY <1>8 DEF Scan, table, world, Places
  <1>9. ASSUME NEW e \in Engines, EndPass(e) PROVE TypeInv'
    BY <1>9 DEF EndPass, table, world, Places
  <1>10. ASSUME NEW e \in Engines, LoadRow(e) PROVE TypeInv'
    <2>1. PICK u \in todo[e] :
            /\ todo' = [todo EXCEPT ![e] = @ \ {u}]
            /\ IF u \in Rows
               THEN /\ item' = [item EXCEPT ![e] = u]
                    /\ pc' = [pc EXCEPT ![e] = "check"]
               ELSE UNCHANGED <<item, pc>>
      BY <1>10 DEF LoadRow
    <2>2. u \in Items
      BY <1>10, <2>1
    <2>3. todo' \in [Engines -> SUBSET Items]
      BY <1>10, <2>1
    <2>4. CASE u \in Rows
      <3>1. /\ item' = [item EXCEPT ![e] = u]
            /\ pc' = [pc EXCEPT ![e] = "check"]
        BY <2>1, <2>4
      <3>2. item' \in [Engines -> Items \cup {NoItem}]
        BY <2>2, <3>1
      <3>3. pc' \in [Engines -> Places]
        BY <3>1 DEF Places
      <3>4. Working'
        BY <2>2, <3>1
      <3> HIDE DEF Working
      <3> QED
        BY <1>10, <2>3, <3>2, <3>3, <3>4 DEF LoadRow, table, world
    <2>5. CASE u \notin Rows
      <3>1. UNCHANGED <<item, pc>>
        BY <2>1, <2>5
      <3> QED
        BY <1>10, <2>3, <3>1 DEF LoadRow, table, world
    <2> QED
      BY <2>4, <2>5
  <1>11. ASSUME NEW e \in Engines, CheckResilience(e) PROVE TypeInv'
    <2>1. ResultPhase(Remaining(item[e])) \in Phases
      BY ResultPhaseType DEF Remaining, Live, Group, Rows
    <2> QED
      BY <1>11, <2>1 DEF CheckResilience, CheckKept, table, world, Places
  <1>12. ASSUME NEW e \in Engines, QueryReady(e) PROVE TypeInv'
    BY <1>12 DEF QueryReady, table, world, Places
  <1>13. ASSUME NEW e \in Engines, Purge(e) PROVE TypeInv'
    BY <1>13 DEF Purge, table, Places
  <1>14. ASSUME NEW e \in Engines, SetState(e) PROVE TypeInv'
    BY <1>14 DEF SetState, world, RowStates, Places
  <1>15. ASSUME NEW e \in Engines, MarkDeleted(e) PROVE TypeInv'
    <2>1. Children(item[e]) \subseteq Items /\ item[e] \in Items
      BY <1>15 DEF MarkDeleted, Children, Rows
    <2>2. row' \in [Items -> RowStates]
      BY <1>15 DEF MarkDeleted, RowStates
    <2>3. deleted' \in SUBSET Items
      BY <1>15, <2>1 DEF MarkDeleted
    <2>4. oidPhase' \in [Items -> Phases]
      BY <1>15 DEF MarkDeleted
    <2>5. pc' \in [Engines -> Places] /\ Working'
      BY <1>15 DEF MarkDeleted, Places
    <2>6. UNCHANGED <<expired, payload, up, todo, item, result, faults>>
      BY <1>15 DEF MarkDeleted, world
    <2> HIDE DEF Working
    <2> QED
      BY <2>2, <2>3, <2>4, <2>5, <2>6
  <1>16. ASSUME NEW e \in Engines, Fault(e) PROVE TypeInv'
    <2>1. CASE DatabaseFails(e)
      BY <2>1 DEF DatabaseFails, table, world, Places
    <2>2. CASE Crash(e)
      BY <2>2 DEF Crash, table, world, Places
    <2>3. CASE AnswerLost(e)
      BY <2>3 DEF AnswerLost, table, Places
    <2> QED
      BY <1>16, <2>1, <2>2, <2>3 DEF Fault
  <1>17. CASE UNCHANGED vars
    BY <1>17 DEF vars, table, world, engine
  <1> QED
    BY <1>1, <1>2, <1>3, <1>4, <1>5, <1>6, <1>7, <1>8, <1>9, <1>10, <1>11,
       <1>12, <1>13, <1>14, <1>15, <1>16, <1>17
    DEF Next, EngineStep, Clock, Copying, Volumes

LEMMA TypeInvariance == Spec => []TypeInv
  BY InitTypes, TypeStep, PTL DEF Spec

\* Every variable keeps the type of the column or of the local it stands for.
THEOREM TypeCorrect == Spec => []TypeOK
  BY TypeInvariance, PTL DEF TypeInv
-----------------------------------------------------------------------------
(***************************************************************************)
(* Why a tombstone can be trusted.  An engine reaches set_state and the    *)
(* final transaction only through a successful purge, and nothing it       *)
(* purged comes back because only a row that is still INITIALISED receives *)
(* a payload.  That the children it marks lie inside the purged directory  *)
(* has to be assumed.                                                      *)
(***************************************************************************)
RegisteredStays == \A u \in Registered : row[u] \in {"READY", "DELETED"}

PurgedBeforeMarked ==
    \A e \in Engines :
        /\ pc[e] \in {"purge", "state", "mark"} => row[item[e]] \in {"READY", "DELETED"}
        /\ pc[e] \in {"state", "mark"} =>
               /\ item[e] \notin payload
               /\ \A u \in RemovedWith(item[e]) \cap Registered : u \notin payload

PurgedInv == RegisteredStays /\ PurgedBeforeMarked

LEMMA InitPurged == Init => PurgedInv
  BY RowsAssumption DEF Init, PurgedInv, RegisteredStays, PurgedBeforeMarked

LEMMA PurgedStep == TypeInv /\ PurgedInv /\ [Next]_vars => PurgedInv'
  <1> USE RowsAssumption, ContainersAssumption
  <1> SUFFICES ASSUME TypeInv, PurgedInv, [Next]_vars
               PROVE  PurgedInv'
    OBVIOUS
  <1> USE DEF TypeInv, TypeOK, Working, PurgedInv, RegisteredStays,
              PurgedBeforeMarked, RemovedWith
  <1>1. ASSUME NEW u \in Items, Expire(u) \/ Extend(u) PROVE PurgedInv'
    BY <1>1 DEF Expire, Extend, world, engine
  <1>2. ASSUME NEW u \in Items, NEW orig \in Items, BeginCopy(u, orig)
        PROVE  PurgedInv'
    BY <1>2 DEF BeginCopy, world, engine, RowStates
  <1>3. ASSUME NEW u \in Items, CopyLands(u) PROVE PurgedInv'
    BY <1>3 DEF CopyLands, table, engine
  <1>4. ASSUME NEW u \in Items, CopyReady(u) PROVE PurgedInv'
    BY <1>4 DEF CopyReady, world, engine, RowStates
  <1>5. ASSUME NEW u \in Items, CopyFailed(u) PROVE PurgedInv'
    BY <1>5 DEF CopyFailed, world, engine, RowStates
  <1>6. ASSUME NEW s \in Storages, VolumeDown(s) \/ VolumeUp(s)
        PROVE  PurgedInv'
    BY <1>6 DEF VolumeDown, VolumeUp, table, engine
  <1>7. ASSUME NEW e \in Engines, Scan(e) \/ EndPass(e) PROVE PurgedInv'
    BY <1>7 DEF Scan, EndPass, table, world, Places
  <1>8. ASSUME NEW e \in Engines, LoadRow(e) PROVE PurgedInv'
    <2>1. UNCHANGED <<row, deleted, payload>>
      BY <1>8 DEF LoadRow, table, world
    <2>2. \A f \in Engines :
            pc'[f] \in {"purge", "state", "mark"} =>
                pc'[f] = pc[f] /\ item'[f] = item[f]
      BY <1>8 DEF LoadRow, Places
    <2> QED
      BY <2>1, <2>2
  <1>9. ASSUME NEW e \in Engines, CheckResilience(e) PROVE PurgedInv'
    BY <1>9 DEF CheckResilience, CheckKept, table, world, Places
  <1>10. ASSUME NEW e \in Engines, QueryReady(e) PROVE PurgedInv'
    BY <1>10 DEF QueryReady, table, world, Places
  <1>11. ASSUME NEW e \in Engines, Purge(e) PROVE PurgedInv'
    BY <1>11 DEF Purge, table, Places
  <1>12. ASSUME NEW e \in Engines, SetState(e) PROVE PurgedInv'
    BY <1>12 DEF SetState, world, RowStates, Places
  <1>13. ASSUME NEW e \in Engines, MarkDeleted(e) PROVE PurgedInv'
    <2> DEFINE marked == {item[e]} \cup Children(item[e])
    <2>1. /\ \A u \in Items : row'[u] = IF u \in marked THEN "DELETED" ELSE row[u]
          /\ pc[e] = "mark" /\ pc' = [pc EXCEPT ![e] = "next"]
          /\ UNCHANGED <<payload, item>>
      BY <1>13 DEF MarkDeleted, world
    <2> HIDE DEF marked
    <2> QED
      BY <2>1 DEF Places
  <1>14. ASSUME NEW e \in Engines, Fault(e) PROVE PurgedInv'
    <2>1. CASE DatabaseFails(e)
      BY <2>1 DEF DatabaseFails, table, world, Places
    <2>2. CASE Crash(e)
      BY <2>2 DEF Crash, table, world, Places
    <2>3. CASE AnswerLost(e)
      BY <2>3 DEF AnswerLost, table, Places
    <2> QED
      BY <1>14, <2>1, <2>2, <2>3 DEF Fault
  <1>15. CASE UNCHANGED vars
    BY <1>15 DEF vars, table, world, engine
  <1> QED
    BY <1>1, <1>2, <1>3, <1>4, <1>5, <1>6, <1>7, <1>8, <1>9, <1>10, <1>11,
       <1>12, <1>13, <1>14, <1>15
    DEF Next, EngineStep, Clock, Copying, Volumes

LEMMA PurgedInvariance == Spec => []PurgedInv
  BY InitPurged, PurgedStep, TypeInvariance, PTL DEF Spec

\* The rows that name a container as their parent lie in its directory.
ChildrenInside == \A u \in Items : Parent[u] \in Containers => u \in Contents[Parent[u]]

TombstoneInv == PurgedInv /\ TombstoneSound

\* Every row the final transaction marks is one of the table, and has lost its
\* payload.
LEMMA MarkedHasNoPayload ==
    ASSUME ChildrenInside, TypeInv, PurgedInv, NEW e \in Engines, pc[e] = "mark",
           NEW u \in {item[e]} \cup Children(item[e])
    PROVE  u \in Items /\ u \notin payload
  <1> USE ContainersAssumption, RowsAssumption
  <1>1. item[e] \in Items /\ item[e] \notin payload
    BY DEF TypeInv, Working, PurgedInv, PurgedBeforeMarked
  <1>2. CASE u \in Children(item[e])
    <2>1. u \in Items /\ Parent[u] = item[e] /\ item[e] \in Containers
      BY <1>2 DEF Children, Rows
    <2>2. u \in RemovedWith(item[e]) \cap Registered
      BY <1>1, <2>1 DEF RemovedWith, ChildrenInside
    <2> QED
      BY <2>1, <2>2 DEF PurgedInv, PurgedBeforeMarked
  <1> QED
    BY <1>1, <1>2

\* Only set_state and the final transaction make a row DELETED or flag it; a
\* payload arrives only for a row that is INITIALISED.
LEMMA TombstoneStep ==
    ASSUME ChildrenInside, TypeInv, PurgedInv, TombstoneSound, [Next]_vars
    PROVE  TombstoneSound'
  <1> USE DEF TypeInv, TypeOK, Working, TombstoneSound
  <1>k. ASSUME row' = row, deleted' = deleted, payload' \subseteq payload
        PROVE  TombstoneSound'
    BY <1>k
  <1>1. CASE Clock \/ Volumes \/ UNCHANGED vars
    BY <1>1, <1>k DEF Clock, Volumes, Expire, Extend, VolumeDown, VolumeUp, vars, table,
       world, engine
  <1>2. ASSUME NEW u \in Items,
               \/ \E orig \in Items : BeginCopy(u, orig)
               \/ CopyLands(u) \/ CopyReady(u) \/ CopyFailed(u)
        PROVE  TombstoneSound'
    <2>1. \/ UNCHANGED <<row, deleted>> /\ payload' = payload \cup {u}
          \/ /\ UNCHANGED <<deleted, payload>>
             /\ \E s \in {"INITIALISED", "READY", "absent"} : row' = [row EXCEPT ![u] = s]
      BY <1>2 DEF BeginCopy, CopyLands, CopyReady, CopyFailed, table, world
    <2>2. row[u] \in {"absent", "INITIALISED"}
      BY <1>2 DEF BeginCopy, CopyLands, CopyReady, CopyFailed
    <2> QED
      BY <2>1, <2>2
  <1>3. ASSUME NEW e \in Engines,
               \/ Scan(e) \/ EndPass(e) \/ LoadRow(e) \/ CheckResilience(e)
               \/ QueryReady(e) \/ Purge(e) \/ Fault(e)
        PROVE  TombstoneSound'
    BY <1>3, <1>k DEF Scan, EndPass, LoadRow, CheckResilience, CheckKept, QueryReady, Purge,
       Fault, DatabaseFails, AnswerLost, Crash, table, world
  <1>4. ASSUME NEW e \in Engines, SetState(e) PROVE TombstoneSound'
    BY <1>4 DEF SetState, world, PurgedInv, PurgedBeforeMarked
  <1>5. ASSUME NEW e \in Engines, MarkDeleted(e) PROVE TombstoneSound'
    <2> DEFINE marked == {item[e]} \cup Children(item[e])
    <2>1. /\ \A u \in Items : row'[u] = IF u \in marked THEN "DELETED" ELSE row[u]
          /\ deleted' = deleted \cup marked
          /\ UNCHANGED payload
      BY <1>5 DEF MarkDeleted, world
    <2>2. \A u \in marked : u \in Items /\ u \notin payload
      BY <1>5, MarkedHasNoPayload DEF MarkDeleted
    <2> HIDE DEF marked
    <2> QED
      BY <2>1, <2>2
  <1> QED
    BY <1>1, <1>2, <1>3, <1>4, <1>5 DEF Next, EngineStep, Copying

LEMMA TombstoneInvariance ==
    ASSUME ChildrenInside
    PROVE  Spec => []TombstoneInv
  <1>1. Init => TombstoneSound
    BY RowsAssumption DEF Init, TombstoneSound
  <1>2. TypeInv /\ PurgedInv /\ TombstoneSound /\ [Next]_vars => TombstoneSound'
    BY TombstoneStep
  <1> QED
    BY <1>1, <1>2, TypeInvariance, PurgedInvariance, PTL DEF Spec, TombstoneInv

\* docs/src/heuristics/data_item_deletion.rst, DELETED means the payload does
\* not exist any more: for any number of engines, crashes, failed calls and
\* withdrawn copies, as long as the children of a container lie inside it.
THEOREM TombstonesAreSound ==
    ASSUME ChildrenInside
    PROVE  Spec => []TombstoneSound
  BY TombstoneInvariance, PTL DEF TombstoneInv
-----------------------------------------------------------------------------
(***************************************************************************)
(* Who can make a decision wrong.  Between the check and the last update   *)
(* of a deletion the rows that remain may become more, and then they give  *)
(* no lower phase; they become fewer only when a copy is withdrawn or      *)
(* another engine finishes a deletion of the same item.                    *)
(***************************************************************************)
\* More instances never give a lower phase, once they give more than GAS.
LEMMA MoreInstances ==
    ASSUME NEW S \in SUBSET Items, NEW T \in SUBSET Items, S \subseteq T,
           Below("GAS", ResultPhase(S))
    PROVE  ~Below(ResultPhase(T), ResultPhase(S))
  <1>1. S # {}
    BY PhaseNumbers DEF ResultPhase, Below
  <1>2. IsFiniteSet(T)
    BY RowsAssumption, FS_Subset
  <1>3. ~Below(CombineCopies(T, UidPhase), CombineCopies(S, UidPhase))
    BY <1>2, CombineCopiesMonotone
  <1> QED
    BY <1>1, <1>3 DEF ResultPhase

\* A phase that is not below one above GAS is above GAS, and Below is
\* transitive in the ways used here.
LEMMA BelowChain ==
    ASSUME NEW p \in Phases, NEW q \in Phases, NEW r \in Phases,
           Below("GAS", r), ~Below(q, r), Below("GAS", q) => ~Below(p, q)
    PROVE  ~Below(p, r)
  BY PhaseNumbers DEF Below

\* What a step can do to an engine that is acting on a decision.
LEMMA DecisionSteps ==
    ASSUME TypeInv, PurgedInv, [Next]_vars, NEW e \in Engines, pc'[e] \in Deciding
    PROVE  \/ CheckResilience(e)
           \/ /\ pc[e] \in Deciding
              /\ item'[e] = item[e] /\ result'[e] = result[e]
              /\ \/ Rows \subseteq Rows' /\ deleted' = deleted
                 \/ \E u \in Items : CopyFailed(u)
                 \/ \E f \in Engines \ {e} : MarkDeleted(f)
  <1> DEFINE Same == /\ pc[e] \in Deciding
                     /\ item'[e] = item[e] /\ result'[e] = result[e]
             Kept == Same /\ Rows \subseteq Rows' /\ deleted' = deleted
  <1> USE DEF TypeInv, TypeOK, Rows
  <1>1. ASSUME NEW u \in Items, Expire(u) \/ Extend(u) PROVE Kept
    BY <1>1 DEF Expire, Extend, world, engine
  <1>2. ASSUME NEW u \in Items, NEW orig \in Items, BeginCopy(u, orig) PROVE Kept
    BY <1>2 DEF BeginCopy, world, engine
  <1>3. ASSUME NEW u \in Items, CopyLands(u) PROVE Kept
    BY <1>3 DEF CopyLands, table, engine
  <1>4. ASSUME NEW u \in Items, CopyReady(u) PROVE Kept
    BY <1>4 DEF CopyReady, world, engine
  <1>5. ASSUME NEW u \in Items, CopyFailed(u) PROVE Same
    BY <1>5 DEF CopyFailed, world, engine
  <1>6. ASSUME NEW s \in Storages, VolumeDown(s) \/ VolumeUp(s) PROVE Kept
    BY <1>6 DEF VolumeDown, VolumeUp, table, engine
  <1>7. ASSUME NEW f \in Engines, Scan(f) \/ EndPass(f) \/ LoadRow(f) PROVE Kept
    <2>1. UNCHANGED <<row, deleted, result>>
      BY <1>7 DEF Scan, EndPass, LoadRow, table, world
    <2>2. f = e => pc'[e] \notin Deciding
      BY <1>7 DEF Scan, EndPass, LoadRow, Deciding
    <2>3. f # e
      BY <2>2
    <2>4. pc'[e] = pc[e] /\ item'[e] = item[e]
      BY <1>7, <2>3 DEF Scan, EndPass, LoadRow
    <2> QED
      BY <2>1, <2>4
  <1>8. ASSUME NEW f \in Engines, CheckResilience(f) PROVE CheckResilience(e) \/ Kept
    BY <1>8 DEF CheckResilience, CheckKept, table, world
  <1>9. ASSUME NEW f \in Engines, QueryReady(f) PROVE Kept
    BY <1>9 DEF QueryReady, table, world, Deciding
  <1>10. ASSUME NEW f \in Engines, Purge(f) PROVE Kept
    BY <1>10 DEF Purge, table, Deciding
  <1>11. ASSUME NEW f \in Engines, SetState(f) PROVE Kept
    <2>1. row[item[f]] \in {"READY", "DELETED"}
      BY <1>11 DEF SetState, PurgedInv, PurgedBeforeMarked
    <2> QED
      BY <1>11, <2>1 DEF SetState, world, Deciding
  <1>12. ASSUME NEW f \in Engines, MarkDeleted(f) PROVE Same /\ f # e
    BY <1>12 DEF MarkDeleted, world, Deciding
  <1>13. ASSUME NEW f \in Engines, Fault(f) PROVE Kept
    <2>1. UNCHANGED <<row, deleted, result>>
      BY <1>13 DEF Fault, DatabaseFails, AnswerLost, Crash, table, world
    <2>2. f # e
      BY <1>13 DEF Fault, DatabaseFails, AnswerLost, Crash, Deciding
    <2>3. pc'[e] = pc[e] /\ item'[e] = item[e]
      BY <1>13, <2>2 DEF Fault, DatabaseFails, AnswerLost, Crash
    <2> QED
      BY <2>1, <2>3
  <1>14. CASE UNCHANGED vars
    BY <1>14 DEF vars, table, world, engine
  <1> QED
    BY <1>1, <1>2, <1>3, <1>4, <1>5, <1>6, <1>7, <1>8, <1>9, <1>10, <1>11,
       <1>12, <1>13, <1>14
    DEF Next, EngineStep, Clock, Copying, Volumes

\* A check that lets the deletion go on has found a phase that stands.
LEMMA CheckedStands ==
    ASSUME TypeInv, NEW e \in Engines, CheckResilience(e), pc'[e] \in Deciding
    PROVE  DecisionStands(e)'
  <1> DEFINE before == Remaining(item[e])
  <1>1. item'[e] = item[e] /\ Remaining(item[e])' = before
    BY DEF CheckResilience, CheckKept, table, Remaining, Live, Group, Rows
  <1>2. result'[e] = ResultPhase(before) /\ ~Below(ResultPhase(before), Target[item[e]])
    BY DEF CheckResilience, CheckKept, Deciding, TypeInv, TypeOK
  <1>3. ResultPhase(before) \in Phases
    BY ResultPhaseType DEF Remaining, Live, Group, Rows
  <1>4. ~Below(ResultPhase(before), ResultPhase(before))
    BY <1>3, PhaseNumbers DEF Below
  <1>5. ResultPhase(Remaining(item[e]))' = ResultPhase(before)
    BY <1>1 DEF ResultPhase, UidPhase
  <1> HIDE DEF before
  <1> QED
    BY <1>1, <1>2, <1>4, <1>5 DEF DecisionStands

\* A decision stands as long as no row that counts is lost.
LEMMA GrowthKeepsDecision ==
    ASSUME TypeInv, TypeInv', NEW e \in Engines, DecisionStands(e),
           item'[e] = item[e], result'[e] = result[e],
           Remaining(item[e]) \subseteq Remaining(item[e])'
    PROVE  DecisionStands(e)'
  <1> DEFINE before == Remaining(item[e])
             after == Remaining(item[e])'
  <1>1. before \in SUBSET Items /\ after \in SUBSET Items
    BY DEF Remaining, Live, Group, Rows
  <1>2. /\ ResultPhase(before) \in Phases /\ ResultPhase(after) \in Phases
        /\ result[e] \in Phases
    BY <1>1, ResultPhaseType DEF TypeInv, TypeOK
  <1>3. Below("GAS", ResultPhase(before)) => ~Below(ResultPhase(after), ResultPhase(before))
    BY <1>1, MoreInstances
  <1>4. Below("GAS", result[e]) => ~Below(ResultPhase(after), result[e])
    BY <1>2, <1>3, BelowChain DEF DecisionStands
  <1>5. ResultPhase(after) = ResultPhase(Remaining(item[e]))'
    BY DEF ResultPhase, UidPhase
  <1> HIDE DEF before, after
  <1> QED
    BY <1>4, <1>5 DEF DecisionStands

LEMMA SpoilStep ==
    ASSUME TypeInv, TypeInv', PurgedInv, [Next]_vars, NEW e \in Engines,
           pc'[e] \in Deciding, ~DecisionStands(e)'
    PROVE  /\ pc[e] \in Deciding
           /\ \/ ~DecisionStands(e)
              \/ CopyWithdrawn(OidOf[item[e]])
              \/ MarkedByAnother(e)
  <1> USE RowsAssumption
  <1>1. ~CheckResilience(e)
    BY CheckedStands
  <1>2. /\ pc[e] \in Deciding
        /\ item'[e] = item[e] /\ result'[e] = result[e]
        /\ \/ Rows \subseteq Rows' /\ deleted' = deleted
           \/ \E u \in Items : CopyFailed(u)
           \/ \E f \in Engines \ {e} : MarkDeleted(f)
    BY <1>1, DecisionSteps
  <1>3. SUFFICES ASSUME DecisionStands(e), ~CopyWithdrawn(OidOf[item[e]]), ~MarkedByAnother(e)
                 PROVE  FALSE
    BY <1>2
  <1>4. SUFFICES Remaining(item[e]) \subseteq Remaining(item[e])'
    BY <1>2, <1>3, GrowthKeepsDecision
  <1>5. CASE Rows \subseteq Rows' /\ deleted' = deleted
    BY <1>2, <1>5 DEF Remaining, Live, Group
  <1>6. ASSUME NEW u \in Items, CopyFailed(u)
        PROVE  Remaining(item[e]) \subseteq Remaining(item[e])'
    <2>1. OidOf[u] # OidOf[item[e]]
      BY <1>3, <1>6 DEF CopyWithdrawn
    <2>2. deleted' = deleted /\ \A v \in Items \ {u} : row'[v] = row[v]
      BY <1>6 DEF CopyFailed, TypeInv, TypeOK
    <2> QED
      BY <1>2, <2>1, <2>2 DEF Remaining, Live, Group, Rows
  <1>7. ASSUME NEW f \in Engines \ {e}, MarkDeleted(f)
        PROVE  Remaining(item[e]) \subseteq Remaining(item[e])'
    <2> DEFINE marked == {item[f]} \cup Children(item[f])
    <2>1. \A v \in marked : OidOf[v] # OidOf[item[e]]
      BY <1>3, <1>7 DEF MarkedByAnother
    <2>2. /\ deleted' = deleted \cup marked
          /\ \A v \in Items : row'[v] = IF v \in marked THEN "DELETED" ELSE row[v]
      BY <1>7 DEF MarkDeleted
    <2> HIDE DEF marked
    <2> QED
      BY <1>2, <2>1, <2>2 DEF Remaining, Live, Group, Rows
  <1> QED
    BY <1>2, <1>5, <1>6, <1>7

\* Only a copy that is withdrawn and an engine that deletes another instance of
\* the item make the decision of a deletion wrong after it was taken, for any
\* number of engines, containers, copies, crashes and failed calls.
THEOREM OnlyRivalsAreToBlame == Spec => OnlyRivalsSpoilDecisions
  <1>1. TypeInv /\ TypeInv' /\ PurgedInv /\ [Next]_vars =>
          [\A e \in Engines :
              pc'[e] \in Deciding /\ ~DecisionStands(e)' =>
                  /\ pc[e] \in Deciding
                  /\ \/ ~DecisionStands(e)
                     \/ CopyWithdrawn(OidOf[item[e]])
                     \/ MarkedByAnother(e)]_vars
    BY SpoilStep
  <1> QED
    BY <1>1, TypeInvariance, PurgedInvariance, PTL DEF Spec, OnlyRivalsSpoilDecisions
-----------------------------------------------------------------------------
(***************************************************************************)
(* So a single engine keeps the promise of the deletion heuristic, on      *)
(* record, as long as no copy is withdrawn.                                *)
(***************************************************************************)
SingleEngine == \A e, f \in Engines : e = f

DecisionStillValid == \A e \in Engines : pc[e] \in Deciding => DecisionStands(e)

\* The steps an engine that is alone sees.
LEMMA LoneDecisionSteps ==
    ASSUME TypeInv, PurgedInv, [Next]_vars, SingleEngine, ~Withdrawals,
           NEW e \in Engines, pc'[e] \in Deciding
    PROVE  \/ CheckResilience(e)
           \/ /\ pc[e] \in Deciding
              /\ item'[e] = item[e] /\ result'[e] = result[e]
              /\ Rows \subseteq Rows' /\ deleted' = deleted
  BY DecisionSteps DEF SingleEngine, CopyFailed

LEMMA DecisionStep ==
    ASSUME SingleEngine, ~Withdrawals
    PROVE  TypeInv /\ TypeInv' /\ PurgedInv /\ DecisionStillValid /\ [Next]_vars
               => DecisionStillValid'
  <1> SUFFICES ASSUME TypeInv, TypeInv', PurgedInv, DecisionStillValid, [Next]_vars,
                      NEW e \in Engines, pc'[e] \in Deciding, ~DecisionStands(e)'
               PROVE  FALSE
    BY DEF DecisionStillValid
  <1>1. ~CopyWithdrawn(OidOf[item[e]]) /\ ~MarkedByAnother(e)
    BY DEF CopyWithdrawn, CopyFailed, MarkedByAnother, SingleEngine
  <1> QED
    BY <1>1, SpoilStep DEF DecisionStillValid

LEMMA DecisionInvariance ==
    ASSUME SingleEngine, ~Withdrawals
    PROVE  Spec => []DecisionStillValid
  <1>1. Init => DecisionStillValid
    BY DEF Init, DecisionStillValid, Deciding
  <1> QED
    BY <1>1, DecisionStep, TypeInvariance, PurgedInvariance, PTL DEF Spec

\* What a decision that is still valid allows to be purged can be spared.
LEMMA DecisionSpares ==
    ASSUME TypeInv, DecisionStillValid, NEW e \in Engines,
           pc[e] = "purge", Below("GAS", Target[item[e]])
    PROVE  ~Below(ResultPhase(Remaining(item[e])), Target[item[e]])
  <1>1. Target[item[e]] \in Phases /\ result[e] \in Phases
    BY RowsAssumption DEF TypeInv, TypeOK, Working
  <1>2. ResultPhase(Remaining(item[e])) \in Phases
    BY ResultPhaseType DEF Remaining, Live, Group, Rows
  <1>3. /\ Below("GAS", result[e]) => ~Below(ResultPhase(Remaining(item[e])), result[e])
        /\ ~Below(result[e], Target[item[e]])
    BY DEF DecisionStillValid, DecisionStands, Deciding
  <1> QED
    BY <1>1, <1>2, <1>3, BelowChain

\* docs/src/heuristics/data_item_deletion.rst, no deletion that takes the OID
\* below its target: one engine never purges a payload the instances on record
\* cannot spare, whatever crashes and however calls fail, as long as no copy is
\* withdrawn.
THEOREM LoneEngineKeepsResilience ==
    ASSUME SingleEngine, ~Withdrawals
    PROVE  Spec => RemovalKeepsResilience
  <1>1. TypeInv /\ DecisionStillValid /\ [Next]_vars =>
          [\A e \in Engines :
              /\ pc[e] = "purge" /\ pc'[e] # "purge"
              /\ item[e] \in payload \ payload'
              /\ Below("GAS", Target[item[e]])
              => ~Below(ResultPhase(Remaining(item[e])), Target[item[e]])]_vars
    BY DecisionSpares
  <1> QED
    BY <1>1, TypeInvariance, DecisionInvariance, PTL DEF Spec, RemovalKeepsResilience
-----------------------------------------------------------------------------
\* A step of a lone engine with plain files leaves the instances of every OID
\* in place, or it is the last step of a deletion.
LEMMA LiveSteps ==
    ASSUME TypeInv, PurgedInv, [Next]_vars, SingleEngine, ~Withdrawals
    PROVE  \/ \E e \in Engines : MarkDeleted(e)
           \/ /\ Rows \subseteq Rows' /\ deleted' = deleted
              /\ \A u \in Rows' : \/ oidPhase'[u] = "GAS"
                                  \/ u \in Rows /\ oidPhase'[u] = oidPhase[u]
  <1> DEFINE Kept == /\ Rows \subseteq Rows' /\ deleted' = deleted
                     /\ \A u \in Rows' : \/ oidPhase'[u] = "GAS"
                                         \/ u \in Rows /\ oidPhase'[u] = oidPhase[u]
  <1> USE DEF TypeInv, TypeOK, Working, Rows
  <1>1. ASSUME NEW u \in Items, Expire(u) \/ Extend(u) PROVE Kept
    BY <1>1 DEF Expire, Extend
  <1>2. ASSUME NEW u \in Items, NEW orig \in Items, BeginCopy(u, orig) PROVE Kept
    BY <1>2 DEF BeginCopy
  <1>3. ASSUME NEW u \in Items, CopyLands(u) \/ CopyReady(u) \/ CopyFailed(u) PROVE Kept
    BY <1>3 DEF CopyLands, CopyReady, CopyFailed, table
  <1>4. ASSUME NEW s \in Storages, VolumeDown(s) \/ VolumeUp(s) PROVE Kept
    BY <1>4 DEF VolumeDown, VolumeUp, table
  <1>5. ASSUME NEW e \in Engines, Scan(e) \/ EndPass(e) \/ LoadRow(e) PROVE Kept
    BY <1>5 DEF Scan, EndPass, LoadRow, table
  <1>6. ASSUME NEW e \in Engines, CheckResilience(e) \/ QueryReady(e) \/ Purge(e) PROVE Kept
    BY <1>6 DEF CheckResilience, CheckKept, QueryReady, Purge, table
  <1>7. ASSUME NEW e \in Engines, SetState(e) PROVE Kept
    <2>1. row[item[e]] \in {"READY", "DELETED"}
      BY <1>7 DEF SetState, PurgedInv, PurgedBeforeMarked
    <2> QED
      BY <1>7, <2>1 DEF SetState
  <1>8. ASSUME NEW e \in Engines, Fault(e) PROVE Kept
    BY <1>8 DEF Fault, DatabaseFails, AnswerLost, Crash, table
  <1>9. CASE UNCHANGED vars
    BY <1>9 DEF vars, table
  <1> QED
    BY <1>1, <1>2, <1>3, <1>4, <1>5, <1>6, <1>7, <1>8, <1>9
    DEF Next, EngineStep, Clock, Copying, Volumes

\* What is recorded for a row is not more than the instances of its item give.
RealRecord(u) ==
    u \in Rows /\ Below("GAS", oidPhase[u]) =>
        ~Below(ResultPhase(Live(OidOf[u])), oidPhase[u])

LEMMA RecordRowStep ==
    ASSUME SingleEngine, ~Withdrawals, Containers = {}, TypeInv, TypeInv', PurgedInv,
           DecisionStillValid, [Next]_vars, NEW u, RealRecord(u)
    PROVE  RealRecord(u)'
  <1> SUFFICES ASSUME u \in Rows', Below("GAS", oidPhase'[u])
               PROVE  ~Below(ResultPhase(Live(OidOf[u])'), oidPhase'[u])
    <2>1. ResultPhase(Live(OidOf[u]))' = ResultPhase(Live(OidOf[u])')
      BY DEF ResultPhase, UidPhase
    <2> QED
      BY <2>1 DEF RealRecord
  <1> u \in Items
    BY DEF Rows
  <1> DEFINE before == Live(OidOf[u])
             after == Live(OidOf[u])'
  <1>1. before \in SUBSET Items /\ after \in SUBSET Items
    BY DEF Live, Group, Rows
  <1>2. ASSUME NEW e \in Engines, MarkDeleted(e)
        PROVE  ~Below(ResultPhase(after), oidPhase'[u])
    <2>1. /\ pc[e] = "mark" /\ item[e] \in Items
          /\ deleted' = deleted \cup {item[e]}
          /\ oidPhase'[u] = IF u \in Group(OidOf[item[e]])
                            THEN result[e] ELSE oidPhase[u]
      BY <1>2 DEF MarkDeleted, Children, TypeInv, Working
    <2>2. Rows' = Rows
      <3>1. row[item[e]] \in {"READY", "DELETED"}
        BY <2>1 DEF PurgedInv, PurgedBeforeMarked
      <3>2. \A v \in Items :
               row'[v] = IF v = item[e] THEN "DELETED" ELSE row[v]
        BY <1>2 DEF MarkDeleted, Children
      <3> QED
        BY <3>1, <3>2 DEF Rows
    <2>3. CASE u \in Group(OidOf[item[e]])
      <3>1. after = Remaining(item[e])
        BY <2>1, <2>2, <2>3 DEF Remaining, Live, Group
      <3>2. Below("GAS", result[e]) => ~Below(ResultPhase(Remaining(item[e])), result[e])
        BY <2>1 DEF DecisionStillValid, DecisionStands, Deciding
      <3> QED
        BY <2>1, <2>3, <3>1, <3>2
    <2>4. CASE u \notin Group(OidOf[item[e]])
      <3>1. after = before
        BY <2>1, <2>2, <2>4 DEF Live, Group
      <3>2. ~Below(ResultPhase(before), oidPhase[u])
        BY <2>1, <2>2, <2>4 DEF RealRecord
      <3> QED
        BY <2>1, <2>4, <3>1, <3>2
    <2> QED
      BY <2>3, <2>4
  <1>3. CASE ~\E e \in Engines : MarkDeleted(e)
    <2>1. /\ Rows \subseteq Rows' /\ deleted' = deleted
          /\ oidPhase'[u] = "GAS" \/ (u \in Rows /\ oidPhase'[u] = oidPhase[u])
      BY <1>3, LiveSteps
    <2>2. u \in Rows /\ oidPhase'[u] = oidPhase[u]
      BY <2>1, PhaseNumbers DEF Below
    <2>3. before \subseteq after
      BY <2>1 DEF Live, Group
    <2>4. ~Below(ResultPhase(before), oidPhase[u])
      BY <2>2 DEF RealRecord
    <2>5. /\ ResultPhase(before) \in Phases /\ ResultPhase(after) \in Phases
          /\ oidPhase[u] \in Phases
      BY <1>1, ResultPhaseType DEF TypeInv, TypeOK
    <2>6. Below("GAS", ResultPhase(before)) => ~Below(ResultPhase(after), ResultPhase(before))
      BY <1>1, <2>3, MoreInstances
    <2> QED
      BY <2>2, <2>4, <2>5, <2>6, BelowChain
  <1> QED
    BY <1>2, <1>3

LEMMA RecordStep ==
    ASSUME SingleEngine, ~Withdrawals, Containers = {}
    PROVE  TypeInv /\ TypeInv' /\ PurgedInv /\ DecisionStillValid
               /\ PhaseNotOverstated /\ [Next]_vars => PhaseNotOverstated'
  <1>1. PhaseNotOverstated <=> \A u \in Items : RealRecord(u)
    BY DEF PhaseNotOverstated, RealRecord, Rows
  <1>2. PhaseNotOverstated' <=> \A u \in Items : RealRecord(u)'
    BY DEF PhaseNotOverstated, RealRecord, Rows
  <1> QED
    BY <1>1, <1>2, RecordRowStep

\* The OID_phase on record is one the instances on record give, for items that
\* are plain files: a lone engine writes it for the whole OID in the transaction
\* that flags the row deleted, and every other change only adds instances.
THEOREM RecordedPhaseIsReal ==
    ASSUME SingleEngine, ~Withdrawals, Containers = {}
    PROVE  Spec => []PhaseNotOverstated
  <1>1. Init => PhaseNotOverstated
    BY PhaseNumbers DEF Init, PhaseNotOverstated, Below, Rows
  <1> QED
    BY <1>1, RecordStep, TypeInvariance, PurgedInvariance, DecisionInvariance, PTL
    DEF Spec
-----------------------------------------------------------------------------
(***************************************************************************)
(* The promise of payloads.  When every instance of an item with a target  *)
(* is stored and in no container, its rows and its payloads say the same,  *)
(* except for the instance an engine has just purged.  That takes an       *)
(* engine that ends what it begins: no call fails, and it is alone.        *)
(***************************************************************************)
Guarded(o) == \E v \in Items : OidOf[v] = o /\ Below("GAS", Target[v])

SettledItems ==
    \A u \in Items : Guarded(OidOf[u]) =>
        /\ u \in Registered
        /\ \A box \in Containers : u \notin Contents[box]

Stored(u) ==
    \/ row[u] = "READY" /\ u \in payload
    \/ u \in deleted
    \/ \E e \in Engines : item[e] = u /\ pc[e] \in {"state", "mark"}

DecidedWell(e, u) ==
    item[e] = u /\ pc[e] \in Deciding => ~Below(ResultPhase(Remaining(u)), Target[u])

SettledInv ==
    \A u \in Items : Guarded(OidOf[u]) => /\ Stored(u)
                                          /\ \A e \in Engines : DecidedWell(e, u)

\* The rows of such an item stay, so only the final transaction of a deletion
\* changes which of them count.
LEMMA GuardedRowsStay ==
    ASSUME SettledItems, PurgedInv, PurgedInv', NEW u \in Items, Guarded(OidOf[u])
    PROVE  /\ row[u] \in {"READY", "DELETED"}
           /\ \A e \in Engines : u \in RemovedWith(item[e]) => item[e] = u
           /\ deleted' = deleted => Remaining(u)' = Remaining(u)
  <1>1. \A v \in Items : OidOf[v] = OidOf[u] => row[v] # "absent" /\ row'[v] # "absent"
    BY DEF SettledItems, PurgedInv, RegisteredStays
  <1>2. Group(OidOf[u])' = Group(OidOf[u])
    BY <1>1 DEF Group, Rows
  <1>3. row[u] \in {"READY", "DELETED"}
    BY DEF SettledItems, PurgedInv, RegisteredStays
  <1>4. \A e \in Engines : u \in RemovedWith(item[e]) => item[e] = u
    BY DEF SettledItems, RemovedWith
  <1> QED
    BY <1>2, <1>3, <1>4 DEF Remaining, Live

LEMMA StoredStep ==
    ASSUME MaxFaults = 0, SettledItems, TypeInv, PurgedInv, PurgedInv', [Next]_vars,
           NEW u \in Items, Guarded(OidOf[u]), Stored(u)
    PROVE  Stored(u)'
  <1> USE DEF TypeInv, TypeOK
  <1>r. /\ row[u] \in {"READY", "DELETED"}
        /\ \A e \in Engines : u \in RemovedWith(item[e]) => item[e] = u
    BY GuardedRowsStay
  <1>k. ASSUME row'[u] = row[u], payload \subseteq payload', deleted \subseteq deleted',
               \A e \in Engines : pc[e] \in {"state", "mark"} =>
                                      pc'[e] \in {"state", "mark"} /\ item'[e] = item[e]
        PROVE  Stored(u)'
    BY <1>k DEF Stored
  <1>1. CASE Clock \/ Volumes \/ UNCHANGED vars
    BY <1>1, <1>k DEF Clock, Volumes, Expire, Extend, VolumeDown, VolumeUp, vars, table, world, engine
  <1>2. CASE Copying
    <2>1. ASSUME NEW v \in Items,
                 \/ \E orig \in Items : BeginCopy(v, orig)
                 \/ CopyLands(v) \/ CopyReady(v) \/ CopyFailed(v)
          PROVE  Stored(u)'
      <3>1. /\ UNCHANGED <<deleted, pc, item>> /\ payload \subseteq payload'
            /\ UNCHANGED row \/ (row[v] \in {"absent", "INITIALISED"}
                                 /\ \E s : row' = [row EXCEPT ![v] = s])
        BY <2>1 DEF BeginCopy, CopyLands, CopyReady, CopyFailed, table, world, engine
      <3>2. row'[u] = row[u]
        BY <1>r, <3>1
      <3> QED
        BY <1>k, <3>1, <3>2
    <2> QED
      BY <1>2, <2>1 DEF Copying
  <1>3. ASSUME NEW e \in Engines,
               \/ Scan(e) \/ EndPass(e) \/ LoadRow(e) \/ CheckResilience(e) \/ QueryReady(e)
        PROVE  Stored(u)'
    <2>1. /\ UNCHANGED <<row, payload, deleted>> /\ pc[e] \notin {"state", "mark"}
          /\ \A f \in Engines \ {e} : pc'[f] = pc[f] /\ item'[f] = item[f]
      BY <1>3 DEF Scan, EndPass, LoadRow, CheckResilience, CheckKept, QueryReady, table, world
    <2> QED
      BY <1>k, <2>1
  <1>4. ASSUME NEW e \in Engines, Purge(e) PROVE Stored(u)'
    <2>1. /\ UNCHANGED <<row, deleted, item>> /\ pc[e] = "purge"
          /\ \A f \in Engines \ {e} : pc'[f] = pc[f]
      BY <1>4 DEF Purge, table
    <2>2. CASE payload' = payload
      BY <1>k, <2>1, <2>2
    <2>3. CASE payload' = payload \ RemovedWith(item[e]) /\ pc' = [pc EXCEPT ![e] = "state"]
      BY <1>r, <2>1, <2>3 DEF Stored
    <2> QED
      BY <1>4, <2>2, <2>3 DEF Purge
  <1>5. ASSUME NEW e \in Engines, SetState(e) PROVE Stored(u)'
    <2>1. /\ UNCHANGED <<payload, deleted, item>> /\ pc' = [pc EXCEPT ![e] = "mark"]
          /\ row' = [row EXCEPT ![item[e]] = "DELETED"]
      BY <1>5 DEF SetState, world
    <2> QED
      BY <2>1 DEF Stored
  <1>6. ASSUME NEW e \in Engines, MarkDeleted(e) PROVE Stored(u)'
    <2> DEFINE marked == {item[e]} \cup Children(item[e])
    <2>1. /\ UNCHANGED <<payload, item>> /\ pc' = [pc EXCEPT ![e] = "next"]
          /\ deleted' = deleted \cup marked
          /\ row'[u] = IF u \in marked THEN "DELETED" ELSE row[u]
      BY <1>6 DEF MarkDeleted, world
    <2>2. item[e] = u => u \in deleted'
      BY <2>1
    <2> HIDE DEF marked
    <2> QED
      BY <2>1, <2>2 DEF Stored
  <1>7. ASSUME NEW e \in Engines, Fault(e) PROVE FALSE
    BY <1>7 DEF Fault, DatabaseFails, AnswerLost, Crash
  <1> QED
    BY <1>1, <1>2, <1>3, <1>4, <1>5, <1>6, <1>7 DEF Next, EngineStep

LEMMA DecidedStep ==
    ASSUME SingleEngine, SettledItems, TypeInv, PurgedInv, PurgedInv', [Next]_vars,
           NEW u \in Items, Guarded(OidOf[u]), NEW e \in Engines, DecidedWell(e, u)
    PROVE  DecidedWell(e, u)'
  <1> USE DEF TypeInv, TypeOK
  <1>r. ASSUME deleted' = deleted PROVE ResultPhase(Remaining(u))' = ResultPhase(Remaining(u))
    BY <1>r, GuardedRowsStay DEF ResultPhase, UidPhase
  <1>k. ASSUME deleted' = deleted,
               pc'[e] \in Deciding => pc[e] \in Deciding /\ item'[e] = item[e]
        PROVE  DecidedWell(e, u)'
    BY <1>k, <1>r DEF DecidedWell
  <1>1. CASE Clock \/ Copying \/ Volumes \/ UNCHANGED vars
    BY <1>1, <1>k DEF Clock, Copying, Volumes, Expire, Extend, BeginCopy, CopyLands, CopyReady,
       CopyFailed, VolumeDown, VolumeUp, vars, table, world, engine
  <1>2. CASE Scan(e) \/ EndPass(e) \/ LoadRow(e) \/ MarkDeleted(e) \/ Fault(e)
    <2>1. pc'[e] \notin Deciding
      BY <1>2 DEF Scan, EndPass, LoadRow, MarkDeleted, Fault, DatabaseFails, AnswerLost, Crash, Deciding
    <2> QED
      BY <2>1 DEF DecidedWell
  <1>3. CASE CheckResilience(e)
    <2>1. UNCHANGED <<deleted, item>>
      BY <1>3 DEF CheckResilience, CheckKept, table
    <2>2. pc'[e] \in Deciding =>
              ~Below(ResultPhase(Remaining(item[e])), Target[item[e]])
      BY <1>3 DEF CheckResilience, CheckKept, Deciding
    <2> QED
      BY <1>r, <2>1, <2>2 DEF DecidedWell
  <1>4. CASE QueryReady(e) \/ Purge(e) \/ SetState(e)
    BY <1>4, <1>k DEF QueryReady, Purge, SetState, table, Deciding
  <1> QED
    BY <1>1, <1>2, <1>3, <1>4 DEF Next, EngineStep, SingleEngine

LEMMA SettledInvariance ==
    ASSUME SingleEngine, MaxFaults = 0, SettledItems
    PROVE  Spec => [](TypeInv /\ PurgedInv /\ SettledInv)
  <1>1. Init => SettledInv
    BY DEF Init, SettledInv, SettledItems, Stored, DecidedWell, Deciding
  <1>2. TypeInv /\ PurgedInv /\ PurgedInv' /\ SettledInv /\ [Next]_vars => SettledInv'
    BY StoredStep, DecidedStep DEF SettledInv
  <1> QED
    BY <1>1, <1>2, TypeInvariance, PurgedInvariance, PTL DEF Spec

LEMMA PayloadStep ==
    ASSUME SingleEngine, MaxFaults = 0, SettledItems,
           TypeInv, PurgedInv, PurgedInv', SettledInv, [Next]_vars,
           NEW u \in payload \ payload', Below("GAS", Target[u])
    PROVE  ~Below(ResultPhase(Durable(OidOf[u])'), Target[u])
  <1> USE DEF TypeInv, TypeOK
  <1>g. u \in Items /\ Guarded(OidOf[u])
    BY DEF Guarded
  <1>1. PICK e \in Engines : /\ Purge(e) /\ payload' = payload \ RemovedWith(item[e])
                             /\ pc[e] = "purge" /\ u \in RemovedWith(item[e])
    <2>1. ASSUME Clock \/ Copying \/ Volumes \/ UNCHANGED vars PROVE FALSE
      BY <2>1 DEF Clock, Copying, Volumes, Expire, Extend, BeginCopy, CopyLands, CopyReady,
         CopyFailed, VolumeDown, VolumeUp, vars, world
    <2>2. ASSUME NEW e \in Engines,
                 \/ Scan(e) \/ EndPass(e) \/ LoadRow(e) \/ CheckResilience(e) \/ QueryReady(e)
                 \/ SetState(e) \/ MarkDeleted(e) \/ Fault(e)
          PROVE  FALSE
      BY <2>2 DEF Scan, EndPass, LoadRow, CheckResilience, CheckKept, QueryReady, SetState,
         MarkDeleted, Fault, DatabaseFails, AnswerLost, Crash, world
    <2>3. PICK e \in Engines : Purge(e)
      BY <2>1, <2>2 DEF Next, EngineStep
    <2> QED
      BY <2>3 DEF Purge
  <1>2. item[e] = u
    BY <1>1, <1>g, GuardedRowsStay
  <1>3. UNCHANGED <<row, deleted>>
    BY <1>1 DEF Purge, table
  <1>4. ASSUME NEW v \in Items, OidOf[v] = OidOf[u], v # u, v \notin deleted
        PROVE  row[v] = "READY" /\ v \in payload'
    <2>1. Guarded(OidOf[v])
      BY <1>4, <1>g
    <2>2. Stored(v)
      BY <2>1 DEF SettledInv
    <2>3. \A f \in Engines : f = e
      BY DEF SingleEngine
    <2>4. row[v] = "READY" /\ v \in payload
      BY <1>1, <1>2, <1>4, <2>2, <2>3 DEF Stored
    <2>5. v \notin RemovedWith(item[e])
      BY <1>2, <1>4, <2>1, GuardedRowsStay
    <2> QED
      BY <1>1, <2>4, <2>5
  <1>5. Durable(OidOf[u])' = Remaining(u)
    BY <1>3, <1>4 DEF Durable, Remaining, Live, Group, Rows
  <1> QED
    BY <1>1, <1>2, <1>5, <1>g DEF SettledInv, DecidedWell, Deciding

\* docs/src/heuristics/data_item_deletion.rst, the target is kept, of payloads
\* instead of rows: whenever a lone engine whose calls do not fail takes a
\* payload away, the payloads left of that item satisfy its target, if all
\* instances of items with a target are stored and none lies in a container;
\* whatever other items, containers and copies come and go beside them.
THEOREM SettledPayloadsAreSafe ==
    ASSUME SingleEngine, MaxFaults = 0, SettledItems
    PROVE  Spec => PayloadRemovalSafe
  <1>1. TypeInv /\ PurgedInv /\ PurgedInv' /\ SettledInv /\ [Next]_vars =>
          [\A u \in payload \ payload' :
              Below("GAS", Target[u]) =>
                  ~Below(ResultPhase(Durable(OidOf[u])'), Target[u])]_vars
    BY PayloadStep
  <1> QED
    BY <1>1, SettledInvariance, PTL DEF Spec, PayloadRemovalSafe
===============================================================================

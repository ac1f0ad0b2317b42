------------------------ MODULE PhaseHeuristics_proofs ------------------------
(***************************************************************************)
(* What holds of changing, enforcing and expiring the phase of a whole     *)
(* item, for any number of rows, volumes and items: the types, and that    *)
(* tombstones stay sound, with any number of engines; and with one engine  *)
(* what the heuristics measure, delete, copy and record.                   *)
(***************************************************************************)
EXTENDS PhaseHeuristics, Retention_proofs

LEMMA RowSets ==
    ASSUME NEW o
    PROVE  /\ Rows \subseteq Items /\ Group(o) \subseteq Items /\ Live(o) \subseteq Items
           /\ Remaining(o) \subseteq Items
           /\ Oids \subseteq Items
  BY RowsAssumption DEF Rows, Group, Live, Remaining, Oids

\* The phase of any set of instances is a phase.
LEMMA PhaseOfType ==
    ASSUME NEW S \in SUBSET Items
    PROVE  IsFiniteSet(S) /\ PhaseOf(S) \in Phases /\ (S # {} => ResultPhase(S) = PhaseOf(S))
  <1>1. IsFiniteSet(S)
    BY RowsAssumption, FS_Subset
  <1> QED
    BY <1>1, CombineCopiesMonotone DEF PhaseOf, ResultPhase

\* The volume a raise has chosen is one of a row to be.
Chosen == \A e \in Engines : call[e].at = "copy" => item[e] \in Items

PhaseTypeInv == PhaseTypeOK /\ Working /\ Chosen

LEMMA InitPhaseTypes == PhaseInit => PhaseTypeInv
  <1> SUFFICES ASSUME PhaseInit PROVE PhaseTypeInv
    OBVIOUS
  <1>1. TypeOK /\ Working
    BY InitTypes DEF PhaseInit, TypeInv
  <1>2. NoCall \in Call
    BY DEF NoCall, Call, Ops, Stages, Reports, Phases
  <1>3. call \in [Engines -> Call] /\ oidExpired \in SUBSET Items
    BY <1>2 DEF PhaseInit
  <1>4. Chosen
    BY DEF PhaseInit, NoCall, Chosen
  <1> QED
    BY <1>1, <1>3, <1>4 DEF PhaseTypeInv, PhaseTypeOK

\* The end of a call.
LEMMA ReturnTypes ==
    ASSUME PhaseTypeInv, NEW e \in Engines, NEW report \in Reports, Return(e, report)
    PROVE  /\ call' \in [Engines -> Call]
           /\ pc' \in [Engines -> Places] /\ todo' \in [Engines -> SUBSET Items]
           /\ item' \in [Engines -> Items \cup {NoItem}] /\ result' \in [Engines -> Phases]
           /\ Working' /\ Chosen'
           /\ UNCHANGED <<row, deleted, expired, payload, up, oidExpired>>
  <1>1. [NoCall EXCEPT !.report = report] \in Call
    BY DEF NoCall, Call, Ops, Stages, Phases
  <1>2. call' = [call EXCEPT ![e] = [NoCall EXCEPT !.report = report]]
    BY DEF Return
  <1>3. call' \in [Engines -> Call]
    BY <1>1, <1>2 DEF PhaseTypeInv, PhaseTypeOK
  <1>4. /\ pc' = [pc EXCEPT ![e] = "idle"] /\ todo' = [todo EXCEPT ![e] = {}]
        /\ item' = [item EXCEPT ![e] = NoItem] /\ result' = [result EXCEPT ![e] = "GAS"]
        /\ UNCHANGED <<row, deleted, expired, payload, up, oidExpired>>
    BY DEF Return, world
  <1>5. /\ pc' \in [Engines -> Places] /\ todo' \in [Engines -> SUBSET Items]
        /\ item' \in [Engines -> Items \cup {NoItem}] /\ result' \in [Engines -> Phases]
    BY <1>4 DEF PhaseTypeInv, PhaseTypeOK, TypeOK, Places, Phases
  <1>6. Working'
    BY <1>4 DEF PhaseTypeInv, PhaseTypeOK, TypeOK, Working
  <1>7. call'[e].at = "idle" /\ \A f \in Engines \ {e} : call'[f] = call[f]
    BY <1>2 DEF PhaseTypeInv, PhaseTypeOK, NoCall
  <1>8. Chosen'
    BY <1>4, <1>7 DEF PhaseTypeInv, PhaseTypeOK, TypeOK, Chosen
  <1> QED
    BY <1>3, <1>4, <1>5, <1>6, <1>8

\* A call that has returned leaves the types as they are.
LEMMA ReturnKeepsTypes ==
    ASSUME PhaseTypeInv, NEW e \in Engines, NEW report \in Reports, Return(e, report),
           oidPhase' \in [Items -> Phases], faults' \in 0..MaxFaults
    PROVE  PhaseTypeInv'
  BY ReturnTypes DEF PhaseTypeInv, PhaseTypeOK, TypeOK

LEMMA FailKeepsTypes ==
    ASSUME PhaseTypeInv, NEW e \in Engines, Fail(e)
    PROVE  PhaseTypeInv'
  <1>1. oidPhase' \in [Items -> Phases] /\ faults' \in 0..MaxFaults
    BY DEF Fail, PhaseTypeInv, PhaseTypeOK, TypeOK
  <1> QED
    BY <1>1, ReturnKeepsTypes DEF Fail, Reports

LEMMA SucceedKeepsTypes ==
    ASSUME PhaseTypeInv, NEW e \in Engines, NEW p \in Phases, Succeed(e, p)
    PROVE  PhaseTypeInv'
  <1>1. oidPhase' \in [Items -> Phases] /\ faults' \in 0..MaxFaults
    BY DEF Succeed, RecordPhase, PhaseTypeInv, PhaseTypeOK, TypeOK
  <1> QED
    BY <1>1, ReturnKeepsTypes DEF Succeed, Reports

\* A step that moves a call on, and perhaps gives it instances to visit.
LEMMA CallMoves ==
    ASSUME PhaseTypeInv, NEW e \in Engines, pc[e] = "next",
           call' \in [Engines -> Call], todo' \in [Engines -> SUBSET Items],
           call'[e].at # "copy", \A f \in Engines \ {e} : call'[f] = call[f],
           OnlyCall
    PROVE  PhaseTypeInv'
  <1>1. UNCHANGED <<row, deleted, expired, oidPhase, payload, up, pc, item, result, faults, oidExpired>>
    BY DEF OnlyCall, table, world
  <1>2. TypeOK'
    BY <1>1 DEF PhaseTypeInv, PhaseTypeOK, TypeOK
  <1>3. Working' /\ Chosen'
    BY <1>1 DEF PhaseTypeInv, Working, Chosen
  <1> QED
    BY <1>1, <1>2, <1>3 DEF PhaseTypeInv, PhaseTypeOK

\* The fields a step writes.
LEMMA CallFields ==
    ASSUME PhaseTypeInv, NEW e \in Engines
    PROVE  /\ call[e] \in Call
           /\ \A s \in Stages : [call EXCEPT ![e].at = s] \in [Engines -> Call]
           /\ \A s \in Stages, p \in Phases :
                 /\ [call EXCEPT ![e].at = s, ![e].reached = p] \in [Engines -> Call]
                 /\ [call EXCEPT ![e].at = s, ![e].goal = p] \in [Engines -> Call]
                 /\ [call EXCEPT ![e].reached = p, ![e].at = s] \in [Engines -> Call]
           /\ \A s \in Stages, r \in Reports :
                 [call EXCEPT ![e].report = r, ![e].at = s] \in [Engines -> Call]
  <1>1. call \in [Engines -> Call]
    BY DEF PhaseTypeInv, PhaseTypeOK
  <1>2. call[e] \in Call
    BY <1>1
  <1>3. \A s \in Stages : [call EXCEPT ![e].at = s] \in [Engines -> Call]
    BY <1>1, <1>2 DEF Call
  <1>4. \A s \in Stages, p \in Phases :
           /\ [call EXCEPT ![e].at = s, ![e].reached = p] \in [Engines -> Call]
           /\ [call EXCEPT ![e].at = s, ![e].goal = p] \in [Engines -> Call]
           /\ [call EXCEPT ![e].reached = p, ![e].at = s] \in [Engines -> Call]
    BY <1>1, <1>2 DEF Call
  <1>5. \A s \in Stages, r \in Reports :
           [call EXCEPT ![e].report = r, ![e].at = s] \in [Engines -> Call]
    BY <1>1, <1>2 DEF Call
  <1> QED
    BY <1>2, <1>3, <1>4, <1>5

LEMMA BeginKeepsTypes ==
    ASSUME PhaseTypeInv, NEW e \in Engines, NEW op \in Ops, NEW o \in Items,
           NEW goal \in Phases, Begin(e, op, o, "measure", goal)
    PROVE  PhaseTypeInv'
  <1>1. [op |-> op, at |-> "measure", oid |-> o, oids |-> {},
         goal |-> goal, reached |-> goal, report |-> "none"] \in Call
    BY DEF Call, Stages, Reports
  <1>2. /\ pc' = [pc EXCEPT ![e] = "next"]
        /\ call' = [call EXCEPT ![e] = [op |-> op, at |-> "measure", oid |-> o, oids |-> {},
                                        goal |-> goal, reached |-> goal, report |-> "none"]]
        /\ UNCHANGED <<row, deleted, expired, oidPhase, payload, up, todo, item, result, faults, oidExpired>>
    BY DEF Begin, table, world
  <1>3. call' \in [Engines -> Call]
    BY <1>1, <1>2 DEF PhaseTypeInv, PhaseTypeOK
  <1>4. call'[e].at # "copy" /\ \A f \in Engines \ {e} : call'[f] = call[f]
    BY <1>2 DEF PhaseTypeInv, PhaseTypeOK
  <1>5. TypeOK'
    BY <1>2 DEF PhaseTypeInv, PhaseTypeOK, TypeOK, Places
  <1>6. Working' /\ Chosen'
    BY <1>2, <1>4 DEF PhaseTypeInv, PhaseTypeOK, TypeOK, Working, Chosen
  <1> QED
    BY <1>2, <1>3, <1>5, <1>6 DEF PhaseTypeInv, PhaseTypeOK

LEMMA RequestTypes ==
    ASSUME PhaseTypeInv, NEW e \in Engines, Request(e)
    PROVE  PhaseTypeInv'
  <1>1. ASSUME NEW o \in Oids, CallEnforce(e, o) PROVE PhaseTypeInv'
    <2>1. o \in Items /\ Target[o] \in Phases
      BY RowSets, RowsAssumption
    <2> QED
      BY <1>1, <2>1, BeginKeepsTypes DEF CallEnforce, Ops
  <1>2. ASSUME NEW o \in Oids, NEW goal \in Phases, CallChange(e, o, goal) PROVE PhaseTypeInv'
    <2>1. o \in Items
      BY RowSets
    <2> QED
      BY <1>2, <2>1, BeginKeepsTypes DEF CallChange, Ops
  <1>3. CASE CallOidExpiry(e)
    <2> DEFINE found == {o \in oidExpired : Live(o) # {}}
    <2>1. /\ pc' = [pc EXCEPT ![e] = "next"]
          /\ call' = [call EXCEPT ![e].op = "expire", ![e].at = "list", ![e].oids = found,
                                  ![e].report = "none"]
          /\ UNCHANGED <<row, deleted, expired, oidPhase, payload, up, todo, item, result, faults, oidExpired>>
      BY <1>3 DEF CallOidExpiry, table, world
    <2>2. found \in SUBSET Items
      BY DEF PhaseTypeInv, PhaseTypeOK
    <2>3. call' \in [Engines -> Call] /\ call'[e].at = "list"
      <3>1. call \in [Engines -> Call] /\ call[e] \in Call
        BY DEF PhaseTypeInv, PhaseTypeOK
      <3> HIDE DEF found
      <3> QED
        BY <2>1, <2>2, <3>1 DEF Call, Ops, Stages, Reports
    <2>4. \A f \in Engines \ {e} : call'[f] = call[f]
      BY <2>1 DEF PhaseTypeInv, PhaseTypeOK
    <2>5. TypeOK'
      BY <2>1 DEF PhaseTypeInv, PhaseTypeOK, TypeOK, Places
    <2>6. Working' /\ Chosen'
      BY <2>1, <2>3, <2>4 DEF PhaseTypeInv, PhaseTypeOK, TypeOK, Working, Chosen
    <2> QED
      BY <2>1, <2>3, <2>5, <2>6 DEF PhaseTypeInv, PhaseTypeOK
  <1> QED
    BY <1>1, <1>2, <1>3 DEF Request

\* Measuring, listing, verifying and concluding.
LEMMA DecideTypes ==
    ASSUME PhaseTypeInv, NEW e \in Engines,
           \/ ChangeOidPhase(e) \/ OidPhaseEnforce(e) \/ DecreaseList(e) \/ ExpiryList(e)
           \/ VerifyPhase(e) \/ ConcludeChange(e) \/ ConcludeDecrease(e) \/ ConcludeExpiry(e)
    PROVE  PhaseTypeInv'
  <1> DEFINE o == call[e].oid
             c == call[e]
  <1>c. call \in [Engines -> Call] /\ c \in Call
    BY CallFields DEF PhaseTypeInv, PhaseTypeOK
  <1>o. /\ Group(o) \in SUBSET Items /\ Live(o) \in SUBSET Items
        /\ PhaseOf(Group(o)) \in Phases /\ PhaseOf(Live(o)) \in Phases
    BY RowSets, PhaseOfType
  <1>t. \A S \in SUBSET Items : [todo EXCEPT ![e] = S] \in [Engines -> SUBSET Items]
    BY DEF PhaseTypeInv, PhaseTypeOK, TypeOK
  <1>u. UNCHANGED todo => todo' \in [Engines -> SUBSET Items]
    BY DEF PhaseTypeInv, PhaseTypeOK, TypeOK
  <1>r. ASSUME NEW report \in Reports, Return(e, report), UNCHANGED <<oidPhase, faults>>
        PROVE  PhaseTypeInv'
    <2>1. oidPhase' \in [Items -> Phases] /\ faults' \in 0..MaxFaults
      BY <1>r DEF PhaseTypeInv, PhaseTypeOK, TypeOK
    <2> QED
      BY <1>r, <2>1, ReturnKeepsTypes
  <1>g. ASSUME NEW s \in Stages \ {"copy"}, pc[e] = "next", OnlyCall,
               \/ call' = [call EXCEPT ![e].at = s]
               \/ \E p \in Phases : call' = [call EXCEPT ![e].at = s, ![e].reached = p]
               \/ \E p \in Phases : call' = [call EXCEPT ![e].at = s, ![e].goal = p],
               UNCHANGED todo \/ \E S \in SUBSET Items : todo' = [todo EXCEPT ![e] = S]
        PROVE  PhaseTypeInv'
    <2>1. call' \in [Engines -> Call]
      <3>1. CASE call' = [call EXCEPT ![e].at = s]
        BY <3>1, CallFields
      <3>2. ASSUME NEW p \in Phases, call' = [call EXCEPT ![e].at = s, ![e].reached = p]
            PROVE  call' \in [Engines -> Call]
        BY <3>2, CallFields
      <3>3. ASSUME NEW p \in Phases, call' = [call EXCEPT ![e].at = s, ![e].goal = p]
            PROVE  call' \in [Engines -> Call]
        BY <3>3, CallFields
      <3> QED
        BY <1>g, <3>1, <3>2, <3>3
    <2>2. call'[e].at = s /\ \A f \in Engines \ {e} : call'[f] = call[f]
      BY <1>g, <1>c DEF Call
    <2>3. todo' \in [Engines -> SUBSET Items]
      BY <1>g, <1>t, <1>u
    <2> QED
      BY <1>g, <2>1, <2>2, <2>3, CallMoves
  <1>1. CASE ChangeOidPhase(e)
    <2> DEFINE actual == PhaseOf(Live(o))
    <2>0. pc[e] = "next" /\ "delete" \in Stages \ {"copy"} /\ "identify" \in Stages \ {"copy"}
      BY <1>1 DEF ChangeOidPhase, At, Stages
    <2>1. CASE Fail(e)
      BY <2>1, FailKeepsTypes
    <2>2. CASE /\ todo' = [todo EXCEPT ![e] = Live(o)]
               /\ call' = [call EXCEPT ![e].at = "delete", ![e].reached = actual]
               /\ OnlyCall
      BY <2>0, <2>2, <1>g, <1>o
    <2>3. CASE Goto(e, "identify") /\ OnlyCall /\ UNCHANGED todo
      BY <2>0, <2>3, <1>g DEF Goto
    <2>4. CASE Return(e, "done") /\ UNCHANGED <<oidPhase, faults>>
      BY <2>4, <1>r DEF Reports
    <2>5. CASE Succeed(e, actual)
      BY <2>5, <1>o, SucceedKeepsTypes
    <2> QED
      BY <1>1, <2>1, <2>2, <2>3, <2>4, <2>5 DEF ChangeOidPhase, Counted
  <1>2. CASE OidPhaseEnforce(e)
    <2>0. /\ pc[e] = "next" /\ "list" \in Stages \ {"copy"} /\ "identify" \in Stages \ {"copy"}
          /\ \A v \in Group(o) : Target[v] \in Phases
      BY <1>2, <1>o, RowsAssumption DEF OidPhaseEnforce, At, Stages
    <2>1. CASE Fail(e)
      BY <2>1, FailKeepsTypes
    <2>2. ASSUME NEW s \in {"list", "identify"}, NEW v \in Group(o),
                 call' = [call EXCEPT ![e].at = s, ![e].goal = Target[v]],
                 OnlyCall, UNCHANGED todo
          PROVE  PhaseTypeInv'
      BY <2>0, <2>2, <1>g
    <2>3. CASE Return(e, "done") /\ UNCHANGED <<oidPhase, faults>>
      BY <2>3, <1>r DEF Reports
    <2>4. CASE Succeed(e, PhaseOf(Group(o)))
      BY <2>4, <1>o, SucceedKeepsTypes
    <2> QED
      BY <1>2, <2>1, <2>2, <2>3, <2>4 DEF OidPhaseEnforce
  <1>3. CASE DecreaseList(e)
    <2>0. pc[e] = "next" /\ "delete" \in Stages \ {"copy"}
      BY <1>3 DEF DecreaseList, At, Stages
    <2>1. CASE Fail(e)
      BY <2>1, FailKeepsTypes
    <2>2. CASE ~Fail(e)
      BY <2>0, <1>3, <2>2, <1>o, <1>g DEF DecreaseList, Goto
    <2> QED
      BY <2>1, <2>2
  <1>4. CASE ExpiryList(e)
    <2>1. PICK x \in call[e].oids :
              /\ todo' = [todo EXCEPT ![e] = Live(x)]
              /\ call' = [call EXCEPT ![e].at = "delete", ![e].oid = x, ![e].oids = @ \ {x}]
              /\ OnlyCall
      BY <1>4 DEF ExpiryList
    <2>2. x \in Items /\ Live(x) \in SUBSET Items
      BY <1>c, RowSets DEF Call
    <2>3. call' \in [Engines -> Call] /\ call'[e].at = "delete"
      BY <1>c, <2>1, <2>2 DEF Call, Stages
    <2>4. \A f \in Engines \ {e} : call'[f] = call[f]
      BY <1>c, <2>1
    <2> QED
      BY <1>4, <1>t, <2>1, <2>2, <2>3, <2>4, CallMoves DEF ExpiryList, At
  <1>5. CASE VerifyPhase(e)
    <2>1. /\ pc[e] = "next" /\ OnlyCall /\ UNCHANGED todo
          /\ \E s \in {"conclude", "delete"} : Goto(e, s)
      BY <1>5 DEF VerifyPhase, At
    <2> QED
      BY <2>1, <1>g DEF Goto, Stages
  <1>6. CASE ConcludeChange(e)
    <2>1. call[e].goal \in Phases
      BY <1>c DEF Call
    <2> QED
      BY <1>6, <2>1, FailKeepsTypes, SucceedKeepsTypes DEF ConcludeChange
  <1>7. CASE ConcludeDecrease(e)
    BY <1>7, <1>r DEF ConcludeDecrease, Reports
  <1>8. CASE ConcludeExpiry(e)
    <2>1. CASE Goto(e, "list") /\ OnlyCall /\ UNCHANGED todo
      BY <1>8, <2>1, <1>g DEF Goto, Stages, ConcludeExpiry, LoopOver, At
    <2> QED
      BY <1>8, <2>1, <1>r DEF ConcludeExpiry, Reports
  <1> QED
    BY <1>1, <1>2, <1>3, <1>4, <1>5, <1>6, <1>7, <1>8

\* Raising, and the failures.
LEMMA RaiseTypes ==
    ASSUME PhaseTypeInv, NEW e \in Engines,
           \/ IdentifyTargetStorage(e) \/ CopyRefused(e) \/ CombineWithCopy(e)
           \/ HeuristicFails(e) \/ EngineDies(e)
    PROVE  PhaseTypeInv'
  <1> DEFINE o == call[e].oid
  <1>c. call \in [Engines -> Call] /\ call[e] \in Call
    BY CallFields DEF PhaseTypeInv, PhaseTypeOK
  <1>1. CASE IdentifyTargetStorage(e)
    <2>1. CASE Fail(e)
      BY <2>1, FailKeepsTypes
    <2>2. ASSUME NEW u \in Candidates(o, call[e].goal), item' = [item EXCEPT ![e] = u],
                 Goto(e, "copy"),
                 UNCHANGED <<table, world, pc, todo, result, faults, oidExpired>>
          PROVE  PhaseTypeInv'
      <3>1. u \in Items
        BY DEF Candidates
      <3>2. call' \in [Engines -> Call] /\ \A f \in Engines \ {e} : call'[f] = call[f]
        <4>1. "copy" \in Stages
          BY DEF Stages
        <4>2. [call EXCEPT ![e].at = "copy"] \in [Engines -> Call]
          BY <4>1, CallFields
        <4> QED
          BY <1>c, <2>2, <4>2 DEF Goto
      <3>3. UNCHANGED <<row, deleted, expired, oidPhase, payload, up>>
        BY <2>2 DEF table, world
      <3>4. item' \in [Engines -> Items \cup {NoItem}] /\ item'[e] \in Items
        BY <2>2, <3>1 DEF PhaseTypeInv, PhaseTypeOK, TypeOK
      <3>5. TypeOK'
        BY <2>2, <3>3, <3>4 DEF PhaseTypeInv, PhaseTypeOK, TypeOK
      <3>6. Working' /\ Chosen'
        BY <2>2, <3>1, <3>2, <3>4 DEF PhaseTypeInv, PhaseTypeOK, TypeOK, Working, Chosen
      <3> QED
        BY <2>2, <3>2, <3>5, <3>6 DEF PhaseTypeInv, PhaseTypeOK
    <2> QED
      BY <1>1, <2>1, <2>2 DEF IdentifyTargetStorage
  <1>2. CASE CopyRefused(e)
    BY <1>2, FailKeepsTypes DEF CopyRefused
  <1>3. CASE CombineWithCopy(e)
    <2>1. RaisedTo(o, call[e].goal) \in Phases
      <3>1. call[e].goal \in Phases /\ Live(o) \in SUBSET Items
        BY <1>c, RowSets DEF Call
      <3> QED
        BY <3>1, PhaseOfType DEF RaisedTo
    <2> QED
      BY <1>3, <2>1, FailKeepsTypes, SucceedKeepsTypes DEF CombineWithCopy
  <1>4. ASSUME NEW report \in Reports, Return(e, report), UNCHANGED oidPhase,
               faults < MaxFaults, faults' = faults + 1
        PROVE  PhaseTypeInv'
    <2>1. oidPhase' \in [Items -> Phases] /\ faults' \in 0..MaxFaults
      BY <1>4, FaultsAssumption DEF PhaseTypeInv, PhaseTypeOK, TypeOK
    <2> QED
      BY <1>4, <2>1, ReturnKeepsTypes
  <1>5. CASE HeuristicFails(e)
    BY <1>5, <1>4 DEF HeuristicFails, Reports
  <1>6. CASE EngineDies(e)
    BY <1>6, <1>4 DEF EngineDies, Reports
  <1> QED
    BY <1>1, <1>2, <1>3, <1>5, <1>6

\* The steps that are steps of Retention, and what they do to the call.
DeletionStep(e) == NextInstance(e) \/ DeleteInstance(e) \/ InstanceDeleted(e)

LEMMA InsideRetention ==
    ASSUME PhaseTypeInv,
           \/ \E e \in Engines : DeletionStep(e) \/ CopyDataItem(e)
           \/ CopyGoesOn \/ \E o \in Oids : OidExpires(o)
    PROVE  [Next]_vars
  <1>1. ASSUME NEW e \in Engines, DeletionStep(e) PROVE Next
    BY <1>1 DEF DeletionStep, NextInstance, DeleteInstance, InstanceDeleted, Next, EngineStep, Fault
  <1>2. ASSUME NEW e \in Engines, CopyDataItem(e) PROVE Next
    <2>1. item[e] \in Items
      BY <1>2 DEF CopyDataItem, At, PhaseTypeInv, Chosen
    <2> QED
      BY <1>2, <2>1 DEF CopyDataItem, Next, Copying
  <1>3. CopyGoesOn => Next
    BY DEF CopyGoesOn, Next, Copying
  <1>4. (\E o \in Oids : OidExpires(o)) => UNCHANGED vars
    BY DEF OidExpires
  <1> QED
    BY <1>1, <1>2, <1>3, <1>4

\* A step inside a deletion leaves everything of the call but its stage, what it
\* has reached and its report.
LEMMA DeletionCalls ==
    ASSUME PhaseTypeInv, NEW e \in Engines, DeletionStep(e)
    PROVE  /\ call' \in [Engines -> Call] /\ UNCHANGED oidExpired
           /\ \A f \in Engines \ {e} : call'[f] = call[f]
           /\ call[e].at = "delete"
           /\ call'[e].at \in {"delete", "conclude", "verify"}
           /\ call'[e].op = call[e].op /\ call'[e].oid = call[e].oid
           /\ call'[e].oids = call[e].oids /\ call'[e].goal = call[e].goal
           /\ InstanceDeleted(e) => call'[e].reached = result[e]
           /\ NextInstance(e) \/ DeleteInstance(e) => call'[e].reached = call[e].reached
  <1> DEFINE Rest == /\ call' \in [Engines -> Call] /\ UNCHANGED oidExpired
                     /\ \A f \in Engines \ {e} : call'[f] = call[f]
                     /\ call[e].at = "delete"
                     /\ call'[e].at \in {"delete", "conclude", "verify"}
                     /\ call'[e].op = call[e].op /\ call'[e].oid = call[e].oid
                     /\ call'[e].oids = call[e].oids /\ call'[e].goal = call[e].goal
  <1>c. call \in [Engines -> Call] /\ call[e] \in Call /\ result[e] \in Phases
    BY CallFields DEF PhaseTypeInv, PhaseTypeOK, TypeOK
  <1>2. NextInstance(e) \/ DeleteInstance(e) => Rest /\ call'[e].reached = call[e].reached
    <2>1. /\ NextInstance(e) \/ DeleteInstance(e) => call[e].at = "delete" /\ UNCHANGED oidExpired
          /\ NextInstance(e) \/ DeleteInstance(e) => AfterFailure(e) \/ UNCHANGED call
      BY DEF NextInstance, DeleteInstance, At
    <2>2. ASSUME call[e].at = "delete", UNCHANGED oidExpired, AfterFailure(e)
          PROVE  Rest /\ call'[e].reached = call[e].reached
      <3>1. PICK at \in {"delete", "conclude"} :
                call' = [call EXCEPT ![e].report = "failed", ![e].at = at]
        BY <2>2 DEF AfterFailure
      <3>2. call' \in [Engines -> Call]
        <4>1. at \in Stages /\ "failed" \in Reports
          BY DEF Stages, Reports
        <4>2. [call EXCEPT ![e].report = "failed", ![e].at = at] \in [Engines -> Call]
          BY <4>1, CallFields
        <4> QED
          BY <3>1, <4>2
      <3> QED
        BY <1>c, <2>2, <3>1, <3>2 DEF Call
    <2>3. call[e].at = "delete" /\ UNCHANGED <<oidExpired, call>> =>
              Rest /\ call'[e].reached = call[e].reached
      BY <1>c
    <2> HIDE DEF Rest
    <2> QED
      BY <2>1, <2>2, <2>3
  <1>3. ASSUME InstanceDeleted(e) PROVE Rest /\ call'[e].reached = result[e]
    <2>1. PICK at \in {"delete", "verify"} :
              call' = [call EXCEPT ![e].reached = result[e], ![e].at = at]
      BY <1>3 DEF InstanceDeleted
    <2>2. call' \in [Engines -> Call]
      <3>1. at \in Stages
        BY DEF Stages
      <3>2. [call EXCEPT ![e].reached = result[e], ![e].at = at] \in [Engines -> Call]
        BY <1>c, <3>1, CallFields
      <3> QED
        BY <2>1, <3>2
    <2> QED
      BY <1>c, <1>3, <2>1, <2>2 DEF InstanceDeleted, Call
  <1> QED
    BY <1>2, <1>3 DEF DeletionStep

LEMMA PhaseTypeStep == PhaseTypeInv /\ [PhaseNext]_phaseVars => PhaseTypeInv'
  <1> SUFFICES ASSUME PhaseTypeInv, [PhaseNext]_phaseVars PROVE PhaseTypeInv'
    OBVIOUS
  <1>t. TypeInv
    BY DEF PhaseTypeInv, PhaseTypeOK, TypeInv
  <1>c. call \in [Engines -> Call]
    BY DEF PhaseTypeInv, PhaseTypeOK
  <1>1. ASSUME NEW e \in Engines, DeletionStep(e) PROVE PhaseTypeInv'
    <2>1. TypeInv'
      BY <1>1, <1>t, InsideRetention, TypeStep
    <2>2. /\ call' \in [Engines -> Call] /\ call'[e].at # "copy" /\ UNCHANGED oidExpired
          /\ \A f \in Engines \ {e} : call'[f] = call[f]
      <3>1. call'[e].at \in {"delete", "conclude", "verify"}
        BY <1>1, DeletionCalls
      <3> QED
        BY <1>1, <3>1, DeletionCalls
    <2>3. \A f \in Engines \ {e} : item'[f] = item[f]
      BY <1>1, <1>t DEF DeletionStep, NextInstance, LoadRow, DeleteInstance, InstanceDeleted, CheckResilience,
         CheckKept, QueryReady, Purge, SetState, DatabaseFails, AnswerLost, MarkDeleted, TypeInv, TypeOK
    <2>4. Chosen'
      BY <2>2, <2>3 DEF PhaseTypeInv, Chosen
    <2> QED
      BY <2>1, <2>2, <2>4 DEF TypeInv, PhaseTypeInv, PhaseTypeOK
  <1>2. ASSUME NEW e \in Engines, CopyDataItem(e) PROVE PhaseTypeInv'
    <2>1. TypeInv'
      BY <1>2, <1>t, InsideRetention, TypeStep
    <2>2. /\ call' \in [Engines -> Call] /\ call'[e].at # "copy"
          /\ \A f \in Engines \ {e} : call'[f] = call[f]
      <3>1. call[e] \in Call /\ call' = [call EXCEPT ![e].at = "combine"]
        BY <1>2, <1>c DEF CopyDataItem, Goto
      <3> QED
        BY <1>c, <3>1 DEF Call, Stages
    <2>3. UNCHANGED item /\ UNCHANGED oidExpired
      BY <1>2 DEF CopyDataItem, BeginCopy, engine
    <2>4. Chosen'
      BY <2>2, <2>3 DEF PhaseTypeInv, Chosen
    <2> QED
      BY <2>1, <2>2, <2>3, <2>4 DEF TypeInv, PhaseTypeInv, PhaseTypeOK
  <1>3. CASE CopyGoesOn \/ (\E o \in Oids : OidExpires(o))
    <2>1. TypeInv'
      BY <1>3, <1>t, InsideRetention, TypeStep
    <2>2. UNCHANGED <<call, item>>
      BY <1>3 DEF CopyGoesOn, CopyLands, CopyReady, CopyFailed, OidExpires, vars, engine
    <2>3. oidExpired' \in SUBSET Items
      BY <1>3, RowSets DEF CopyGoesOn, OidExpires, PhaseTypeInv, PhaseTypeOK
    <2> QED
      BY <1>c, <2>1, <2>2, <2>3 DEF TypeInv, PhaseTypeInv, PhaseTypeOK, Chosen
  <1>4. CASE UNCHANGED phaseVars
    BY <1>4 DEF phaseVars, vars, table, world, engine, PhaseTypeInv, PhaseTypeOK, TypeOK, Working, Chosen
  <1> QED
    BY <1>1, <1>2, <1>3, <1>4, RequestTypes, DecideTypes, RaiseTypes
       DEF PhaseNext, Step, DeletionStep

LEMMA PhaseTypeInvariance == PhaseSpec => []PhaseTypeInv
  BY InitPhaseTypes, PhaseTypeStep, PTL DEF PhaseSpec

\* Every variable of the phase heuristics keeps its type, whatever they are
\* asked for; no call is at a stage the code does not have.
THEOREM PhaseTypeCorrect == PhaseSpec => []PhaseTypeOK
  BY PhaseTypeInvariance, PTL DEF PhaseTypeInv
-----------------------------------------------------------------------------
(***************************************************************************)
(* The rows and the payloads.  What a heuristic does to them it does in    *)
(* the steps of Retention; its other steps leave them alone, and are taken *)
(* while its engine is between two deletions.                              *)
(***************************************************************************)
Beside ==
    /\ UNCHANGED <<row, deleted, expired, payload, up>>
    /\ \A e \in Engines :
          \/ pc'[e] \in {"idle", "next"}
          \/ pc'[e] = pc[e] /\ item'[e] = item[e] /\ result'[e] = result[e]

InRetention ==
    \/ \E e \in Engines : DeletionStep(e) \/ CopyDataItem(e)
    \/ CopyGoesOn \/ \E o \in Oids : OidExpires(o)

LEMMA HeuristicSteps ==
    ASSUME PhaseTypeInv, [PhaseNext]_phaseVars
    PROVE  /\ InRetention \/ Beside
           /\ [Next]_vars \/ Beside
  <1>t. /\ pc \in [Engines -> Places] /\ item \in [Engines -> Items \cup {NoItem}]
        /\ result \in [Engines -> Phases]
    BY DEF PhaseTypeInv, PhaseTypeOK, TypeOK
  <1>1. ASSUME NEW e \in Engines, NEW report, Return(e, report) PROVE Beside
    BY <1>1, <1>t DEF Return, Beside, world
  <1>2. OnlyCall => Beside
    BY DEF OnlyCall, Beside, table, world
  <1>3. ASSUME NEW e \in Engines, Request(e) PROVE Beside
    <2>1. /\ pc' = [pc EXCEPT ![e] = "next"]
          /\ UNCHANGED <<table, world, item, result>>
      BY <1>3 DEF Request, CallEnforce, CallChange, CallOidExpiry, Begin
    <2> QED
      BY <2>1, <1>t DEF Beside, table, world
  <1>4. ASSUME NEW e \in Engines,
               \/ ChangeOidPhase(e) \/ OidPhaseEnforce(e) \/ DecreaseList(e) \/ ExpiryList(e)
               \/ VerifyPhase(e) \/ ConcludeChange(e) \/ ConcludeDecrease(e) \/ ConcludeExpiry(e)
               \/ CopyRefused(e) \/ CombineWithCopy(e) \/ HeuristicFails(e) \/ EngineDies(e)
        PROVE  Beside
    BY <1>1, <1>2, <1>4 DEF ChangeOidPhase, OidPhaseEnforce, DecreaseList, ExpiryList, VerifyPhase,
         ConcludeChange, ConcludeDecrease, ConcludeExpiry, CopyRefused, CombineWithCopy,
         HeuristicFails, EngineDies, Fail, Succeed
  <1>5. ASSUME NEW e \in Engines, IdentifyTargetStorage(e) PROVE Beside
    <2>1. CASE Fail(e)
      BY <1>1, <2>1 DEF Fail
    <2>2. CASE ~Fail(e)
      <3>1. /\ pc[e] = "next" /\ UNCHANGED <<table, world, pc, result>>
            /\ \E u \in Items : item' = [item EXCEPT ![e] = u]
        BY <1>5, <2>2 DEF IdentifyTargetStorage, At, Candidates
      <3> QED
        BY <3>1, <1>t DEF Beside, table, world
    <2> QED
      BY <2>1, <2>2
  <1>6. UNCHANGED phaseVars => Beside
    BY DEF phaseVars, vars, Beside, table, world, engine
  <1>7. InRetention \/ Beside
    BY <1>3, <1>4, <1>5, <1>6 DEF PhaseNext, Step, DeletionStep, InRetention
  <1>8. InRetention => [Next]_vars
    BY InsideRetention DEF InRetention
  <1> QED
    BY <1>7, <1>8

LEMMA PhasePurged == PhaseSpec => [](PhaseTypeInv /\ PurgedInv)
  <1>1. PhaseInit => PurgedInv
    BY InitPurged DEF PhaseInit
  <1>2. PhaseTypeInv /\ PurgedInv /\ [PhaseNext]_phaseVars => PurgedInv'
    <2> SUFFICES ASSUME PhaseTypeInv, PurgedInv, [PhaseNext]_phaseVars
                 PROVE  PurgedInv'
      OBVIOUS
    <2>1. CASE [Next]_vars
      BY <2>1, PurgedStep DEF PhaseTypeInv, PhaseTypeOK, TypeInv
    <2>2. CASE Beside
      BY <2>2 DEF Beside, PurgedInv, RegisteredStays, PurgedBeforeMarked
    <2> QED
      BY <2>1, <2>2, HeuristicSteps
  <1> QED
    BY <1>1, <1>2, PhaseTypeInvariance, PTL DEF PhaseSpec

LEMMA PhaseTombstones ==
    ASSUME ChildrenInside
    PROVE  PhaseSpec => [](PhaseTypeInv /\ TombstoneInv)
  <1>1. PhaseInit => TombstoneSound
    BY RowsAssumption DEF PhaseInit, Init, TombstoneSound
  <1>2. PhaseTypeInv /\ PurgedInv /\ TombstoneSound /\ [PhaseNext]_phaseVars => TombstoneSound'
    <2> SUFFICES ASSUME PhaseTypeInv, PurgedInv, TombstoneSound, [PhaseNext]_phaseVars
                 PROVE  TombstoneSound'
      OBVIOUS
    <2>1. CASE [Next]_vars
      BY <2>1, TombstoneStep DEF PhaseTypeInv, PhaseTypeOK, TypeInv
    <2>2. CASE Beside
      BY <2>2 DEF Beside, TombstoneSound
    <2> QED
      BY <2>1, <2>2, HeuristicSteps
  <1> QED
    BY <1>1, <1>2, PhasePurged, PTL DEF PhaseSpec, TombstoneInv

\* docs/src/heuristics/data_item_deletion.rst, DELETED means the payload does
\* not exist any more, however the deletions of several heuristics that change,
\* enforce and expire phases are interleaved, fail or are cut short; as long as
\* the children of a container lie inside it.
THEOREM HeuristicsKeepTombstones ==
    ASSUME ChildrenInside
    PROVE  PhaseSpec => []TombstoneSound
  BY PhaseTombstones, PTL DEF TombstoneInv

LEMMA PhaseDecisions ==
    ASSUME SingleEngine, ~Withdrawals
    PROVE  PhaseSpec => [](PhaseTypeInv /\ PurgedInv /\ DecisionStillValid)
  <1>1. PhaseInit => DecisionStillValid
    BY DEF PhaseInit, Init, DecisionStillValid, Deciding
  <1>2. PhaseTypeInv /\ PhaseTypeInv' /\ PurgedInv /\ DecisionStillValid /\ [PhaseNext]_phaseVars
            => DecisionStillValid'
    <2> SUFFICES ASSUME PhaseTypeInv, PhaseTypeInv', PurgedInv, DecisionStillValid,
                        [PhaseNext]_phaseVars
                 PROVE  DecisionStillValid'
      OBVIOUS
    <2>1. CASE [Next]_vars
      BY <2>1, DecisionStep DEF PhaseTypeInv, PhaseTypeOK, TypeInv
    <2>2. CASE Beside
      BY <2>2 DEF Beside, DecisionStillValid, DecisionStands, Deciding, ResultPhase, UidPhase,
           Remaining, Live, Group, Rows
    <2> QED
      BY <2>1, <2>2, HeuristicSteps
  <1> QED
    BY <1>1, <1>2, PhasePurged, PTL DEF PhaseSpec

\* docs/src/heuristics/data_item_deletion.rst, no deletion that takes the OID
\* below its target: not in the loops of the heuristics that change, enforce
\* and expire phases either, however many instances they go through, as long
\* as one engine runs and no copy is withdrawn.
THEOREM HeuristicsKeepResilience ==
    ASSUME SingleEngine, ~Withdrawals
    PROVE  PhaseSpec => RemovalKeepsResilience
  <1>1. PhaseTypeInv /\ DecisionStillValid /\ [PhaseNext]_phaseVars =>
          [\A e \in Engines :
              /\ pc[e] = "purge" /\ pc'[e] # "purge"
              /\ item[e] \in payload \ payload'
              /\ Below("GAS", Target[item[e]])
              => ~Below(ResultPhase(Remaining(item[e])), Target[item[e]])]_vars
    BY DecisionSpares DEF PhaseTypeInv, PhaseTypeOK, TypeInv
  <1> QED
    BY <1>1, PhaseDecisions, PTL DEF PhaseSpec, RemovalKeepsResilience

\* In the loops no row is added while a deletion is under way, so what it has
\* found is exactly what its item will be left with.
ExactDecision ==
    \A e \in Engines : \A u \in Items :
        item[e] = u /\ pc[e] \in Deciding => result[e] = ResultPhase(Remaining(u))

LEMMA RowsStay ==
    ASSUME PhaseTypeInv, PurgedInv, InRetention
    PROVE  Rows' \subseteq Rows \/ \E e \in Engines : CopyDataItem(e)
  <1>t. row \in [Items -> RowStates]
    BY DEF PhaseTypeInv, PhaseTypeOK, TypeOK
  <1>1. ASSUME NEW e \in Engines, DeletionStep(e) PROVE Rows' \subseteq Rows
    <2>1. CASE InstanceDeleted(e)
      <3>1. /\ row' = [v \in Items |-> IF v \in {item[e]} \cup Children(item[e])
                                       THEN "DELETED" ELSE row[v]]
            /\ pc[e] = "mark"
        BY <2>1 DEF InstanceDeleted, MarkDeleted
      <3>2. row[item[e]] # "absent" /\ \A v \in Children(item[e]) : row[v] # "absent"
        BY <3>1 DEF PurgedInv, PurgedBeforeMarked, Children, Rows
      <3> QED
        BY <3>1, <3>2 DEF Rows
    <2>2. CASE SetState(e)
      <3>1. row' = [row EXCEPT ![item[e]] = "DELETED"] /\ pc[e] = "state"
        BY <2>2 DEF SetState
      <3>2. row[item[e]] # "absent"
        BY <3>1 DEF PurgedInv, PurgedBeforeMarked
      <3> QED
        BY <1>t, <3>1, <3>2 DEF Rows
    <2>3. CASE ~InstanceDeleted(e) /\ ~SetState(e)
      <3>1. UNCHANGED row
        BY <1>1, <2>3 DEF DeletionStep, NextInstance, LoadRow, DeleteInstance, CheckResilience,
           CheckKept, QueryReady, Purge, DatabaseFails, AnswerLost, table
      <3> QED
        BY <3>1 DEF Rows
    <2> QED
      BY <2>1, <2>2, <2>3
  <1>2. CASE CopyGoesOn
    <2>1. PICK u \in Items : CopyLands(u) \/ CopyReady(u) \/ CopyFailed(u)
      BY <1>2 DEF CopyGoesOn
    <2>2. UNCHANGED row \/ (row[u] = "INITIALISED" /\ \E s : row' = [row EXCEPT ![u] = s])
      BY <2>1 DEF CopyLands, CopyReady, CopyFailed, table
    <2> QED
      BY <1>t, <2>2 DEF Rows
  <1>3. ASSUME NEW o \in Oids, OidExpires(o) PROVE Rows' \subseteq Rows
    BY <1>3 DEF OidExpires, vars, table, Rows
  <1> QED
    BY <1>1, <1>2, <1>3 DEF InRetention

LEMMA ExactStep ==
    ASSUME SingleEngine, ~Withdrawals, PhaseTypeInv, PurgedInv, ExactDecision,
           [PhaseNext]_phaseVars
    PROVE  ExactDecision'
  <1> SUFFICES ASSUME NEW e \in Engines, NEW u \in Items, item'[e] = u, pc'[e] \in Deciding
               PROVE  result'[e] = ResultPhase(Remaining(u))'
    BY DEF ExactDecision
  <1>k. ASSUME pc[e] \in Deciding, item'[e] = item[e], result'[e] = result[e],
               Rows' = Rows, deleted' = deleted
        PROVE  result'[e] = ResultPhase(Remaining(u))'
    BY <1>k DEF ExactDecision, ResultPhase, UidPhase, Remaining, Live, Group
  <1>1. CASE Beside
    <2>1. UNCHANGED <<row, deleted>> /\ pc'[e] \notin {"idle", "next"}
      BY <1>1 DEF Beside, Deciding
    <2> QED
      BY <1>1, <1>k, <2>1 DEF Beside, Rows
  <1>2. CASE InRetention
    <2>1. TypeInv /\ [Next]_vars
      BY <1>2, InsideRetention DEF InRetention, PhaseTypeInv, PhaseTypeOK, TypeInv
    <2>2. CASE CheckResilience(e)
      <3>1. UNCHANGED <<row, deleted, item>> /\ result'[e] = ResultPhase(Remaining(item[e]))
        BY <2>1, <2>2 DEF CheckResilience, CheckKept, table, TypeInv, TypeOK, Deciding
      <3> QED
        BY <3>1 DEF ResultPhase, UidPhase, Remaining, Live, Group, Rows
    <2>3. CASE ~CheckResilience(e)
      <3>1. /\ pc[e] \in Deciding
            /\ item'[e] = item[e] /\ result'[e] = result[e]
            /\ Rows \subseteq Rows' /\ deleted' = deleted
        BY <2>1, <2>3, LoneDecisionSteps
      <3>2. \A f \in Engines : ~CopyDataItem(f)
        BY <3>1 DEF CopyDataItem, At, Deciding, SingleEngine
      <3>3. Rows' = Rows
        BY <1>2, <3>1, <3>2, RowsStay
      <3> QED
        BY <1>k, <3>1, <3>3
    <2> QED
      BY <2>2, <2>3
  <1> QED
    BY <1>1, <1>2, HeuristicSteps

LEMMA ExactDecisions ==
    ASSUME SingleEngine, ~Withdrawals
    PROVE  PhaseSpec => []ExactDecision
  <1>1. PhaseInit => ExactDecision
    BY DEF PhaseInit, Init, ExactDecision, Deciding
  <1>2. PhaseTypeInv /\ PurgedInv /\ ExactDecision /\ [PhaseNext]_phaseVars => ExactDecision'
    BY ExactStep
  <1> QED
    BY <1>1, <1>2, PhasePurged, PTL DEF PhaseSpec
-----------------------------------------------------------------------------
(***************************************************************************)
(* The loops of a lone engine, for items that are plain files.  The phase  *)
(* a loop has reached is one the instances of its item give; what Enforce  *)
(* lowers was recorded above the goal, or the instances reach the goal;    *)
(* and a volume that was accepted for a raise still suffices when the copy *)
(* is there.                                                               *)
(***************************************************************************)
Busy == {"check", "query", "purge", "state", "mark"}

\* The instances of o give at least p.
Supports(o, p) == ~Below(ResultPhase(Live(o)), p)

OidKnown(e) ==
    call[e].op \in {"change", "enforce"} \/ call[e].at \notin {"idle", "list"} =>
        call[e].oid \in Items

LoopOf(e, o) ==
    /\ call[e].op \in {"change", "enforce"} /\ call[e].at \in {"delete", "verify"} =>
          /\ \A u \in todo[e] : OidOf[u] = o
          /\ pc[e] \in Busy => OidOf[item[e]] = o
    /\ call[e].op = "change" /\ call[e].at \in {"delete", "verify", "conclude"} =>
          Supports(o, call[e].reached)
    /\ call[e].op = "enforce" => call[e].goal = Target[o]
    /\ call[e].op = "enforce" /\ call[e].at \in {"list", "delete", "verify", "conclude"} =>
          \/ Supports(o, call[e].goal)
          \/ \E v \in Group(o) : Below(call[e].goal, oidPhase[v])
    /\ call[e].at = "copy" =>
          /\ OidOf[item[e]] = o
          /\ Suitable(ActualPhase(Live(o), UidPhase), UidPhase[item[e]], call[e].goal)
    /\ call[e].at = "combine" =>
          Live(o) # {} /\ ~Below(PhaseOf(Live(o)), call[e].goal)

LoopInv == \A e \in Engines : /\ OidKnown(e)
                              /\ \A o \in Items : call[e].oid = o => LoopOf(e, o)

\* Registration gives an item its target and a copy takes it over
\* (register_data_item, _copy_data_item); nothing else in the code writes it.
OneTarget == \A u \in Items : Target[u] = Target[OidOf[u]]

LEMMA TargetOfGroup ==
    ASSUME OneTarget, NEW o \in Oids, NEW u \in Items, OidOf[u] = o
    PROVE  Target[u] = Target[o] /\ o \in Items
  BY RowsAssumption DEF OneTarget, Oids

\* What a step leaves of the rows of o.
Growing(o) == /\ Live(o) \subseteq Live(o)' /\ Group(o) \subseteq Group(o)'
              /\ \A v \in Group(o) : oidPhase'[v] = oidPhase[v]

\* A step that takes nothing of the item of a call away and leaves the call
\* where it is leaves its loop as it is.
LEMMA LoopKept ==
    ASSUME PhaseTypeInv, PhaseTypeInv', LoopInv, NEW e \in Engines, NEW o \in Items,
           call'[e].oid = o, UNCHANGED <<call, pc, todo, item>>,
           Growing(o), Live(o)' = Live(o)
    PROVE  LoopOf(e, o)'
  <1>1. LoopOf(e, o)
    BY DEF LoopInv
  <1> QED
    BY <1>1 DEF LoopOf, Growing, Supports

LEMMA ReturnLoop ==
    ASSUME PhaseTypeInv, NEW e \in Engines, NEW report, Return(e, report), NEW o \in Items
    PROVE  LoopOf(e, o)'
  <1>1. call'[e].op = "none" /\ call'[e].at = "idle"
    BY DEF Return, NoCall, PhaseTypeInv, PhaseTypeOK
  <1> QED
    BY <1>1 DEF LoopOf

LEMMA RequestLoop ==
    ASSUME PhaseTypeInv, NEW e \in Engines, Request(e), NEW o \in Items, call'[e].oid = o
    PROVE  LoopOf(e, o)'
  <1>c. call \in [Engines -> Call] /\ call[e] \in Call
    BY CallFields DEF PhaseTypeInv, PhaseTypeOK
  <1>1. ASSUME NEW x \in Oids, CallEnforce(e, x) PROVE LoopOf(e, o)'
    <2>1. /\ call'[e].op = "enforce" /\ call'[e].at = "measure" /\ call'[e].oid = x
          /\ call'[e].goal = Target[x]
      BY <1>c, <1>1 DEF CallEnforce, Begin
    <2> QED
      BY <2>1 DEF LoopOf
  <1>2. ASSUME NEW x \in Oids, NEW goal \in Phases, CallChange(e, x, goal)
        PROVE  LoopOf(e, o)'
    <2>1. call'[e].op = "change" /\ call'[e].at = "measure" /\ call'[e].oid = x
      BY <1>c, <1>2 DEF CallChange, Begin
    <2> QED
      BY <2>1 DEF LoopOf
  <1>3. CASE CallOidExpiry(e)
    <2>1. call'[e].op = "expire" /\ call'[e].at = "list"
      BY <1>c, <1>3 DEF CallOidExpiry, Call
    <2> QED
      BY <2>1 DEF LoopOf
  <1> QED
    BY <1>1, <1>2, <1>3 DEF Request

\* A step of a call that leaves the table alone.
LEMMA DecideLoop ==
    ASSUME OneTarget, PhaseTypeInv, LoopInv, NEW e \in Engines,
           \/ ChangeOidPhase(e) \/ OidPhaseEnforce(e) \/ DecreaseList(e) \/ ExpiryList(e)
           \/ VerifyPhase(e) \/ ConcludeChange(e) \/ ConcludeDecrease(e) \/ ConcludeExpiry(e),
           NEW o \in Items, call'[e].oid = o
    PROVE  LoopOf(e, o)'
  <1>c. call \in [Engines -> Call] /\ call[e] \in Call
    BY CallFields DEF PhaseTypeInv, PhaseTypeOK
  <1>r. ASSUME NEW report, Return(e, report) PROVE LoopOf(e, o)'
    BY <1>r, ReturnLoop
  <1>i. call[e].oid = o => LoopOf(e, o)
    BY DEF LoopInv
  <1>k. ASSUME OnlyCall
        PROVE  /\ UNCHANGED <<pc, item, oidPhase>>
               /\ Live(o)' = Live(o) /\ Group(o)' = Group(o)
    BY <1>k DEF OnlyCall, table, Live, Group, Rows
  <1>t. todo \in [Engines -> SUBSET Items] /\ \A u \in Live(o) : OidOf[u] = o
    BY DEF PhaseTypeInv, PhaseTypeOK, TypeOK, Live, Group
  <1>1. CASE ChangeOidPhase(e)
    <2> DEFINE actual == PhaseOf(Live(call[e].oid))
    <2>1. CASE /\ Live(call[e].oid) # {}
               /\ todo' = [todo EXCEPT ![e] = Live(call[e].oid)]
               /\ call' = [call EXCEPT ![e].at = "delete", ![e].reached = actual]
               /\ OnlyCall
      <3>1. /\ call[e].oid = o /\ call[e].op = "change" /\ pc[e] = "next"
            /\ call'[e].op = "change" /\ call'[e].at = "delete"
            /\ call'[e].reached = PhaseOf(Live(o))
        BY <1>1, <1>c, <2>1 DEF ChangeOidPhase, At, Call
      <3>2. todo'[e] = Live(o)
        BY <1>t, <2>1, <3>1
      <3>3. ~Below(ResultPhase(Live(o)), PhaseOf(Live(o)))
        <4>1. Live(o) \in SUBSET Items /\ Live(o) # {}
          BY <2>1, <3>1, RowSets
        <4>2. ResultPhase(Live(o)) = PhaseOf(Live(o)) /\ PhaseOf(Live(o)) \in Phases
          BY <4>1, PhaseOfType
        <4> QED
          BY <4>2, PhaseNumbers DEF Below
      <3>4. Supports(o, call[e].reached)'
        BY <1>k, <2>1, <3>1, <3>3 DEF Supports
      <3> QED
        BY <1>k, <1>t, <2>1, <3>1, <3>2, <3>4 DEF LoopOf, Busy
    <2>2. CASE Goto(e, "identify") /\ OnlyCall /\ UNCHANGED todo
      <3>1. /\ call[e].oid = o /\ call'[e].op = "change" /\ call'[e].at = "identify"
        BY <1>1, <1>c, <2>2 DEF ChangeOidPhase, Goto, Call
      <3> QED
        BY <3>1 DEF LoopOf
    <2> QED
      BY <1>1, <1>r, <2>1, <2>2 DEF ChangeOidPhase, Counted, Fail, Succeed
  <1>2. CASE OidPhaseEnforce(e)
    <2>1. ASSUME NEW first \in Group(call[e].oid), NEW at \in {"list", "identify"},
                 at = "list" => Below(Target[first], oidPhase[first]),
                 call' = [call EXCEPT ![e].at = at, ![e].goal = Target[first]],
                 OnlyCall, UNCHANGED todo
          PROVE  LoopOf(e, o)'
      <3>1. /\ call[e].oid = o /\ call'[e].op = "enforce" /\ call'[e].at = at
            /\ call'[e].goal = Target[first]
        BY <1>2, <1>c, <2>1 DEF OidPhaseEnforce, Call
      <3>2. Target[first] = Target[o] /\ first \in Group(o)
        BY <2>1, <3>1, TargetOfGroup DEF Group, Rows, Oids
      <3> QED
        BY <1>k, <2>1, <3>1, <3>2 DEF LoopOf
    <2> QED
      BY <1>2, <1>r, <2>1 DEF OidPhaseEnforce, Fail, Succeed
  <1>3. CASE DecreaseList(e)
    <2>1. CASE /\ todo' = [todo EXCEPT ![e] = Live(call[e].oid)]
               /\ Goto(e, "delete") /\ OnlyCall
      <3>1. /\ call[e].oid = o /\ call[e].op = "enforce" /\ call[e].at = "list" /\ pc[e] = "next"
            /\ call'[e].op = "enforce" /\ call'[e].at = "delete" /\ call'[e].goal = call[e].goal
        BY <1>3, <1>c, <2>1 DEF DecreaseList, Goto, At, Call
      <3>2. todo'[e] = Live(o)
        BY <1>t, <2>1, <3>1
      <3> QED
        BY <1>i, <1>k, <1>t, <2>1, <3>1, <3>2 DEF LoopOf, Busy, Supports
    <2> QED
      BY <1>3, <1>r, <2>1 DEF DecreaseList, Fail
  <1>4. CASE ExpiryList(e)
    <2>1. PICK x \in call[e].oids :
              call' = [call EXCEPT ![e].at = "delete", ![e].oid = x, ![e].oids = @ \ {x}]
      BY <1>4 DEF ExpiryList
    <2>2. call[e].op = "expire"
      BY <1>4 DEF ExpiryList
    <2>3. call'[e].op = "expire" /\ call'[e].at = "delete"
      BY <1>c, <2>1, <2>2 DEF Call
    <2> QED
      BY <2>3 DEF LoopOf
  <1>5. CASE VerifyPhase(e)
    <2>1. PICK at \in {"conclude", "delete"} : Goto(e, at)
      BY <1>5 DEF VerifyPhase
    <2>2. OnlyCall /\ UNCHANGED todo /\ call[e].at = "verify"
      BY <1>5 DEF VerifyPhase, At
    <2>3. /\ call[e].oid = o /\ call'[e].op = call[e].op /\ call'[e].at = at
          /\ call'[e].goal = call[e].goal /\ call'[e].reached = call[e].reached
      BY <1>c, <2>1 DEF Goto, Call
    <2> QED
      BY <1>i, <1>k, <2>2, <2>3 DEF LoopOf, Supports
  <1>6. CASE ConcludeChange(e) \/ ConcludeDecrease(e)
    BY <1>6, <1>r DEF ConcludeChange, ConcludeDecrease, Fail, Succeed
  <1>7. CASE ConcludeExpiry(e)
    <2>1. CASE Goto(e, "list")
      <3>1. call'[e].op = "expire" /\ call'[e].at = "list"
        BY <1>7, <1>c, <2>1 DEF ConcludeExpiry, Goto, Call
      <3> QED
        BY <3>1 DEF LoopOf
    <2> QED
      BY <1>7, <1>r, <2>1 DEF ConcludeExpiry
  <1> QED
    BY <1>1, <1>2, <1>3, <1>4, <1>5, <1>6, <1>7

\* A step inside a deletion.  The row that is marked is one of the item; the
\* instances that stay give what the check found, and that is what the loop
\* takes note of.
LEMMA DeletionLoop ==
    ASSUME OneTarget, Containers = {}, PhaseTypeInv, PhaseTypeInv', PurgedInv,
           DecisionStillValid, ExactDecision, LoopInv, NEW e \in Engines, DeletionStep(e),
           NEW o \in Items, call'[e].oid = o
    PROVE  LoopOf(e, o)'
  <1>c. /\ call[e].at = "delete" /\ call[e].oid = o
        /\ call'[e].at \in {"delete", "conclude", "verify"}
        /\ call'[e].op = call[e].op /\ call'[e].goal = call[e].goal
        /\ InstanceDeleted(e) => call'[e].reached = result[e]
        /\ NextInstance(e) \/ DeleteInstance(e) => call'[e].reached = call[e].reached
    BY DeletionCalls
  <1>l. LoopOf(e, o)
    BY <1>c DEF LoopInv
  <1>t. /\ todo \in [Engines -> SUBSET Items] /\ pc \in [Engines -> Places]
        /\ item \in [Engines -> Items \cup {NoItem}] /\ result[e] \in Phases
        /\ row \in [Items -> RowStates]
    BY DEF PhaseTypeInv, PhaseTypeOK, TypeOK
  <1>1. CASE NextInstance(e)
    <2>1. PICK u \in todo[e] :
            /\ todo' = [todo EXCEPT ![e] = @ \ {u}]
            /\ IF u \in Rows
               THEN /\ item' = [item EXCEPT ![e] = u]
                    /\ pc' = [pc EXCEPT ![e] = "check"]
               ELSE UNCHANGED <<item, pc>>
      BY <1>1 DEF NextInstance, LoadRow
    <2>2. UNCHANGED oidPhase /\ Live(o)' = Live(o) /\ Group(o)' = Group(o)
      BY <1>1 DEF NextInstance, LoadRow, table, Live, Group, Rows
    <2>3. pc[e] = "next" /\ todo'[e] = todo[e] \ {u}
      BY <1>1, <1>t, <2>1 DEF NextInstance, At
    <2>4. pc'[e] \in Busy => item'[e] = u
      BY <1>t, <2>1, <2>3 DEF Busy
    <2> QED
      BY <1>1, <1>c, <1>l, <2>2, <2>3, <2>4 DEF LoopOf, Supports
  <1>2. CASE DeleteInstance(e)
    <2>1. CASE SetState(e)
      <3>1. row' = [row EXCEPT ![item[e]] = "DELETED"]
        BY <2>1 DEF SetState
      <3>2. item[e] \in Items /\ row[item[e]] # "absent"
        BY <2>1 DEF SetState, PhaseTypeInv, Working, PurgedInv, PurgedBeforeMarked
      <3>3. Rows' = Rows
        BY <1>t, <3>1, <3>2 DEF Rows
      <3>4. UNCHANGED <<deleted, oidPhase, todo, item>> /\ pc[e] \in Busy
        BY <2>1 DEF SetState, Busy
      <3> QED
        BY <3>3, <3>4, <1>l, <1>c, <1>2 DEF Live, Group, LoopOf, Supports
    <2>2. CASE CheckResilience(e) \/ QueryReady(e) \/ Purge(e) \/ DatabaseFails(e) \/ AnswerLost(e)
      <3>1. UNCHANGED <<row, deleted, oidPhase, todo, item>> /\ pc[e] \in Busy
        BY <2>2 DEF CheckResilience, CheckKept, QueryReady, Purge, DatabaseFails, AnswerLost, table, Busy
      <3>3. Live(o)' = Live(o) /\ Group(o)' = Group(o)
        BY <3>1 DEF Live, Group, Rows
      <3> QED
        BY <3>1, <3>3, <1>l, <1>c, <1>2 DEF LoopOf, Supports
    <2> QED
      BY <1>2, <2>1, <2>2 DEF DeleteInstance
  <1>3. CASE InstanceDeleted(e)
    <2> DEFINE u == item[e]
    <2>1. /\ pc[e] = "mark" /\ pc' = [pc EXCEPT ![e] = "next"]
          /\ row' = [v \in Items |-> IF v \in {u} \cup Children(u) THEN "DELETED" ELSE row[v]]
          /\ deleted' = deleted \cup {u} \cup Children(u)
          /\ UNCHANGED <<todo, item>> /\ call'[e].reached = result[e]
      BY <1>3, <1>c DEF InstanceDeleted, MarkDeleted
    <2>2. u \in Items /\ row[u] # "absent" /\ Children(u) = {}
      BY <2>1 DEF PhaseTypeInv, Working, PurgedInv, PurgedBeforeMarked, Children
    <2>3. Live(o)' = Live(o) \ {u}
      BY <1>t, <2>1, <2>2 DEF Live, Group, Rows
    <2>4. pc'[e] \notin Busy
      BY <1>t, <2>1 DEF Busy
    <2>5. CASE call[e].op \in {"change", "enforce"}
      <3>1. OidOf[u] = o /\ \A v \in todo[e] : OidOf[v] = o
        BY <1>c, <1>l, <2>1, <2>5 DEF LoopOf, Busy
      <3>2. Live(o)' = Remaining(u)
        BY <2>3, <3>1 DEF Remaining
      <3>3. /\ result[e] = ResultPhase(Remaining(u)) /\ ~Below(result[e], Target[u])
            /\ ResultPhase(Live(o))' = ResultPhase(Remaining(u))
        BY <2>1, <2>2, <3>2 DEF DecisionStillValid, DecisionStands, ExactDecision, Deciding,
           ResultPhase, UidPhase
      <3>4. Supports(o, call[e].reached)'
        BY <1>t, <2>1, <3>3, PhaseNumbers DEF Supports, Below
      <3>5. call[e].op = "enforce" => Supports(o, call[e].goal)'
        <4>1. SUFFICES ASSUME call[e].op = "enforce"
                       PROVE  Supports(o, call[e].goal)'
          OBVIOUS
        <4>2. call[e].goal = Target[o] /\ Target[u] = Target[o]
          BY <1>l, <2>2, <3>1, <4>1 DEF LoopOf, OneTarget
        <4> QED
          BY <1>c, <3>3, <4>2 DEF Supports
      <3> QED
        BY <1>c, <1>l, <2>1, <2>4, <3>1, <3>4, <3>5 DEF LoopOf
    <2>6. CASE call[e].op \notin {"change", "enforce"}
      BY <1>c, <2>6 DEF LoopOf
    <2> QED
      BY <2>5, <2>6
  <1> QED
    BY <1>1, <1>2, <1>3 DEF DeletionStep

\* Raising: the volume that was accepted is the one the copy goes to, and with
\* the new row the instances reach the goal.
LEMMA RaiseLoop ==
    ASSUME PhaseTypeInv, TombstoneInv, LoopInv, NEW e \in Engines,
           \/ IdentifyTargetStorage(e) \/ CopyDataItem(e) \/ CopyRefused(e)
           \/ CombineWithCopy(e) \/ HeuristicFails(e) \/ EngineDies(e),
           NEW o \in Items, call'[e].oid = o
    PROVE  LoopOf(e, o)'
  <1>c. call \in [Engines -> Call] /\ call[e] \in Call
    BY CallFields DEF PhaseTypeInv, PhaseTypeOK
  <1>r. ASSUME NEW report, Return(e, report) PROVE LoopOf(e, o)'
    BY <1>r, ReturnLoop
  <1>i. call[e].oid = o => LoopOf(e, o)
    BY DEF LoopInv
  <1>1. CASE IdentifyTargetStorage(e) /\ ~Fail(e)
    <2>1. PICK u \in Candidates(call[e].oid, call[e].goal) : item' = [item EXCEPT ![e] = u]
      BY <1>1 DEF IdentifyTargetStorage
    <2>2. /\ Goto(e, "copy") /\ call[e].at = "identify"
          /\ UNCHANGED <<row, deleted>>
      BY <1>1 DEF IdentifyTargetStorage, At, table
    <2>3. /\ call[e].oid = o /\ call'[e].op = call[e].op /\ call'[e].at = "copy"
          /\ call'[e].goal = call[e].goal
      BY <1>c, <2>2 DEF Goto, Call
    <2>4. item'[e] = u /\ Live(o)' = Live(o)
      BY <2>1, <2>2 DEF PhaseTypeInv, PhaseTypeOK, TypeOK, Live, Group, Rows
    <2> QED
      BY <1>i, <2>1, <2>3, <2>4 DEF Candidates, LoopOf
  <1>2. CASE CopyDataItem(e)
    <2> DEFINE c == item[e]
    <2>1. /\ call[e].at = "copy" /\ Goto(e, "combine")
          /\ \E orig \in Items : BeginCopy(c, orig)
      BY <1>2 DEF CopyDataItem, At
    <2>2. /\ call[e].oid = o /\ call'[e].op = call[e].op /\ call'[e].at = "combine"
          /\ call'[e].goal = call[e].goal /\ call[e].goal \in Phases
      BY <1>c, <2>1 DEF Goto, Call
    <2>3. /\ c \in Items /\ OidOf[c] = o
          /\ Suitable(ActualPhase(Live(o), UidPhase), UidPhase[c], call[e].goal)
          /\ call[e].op = "enforce" => call[e].goal = Target[o]
      BY <1>i, <2>1, <2>2 DEF LoopOf, PhaseTypeInv, Chosen
    <2>4. /\ row[c] = "absent" /\ row' = [row EXCEPT ![c] = "INITIALISED"]
          /\ deleted' = deleted
      BY <2>1 DEF BeginCopy
    <2>5. c \notin deleted
      BY <2>3, <2>4 DEF TombstoneInv, TombstoneSound
    <2>6. Live(o)' = Live(o) \cup {c} /\ c \notin Live(o)
      BY <2>3, <2>4, <2>5 DEF PhaseTypeInv, PhaseTypeOK, TypeOK, Live, Group, Rows
    <2>7. ~Below(PhaseOf(Live(o) \cup {c}), call[e].goal)
      <3>1. IsFiniteSet(Live(o)) /\ UidPhase[c] \in Phases
        <4>1. Live(o) \in SUBSET Items
          BY RowSets
        <4> QED
          BY <2>3, <4>1, FS_Subset, RowsAssumption DEF UidPhase
      <3> QED
        BY <2>2, <2>3, <2>6, <3>1, IdentifyIsSound DEF PhaseOf
    <2>8. PhaseOf(Live(o))' = PhaseOf(Live(o) \cup {c})
      BY <2>6 DEF PhaseOf, UidPhase
    <2> QED
      BY <2>2, <2>3, <2>6, <2>7, <2>8 DEF LoopOf
  <1> QED
    BY <1>1, <1>2, <1>r DEF CopyRefused, CombineWithCopy, HeuristicFails, EngineDies, Fail, Succeed

\* A call knows its item from the start, or from the list of expired ones.
LEMMA OidStays ==
    ASSUME PhaseTypeInv, NEW e \in Engines, OidKnown(e),
           Request(e) \/ Step(e) \/ HeuristicFails(e) \/ EngineDies(e)
    PROVE  OidKnown(e)'
  <1>c. call \in [Engines -> Call] /\ call[e] \in Call
    BY CallFields DEF PhaseTypeInv, PhaseTypeOK
  <1>r. ASSUME NEW report, Return(e, report) PROVE OidKnown(e)'
    <2>1. call'[e].op = "none" /\ call'[e].at = "idle"
      BY <1>r, <1>c DEF Return, NoCall
    <2> QED
      BY <2>1 DEF OidKnown
  <1>k. ASSUME call'[e].op = call[e].op, call'[e].oid = call[e].oid,
               call[e].op = "expire" => call'[e].at = "list" \/ call[e].at \notin {"idle", "list"},
               call[e].op = "none" => call[e].at \notin {"idle", "list"}
        PROVE  OidKnown(e)'
    BY <1>c, <1>k DEF OidKnown, Call, Ops
  <1>g. ASSUME NEW at, Goto(e, at), call[e].at \notin {"idle", "list"} PROVE OidKnown(e)'
    <2>1. call'[e].op = call[e].op /\ call'[e].oid = call[e].oid
      BY <1>c, <1>g DEF Goto, Call
    <2> QED
      BY <1>g, <2>1, <1>k
  <1>1. CASE Request(e)
    <2>1. ASSUME NEW x \in Oids, NEW op, NEW at, NEW goal, Begin(e, op, x, at, goal)
          PROVE  OidKnown(e)'
      <3>1. call'[e].oid = x /\ x \in Items
        BY <1>c, <2>1, RowSets DEF Begin
      <3> QED
        BY <3>1 DEF OidKnown
    <2>2. CASE CallOidExpiry(e)
      <3>1. call'[e].op = "expire" /\ call'[e].at = "list"
        BY <1>c, <2>2 DEF CallOidExpiry, Call
      <3> QED
        BY <3>1 DEF OidKnown
    <2> QED
      BY <1>1, <2>1, <2>2 DEF Request, CallEnforce, CallChange
  <1>2. CASE ChangeOidPhase(e)
    <2>1. ASSUME call' = [call EXCEPT ![e].at = "delete", ![e].reached = PhaseOf(Live(call[e].oid))]
          PROVE  OidKnown(e)'
      <3>1. call'[e].op = call[e].op /\ call'[e].oid = call[e].oid /\ call[e].op = "change"
        BY <1>2, <1>c, <2>1 DEF ChangeOidPhase, Call
      <3> QED
        BY <3>1, <1>k
    <2> QED
      BY <1>2, <1>r, <1>g, <2>1 DEF ChangeOidPhase, Counted, Fail, Succeed, At
  <1>3. CASE OidPhaseEnforce(e)
    <2>1. ASSUME NEW at, NEW goal, call' = [call EXCEPT ![e].at = at, ![e].goal = goal]
          PROVE  OidKnown(e)'
      <3>1. call'[e].op = call[e].op /\ call'[e].oid = call[e].oid /\ call[e].op = "enforce"
        BY <1>3, <1>c, <2>1 DEF OidPhaseEnforce, Call
      <3> QED
        BY <3>1, <1>k
    <2> QED
      BY <1>3, <1>r, <2>1 DEF OidPhaseEnforce, Fail, Succeed
  <1>4. CASE DecreaseList(e)
    <2>1. ASSUME Goto(e, "delete") PROVE OidKnown(e)'
      <3>1. call'[e].op = call[e].op /\ call'[e].oid = call[e].oid /\ call[e].op = "enforce"
        BY <1>4, <1>c, <2>1 DEF DecreaseList, Goto, Call
      <3> QED
        BY <3>1, <1>k
    <2> QED
      BY <1>4, <1>r, <2>1 DEF DecreaseList, Fail
  <1>5. CASE ExpiryList(e)
    <2>1. PICK x \in call[e].oids :
              call' = [call EXCEPT ![e].at = "delete", ![e].oid = x, ![e].oids = @ \ {x}]
      BY <1>5 DEF ExpiryList
    <2>2. call'[e].oid = x /\ x \in Items
      BY <1>c, <2>1 DEF Call
    <2> QED
      BY <2>2 DEF OidKnown
  <1>6. CASE DeletionStep(e)
    <2>1. call'[e].op = call[e].op /\ call'[e].oid = call[e].oid /\ call[e].at = "delete"
      BY <1>6, DeletionCalls
    <2> QED
      BY <2>1, <1>k
  <1>7. CASE VerifyPhase(e) \/ ConcludeExpiry(e) \/ IdentifyTargetStorage(e) \/ CopyDataItem(e)
    BY <1>7, <1>g, <1>r DEF VerifyPhase, ConcludeExpiry, LoopOver, IdentifyTargetStorage,
       CopyDataItem, At, Fail
  <1>8. CASE \/ ConcludeChange(e) \/ ConcludeDecrease(e) \/ CopyRefused(e)
             \/ CombineWithCopy(e) \/ HeuristicFails(e) \/ EngineDies(e)
    BY <1>8, <1>r DEF ConcludeChange, ConcludeDecrease, CopyRefused, CombineWithCopy,
       HeuristicFails, EngineDies, Fail, Succeed
  <1> QED
    BY <1>1, <1>2, <1>3, <1>4, <1>5, <1>6, <1>7, <1>8 DEF Step, DeletionStep

\* What the loops rely on: one engine, no withdrawn copy, items that are plain
\* files, and one target for all the rows of an item.
PlainWorld == SingleEngine /\ ~Withdrawals /\ Containers = {} /\ OneTarget

LEMMA LoopStep ==
    ASSUME PlainWorld, PhaseTypeInv, PhaseTypeInv', TombstoneInv, DecisionStillValid,
           ExactDecision, LoopInv, [PhaseNext]_phaseVars
    PROVE  LoopInv'
  <1> SUFFICES ASSUME NEW e \in Engines
               PROVE  OidKnown(e)' /\ \A o \in Items : call'[e].oid = o => LoopOf(e, o)'
    BY DEF LoopInv
  <1>1. CASE Request(e) \/ Step(e) \/ HeuristicFails(e) \/ EngineDies(e)
    <2>1. OidKnown(e)'
      BY <1>1, OidStays DEF LoopInv
    <2>2. ASSUME NEW o \in Items, call'[e].oid = o PROVE LoopOf(e, o)'
      <3>1. CASE Request(e)
        BY <3>1, <2>2, RequestLoop
      <3>2. CASE DeletionStep(e)
        BY <3>2, <2>2, DeletionLoop DEF PlainWorld, TombstoneInv
      <3>3. CASE \/ ChangeOidPhase(e) \/ OidPhaseEnforce(e) \/ DecreaseList(e) \/ ExpiryList(e)
                 \/ VerifyPhase(e) \/ ConcludeChange(e) \/ ConcludeDecrease(e) \/ ConcludeExpiry(e)
        BY <3>3, <2>2, DecideLoop DEF PlainWorld
      <3>4. CASE \/ IdentifyTargetStorage(e) \/ CopyDataItem(e) \/ CopyRefused(e)
                 \/ CombineWithCopy(e) \/ HeuristicFails(e) \/ EngineDies(e)
        BY <3>4, <2>2, RaiseLoop
      <3> QED
        BY <1>1, <3>1, <3>2, <3>3, <3>4 DEF Step, DeletionStep
    <2> QED
      BY <2>1, <2>2
  <1>2. CASE CopyGoesOn \/ (\E o \in Oids : OidExpires(o)) \/ UNCHANGED phaseVars
    <2>1. UNCHANGED <<call, pc, todo, item, deleted, oidPhase>> /\ Rows' = Rows
      <3>1. CASE CopyGoesOn
        <4>1. PICK u \in Items : CopyLands(u) \/ CopyReady(u)
          BY <3>1 DEF CopyGoesOn, CopyFailed, PlainWorld
        <4>2. UNCHANGED <<call, pc, todo, item, deleted, oidPhase>>
          BY <3>1, <4>1 DEF CopyGoesOn, CopyLands, CopyReady, table, engine
        <4>3. row' = row \/ (row[u] = "INITIALISED" /\ row' = [row EXCEPT ![u] = "READY"])
          BY <4>1 DEF CopyLands, CopyReady, table
        <4> QED
          BY <4>2, <4>3 DEF Rows, PhaseTypeInv, PhaseTypeOK, TypeOK
      <3>2. CASE (\E o \in Oids : OidExpires(o)) \/ UNCHANGED phaseVars
        BY <3>2 DEF OidExpires, phaseVars, vars, table, engine, Rows
      <3> QED
        BY <1>2, <3>1, <3>2
    <2>2. OidKnown(e)'
      BY <2>1 DEF OidKnown, LoopInv
    <2>3. ASSUME NEW o \in Items, call'[e].oid = o PROVE LoopOf(e, o)'
      <3>1. Growing(o) /\ Live(o)' = Live(o)
        BY <2>1 DEF Growing, Live, Group
      <3> QED
        BY <2>1, <2>3, <3>1, LoopKept
    <2> QED
      BY <2>2, <2>3
  <1> QED
    BY <1>1, <1>2 DEF PhaseNext, PlainWorld, SingleEngine

LoopsInv == PhaseTypeInv /\ TombstoneInv /\ DecisionStillValid /\ ExactDecision /\ LoopInv

LEMMA LoopInvariance ==
    ASSUME PlainWorld
    PROVE  PhaseSpec => []LoopsInv
  <1>1. PhaseInit => LoopInv
    BY DEF PhaseInit, NoCall, LoopInv, LoopOf, OidKnown
  <1>2. /\ PhaseTypeInv /\ PhaseTypeInv' /\ TombstoneInv /\ DecisionStillValid /\ ExactDecision
        /\ LoopInv /\ [PhaseNext]_phaseVars
        => LoopInv'
    BY LoopStep
  <1>3. PhaseSpec => [](PhaseTypeInv /\ TombstoneInv /\ DecisionStillValid /\ ExactDecision)
    <2>1. SingleEngine /\ ~Withdrawals /\ ChildrenInside
      BY DEF PlainWorld, ChildrenInside
    <2> QED
      BY <2>1, PhaseDecisions, PhaseTombstones, ExactDecisions, PTL
  <1> QED
    BY <1>1, <1>2, <1>3, PTL DEF PhaseSpec, LoopsInv
-----------------------------------------------------------------------------
\* The instances of a call's item give the phase its step records.
LEMMA PhaseOfSupports ==
    ASSUME NEW o, Live(o) # {}
    PROVE  Supports(o, PhaseOf(Live(o))) /\ ResultPhase(Live(o)) = PhaseOf(Live(o))
  <1>1. Live(o) \in SUBSET Items
    BY RowSets
  <1>2. ResultPhase(Live(o)) = PhaseOf(Live(o)) /\ PhaseOf(Live(o)) \in Phases
    BY <1>1, PhaseOfType
  <1> QED
    BY <1>2, PhaseNumbers DEF Supports, Below

\* Recording what the instances give overstates no row.
LEMMA RecordSupported ==
    ASSUME NEW v \in Items, RealRecord(v), NEW o, NEW p, Group(o) = {} \/ Supports(o, p),
           RecordPhase(o, p), UNCHANGED <<row, deleted>>
    PROVE  RealRecord(v)'
  <1>1. Rows' = Rows /\ Live(OidOf[v])' = Live(OidOf[v])
    BY DEF Rows, Live, Group
  <1>2. oidPhase'[v] = IF v \in Group(o) THEN p ELSE oidPhase[v]
    BY DEF RecordPhase
  <1>3. ResultPhase(Live(OidOf[v]))' = ResultPhase(Live(OidOf[v]))
    BY <1>1 DEF ResultPhase, UidPhase
  <1>4. CASE v \in Group(o)
    <2>1. OidOf[v] = o
      BY <1>4 DEF Group
    <2> QED
      BY <1>2, <1>3, <1>4, <2>1 DEF RealRecord, Supports
  <1>5. CASE v \notin Group(o)
    BY <1>1, <1>2, <1>3, <1>5 DEF RealRecord
  <1> QED
    BY <1>4, <1>5

\* The one step that may record more: Enforce, measuring rows that are gone.
\* It records the target.
Incautious(e) ==
    /\ call[e].op = "enforce" /\ call[e].at = "measure"
    /\ Group(call[e].oid) \cap deleted # {}

LEMMA RecordRow ==
    ASSUME PlainWorld, LoopsInv, PhaseTypeInv', [PhaseNext]_phaseVars,
           NEW v \in Items, RealRecord(v)
    PROVE  RealRecord(v)' \/ (oidPhase'[v] = Target[v] /\ \E e \in Engines : Incautious(e))
  <1> DEFINE Kept == RealRecord(v)'
             Over == oidPhase'[v] = Target[v] /\ \E e \in Engines : Incautious(e)
  <1> USE DEF LoopsInv
  <1>1. [Next]_vars => Kept
    BY RecordRowStep DEF PhaseTypeInv, PhaseTypeOK, TypeInv, TombstoneInv, PlainWorld
  <1>k. ASSUME UNCHANGED <<row, deleted, oidPhase>> PROVE Kept
    BY <1>k DEF RealRecord, ResultPhase, UidPhase, Live, Group, Rows
  <1>2. ASSUME NEW e \in Engines, NEW p, Succeed(e, p),
               Group(call[e].oid) = {} \/ Supports(call[e].oid, p)
        PROVE  Kept
    BY <1>2, RecordSupported DEF Succeed, Return
  <1>3. ASSUME NEW e \in Engines, NEW report, Return(e, report), UNCHANGED oidPhase PROVE Kept
    BY <1>3, <1>k DEF Return
  <1>o. OnlyCall => Kept
    BY <1>k DEF OnlyCall, table
  <1>i. \A e \in Engines : Group(call[e].oid) = {} \/ LoopOf(e, call[e].oid)
    BY RowsAssumption DEF LoopInv, Group, Rows
  <1> HIDE DEF Kept
  <1>4. ASSUME NEW e \in Engines, ChangeOidPhase(e) PROVE Kept
    <2>1. CASE Live(call[e].oid) # {} /\ Succeed(e, PhaseOf(Live(call[e].oid)))
      BY <2>1, <1>2, PhaseOfSupports
    <2> QED
      BY <1>3, <1>4, <1>o, <2>1 DEF ChangeOidPhase, Counted, Fail
  <1>5. ASSUME NEW e \in Engines, OidPhaseEnforce(e) PROVE Kept \/ Over
    <2> DEFINE o == call[e].oid
    <2>1. ASSUME NEW first \in Group(o), Target[first] = PhaseOf(Group(o)),
                 Succeed(e, PhaseOf(Group(o)))
          PROVE  Kept \/ Over
      <3>1. CASE Group(o) \cap deleted = {}
        <4>1. Group(o) = Live(o) /\ Live(o) # {}
          BY <2>1, <3>1 DEF Live
        <4> QED
          BY <2>1, <4>1, <1>2, PhaseOfSupports
      <3>2. CASE v \notin Group(o)
        <4>1. UNCHANGED <<row, deleted>> /\ oidPhase'[v] = oidPhase[v]
          BY <2>1, <3>2 DEF Succeed, RecordPhase, Return
        <4> QED
          BY <4>1 DEF Kept, RealRecord, ResultPhase, UidPhase, Live, Group, Rows
      <3>3. CASE v \in Group(o) /\ Group(o) \cap deleted # {}
        <4>1. oidPhase'[v] = Target[first]
          BY <2>1, <3>3 DEF Succeed, RecordPhase
        <4>2. first \in Items /\ OidOf[first] = OidOf[v]
          BY <2>1, <3>3, RowSets DEF Group
        <4>3. Target[first] = Target[v]
          BY <4>2 DEF PlainWorld, OneTarget
        <4>4. Incautious(e)
          BY <1>5, <3>3 DEF OidPhaseEnforce, At, Incautious
        <4> QED
          BY <4>1, <4>3, <4>4
      <3> QED
        BY <3>1, <3>2, <3>3
    <2> QED
      BY <1>3, <1>5, <1>o, <2>1 DEF OidPhaseEnforce, Fail
  <1>6. ASSUME NEW e \in Engines, ConcludeChange(e) PROVE Kept
    <2> DEFINE o == call[e].oid
    <2>1. CASE call[e].reached = call[e].goal
      <3>1. /\ call[e].op = "change" /\ call[e].at \in {"delete", "conclude"}
            /\ Succeed(e, call[e].goal)
        BY <1>6, <2>1 DEF ConcludeChange, LoopOver, At
      <3>2. Group(o) = {} \/ Supports(o, call[e].goal)
        BY <1>i, <2>1, <3>1 DEF LoopOf
      <3> QED
        BY <1>2, <3>1, <3>2
    <2> QED
      BY <1>3, <1>6, <2>1 DEF ConcludeChange, Fail
  <1>7. ASSUME NEW e \in Engines, CombineWithCopy(e) PROVE Kept
    <2> DEFINE o == call[e].oid
    <2>1. CASE Succeed(e, RaisedTo(o, call[e].goal))
      <3>1. Group(o) = {} \/ Live(o) # {}
        BY <1>i, <1>7 DEF LoopOf, CombineWithCopy, At
      <3>2. Live(o) # {} => RaisedTo(o, call[e].goal) = PhaseOf(Live(o))
        BY DEF RaisedTo
      <3> QED
        BY <1>2, <2>1, <3>1, <3>2, PhaseOfSupports
    <2> QED
      BY <1>3, <1>7, <2>1 DEF CombineWithCopy, Fail
  <1>8. ASSUME NEW e \in Engines,
               \/ DecreaseList(e) \/ ExpiryList(e) \/ VerifyPhase(e) \/ ConcludeDecrease(e)
               \/ ConcludeExpiry(e) \/ CopyRefused(e) \/ HeuristicFails(e) \/ EngineDies(e)
        PROVE  Kept
    BY <1>3, <1>8, <1>o DEF DecreaseList, ExpiryList, VerifyPhase, ConcludeDecrease,
       ConcludeExpiry, CopyRefused, HeuristicFails, EngineDies, Fail
  <1>9. ASSUME NEW e \in Engines, Request(e) \/ IdentifyTargetStorage(e) PROVE Kept
    <2>1. IdentifyTargetStorage(e) => Kept
      BY <1>3, <1>k DEF IdentifyTargetStorage, Fail, table
    <2> QED
      BY <1>9, <1>k, <2>1 DEF Request, CallEnforce, CallChange, CallOidExpiry, Begin, table
  <1>10. UNCHANGED phaseVars => Kept
    BY <1>k DEF phaseVars, vars, table
  <1>11. ASSUME NEW e \in Engines, DeletionStep(e) \/ CopyDataItem(e) PROVE Kept
    BY <1>1, <1>11, InsideRetention
  <1>12. CopyGoesOn \/ (\E o \in Oids : OidExpires(o)) => Kept
    BY <1>1, InsideRetention
  <1> HIDE DEF Over
  <1>13. Kept \/ Over
    BY <1>4, <1>5, <1>6, <1>7, <1>8, <1>9, <1>10, <1>11, <1>12
       DEF PhaseNext, Step, DeletionStep
  <1> QED
    BY <1>13 DEF Kept, Over

\* docs/src/heuristics/data_item_phase.rst, oid_phase is calculated from the
\* phases of the instances: no change of phase, raise or deletion records more
\* than the instances on record give, for any number of plain files; the one
\* step that may is Enforce, measuring an item some of whose rows are gone.
THEOREM OnlyEnforceMayOverstate ==
    ASSUME PlainWorld
    PROVE  PhaseSpec => OnlyEnforceOverstates
  <1>1. ASSUME LoopsInv, PhaseTypeInv', [PhaseNext]_phaseVars, PhaseNotOverstated
        PROVE  PhaseNotOverstated' \/ \E e \in Engines : Incautious(e)
    <2>1. \A v \in Items : RealRecord(v)
      BY <1>1 DEF PhaseNotOverstated, RealRecord
    <2>2. CASE \A v \in Items : RealRecord(v)'
      BY <2>2 DEF PhaseNotOverstated, RealRecord, Rows
    <2>3. ASSUME NEW v \in Items, ~RealRecord(v)' PROVE \E e \in Engines : Incautious(e)
      BY <1>1, <2>1, <2>3, RecordRow
    <2> QED
      BY <2>2, <2>3
  <1>2. /\ LoopsInv /\ LoopsInv' /\ [PhaseNext]_phaseVars
        => [\/ UNCHANGED <<oidPhase, deleted>>
            \/ PhaseNotOverstated => PhaseNotOverstated'
            \/ \E e \in Engines : /\ call[e].op = "enforce"
                                  /\ call[e].at = "measure"
                                  /\ Group(call[e].oid) \cap deleted # {}]_phaseVars
    <2>1. LoopsInv' => PhaseTypeInv'
      BY DEF LoopsInv
    <2> QED
      BY <1>1, <2>1 DEF Incautious
  <1> QED
    BY <1>2, LoopInvariance, PTL DEF PhaseSpec, OnlyEnforceOverstates
-----------------------------------------------------------------------------
(***************************************************************************)
(* What a call that reports success has established.  Lowering by Enforce  *)
(* concludes from the recorded phase of one row: the rows of an item agree *)
(* on it, but for those that still have the default.                       *)
(***************************************************************************)
OneRecord ==
    \A u, v \in Rows :
        OidOf[u] = OidOf[v] => oidPhase[u] = oidPhase[v] \/ "GAS" \in {oidPhase[u], oidPhase[v]}

\* An update of OID_phase writes the same to all the rows of the OID.
LEMMA RecordedTogether ==
    ASSUME OneRecord, NEW o, NEW p, RecordPhase(o, p), Rows' = Rows
    PROVE  OneRecord'
  <1>1. \A v \in Items : oidPhase'[v] = IF v \in Group(o) THEN p ELSE oidPhase[v]
    BY DEF RecordPhase
  <1> QED
    BY <1>1 DEF OneRecord, Group, Rows

LEMMA OneRecordStep ==
    ASSUME PhaseTypeInv, PurgedInv, OneRecord, [PhaseNext]_phaseVars
    PROVE  OneRecord'
  <1>t. row \in [Items -> RowStates] /\ oidPhase \in [Items -> Phases]
    BY DEF PhaseTypeInv, PhaseTypeOK, TypeOK
  <1>k. ASSUME UNCHANGED oidPhase, Rows' \subseteq Rows PROVE OneRecord'
    BY <1>k DEF OneRecord
  <1>u. ASSUME UNCHANGED <<row, oidPhase>> PROVE OneRecord'
    BY <1>u DEF OneRecord, Rows
  <1>r. ASSUME NEW e \in Engines, NEW report, Return(e, report),
               UNCHANGED oidPhase \/ \E o, p : RecordPhase(o, p)
        PROVE  OneRecord'
    <2>1. UNCHANGED row /\ Rows' = Rows
      BY <1>r DEF Return, Rows
    <2> QED
      BY <1>r, <1>u, <2>1, RecordedTogether
  <1>1. ASSUME NEW e \in Engines, DeletionStep(e) PROVE OneRecord'
    <2>1. CASE InstanceDeleted(e)
      <3>1. /\ row' = [v \in Items |-> IF v \in {item[e]} \cup Children(item[e])
                                       THEN "DELETED" ELSE row[v]]
            /\ RecordPhase(OidOf[item[e]], result[e]) /\ pc[e] = "mark"
        BY <2>1 DEF InstanceDeleted, MarkDeleted, RecordPhase
      <3>2. row[item[e]] # "absent" /\ \A v \in Children(item[e]) : row[v] # "absent"
        BY <3>1 DEF PurgedInv, PurgedBeforeMarked, Children, Rows
      <3>3. Rows' = Rows
        BY <3>1, <3>2 DEF Rows
      <3> QED
        BY <3>1, <3>3, RecordedTogether
    <2>2. CASE SetState(e)
      <3>1. /\ row' = [row EXCEPT ![item[e]] = "DELETED"]
            /\ UNCHANGED oidPhase /\ pc[e] = "state"
        BY <2>2 DEF SetState
      <3>2. row[item[e]] # "absent"
        BY <3>1 DEF PurgedInv, PurgedBeforeMarked
      <3>3. Rows' \subseteq Rows
        BY <1>t, <3>1, <3>2 DEF Rows
      <3> QED
        BY <1>k, <3>1, <3>3
    <2>3. CASE ~InstanceDeleted(e) /\ ~SetState(e)
      <3>1. UNCHANGED <<row, oidPhase>>
        BY <1>1, <2>3 DEF DeletionStep, NextInstance, LoadRow, DeleteInstance, CheckResilience,
           CheckKept, QueryReady, Purge, DatabaseFails, AnswerLost, table
      <3> QED
        BY <1>u, <3>1
    <2> QED
      BY <2>1, <2>2, <2>3
  <1>2. ASSUME NEW e \in Engines, CopyDataItem(e) PROVE OneRecord'
    <2> DEFINE u == item[e]
    <2>1. /\ row' = [row EXCEPT ![u] = "INITIALISED"]
          /\ oidPhase' = [oidPhase EXCEPT ![u] = "GAS"]
      BY <1>2 DEF CopyDataItem, BeginCopy
    <2>2. \A v \in Rows' : oidPhase'[v] = "GAS" \/ (v \in Rows /\ oidPhase'[v] = oidPhase[v])
      <3> SUFFICES ASSUME NEW v \in Items, row'[v] # "absent"
                   PROVE  oidPhase'[v] = "GAS" \/ (v \in Rows /\ oidPhase'[v] = oidPhase[v])
        BY DEF Rows
      <3>1. CASE v = u
        BY <1>t, <2>1, <3>1
      <3>2. CASE v # u
        BY <1>t, <2>1, <3>2 DEF Rows
      <3> QED
        BY <3>1, <3>2
    <2> QED
      BY <2>2 DEF OneRecord
  <1>3. CASE CopyGoesOn
    <2>1. PICK u \in Items : CopyLands(u) \/ CopyReady(u) \/ CopyFailed(u)
      BY <1>3 DEF CopyGoesOn
    <2>2. /\ UNCHANGED oidPhase
          /\ \/ UNCHANGED row
             \/ row[u] = "INITIALISED" /\ \E s : row' = [row EXCEPT ![u] = s]
      BY <2>1 DEF CopyLands, CopyReady, CopyFailed, table
    <2>3. Rows' \subseteq Rows
      BY <1>t, <2>2 DEF Rows
    <2> QED
      BY <1>k, <2>2, <2>3
  <1>4. ASSUME NEW e \in Engines,
               \/ ChangeOidPhase(e) \/ OidPhaseEnforce(e) \/ DecreaseList(e) \/ ExpiryList(e)
               \/ VerifyPhase(e) \/ ConcludeChange(e) \/ ConcludeDecrease(e) \/ ConcludeExpiry(e)
               \/ CopyRefused(e) \/ CombineWithCopy(e) \/ HeuristicFails(e) \/ EngineDies(e)
        PROVE  OneRecord'
    <2>1. OnlyCall => UNCHANGED <<row, oidPhase>>
      BY DEF OnlyCall, table
    <2> QED
      BY <1>4, <1>r, <1>u, <2>1 DEF ChangeOidPhase, OidPhaseEnforce, DecreaseList, ExpiryList,
         VerifyPhase, ConcludeChange, ConcludeDecrease, ConcludeExpiry, CopyRefused,
         CombineWithCopy, HeuristicFails, EngineDies, Fail, Succeed
  <1>5. ASSUME NEW e \in Engines, Request(e) \/ IdentifyTargetStorage(e) PROVE OneRecord'
    <2>1. IdentifyTargetStorage(e) => 
              UNCHANGED <<row, oidPhase>> \/ (Return(e, "failed") /\ UNCHANGED oidPhase)
      BY DEF IdentifyTargetStorage, Fail, table
    <2>2. Request(e) => UNCHANGED <<row, oidPhase>>
      BY DEF Request, CallEnforce, CallChange, CallOidExpiry, Begin, table
    <2> QED
      BY <1>5, <1>r, <1>u, <2>1, <2>2
  <1>6. CASE (\E o \in Oids : OidExpires(o)) \/ UNCHANGED phaseVars
    BY <1>6, <1>u DEF OidExpires, phaseVars, vars, table
  <1> QED
    BY <1>1, <1>2, <1>3, <1>4, <1>5, <1>6 DEF PhaseNext, Step, DeletionStep

\* Enforce overstates an item by its target, so not one whose target is GAS or
\* less.
LowRecord == \A v \in Items : ~Below("GAS", Target[v]) => RealRecord(v)

LEMMA RecordInvariance ==
    ASSUME PlainWorld
    PROVE  PhaseSpec => [](LoopsInv /\ OneRecord /\ LowRecord)
  <1>1. PhaseInit => OneRecord /\ LowRecord
    <2> SUFFICES ASSUME PhaseInit PROVE OneRecord /\ LowRecord
      OBVIOUS
    <2>1. \A v \in Items : oidPhase[v] = "GAS"
      BY DEF PhaseInit, Init
    <2> QED
      BY <2>1, PhaseNumbers DEF OneRecord, LowRecord, RealRecord, Rows, Below
  <1>2. LoopsInv /\ OneRecord /\ [PhaseNext]_phaseVars => OneRecord'
    BY OneRecordStep DEF LoopsInv, TombstoneInv
  <1>3. LoopsInv /\ LoopsInv' /\ LowRecord /\ [PhaseNext]_phaseVars => LowRecord'
    <2> SUFFICES ASSUME LoopsInv, PhaseTypeInv', LowRecord, [PhaseNext]_phaseVars,
                        NEW v \in Items, ~Below("GAS", Target[v])
                 PROVE  RealRecord(v)'
      BY DEF LoopsInv, LowRecord
    <2>1. RealRecord(v)
      BY DEF LowRecord
    <2>2. RealRecord(v)' \/ oidPhase'[v] = Target[v]
      BY <2>1, RecordRow
    <2> QED
      BY <2>2 DEF RealRecord
  <1> QED
    BY <1>1, <1>2, <1>3, LoopInvariance, PTL DEF PhaseSpec

LEMMA DoneStep ==
    ASSUME PlainWorld, LoopsInv, OneRecord, LowRecord, [PhaseNext]_phaseVars,
           NEW e \in Engines, NEW o \in Oids, Returns(e, "done"), o = call[e].oid,
           \/ call[e].op = "change"
           \/ call[e].op = "enforce" /\ (At(e, "measure") => Group(o) \cap deleted = {})
    PROVE  ~Below(ResultPhase(Live(o)), call[e].goal) /\ Live(o)' = Live(o)
  <1> USE DEF LoopsInv
  <1>c. call \in [Engines -> Call] /\ call[e] \in Call /\ call[e].goal \in Phases /\ o \in Items
    <2>1. o \in Items
      BY RowSets
    <2> QED
      BY <2>1, CallFields DEF PhaseTypeInv, PhaseTypeOK, Call
  <1>l. LoopOf(e, o)
    BY <1>c DEF LoopInv
  <1>d. call[e].at # "idle" /\ call'[e].at = "idle" /\ call'[e].report = "done"
    BY DEF Returns
  <1>r. ASSUME NEW report, Return(e, report) PROVE Live(o)' = Live(o) /\ report = "done"
    BY <1>r, <1>c, <1>d DEF Return, NoCall, Live, Group, Rows
  <1>f. ~Fail(e)
    BY <1>r DEF Fail
  <1>m. ASSUME ResultPhase(Live(o)) = call[e].goal PROVE ~Below(ResultPhase(Live(o)), call[e].goal)
    BY <1>c, <1>m, PhaseNumbers DEF Below
  <1>1. CASE ChangeOidPhase(e)
    <2>1. Live(o) # {} /\ PhaseOf(Live(o)) = call[e].goal
          /\ (Return(e, "done") \/ Succeed(e, PhaseOf(Live(o))))
      <3>1. ASSUME call' = [call EXCEPT ![e].at = "delete", ![e].reached = PhaseOf(Live(o))]
            PROVE  FALSE
        BY <1>c, <1>d, <3>1 DEF Call
      <3>2. ~Goto(e, "identify")
        BY <1>c, <1>d DEF Goto, Call
      <3> QED
        BY <1>1, <1>f, <3>1, <3>2 DEF ChangeOidPhase, Counted
    <2> QED
      BY <1>r, <1>m, <2>1, PhaseOfSupports DEF Succeed
  <1>2. CASE OidPhaseEnforce(e)
    <2>1. PICK first \in Group(o) :
             /\ Target[first] = PhaseOf(Group(o))
             /\ Return(e, "done") \/ Succeed(e, PhaseOf(Group(o)))
      <3>1. ASSUME NEW at \in {"list", "identify"}, NEW goal,
                   call' = [call EXCEPT ![e].at = at, ![e].goal = goal]
            PROVE  FALSE
        BY <1>c, <1>d, <3>1 DEF Call
      <3> QED
        BY <1>2, <1>f, <3>1 DEF OidPhaseEnforce
    <2>2. Group(o) = Live(o) /\ Live(o) # {}
      BY <1>2, <2>1 DEF OidPhaseEnforce, Live
    <2>3. call[e].goal = Target[o] /\ Target[o] = Target[first]
      BY <1>2, <1>l, <2>1, TargetOfGroup DEF LoopOf, OidPhaseEnforce, PlainWorld, Group, Rows
    <2> QED
      BY <1>r, <1>m, <2>1, <2>2, <2>3, PhaseOfSupports DEF Succeed
  <1>3. CASE ConcludeChange(e)
    <2>1. /\ call[e].op = "change" /\ call[e].at \in {"delete", "conclude"}
          /\ call[e].reached = call[e].goal /\ Succeed(e, call[e].goal)
      BY <1>3, <1>f DEF ConcludeChange, LoopOver, At
    <2>2. Supports(o, call[e].goal)
      BY <1>l, <2>1 DEF LoopOf
    <2> QED
      BY <1>r, <2>1, <2>2 DEF Succeed, Supports
  <1>4. CASE ConcludeDecrease(e)
    <2>1. PICK first \in Group(o) :
              Return(e, IF oidPhase[first] = call[e].goal THEN "done" ELSE "failed")
      BY <1>4 DEF ConcludeDecrease
    <2>2. oidPhase[first] = call[e].goal /\ Live(o)' = Live(o)
      BY <2>1, <1>r
    <2>3. call[e].op = "enforce" /\ call[e].at \in {"delete", "conclude"}
      BY <1>4 DEF ConcludeDecrease, LoopOver, At
    <2>4. CASE Supports(o, call[e].goal)
      BY <2>2, <2>4 DEF Supports
    <2>5. ASSUME NEW v \in Group(o), Below(call[e].goal, oidPhase[v])
          PROVE  ~Below(ResultPhase(Live(o)), call[e].goal)
      <3>1. oidPhase[v] = oidPhase[first] \/ "GAS" \in {oidPhase[v], oidPhase[first]}
        BY <2>5 DEF OneRecord, Group
      <3>2. oidPhase[v] = "GAS" \/ call[e].goal = "GAS"
        BY <1>c, <2>2, <2>5, <3>1, PhaseNumbers DEF Below
      <3>3. /\ v \in Items /\ v \in Rows /\ OidOf[v] = o /\ oidPhase[v] \in Phases
            /\ ResultPhase(Live(o)) \in Phases
        BY RowSets, ResultPhaseType DEF Group, PhaseTypeInv, PhaseTypeOK, TypeOK
      <3>4. CASE oidPhase[v] = "GAS"
        <4>1. call[e].goal = "PLASMA"
          BY <1>c, <2>5, <3>4, PhaseNumbers DEF Below, Phases
        <4> QED
          BY <3>3, <4>1, PhaseNumbers DEF Below, Phases
      <3>5. CASE call[e].goal = "GAS"
        <4>1. call[e].goal = Target[o] /\ Target[o] = Target[v]
          BY <1>l, <2>3, <3>3, TargetOfGroup DEF LoopOf, PlainWorld
        <4>2. RealRecord(v)
          BY <3>3, <3>5, <4>1, PhaseNumbers DEF LowRecord, Below
        <4>3. ~Below(ResultPhase(Live(o)), oidPhase[v])
          BY <2>5, <3>3, <3>5, <4>2 DEF RealRecord
        <4> QED
          BY <2>5, <3>3, <3>5, <4>3, PhaseNumbers DEF Below
      <3> QED
        BY <3>2, <3>4, <3>5
    <2> QED
      BY <1>l, <2>2, <2>3, <2>4, <2>5 DEF LoopOf
  <1>5. CASE CombineWithCopy(e)
    <2>1. call[e].at = "combine" /\ Succeed(e, RaisedTo(o, call[e].goal))
      BY <1>5, <1>f DEF CombineWithCopy, At
    <2>2. Live(o) # {} /\ ~Below(PhaseOf(Live(o)), call[e].goal)
      BY <1>l, <2>1 DEF LoopOf
    <2> QED
      BY <1>r, <2>1, <2>2, PhaseOfSupports DEF Succeed
  <1>6. ~DeletionStep(e)
    <2>1. DeletionStep(e) => call'[e].at \in {"delete", "conclude", "verify"}
      BY DeletionCalls
    <2> QED
      BY <1>d, <2>1
  <1>7. ~Request(e)
    <2>1. ASSUME NEW op, NEW x, NEW goal, Begin(e, op, x, "measure", goal) PROVE FALSE
      BY <1>c, <1>d, <2>1 DEF Begin
    <2>2. ASSUME NEW found, call' = [call EXCEPT ![e].op = "expire", ![e].at = "list",
                                                 ![e].oids = found, ![e].report = "none"]
          PROVE  FALSE
      BY <1>c, <1>d, <2>2 DEF Call
    <2>3. ~CallOidExpiry(e)
      BY <2>2 DEF CallOidExpiry
    <2>4. (\A x \in Oids : ~CallEnforce(e, x)) /\ (\A x \in Oids, goal \in Phases : ~CallChange(e, x, goal))
      BY <2>1 DEF CallEnforce, CallChange
    <2> QED
      BY <2>3, <2>4 DEF Request
  <1>8. /\ \A at \in Stages \ {"idle"} : ~Goto(e, at)
        /\ call' # call
    BY <1>c, <1>d DEF Goto, Call
  <1>9. ~DecreaseList(e) /\ ~VerifyPhase(e) /\ ~IdentifyTargetStorage(e) /\ ~CopyDataItem(e)
    BY <1>8, <1>f DEF DecreaseList, VerifyPhase, IdentifyTargetStorage, CopyDataItem, Stages
  <1>10. ~ExpiryList(e) /\ ~ConcludeExpiry(e)
    BY DEF ExpiryList, ConcludeExpiry
  <1>11. ~CopyRefused(e) /\ ~HeuristicFails(e) /\ ~EngineDies(e)
    BY <1>f, <1>r DEF CopyRefused, HeuristicFails, EngineDies
  <1>12. ~CopyGoesOn /\ (\A x \in Oids : ~OidExpires(x)) /\ ~UNCHANGED phaseVars
    BY <1>8 DEF CopyGoesOn, OidExpires, phaseVars
  <1> QED
    BY <1>1, <1>2, <1>3, <1>4, <1>5, <1>6, <1>7, <1>9, <1>10, <1>11, <1>12
       DEF PhaseNext, Step, DeletionStep, PlainWorld, SingleEngine

\* docs/src/heuristics/data_item_phase.rst and change_oid_phase.yaml: a change
\* of phase, or an Enforce that measured no row that is gone, that reports
\* success leaves instances that give the phase asked for, for any number of
\* instances deleted or added on the way, and on volumes of every phase.
THEOREM DoneIsTheGoal ==
    ASSUME PlainWorld
    PROVE  PhaseSpec => DoneMeansGoal
  <1>1. LoopsInv /\ OneRecord /\ LowRecord /\ [PhaseNext]_phaseVars =>
          [\A e \in Engines, o \in Oids :
              /\ Returns(e, "done")
              /\ o = call[e].oid
              /\ \/ call[e].op = "change"
                 \/ call[e].op = "enforce" /\ (At(e, "measure") => Group(o) \cap deleted = {})
              => ~Below(ResultPhase(Live(o))', call[e].goal)]_call
    <2> SUFFICES ASSUME LoopsInv, OneRecord, LowRecord, [PhaseNext]_phaseVars,
                        NEW e \in Engines, NEW o \in Oids,
                        Returns(e, "done"), o = call[e].oid,
                        \/ call[e].op = "change"
                        \/ call[e].op = "enforce" /\ (At(e, "measure") => Group(o) \cap deleted = {})
                 PROVE  ~Below(ResultPhase(Live(o))', call[e].goal)
      OBVIOUS
    <2>1. ~Below(ResultPhase(Live(o)), call[e].goal) /\ Live(o)' = Live(o)
      BY DoneStep
    <2>2. ResultPhase(Live(o))' = ResultPhase(Live(o))
      BY <2>1 DEF ResultPhase, UidPhase
    <2> QED
      BY <2>1, <2>2
  <1> QED
    BY <1>1, RecordInvariance, PTL DEF PhaseSpec, DoneMeansGoal
-----------------------------------------------------------------------------
(***************************************************************************)
(* Lowering in time.  A change of phase goes on while it has more than the *)
(* goal, and one instance less than that still gives the goal: one that    *)
(* counts for SOLID on its own would break this, so the item must have no  *)
(* such instance.  The volumes may be of any phase.                        *)
(***************************************************************************)
\* Without instances on scratch space GAS is the least an item can have.
LEMMA NothingBelowGas ==
    ASSUME NEW S \in SUBSET Items, NEW p \in Phases, ~Below("GAS", p),
           \A c \in S : UidPhase[c] # "PLASMA"
    PROVE  ~Below(ResultPhase(S), p)
  <1>1. CASE S = {}
    BY <1>1, PhaseNumbers DEF ResultPhase, Below
  <1>2. CASE S # {}
    <2>1. PICK c \in S : TRUE
      BY <1>2
    <2>2. IsFiniteSet(S) /\ UidPhase[c] \in Phases /\ UidPhase[c] # "PLASMA"
      BY RowsAssumption, FS_Subset DEF UidPhase
    <2>3. ~Below(ResultPhase(S), UidPhase[c])
      BY <1>2, <2>2, CombineNotBelowACopy DEF ResultPhase
    <2>4. ResultPhase(S) \in Phases
      BY ResultPhaseType
    <2> QED
      BY <2>2, <2>3, <2>4, PhaseNumbers DEF Below, Phases
  <1> QED
    BY <1>1, <1>2

LEMMA OneInstanceLess ==
    ASSUME NEW u \in Items, Stepwise(OidOf[u]), NEW goal \in Phases, NEW reached \in Phases,
           Below(goal, reached), Supports(OidOf[u], reached)
    PROVE  ~Below(ResultPhase(Remaining(u)), goal)
  <1> DEFINE rest == Remaining(u)
             all == Live(OidOf[u])
  <1>1. /\ all \in SUBSET Items /\ rest \in SUBSET Items /\ rest = all \ {u}
        /\ IsFiniteSet(all) /\ IsFiniteSet(rest)
    <2>1. all \in SUBSET Items /\ rest = all \ {u}
      BY RowSets DEF Remaining
    <2> QED
      BY <2>1, RowsAssumption, FS_Subset
  <1>2. ResultPhase(all) \in Phases /\ ResultPhase(rest) \in Phases
    BY <1>1, ResultPhaseType
  <1>p. \A d \in all : UidPhase[d] \in {"GAS", "LIQUID"}
    BY DEF Live, Stepwise
  <1>3. ASSUME ~Below("GAS", goal) PROVE ~Below(ResultPhase(rest), goal)
    BY <1>1, <1>3, <1>p, NothingBelowGas
  <1>4. ASSUME Below("GAS", goal) PROVE ~Below(ResultPhase(rest), goal)
    <2>1. Below("GAS", reached)
      BY <1>4, PhaseNumbers DEF Below
    <2>2. Below(goal, ResultPhase(all))
      BY <1>2, <2>1, PhaseNumbers DEF Supports, Below
    <2>3. all # {} /\ Below(goal, CombineCopies(all, UidPhase))
      BY <1>4, <2>2, PhaseNumbers DEF ResultPhase, Below
    <2>4. CASE u \notin all
      <3>1. rest = all
        BY <1>1, <2>4
      <3> QED
        BY <1>2, <2>2, <3>1, PhaseNumbers DEF Below
    <2>5. CASE u \in all
      <3>1. all = rest \cup {u} /\ u \notin rest
        BY <1>1, <2>5
      <3>2. \A d \in rest \cup {u} : UidPhase[d] \in {"GAS", "LIQUID"}
        BY <1>p, <3>1
      <3>3. CASE rest # {}
        <4>1. ~Below(CombineCopies(rest, UidPhase), goal)
          <5> HIDE DEF rest, all
          <5> QED
            BY <1>1, <2>3, <3>1, <3>2, <3>3, OneCopyLess
        <4> QED
          BY <3>3, <4>1 DEF ResultPhase
      <3>4. CASE rest = {}
        <4>1. /\ all = {u} /\ UidPhase[u] \in {"GAS", "LIQUID"}
              /\ PhaseOrder[CombineCopies({u}, UidPhase)] = PhaseOrder[UidPhase[u]]
          BY <3>1, <3>2, <3>4, LoneCopy DEF Phases
        <4> QED
          BY <1>4, <2>3, <4>1, PhaseNumbers DEF Below, Phases
      <3> QED
        BY <3>3, <3>4
    <2> QED
      BY <2>4, <2>5
  <1> QED
    BY <1>3, <1>4

LowerOf(e) ==
    /\ call[e].op = "change" => call[e].at # "verify"
    /\ call[e].op = "change" /\ call[e].at = "delete" /\ Stepwise(call[e].oid) =>
          /\ ~Below(call[e].reached, call[e].goal)
          /\ pc[e] \in Busy => Below(call[e].goal, call[e].reached)
          /\ pc[e] \in Deciding => ~Below(result[e], call[e].goal)

LowerInv == \A e \in Engines : LowerOf(e)

\* While no copy is withdrawn the rows of an item only become more.
LEMMA StepwiseBefore ==
    ASSUME PlainWorld, LoopsInv, [PhaseNext]_phaseVars, NEW o, Stepwise(o)'
    PROVE  Stepwise(o)
  <1> USE DEF LoopsInv
  <1>1. Rows \subseteq Rows'
    <2>1. CASE Beside
      BY <2>1 DEF Beside, Rows
    <2>2. ASSUME NEW e \in Engines, MarkDeleted(e) PROVE Rows \subseteq Rows'
      BY <2>2 DEF MarkDeleted, Rows
    <2>3. CASE [Next]_vars /\ ~\E e \in Engines : MarkDeleted(e)
      BY <2>3, LiveSteps DEF PlainWorld, PhaseTypeInv, PhaseTypeOK, TypeInv, TombstoneInv
    <2> QED
      BY <2>1, <2>2, <2>3, HeuristicSteps
  <1> QED
    BY <1>1 DEF Stepwise, Group, UidPhase

LEMMA LowerDeletion ==
    ASSUME PlainWorld, LoopsInv, LowerInv, [PhaseNext]_phaseVars,
           NEW e \in Engines, DeletionStep(e)
    PROVE  LowerOf(e)'
  <1> USE DEF LoopsInv
  <1>c. /\ call[e].at = "delete" /\ call'[e].op = call[e].op /\ call'[e].goal = call[e].goal
        /\ call'[e].oid = call[e].oid
        /\ InstanceDeleted(e) => call'[e].reached = result[e]
        /\ NextInstance(e) \/ DeleteInstance(e) => call'[e].reached = call[e].reached
    BY DeletionCalls
  <1>t. /\ pc \in [Engines -> Places] /\ result \in [Engines -> Phases]
        /\ call \in [Engines -> Call] /\ call[e] \in Call
        /\ call[e].goal \in Phases /\ call[e].reached \in Phases
    BY CallFields DEF PhaseTypeInv, PhaseTypeOK, TypeOK, Call
  <1>v. call[e].op = "change" => call'[e].at # "verify"
    <2>1. InstanceDeleted(e) /\ call[e].op = "change" =>
              call' = [call EXCEPT ![e].reached = result[e], ![e].at = "delete"]
      BY DEF InstanceDeleted
    <2>2. NextInstance(e) \/ DeleteInstance(e) => AfterFailure(e) \/ UNCHANGED call
      BY DEF NextInstance, DeleteInstance
    <2> QED
      BY <1>c, <1>t, <2>1, <2>2 DEF DeletionStep, AfterFailure, Call
  <1>o. SUFFICES ASSUME call[e].op = "change", Stepwise(call[e].oid),
                        call'[e].at = "delete"
                 PROVE  LowerOf(e)'
    <2>1. PICK o : o = call[e].oid
      OBVIOUS
    <2>2. Stepwise(call[e].oid)' => Stepwise(o)'
      BY <1>c, <2>1 DEF Stepwise, Group
    <2>3. Stepwise(o)' => Stepwise(call[e].oid)
      BY <2>1, StepwiseBefore
    <2> QED
      BY <1>c, <1>v, <2>2, <2>3 DEF LowerOf
  <1>l. /\ ~Below(call[e].reached, call[e].goal)
        /\ pc[e] \in Busy => Below(call[e].goal, call[e].reached)
        /\ pc[e] \in Deciding => ~Below(result[e], call[e].goal)
    BY <1>c, <1>o DEF LowerInv, LowerOf
  <1>1. CASE NextInstance(e)
    <2>1. pc'[e] \in {"next", "check"}
      BY <1>1, <1>t DEF NextInstance, LoadRow, At
    <2>2. Below(call[e].goal, call[e].reached)
      <3>1. call[e].reached # call[e].goal
        BY <1>1, <1>o DEF NextInstance, LoopOver, At
      <3> QED
        BY <1>l, <1>t, <3>1, PhaseNumbers DEF Below, Phases
    <2> QED
      BY <1>1, <1>c, <1>l, <1>o, <1>v, <2>1, <2>2 DEF LowerOf, Deciding
  <1>2. CASE DeleteInstance(e)
    <2>0. pc[e] \in Busy
      BY <1>2 DEF DeleteInstance, CheckResilience, CheckKept, QueryReady, Purge, SetState,
         DatabaseFails, AnswerLost, Busy
    <2>1. CASE pc'[e] = "next"
      <3>1. call' = [call EXCEPT ![e].report = "failed", ![e].at = "conclude"]
        BY <1>2, <1>o, <2>1 DEF DeleteInstance, AfterFailure
      <3>2. call'[e].at = "conclude"
        BY <1>t, <3>1 DEF Call
      <3> QED
        BY <1>o, <3>2
    <2>2. CASE pc'[e] # "next"
      <3>1. UNCHANGED call
        BY <1>2, <2>2 DEF DeleteInstance
      <3>2. CASE CheckResilience(e)
        <4> DEFINE u == item[e]
        <4>1. result'[e] = ResultPhase(Remaining(u))
          BY <1>t, <2>2, <3>2 DEF CheckResilience, CheckKept
        <4>2. u \in Items /\ call[e].oid \in Items
          BY <1>o, <2>0 DEF PhaseTypeInv, Working, Busy, LoopInv, OidKnown
        <4>3. OidOf[u] = call[e].oid /\ Supports(OidOf[u], call[e].reached)
          BY <1>c, <1>o, <2>0, <4>2 DEF LoopInv, LoopOf
        <4>4. ~Below(ResultPhase(Remaining(u)), call[e].goal)
          BY <1>l, <1>o, <1>t, <2>0, <4>2, <4>3, OneInstanceLess
        <4> QED
          BY <1>c, <1>l, <2>0, <3>1, <4>1, <4>4 DEF LowerOf
      <3>3. CASE ~CheckResilience(e)
        <4>1. pc[e] \in Deciding /\ UNCHANGED result
          BY <1>2, <2>2, <3>3, <1>t DEF DeleteInstance, QueryReady, Purge, SetState,
             DatabaseFails, AnswerLost, Deciding
        <4> QED
          BY <1>c, <1>l, <2>0, <3>1, <4>1 DEF LowerOf
      <3> QED
        BY <3>2, <3>3
    <2> QED
      BY <2>1, <2>2
  <1>3. CASE InstanceDeleted(e)
    <2>1. /\ pc[e] = "mark" /\ pc'[e] = "next" /\ call'[e].reached = result[e]
          /\ call'[e].at = "delete"
      <3>1. call' = [call EXCEPT ![e].reached = result[e], ![e].at = "delete"]
        BY <1>3, <1>o DEF InstanceDeleted
      <3>2. pc[e] = "mark" /\ pc' = [pc EXCEPT ![e] = "next"]
        BY <1>3 DEF InstanceDeleted, MarkDeleted
      <3> QED
        BY <1>t, <3>1, <3>2 DEF Call
    <2> QED
      BY <1>c, <1>l, <2>1 DEF LowerOf, Busy, Deciding
  <1> QED
    BY <1>1, <1>2, <1>3 DEF DeletionStep

LEMMA LowerStep ==
    ASSUME PlainWorld, LoopsInv, LowerInv, [PhaseNext]_phaseVars
    PROVE  LowerInv'
  <1> USE DEF LoopsInv
  <1> SUFFICES ASSUME NEW e \in Engines PROVE LowerOf(e)'
    BY DEF LowerInv
  <1>c. call \in [Engines -> Call] /\ call[e] \in Call
    BY CallFields DEF PhaseTypeInv, PhaseTypeOK
  <1>l. LowerOf(e)
    BY DEF LowerInv
  <1>r. ASSUME NEW report, Return(e, report) PROVE LowerOf(e)'
    <2>1. call'[e].op = "none"
      BY <1>c, <1>r DEF Return, NoCall
    <2> QED
      BY <2>1 DEF LowerOf
  <1>v. ASSUME call'[e].op # "change" \/ call'[e].at \notin {"delete", "verify"} PROVE LowerOf(e)'
    BY <1>v DEF LowerOf
  <1>g. ASSUME NEW at \in Stages \ {"delete", "verify"}, Goto(e, at) PROVE LowerOf(e)'
    <2>1. call'[e].at = at
      BY <1>c, <1>g DEF Goto, Call
    <2> QED
      BY <1>v, <2>1
  <1>1. CASE Request(e)
    <2>1. ASSUME NEW op, NEW x, NEW goal, Begin(e, op, x, "measure", goal) PROVE LowerOf(e)'
      <3>1. call'[e].at = "measure"
        BY <1>c, <2>1 DEF Begin
      <3> QED
        BY <1>v, <3>1
    <2>2. ASSUME NEW found, call' = [call EXCEPT ![e].op = "expire", ![e].at = "list",
                                                 ![e].oids = found, ![e].report = "none"]
          PROVE  LowerOf(e)'
      <3>1. call'[e].op = "expire"
        BY <1>c, <2>2 DEF Call
      <3> QED
        BY <1>v, <3>1
    <2>3. CallOidExpiry(e) => LowerOf(e)'
      BY <2>2 DEF CallOidExpiry
    <2>4. /\ \A x \in Oids : CallEnforce(e, x) => LowerOf(e)'
          /\ \A x \in Oids, goal \in Phases : CallChange(e, x, goal) => LowerOf(e)'
      BY <2>1 DEF CallEnforce, CallChange
    <2> QED
      BY <1>1, <2>3, <2>4 DEF Request
  <1>2. CASE ChangeOidPhase(e)
    <2> DEFINE actual == PhaseOf(Live(call[e].oid))
    <2>1. CASE /\ Live(call[e].oid) # {} /\ Below(call[e].goal, actual)
               /\ call' = [call EXCEPT ![e].at = "delete", ![e].reached = actual]
               /\ OnlyCall
      <3>1. /\ call'[e].at = "delete" /\ call'[e].reached = actual /\ call'[e].goal = call[e].goal
        BY <1>c, <2>1 DEF Call
      <3>2. pc'[e] = "next"
        BY <1>2, <2>1 DEF ChangeOidPhase, At, OnlyCall
      <3>3. actual \in Phases /\ call[e].goal \in Phases
        <4>1. Live(call[e].oid) \in SUBSET Items
          BY RowSets
        <4> QED
          BY <1>c, <2>1, <4>1, PhaseOfType DEF Call
      <3>4. ~Below(actual, call[e].goal)
        BY <2>1, <3>3, PhaseNumbers DEF Below
      <3> QED
        BY <3>1, <3>2, <3>4 DEF LowerOf, Busy, Deciding
    <2> QED
      BY <1>2, <1>r, <1>g, <2>1 DEF ChangeOidPhase, Counted, Fail, Succeed, Stages
  <1>3. CASE OidPhaseEnforce(e)
    <2>1. ASSUME NEW at, NEW goal, call' = [call EXCEPT ![e].at = at, ![e].goal = goal]
          PROVE  LowerOf(e)'
      <3>1. call'[e].op = "enforce"
        BY <1>3, <1>c, <2>1 DEF OidPhaseEnforce, Call
      <3> QED
        BY <1>v, <3>1
    <2> QED
      BY <1>3, <1>r, <2>1 DEF OidPhaseEnforce, Fail, Succeed
  <1>4. CASE DecreaseList(e) \/ ExpiryList(e)
    <2>1. ASSUME DecreaseList(e), Goto(e, "delete") PROVE LowerOf(e)'
      <3>1. call'[e].op = "enforce"
        BY <1>c, <2>1 DEF DecreaseList, Goto, Call
      <3> QED
        BY <1>v, <3>1
    <2>2. ASSUME NEW x, call[e].op = "expire",
                 call' = [call EXCEPT ![e].at = "delete", ![e].oid = x, ![e].oids = @ \ {x}]
          PROVE  LowerOf(e)'
      <3>1. call'[e].op = "expire"
        BY <1>c, <2>2 DEF Call
      <3> QED
        BY <1>v, <3>1
    <2>3. ExpiryList(e) => LowerOf(e)'
      BY <2>2 DEF ExpiryList
    <2> QED
      BY <1>4, <1>r, <2>1, <2>3 DEF DecreaseList, Fail
  <1>5. CASE VerifyPhase(e)
    <2>1. PICK at \in {"conclude", "delete"} : Goto(e, at)
      BY <1>5 DEF VerifyPhase
    <2>2. call'[e].op = call[e].op /\ call[e].at = "verify"
      BY <1>c, <1>5, <2>1 DEF VerifyPhase, At, Goto, Call
    <2> QED
      BY <1>l, <1>v, <2>2 DEF LowerOf
  <1>6. CASE DeletionStep(e)
    BY <1>6, LowerDeletion
  <1>7. CASE ConcludeExpiry(e) \/ IdentifyTargetStorage(e) \/ CopyDataItem(e)
    BY <1>7, <1>g, <1>r DEF ConcludeExpiry, IdentifyTargetStorage, CopyDataItem, Fail, Stages
  <1>8. CASE \/ ConcludeChange(e) \/ ConcludeDecrease(e) \/ CopyRefused(e)
             \/ CombineWithCopy(e) \/ HeuristicFails(e) \/ EngineDies(e)
    BY <1>8, <1>r DEF ConcludeChange, ConcludeDecrease, CopyRefused, CombineWithCopy,
       HeuristicFails, EngineDies, Fail, Succeed
  <1>9. CASE CopyGoesOn \/ (\E o \in Oids : OidExpires(o)) \/ UNCHANGED phaseVars
    <2>1. UNCHANGED <<call, pc, result>>
      BY <1>9 DEF CopyGoesOn, CopyLands, CopyReady, CopyFailed, OidExpires, phaseVars, vars, engine
    <2>2. PICK o : o = call[e].oid
      OBVIOUS
    <2>3. Stepwise(call[e].oid)' => Stepwise(o)'
      BY <2>1, <2>2 DEF Stepwise, Group
    <2>4. Stepwise(o)' => Stepwise(call[e].oid)
      BY <2>2, StepwiseBefore
    <2> QED
      BY <1>l, <2>1, <2>3, <2>4 DEF LowerOf
  <1> QED
    BY <1>1, <1>2, <1>3, <1>4, <1>5, <1>6, <1>7, <1>8, <1>9
       DEF PhaseNext, Step, DeletionStep, PlainWorld, SingleEngine

LEMMA LowerInvariance ==
    ASSUME PlainWorld
    PROVE  PhaseSpec => [](LoopsInv /\ LowerInv)
  <1>1. PhaseInit => LowerInv
    BY DEF PhaseInit, NoCall, LowerInv, LowerOf
  <1>2. LoopsInv /\ LowerInv /\ [PhaseNext]_phaseVars => LowerInv'
    BY LowerStep
  <1> QED
    BY <1>1, <1>2, LoopInvariance, PTL DEF PhaseSpec

\* A payload goes only inside a deletion that has decided.
LEMMA PayloadSteps ==
    ASSUME PlainWorld, PhaseTypeInv, [PhaseNext]_phaseVars,
           NEW e \in Engines, item[e] \in payload \ payload'
    PROVE  pc[e] = "purge" /\ call[e].at = "delete"
  <1>1. CASE DeletionStep(e)
    <2>1. pc[e] = "purge"
      BY <1>1 DEF DeletionStep, NextInstance, LoadRow, DeleteInstance, InstanceDeleted,
         CheckResilience, CheckKept, QueryReady, Purge, SetState, DatabaseFails, AnswerLost,
         MarkDeleted, world
    <2> QED
      BY <1>1, <2>1, DeletionCalls
  <1>2. \A f \in Engines : DeletionStep(f) => DeletionStep(e)
    BY DEF PlainWorld, SingleEngine
  <1>3. ASSUME NEW f \in Engines, CopyDataItem(f) PROVE FALSE
    BY <1>3 DEF CopyDataItem, BeginCopy, world
  <1>4. ~CopyGoesOn
    BY DEF CopyGoesOn, CopyLands, CopyReady, CopyFailed, world
  <1>5. ASSUME NEW f \in Engines,
               \/ ChangeOidPhase(f) \/ OidPhaseEnforce(f) \/ DecreaseList(f) \/ ExpiryList(f)
               \/ VerifyPhase(f) \/ ConcludeChange(f) \/ ConcludeDecrease(f) \/ ConcludeExpiry(f)
               \/ CopyRefused(f) \/ CombineWithCopy(f) \/ HeuristicFails(f) \/ EngineDies(f)
        PROVE  FALSE
    BY <1>5 DEF ChangeOidPhase, OidPhaseEnforce, DecreaseList, ExpiryList, VerifyPhase,
       ConcludeChange, ConcludeDecrease, ConcludeExpiry, CopyRefused, CombineWithCopy,
       HeuristicFails, EngineDies, Fail, Succeed, Return, OnlyCall, world
  <1>6. ASSUME NEW f \in Engines, Request(f) \/ IdentifyTargetStorage(f) PROVE FALSE
    BY <1>6 DEF Request, CallEnforce, CallChange, CallOidExpiry, Begin, IdentifyTargetStorage,
       Fail, Return, world
  <1>7. (\A o \in Oids : ~OidExpires(o)) /\ ~UNCHANGED phaseVars
    BY DEF OidExpires, phaseVars, vars, world
  <1> QED
    BY <1>1, <1>2, <1>3, <1>4, <1>5, <1>6, <1>7 DEF PhaseNext, Step, DeletionStep

LEMMA LowerSpares ==
    ASSUME PlainWorld, LoopsInv, LowerInv, [PhaseNext]_phaseVars,
           NEW e \in Engines, call[e].op \in {"change", "enforce"},
           item[e] \in payload \ payload', Stepwise(OidOf[item[e]])
    PROVE  ~Below(ResultPhase(Remaining(item[e])), call[e].goal)
  <1> DEFINE u == item[e]
             o == call[e].oid
  <1> USE DEF LoopsInv
  <1>1. pc[e] = "purge" /\ call[e].at = "delete"
    BY PayloadSteps
  <1>2. u \in Items /\ o \in Items
    BY <1>1 DEF PhaseTypeInv, Working, LoopInv, OidKnown
  <1>3. /\ call[e] \in Call /\ call[e].goal \in Phases /\ result[e] \in Phases
        /\ ResultPhase(Remaining(u)) \in Phases
    <2>1. Remaining(u) \in SUBSET Items
      BY RowSets DEF Remaining
    <2> QED
      BY <2>1, CallFields, ResultPhaseType DEF PhaseTypeInv, PhaseTypeOK, TypeOK, Call
  <1>4. Below("GAS", result[e]) => ~Below(ResultPhase(Remaining(u)), result[e])
    BY <1>1 DEF DecisionStillValid, DecisionStands, Deciding
  <1>o. OidOf[u] = o
    BY <1>1, <1>2 DEF LoopInv, LoopOf, Busy
  <1>5. ~Below(result[e], call[e].goal)
    <2>1. CASE call[e].op = "change"
      BY <1>1, <1>o, <2>1 DEF LowerInv, LowerOf, Deciding
    <2>2. CASE call[e].op = "enforce"
      <3>1. OidOf[u] = o /\ call[e].goal = Target[o]
        BY <1>1, <1>2, <2>2 DEF LoopInv, LoopOf, Busy
      <3>2. Target[u] = Target[o]
        BY <1>2, <3>1 DEF PlainWorld, OneTarget
      <3> QED
        BY <1>1, <3>1, <3>2 DEF DecisionStillValid, DecisionStands, Deciding
    <2> QED
      BY <2>1, <2>2
  <1>6. CASE Below("GAS", call[e].goal)
    BY <1>3, <1>4, <1>5, <1>6, BelowChain
  <1>7. CASE ~Below("GAS", call[e].goal)
    <2>1. \A d \in Remaining(u) : UidPhase[d] # "PLASMA"
      BY DEF Remaining, Live, Stepwise
    <2>2. Remaining(u) \in SUBSET Items
      BY RowSets DEF Remaining
    <2> QED
      BY <1>3, <1>7, <2>1, <2>2, NothingBelowGas
  <1> QED
    BY <1>6, <1>7

\* Lowering the phase of an item, on request or by Enforce, stops in time: no
\* payload of an item whose instances count for GAS or LIQUID each is taken when
\* the rows that remain are below the phase asked for, for any number of
\* instances, and whatever volumes, SOLID ones included, other items are on.
THEOREM LoweringStopsInTime ==
    ASSUME PlainWorld
    PROVE  PhaseSpec => LoweringStepwiseKeepsGoal
  <1>1. LoopsInv /\ LowerInv /\ [PhaseNext]_phaseVars =>
          [\A e \in Engines :
              /\ call[e].op \in {"change", "enforce"}
              /\ item[e] \in payload \ payload'
              /\ Stepwise(OidOf[item[e]])
              => ~Below(ResultPhase(Remaining(item[e])), call[e].goal)]_payload
    BY LowerSpares
  <1> QED
    BY <1>1, LowerInvariance, PTL DEF PhaseSpec, LoweringStepwiseKeepsGoal
-----------------------------------------------------------------------------
(***************************************************************************)
(* The expiry of OIDs: while no deletion has failed, what is left of the   *)
(* OID in hand is still to be visited.                                     *)
(***************************************************************************)
Visiting(e) == IF pc[e] \in Busy THEN {item[e]} ELSE {}

ExpiryOf(e) ==
    call[e].op = "expire" =>
        /\ pc[e] # "idle" /\ call[e].at \in {"list", "delete"}
        /\ call[e].at = "delete" /\ call[e].report # "failed" =>
              Live(call[e].oid) \subseteq todo[e] \cup Visiting(e)

ExpiryInv == \A e \in Engines : ExpiryOf(e)

\* A lone engine that expires OIDs adds no row.
LEMMA NothingAppears ==
    ASSUME SingleEngine, PhaseTypeInv, PurgedInv, [PhaseNext]_phaseVars,
           NEW e \in Engines, call[e].op = "expire", ExpiryOf(e), NEW o
    PROVE  Live(o)' \subseteq Live(o)
  <1>1. CASE Beside
    BY <1>1 DEF Beside, Live, Group, Rows
  <1>2. CASE InRetention
    <2>1. \A f \in Engines : ~CopyDataItem(f)
      BY DEF SingleEngine, CopyDataItem, At, ExpiryOf
    <2>2. Rows' \subseteq Rows
      BY <1>2, <2>1, RowsStay
    <2>3. deleted \subseteq deleted'
      <3>1. ASSUME NEW f \in Engines, DeletionStep(f) PROVE deleted \subseteq deleted'
        BY <3>1 DEF DeletionStep, NextInstance, LoadRow, DeleteInstance, InstanceDeleted,
           CheckResilience, CheckKept, QueryReady, Purge, SetState, DatabaseFails, AnswerLost,
           MarkDeleted, table
      <3>2. CopyGoesOn => deleted \subseteq deleted'
        BY DEF CopyGoesOn, CopyLands, CopyReady, CopyFailed, table
      <3>3. (\E x \in Oids : OidExpires(x)) => deleted \subseteq deleted'
        BY DEF OidExpires, vars, table
      <3> QED
        BY <1>2, <2>1, <3>1, <3>2, <3>3 DEF InRetention
    <2> QED
      BY <2>2, <2>3 DEF Live, Group
  <1> QED
    BY <1>1, <1>2, HeuristicSteps

\* A step of a deletion inside an expiry: it is noted if it fails.
LEMMA ExpiryDeletion ==
    ASSUME SingleEngine, PhaseTypeInv, PurgedInv, [PhaseNext]_phaseVars,
           NEW e \in Engines, DeletionStep(e), call[e].op = "expire", ExpiryOf(e)
    PROVE  ExpiryOf(e)' /\ (call[e].report = "failed" => call'[e].report = "failed")
  <1>c. /\ call \in [Engines -> Call] /\ call[e] \in Call
        /\ call[e].at = "delete" /\ call'[e].op = "expire" /\ call'[e].oid = call[e].oid
    BY DeletionCalls, CallFields DEF PhaseTypeInv, PhaseTypeOK
  <1>t. /\ todo \in [Engines -> SUBSET Items] /\ pc \in [Engines -> Places]
        /\ item \in [Engines -> Items \cup {NoItem}] /\ row \in [Items -> RowStates]
    BY DEF PhaseTypeInv, PhaseTypeOK, TypeOK
  <1>o. \A o : Live(o)' \subseteq Live(o)
    BY NothingAppears
  <1>f. AfterFailure(e) => call'[e].at = "delete" /\ call'[e].report = "failed"
    BY <1>c DEF AfterFailure, Call
  <1>k. ASSUME pc'[e] # "idle", call'[e].at = "delete",
               \/ call'[e].report = "failed"
               \/ /\ call'[e].report = call[e].report
                  /\ \A o : Live(o)' \cap (todo[e] \cup Visiting(e))
                               \subseteq todo'[e] \cup Visiting(e)'
        PROVE  ExpiryOf(e)' /\ (call[e].report = "failed" => call'[e].report = "failed")
    BY <1>c, <1>o, <1>k DEF ExpiryOf
  <1>1. CASE NextInstance(e)
    <2>1. PICK u \in todo[e] :
            /\ todo' = [todo EXCEPT ![e] = @ \ {u}]
            /\ IF u \in Rows
               THEN /\ item' = [item EXCEPT ![e] = u]
                    /\ pc' = [pc EXCEPT ![e] = "check"]
               ELSE UNCHANGED <<item, pc>>
      BY <1>1 DEF NextInstance, LoadRow
    <2>2. pc[e] = "next"
      BY <1>1 DEF NextInstance, At
    <2>3. CASE u \in Rows
      <3>1. pc'[e] = "check" /\ item'[e] = u /\ todo'[e] = todo[e] \ {u}
        BY <1>t, <2>1, <2>3
      <3>2. UNCHANGED call
        BY <1>1, <3>1 DEF NextInstance
      <3> QED
        BY <1>c, <1>k, <2>2, <3>1, <3>2 DEF Visiting, Busy
    <2>4. CASE u \notin Rows
      <3>1. pc'[e] = "next"
        BY <2>1, <2>2, <2>4
      <3> QED
        BY <1>1, <1>f, <1>k, <3>1 DEF NextInstance
    <2> QED
      BY <2>3, <2>4
  <1>2. CASE DeleteInstance(e)
    <2>1. /\ UNCHANGED <<todo, item>> /\ pc[e] \in Busy
          /\ pc'[e] \in Busy \cup {"next"}
      BY <1>2, <1>t DEF DeleteInstance, CheckResilience, CheckKept, QueryReady, Purge, SetState,
         DatabaseFails, AnswerLost, Busy
    <2>2. CASE pc'[e] = "next"
      BY <1>2, <1>f, <1>k, <2>2 DEF DeleteInstance
    <2>3. CASE pc'[e] # "next"
      <3>1. UNCHANGED call
        BY <1>2, <2>3 DEF DeleteInstance
      <3> QED
        BY <1>c, <1>k, <2>1, <2>3, <3>1 DEF Visiting, Busy
    <2> QED
      BY <2>2, <2>3
  <1>3. CASE InstanceDeleted(e)
    <2>1. /\ pc'[e] = "next" /\ UNCHANGED todo /\ item[e] \in deleted'
          /\ call'[e].at = "delete" /\ call'[e].report = call[e].report
      BY <1>3, <1>c, <1>t DEF InstanceDeleted, MarkDeleted, Call
    <2>2. \A o : item[e] \notin Live(o)'
      BY <2>1 DEF Live
    <2> QED
      BY <1>k, <2>1, <2>2 DEF Visiting
  <1> QED
    BY <1>1, <1>2, <1>3 DEF DeletionStep

\* Every other step of the engine.
LEMMA ExpiryStep ==
    ASSUME SingleEngine, PhaseTypeInv, PurgedInv, [PhaseNext]_phaseVars,
           NEW e \in Engines, ExpiryOf(e)
    PROVE  /\ ExpiryOf(e)'
           /\ call[e].op = "expire" /\ call[e].report = "failed" =>
                call'[e].report = "failed" \/ Returns(e, "none")
  <1> DEFINE Noted == call[e].op = "expire" /\ call[e].report = "failed" =>
                        call'[e].report = "failed" \/ Returns(e, "none")
  <1>c. call \in [Engines -> Call] /\ call[e] \in Call /\ pc \in [Engines -> Places]
        /\ todo \in [Engines -> SUBSET Items]
    BY CallFields DEF PhaseTypeInv, PhaseTypeOK, TypeOK
  <1>r. ASSUME NEW report, Return(e, report)
        PROVE  ExpiryOf(e)' /\ (report \in {"none", "failed"} => Noted)
    <2>1. call'[e].op = "none" /\ call'[e].at = "idle" /\ call'[e].report = report
      BY <1>r, <1>c DEF Return, NoCall
    <2> QED
      BY <2>1 DEF ExpiryOf, Returns
  <1>n. ASSUME call[e].op # "expire", call'[e].op = call[e].op PROVE ExpiryOf(e)' /\ Noted
    BY <1>n DEF ExpiryOf
  <1>1. CASE Request(e)
    <2>1. pc[e] = "idle" /\ call[e].op # "expire"
      BY <1>1 DEF Request, CallEnforce, CallChange, CallOidExpiry, Begin, ExpiryOf
    <2>2. ASSUME NEW x \in Oids, NEW op \in {"change", "enforce"}, NEW at, NEW goal,
                 Begin(e, op, x, at, goal)
          PROVE  ExpiryOf(e)'
      <3>1. call'[e].op = op
        BY <1>c, <2>2 DEF Begin
      <3> QED
        BY <3>1 DEF ExpiryOf
    <2>3. CASE CallOidExpiry(e)
      <3>1. call'[e].at = "list" /\ pc'[e] = "next"
        BY <1>c, <2>3 DEF CallOidExpiry, Call
      <3> QED
        BY <2>1, <3>1 DEF ExpiryOf
    <2> QED
      BY <1>1, <2>1, <2>2, <2>3 DEF Request, CallEnforce, CallChange
  <1>2. CASE DeletionStep(e)
    <2>1. CASE call[e].op = "expire"
      BY <1>2, <2>1, ExpiryDeletion
    <2>2. CASE call[e].op # "expire"
      BY <1>2, <2>2, <1>n, DeletionCalls
    <2> QED
      BY <2>1, <2>2
  <1>3. CASE ExpiryList(e)
    <2>1. PICK x \in call[e].oids :
            /\ todo' = [todo EXCEPT ![e] = Live(x)]
            /\ call' = [call EXCEPT ![e].at = "delete", ![e].oid = x, ![e].oids = @ \ {x}]
            /\ OnlyCall /\ pc[e] = "next"
      BY <1>3 DEF ExpiryList, At
    <2>2. /\ call'[e].at = "delete" /\ call'[e].oid = x /\ call'[e].report = call[e].report
          /\ todo'[e] = Live(x) /\ pc'[e] = "next"
      BY <1>c, <2>1 DEF Call, OnlyCall
    <2>3. Live(x)' = Live(x)
      BY <2>1 DEF OnlyCall, table, Live, Group, Rows
    <2> QED
      BY <2>2, <2>3 DEF ExpiryOf
  <1>4. CASE ConcludeExpiry(e)
    <2>1. CASE Goto(e, "list") /\ OnlyCall
      <3>1. /\ call'[e].at = "list" /\ call'[e].report = call[e].report
            /\ pc'[e] = "next"
        BY <1>4, <1>c, <2>1 DEF Goto, OnlyCall, ConcludeExpiry, LoopOver, At, Call
      <3> QED
        BY <3>1 DEF ExpiryOf
    <2>2. CASE Return(e, IF call[e].report = "failed" THEN "failed" ELSE "done")
      <3>1. Return(e, "failed") \/ call[e].report # "failed"
        BY <2>2
      <3> QED
        BY <2>2, <3>1, <1>r
    <2> QED
      BY <1>4, <2>1, <2>2 DEF ConcludeExpiry
  <1>5. CASE \/ ChangeOidPhase(e) \/ OidPhaseEnforce(e) \/ DecreaseList(e) \/ VerifyPhase(e)
             \/ ConcludeChange(e) \/ ConcludeDecrease(e) \/ IdentifyTargetStorage(e)
             \/ CopyDataItem(e) \/ CopyRefused(e) \/ CombineWithCopy(e)
    <2>1. call[e].op # "expire"
      BY <1>5 DEF ChangeOidPhase, OidPhaseEnforce, DecreaseList, VerifyPhase, ConcludeChange,
         ConcludeDecrease, IdentifyTargetStorage, CopyDataItem, CopyRefused, CombineWithCopy,
         At, ExpiryOf
    <2>2. ASSUME NEW at, Goto(e, at) PROVE call'[e].op = call[e].op
      BY <1>c, <2>2 DEF Goto, Call
    <2>3. ASSUME NEW at, NEW goal,
                 \/ call' = [call EXCEPT ![e].at = at, ![e].goal = goal]
                 \/ call' = [call EXCEPT ![e].at = at, ![e].reached = goal]
          PROVE  call'[e].op = call[e].op
      BY <1>c, <2>3 DEF Call
    <2>4. call'[e].op = call[e].op \/ \E report : Return(e, report)
      <3>1. CASE ChangeOidPhase(e)
        BY <3>1, <2>2, <2>3 DEF ChangeOidPhase, Fail, Succeed
      <3>2. CASE OidPhaseEnforce(e)
        BY <3>2, <2>3 DEF OidPhaseEnforce, Fail, Succeed
      <3>3. CASE DecreaseList(e) \/ VerifyPhase(e) \/ ConcludeChange(e) \/ ConcludeDecrease(e)
        BY <3>3, <2>2 DEF DecreaseList, VerifyPhase, ConcludeChange, ConcludeDecrease, Fail, Succeed
      <3>4. CASE IdentifyTargetStorage(e) \/ CopyDataItem(e) \/ CopyRefused(e) \/ CombineWithCopy(e)
        BY <3>4, <2>2 DEF IdentifyTargetStorage, CopyDataItem, CopyRefused, CombineWithCopy,
           Fail, Succeed
      <3> QED
        BY <1>5, <3>1, <3>2, <3>3, <3>4
    <2> QED
      BY <1>n, <1>r, <2>1, <2>4
  <1>6. CASE HeuristicFails(e) \/ EngineDies(e)
    BY <1>6, <1>r DEF HeuristicFails, EngineDies
  <1>7. CASE CopyGoesOn \/ (\E x \in Oids : OidExpires(x)) \/ UNCHANGED phaseVars
    <2>1. UNCHANGED <<call, pc, todo, item>>
      BY <1>7 DEF CopyGoesOn, CopyLands, CopyReady, CopyFailed, OidExpires, phaseVars, vars, engine
    <2>2. call[e].op = "expire" => \A o : Live(o)' \subseteq Live(o)
      BY NothingAppears
    <2> QED
      BY <2>1, <2>2 DEF ExpiryOf, Visiting
  <1> QED
    BY <1>1, <1>2, <1>3, <1>4, <1>5, <1>6, <1>7 DEF PhaseNext, Step, DeletionStep, SingleEngine

\* An expiry that goes on to the next OID, or returns, is through its loop.
LEMMA ExpiryEmpties ==
    ASSUME SingleEngine, PhaseTypeInv, PurgedInv, ExpiryInv, [PhaseNext]_phaseVars,
           NEW e \in Engines, NEW o \in Items, call[e].op = "expire", call[e].oid = o
    PROVE  /\ /\ LoopOver(e)
              /\ \/ call'[e].at = "list" /\ call[e].report = "none"
                 \/ Returns(e, "done")
              => Live(o)' = {}
           /\ call[e].report = "failed" =>
                 call'[e].report = "failed" \/ Returns(e, "none")
  <1>1. ExpiryOf(e)
    BY DEF ExpiryInv
  <1>2. call[e].report = "failed" => call'[e].report = "failed" \/ Returns(e, "none")
    BY <1>1, ExpiryStep
  <1>3. ASSUME LoopOver(e), call[e].report = "none" \/ Returns(e, "done")
        PROVE  Live(o)' = {}
    <2>1. call[e].at = "delete" /\ pc[e] = "next" /\ todo[e] = {}
      BY <1>1, <1>3 DEF LoopOver, At, ExpiryOf
    <2>2. call[e].report # "failed"
      BY <1>2, <1>3 DEF Returns
    <2>3. Live(o) = {}
      BY <1>1, <2>1, <2>2 DEF ExpiryOf, Visiting, Busy
    <2> QED
      BY <1>1, <2>3, NothingAppears
  <1> QED
    BY <1>2, <1>3

\* data_item_expiry.rst, "The state of the OID deletion is still FAILED": an
\* expiry of a lone engine that reports success has left nothing of the OIDs it
\* went through, however many they are, and reports each failure on the way, also
\* when copies are withdrawn, volumes go down and calls fail.
THEOREM ExpiryReportsFailures ==
    ASSUME SingleEngine
    PROVE  PhaseSpec => ExpirySuccessMeansGone
  <1>1. PhaseInit => ExpiryInv
    BY DEF PhaseInit, NoCall, ExpiryInv, ExpiryOf
  <1>2. PhaseTypeInv /\ PurgedInv /\ ExpiryInv /\ [PhaseNext]_phaseVars => ExpiryInv'
    BY ExpiryStep DEF ExpiryInv
  <1>3. PhaseTypeInv /\ PurgedInv /\ ExpiryInv /\ [PhaseNext]_phaseVars =>
          [\A e \in Engines, o \in Items :
              call[e].op = "expire" /\ call[e].oid = o =>
                  /\ /\ LoopOver(e)
                     /\ \/ call'[e].at = "list" /\ call[e].report = "none"
                        \/ Returns(e, "done")
                     => Live(o)' = {}
                  /\ call[e].report = "failed" =>
                        call'[e].report = "failed" \/ Returns(e, "none")]_call
    BY ExpiryEmpties
  <1> QED
    BY <1>1, <1>2, <1>3, PhasePurged, PTL DEF PhaseSpec, ExpirySuccessMeansGone
===============================================================================

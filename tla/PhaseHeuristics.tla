--------------------------- MODULE PhaseHeuristics ---------------------------
(***************************************************************************)
(* Changing, enforcing and expiring the phase of a whole item (an OID).    *)
(* The heuristics measure the instances on record, then delete some of     *)
(* them one by one, or ask for one more copy.  They work on the table and  *)
(* payloads of Retention, and each deletion is the DeleteUidHeuristic      *)
(* modelled there: a call at "delete" whose engine has left "next" is      *)
(* inside it.  A query and the decision taken on it are one step; each     *)
(* later query, request or update is another.                              *)
(***************************************************************************)
EXTENDS Retention

VARIABLES
    call,        \* what each engine has been asked to do, and how far it is
    oidExpired   \* OIDs whose OID_expiration has passed

phaseVars == <<vars, call, oidExpired>>

Oids == {OidOf[u] : u \in Items}
Ops == {"none", "change", "enforce", "expire"}
Stages == {"idle", "measure", "list", "delete", "verify", "conclude",
           "identify", "copy", "combine"}
Reports == {"none", "done", "failed"}

Call == [op : Ops, at : Stages, oid : Items \cup {NoItem}, oids : SUBSET Items,
         goal : Phases, reached : Phases, report : Reports]

PhaseTypeOK ==
    /\ TypeOK
    /\ call \in [Engines -> Call]
    /\ oidExpired \in SUBSET Items

\* The phase a non-empty set of instances adds up to.
PhaseOf(instances) == CombineCopies(instances, UidPhase)

NoCall == [op |-> "none", at |-> "idle", oid |-> NoItem, oids |-> {},
           goal |-> "GAS", reached |-> "GAS", report |-> "none"]

PhaseInit ==
    /\ Init
    /\ call = [e \in Engines |-> NoCall]
    /\ oidExpired = {}
-----------------------------------------------------------------------------
(***************************************************************************)
(* The parts every heuristic is made of.                                   *)
(***************************************************************************)
At(e, stage) == call[e].at = stage /\ pc[e] = "next"

Goto(e, stage) == call' = [call EXCEPT ![e].at = stage]

\* A call begins; engine e has nothing else to do.
Begin(e, op, o, stage, goal) ==
    /\ pc[e] = "idle"
    /\ pc' = [pc EXCEPT ![e] = "next"]
    /\ call' = [call EXCEPT ![e] = [op |-> op, at |-> stage, oid |-> o, oids |-> {},
                                    goal |-> goal, reached |-> goal, report |-> "none"]]
    /\ UNCHANGED <<table, world, todo, item, result, faults, oidExpired>>

\* The HeuristicResult of the call.
Return(e, report) ==
    /\ call' = [call EXCEPT ![e] = [NoCall EXCEPT !.report = report]]
    /\ pc' = [pc EXCEPT ![e] = "idle"]
    /\ todo' = [todo EXCEPT ![e] = {}]
    /\ item' = [item EXCEPT ![e] = NoItem]
    /\ result' = [result EXCEPT ![e] = "GAS"]
    /\ UNCHANGED <<row, deleted, expired, world, oidExpired>>

Fail(e) == Return(e, "failed") /\ UNCHANGED <<oidPhase, faults>>

\* update(DataItem).where(OID == oid).values(OID_phase = p)
RecordPhase(o, p) ==
    oidPhase' = [v \in Items |-> IF v \in Group(o) THEN p ELSE oidPhase[v]]

Succeed(e, p) ==
    RecordPhase(call[e].oid, p) /\ Return(e, "done") /\ UNCHANGED faults

\* Nothing but the call and the list of instances to visit changes.
OnlyCall == UNCHANGED <<table, world, pc, item, result, faults, oidExpired>>
-----------------------------------------------------------------------------
(***************************************************************************)
(* ChangeOidPhaseHeuristic: measure, then lower or raise.  The row the     *)
(* recorded phase is read from is any row of the OID.                      *)
(***************************************************************************)
CallChange(e, o, goal) == Group(o) # {} /\ Begin(e, "change", o, "measure", goal)

\* Seeded bug: instances that are gone are measured, too.
CountedWithDeleted(o) == Group(o)

Counted(o) == Live(o)

ChangeOidPhase(e) ==
    LET o == call[e].oid
        goal == call[e].goal
        actual == PhaseOf(Counted(o))
    IN /\ At(e, "measure")
       /\ call[e].op = "change"
       /\ \/ /\ Counted(o) = {}
             /\ Fail(e)
          \/ /\ Counted(o) # {} /\ Below(goal, actual)
             /\ todo' = [todo EXCEPT ![e] = Counted(o)]
             /\ call' = [call EXCEPT ![e].at = "delete", ![e].reached = actual]
             /\ OnlyCall
          \/ /\ Counted(o) # {} /\ Below(actual, goal)
             /\ Goto(e, "identify")
             /\ OnlyCall /\ UNCHANGED todo
          \/ /\ Counted(o) # {} /\ actual = goal
             /\ \E first \in Group(o) :
                   IF oidPhase[first] = actual
                   THEN Return(e, "done") /\ UNCHANGED <<oidPhase, faults>>
                   ELSE Succeed(e, actual)

(***************************************************************************)
(* OidPhaseEnforceHeuristic.  It measures every row of the OID, whether    *)
(* deleted or not, and hands the recorded phase to DecreaseOidPhase and    *)
(* IncreaseOidPhase, which refuse unless the goal is below or above it.    *)
(***************************************************************************)
CallEnforce(e, o) == Group(o) # {} /\ Begin(e, "enforce", o, "measure", Target[o])

OidPhaseEnforce(e) ==
    LET o == call[e].oid
        actual == PhaseOf(Group(o))
    IN /\ At(e, "measure")
       /\ call[e].op = "enforce"
       /\ \E first \in Group(o) :
             LET goal == Target[first]
                 recorded == oidPhase[first]
             IN \/ /\ goal = actual
                   /\ IF recorded = actual
                      THEN Return(e, "done") /\ UNCHANGED <<oidPhase, faults>>
                      ELSE Succeed(e, actual)
                \/ /\ Below(goal, actual)
                   /\ IF Below(goal, recorded)
                      THEN /\ call' = [call EXCEPT ![e].at = "list", ![e].goal = goal]
                           /\ OnlyCall /\ UNCHANGED todo
                      ELSE Fail(e)
                \/ /\ Below(actual, goal)
                   /\ IF Below(recorded, goal)
                      THEN /\ call' = [call EXCEPT ![e].at = "identify", ![e].goal = goal]
                           /\ OnlyCall /\ UNCHANGED todo
                      ELSE Fail(e)

\* DecreaseOidPhaseHeuristic lists the instances to delete.
DecreaseList(e) ==
    /\ At(e, "list")
    /\ call[e].op = "enforce"
    /\ IF Live(call[e].oid) = {} THEN Fail(e)
       ELSE /\ todo' = [todo EXCEPT ![e] = Live(call[e].oid)]
            /\ Goto(e, "delete")
            /\ OnlyCall
-----------------------------------------------------------------------------
(***************************************************************************)
(* OidExpiryHeuristic: the expired OIDs that still have instances, and the *)
(* instances of one after the other.                                       *)
(***************************************************************************)
CallOidExpiry(e) ==
    LET found == {o \in oidExpired : Live(o) # {}}
    IN /\ pc[e] = "idle"
       /\ found # {}
       /\ pc' = [pc EXCEPT ![e] = "next"]
       /\ call' = [call EXCEPT ![e].op = "expire", ![e].at = "list", ![e].oids = found,
                               ![e].report = "none"]
       /\ UNCHANGED <<table, world, todo, item, result, faults, oidExpired>>

ExpiryList(e) ==
    /\ At(e, "list")
    /\ call[e].op = "expire"
    /\ \E o \in call[e].oids :
          /\ todo' = [todo EXCEPT ![e] = Live(o)]
          /\ call' = [call EXCEPT ![e].at = "delete", ![e].oid = o,
                                  ![e].oids = @ \ {o}]
          /\ OnlyCall
-----------------------------------------------------------------------------
(***************************************************************************)
(* The loop over the instances.  Lowering stops at the goal and at the     *)
(* first deletion that fails; expiry goes through all of them.             *)
(***************************************************************************)
\* Seeded bug: lowering goes on when the goal is reached.
LoopOverAtTheEnd(e) == At(e, "conclude") \/ (At(e, "delete") /\ todo[e] = {})

LoopOver(e) ==
    \/ At(e, "conclude")
    \/ /\ At(e, "delete")
       /\ \/ todo[e] = {}
          \/ (call[e].op = "change" /\ call[e].reached = call[e].goal)

\* Seeded bugs: expiry, that does not stop at a failure, does not note it either;
\* a status of its own for a failed deletion.
AfterFailureUnnoted(e) ==
    IF call[e].op = "expire" THEN UNCHANGED call
    ELSE call' = [call EXCEPT ![e].report = "failed", ![e].at = "conclude"]
AfterFailureError(e) ==
    call' = [call EXCEPT ![e].report = "error",
                         ![e].at = IF call[e].op = "expire" THEN "delete" ELSE "conclude"]

AfterFailure(e) ==
    call' = [call EXCEPT ![e].report = "failed",
                         ![e].at = IF call[e].op = "expire" THEN "delete" ELSE "conclude"]

\* A row that has gone since it was listed is a deletion that fails.
NextInstance(e) ==
    /\ At(e, "delete")
    /\ ~LoopOver(e)
    /\ LoadRow(e)
    /\ IF pc'[e] = "next" THEN AfterFailure(e) ELSE UNCHANGED call
    /\ UNCHANGED oidExpired

DeleteInstance(e) ==
    /\ call[e].at = "delete"
    /\ \/ CheckResilience(e) \/ QueryReady(e) \/ Purge(e) \/ SetState(e)
       \/ DatabaseFails(e) \/ AnswerLost(e)
    /\ IF pc'[e] = "next" THEN AfterFailure(e) ELSE UNCHANGED call
    /\ UNCHANGED oidExpired

\* Lowering by Enforce looks the recorded phase up again before it goes on.
InstanceDeleted(e) ==
    /\ call[e].at = "delete"
    /\ MarkDeleted(e)
    /\ call' = [call EXCEPT ![e].reached = result[e],
                            ![e].at = IF call[e].op = "enforce" THEN "verify" ELSE "delete"]
    /\ UNCHANGED oidExpired

VerifyPhase(e) ==
    /\ At(e, "verify")
    /\ Goto(e, IF oidPhase[item[e]] = call[e].goal THEN "conclude" ELSE "delete")
    /\ OnlyCall /\ UNCHANGED todo

ConcludeChange(e) ==
    /\ LoopOver(e)
    /\ call[e].op = "change"
    /\ IF call[e].reached = call[e].goal THEN Succeed(e, call[e].goal) ELSE Fail(e)

ConcludeDecrease(e) ==
    /\ LoopOver(e)
    /\ call[e].op = "enforce"
    /\ \E first \in Group(call[e].oid) :
          /\ Return(e, IF oidPhase[first] = call[e].goal THEN "done" ELSE "failed")
          /\ UNCHANGED <<oidPhase, faults>>

ConcludeExpiry(e) ==
    /\ LoopOver(e)
    /\ call[e].op = "expire"
    /\ IF call[e].oids # {}
       THEN Goto(e, "list") /\ OnlyCall /\ UNCHANGED todo
       ELSE /\ Return(e, IF call[e].report = "failed" THEN "failed" ELSE "done")
            /\ UNCHANGED <<oidPhase, faults>>
-----------------------------------------------------------------------------
(***************************************************************************)
(* IncreaseOidPhaseHeuristic: a volume, a copy on it, the phase with it.   *)
(***************************************************************************)
\* IdentifyTargetStorageHeuristic.  A row to be is on the volume it is for;
\* Items bounds how often a volume can be used again.
Candidates(o, goal) ==
    {u \in Items : /\ row[u] = "absent"
                   /\ OidOf[u] = o
                   /\ \A v \in Live(o) : StorageOf[v] # StorageOf[u]
                   /\ Suitable(ActualPhase(Live(o), UidPhase), UidPhase[u], goal)}

IdentifyTargetStorage(e) ==
    LET o == call[e].oid
        found == Candidates(o, call[e].goal)
    IN /\ At(e, "identify")
       /\ IF Live(o) = {} \/ found = {} THEN Fail(e)
          ELSE /\ item' \in {[item EXCEPT ![e] = u] : u \in found}
               /\ Goto(e, "copy")
               /\ UNCHANGED <<table, world, pc, todo, result, faults, oidExpired>>

CopyDataItem(e) ==
    /\ At(e, "copy")
    /\ \E orig \in Items : BeginCopy(item[e], orig)
    /\ Goto(e, "combine")
    /\ UNCHANGED oidExpired

CopyRefused(e) ==
    /\ At(e, "copy")
    /\ \/ \A s \in Namesakes(call[e].oid) : row[s] # "READY"
       \/ row[item[e]] # "absent"
    /\ Fail(e)

\* PhaseType is a string type: >= compares the names of the phases.
NameOrder == [GAS |-> 0, LIQUID |-> 1, PLASMA |-> 2, SOLID |-> 3]

\* The phase of the OID with the new row, or the goal if every row has gone.
RaisedTo(o, goal) == IF Live(o) = {} THEN goal ELSE PhaseOf(Live(o))

\* The copy counts although it has only been asked for.
CombineWithCopy(e) ==
    LET new == RaisedTo(call[e].oid, call[e].goal)
    IN /\ At(e, "combine")
       /\ IF NameOrder[new] >= NameOrder[call[e].goal] \/ ~Below(new, call[e].goal)
          THEN Succeed(e, new)
          ELSE Fail(e)
-----------------------------------------------------------------------------
\* A database call of a heuristic raises: it rolls back and reports a failure.
HeuristicFails(e) ==
    /\ \/ \E stage \in Stages \ {"idle", "delete"} : At(e, stage)
       \/ LoopOver(e) /\ call[e].op # "expire"
    /\ faults < MaxFaults
    /\ faults' = faults + 1
    /\ Return(e, "failed")
    /\ UNCHANGED oidPhase

\* The process dies.
EngineDies(e) ==
    /\ pc[e] # "idle"
    /\ faults < MaxFaults
    /\ faults' = faults + 1
    /\ Return(e, "none")
    /\ UNCHANGED oidPhase

\* The OID_expiration of an item passes.
OidExpires(o) ==
    /\ o \notin oidExpired
    /\ oidExpired' = oidExpired \cup {o}
    /\ UNCHANGED <<vars, call>>

\* Copies asked for are carried out, as in Retention.
CopyGoesOn ==
    /\ \E u \in Items : CopyLands(u) \/ CopyReady(u) \/ CopyFailed(u)
    /\ UNCHANGED <<call, oidExpired>>

Request(e) ==
    \/ \E o \in Oids : CallEnforce(e, o) \/ \E goal \in Phases : CallChange(e, o, goal)
    \/ CallOidExpiry(e)

Step(e) ==
    \/ ChangeOidPhase(e) \/ OidPhaseEnforce(e) \/ DecreaseList(e) \/ ExpiryList(e)
    \/ NextInstance(e) \/ DeleteInstance(e) \/ InstanceDeleted(e) \/ VerifyPhase(e)
    \/ ConcludeChange(e) \/ ConcludeDecrease(e) \/ ConcludeExpiry(e)
    \/ IdentifyTargetStorage(e) \/ CopyDataItem(e) \/ CopyRefused(e)
    \/ CombineWithCopy(e)

PhaseNext ==
    \/ \E e \in Engines : Request(e) \/ Step(e) \/ HeuristicFails(e) \/ EngineDies(e)
    \/ \E o \in Oids : OidExpires(o)
    \/ CopyGoesOn

PhaseSpec == PhaseInit /\ [][PhaseNext]_phaseVars

\* A heuristic that has been called runs to its end.
FairPhaseSpec == PhaseSpec /\ \A e \in Engines : WF_phaseVars(Step(e))
-----------------------------------------------------------------------------
(***************************************************************************)
(* Properties.                                                             *)
(***************************************************************************)
Returns(e, report) ==
    call[e].at # "idle" /\ call'[e].at = "idle" /\ call'[e].report = report

\* change_oid_phase.yaml, data_item_phase.rst: a change of phase that reports
\* success leaves instances that give at least the phase asked for, however many
\* were deleted or added on the way.  So does Enforce, unless it takes deleted
\* instances into account when it measures.
DoneMeansGoal ==
    [][\A e \in Engines, o \in Oids :
          /\ Returns(e, "done")
          /\ o = call[e].oid
          /\ \/ call[e].op = "change"
             \/ call[e].op = "enforce" /\ (At(e, "measure") => Group(o) \cap deleted = {})
          => ~Below(ResultPhase(Live(o))', call[e].goal)]_call

\* ChangeOidPhaseHeuristic, "delete UIDs until result_phase == target_phase", and
\* data_item_phase.rst, "to reach the requested target phase": no payload is taken
\* if the rows that remain are below the phase asked for.  (Nothing at all counts
\* as GAS.)
LoweringKeepsGoal ==
    [][\A e \in Engines :
          /\ call[e].op \in {"change", "enforce"}
          /\ item[e] \in payload \ payload'
          => ~Below(ResultPhase(Remaining(item[e])), call[e].goal)]_payload

\* An item that has an instance on a PLASMA or SOLID volume can be lowered by
\* more than one phase at once.
Stepwise(o) == \A u \in Group(o) : UidPhase[u] \in {"GAS", "LIQUID"}

\* The same, of the items whose instances each are GAS or LIQUID: the sum then
\* passes through the phase asked for, and the loop over the instances sees it.
LoweringStepwiseKeepsGoal ==
    [][\A e \in Engines :
          /\ call[e].op \in {"change", "enforce"}
          /\ item[e] \in payload \ payload'
          /\ Stepwise(OidOf[item[e]])
          => ~Below(ResultPhase(Remaining(item[e])), call[e].goal)]_payload

\* data_item_phase.rst: oid_phase is calculated from the phases of the
\* instances.  While copies succeed, no heuristic records more than they give,
\* but for Enforce, when it measures instances that are gone.
OnlyEnforceOverstates ==
    [][\/ UNCHANGED <<oidPhase, deleted>>
       \/ PhaseNotOverstated => PhaseNotOverstated'
       \/ \E e \in Engines : /\ call[e].op = "enforce"
                             /\ call[e].at = "measure"
                             /\ Group(call[e].oid) \cap deleted # {}]_phaseVars

\* The recorded phase of an item is more than its instances give.
Overstated(o) ==
    \E u \in Group(o) : /\ Below("GAS", oidPhase[u])
                        /\ Below(ResultPhase(Live(o)), oidPhase[u])

\* data_item_phase.rst: Enforce checks the recorded phase, the instances and the
\* target against each other and acts according to the result.  An item does not
\* stay overstated for ever if Enforce is called for it again and again.
EnforceRepairs ==
    \A o \in Oids :
        ([]<>\E e \in Engines : call[e].op = "enforce" /\ call[e].oid = o)
            => []<>~Overstated(o)

\* data_item_expiry.rst: "The state of the OID deletion is still FAILED" if one of
\* the UIDs cannot be deleted.  A call that has not failed leaves no instance of an
\* OID it is through with, and a failure is not forgotten over the OIDs and
\* instances that follow, unless the process dies.
ExpirySuccessMeansGone ==
    [][\A e \in Engines, o \in Items :
          call[e].op = "expire" /\ call[e].oid = o =>
              /\ /\ LoopOver(e)
                 /\ \/ call'[e].at = "list" /\ call[e].report = "none"
                    \/ Returns(e, "done")
                 => Live(o)' = {}
              /\ call[e].report = "failed" =>
                    call'[e].report = "failed" \/ Returns(e, "none")]_call
=============================================================================

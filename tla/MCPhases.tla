------------------------------ MODULE MCPhases ------------------------------
(***************************************************************************)
(* A walk over every bounded group of copies: each step adds a copy or     *)
(* removes one, so that the properties of Phases are checked on every      *)
(* count up to MaxCopies and on every step between two of them.            *)
(***************************************************************************)
EXTENDS Phases

CONSTANT MaxCopies

ASSUME MaxCopiesAssumption == MaxCopies \in Nat

VARIABLE count    \* count[p]: copies of the item on volumes of phase p

Group(c) == UNION {{<<p, i>> : i \in 1..c[p]} : p \in Phases}
PhaseIn(c) == [x \in Group(c) |-> x[1]]
GroupPhase(c) == CombineCopies(Group(c), PhaseIn(c))

Init == count = [p \in Phases |-> 0]

AddCopy(p) == /\ count[p] < MaxCopies
              /\ count' = [count EXCEPT ![p] = @ + 1]

DropCopy(p) == /\ count[p] > 0
               /\ count' = [count EXCEPT ![p] = @ - 1]

Next == \E p \in Phases : AddCopy(p) \/ DropCopy(p)

Spec == Init /\ [][Next]_count
-----------------------------------------------------------------------------
(***************************************************************************)
(* The reference definition of the combined phase, from the rule itself:   *)
(* copies pair up, two GAS to one LIQUID and two LIQUID to one SOLID, and  *)
(* the group has the highest phase that results.                           *)
(***************************************************************************)
PairedPhase(gas, liquid, solid) ==
    LET allLiquid == liquid + gas \div 2
        allSolid  == solid + allLiquid \div 2
    IN CASE allSolid > 0                                    -> "SOLID"
         [] allSolid = 0 /\ allLiquid > 0                   -> "LIQUID"
         [] allSolid = 0 /\ allLiquid = 0 /\ gas > 0        -> "GAS"
         [] OTHER                                           -> "PLASMA"

\* The weighted sum of CombineUidPhasesHeuristic, capped at 4 and with 3 read
\* as 2, gives the phase that pairing up the copies gives.
CombineIsPairing ==
    GroupPhase(count) = PairedPhase(count["GAS"], count["LIQUID"], count["SOLID"])

\* docs/src/heuristics/data_item_phase.rst: the phase of the OID is equal to or
\* higher than the phase of each of its copies.
NeverBelowACopy ==
    \A p \in Phases : count[p] > 0 => ~Below(GroupPhase(count), p)

\* A volume IdentifyTargetStorageHeuristic accepts brings the group to the
\* target once the copy on it exists: the sum of two orders it tests is never
\* more than what CombineUidPhasesHeuristic gives for the larger group.
IdentifiedVolumeReachesTarget ==
    \A s, target \in Phases :
        Suitable(ActualPhase(Group(count), PhaseIn(count)), s, target)
            => ~Below(GroupPhase([count EXCEPT ![s] = @ + 1]), target)

\* Losing a copy never raises the phase of the group, gaining one never
\* lowers it: what DeleteUidHeuristic relies on when it compares the phase
\* after the deletion with the target.
CombineIsMonotone ==
    [][(\A p \in Phases : count'[p] <= count[p])
            => ~Below(GroupPhase(count), GroupPhase(count'))]_count
=============================================================================

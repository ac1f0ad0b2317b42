------------------------------- MODULE Phases -------------------------------
(***************************************************************************)
(* The resilience arithmetic of the heuristics: the numeric order of the   *)
(* phases, the phase a set of copies adds up to, and the choice of a       *)
(* storage volume for one more copy.  The module has no state; the         *)
(* components that delete and create copies extend it.                     *)
(***************************************************************************)
EXTENDS Integers, FiniteSets

\* PhaseType, lowest resilience first.
Phases == {"PLASMA", "GAS", "LIQUID", "SOLID"}

\* PHASE_ORDER: two GAS make a LIQUID, two LIQUID make a SOLID.
PhaseOrder == [PLASMA |-> 0, GAS |-> 1, LIQUID |-> 2, SOLID |-> 4]

\* n_PHASE_ORDER, the inverse; it is undefined at 3.
PhaseWithOrder(n) == CHOOSE p \in Phases : PhaseOrder[p] = n

\* p gives less resilience than q.
Below(p, q) == PhaseOrder[p] < PhaseOrder[q]

(***************************************************************************)
(* CombineUidPhasesHeuristic.  PLASMA copies add nothing; 3 has no phase   *)
(* of its own and counts as LIQUID; nothing is above SOLID.                *)
(***************************************************************************)
\* Seeded bug: a LIQUID copy weighs no more than a GAS one.
WeightFlat(gas, liquid, solid) == gas + liquid + 4 * solid

Weight(gas, liquid, solid) == gas + 2 * liquid + 4 * solid

\* Seeded bugs: 3 rounded up, and 3 taken for the lowest phase.
LevelRoundedUp(n) == IF n = 3 THEN 4 ELSE IF n > 4 THEN 4 ELSE n
LevelUnknownIsGas(n) == IF n = 3 THEN 1 ELSE IF n > 4 THEN 4 ELSE n

Level(n) == IF n = 3 THEN 2 ELSE IF n > 4 THEN 4 ELSE n

Combine(gas, liquid, solid) ==
    PhaseWithOrder(Level(Weight(gas, liquid, solid)))

\* How many of the copies sit on a volume of phase p.
CountIn(copies, phaseOf, p) == Cardinality({c \in copies : phaseOf[c] = p})

CombineCopies(copies, phaseOf) ==
    Combine(CountIn(copies, phaseOf, "GAS"),
            CountIn(copies, phaseOf, "LIQUID"),
            CountIn(copies, phaseOf, "SOLID"))

(***************************************************************************)
(* IdentifyTargetStorageHeuristic: the volumes, among those that hold no   *)
(* copy yet, the loop accepts for reaching target.  The code takes the     *)
(* first in the order the query returned them, which it does not fix.      *)
(***************************************************************************)
ActualPhase(copies, phaseOf) ==
    IF copies = {} THEN "PLASMA" ELSE CombineCopies(copies, phaseOf)

\* Seeded bug: one short of the target is accepted.
SuitableByOne(actual, storagePhase, target) ==
    PhaseOrder[actual] + PhaseOrder[storagePhase] + 1 >= PhaseOrder[target]

Suitable(actual, storagePhase, target) ==
    PhaseOrder[actual] + PhaseOrder[storagePhase] >= PhaseOrder[target]
=============================================================================

--------------------------- MODULE MCPhases_proofs ---------------------------
(***************************************************************************)
(* What the walk of MCPhases shows for groups of up to MaxCopies copies of *)
(* each phase, proved for every MaxCopies: the combined phase depends only *)
(* on how many copies there are of each phase, and the properties follow   *)
(* from the arithmetic of the weighted sum.                                *)
(***************************************************************************)
EXTENDS MCPhases, Phases_proofs, FunctionTheorems

TypeInv == count \in [Phases -> Nat]

LEMMA TypeInvariance == Spec => []TypeInv
  <1>1. Init => TypeInv
    BY DEF Init, TypeInv
  <1>2. TypeInv /\ [Next]_count => TypeInv'
    BY MaxCopiesAssumption DEF TypeInv, Next, AddCopy, DropCopy
  <1> QED
    BY <1>1, <1>2, PTL DEF Spec

\* The copies of one phase in a group.
Shelf(c, p) == {<<p, i>> : i \in 1..c[p]}

LEMMA ShelfSize ==
    ASSUME NEW c \in [Phases -> Nat], NEW p \in Phases
    PROVE  IsFiniteSet(Shelf(c, p)) /\ Cardinality(Shelf(c, p)) = c[p]
  <1> DEFINE put == [i \in 1..c[p] |-> <<p, i>>]
  <1>1. put \in Bijection(1..c[p], Shelf(c, p))
    <2>1. put \in [1..c[p] -> Shelf(c, p)]
      BY DEF Shelf
    <2>2. \A i, j \in 1..c[p] : put[i] = put[j] => i = j
      OBVIOUS
    <2>3. \A x \in Shelf(c, p) : \E i \in 1..c[p] : put[i] = x
      BY DEF Shelf
    <2> QED
      BY <2>1, <2>2, <2>3, Fun_IsBij
  <1>2. ExistsBijection(1..c[p], Shelf(c, p))
    BY <1>1, Fun_ExistsBij
  <1>3. IsFiniteSet(1..c[p]) /\ Cardinality(1..c[p]) = c[p]
    BY FS_Interval
  <1> QED
    BY <1>2, <1>3, FS_Bijection

\* CombineUidPhasesHeuristic counts every copy of a group once.
LEMMA GroupCounts ==
    ASSUME NEW c \in [Phases -> Nat]
    PROVE  /\ IsFiniteSet(Group(c))
           /\ \A p \in Phases : CountIn(Group(c), PhaseIn(c), p) = c[p]
  <1>1. Group(c) = UNION {Shelf(c, p) : p \in Phases}
    BY DEF Group, Shelf
  <1>2. IsFiniteSet(Group(c))
    <2> DEFINE two == Shelf(c, "PLASMA") \cup Shelf(c, "GAS")
               three == two \cup Shelf(c, "LIQUID")
    <2>1. Group(c) = three \cup Shelf(c, "SOLID")
      BY <1>1 DEF Phases
    <2>2. \A p \in Phases : IsFiniteSet(Shelf(c, p))
      BY ShelfSize
    <2>3. IsFiniteSet(two)
      BY <2>2, FS_Union DEF Phases
    <2>4. IsFiniteSet(three)
      <3> HIDE DEF two
      <3> QED BY <2>2, <2>3, FS_Union DEF Phases
    <2> HIDE DEF three
    <2>5. IsFiniteSet(three \cup Shelf(c, "SOLID"))
      BY <2>2, <2>4, FS_Union DEF Phases
    <2> QED
      BY <2>1, <2>5
  <1>3. ASSUME NEW p \in Phases PROVE CountIn(Group(c), PhaseIn(c), p) = c[p]
    <2>1. \A q \in Phases : \A x \in Shelf(c, q) : x \in Group(c) /\ x[1] = q
      BY <1>1 DEF Shelf
    <2>2. \A x \in Group(c) : \E q \in Phases : x \in Shelf(c, q)
      BY <1>1
    <2>3. {x \in Group(c) : PhaseIn(c)[x] = p} = Shelf(c, p)
      BY <2>1, <2>2 DEF PhaseIn
    <2> QED
      BY <2>3, ShelfSize DEF CountIn
  <1> QED
    BY <1>2, <1>3

\* The weight of a group, from its counts.
WeightOf(c) == Weight(c["GAS"], c["LIQUID"], c["SOLID"])

LEMMA GroupPhaseNumber ==
    ASSUME NEW c \in [Phases -> Nat]
    PROVE  /\ WeightOf(c) \in Nat
           /\ GroupPhase(c) = Combine(c["GAS"], c["LIQUID"], c["SOLID"])
           /\ GroupPhase(c) \in Phases
           /\ PhaseOrder[GroupPhase(c)] = Level(WeightOf(c))
  <1>1. c["GAS"] \in Nat /\ c["LIQUID"] \in Nat /\ c["SOLID"] \in Nat
    BY DEF Phases
  <1>2. GroupPhase(c) = Combine(c["GAS"], c["LIQUID"], c["SOLID"])
    BY GroupCounts DEF GroupPhase, CombineCopies, Phases
  <1>3. WeightOf(c) \in Nat
    BY <1>1 DEF WeightOf, Weight
  <1>4. /\ Combine(c["GAS"], c["LIQUID"], c["SOLID"]) \in Phases
        /\ PhaseOrder[Combine(c["GAS"], c["LIQUID"], c["SOLID"])]
               = Level(Weight(c["GAS"], c["LIQUID"], c["SOLID"]))
    BY <1>1, CombineIsTotal
  <1> QED
    BY <1>2, <1>3, <1>4 DEF WeightOf
-----------------------------------------------------------------------------
LEMMA HalfOf ==
    ASSUME NEW n \in Nat
    PROVE  n \div 2 \in Nat /\ (n = 2 * (n \div 2) \/ n = 2 * (n \div 2) + 1)
  OBVIOUS

\* The two definitions of the combined phase agree on every number of copies.
LEMMA PairingAgrees ==
    ASSUME NEW gas \in Nat, NEW liquid \in Nat, NEW solid \in Nat
    PROVE  Combine(gas, liquid, solid) = PairedPhase(gas, liquid, solid)
  <1> DEFINE h == gas \div 2
             allLiquid == liquid + h
             k == allLiquid \div 2
             allSolid == solid + k
             n == Weight(gas, liquid, solid)
  <1>1. h \in Nat /\ (gas = 2 * h \/ gas = 2 * h + 1)
    BY HalfOf
  <1>2. allLiquid \in Nat
    BY <1>1
  <1>3. k \in Nat /\ (allLiquid = 2 * k \/ allLiquid = 2 * k + 1)
    <2> HIDE DEF allLiquid
    <2> QED BY <1>2, HalfOf
  <1>4. n = gas + 2 * liquid + 4 * solid
    BY DEF Weight
  <1>5. PhaseOrder[Combine(gas, liquid, solid)] = Level(n)
        /\ Combine(gas, liquid, solid) \in Phases
    BY CombineIsTotal
  <1>6. PairedPhase(gas, liquid, solid) =
            CASE allSolid > 0                                 -> "SOLID"
              [] allSolid = 0 /\ allLiquid > 0                -> "LIQUID"
              [] allSolid = 0 /\ allLiquid = 0 /\ gas > 0     -> "GAS"
              [] OTHER                                        -> "PLASMA"
    BY DEF PairedPhase
  <1>7. allLiquid = liquid + h /\ allSolid = solid + k
    OBVIOUS
  <1> HIDE DEF h, allLiquid, k, allSolid, n
  <1>8. CASE allSolid > 0
    <2>1. n >= 4
      BY <1>1, <1>3, <1>4, <1>7, <1>8
    <2>2. Level(n) = 4
      BY <2>1, <1>4 DEF Level
    <2> QED
      BY <1>5, <1>6, <1>8, <2>2, PhaseNumbers DEF Phases
  <1>9. CASE allSolid = 0 /\ allLiquid > 0
    <2>1. n \in {2, 3}
      BY <1>1, <1>3, <1>4, <1>7, <1>9
    <2>2. Level(n) = 2
      BY <2>1 DEF Level
    <2> QED
      BY <1>5, <1>6, <1>9, <2>2, PhaseNumbers DEF Phases
  <1>10. CASE allSolid = 0 /\ allLiquid = 0 /\ gas > 0
    <2>1. n = 1
      BY <1>1, <1>3, <1>4, <1>7, <1>10
    <2>2. Level(n) = 1
      BY <2>1 DEF Level
    <2> QED
      BY <1>5, <1>6, <1>10, <2>2, PhaseNumbers DEF Phases
  <1>11. CASE allSolid = 0 /\ allLiquid = 0 /\ gas = 0
    <2>1. n = 0
      BY <1>1, <1>3, <1>4, <1>7, <1>11
    <2>2. Level(n) = 0
      BY <2>1 DEF Level
    <2> QED
      BY <1>5, <1>6, <1>11, <2>2, PhaseNumbers DEF Phases
  <1> QED
    BY <1>1, <1>2, <1>3, <1>7, <1>8, <1>9, <1>10, <1>11

\* CombineUidPhasesHeuristic gives the phase that pairing up the copies gives,
\* for any number of copies.
THEOREM WeightedSumIsPairing == Spec => []CombineIsPairing
  <1>1. TypeInv => CombineIsPairing
    <2> SUFFICES ASSUME TypeInv PROVE CombineIsPairing
      OBVIOUS
    <2>1. count["GAS"] \in Nat /\ count["LIQUID"] \in Nat /\ count["SOLID"] \in Nat
      BY DEF TypeInv, Phases
    <2> QED
      BY <2>1, GroupPhaseNumber, PairingAgrees DEF CombineIsPairing, TypeInv
  <1> QED
    BY <1>1, TypeInvariance, PTL
-----------------------------------------------------------------------------
LEMMA WeightBounds ==
    ASSUME NEW c \in [Phases -> Nat], NEW p \in Phases, c[p] > 0
    PROVE  Level(WeightOf(c)) >= PhaseOrder[p]
  <1>1. c["GAS"] \in Nat /\ c["LIQUID"] \in Nat /\ c["SOLID"] \in Nat
    BY DEF Phases
  <1>2. WeightOf(c) \in Nat /\ WeightOf(c) >= PhaseOrder[p]
    BY <1>1, PhaseNumbers DEF WeightOf, Weight, Phases
  <1> QED
    BY <1>2, PhaseNumbers DEF Level

\* docs/src/heuristics/data_item_phase.rst, the phase of the OID is equal to or
\* higher than that of each copy: for any number of copies.
THEOREM GroupIsNeverBelowACopy == Spec => []NeverBelowACopy
  <1>1. TypeInv => NeverBelowACopy
    BY GroupPhaseNumber, WeightBounds, PhaseNumbers, LevelIsANumber
       DEF TypeInv, NeverBelowACopy, Below
  <1> QED
    BY <1>1, TypeInvariance, PTL

\* One more copy adds the number of its phase.
LEMMA WeightOneMore ==
    ASSUME NEW c \in [Phases -> Nat], NEW s \in Phases
    PROVE  LET d == [c EXCEPT ![s] = @ + 1]
           IN d \in [Phases -> Nat] /\ WeightOf(d) = WeightOf(c) + PhaseOrder[s]
  <1> DEFINE d == [c EXCEPT ![s] = @ + 1]
  <1>1. d \in [Phases -> Nat] /\ \A p \in Phases : d[p] = c[p] + (IF p = s THEN 1 ELSE 0)
    OBVIOUS
  <1>2. \A p \in Phases : c[p] \in Nat
    OBVIOUS
  <1> HIDE DEF d
  <1>3. WeightOf(d) = WeightOf(c) + PhaseOrder[s]
    BY <1>1, <1>2, PhaseNumbers DEF WeightOf, Weight, Phases
  <1> QED
    BY <1>1, <1>3 DEF d

\* IdentifyTargetStorageHeuristic: the volume it accepts brings the item to the
\* target, for any number of copies on any volumes.
THEOREM AcceptedVolumeSuffices == Spec => []IdentifiedVolumeReachesTarget
  <1>1. TypeInv => IdentifiedVolumeReachesTarget
    <2> SUFFICES ASSUME TypeInv, NEW s \in Phases, NEW target \in Phases,
                        Suitable(ActualPhase(Group(count), PhaseIn(count)), s, target)
                 PROVE  ~Below(GroupPhase([count EXCEPT ![s] = @ + 1]), target)
      BY DEF IdentifiedVolumeReachesTarget
    <2> DEFINE w == WeightOf(count)
               k == PhaseOrder[s]
               t == PhaseOrder[target]
               d == [count EXCEPT ![s] = @ + 1]
    <2>1. w \in Nat /\ k \in {0, 1, 2, 4} /\ t \in {0, 1, 2, 4}
      BY GroupPhaseNumber, PhaseNumbers DEF TypeInv
    <2>2. PhaseOrder[ActualPhase(Group(count), PhaseIn(count))] = Level(w)
      <3>1. CASE Group(count) = {}
        <4>1. \A p \in Phases : count[p] = 0
          <5>1. \A p \in Phases : CountIn(Group(count), PhaseIn(count), p) = 0
            BY <3>1, FS_EmptySet DEF CountIn
          <5> QED
            BY <5>1, GroupCounts DEF TypeInv
        <4>2. w = 0
          BY <4>1 DEF WeightOf, Weight, Phases
        <4> HIDE DEF w
        <4> QED
          BY <3>1, <4>2, PhaseNumbers DEF ActualPhase, Level
      <3>2. CASE Group(count) # {}
        BY <3>2, GroupPhaseNumber DEF ActualPhase, GroupPhase, TypeInv
      <3> QED
        BY <3>1, <3>2
    <2>3. Level(w) + k >= t
      BY <2>2 DEF Suitable
    <2>4. d \in [Phases -> Nat] /\ WeightOf(d) = w + k
      BY WeightOneMore DEF TypeInv
    <2>5. PhaseOrder[GroupPhase(d)] = Level(w + k)
      <3> HIDE DEF d, w, k
      <3> QED BY <2>4, GroupPhaseNumber
    <2>6. Level(w + k) >= t /\ Level(w + k) \in {0, 1, 2, 4}
      <3> HIDE DEF w, k, t
      <3>1. w + k \in Nat
        BY <2>1
      <3> QED BY <2>1, <2>3, <3>1, NumberPlusNumber, LevelIsANumber
    <2> QED
      BY <2>1, <2>5, <2>6 DEF Below
  <1> QED
    BY <1>1, TypeInvariance, PTL

\* Losing copies never raises the phase of the group, gaining some never lowers
\* it: what DeleteUidHeuristic relies on, for any number of copies.
THEOREM GroupPhaseMonotone == Spec => CombineIsMonotone
  <1>1. TypeInv /\ TypeInv' /\ [Next]_count
            => [(\A p \in Phases : count'[p] <= count[p])
                    => ~Below(GroupPhase(count), GroupPhase(count'))]_count
    <2> SUFFICES ASSUME TypeInv, TypeInv', \A p \in Phases : count'[p] <= count[p]
                 PROVE  ~Below(GroupPhase(count), GroupPhase(count'))
      OBVIOUS
    <2>1. WeightOf(count') \in Nat /\ WeightOf(count) \in Nat
      BY GroupPhaseNumber DEF TypeInv
    <2>2. WeightOf(count') <= WeightOf(count)
      BY DEF TypeInv, WeightOf, Weight, Phases
    <2>3. Level(WeightOf(count')) <= Level(WeightOf(count))
      BY <2>1, <2>2, LevelMonotone
    <2> QED
      BY <2>1, <2>3, GroupPhaseNumber, LevelIsANumber DEF TypeInv, Below
  <1> QED
    BY <1>1, TypeInvariance, PTL DEF Spec, CombineIsMonotone
=============================================================================

---------------------------- MODULE Phases_proofs ----------------------------
(***************************************************************************)
(* Facts about the resilience arithmetic, for groups of any size.          *)
(***************************************************************************)
EXTENDS Phases, FiniteSetTheorems, TLAPS

\* Every phase has its number in PHASE_ORDER.
LEMMA PhaseNumbers ==
    /\ PhaseOrder["PLASMA"] = 0
    /\ PhaseOrder["GAS"] = 1
    /\ PhaseOrder["LIQUID"] = 2
    /\ PhaseOrder["SOLID"] = 4
    /\ \A p \in Phases : PhaseOrder[p] \in {0, 1, 2, 4}
  BY DEF PhaseOrder, Phases

\* n_PHASE_ORDER inverts PHASE_ORDER wherever it is defined.
LEMMA PhaseOfNumber ==
    ASSUME NEW n \in {0, 1, 2, 4}
    PROVE  /\ PhaseWithOrder(n) \in Phases
           /\ PhaseOrder[PhaseWithOrder(n)] = n
  <1>1. \E p \in Phases : PhaseOrder[p] = n
    BY PhaseNumbers DEF Phases
  <1> QED
    BY <1>1 DEF PhaseWithOrder

\* The number the weighted sum is cut down to is always that of a phase.
LEMMA LevelIsANumber ==
    ASSUME NEW n \in Nat
    PROVE  Level(n) \in {0, 1, 2, 4}
  BY DEF Level

\* A larger sum is never cut down to a smaller number.
LEMMA LevelMonotone ==
    ASSUME NEW m \in Nat, NEW n \in Nat, m <= n
    PROVE  Level(m) <= Level(n)
  BY DEF Level

\* CombineUidPhasesHeuristic is total: n_PHASE_ORDER is only asked for numbers
\* it has, although the sum of two phases may be 3.
THEOREM CombineIsTotal ==
    ASSUME NEW gas \in Nat, NEW liquid \in Nat, NEW solid \in Nat
    PROVE  /\ Combine(gas, liquid, solid) \in Phases
           /\ PhaseOrder[Combine(gas, liquid, solid)]
                  = Level(Weight(gas, liquid, solid))
  <1>1. Weight(gas, liquid, solid) \in Nat
    BY DEF Weight
  <1>2. Level(Weight(gas, liquid, solid)) \in {0, 1, 2, 4}
    BY <1>1, LevelIsANumber
  <1> QED
    BY <1>2, PhaseOfNumber DEF Combine
-----------------------------------------------------------------------------
\* The copies on volumes of one phase are some number of copies, and a larger
\* group has no fewer of them.
LEMMA CountGrows ==
    ASSUME NEW S, NEW T, IsFiniteSet(T), S \subseteq T, NEW f, NEW p
    PROVE  /\ CountIn(S, f, p) \in Nat
           /\ CountIn(T, f, p) \in Nat
           /\ CountIn(S, f, p) <= CountIn(T, f, p)
  <1> DEFINE Sp == {c \in S : f[c] = p}
             Tp == {c \in T : f[c] = p}
  <1>1. IsFiniteSet(Tp) /\ Sp \subseteq Tp
    BY FS_Subset
  <1>2. IsFiniteSet(Sp) /\ Cardinality(Sp) <= Cardinality(Tp)
    BY <1>1, FS_Subset
  <1> QED
    BY <1>1, <1>2, FS_CardinalityType DEF CountIn

\* Losing copies never raises the combined phase of a group.
THEOREM CombineCopiesMonotone ==
    ASSUME NEW S, NEW T, IsFiniteSet(T), S \subseteq T, NEW f
    PROVE  /\ CombineCopies(S, f) \in Phases
           /\ CombineCopies(T, f) \in Phases
           /\ ~Below(CombineCopies(T, f), CombineCopies(S, f))
  <1> DEFINE s(p) == CountIn(S, f, p)
             t(p) == CountIn(T, f, p)
             ws == Weight(s("GAS"), s("LIQUID"), s("SOLID"))
             wt == Weight(t("GAS"), t("LIQUID"), t("SOLID"))
  <1>1. \A p : s(p) \in Nat /\ t(p) \in Nat /\ s(p) <= t(p)
    BY CountGrows
  <1> HIDE DEF s, t
  <1>2. ws \in Nat /\ wt \in Nat /\ ws <= wt
    BY <1>1 DEF Weight
  <1>3. Level(ws) <= Level(wt)
    BY <1>2, LevelMonotone
  <1>4. /\ CombineCopies(S, f) \in Phases
        /\ PhaseOrder[CombineCopies(S, f)] = Level(ws)
    BY <1>1, CombineIsTotal DEF CombineCopies, s
  <1>5. /\ CombineCopies(T, f) \in Phases
        /\ PhaseOrder[CombineCopies(T, f)] = Level(wt)
    BY <1>1, CombineIsTotal DEF CombineCopies, t
  <1>6. Level(ws) \in {0, 1, 2, 4} /\ Level(wt) \in {0, 1, 2, 4}
    BY <1>2, LevelIsANumber
  <1> QED
    BY <1>3, <1>4, <1>5, <1>6 DEF Below

\* One copy on its own counts for the phase of its volume.
LEMMA LoneCopy ==
    ASSUME NEW c, NEW f, f[c] \in Phases
    PROVE  /\ CombineCopies({c}, f) \in Phases
           /\ PhaseOrder[CombineCopies({c}, f)] = PhaseOrder[f[c]]
  <1> DEFINE n(p) == CountIn({c}, f, p)
  <1>1. \A p : n(p) = IF f[c] = p THEN 1 ELSE 0
    <2> SUFFICES ASSUME NEW p
                 PROVE  n(p) = IF f[c] = p THEN 1 ELSE 0
      OBVIOUS
    <2>1. CASE f[c] = p
      <3>1. {d \in {c} : f[d] = p} = {c}
        BY <2>1
      <3> QED BY <2>1, <3>1, FS_Singleton DEF CountIn
    <2>2. CASE f[c] # p
      <3>1. {d \in {c} : f[d] = p} = {}
        BY <2>2
      <3> QED BY <2>2, <3>1, FS_EmptySet DEF CountIn
    <2> QED BY <2>1, <2>2
  <1>2. Level(Weight(n("GAS"), n("LIQUID"), n("SOLID"))) = PhaseOrder[f[c]]
    <2> HIDE DEF n
    <2> QED BY <1>1, PhaseNumbers DEF Weight, Level, Phases
  <1>3. n("GAS") \in Nat /\ n("LIQUID") \in Nat /\ n("SOLID") \in Nat
    BY <1>1
  <1> QED
    BY <1>2, <1>3, CombineIsTotal DEF CombineCopies

\* docs/src/heuristics/data_item_phase.rst: the phase of a group is equal to or
\* higher than the phase of each copy in it.
THEOREM CombineNotBelowACopy ==
    ASSUME NEW T, IsFiniteSet(T), NEW c \in T, NEW f, f[c] \in Phases
    PROVE  ~Below(CombineCopies(T, f), f[c])
  <1>1. ~Below(CombineCopies(T, f), CombineCopies({c}, f))
    BY CombineCopiesMonotone
  <1> QED
    BY <1>1, LoneCopy DEF Below
-----------------------------------------------------------------------------
\* One more copy adds the number of its phase to the weighted sum.
LEMMA CountOneMore ==
    ASSUME NEW S, IsFiniteSet(S), NEW c, c \notin S, NEW f, NEW p
    PROVE  CountIn(S \cup {c}, f, p)
               = CountIn(S, f, p) + (IF f[c] = p THEN 1 ELSE 0)
  <1> DEFINE Sp == {d \in S : f[d] = p}
             Tp == {d \in S \cup {c} : f[d] = p}
  <1>1. IsFiniteSet(Sp) /\ Cardinality(Sp) \in Nat
    BY FS_Subset, FS_CardinalityType
  <1>2. CASE f[c] = p
    <2>1. Tp = Sp \cup {c} /\ c \notin Sp
      BY <1>2
    <2> QED
      BY <1>1, <1>2, <2>1, FS_AddElement DEF CountIn
  <1>3. CASE f[c] # p
    <2>1. Tp = Sp
      BY <1>3
    <2>2. Cardinality(Tp) = Cardinality(Sp) + 0
      <3> HIDE DEF Sp, Tp
      <3> QED BY <1>1, <2>1
    <2> QED
      BY <1>3, <2>2 DEF CountIn
  <1> QED
    BY <1>2, <1>3

LEMMA NumberPlusNumber ==
    ASSUME NEW w \in Nat, NEW k \in {0, 1, 2, 4}, NEW t \in {0, 1, 2, 4},
           Level(w) + k >= t
    PROVE  Level(w + k) >= t
  BY DEF Level

\* The weighted sum of a set of copies, and the phase it is cut down to.
CopiesWeight(S, f) ==
    Weight(CountIn(S, f, "GAS"), CountIn(S, f, "LIQUID"), CountIn(S, f, "SOLID"))

LEMMA PhaseOfWeight ==
    ASSUME NEW S, IsFiniteSet(S), NEW f
    PROVE  /\ CopiesWeight(S, f) \in Nat
           /\ CombineCopies(S, f) \in Phases
           /\ PhaseOrder[CombineCopies(S, f)] = Level(CopiesWeight(S, f))
  <1>1. \A p : CountIn(S, f, p) \in Nat
    BY CountGrows
  <1>2. CopiesWeight(S, f) \in Nat
    BY <1>1 DEF CopiesWeight, Weight
  <1> QED
    BY <1>1, <1>2, CombineIsTotal DEF CopiesWeight, CombineCopies

LEMMA OneMoreCopy ==
    ASSUME NEW S, IsFiniteSet(S), NEW c, c \notin S, NEW f, f[c] \in Phases
    PROVE  /\ IsFiniteSet(S \cup {c})
           /\ CopiesWeight(S \cup {c}, f) = CopiesWeight(S, f) + PhaseOrder[f[c]]
  <1> DEFINE T == S \cup {c}
             k == PhaseOrder[f[c]]
             one(p) == IF f[c] = p THEN 1 ELSE 0
  <1>1. IsFiniteSet(T)
    BY FS_AddElement
  <1>2. \A p : CountIn(S, f, p) \in Nat /\ CountIn(T, f, p) \in Nat
    BY <1>1, CountGrows
  <1>3. /\ CountIn(T, f, "GAS") = CountIn(S, f, "GAS") + one("GAS")
        /\ CountIn(T, f, "LIQUID") = CountIn(S, f, "LIQUID") + one("LIQUID")
        /\ CountIn(T, f, "SOLID") = CountIn(S, f, "SOLID") + one("SOLID")
    BY CountOneMore
  <1>4. one("GAS") + 2 * one("LIQUID") + 4 * one("SOLID") = k
    BY PhaseNumbers DEF Phases
  <1>5. one("GAS") \in Nat /\ one("LIQUID") \in Nat /\ one("SOLID") \in Nat
    OBVIOUS
  <1>6. CopiesWeight(T, f) = CopiesWeight(S, f) + k
    <2> HIDE DEF one, k, T
    <2> QED
      BY <1>2, <1>3, <1>4, <1>5 DEF CopiesWeight, Weight
  <1> QED
    BY <1>1, <1>6

\* IdentifyTargetStorageHeuristic: the volume it accepts is enough.  It adds
\* two phase numbers where CombineUidPhasesHeuristic adds up all the copies,
\* and still never accepts a volume that leaves the OID below the target.
THEOREM IdentifyIsSound ==
    ASSUME NEW S, IsFiniteSet(S), NEW c, c \notin S, NEW f,
           f[c] \in Phases, NEW target \in Phases,
           Suitable(ActualPhase(S, f), f[c], target)
    PROVE  ~Below(CombineCopies(S \cup {c}, f), target)
  <1> DEFINE T == S \cup {c}
             k == PhaseOrder[f[c]]
             w == CopiesWeight(S, f)
  <1>1. k \in {0, 1, 2, 4} /\ PhaseOrder[target] \in {0, 1, 2, 4}
    BY PhaseNumbers
  <1>2. w \in Nat /\ PhaseOrder[CombineCopies(S, f)] = Level(w)
    BY PhaseOfWeight
  <1>3. PhaseOrder[CombineCopies(T, f)] = Level(w + k)
    <2>1. IsFiniteSet(T) /\ CopiesWeight(T, f) = w + k
      BY OneMoreCopy
    <2>2. PhaseOrder[CombineCopies(T, f)] = Level(CopiesWeight(T, f))
      BY <2>1, PhaseOfWeight
    <2> QED
      BY <2>1, <2>2
  <1>4. PhaseOrder[ActualPhase(S, f)] = Level(w)
    <2>1. CASE S = {}
      <3>1. \A p : CountIn(S, f, p) = 0
        BY <2>1, FS_EmptySet DEF CountIn
      <3>2. Level(w) = 0
        BY <3>1 DEF CopiesWeight, Weight, Level
      <3> QED
        BY <2>1, <3>2, PhaseNumbers DEF ActualPhase
    <2>2. CASE S # {}
      BY <2>2, <1>2 DEF ActualPhase
    <2> QED
      BY <2>1, <2>2
  <1>5. Level(w) + k >= PhaseOrder[target]
    BY <1>4 DEF Suitable
  <1>6. Level(w + k) >= PhaseOrder[target] /\ Level(w + k) \in {0, 1, 2, 4}
    <2> HIDE DEF w, k
    <2> QED
      BY <1>1, <1>2, <1>5, NumberPlusNumber, LevelIsANumber
  <1> QED
    BY <1>1, <1>3, <1>6 DEF Below

\* Lowering one step at a time: as long as no copy counts for more than LIQUID
\* or for nothing, one copy less than a group above the goal is not below it.
LEMMA OneCopyLess ==
    ASSUME NEW T, IsFiniteSet(T), T # {}, NEW c, c \notin T, NEW f,
           \A d \in T \cup {c} : f[d] \in {"GAS", "LIQUID"},
           NEW goal \in Phases, Below(goal, CombineCopies(T \cup {c}, f))
    PROVE  ~Below(CombineCopies(T, f), goal)
  <1> DEFINE k == PhaseOrder[f[c]]
             w == CopiesWeight(T, f)
             g == PhaseOrder[goal]
  <1>1. w \in Nat /\ PhaseOrder[CombineCopies(T, f)] = Level(w)
    BY PhaseOfWeight
  <1>2. PhaseOrder[CombineCopies(T \cup {c}, f)] = Level(w + k)
    <2> DEFINE S == T \cup {c}
    <2>1. IsFiniteSet(S) /\ CopiesWeight(S, f) = w + k
      BY OneMoreCopy DEF Phases
    <2>2. PhaseOrder[CombineCopies(S, f)] = Level(CopiesWeight(S, f))
      BY <2>1, PhaseOfWeight
    <2> QED
      BY <2>1, <2>2
  <1>3. k \in {1, 2} /\ g \in {0, 1, 2, 4}
    BY PhaseNumbers
  <1>4. Level(w) >= 1
    <2>1. PICK d \in T : TRUE
      OBVIOUS
    <2>2. f[d] \in Phases /\ PhaseOrder[f[d]] >= 1
      BY PhaseNumbers DEF Phases
    <2>3. ~Below(CombineCopies(T, f), f[d])
      BY <2>2, CombineNotBelowACopy
    <2>4. Level(w) \in {0, 1, 2, 4} /\ PhaseOrder[f[d]] \in {0, 1, 2, 4}
      BY <1>1, <2>2, LevelIsANumber, PhaseNumbers
    <2> QED
      BY <1>1, <2>2, <2>3, <2>4 DEF Below
  <1>5. g < Level(w + k)
    BY <1>2 DEF Below
  <1>6. ~(Level(w) < g)
    <2> HIDE DEF w, k, g
    <2> QED
      BY <1>1, <1>3, <1>4, <1>5 DEF Level
  <1> QED
    BY <1>1, <1>6 DEF Below
=============================================================================

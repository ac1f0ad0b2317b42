-------------------------- MODULE MCPhaseHeuristics --------------------------
(***************************************************************************)
(* Small instances of PhaseHeuristics: an item with two stored instances   *)
(* that can be lowered, and one with one instance that can be raised.      *)
(***************************************************************************)
EXTENDS PhaseHeuristics

CONSTANTS a1, a2,          \* instances of an item that need not be more than GAS
          b1, b2,          \* instances of an item that should be LIQUID
          s1, s2, s3, s4,  \* volumes: LIQUID, LIQUID, GAS and SOLID
          e1

MCOidOf == [u \in Items |-> IF u \in {a1, a2} THEN a1 ELSE b1]
MCNameOf == [o \in Items |-> o]
MCStorageOf == [u \in Items |-> CASE u = a1 -> s1 [] u = b1 -> s3 [] OTHER -> s2]
MCStoragePhase == [s \in Storages |-> CASE s = s3 -> "GAS" [] s = s4 -> "SOLID"
                                        [] OTHER -> "LIQUID"]
MCTarget == [u \in Items |-> IF u \in {a1, a2} THEN "GAS" ELSE "LIQUID"]
MCNothingInside == [u \in Items |-> {}]
MCNoParent == [u \in Items |-> NoItem]

\* The raised item is stored on the SOLID volume, as _setup_storage makes one.
MCSolidCopy == [MCStorageOf EXCEPT ![b2] = s4]

\* An instance on the SOLID volume and one on a LIQUID one.
MCSolidAndLiquid == [u \in Items |-> IF u = a1 THEN s4 ELSE s2]
=============================================================================

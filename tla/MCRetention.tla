----------------------------- MODULE MCRetention -----------------------------
(***************************************************************************)
(* Small instances of Retention: two instances of one item.                *)
(***************************************************************************)
EXTENDS Retention

CONSTANTS a1, a2,       \* instances of item a
          s1, s2,       \* LIQUID volumes
          e1, e2        \* engines

\* The OID is the first UID, as init_data_item makes it, and names the item.
MCOidOf == [u \in Items |-> a1]
MCNameOf == [o \in Items |-> o]

\* On a volume each, or under different paths of one volume.
MCStorageOf == [u \in Items |-> IF u = a1 THEN s1 ELSE s2]
MCOneVolume == [u \in Items |-> s1]

MCStoragePhase == [s \in Storages |-> "LIQUID"]
MCTarget == [u \in Items |-> "LIQUID"]
MCNothingInside == [u \in Items |-> {}]
MCNoParent == [u \in Items |-> NoItem]
=============================================================================

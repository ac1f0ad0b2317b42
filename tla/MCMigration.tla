----------------------------- MODULE MCMigration -----------------------------
(***************************************************************************)
(* Small instances of Migration: items registered on one storage and       *)
(* copied to another.                                                      *)
(***************************************************************************)
EXTENDS Migration

CONSTANTS a1, a2, a3, b1,   \* rows
          oa, ob,           \* OIDs
          disk, tape,       \* storages
          c1, c2, q1, q2    \* requests and pollers

\* a1 is the original of oa and b1 that of ob, both on disk.
MCOriginalPlace == [u \in Originals |-> <<IF u = b1 THEN ob ELSE oa, disk>>]

\* The items have names of their own.
MCNameOf == [o \in Oids |-> o]
=============================================================================

------------------------------ MODULE MCIngest ------------------------------
(***************************************************************************)
(* One volume at one location, set up by two managers on one rclone       *)
(* server, while two clients register an item on it.                      *)
(***************************************************************************)
EXTENDS Ingest

CONSTANTS perth, local,     \* a location and a volume there
          r1,               \* an rclone server
          m1, m2,           \* storage managers
          c1, c2,           \* clients
          n1                \* an item

MCLocationOf == [v \in Volumes |-> perth]
=============================================================================

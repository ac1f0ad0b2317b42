---------------------------- MODULE MCOutboxRelay ----------------------------
(***************************************************************************)
(* Small instances of OutboxRelay.                                         *)
(***************************************************************************)
EXTENDS OutboxRelay

CONSTANTS ev1, ev2, ev3,    \* events
          p1, p2,           \* producers
          r1, r2,           \* relays
          x0                \* the exchange
=============================================================================

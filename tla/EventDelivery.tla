---------------------------- MODULE EventDelivery ----------------------------
(***************************************************************************)
(* What the transactional outbox promises about an event: it exists from   *)
(* the commit of the transaction that raised it, only an event that exists *)
(* and is not settled is handed to the exchange, possibly more than once,  *)
(* and it is settled as done only after it was handed over.                *)
(***************************************************************************)
CONSTANT Events

VARIABLES
    stage,      \* "none", "raised", "done" or "abandoned"
    delivered   \* events the exchange has accepted at least once

vars == <<stage, delivered>>

TypeOK == /\ stage \in [Events -> {"none", "raised", "done", "abandoned"}]
          /\ delivered \in SUBSET Events

Init == /\ stage = [e \in Events |-> "none"]
        /\ delivered = {}

Raise(e) == /\ stage[e] = "none"
            /\ stage' = [stage EXCEPT ![e] = "raised"]
            /\ UNCHANGED delivered

Deliver(e) == /\ stage[e] = "raised"
              /\ delivered' = delivered \cup {e}
              /\ UNCHANGED stage

Finish(e) == /\ stage[e] = "raised"
             /\ e \in delivered
             /\ stage' = [stage EXCEPT ![e] = "done"]
             /\ UNCHANGED delivered

Abandon(e) == /\ stage[e] = "raised"
              /\ stage' = [stage EXCEPT ![e] = "abandoned"]
              /\ UNCHANGED delivered

Next == \E e \in Events : Raise(e) \/ Deliver(e) \/ Finish(e) \/ Abandon(e)

Spec == Init /\ [][Next]_vars
=============================================================================

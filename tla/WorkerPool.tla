----------------------------- MODULE WorkerPool -----------------------------
(***************************************************************************)
(* What the worker pool promises the requests of the gateway               *)
(* (internal/gateway/workerpool.go), whatever handler uses it: at most     *)
(* PoolSize of them hold a slot, one is turned away (HTTP 429) only while  *)
(* all slots are taken, and a slot is given back once.                     *)
(***************************************************************************)
EXTENDS Naturals, FiniteSets

CONSTANTS
    Requests,       \* the requests to the gateway
    PoolSize        \* WORKER_POOL_SIZE (10)

VARIABLE pool       \* per request: where it stands

PoolPhases == {"new", "holding", "refused", "returned"}
Holding == {r \in Requests : pool[r] = "holding"}

Init == pool = [r \in Requests |-> "new"]

Acquire(r) ==
    /\ pool[r] = "new"
    /\ Cardinality(Holding) < PoolSize
    /\ pool' = [pool EXCEPT ![r] = "holding"]

Refuse(r) ==
    /\ pool[r] = "new"
    /\ Cardinality(Holding) = PoolSize
    /\ pool' = [pool EXCEPT ![r] = "refused"]

Release(r) ==
    /\ pool[r] = "holding"
    /\ pool' = [pool EXCEPT ![r] = "returned"]

Next == \E r \in Requests : Acquire(r) \/ Refuse(r) \/ Release(r)

Spec == Init /\ [][Next]_pool
=============================================================================

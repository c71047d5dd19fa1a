---------------------------- MODULE MCEtcdLocker ---------------------------
(* Two goroutines of two replicas, the operator's process and one lock. *)
EXTENDS EtcdLocker, TLC

CONSTANTS c1, c2, op, r1, r2, r3, kA

MCReplicaOf == (c1 :> r1) @@ (c2 :> r2) @@ (op :> r3)
MCPrefixOf  == [k \in Keys |-> "lock"]
MCRequests  == UNION {LockRequests(k) : k \in Keys}
=============================================================================

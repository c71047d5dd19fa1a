----------------------------- MODULE MCStorage -----------------------------
(* The storage of a daemon: payment_channel_storage_type selects the etcd  *)
(* client or the memory storage, and the keys of the typed storages are    *)
(* looked at by themselves.  The three share no step, so a behaviour is    *)
(* about one of them.                                                      *)
EXTENDS EtcdClient, MemoryStorage, TypedStorage, TLC

CONSTANTS c1, c2, c3, r1, r2, kA, kB,   \* goroutines, replicas, keys
          h1, h2, h3, chA               \* requests and a channel

VARIABLE part    \* "etcd", "memory" or "keys"

\* Two goroutines of one replica and one of another; so for the requests.
MCReplicaOf == (c1 :> r1) @@ (c2 :> r1) @@ (c3 :> r2)
MCProcessOf == (h1 :> r1) @@ (h2 :> r1) @@ (h3 :> r2)
MCPrefixOf  == [k \in Keys |-> "lock"]

Operations(kinds, keys) == [kind : kinds, key : keys, old : Values, new : Values]

\* etcd: what the lock's callers ask for, on one key, and a list.
EtcdRequests ==
  {q \in Operations({"get", "list", "putIfAbsent", "cas", "delete"}, {kA}) :
     IF q.kind = "cas" THEN q.old # q.new ELSE q.old = "locked" /\ q.new = "locked"}

\* Memory: every operation, on two keys.
MemRequests ==
  {q \in Operations({"get", "list", "put", "putIfAbsent", "cas", "delete"}, {kA, kB}) :
     q.old = "locked" /\ (q.kind \in {"get", "list", "delete"} => q.new = "locked")}

MCRequests == EtcdRequests \cup MemRequests

Asked(goroutines, requests) ==
  \A c \in Calls : call'[c] # NoRequest => c \in goroutines /\ call'[c] \in requests

----------------------------------------------------------------------------
etcdOnly == <<st, mutex, late, given, faults>>
memOnly  == <<at, writer, readers>>
vars     == <<part, data, call, ret, etcdOnly, memOnly, typedVars>>

Init == /\ part \in {"etcd", "memory", "keys"}
        /\ EtcdInit /\ MemInit /\ TypedInit

EtcdPart == /\ part = "etcd"
            /\ EtcdNext /\ Asked(Calls, EtcdRequests)
            /\ UNCHANGED <<part, memOnly, typedVars>>

MemPart == /\ part = "memory"
           /\ MemNext /\ Asked({c1, c2}, MemRequests)
           /\ UNCHANGED <<part, etcdOnly, typedVars>>

KeysPart == /\ part = "keys"
            /\ TypedNext
            /\ UNCHANGED <<part, data, call, ret, etcdOnly, memOnly>>

Next == EtcdPart \/ MemPart \/ KeysPart
Spec == Init /\ [][Next]_vars
=============================================================================

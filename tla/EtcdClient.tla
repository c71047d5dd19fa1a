----------------------------- MODULE EtcdClient ----------------------------
(***************************************************************************)
(* The etcd client (etcddb/etcddb_client.go) as the daemon's atomic        *)
(* storage.  Get, GetByKeyPrefix, Put, Delete and CompareAndSwap are one   *)
(* request to etcd each, which etcd executes atomically.  PutIfAbsent is a *)
(* session, the lock of an etcd mutex, a Get, a Put and the unlock of the  *)
(* mutex.  The session and the unlock have no deadline and wait for etcd,  *)
(* the others share one, which is far shorter than a lease; a request that *)
(* fails may have been executed, or may be executed later.                 *)
(***************************************************************************)
EXTENDS StorageState

CONSTANTS
  Replicas,   \* daemon processes
  ReplicaOf,  \* ReplicaOf[c]: the process of goroutine c
  Nobody,     \* owner of a free mutex
  Orphan,     \* owner of a mutex whose process has ended, until its lease expires
  MaxFaults,  \* bound: failed requests and crashes in a behaviour
  MaxLate     \* bound: failed writes that are executed later

ASSUME EtcdAssumption ==
  /\ ReplicaOf \in [Calls -> Replicas]
  /\ Calls \cap Replicas = {}
  /\ {Nobody, Orphan} \cap (Calls \cup Replicas) = {} /\ Nobody # Orphan
  /\ MaxFaults \in Nat /\ MaxLate \in Nat

VARIABLES
  st,      \* st[c]: the next request to etcd of an operation
  mutex,   \* mutex[k]: who owns the mutex of key k: a goroutine, a process
           \* that keeps the lease of a forgotten session alive, or nobody
  late,    \* writes that were given up and are still under way
  given,   \* failed writes left under way so far
  faults   \* failures so far

etcdVars == <<data, call, ret, st, mutex, late, given, faults>>

\* What is executed for an operation that writes: PutIfAbsent's write is a Put.
WriteOf(q) == IF q.kind = "putIfAbsent" THEN [q EXCEPT !.kind = "put"] ELSE q

EtcdTypeOK ==
  /\ Storage!StorageTypeOK
  /\ st     \in [Calls -> {"idle", "request", "session", "lock", "get", "put", "unlock", "return"}]
  /\ mutex  \in [Keys -> Calls \cup Replicas \cup {Nobody, Orphan}]
  /\ late   \subseteq Storage!AllRequests
  /\ given  \in 0 .. MaxLate
  /\ faults \in 0 .. MaxFaults

EtcdInit ==
  /\ Storage!StorageInit
  /\ st     = [c \in Calls |-> "idle"]
  /\ mutex  = [k \in Keys |-> Nobody]
  /\ late   = {}
  /\ given  = 0
  /\ faults = 0

Goto(c, s) == st' = [st EXCEPT ![c] = s]
Decide(c, r) == ret' = [ret EXCEPT ![c] = r]
Key(c) == call[c].key

Fault == faults < MaxFaults /\ faults' = faults + 1

\* A failed write was executed, was not, or is still under way.
FailedWrite(w) ==
  \/ data' = Storage!Effect(w, data) /\ UNCHANGED <<late, given>>
  \/ UNCHANGED <<data, late, given>>
  \/ /\ given < MaxLate
     /\ given' = given + 1 /\ late' = late \cup {w}
     /\ UNCHANGED data

Begin(c, q) ==
  /\ st[c] = "idle"
  /\ Storage!Invoke(c, q)
  /\ Goto(c, IF q.kind = "putIfAbsent" THEN "session" ELSE "request")
  /\ UNCHANGED <<mutex, late, given, faults>>

\* Get, GetByKeyPrefix, Put, Delete, CompareAndSwap (Transaction).
EtcdRequest(c) ==
  /\ st[c] = "request"
  /\ Goto(c, "return")
  /\ \/ Storage!Perform(c) /\ UNCHANGED <<late, given, faults>>
     \/ /\ Fault /\ Decide(c, Storage!Error)
        /\ IF Storage!IsRead(call[c]) THEN UNCHANGED <<data, late, given>>
                                      ELSE FailedWrite(call[c])
        /\ UNCHANGED call
  /\ UNCHANGED mutex

----------------------------------------------------------------------------
(* PutIfAbsent. *)

\* concurrency.NewSession: a lease of its own, never closed.
NewSession(c) ==
  /\ st[c] = "session"
  /\ \/ Goto(c, "lock") /\ UNCHANGED <<ret, faults>>
     \/ Fault /\ Decide(c, Storage!Error) /\ Goto(c, "return")
  /\ UNCHANGED <<data, call, mutex, late, given>>

\* mu.Lock waits for the mutex until the deadline.  If the request that takes
\* the mutex fails it may have been executed: the mutex then belongs to the
\* forgotten session.
LockMutexShared(c) ==    \* mutant: the mutex of another key is locked
  /\ st[c] = "lock"
  /\ Goto(c, "get")
  /\ UNCHANGED <<data, call, ret, mutex, late, given, faults>>
LockMutexBlocks(c) ==    \* mutant: mu.Lock without the deadline
  /\ st[c] = "lock"
  /\ \/ mutex[Key(c)] # Nobody /\ UNCHANGED <<mutex, st, ret, faults>>
     \/ /\ mutex[Key(c)] = Nobody
        /\ mutex' = [mutex EXCEPT ![Key(c)] = c] /\ Goto(c, "get") /\ UNCHANGED <<ret, faults>>
     \/ /\ mutex[Key(c)] = Nobody
        /\ mutex' = [mutex EXCEPT ![Key(c)] = ReplicaOf[c]]
        /\ Fault /\ Decide(c, Storage!Error) /\ Goto(c, "return")
  /\ UNCHANGED <<data, call, late, given>>
LockMutex(c) ==
  /\ st[c] = "lock"
  /\ \/ /\ mutex[Key(c)] = Nobody
        /\ mutex' = [mutex EXCEPT ![Key(c)] = c]
        /\ Goto(c, "get")
        /\ UNCHANGED <<ret, faults>>
     \/ /\ mutex[Key(c)] = Nobody
        /\ mutex' = [mutex EXCEPT ![Key(c)] = ReplicaOf[c]]
        /\ Fault /\ Decide(c, Storage!Error) /\ Goto(c, "return")
     \/ /\ mutex[Key(c)] # Nobody
        /\ Decide(c, Storage!Error) /\ Goto(c, "return")
        /\ UNCHANGED <<mutex, faults>>
  /\ UNCHANGED <<data, call, late, given>>

\* The key is present, and PutIfAbsent will return false, or absent.
GetUnderMutexReleases(c) ==   \* mutant: the mutex is given back before the Put
  /\ st[c] = "get"
  /\ data[Key(c)] = Absent /\ Goto(c, "put")
  /\ mutex' = [mutex EXCEPT ![Key(c)] = Nobody]
  /\ UNCHANGED <<data, call, ret, late, given, faults>>
GetUnderMutex(c) ==
  /\ st[c] = "get"
  /\ \/ data[Key(c)] # Absent /\ Decide(c, Storage!Reply(call[c], data)) /\ Goto(c, "unlock")
                              /\ UNCHANGED faults
     \/ data[Key(c)] = Absent /\ Goto(c, "put") /\ UNCHANGED <<ret, faults>>
     \/ Fault /\ Decide(c, Storage!Error) /\ Goto(c, "unlock")
  /\ UNCHANGED <<data, call, mutex, late, given>>

PutUnderMutexSilent(c) ==     \* mutant: ok is not set after the Put
  /\ st[c] = "put"
  /\ Goto(c, "unlock")
  /\ data' = Storage!Effect(WriteOf(call[c]), data)
  /\ Decide(c, [ok |-> FALSE, err |-> FALSE, found |-> {}])
  /\ UNCHANGED <<call, mutex, late, given, faults>>
PutUnderMutex(c) ==
  /\ st[c] = "put"
  /\ Goto(c, "unlock")
  /\ \/ /\ data' = Storage!Effect(WriteOf(call[c]), data)
        /\ Decide(c, [ok |-> TRUE, err |-> FALSE, found |-> {}])
        /\ UNCHANGED <<late, given, faults>>
     \/ /\ Fault /\ Decide(c, Storage!Error)
        /\ FailedWrite(WriteOf(call[c]))
  /\ UNCHANGED <<call, mutex>>

\* The deferred mu.Unlock, whose error nobody looks at.
UnlockMutex(c) ==
  /\ st[c] = "unlock"
  /\ Goto(c, "return")
  /\ \/ mutex' = [mutex EXCEPT ![Key(c)] = Nobody] /\ UNCHANGED faults
     \/ mutex' = [mutex EXCEPT ![Key(c)] = ReplicaOf[c]] /\ Fault
  /\ UNCHANGED <<data, call, ret, late, given>>

----------------------------------------------------------------------------
EtcdReturn(c) ==
  /\ st[c] = "return"
  /\ Storage!Return(c)
  /\ Goto(c, "idle")
  /\ UNCHANGED <<mutex, late, given, faults>>

\* A write that was given up reaches etcd.
LateWrite ==
  /\ \E w \in late : /\ data' = Storage!Effect(w, data)
                     /\ late' = late \ {w}
  /\ UNCHANGED <<call, ret, st, mutex, given, faults>>

\* A process ends.  Its leases are no longer kept alive.
ProcessEnds(r) ==
  LET dead == {c \in Calls : ReplicaOf[c] = r}
  IN /\ Storage!Abandon(dead)
     /\ st'    = [c \in Calls |-> IF c \in dead THEN "idle" ELSE st[c]]
     /\ mutex' = [k \in Keys |-> IF mutex[k] \in dead \cup {r} THEN Orphan ELSE mutex[k]]
     /\ Fault
     /\ UNCHANGED <<late, given>>

LeaseExpires(k) ==
  /\ mutex[k] = Orphan
  /\ mutex' = [mutex EXCEPT ![k] = Nobody]
  /\ UNCHANGED <<data, call, ret, st, late, given, faults>>

OperationStep(c) ==
  \/ EtcdRequest(c) \/ NewSession(c) \/ LockMutex(c) \/ GetUnderMutex(c)
  \/ PutUnderMutex(c) \/ UnlockMutex(c)

EtcdEnvironment ==
  \/ LateWrite
  \/ \E r \in Replicas : ProcessEnds(r)
  \/ \E k \in Keys : LeaseExpires(k)

EtcdNext == \/ \E c \in Calls : \/ \E q \in Requests : Begin(c, q)
                                \/ OperationStep(c) \/ EtcdReturn(c)
            \/ EtcdEnvironment

EtcdSpec == EtcdInit /\ [][EtcdNext]_etcdVars

----------------------------------------------------------------------------
\* PutIfAbsent "writes value if and only if key is absent in storage"
\* (atomic_storage.go:17): between its Get and its Put no other goroutine, on
\* any replica, makes the key present.
WritesOnlyIfAbsent == \A c \in Calls : st[c] = "put" => data[Key(c)] = Absent

\* A mutex has one owner, and a PutIfAbsent that reads or writes is it.
OwnsMutex == \A c \in Calls : st[c] \in {"get", "put", "unlock"} => mutex[Key(c)] = c

\* An operation has its outcome exactly when it is done with the key.
Decided == \A c \in Calls :
  /\ st[c] = "idle" <=> call[c] = NoRequest
  /\ ret[c] # NoReply <=> st[c] \in {"unlock", "return"}
  /\ st[c] = "request" => call[c].kind # "putIfAbsent"
  /\ st[c] \in {"session", "lock", "get", "put", "unlock"} => call[c].kind = "putIfAbsent"

\* Only a write that was given up is under way.
LateIsGiven == given = 0 => late = {}

EtcdInv == EtcdTypeOK /\ Decided /\ OwnsMutex /\ LateIsGiven /\ WritesOnlyIfAbsent
=============================================================================

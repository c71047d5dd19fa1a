---------------------------- MODULE StorageState ---------------------------
(***************************************************************************)
(* What the two implementations of the atomic storage, EtcdClient and      *)
(* MemoryStorage, share: the values and the operations in progress.        *)
(***************************************************************************)
EXTENDS Naturals, FiniteSets

CONSTANTS Keys, PrefixOf, Values, Absent, Calls, Requests, NoRequest, NoReply

VARIABLES
  data,   \* data[k]: the value of key k
  call,   \* call[c]: the operation goroutine c is in
  ret     \* ret[c]: its outcome, once decided

Storage == INSTANCE AtomicStorage

ASSUME StorageAssumption == Storage!WellFormed

\* A storage is the atomic storage its callers take it for: the map under its
\* read-write lock (memory_storage.go), and the etcd client, whatever fails or
\* crashes, with the operations the lock uses: no plain Put on such a key
\* (atomic_storage.go:7 "storage with atomic operations").
ImplementsAtomicStorage == Storage!StorageSpec
=============================================================================

---------------------------- MODULE MemoryStorage --------------------------
(***************************************************************************)
(* The in-memory storage (escrow/memory_storage.go) of a daemon that runs  *)
(* as a single replica: a map under a read-write lock.  A map access is a  *)
(* step of its own, so a conditional write is a read and then a write.     *)
(***************************************************************************)
EXTENDS StorageState

CONSTANT NoWriter     \* no goroutine has the write lock

VARIABLES
  at,        \* at[c]: where goroutine c is in its operation
  writer,    \* RWMutex: the goroutine that has the write lock
  readers    \* RWMutex: the goroutines that have a read lock

ASSUME MemoryAssumption == NoWriter \notin Calls

memVars == <<data, call, ret, at, writer, readers>>

MemInit == /\ Storage!StorageInit
           /\ at = [c \in Calls |-> "idle"]
           /\ writer = NoWriter
           /\ readers = {}

Move(c, s) == at' = [at EXCEPT ![c] = s]
Conditional(q) == q.kind \in {"putIfAbsent", "cas"}

MemBegin(c, q) ==
  /\ at[c] = "idle"
  /\ Storage!Invoke(c, q)
  /\ Move(c, "lock")
  /\ UNCHANGED <<writer, readers>>

\* mutex.RLock for Get and GetByKeyPrefix, mutex.Lock for the writes.
LockReadOnly(c) ==     \* mutant: PutIfAbsent and CompareAndSwap take a read lock
  /\ at[c] = "lock" /\ writer = NoWriter
  /\ \/ /\ Storage!IsRead(call[c]) \/ Conditional(call[c])
        /\ readers' = readers \cup {c} /\ UNCHANGED writer
     \/ /\ ~(Storage!IsRead(call[c]) \/ Conditional(call[c])) /\ readers = {}
        /\ writer' = c /\ UNCHANGED readers
  /\ Move(c, IF Storage!IsRead(call[c]) \/ Conditional(call[c]) THEN "read" ELSE "write")
  /\ UNCHANGED <<data, call, ret>>
LockStorage(c) ==
  /\ at[c] = "lock" /\ writer = NoWriter
  /\ \/ Storage!IsRead(call[c]) /\ readers' = readers \cup {c} /\ UNCHANGED writer
     \/ ~Storage!IsRead(call[c]) /\ readers = {} /\ writer' = c /\ UNCHANGED readers
  /\ Move(c, IF Storage!IsRead(call[c]) \/ Conditional(call[c]) THEN "read" ELSE "write")
  /\ UNCHANGED <<data, call, ret>>

\* unsafeGet, or the loop of GetByKeyPrefix: a read is answered, and so is a
\* conditional write whose condition does not hold.
UnsafeGet(c) ==
  /\ at[c] = "read"
  /\ \/ /\ Conditional(call[c]) /\ Storage!Applies(call[c], data)
        /\ Move(c, "write") /\ UNCHANGED ret
     \/ /\ ~(Conditional(call[c]) /\ Storage!Applies(call[c], data))
        /\ ret' = [ret EXCEPT ![c] = Storage!Reply(call[c], data)]
        /\ Move(c, "unlock")
  /\ UNCHANGED <<data, call, writer, readers>>

\* unsafePut, or delete.
UnsafePut(c) ==
  /\ at[c] = "write"
  /\ data' = [data EXCEPT ![call[c].key] = Storage!Written(call[c])]
  /\ ret'  = [ret EXCEPT ![c] = [ok |-> TRUE, err |-> FALSE, found |-> {}]]
  /\ Move(c, "unlock")
  /\ UNCHANGED <<call, writer, readers>>

\* The deferred Unlock or RUnlock, and the return.
UnlockStorage(c) ==
  /\ at[c] = "unlock"
  /\ Storage!Return(c)
  /\ readers' = readers \ {c}
  /\ writer' = IF writer = c THEN NoWriter ELSE writer
  /\ Move(c, "idle")

MemStep(c) == LockStorage(c) \/ UnsafeGet(c) \/ UnsafePut(c) \/ UnlockStorage(c)

MemNext == \E c \in Calls : (\E q \in Requests : MemBegin(c, q)) \/ MemStep(c)

MemSpec == MemInit /\ [][MemNext]_memVars

----------------------------------------------------------------------------
\* Go ends the process when a map is read or written during a write: nobody
\* else is at the map while a goroutine writes, and readers only read.
NoConcurrentMapAccess ==
  \A c, d \in Calls : at[c] = "write" /\ at[d] \in {"read", "write"} => c = d

----------------------------------------------------------------------------
(* The inductive invariant behind it. *)

MemTypeOK ==
  /\ Storage!StorageTypeOK
  /\ at      \in [Calls -> {"idle", "lock", "read", "write", "unlock"}]
  /\ writer  \in Calls \cup {NoWriter}
  /\ readers \subseteq Calls

\* Who is between its lock and its unlock has the lock its operation takes,
\* and nobody else has any; the write lock excludes every other.
Inside(c) == at[c] \in {"read", "write", "unlock"}
HasItsLock ==
  /\ \A c \in Calls : /\ c \in readers <=> Inside(c) /\ Storage!IsRead(call[c])
                      /\ writer = c <=> Inside(c) /\ ~Storage!IsRead(call[c])
  /\ writer # NoWriter => readers = {}

\* An operation has its outcome exactly when it is done with the map, and what
\* is about to be written still may be.
MemDecided ==
  \A c \in Calls :
    /\ at[c] = "idle" <=> call[c] = NoRequest
    /\ ret[c] # NoReply <=> at[c] = "unlock"
    /\ at[c] = "read"  => Storage!IsRead(call[c]) \/ Conditional(call[c])
    /\ at[c] = "write" => ~Storage!IsRead(call[c]) /\ Storage!Applies(call[c], data)

MemInv == MemTypeOK /\ HasItsLock /\ MemDecided /\ NoConcurrentMapAccess
=============================================================================

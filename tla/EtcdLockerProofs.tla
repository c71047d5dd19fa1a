-------------------------- MODULE EtcdLockerProofs -------------------------
(***************************************************************************)
(* The channel lock over etcd is a lock, request by request: whatever      *)
(* fails, crashes, is executed late or unlocked by the operator, for any   *)
(* number of goroutines, replicas and locks.                               *)
(***************************************************************************)
EXTENDS EtcdLocker, StorageProofs

USE DEF Goto, Decide, Key, Fault, At, Go

\* What one lock promises.
KeyGood(k) ==
  /\ \A c \in Calls : OwnsLock(c, k) => data[k] = "locked" /\ ~Overwriting(k) /\ ~Doomed(k)
  /\ \A c, d \in Calls : OwnsLock(c, k) /\ OwnsLock(d, k) => c = d
  /\ Doomed(k) => data[k] = "locked" /\ ~Overwriting(k)
  /\ Overwriting(k) => data[k] # "unlocked"
  /\ ~(LateUnlock(k) /\ LateDelete(k))
  /\ Operating(k) => ~LateUnlock(k) /\ ~LateDelete(k)

\* The invariant is about one lock at a time.
LEMMA GoodKeys == (Guarded /\ OneOwner) <=> \A k \in Keys : KeyGood(k)
  BY DEF Guarded, OneOwner, KeyGood

\* A step that leaves a lock's value alone and adds nobody to it is no threat.
Calm(k) ==
  /\ data'[k] = data[k]
  /\ \A c \in Calls : OwnsLock(c, k)' => OwnsLock(c, k)
  /\ Overwriting(k)' => Overwriting(k)
  /\ LateUnlock(k)' => LateUnlock(k)
  /\ LateDelete(k)' => LateDelete(k)
  /\ Operating(k)' => Operating(k)
LEMMA CalmStep == ASSUME NEW k \in Keys, KeyGood(k), Calm(k) PROVE KeyGood(k)'
  BY DEF KeyGood, Calm, Doomed

----------------------------------------------------------------------------
(* The requests of the lock. *)

\* The lock's operations are among those the storage is used with.
LEMMA LockRequestTypes ==
  ASSUME NEW k \in Keys
  PROVE  /\ GetOf(k) \in Requests /\ PutOf(k) \in Requests /\ DeleteOf(k) \in Requests
         /\ SwapOf(k, "unlocked", "locked") \in Requests
         /\ SwapOf(k, "locked", "unlocked") \in Requests
<1>1. LockRequests(k) \subseteq Requests
  BY LockRequestsAssumption
<1> QED BY <1>1 DEF LockRequests

\* No two of them are the same, and a late write of one is none of another.
LEMMA DifferentWrites ==
  ASSUME NEW k \in Keys, NEW j \in Keys
  PROVE  /\ SwapOf(k, "locked", "unlocked") # SwapOf(j, "unlocked", "locked")
         /\ SwapOf(k, "locked", "unlocked") # DeleteOf(j)
         /\ SwapOf(k, "locked", "unlocked") # WriteOf(PutOf(j))
         /\ DeleteOf(k) # SwapOf(j, "unlocked", "locked")
         /\ DeleteOf(k) # WriteOf(PutOf(j))
         /\ SwapOf(k, "locked", "unlocked") = SwapOf(j, "locked", "unlocked") => k = j
         /\ DeleteOf(k) = DeleteOf(j) => k = j
  BY DEF SwapOf, DeleteOf, WriteOf, PutOf

\* What they do to the storage, and what is answered.
LEMMA LockEffects ==
  ASSUME NEW k \in Keys
  PROVE  /\ \A o, n : Storage!Effect(SwapOf(k, o, n), data) =
                        IF data[k] = o THEN [data EXCEPT ![k] = n] ELSE data
         /\ \A o, n : Storage!Reply(SwapOf(k, o, n), data).ok <=> data[k] = o
         /\ Storage!Effect(DeleteOf(k), data) = [data EXCEPT ![k] = Absent]
         /\ Storage!Effect(WriteOf(PutOf(k)), data) = [data EXCEPT ![k] = "locked"]
         /\ Storage!Effect(GetOf(k), data) = data
         /\ Storage!Reply(PutOf(k), data).ok <=> data[k] = Absent
         /\ ~Storage!Error.ok
<1>1. ASSUME NEW o, NEW n
      PROVE /\ Storage!Effect(SwapOf(k, o, n), data) = IF data[k] = o THEN [data EXCEPT ![k] = n] ELSE data
            /\ Storage!Reply(SwapOf(k, o, n), data).ok <=> data[k] = o
  BY DEF SwapOf, Storage!Effect, Storage!IsRead, Storage!Applies, Storage!Written, Storage!Reply
<1>2. Storage!Effect(DeleteOf(k), data) = [data EXCEPT ![k] = Absent]
  BY DEF DeleteOf, Storage!Effect, Storage!IsRead, Storage!Applies, Storage!Written
<1>3. Storage!Effect(WriteOf(PutOf(k)), data) = [data EXCEPT ![k] = "locked"]
  <2>1. WriteOf(PutOf(k)) = [kind |-> "put", key |-> k, old |-> "locked", new |-> "locked"]
    BY DEF PutOf, WriteOf
  <2> QED BY <2>1 DEF Storage!Effect, Storage!IsRead, Storage!Applies, Storage!Written
<1>4. Storage!Effect(GetOf(k), data) = data
  BY DEF GetOf, Storage!Effect, Storage!IsRead
<1>5. Storage!Reply(PutOf(k), data).ok <=> data[k] = Absent
  BY DEF PutOf, Storage!Reply, Storage!Applies
<1>6. ~Storage!Error.ok
  BY DEF Storage!Error
<1> QED BY <1>1, <1>2, <1>3, <1>4, <1>5, <1>6

----------------------------------------------------------------------------
(* The storage's part of the invariant. *)

\* One operation ends and the next begins.
LEMMA ThenBase ==
  ASSUME LockerInv, NEW c \in Calls, NEW q \in Requests, Then(c, q)
  PROVE  EtcdTypeOK' /\ Decided' /\ OwnsMutex'
<1> USE StorageAssumption, EtcdAssumption
    DEF LockerInv, EtcdTypeOK, Storage!StorageTypeOK, Storage!WellFormed, Then
<1>1. EtcdTypeOK'
  OBVIOUS
<1>2. Decided'
  BY DEF Decided
<1>3. OwnsMutex'
  BY DEF OwnsMutex
<1> QED BY <1>1, <1>2, <1>3

\* Every other step is a step of the client.
LEMMA BaseStep ==
  ASSUME LockerInv, LockerNext
  PROVE  EtcdTypeOK' /\ Decided' /\ OwnsMutex'
<1>t. EtcdTypeOK /\ Decided /\ OwnsMutex /\ LockPlace /\ name \in [Calls -> Keys]
  BY DEF LockerInv, LockPlace
<1>n. ASSUME EtcdNext PROVE EtcdTypeOK' /\ Decided' /\ OwnsMutex'
  BY <1>n, <1>t, TypeStep, DecidedStep, MutexStep
<1>1. ASSUME NEW c \in Calls, NEW q \in Requests, Begin(c, q) PROVE EtcdNext
  BY <1>1 DEF EtcdNext
<1>2. ASSUME NEW c \in Calls, EtcdReturn(c) PROVE EtcdNext
  BY <1>2 DEF EtcdNext
<1>3. ASSUME NEW c \in Calls, OperationStep(c) PROVE EtcdNext
  BY <1>3 DEF EtcdNext
<1>4. ASSUME LateWrite \/ (\E k \in Keys : LeaseExpires(k)) \/ (\E r \in Replicas : ProcessEnds(r))
      PROVE  EtcdNext
  BY <1>4 DEF EtcdNext, EtcdEnvironment
<1>5. ASSUME NEW c \in LockCalls, NEW k \in Keys, LockStart(c, k) PROVE EtcdNext
  BY <1>1, <1>5, LockRequestTypes DEF LockStart, LockCalls
<1>6. ASSUME NEW c \in LockCalls, UnlockStart(c) PROVE EtcdNext
  BY <1>1, <1>6, <1>t, LockRequestTypes DEF UnlockStart, LockCalls
<1>7. ASSUME NEW c \in LockCalls, LockBranch(c) PROVE EtcdTypeOK' /\ Decided' /\ OwnsMutex'
  <2>1. c \in Calls /\ name[c] \in Keys
    BY <1>t DEF LockCalls
  <2>2. \/ EtcdReturn(c)
        \/ Then(c, SwapOf(name[c], "unlocked", "locked"))
        \/ Then(c, PutOf(name[c]))
    BY <1>7 DEF LockBranch
  <2> QED BY <1>2, <1>n, <2>1, <2>2, ThenBase, LockRequestTypes
<1>8. ASSUME NEW c \in LockCalls, LockTaken(c) \/ UnlockEnd(c) \/ Request(c) PROVE EtcdNext
  BY <1>2, <1>3, <1>8 DEF LockTaken, UnlockEnd, Request, LockCalls
<1>9. ASSUME NEW k \in Keys, OperatorGet(k) PROVE EtcdNext
  BY <1>1, <1>9, OperatorAssumption, LockRequestTypes DEF OperatorGet
<1>10. ASSUME OperatorDelete PROVE EtcdTypeOK' /\ Decided' /\ OwnsMutex'
  <2>1. name[Operator] \in Keys
    BY <1>t, OperatorAssumption
  <2>2. EtcdReturn(Operator) \/ Then(Operator, DeleteOf(name[Operator]))
    BY <1>10 DEF OperatorDelete
  <2> QED BY <1>2, <1>n, <2>1, <2>2, ThenBase, LockRequestTypes, OperatorAssumption
<1>11. ASSUME OperatorDone \/ Request(Operator) PROVE EtcdNext
  BY <1>2, <1>3, <1>11, OperatorAssumption DEF OperatorDone, Request
<1>12. ASSUME NEW r \in Replicas, ReplicaEnds(r) PROVE EtcdNext
  BY <1>4, <1>12 DEF ReplicaEnds
<1> QED BY <1>n, <1>4, <1>5, <1>6, <1>7, <1>8, <1>9, <1>10, <1>11, <1>12
        DEF LockerNext, LockStep, OperatorStep

----------------------------------------------------------------------------
(* Where the goroutines are, and what is late. *)

\* A request to etcd leaves a goroutine in its operation.
LEMMA RequestKeepsCall ==
  ASSUME NEW c \in Calls, OperationStep(c)
  PROVE  call' = call /\ st[c] # "idle" /\ st[c] # "return"
BY DEF OperationStep, EtcdRequest, NewSession, LockMutex, GetUnderMutex, PutUnderMutex,
       UnlockMutex, Storage!Perform

\* An operation is none of the others'.
LEMMA PlaceStep == ASSUME LockerInv, LockerNext PROVE LockPlace'
<1> USE OperatorAssumption, StorageAssumption DEF LockPlace, LockCalls, Storage!WellFormed
<1>t. /\ LockPlace /\ call \in [Calls -> Requests \cup {NoRequest}] /\ Decided
      BY DEF LockerInv, EtcdTypeOK, Storage!StorageTypeOK
<1>r. \A k \in Keys : /\ GetOf(k) # NoRequest /\ PutOf(k) # NoRequest /\ DeleteOf(k) # NoRequest
                      /\ SwapOf(k, "unlocked", "locked") # NoRequest
                      /\ SwapOf(k, "locked", "unlocked") # NoRequest
  BY LockRequestTypes
<1>1. ASSUME NEW c \in LockCalls, NEW k \in Keys, LockStart(c, k) PROVE LockPlace'
  BY <1>1, <1>t, <1>r DEF LockStart, Begin, Storage!Invoke
<1>2. ASSUME NEW c \in LockCalls, UnlockStart(c) PROVE LockPlace'
  BY <1>2, <1>t, <1>r DEF UnlockStart, Begin, Storage!Invoke
<1>3. ASSUME NEW c \in LockCalls, LockBranch(c) PROVE LockPlace'
  BY <1>3, <1>t, <1>r DEF LockBranch, EtcdReturn, Storage!Return, Then
<1>4. ASSUME NEW c \in LockCalls, LockTaken(c) \/ UnlockEnd(c) PROVE LockPlace'
  BY <1>4, <1>t DEF LockTaken, UnlockEnd, EtcdReturn, Storage!Return
<1>5. ASSUME NEW c \in Calls, Request(c) PROVE LockPlace'
  BY <1>5, <1>t, RequestKeepsCall DEF Request
<1>6. ASSUME NEW k \in Keys, OperatorGet(k) PROVE LockPlace'
  BY <1>6, <1>t, <1>r DEF OperatorGet, Begin, Storage!Invoke
<1>7. ASSUME OperatorDelete \/ OperatorDone PROVE LockPlace'
  BY <1>7, <1>t, <1>r DEF OperatorDelete, OperatorDone, EtcdReturn, Storage!Return, Then
<1>8. ASSUME NEW r \in Replicas, ReplicaEnds(r) PROVE LockPlace'
  BY <1>8, <1>t DEF ReplicaEnds, ProcessEnds, Storage!Abandon
<1>9. ASSUME LateWrite \/ \E k \in Keys : LeaseExpires(k), UNCHANGED <<lock, name>> PROVE LockPlace'
  BY <1>9, <1>t DEF LateWrite, LeaseExpires
<1> QED BY <1>1, <1>2, <1>3, <1>4, <1>5, <1>6, <1>7, <1>8, <1>9
        DEF LockerNext, LockStep, OperatorStep

\* A request that is not PutIfAbsent's is the lock's Get, one of its swaps, or
\* the operator's Delete; PutIfAbsent's requests are the lock's.
LEMMA InOperation ==
  ASSUME LockerInv, NEW c \in Calls
  PROVE  /\ name[c] \in Keys
         /\ st[c] = "request" =>
              \/ At(c, "locking") /\ call[c] = GetOf(name[c])
              \/ At(c, "taking") /\ c \in LockCalls /\ call[c] = SwapOf(name[c], "unlocked", "locked")
              \/ At(c, "taking") /\ c = Operator /\ call[c] = DeleteOf(name[c])
              \/ At(c, "unlocking") /\ c \in LockCalls /\ call[c] = SwapOf(name[c], "locked", "unlocked")
         /\ st[c] \in {"session", "lock", "get", "put", "unlock"} =>
              At(c, "taking") /\ c \in LockCalls /\ call[c] = PutOf(name[c])
         /\ st[c] # "idle" => call[c].key = name[c]
<1>1. LockPlace /\ Decided
  BY DEF LockerInv
<1>2. PutOf(name[c]).kind = "putIfAbsent" /\ GetOf(name[c]).kind = "get" /\ DeleteOf(name[c]).kind = "delete"
      /\ \A o, n : SwapOf(name[c], o, n).kind = "cas"
  BY DEF PutOf, GetOf, DeleteOf, SwapOf
<1>3. PutOf(name[c]).key = name[c] /\ GetOf(name[c]).key = name[c] /\ DeleteOf(name[c]).key = name[c]
      /\ \A o, n : SwapOf(name[c], o, n).key = name[c]
  BY DEF PutOf, GetOf, DeleteOf, SwapOf
<1>4. st[c] # "idle" => call[c] # NoRequest
  BY <1>1 DEF Decided
<1>5. st[c] # "idle" => \/ At(c, "locking") /\ call[c] = GetOf(name[c])
                        \/ /\ At(c, "taking") /\ c \in LockCalls
                           /\ call[c] = SwapOf(name[c], "unlocked", "locked") \/ call[c] = PutOf(name[c])
                        \/ At(c, "taking") /\ c = Operator /\ call[c] = DeleteOf(name[c])
                        \/ /\ At(c, "unlocking") /\ c \in LockCalls
                           /\ call[c] = SwapOf(name[c], "locked", "unlocked")
  BY <1>1, <1>4 DEF LockPlace, LockCalls
<1>6. name[c] \in Keys
  BY <1>1 DEF LockPlace
<1> QED BY <1>1, <1>2, <1>3, <1>5, <1>6 DEF Decided

\* Only these are ever late.
LEMMA LateWritesStep == ASSUME LockerInv, LockerNext PROVE late' \subseteq LateWrites
<1>0. late \subseteq LateWrites
  BY DEF LockerInv
<1>1. ASSUME NEW c \in Calls, OperationStep(c) PROVE late' \subseteq LateWrites
  <2>1. CASE EtcdRequest(c)
    <3>1. ~Storage!IsRead(call[c]) => call[c] \in LateWrites
      <4>1. \A k \in Keys : /\ SwapOf(k, "unlocked", "locked") \in LateWrites
                            /\ SwapOf(k, "locked", "unlocked") \in LateWrites
                            /\ DeleteOf(k) \in LateWrites
        BY DEF LateWrites
      <4>2. Storage!IsRead(GetOf(name[c]))
        BY DEF Storage!IsRead, GetOf
      <4> QED BY <2>1, <4>1, <4>2, InOperation DEF EtcdRequest
    <3> QED BY <1>0, <2>1, <3>1 DEF EtcdRequest, FailedWrite
  <2>2. CASE PutUnderMutex(c)
    <3>1. WriteOf(call[c]) \in LateWrites
      BY <2>2, InOperation DEF PutUnderMutex, LateWrites
    <3> QED BY <1>0, <2>2, <3>1 DEF PutUnderMutex, FailedWrite
  <2>3. CASE NewSession(c) \/ LockMutex(c) \/ GetUnderMutex(c) \/ UnlockMutex(c)
    BY <1>0, <2>3 DEF NewSession, LockMutex, GetUnderMutex, UnlockMutex
  <2> QED BY <1>1, <2>1, <2>2, <2>3 DEF OperationStep
<1>2. ASSUME ~\E c \in Calls : OperationStep(c) PROVE late' \subseteq late
  <2> USE OperatorAssumption DEF LockCalls, Begin, EtcdReturn, Then
  <2>1. ASSUME NEW c \in LockCalls, (\E k \in Keys : LockStart(c, k)) \/ UnlockStart(c) \/ LockStep(c)
        PROVE  late' \subseteq late
    BY <1>2, <2>1 DEF LockStart, UnlockStart, LockStep, LockBranch, LockTaken, UnlockEnd, Request
  <2>2. ASSUME (\E k \in Keys : OperatorGet(k)) \/ OperatorStep PROVE late' \subseteq late
    BY <1>2, <2>2 DEF OperatorGet, OperatorStep, OperatorDelete, OperatorDone, Request
  <2>3. ASSUME LateWrite \/ (\E k \in Keys : LeaseExpires(k)) \/ (\E r \in Replicas : ReplicaEnds(r))
        PROVE  late' \subseteq late
    BY <2>3 DEF LateWrite, LeaseExpires, ReplicaEnds, ProcessEnds
  <2> QED BY <2>1, <2>2, <2>3 DEF LockerNext
<1> QED BY <1>0, <1>1, <1>2

----------------------------------------------------------------------------
(* Every step keeps every lock good. *)

\* The step is goroutine c's: the others stay where they are.
Only(c) == \A d \in Calls \ {c} :
  /\ lock'[d] = lock[d] /\ name'[d] = name[d] /\ st'[d] = st[d]
  /\ call'[d] = call[d] /\ ret'[d] = ret[d]

\* What the others have of a lock they keep.
LEMMA OthersKeep ==
  ASSUME NEW c \in Calls, Only(c), NEW k \in Keys
  PROVE  /\ \A d \in Calls \ {c} : OwnsLock(d, k)' <=> OwnsLock(d, k)
         /\ Overwriting(k)' => Overwriting(k) \/ (c \in LockCalls /\ st'[c] = "put" /\ call'[c].key = k)
         /\ c # Operator => (Operating(k)' <=> Operating(k))
<1>1. \A d \in Calls \ {c} : OwnsLock(d, k)' <=> OwnsLock(d, k)
  BY DEF Only, OwnsLock
<1>2. Overwriting(k)' => Overwriting(k) \/ (c \in LockCalls /\ st'[c] = "put" /\ call'[c].key = k)
  BY DEF Only, Overwriting, LockCalls
<1>3. c # Operator => (Operating(k)' <=> Operating(k))
  BY OperatorAssumption DEF Only, Operating
<1> QED BY <1>1, <1>2, <1>3

\* A step of c that writes nothing, and after which c has no more of any lock
\* than before.
LEMMA OwnStep ==
  ASSUME LockerInv, NEW c \in Calls, Only(c), data' = data, late' \subseteq late,
         \A k \in Keys : OwnsLock(c, k)' => OwnsLock(c, k),
         st'[c] # "put",
         c = Operator => \A k \in Keys : Operating(k)' => Operating(k)
  PROVE  \A k \in Keys : KeyGood(k)'
<1> SUFFICES ASSUME NEW k \in Keys PROVE KeyGood(k)'
  OBVIOUS
<1>1. Calm(k)
  BY OthersKeep DEF Calm, LateUnlock, LateDelete
<1> QED BY <1>1, CalmStep, GoodKeys DEF LockerInv

\* Lock() and Unlock() between their storage operations.
LEMMA LockCodeStep ==
  ASSUME LockerInv, NEW c \in LockCalls,
         (\E k \in Keys : LockStart(c, k)) \/ UnlockStart(c) \/ LockBranch(c) \/ LockTaken(c) \/ UnlockEnd(c)
  PROVE  \A k \in Keys : KeyGood(k)'
<1>t. /\ lock \in [Calls -> {"idle", "locking", "taking", "held", "unlocking"}] /\ name \in [Calls -> Keys]
      /\ st \in [Calls -> {"idle", "request", "session", "lock", "get", "put", "unlock", "return"}]
      /\ call \in [Calls -> Requests \cup {NoRequest}]
      /\ ret  \in [Calls -> Storage!Replies \cup {NoReply}]
      /\ c \in Calls /\ c # Operator /\ Decided
  BY DEF LockerInv, LockPlace, EtcdTypeOK, Storage!StorageTypeOK, LockCalls
<1>1. /\ Only(c) /\ data' = data /\ late' = late
  BY <1>t DEF Only, LockStart, UnlockStart, LockBranch, LockTaken, UnlockEnd, Begin, Storage!Invoke,
              Then, EtcdReturn, Storage!Return
<1>2. st'[c] # "put"
  BY <1>t DEF LockStart, UnlockStart, LockBranch, LockTaken, UnlockEnd, Begin, Then, EtcdReturn
<1>3. ASSUME NEW k \in Keys, OwnsLock(c, k)' PROVE OwnsLock(c, k)
  <2>1. CASE \E j \in Keys : LockStart(c, j)
    BY <1>3, <1>t, <2>1 DEF LockStart, OwnsLock
  <2>2. CASE UnlockStart(c)
    BY <1>3, <1>t, <2>2 DEF UnlockStart, OwnsLock
  <2>3. CASE LockBranch(c)
    BY <1>3, <1>t, <2>3 DEF LockBranch, Then, OwnsLock
  <2>4. CASE LockTaken(c)
    BY <1>3, <1>t, <2>4 DEF LockTaken, EtcdReturn, OwnsLock, Decided
  <2>5. CASE UnlockEnd(c)
    BY <1>3, <1>t, <2>5 DEF UnlockEnd, OwnsLock
  <2> QED BY <2>1, <2>2, <2>3, <2>4, <2>5
<1> QED BY <1>1, <1>2, <1>3, <1>t, OwnStep

\* PutIfAbsent before it has looked at the key, and after it is done with it.
LEMMA MutexCodeStep ==
  ASSUME LockerInv, NEW c \in Calls, NewSession(c) \/ LockMutex(c) \/ UnlockMutex(c),
         UNCHANGED <<lock, name>>
  PROVE  \A k \in Keys : KeyGood(k)'
<1>t. /\ st \in [Calls -> {"idle", "request", "session", "lock", "get", "put", "unlock", "return"}]
      /\ ret \in [Calls -> Storage!Replies \cup {NoReply}]
      /\ Decided
  BY DEF LockerInv, EtcdTypeOK, Storage!StorageTypeOK
<1>1. Only(c) /\ data' = data /\ late' = late
  BY <1>t DEF Only, NewSession, LockMutex, UnlockMutex
<1>2. st'[c] # "put" /\ (ret'[c] = ret[c] \/ ret'[c] = Storage!Error)
  BY <1>t DEF NewSession, LockMutex, UnlockMutex
<1>3. At(c, "taking") /\ c \in LockCalls /\ c # Operator
  BY InOperation DEF NewSession, LockMutex, UnlockMutex, LockCalls
<1>4. ~Storage!Error.ok
  BY DEF Storage!Error
<1>5. \A k \in Keys : OwnsLock(c, k)' => OwnsLock(c, k)
  BY <1>2, <1>3, <1>4 DEF OwnsLock
<1> QED BY <1>1, <1>2, <1>3, <1>5, OwnStep

\* No key is absent and locked, or absent and unlocked.
LEMMA AbsentIsNoValue == Absent # "locked" /\ Absent # "unlocked" /\ "locked" # "unlocked"
BY StorageAssumption, LockRequestsAssumption DEF Storage!WellFormed, LockValues

\* PutIfAbsent's Get: it will overwrite a key that nobody has.
LEMMA GetStep ==
  ASSUME LockerInv, NEW c \in Calls, GetUnderMutex(c), UNCHANGED <<lock, name>>
  PROVE  \A k \in Keys : KeyGood(k)'
<1>t. /\ st \in [Calls -> {"idle", "request", "session", "lock", "get", "put", "unlock", "return"}]
      /\ ret \in [Calls -> Storage!Replies \cup {NoReply}]
  BY DEF LockerInv, EtcdTypeOK, Storage!StorageTypeOK
<1>1. /\ Only(c) /\ data' = data /\ late' = late /\ call' = call
  BY <1>t DEF Only, GetUnderMutex
<1>2. /\ At(c, "taking") /\ c \in LockCalls /\ c # Operator /\ name[c] \in Keys /\ call[c] = PutOf(name[c])
      /\ call[c].key = name[c]
  BY InOperation DEF GetUnderMutex, LockCalls
<1>3. /\ ret'[c] = ret[c] \/ ~ret'[c].ok
      /\ st'[c] \in {"put", "unlock"} /\ (st'[c] = "put" => data[name[c]] = Absent)
  BY <1>2, <1>t, LockEffects DEF GetUnderMutex
<1>4. \A k \in Keys : OwnsLock(c, k)' => OwnsLock(c, k)
  BY <1>2, <1>3 DEF OwnsLock
<1>5. CASE st'[c] # "put"
  BY <1>1, <1>2, <1>4, <1>5, OwnStep
<1>6. CASE st'[c] = "put"
  <2> SUFFICES ASSUME NEW k \in Keys PROVE KeyGood(k)'
    OBVIOUS
  <2>1. KeyGood(k)
    BY GoodKeys DEF LockerInv
  <2>2. /\ \A d \in Calls : OwnsLock(d, k)' => OwnsLock(d, k)
        /\ Operating(k)' => Operating(k)
        /\ LateUnlock(k)' <=> LateUnlock(k)
        /\ LateDelete(k)' <=> LateDelete(k)
    BY <1>1, <1>2, <1>4, OthersKeep DEF LateUnlock, LateDelete
  <2>3. CASE k = name[c]
    <3>1. data[k] = Absent /\ data'[k] = Absent
      BY <1>1, <1>3, <1>6, <2>3
    <3> QED BY <2>1, <2>2, <3>1, AbsentIsNoValue DEF KeyGood, Doomed
  <2>4. CASE k # name[c]
    <3>1. Overwriting(k)' => Overwriting(k)
      BY <1>1, <1>2, <2>4, OthersKeep
    <3> QED BY <1>1, <2>1, <2>2, <3>1, CalmStep DEF Calm
  <2> QED BY <2>3, <2>4
<1> QED BY <1>5, <1>6

\* A write changes one key; the other locks do not notice.
LEMMA ElsewhereCalm ==
  ASSUME LockerInv, NEW c \in Calls, Only(c), UNCHANGED <<lock, name, call>>,
         call[c].key = name[c],
         NEW k \in Keys, k # name[c], data'[k] = data[k],
         LateUnlock(k)' => LateUnlock(k), LateDelete(k)' => LateDelete(k)
  PROVE  KeyGood(k)'
<1>1. ~OwnsLock(c, k)' /\ (c = Operator => ~Operating(k)')
  BY DEF OwnsLock, Operating
<1>2. Overwriting(k)' => Overwriting(k)
  BY OthersKeep
<1>3. Operating(k)' => Operating(k)
  BY <1>1, OthersKeep
<1>4. \A d \in Calls : OwnsLock(d, k)' => OwnsLock(d, k)
  BY <1>1, OthersKeep
<1>5. Calm(k)
  BY <1>2, <1>3, <1>4 DEF Calm
<1> QED BY <1>5, CalmStep, GoodKeys DEF LockerInv

\* PutIfAbsent's Put: nobody else overwrites the key, for want of the mutex.
LEMMA PutStep ==
  ASSUME LockerInv, NEW c \in Calls, PutUnderMutex(c), UNCHANGED <<lock, name>>
  PROVE  \A k \in Keys : KeyGood(k)'
<1>t. /\ st \in [Calls -> {"idle", "request", "session", "lock", "get", "put", "unlock", "return"}]
      /\ ret \in [Calls -> Storage!Replies \cup {NoReply}]
      /\ data \in [Keys -> Values \cup {Absent}]
  BY DEF LockerInv, EtcdTypeOK, Storage!StorageTypeOK
<1> DEFINE k == name[c]
<1>1. /\ At(c, "taking") /\ c \in LockCalls /\ c # Operator /\ k \in Keys /\ call[c] = PutOf(k)
      /\ call[c].key = k /\ st[c] = "put" /\ st' = [st EXCEPT ![c] = "unlock"] /\ call' = call
  BY InOperation DEF PutUnderMutex, LockCalls
<1>2. Only(c)
  BY <1>t, <1>1 DEF Only, PutUnderMutex
<1>3. /\ data' = data \/ data' = [data EXCEPT ![k] = "locked"]
      /\ late' \subseteq late \cup {WriteOf(PutOf(k))}
      /\ ret'[c].ok => data' = [data EXCEPT ![k] = "locked"]
  BY <1>1, <1>t, LockEffects DEF PutUnderMutex, FailedWrite
<1>4. ASSUME NEW e \in Keys
      PROVE  (LateUnlock(e)' => LateUnlock(e)) /\ (LateDelete(e)' => LateDelete(e))
  BY <1>1, <1>3, DifferentWrites DEF LateUnlock, LateDelete
<1>5. ASSUME NEW e \in Keys, e # k PROVE KeyGood(e)'
  <2>1. data'[e] = data[e]
    BY <1>3, <1>5, <1>t
  <2> QED BY <1>1, <1>2, <1>4, <1>5, <2>1, ElsewhereCalm
<1>6. KeyGood(k)'
  <2>1. KeyGood(k) /\ Overwriting(k)
    BY <1>1, GoodKeys DEF LockerInv, Overwriting
  <2>2. ~Doomed(k)' /\ (\A d \in Calls \ {c} : ~OwnsLock(d, k)')
    <3>1. ~Doomed(k) /\ \A d \in Calls : ~OwnsLock(d, k)
      BY <2>1 DEF KeyGood
    <3>2. Operating(k)' <=> Operating(k)
      BY <1>1, <1>2, OthersKeep
    <3>3. \A d \in Calls \ {c} : OwnsLock(d, k)' <=> OwnsLock(d, k)
      BY <1>1, <1>2, OthersKeep
    <3> QED BY <1>1, <1>4, <3>1, <3>2, <3>3 DEF Doomed
  <2>3. ~Overwriting(k)'
    <3> SUFFICES ASSUME NEW d \in LockCalls, st'[d] = "put", call'[d].key = k PROVE FALSE
      BY DEF Overwriting
    <3>1. d # c /\ st[d] = "put" /\ call[d].key = k
      BY <1>1, <1>t DEF LockCalls
    <3>2. mutex[k] = d /\ mutex[k] = c
      BY <1>1, <3>1 DEF LockerInv, OwnsMutex, LockCalls
    <3> QED BY <3>1, <3>2
  <2>4. OwnsLock(c, k)' => data'[k] = "locked"
    <3>1. OwnsLock(c, k)' => ret'[c].ok
      BY <1>1 DEF OwnsLock
    <3> QED BY <1>1, <1>3, <1>t, <3>1
  <2> QED BY <2>2, <2>3, <2>4 DEF KeyGood, Doomed
<1> QED BY <1>5, <1>6

\* The other requests are answered at once: what they do to the storage, to
\* the late writes and to their goroutine.
Outcome(c, q) ==
  /\ Only(c) /\ call' = call /\ st'[c] = "return" /\ ret'[c] # NoReply
  /\ \/ /\ late' = late /\ data' = Storage!Effect(q, data)
        /\ ret'[c].ok => ret'[c] = Storage!Reply(q, data)
     \/ /\ data' = data /\ late' \subseteq late \cup {q} /\ ~ret'[c].ok
        /\ Storage!IsRead(q) => late' = late
LEMMA RequestOutcome ==
  ASSUME LockerInv, NEW c \in Calls, EtcdRequest(c), UNCHANGED <<lock, name>>, Decided'
  PROVE  Outcome(c, call[c])
<1>t. /\ st \in [Calls -> {"idle", "request", "session", "lock", "get", "put", "unlock", "return"}]
      /\ ret \in [Calls -> Storage!Replies \cup {NoReply}]
  BY DEF LockerInv, EtcdTypeOK, Storage!StorageTypeOK
<1>1. /\ Only(c) /\ call' = call /\ st'[c] = "return"
  BY <1>t DEF Only, EtcdRequest, Storage!Perform
<1>2. ret'[c] # NoReply
  BY <1>1 DEF Decided
<1>3. ~Storage!Error.ok
  BY DEF Storage!Error
<1>4. CASE Storage!Perform(c) /\ UNCHANGED <<late, given, faults>>
  BY <1>1, <1>2, <1>4, <1>t DEF Outcome, Storage!Perform
<1>5. CASE /\ Fault /\ Decide(c, Storage!Error)
           /\ IF Storage!IsRead(call[c]) THEN UNCHANGED <<data, late, given>> ELSE FailedWrite(call[c])
  <2>1. ret'[c] = Storage!Error
    BY <1>5, <1>t
  <2> QED BY <1>1, <1>2, <1>3, <1>5, <2>1 DEF Outcome, FailedWrite
<1> QED BY <1>4, <1>5 DEF EtcdRequest

\* Lock's Get and its swap, Unlock's swap, the operator's Delete.
LEMMA RequestStep ==
  ASSUME LockerInv, NEW c \in Calls, EtcdRequest(c), UNCHANGED <<lock, name>>, Decided'
  PROVE  \A k \in Keys : KeyGood(k)'
<1> DEFINE k == name[c]
<1>t. /\ data \in [Keys -> Values \cup {Absent}] /\ k \in Keys /\ st[c] = "request" /\ ret[c] = NoReply
      /\ call[c].key = k
  BY InOperation DEF LockerInv, EtcdTypeOK, Storage!StorageTypeOK, EtcdRequest, Decided
<1>o. Outcome(c, call[c])
  BY RequestOutcome
<1>1. /\ Only(c) /\ call' = call /\ st'[c] = "return" /\ ret'[c] # NoReply
  BY <1>o DEF Outcome
<1>2. KeyGood(k)
  BY <1>t, GoodKeys DEF LockerInv
<1>3. /\ Overwriting(k)' => Overwriting(k)
      /\ \A d \in Calls \ {c} : OwnsLock(d, k)' <=> OwnsLock(d, k)
      /\ c # Operator => (Operating(k)' <=> Operating(k))
  BY <1>1, <1>t, OthersKeep
<1>4. CASE At(c, "locking") /\ call[c] = GetOf(k)
  <2>1. data' = data /\ late' = late
    BY <1>4, <1>o, <1>t, LockEffects DEF Outcome, Storage!IsRead, GetOf
  <2>2. \A e \in Keys : OwnsLock(c, e)' => OwnsLock(c, e)
    BY <1>4 DEF OwnsLock
  <2>3. c = Operator => \A e \in Keys : Operating(e)' => Operating(e)
    BY <1>4 DEF Operating
  <2> QED BY <1>1, <2>1, <2>2, <2>3, OwnStep
<1>5. CASE At(c, "taking") /\ c \in LockCalls /\ call[c] = SwapOf(k, "unlocked", "locked")
  <2>0. c # Operator
    BY <1>5 DEF LockCalls
  <2>1. \A e \in Keys : (LateUnlock(e)' => LateUnlock(e)) /\ (LateDelete(e)' => LateDelete(e))
    BY <1>5, <1>o, <1>t, DifferentWrites DEF Outcome, LateUnlock, LateDelete
  <2>2. \/ data[k] = "unlocked" /\ data' = [data EXCEPT ![k] = "locked"]
        \/ data' = data /\ ~ret'[c].ok
    BY <1>5, <1>o, <1>t, LockEffects DEF Outcome
  <2>3. ASSUME NEW e \in Keys, e # k PROVE KeyGood(e)'
    <3>1. data'[e] = data[e]
      BY <1>t, <2>2, <2>3
    <3> QED BY <1>1, <1>t, <2>1, <2>3, <3>1, ElsewhereCalm
  <2>4. KeyGood(k)'
    <3>1. CASE data[k] = "unlocked" /\ data' = [data EXCEPT ![k] = "locked"]
      <4>1. ~Doomed(k) /\ ~Overwriting(k) /\ \A d \in Calls : ~OwnsLock(d, k)
        BY <1>2, <3>1 DEF KeyGood
      <4>2. ~Doomed(k)' /\ ~Overwriting(k)' /\ \A d \in Calls \ {c} : ~OwnsLock(d, k)'
        BY <1>3, <1>t, <2>0, <2>1, <4>1 DEF Doomed
      <4>3. data'[k] = "locked"
        BY <1>t, <3>1
      <4> QED BY <4>2, <4>3 DEF KeyGood, Doomed
    <3>2. CASE data' = data /\ ~ret'[c].ok
      <4>1. ~OwnsLock(c, k)'
        BY <1>5, <3>2 DEF OwnsLock
      <4> QED BY <1>2, <1>3, <1>t, <2>0, <2>1, <3>2, <4>1, CalmStep DEF Calm
    <3> QED BY <2>2, <3>1, <3>2
  <2> QED BY <2>3, <2>4
<1>6. CASE At(c, "taking") /\ c = Operator /\ call[c] = DeleteOf(k)
  <2>1. ASSUME NEW e \in Keys
        PROVE  (LateUnlock(e)' => LateUnlock(e)) /\ (LateDelete(e)' => LateDelete(e) \/ e = k)
    BY <1>6, <1>o, <1>t, DifferentWrites DEF Outcome, LateUnlock, LateDelete
  <2>2. \/ data' = [data EXCEPT ![k] = Absent] /\ late' = late
        \/ data' = data
    BY <1>6, <1>o, <1>t, LockEffects DEF Outcome
  <2>3. ASSUME NEW e \in Keys, e # k PROVE KeyGood(e)'
    <3>1. data'[e] = data[e]
      BY <1>t, <2>2, <2>3
    <3> QED BY <1>1, <1>t, <2>1, <2>3, <3>1, ElsewhereCalm
  <2>4. KeyGood(k)'
    <3>1. Operating(k)
      BY <1>6, <1>t DEF Operating
    <3>2. /\ data[k] = "locked" /\ ~Overwriting(k) /\ ~LateUnlock(k) /\ ~LateDelete(k)
          /\ \A d \in Calls : ~OwnsLock(d, k)
      BY <1>2, <3>1 DEF KeyGood, Doomed
    <3>3. ~Operating(k)' /\ ~OwnsLock(c, k)'
      BY <1>1, <1>6 DEF Operating, OwnsLock, LockCalls
    <3>4. ~Overwriting(k)' /\ ~LateUnlock(k)' /\ \A d \in Calls : ~OwnsLock(d, k)'
      BY <1>3, <1>t, <2>1, <3>2, <3>3
    <3>5. LateDelete(k)' => data'[k] = "locked"
      BY <2>2, <3>2 DEF LateDelete
    <3> QED BY <3>3, <3>4, <3>5 DEF KeyGood, Doomed
  <2> QED BY <2>3, <2>4
<1>7. CASE At(c, "unlocking") /\ c \in LockCalls /\ call[c] = SwapOf(k, "locked", "unlocked")
  <2>0. c # Operator
    BY <1>7 DEF LockCalls
  <2>1. ASSUME NEW e \in Keys
        PROVE  (LateUnlock(e)' => LateUnlock(e) \/ e = k) /\ (LateDelete(e)' => LateDelete(e))
    BY <1>7, <1>o, <1>t, DifferentWrites DEF Outcome, LateUnlock, LateDelete
  <2>2. /\ OwnsLock(c, k)
    BY <1>7, <1>t DEF OwnsLock
  <2>3. /\ data[k] = "locked" /\ ~Overwriting(k) /\ ~Doomed(k)
        /\ \A d \in Calls \ {c} : ~OwnsLock(d, k)
    BY <1>2, <2>2 DEF KeyGood
  <2>4. \/ data' = [data EXCEPT ![k] = "unlocked"] /\ late' = late
        \/ data' = data
    BY <1>7, <1>o, <1>t, LockEffects DEF Outcome
  <2>5. ASSUME NEW e \in Keys, e # k PROVE KeyGood(e)'
    <3>1. data'[e] = data[e]
      BY <1>t, <2>4, <2>5
    <3> QED BY <1>1, <1>t, <2>1, <2>5, <3>1, ElsewhereCalm
  <2>6. KeyGood(k)'
    <3>1. ~OwnsLock(c, k)'
      BY <1>1, <1>7 DEF OwnsLock
    <3>2. ~Overwriting(k)' /\ ~LateDelete(k)' /\ ~Operating(k)' /\ \A d \in Calls : ~OwnsLock(d, k)'
      BY <1>3, <1>t, <2>0, <2>1, <2>3, <3>1 DEF Doomed
    <3>3. LateUnlock(k)' => data'[k] = "locked"
      BY <2>3, <2>4 DEF LateUnlock, Doomed
    <3> QED BY <3>2, <3>3 DEF KeyGood, Doomed
  <2> QED BY <2>5, <2>6
<1> QED BY <1>4, <1>5, <1>6, <1>7, <1>t, InOperation

\* The operator begins with a channel that nobody will unlock; between its
\* requests it changes nothing.
LEMMA OperatorCodeStep ==
  ASSUME LockerInv, (\E k \in Keys : OperatorGet(k)) \/ OperatorDelete \/ OperatorDone
  PROVE  \A k \in Keys : KeyGood(k)'
<1> DEFINE c == Operator
<1>t. /\ lock \in [Calls -> {"idle", "locking", "taking", "held", "unlocking"}] /\ name \in [Calls -> Keys]
      /\ st \in [Calls -> {"idle", "request", "session", "lock", "get", "put", "unlock", "return"}]
      /\ call \in [Calls -> Requests \cup {NoRequest}]
      /\ ret  \in [Calls -> Storage!Replies \cup {NoReply}]
      /\ c \in Calls /\ c \notin LockCalls /\ Decided
  BY OperatorAssumption DEF LockerInv, LockPlace, EtcdTypeOK, Storage!StorageTypeOK, LockCalls
<1>1. Only(c) /\ data' = data /\ late' = late
  BY <1>t DEF Only, OperatorGet, OperatorDelete, OperatorDone, Begin, Storage!Invoke, Then, EtcdReturn,
              Storage!Return
<1>2. st'[c] # "put"
  BY <1>t DEF OperatorGet, OperatorDelete, OperatorDone, Begin, Then, EtcdReturn
<1>3. \A k \in Keys : ~OwnsLock(c, k)'
  BY <1>t DEF OwnsLock
<1>4. CASE OperatorDelete
  <2>1. At(c, "locking") /\ name' = name /\ (lock'[c] = "taking" \/ lock'[c] = "idle")
    BY <1>4, <1>t DEF OperatorDelete
  <2>2. \A k \in Keys : Operating(k)' => Operating(k)
    BY <2>1 DEF Operating
  <2> QED BY <1>1, <1>2, <1>3, <1>t, <2>2, OwnStep
<1>5. CASE OperatorDone
  <2>1. lock'[c] = "idle"
    BY <1>5, <1>t DEF OperatorDone
  <2>2. \A k \in Keys : ~Operating(k)'
    BY <2>1 DEF Operating
  <2> QED BY <1>1, <1>2, <1>3, <1>t, <2>2, OwnStep
<1>6. ASSUME NEW j \in Keys, OperatorGet(j), NEW k \in Keys PROVE KeyGood(k)'
  <2>1. KeyGood(k)
    BY GoodKeys DEF LockerInv
  <2>2. /\ \A d \in Calls : OwnsLock(d, k)' => OwnsLock(d, k)
        /\ Overwriting(k)' => Overwriting(k)
        /\ LateUnlock(k)' <=> LateUnlock(k)
        /\ LateDelete(k)' <=> LateDelete(k)
    BY <1>1, <1>2, <1>3, <1>t, OthersKeep DEF LateUnlock, LateDelete
  <2>3. CASE k # j
    <3>1. name'[c] = j
      BY <1>6, <1>t DEF OperatorGet
    <3>2. ~Operating(k)'
      BY <2>3, <3>1 DEF Operating
    <3> QED BY <1>1, <2>1, <2>2, <3>2, CalmStep DEF Calm
  <2>4. CASE k = j
    <3>1. Forlorn(k)
      BY <1>6, <2>4 DEF OperatorGet
    <3>2. ~LateUnlock(k) /\ ~LateDelete(k)
      BY <3>1 DEF Forlorn, LateUnlock, LateDelete, SwapOf, DeleteOf
    <3> QED BY <1>1, <2>2, <3>1, <3>2 DEF Forlorn, KeyGood, Doomed
  <2> QED BY <2>3, <2>4
<1> QED BY <1>4, <1>5, <1>6

\* A process that ends gives nothing to anybody, and takes no write back.
LEMMA EndStep ==
  ASSUME LockerInv, NEW r \in Replicas, ReplicaEnds(r)
  PROVE  \A k \in Keys : KeyGood(k)'
<1> SUFFICES ASSUME NEW k \in Keys PROVE KeyGood(k)'
  OBVIOUS
<1>1. /\ data' = data /\ late' = late /\ name' = name
      /\ \A d \in Calls : \/ ReplicaOf[d] = r /\ lock'[d] = "idle" /\ st'[d] = "idle"
                          \/ /\ lock'[d] = lock[d] /\ st'[d] = st[d] /\ call'[d] = call[d]
                             /\ ret'[d] = ret[d]
  BY DEF ReplicaEnds, ProcessEnds, Storage!Abandon
<1>2. \A d \in Calls : OwnsLock(d, k)' => OwnsLock(d, k)
  BY <1>1 DEF OwnsLock
<1>3. Overwriting(k)' => Overwriting(k)
  BY <1>1 DEF Overwriting, LockCalls
<1>4. Operating(k)' => Operating(k)
  BY <1>1, OperatorAssumption DEF Operating
<1>5. Calm(k)
  BY <1>1, <1>2, <1>3, <1>4 DEF Calm, LateUnlock, LateDelete
<1> QED BY <1>5, CalmStep, GoodKeys DEF LockerInv

\* Nothing but the storage changes.
LEMMA SameCode ==
  ASSUME UNCHANGED <<lock, name, call, ret, st>>, NEW k \in Keys
  PROVE  /\ \A d \in Calls : OwnsLock(d, k)' <=> OwnsLock(d, k)
         /\ Overwriting(k)' <=> Overwriting(k)
         /\ Operating(k)' <=> Operating(k)
<1>1. \A d \in Calls : OwnsLock(d, k)' <=> OwnsLock(d, k)
  BY DEF OwnsLock
<1>2. Overwriting(k)' <=> Overwriting(k)
  BY DEF Overwriting
<1>3. Operating(k)' <=> Operating(k)
  BY DEF Operating
<1> QED BY <1>1, <1>2, <1>3

\* A late write finds nobody's lock, or finds the lock of an owner and does
\* not apply.
LEMMA LateWriteStep ==
  ASSUME LockerInv, LateWrite, UNCHANGED <<lock, name>>
  PROVE  \A k \in Keys : KeyGood(k)'
<1> SUFFICES ASSUME NEW k \in Keys PROVE KeyGood(k)'
  OBVIOUS
<1>t. data \in [Keys -> Values \cup {Absent}] /\ late \subseteq LateWrites
  BY DEF LockerInv, EtcdTypeOK, Storage!StorageTypeOK
<1>1. KeyGood(k)
  BY GoodKeys DEF LockerInv
<1>2. PICK w \in late : data' = Storage!Effect(w, data) /\ late' = late \ {w}
  BY DEF LateWrite
<1>3. /\ \A d \in Calls : OwnsLock(d, k)' <=> OwnsLock(d, k)
      /\ Overwriting(k)' <=> Overwriting(k)
      /\ Operating(k)' <=> Operating(k)
      /\ LateUnlock(k)' <=> LateUnlock(k) /\ w # SwapOf(k, "locked", "unlocked")
      /\ LateDelete(k)' <=> LateDelete(k) /\ w # DeleteOf(k)
  BY <1>2, SameCode DEF LateWrite, LateUnlock, LateDelete
<1>4. PICK j \in Keys : w \in {SwapOf(j, "unlocked", "locked"), SwapOf(j, "locked", "unlocked"),
                               DeleteOf(j), WriteOf(PutOf(j))}
  BY <1>t DEF LateWrites
<1>5. data' = data \/ \E v : data' = [data EXCEPT ![j] = v]
  BY <1>2, <1>4, LockEffects
<1>6. CASE k # j \/ data' = data
  <2>1. data'[k] = data[k]
    BY <1>5, <1>6, <1>t
  <2> QED BY <1>1, <1>3, <2>1, CalmStep DEF Calm
<1>7. CASE k = j
  <2>1. CASE w = SwapOf(k, "unlocked", "locked")
    <3>1. data' = data \/ (data[k] = "unlocked" /\ data'[k] = "locked")
      BY <1>2, <1>t, <2>1, LockEffects
    <3>2. ~LateUnlock(k)' \/ LateUnlock(k)
      BY <1>3
    <3> QED BY <1>1, <1>3, <1>6, <3>1, AbsentIsNoValue DEF KeyGood, Doomed
  <2>2. CASE w = SwapOf(k, "locked", "unlocked")
    <3>1. LateUnlock(k)
      BY <2>2 DEF LateUnlock
    <3>2. /\ data[k] = "locked" /\ ~Overwriting(k) /\ ~LateDelete(k) /\ ~Operating(k)
          /\ \A d \in Calls : ~OwnsLock(d, k)
      BY <1>1, <3>1 DEF KeyGood, Doomed
    <3> QED BY <1>3, <2>2, <3>2 DEF KeyGood, Doomed
  <2>3. CASE w = DeleteOf(k)
    <3>1. LateDelete(k)
      BY <2>3 DEF LateDelete
    <3>2. /\ data[k] = "locked" /\ ~Overwriting(k) /\ ~LateUnlock(k) /\ ~Operating(k)
          /\ \A d \in Calls : ~OwnsLock(d, k)
      BY <1>1, <3>1 DEF KeyGood, Doomed
    <3> QED BY <1>3, <2>3, <3>2 DEF KeyGood, Doomed
  <2>4. CASE w = WriteOf(PutOf(k))
    <3>1. data'[k] = "locked"
      BY <1>2, <1>t, <2>4, LockEffects
    <3> QED BY <1>1, <1>3, <3>1, AbsentIsNoValue DEF KeyGood, Doomed
  <2> QED BY <1>4, <1>7, <2>1, <2>2, <2>3, <2>4
<1> QED BY <1>6, <1>7

\* A lease of the mutex that expires is none of the lock's business.
LEMMA LeaseStep ==
  ASSUME LockerInv, NEW j \in Keys, LeaseExpires(j), UNCHANGED <<lock, name>>
  PROVE  \A k \in Keys : KeyGood(k)'
<1> SUFFICES ASSUME NEW k \in Keys PROVE KeyGood(k)'
  OBVIOUS
<1>1. /\ \A d \in Calls : OwnsLock(d, k)' <=> OwnsLock(d, k)
      /\ Overwriting(k)' <=> Overwriting(k)
      /\ Operating(k)' <=> Operating(k)
  BY SameCode DEF LeaseExpires
<1> QED BY <1>1, CalmStep, GoodKeys DEF LockerInv, Calm, LeaseExpires, LateUnlock, LateDelete

----------------------------------------------------------------------------
\* At first nobody is in the lock's code, and no write is late.
LEMMA LockerInitInv == LockerInit => LockerInv
<1> SUFFICES ASSUME LockerInit PROVE LockerInv
  OBVIOUS
<1>1. EtcdInit /\ lock = [c \in Calls |-> "idle"] /\ name \in [Calls -> Keys]
  BY DEF LockerInit
<1>2. EtcdInv
  BY <1>1, InvInit
<1>3. LockPlace /\ late \subseteq LateWrites
  BY <1>1 DEF LockPlace, EtcdInit, Storage!StorageInit
<1>4. ASSUME NEW k \in Keys PROVE KeyGood(k)
  <2>1. \A c \in Calls : ~OwnsLock(c, k)
    BY <1>1 DEF OwnsLock
  <2>2. ~Overwriting(k) /\ ~LateUnlock(k) /\ ~LateDelete(k) /\ ~Operating(k)
    BY <1>1, OperatorAssumption DEF EtcdInit, Overwriting, LockCalls, LateUnlock, LateDelete, Operating
  <2> QED BY <2>1, <2>2 DEF KeyGood, Doomed
<1> QED BY <1>2, <1>3, <1>4, GoodKeys DEF LockerInv, EtcdInv

\* Every step of the lock, of the operator and of etcd keeps the invariant.
LEMMA LockerNextInv == LockerInv /\ [LockerNext]_lockerVars => LockerInv'
<1> SUFFICES ASSUME LockerInv, [LockerNext]_lockerVars PROVE LockerInv'
  OBVIOUS
<1>1. CASE UNCHANGED lockerVars
  BY <1>1 DEF lockerVars, etcdVars, LockerInv, EtcdTypeOK, Storage!StorageTypeOK, Decided, OwnsMutex, LockPlace,
     Guarded, OneOwner, OwnsLock, Overwriting, Doomed, LateUnlock, LateDelete, Operating
<1>2. CASE LockerNext
  <2>1. EtcdTypeOK' /\ Decided' /\ OwnsMutex'
    BY <1>2, BaseStep
  <2>2. ASSUME NEW c \in Calls, Request(c) PROVE \A k \in Keys : KeyGood(k)'
    BY <2>1, <2>2, RequestStep, MutexCodeStep, GetStep, PutStep DEF Request, OperationStep
  <2>3. ASSUME NEW c \in LockCalls, (\E k \in Keys : LockStart(c, k)) \/ UnlockStart(c) \/ LockStep(c)
        PROVE  \A k \in Keys : KeyGood(k)'
    BY <2>2, <2>3, LockCodeStep DEF LockStep, LockCalls
  <2>4. ASSUME (\E k \in Keys : OperatorGet(k)) \/ OperatorStep PROVE \A k \in Keys : KeyGood(k)'
    BY <2>2, <2>4, OperatorCodeStep, OperatorAssumption DEF OperatorStep
  <2>5. \A k \in Keys : KeyGood(k)'
    BY <1>2, <2>3, <2>4, EndStep, LateWriteStep, LeaseStep DEF LockerNext
  <2>6. Guarded' /\ OneOwner'
    <3>1. (\A k \in Keys : KeyGood(k))'
      BY <2>5
    <3> QED BY <3>1, GoodKeys, PTL
  <2> QED BY <1>2, <2>1, <2>6, PlaceStep, LateWritesStep DEF LockerInv
<1> QED BY <1>1, <1>2

\* The inductive invariant of the lock over etcd holds in every state.
THEOREM LockerInvariant == LockerSpec => []LockerInv
  BY LockerInitInv, LockerNextInv, PTL DEF LockerSpec

\* At most one goroutine owns a lock of escrow/lock.go, although its requests
\* to etcd fail, time out and are executed late, processes end at any point,
\* and the operator deletes keys.
THEOREM LockHasOneOwner == LockerSpec => []OneOwner
<1>1. LockerInv => OneOwner
  BY DEF LockerInv
<1> QED BY <1>1, LockerInvariant, PTL

----------------------------------------------------------------------------
(* The refinement of Mutex. *)

\* Which owner a state stands for, lock by lock.
OwnerIs(k) ==
  /\ \A c \in Calls : OwnsLock(c, k) => owner[k] = c
  /\ (\A c \in Calls : ~OwnsLock(c, k)) =>
       owner[k] = IF data[k] = "locked" /\ ~Overwriting(k) THEN "stranded" ELSE "free"

\* The CHOOSE in owner picks the one owner there is.
LEMMA OwnerLemma == LockerInv => \A k \in Keys : OwnerIs(k)
<1> SUFFICES ASSUME LockerInv, NEW k \in Keys PROVE OwnerIs(k)
  OBVIOUS
<1>1. owner[k] = IF \E c \in Calls : OwnsLock(c, k) THEN CHOOSE c \in Calls : OwnsLock(c, k)
                 ELSE IF data[k] = "locked" /\ ~Overwriting(k) THEN "stranded" ELSE "free"
  BY DEF owner
<1>2. ASSUME NEW c \in Calls, OwnsLock(c, k) PROVE owner[k] = c
  <2>1. OwnsLock(CHOOSE d \in Calls : OwnsLock(d, k), k) /\ (CHOOSE d \in Calls : OwnsLock(d, k)) \in Calls
    BY <1>2
  <2> QED BY <1>1, <1>2, <2>1 DEF LockerInv, OneOwner
<1> QED BY <1>1, <1>2 DEF OwnerIs

\* A lock whose value, owners and overwriters stay the same keeps its owner.
LEMMA SameOwner ==
  ASSUME NEW k \in Keys, OwnerIs(k), OwnerIs(k)', data'[k] = data[k],
         \A c \in Calls : OwnsLock(c, k)' <=> OwnsLock(c, k),
         data[k] = "locked" => (Overwriting(k)' <=> Overwriting(k))
  PROVE  owner'[k] = owner[k]
<1>1. CASE \E c \in Calls : OwnsLock(c, k)
  BY <1>1 DEF OwnerIs
<1>2. CASE \A c \in Calls : ~OwnsLock(c, k)
  BY <1>2 DEF OwnerIs
<1> QED BY <1>1, <1>2

\* A step at one lock is a step of the mutex if nobody gets a lock that is not
\* free.
LEMMA OneLock ==
  ASSUME NEW j \in Keys, OwnerIs(j), OwnerIs(j)',
         \A k \in Keys : k # j => owner'[k] = owner[k],
         \A d \in Calls : OwnsLock(d, j)' => owner[j] = "free" \/ OwnsLock(d, j)
  PROVE  [Abstract!Next]_owner
<1>f. /\ owner  = [k \in Keys |-> owner[k]]
      /\ owner' = [k \in Keys |-> owner'[k]]
  BY DEF owner
<1>1. ASSUME NEW v, owner'[j] = v PROVE owner' = [owner EXCEPT ![j] = v]
  BY <1>1, <1>f
<1>2. ASSUME owner'[j] = owner[j] PROVE owner' = owner
  BY <1>2, <1>f
<1>3. ASSUME NEW d \in Calls, OwnsLock(d, j)' PROVE [Abstract!Next]_owner
  <2>1. owner'[j] = d
    BY <1>3 DEF OwnerIs
  <2>2. CASE OwnsLock(d, j)
    BY <1>2, <2>1, <2>2 DEF OwnerIs
  <2>3. CASE owner[j] = "free"
    BY <1>1, <2>1, <2>3 DEF Abstract!Next, Abstract!Acquire
  <2> QED BY <1>3, <2>2, <2>3
<1>4. CASE \A d \in Calls : ~OwnsLock(d, j)'
  <2>1. owner'[j] = "stranded" \/ owner'[j] = "free"
    BY <1>4 DEF OwnerIs
  <2>2. CASE owner'[j] = "stranded"
    <3>1. owner' = [k \in Keys |-> IF k \in {j} THEN "stranded" ELSE owner[k]]
      BY <1>f, <2>2
    <3> QED BY <3>1 DEF Abstract!Next, Abstract!Strand
  <2>3. CASE owner'[j] = "free"
    <3>1. owner' = [owner EXCEPT ![j] = "free"]
      BY <1>1, <2>3
    <3>2. CASE owner[j] = "free"
      BY <1>2, <2>3, <3>2
    <3>3. CASE owner[j] = "stranded"
      BY <3>1, <3>3 DEF Abstract!Next, Abstract!Recover
    <3>4. ASSUME NEW d \in Calls, OwnsLock(d, j) PROVE [Abstract!Next]_owner
      <4>1. owner[j] = d
        BY <3>4 DEF OwnerIs
      <4> QED BY <3>1, <4>1 DEF Abstract!Next, Abstract!Release
    <3> QED BY <3>2, <3>3, <3>4 DEF OwnerIs
  <2> QED BY <2>1, <2>2, <2>3
<1> QED BY <1>3, <1>4

\* A request is about one lock.
LEMMA RequestAtOneLock ==
  ASSUME NEW c \in Calls, Only(c), UNCHANGED <<lock, name, call>>, name[c] \in Keys, call[c].key = name[c],
         \A k \in Keys : OwnerIs(k) /\ OwnerIs(k)',
         \A k \in Keys : k # name[c] => data'[k] = data[k],
         OwnsLock(c, name[c])' => owner[name[c]] = "free" \/ OwnsLock(c, name[c])
  PROVE  [Abstract!Next]_owner
<1>1. ASSUME NEW k \in Keys, k # name[c] PROVE owner'[k] = owner[k]
  <2>1. ~OwnsLock(c, k) /\ ~OwnsLock(c, k)'
    BY <1>1 DEF OwnsLock
  <2>2. \A d \in Calls : OwnsLock(d, k)' <=> OwnsLock(d, k)
    BY <1>1, <2>1, OthersKeep
  <2>3. Overwriting(k)' <=> Overwriting(k)
    BY <1>1 DEF Overwriting, Only, LockCalls
  <2> QED BY <1>1, <2>2, <2>3, SameOwner
<1>2. \A d \in Calls \ {c} : OwnsLock(d, name[c])' <=> OwnsLock(d, name[c])
  BY OthersKeep
<1> QED BY <1>1, <1>2, OneLock

\* A request writes no other key than its own, and gives its goroutine the
\* lock only if that was free: a swap that found "unlocked", or a Put of a key
\* that was to be overwritten.
LEMMA RequestRefines ==
  ASSUME LockerInv, Decided', NEW c \in Calls, Request(c), \A k \in Keys : OwnerIs(k) /\ OwnerIs(k)'
  PROVE  [Abstract!Next]_owner
<1> DEFINE j == name[c]
<1>t. /\ st \in [Calls -> {"idle", "request", "session", "lock", "get", "put", "unlock", "return"}]
      /\ ret \in [Calls -> Storage!Replies \cup {NoReply}]
      /\ data \in [Keys -> Values \cup {Absent}] /\ Decided
  BY DEF LockerInv, EtcdTypeOK, Storage!StorageTypeOK
<1>0. /\ OperationStep(c) /\ UNCHANGED <<lock, name, call>> /\ st[c] # "idle" /\ st[c] # "return"
  BY RequestKeepsCall DEF Request
<1>1. Only(c)
  BY <1>0, <1>t DEF Only, OperationStep, EtcdRequest, NewSession, LockMutex, GetUnderMutex, PutUnderMutex,
                    UnlockMutex, Storage!Perform
<1>2. j \in Keys /\ call[c].key = j
  BY <1>0, InOperation
<1>3. KeyGood(j)
  BY <1>2, GoodKeys DEF LockerInv
<1>4. CASE EtcdRequest(c)
  <2>o. Outcome(c, call[c]) /\ st[c] = "request" /\ ret[c] = NoReply
    BY <1>0, <1>4, <1>t, RequestOutcome DEF EtcdRequest, Decided
  <2>1. \A k \in Keys : k # j => data'[k] = data[k]
    BY <1>2, <1>t, <2>o DEF Outcome, Storage!Effect
  <2>2. ASSUME OwnsLock(c, j)' PROVE owner[j] = "free" \/ OwnsLock(c, j)
    <3>1. CASE At(c, "locking") \/ (At(c, "taking") /\ c = Operator)
      BY <1>0, <2>2, <3>1 DEF OwnsLock, LockCalls
    <3>2. CASE At(c, "taking") /\ call[c] = SwapOf(j, "unlocked", "locked")
      <4>1. ret'[c].ok
        BY <1>0, <2>2, <3>2 DEF OwnsLock
      <4>2. data[j] = "unlocked"
        BY <1>2, <2>o, <3>2, <4>1, LockEffects DEF Outcome
      <4> QED BY <1>2, <1>3, <4>2 DEF KeyGood, OwnerIs
    <3>3. CASE At(c, "unlocking") /\ c \in LockCalls
      BY <2>o, <3>3 DEF OwnsLock
    <3> QED BY <2>o, <3>1, <3>2, <3>3, InOperation
  <2> QED BY <1>0, <1>1, <1>2, <2>1, <2>2, RequestAtOneLock
<1>5. CASE NewSession(c) \/ LockMutex(c) \/ UnlockMutex(c) \/ GetUnderMutex(c)
  <2>1. data' = data
    BY <1>5 DEF NewSession, LockMutex, UnlockMutex, GetUnderMutex
  <2>2. At(c, "taking") /\ c \in LockCalls /\ call[c] = PutOf(j)
    BY <1>5, InOperation DEF NewSession, LockMutex, UnlockMutex, GetUnderMutex
  <2>3. ret'[c] = ret[c] \/ ~ret'[c].ok
    <3>1. ~Storage!Error.ok
      BY DEF Storage!Error
    <3> QED BY <1>2, <1>5, <1>t, <2>2, <3>1, LockEffects DEF NewSession, LockMutex, UnlockMutex, GetUnderMutex
  <2>4. OwnsLock(c, j)' => OwnsLock(c, j)
    BY <1>0, <2>2, <2>3 DEF OwnsLock
  <2> QED BY <1>0, <1>1, <1>2, <2>1, <2>4, RequestAtOneLock
<1>6. CASE PutUnderMutex(c)
  <2>1. c \in LockCalls /\ call[c] = PutOf(j) /\ st[c] = "put"
    BY <1>6, InOperation DEF PutUnderMutex
  <2>2. data' = data \/ data' = [data EXCEPT ![j] = "locked"]
    BY <1>2, <1>6, <2>1, LockEffects DEF PutUnderMutex, FailedWrite
  <2>3. \A k \in Keys : k # j => data'[k] = data[k]
    BY <1>2, <1>t, <2>2
  <2>4. Overwriting(j)
    BY <1>2, <2>1 DEF Overwriting
  <2>5. owner[j] = "free"
    BY <1>2, <1>3, <2>4 DEF KeyGood, OwnerIs
  <2> QED BY <1>0, <1>1, <1>2, <2>3, <2>5, RequestAtOneLock
<1> QED BY <1>0, <1>4, <1>5, <1>6 DEF OperationStep

\* Between the requests no lock changes hands.
LEMMA CodeRefines ==
  ASSUME LockerInv, NEW c \in Calls, \A k \in Keys : OwnerIs(k) /\ OwnerIs(k)',
         Only(c), data' = data, st[c] # "put", st'[c] # "put",
         \A k \in Keys : OwnsLock(c, k)' <=> OwnsLock(c, k)
  PROVE  owner' = owner
<1>1. ASSUME NEW k \in Keys PROVE owner'[k] = owner[k]
  <2>1. \A d \in Calls : OwnsLock(d, k)' <=> OwnsLock(d, k)
    BY OthersKeep
  <2>2. Overwriting(k)' <=> Overwriting(k)
    BY DEF Overwriting, Only, LockCalls
  <2> QED BY <2>1, <2>2, SameOwner
<1> QED BY <1>1 DEF owner

\* Lock() and Unlock() between their requests.
LEMMA LockCodeRefines ==
  ASSUME LockerInv, NEW c \in LockCalls, \A k \in Keys : OwnerIs(k) /\ OwnerIs(k)',
         (\E k \in Keys : LockStart(c, k)) \/ UnlockStart(c) \/ LockBranch(c) \/ LockTaken(c) \/ UnlockEnd(c)
  PROVE  owner' = owner
<1>t. /\ lock \in [Calls -> {"idle", "locking", "taking", "held", "unlocking"}] /\ name \in [Calls -> Keys]
      /\ st \in [Calls -> {"idle", "request", "session", "lock", "get", "put", "unlock", "return"}]
      /\ call \in [Calls -> Requests \cup {NoRequest}]
      /\ ret  \in [Calls -> Storage!Replies \cup {NoReply}]
      /\ c \in Calls /\ c # Operator /\ Decided
  BY DEF LockerInv, LockPlace, EtcdTypeOK, Storage!StorageTypeOK, LockCalls
<1>1. Only(c) /\ data' = data
  BY <1>t DEF Only, LockStart, UnlockStart, LockBranch, LockTaken, UnlockEnd, Begin, Storage!Invoke,
              Then, EtcdReturn, Storage!Return
<1>2. st'[c] # "put" /\ st[c] # "put"
  BY <1>t DEF LockStart, UnlockStart, LockBranch, LockTaken, UnlockEnd, Begin, Then, EtcdReturn
<1>3. ASSUME NEW k \in Keys PROVE OwnsLock(c, k)' <=> OwnsLock(c, k)
  <2>1. CASE \E j \in Keys : LockStart(c, j)
    BY <1>t, <2>1 DEF LockStart, OwnsLock
  <2>2. CASE UnlockStart(c)
    <3>1. ret'[c] = NoReply
      BY <1>t, <2>2 DEF UnlockStart, Begin, Storage!Invoke, Decided
    <3> QED BY <1>t, <2>2, <3>1 DEF UnlockStart, OwnsLock
  <2>3. CASE LockBranch(c)
    BY <1>t, <2>3 DEF LockBranch, Then, OwnsLock
  <2>4. CASE LockTaken(c)
    BY <1>t, <2>4 DEF LockTaken, EtcdReturn, Storage!Return, OwnsLock
  <2>5. CASE UnlockEnd(c)
    BY <1>t, <2>5 DEF UnlockEnd, EtcdReturn, Storage!Return, OwnsLock
  <2> QED BY <2>1, <2>2, <2>3, <2>4, <2>5
<1> QED BY <1>1, <1>2, <1>3, <1>t, CodeRefines

\* The operator between its requests.
LEMMA OperatorCodeRefines ==
  ASSUME LockerInv, \A k \in Keys : OwnerIs(k) /\ OwnerIs(k)',
         (\E k \in Keys : OperatorGet(k)) \/ OperatorDelete \/ OperatorDone
  PROVE  owner' = owner
<1> DEFINE c == Operator
<1>t. /\ lock \in [Calls -> {"idle", "locking", "taking", "held", "unlocking"}] /\ name \in [Calls -> Keys]
      /\ st \in [Calls -> {"idle", "request", "session", "lock", "get", "put", "unlock", "return"}]
      /\ call \in [Calls -> Requests \cup {NoRequest}]
      /\ ret  \in [Calls -> Storage!Replies \cup {NoReply}]
      /\ c \in Calls /\ c \notin LockCalls
  BY OperatorAssumption DEF LockerInv, LockPlace, EtcdTypeOK, Storage!StorageTypeOK, LockCalls
<1>1. Only(c) /\ data' = data
  BY <1>t DEF Only, OperatorGet, OperatorDelete, OperatorDone, Begin, Storage!Invoke, Then, EtcdReturn,
              Storage!Return
<1>2. st'[c] # "put" /\ st[c] # "put"
  BY <1>t DEF OperatorGet, OperatorDelete, OperatorDone, Begin, Then, EtcdReturn
<1>3. \A k \in Keys : OwnsLock(c, k)' <=> OwnsLock(c, k)
  BY <1>t DEF OwnsLock
<1> QED BY <1>1, <1>2, <1>3, <1>t, CodeRefines

\* A process that ends strands what its goroutines own, and what only they
\* would have overwritten.
LEMMA EndRefines ==
  ASSUME LockerInv, LockerInv', NEW r \in Replicas, ReplicaEnds(r), \A k \in Keys : OwnerIs(k) /\ OwnerIs(k)'
  PROVE  [Abstract!Next]_owner
<1> DEFINE S == {k \in Keys : owner'[k] = "stranded"}
<1>1. /\ data' = data /\ name' = name
      /\ \A d \in Calls : \/ lock'[d] = "idle" /\ st'[d] = "idle"
                          \/ /\ lock'[d] = lock[d] /\ st'[d] = st[d] /\ call'[d] = call[d]
                             /\ ret'[d] = ret[d]
  BY DEF ReplicaEnds, ProcessEnds, Storage!Abandon
<1>2. ASSUME NEW k \in Keys, k \notin S PROVE owner'[k] = owner[k]
  <2>1. \A d \in Calls : OwnsLock(d, k)' => OwnsLock(d, k)
    BY <1>1 DEF OwnsLock
  <2>2. Overwriting(k)' => Overwriting(k)
    BY <1>1 DEF Overwriting, LockCalls
  <2>3. CASE \E d \in Calls : OwnsLock(d, k)'
    BY <2>1, <2>3 DEF OwnerIs
  <2>4. CASE \A d \in Calls : ~OwnsLock(d, k)'
    <3>1. data[k] # "locked" \/ Overwriting(k)
      BY <1>1, <1>2, <2>2, <2>4 DEF OwnerIs
    <3>2. KeyGood(k)
      BY GoodKeys DEF LockerInv
    <3>3. \A d \in Calls : ~OwnsLock(d, k)
      BY <3>1, <3>2 DEF KeyGood
    <3> QED BY <1>2, <2>4, <3>1, <3>3 DEF OwnerIs
  <2> QED BY <2>3, <2>4
<1>3. owner' = [k \in Keys |-> IF k \in S THEN "stranded" ELSE owner[k]]
  BY <1>2 DEF owner
<1> QED BY <1>3 DEF Abstract!Next, Abstract!Strand

\* A late write strands a lock or frees it: nobody gets one.
LEMMA LateRefines ==
  ASSUME LockerInv, LateWrite, UNCHANGED <<lock, name>>, \A k \in Keys : OwnerIs(k) /\ OwnerIs(k)'
  PROVE  [Abstract!Next]_owner
<1>t. data \in [Keys -> Values \cup {Absent}] /\ late \subseteq LateWrites
  BY DEF LockerInv, EtcdTypeOK, Storage!StorageTypeOK
<1>1. PICK w \in late : data' = Storage!Effect(w, data)
  BY DEF LateWrite
<1>2. PICK j \in Keys : w \in {SwapOf(j, "unlocked", "locked"), SwapOf(j, "locked", "unlocked"),
                               DeleteOf(j), WriteOf(PutOf(j))}
  BY <1>t DEF LateWrites
<1>3. data' = data \/ \E v : data' = [data EXCEPT ![j] = v]
  BY <1>1, <1>2, LockEffects
<1>4. \A k \in Keys : /\ \A d \in Calls : OwnsLock(d, k)' <=> OwnsLock(d, k)
                      /\ Overwriting(k)' <=> Overwriting(k)
  BY SameCode DEF LateWrite
<1>5. ASSUME NEW k \in Keys, k # j PROVE owner'[k] = owner[k]
  <2>1. data'[k] = data[k]
    BY <1>3, <1>5, <1>t
  <2> QED BY <1>4, <2>1, SameOwner
<1> QED BY <1>4, <1>5, OneLock

\* The mutex of PutIfAbsent is not the lock.
LEMMA LeaseRefines ==
  ASSUME NEW j \in Keys, LeaseExpires(j) \/ UNCHANGED etcdVars, UNCHANGED <<lock, name>>,
         \A k \in Keys : OwnerIs(k) /\ OwnerIs(k)'
  PROVE  owner' = owner
<1>1. UNCHANGED <<lock, name, call, ret, st, data>>
  BY DEF LeaseExpires, etcdVars
<1>2. ASSUME NEW k \in Keys PROVE owner'[k] = owner[k]
  BY <1>1, SameCode, SameOwner
<1> QED BY <1>2 DEF owner

\* Initially every lock is free.
LEMMA OwnersInit == LockerInit => Abstract!Init
<1> SUFFICES ASSUME LockerInit PROVE owner \in [Keys -> {"free"}]
  BY DEF Abstract!Init
<1>1. \A c \in Calls, k \in Keys : ~OwnsLock(c, k)
  BY DEF LockerInit, OwnsLock
<1>2. \A k \in Keys : data[k] # "locked"
  BY AbsentIsNoValue DEF LockerInit, EtcdInit, Storage!StorageInit
<1> QED BY <1>1, <1>2 DEF owner

\* Every step of the lock over etcd is one of the mutex, or changes no owner.
LEMMA OwnersNext ==
  LockerInv /\ LockerInv' /\ [LockerNext]_lockerVars => [Abstract!Next]_owner
<1> SUFFICES ASSUME LockerInv, LockerInv', [LockerNext]_lockerVars PROVE [Abstract!Next]_owner
  OBVIOUS
<1>1. (\A k \in Keys : OwnerIs(k)) /\ (\A k \in Keys : OwnerIs(k))'
  BY OwnerLemma, PTL
<1>2. \A k \in Keys : OwnerIs(k) /\ OwnerIs(k)'
  BY <1>1
<1>3. ASSUME NEW c \in Calls, Request(c) PROVE [Abstract!Next]_owner
  BY <1>2, <1>3, RequestRefines DEF LockerInv
<1>4. ASSUME NEW c \in LockCalls, (\E k \in Keys : LockStart(c, k)) \/ UnlockStart(c) \/ LockStep(c)
      PROVE  [Abstract!Next]_owner
  BY <1>2, <1>3, <1>4, LockCodeRefines DEF LockStep, LockCalls
<1>5. ASSUME (\E k \in Keys : OperatorGet(k)) \/ OperatorStep PROVE [Abstract!Next]_owner
  BY <1>2, <1>3, <1>5, OperatorCodeRefines, OperatorAssumption DEF OperatorStep
<1>6. ASSUME NEW r \in Replicas, ReplicaEnds(r) PROVE [Abstract!Next]_owner
  BY <1>2, <1>6, EndRefines
<1>7. ASSUME LateWrite \/ \E k \in Keys : LeaseExpires(k), UNCHANGED <<lock, name>>
      PROVE  [Abstract!Next]_owner
  BY <1>2, <1>7, LateRefines, LeaseRefines
<1>8. CASE UNCHANGED lockerVars
  <2>1. UNCHANGED etcdVars /\ UNCHANGED <<lock, name>>
    BY <1>8 DEF lockerVars
  <2>2. Keys # {}
    BY OperatorAssumption DEF LockerInv, LockPlace
  <2> QED BY <1>2, <2>1, <2>2, LeaseRefines
<1> QED BY <1>4, <1>5, <1>6, <1>7, <1>8 DEF LockerNext

\* The lock over etcd, request by request, implements the abstract mutex: a
\* write that is executed late strands a free channel or frees a stranded one,
\* and never takes the lock from its owner (escrow/lock.go over
\* etcddb/etcddb_client.go).
THEOREM EtcdLockIsMutex == LockerSpec => LateWritesAreHarmless
  BY OwnersInit, OwnersNext, LockerInvariant, PTL DEF LockerSpec, LateWritesAreHarmless, Abstract!Spec
=============================================================================

---------------------------- MODULE StorageProofs --------------------------
(***************************************************************************)
(* The two storages are the atomic storage that the daemon takes them for, *)
(* and every process finds what is stored: for any number of goroutines,   *)
(* processes, keys, values, channels and failures.                         *)
(***************************************************************************)
EXTENDS EtcdClient, MemoryStorage, TypedStorage, TLAPS

(***************************************************************************)
(* The etcd client, as long as nobody uses a plain Put on the same keys    *)
(* and no write is executed late.                                          *)
(***************************************************************************)

\* The condition: what the lock's callers ask for, and timely writes.
Disciplined == MaxLate = 0 /\ \A q \in Requests : q.kind # "put"

USE DEF Goto, Decide, Key, Fault

\* What is executed for a request keeps the storage's type.
LEMMA EffectType ==
  ASSUME NEW d \in [Keys -> Values \cup {Absent}], NEW q \in Storage!AllRequests
  PROVE  /\ Storage!Effect(q, d) \in [Keys -> Values \cup {Absent}]
         /\ Storage!Reply(q, d) \in Storage!Replies
         /\ Storage!Error \in Storage!Replies
<1>1. Storage!Effect(q, d) \in [Keys -> Values \cup {Absent}]
  BY DEF Storage!Effect, Storage!Written, Storage!AllRequests
<1>2. Storage!Reply(q, d) \in Storage!Replies
  BY DEF Storage!Reply, Storage!Replies, Storage!Found, Storage!Applies
<1>3. Storage!Error \in Storage!Replies
  BY DEF Storage!Error, Storage!Replies
<1> QED BY <1>1, <1>2, <1>3

\* A conditional write leaves a key that is absent absent, unless it is a
\* PutIfAbsent.
LEMMA AbsentStays ==
  ASSUME NEW d \in [Keys -> Values \cup {Absent}], NEW q \in Storage!AllRequests,
         q.kind \notin {"put", "putIfAbsent"}, Absent \notin Values
  PROVE  \A k \in Keys : d[k] = Absent => Storage!Effect(q, d)[k] = Absent
BY DEF Storage!Effect, Storage!Applies, Storage!Written, Storage!IsRead, Storage!AllRequests, Storage!Kinds

\* The inductive invariant holds at the start ...
LEMMA InvInit == EtcdInit => EtcdInv
BY StorageAssumption, EtcdAssumption
   DEF EtcdInit, EtcdInv, EtcdTypeOK, Decided, OwnsMutex, LateIsGiven, WritesOnlyIfAbsent,
       Storage!StorageInit, Storage!StorageTypeOK, Storage!WellFormed

\* ... every action keeps the types ...
LEMMA TypeStep ==
  ASSUME EtcdTypeOK, Decided, EtcdNext
  PROVE  EtcdTypeOK'
<1> USE StorageAssumption, EtcdAssumption DEF Storage!WellFormed, EtcdTypeOK, Storage!StorageTypeOK
<1>e. \A q \in Storage!AllRequests : \A d \in [Keys -> Values \cup {Absent}] :
         /\ Storage!Effect(q, d) \in [Keys -> Values \cup {Absent}]
         /\ Storage!Reply(q, d) \in Storage!Replies
         /\ Storage!Error \in Storage!Replies
  BY EffectType
<1>r. Storage!Error \in Storage!Replies
  BY DEF Storage!Error, Storage!Replies
<1>w. ASSUME NEW q \in Requests PROVE WriteOf(q) \in Storage!AllRequests
  BY DEF WriteOf, Storage!AllRequests, Storage!Kinds
<1>f. ASSUME NEW w \in Storage!AllRequests, FailedWrite(w)
      PROVE  /\ data' \in [Keys -> Values \cup {Absent}]
             /\ late' \subseteq Storage!AllRequests
             /\ given' \in 0 .. MaxLate
  BY <1>f, <1>e DEF FailedWrite
<1>1. ASSUME NEW c \in Calls, NEW q \in Requests, Begin(c, q) PROVE EtcdTypeOK'
  BY <1>1 DEF Begin, Storage!Invoke
<1>2. ASSUME NEW c \in Calls, EtcdRequest(c) PROVE EtcdTypeOK'
  <2>0. call[c] \in Requests BY <1>2 DEF EtcdRequest, Decided
  <2>1. CASE Storage!Perform(c) /\ UNCHANGED <<late, given, faults>>
    BY <1>2, <1>e, <2>0, <2>1 DEF EtcdRequest, Storage!Perform
  <2>2. CASE /\ Fault /\ Decide(c, Storage!Error)
             /\ IF Storage!IsRead(call[c]) THEN UNCHANGED <<data, late, given>>
                                           ELSE FailedWrite(call[c])
             /\ UNCHANGED call
    <3>1. /\ data' \in [Keys -> Values \cup {Absent}]
          /\ late' \subseteq Storage!AllRequests
          /\ given' \in 0 .. MaxLate
      BY <1>f, <2>0, <2>2
    <3> QED BY <1>2, <1>e, <2>0, <2>2, <3>1 DEF EtcdRequest
  <2> QED BY <1>2, <2>1, <2>2 DEF EtcdRequest
<1>3. ASSUME NEW c \in Calls, NewSession(c) PROVE EtcdTypeOK'
  BY <1>3, <1>r DEF NewSession
<1>4. ASSUME NEW c \in Calls, LockMutex(c) PROVE EtcdTypeOK'
  <2>0. call[c] \in Requests /\ Key(c) \in Keys
    BY <1>4 DEF LockMutex, Decided, Storage!AllRequests
  <2> QED BY <1>4, <1>r, <2>0 DEF LockMutex
<1>5. ASSUME NEW c \in Calls, GetUnderMutex(c) PROVE EtcdTypeOK'
  <2>0. call[c] \in Requests BY <1>5 DEF GetUnderMutex, Decided
  <2> QED BY <1>5, <1>e, <2>0 DEF GetUnderMutex
<1>6. ASSUME NEW c \in Calls, PutUnderMutex(c) PROVE EtcdTypeOK'
  <2>0. call[c] \in Requests BY <1>6 DEF PutUnderMutex, Decided
  <2>w. WriteOf(call[c]) \in Storage!AllRequests BY <2>0, <1>w
  <2>1. CASE /\ data' = Storage!Effect(WriteOf(call[c]), data)
             /\ Decide(c, [ok |-> TRUE, err |-> FALSE, found |-> {}])
             /\ UNCHANGED <<late, given, faults>>
    BY <1>6, <1>e, <2>w, <2>1 DEF PutUnderMutex, Storage!Replies
  <2>2. CASE Fault /\ Decide(c, Storage!Error) /\ FailedWrite(WriteOf(call[c]))
    BY <1>6, <1>e, <1>f, <2>w, <2>2 DEF PutUnderMutex
  <2> QED BY <1>6, <2>1, <2>2 DEF PutUnderMutex
<1>7. ASSUME NEW c \in Calls, UnlockMutex(c) PROVE EtcdTypeOK'
  BY <1>7 DEF UnlockMutex
<1>8. ASSUME NEW c \in Calls, EtcdReturn(c) PROVE EtcdTypeOK'
  BY <1>8 DEF EtcdReturn, Storage!Return
<1>9. CASE LateWrite
  BY <1>9, <1>e DEF LateWrite
<1>10. ASSUME NEW r \in Replicas, ProcessEnds(r) PROVE EtcdTypeOK'
  BY <1>10 DEF ProcessEnds, Storage!Abandon
<1>11. ASSUME NEW k \in Keys, LeaseExpires(k) PROVE EtcdTypeOK'
  BY <1>11 DEF LeaseExpires
<1> QED BY <1>1, <1>2, <1>3, <1>4, <1>5, <1>6, <1>7, <1>8, <1>9, <1>10, <1>11
        DEF EtcdNext, OperationStep, EtcdEnvironment

\* ... the outcome of an operation and its place in the code stay in step ...
LEMMA DecidedStep ==
  ASSUME EtcdTypeOK, Decided, EtcdNext
  PROVE  Decided'
<1> USE StorageAssumption DEF Storage!WellFormed, EtcdTypeOK, Storage!StorageTypeOK, Decided
<1>r. /\ Storage!Error # NoReply
      /\ [ok |-> TRUE, err |-> FALSE, found |-> {}] # NoReply
      /\ \A q \in Requests : Storage!Reply(q, data) # NoReply
  <2>1. Storage!Error \in Storage!Replies /\ [ok |-> TRUE, err |-> FALSE, found |-> {}] \in Storage!Replies
    BY DEF Storage!Error, Storage!Replies
  <2>2. \A q \in Requests : Storage!Reply(q, data) \in Storage!Replies
    BY EffectType
  <2> QED BY <2>1, <2>2
<1>1. ASSUME NEW c \in Calls, NEW q \in Requests, Begin(c, q) PROVE Decided'
  BY <1>1 DEF Begin, Storage!Invoke
<1>2. ASSUME NEW c \in Calls, EtcdRequest(c) PROVE Decided'
  <2>1. /\ st[c] = "request" /\ st' = [st EXCEPT ![c] = "return"] /\ call' = call
        /\ \E r : r # NoReply /\ ret' = [ret EXCEPT ![c] = r]
    BY <1>2, <1>r DEF EtcdRequest, Storage!Perform
  <2> QED BY <2>1
<1>3. ASSUME NEW c \in Calls, NewSession(c) PROVE Decided'
  BY <1>3, <1>r DEF NewSession
<1>4. ASSUME NEW c \in Calls, LockMutex(c) PROVE Decided'
  BY <1>4, <1>r DEF LockMutex
<1>5. ASSUME NEW c \in Calls, GetUnderMutex(c) PROVE Decided'
  BY <1>5, <1>r DEF GetUnderMutex
<1>6. ASSUME NEW c \in Calls, PutUnderMutex(c) PROVE Decided'
  BY <1>6, <1>r DEF PutUnderMutex
<1>7. ASSUME NEW c \in Calls, UnlockMutex(c) PROVE Decided'
  BY <1>7 DEF UnlockMutex
<1>8. ASSUME NEW c \in Calls, EtcdReturn(c) PROVE Decided'
  BY <1>8 DEF EtcdReturn, Storage!Return
<1>9. CASE LateWrite
  BY <1>9 DEF LateWrite
<1>10. ASSUME NEW r \in Replicas, ProcessEnds(r) PROVE Decided'
  BY <1>10 DEF ProcessEnds, Storage!Abandon
<1>11. ASSUME NEW k \in Keys, LeaseExpires(k) PROVE Decided'
  BY <1>11 DEF LeaseExpires
<1> QED BY <1>1, <1>2, <1>3, <1>4, <1>5, <1>6, <1>7, <1>8, <1>9, <1>10, <1>11
        DEF EtcdNext, OperationStep, EtcdEnvironment

\* ... a PutIfAbsent keeps its mutex until it gives it back ...
LEMMA MutexStep ==
  ASSUME EtcdTypeOK, Decided, OwnsMutex, EtcdNext
  PROVE  OwnsMutex'
<1> USE StorageAssumption, EtcdAssumption
    DEF Storage!WellFormed, EtcdTypeOK, Storage!StorageTypeOK, Decided, OwnsMutex
<1>k. \A c \in Calls : st[c] # "idle" => Key(c) \in Keys
  BY DEF Storage!AllRequests
<1>1. ASSUME NEW c \in Calls, NEW q \in Requests, Begin(c, q) PROVE OwnsMutex'
  BY <1>1 DEF Begin, Storage!Invoke
<1>2. ASSUME NEW c \in Calls, EtcdRequest(c) PROVE OwnsMutex'
  BY <1>2 DEF EtcdRequest, Storage!Perform
<1>3. ASSUME NEW c \in Calls, NewSession(c) PROVE OwnsMutex'
  BY <1>3 DEF NewSession
<1>4. ASSUME NEW c \in Calls, LockMutex(c) PROVE OwnsMutex'
  BY <1>4, <1>k DEF LockMutex
<1>5. ASSUME NEW c \in Calls, GetUnderMutex(c) PROVE OwnsMutex'
  BY <1>5 DEF GetUnderMutex
<1>6. ASSUME NEW c \in Calls, PutUnderMutex(c) PROVE OwnsMutex'
  BY <1>6 DEF PutUnderMutex
<1>7. ASSUME NEW c \in Calls, UnlockMutex(c) PROVE OwnsMutex'
  BY <1>7, <1>k DEF UnlockMutex
<1>8. ASSUME NEW c \in Calls, EtcdReturn(c) PROVE OwnsMutex'
  BY <1>8 DEF EtcdReturn, Storage!Return
<1>9. CASE LateWrite
  BY <1>9 DEF LateWrite
<1>10. ASSUME NEW r \in Replicas, ProcessEnds(r) PROVE OwnsMutex'
  BY <1>10, <1>k DEF ProcessEnds, Storage!Abandon
<1>11. ASSUME NEW k \in Keys, LeaseExpires(k) PROVE OwnsMutex'
  BY <1>11, <1>k DEF LeaseExpires
<1> QED BY <1>1, <1>2, <1>3, <1>4, <1>5, <1>6, <1>7, <1>8, <1>9, <1>10, <1>11
        DEF EtcdNext, OperationStep, EtcdEnvironment

\* ... nothing is late before something was given up ...
LEMMA LateStep ==
  ASSUME EtcdTypeOK, LateIsGiven, EtcdNext
  PROVE  LateIsGiven'
BY EtcdAssumption
   DEF EtcdTypeOK, LateIsGiven, EtcdNext, OperationStep, EtcdEnvironment, Begin, EtcdRequest,
       FailedWrite, NewSession, LockMutex, GetUnderMutex, PutUnderMutex, UnlockMutex,
       EtcdReturn, LateWrite, ProcessEnds, LeaseExpires,
       Storage!Invoke, Storage!Perform, Storage!Return, Storage!Abandon

\* ... and, with disciplined users, a key that PutIfAbsent has seen absent
\* stays absent until its Put: a CompareAndSwap needs a value, and another
\* PutIfAbsent needs the mutex.
LEMMA AbsentStep ==
  ASSUME Disciplined, EtcdInv, EtcdNext
  PROVE  WritesOnlyIfAbsent'
<1> USE StorageAssumption, EtcdAssumption DEF Storage!WellFormed
<1>t. EtcdTypeOK /\ Decided /\ OwnsMutex /\ LateIsGiven /\ WritesOnlyIfAbsent
  BY DEF EtcdInv
<1>k. \A c \in Calls : st[c] # "idle" => call[c] \in Requests /\ call[c] \in Storage!AllRequests
                                        /\ Key(c) \in Keys
  BY <1>t DEF EtcdTypeOK, Storage!StorageTypeOK, Decided, Storage!AllRequests
<1>d. data \in [Keys -> Values \cup {Absent}] /\ st \in [Calls -> {"idle", "request", "session",
         "lock", "get", "put", "unlock", "return"}] /\ call \in [Calls -> Requests \cup {NoRequest}]
  BY <1>t DEF EtcdTypeOK, Storage!StorageTypeOK
<1>l. late = {}
  BY <1>t DEF LateIsGiven, EtcdTypeOK, Disciplined
<1>0. SUFFICES ASSUME NEW d \in Calls, st'[d] = "put" PROVE data'[call'[d].key] = Absent
  BY DEF WritesOnlyIfAbsent
<1>h. st[d] = "put" => data[Key(d)] = Absent /\ mutex[Key(d)] = d /\ Key(d) \in Keys
  BY <1>t, <1>k DEF WritesOnlyIfAbsent, OwnsMutex
<1>1. ASSUME NEW c \in Calls, NEW q \in Requests, Begin(c, q) PROVE data'[call'[d].key] = Absent
  BY <1>0, <1>1, <1>d, <1>h DEF Begin, Storage!Invoke
<1>2. ASSUME NEW c \in Calls, EtcdRequest(c) PROVE data'[call'[d].key] = Absent
  <2>1. /\ st[d] = "put" /\ call' = call
        /\ data' = data \/ data' = Storage!Effect(call[c], data)
    BY <1>0, <1>2, <1>d DEF EtcdRequest, Storage!Perform, FailedWrite
  <2>2. call[c].kind \notin {"put", "putIfAbsent"} /\ call[c] \in Storage!AllRequests
    BY <1>2, <1>k, <1>t DEF EtcdRequest, Decided, Disciplined
  <2>3. \A k \in Keys : data[k] = Absent => Storage!Effect(call[c], data)[k] = Absent
    BY <2>2, <1>d, AbsentStays
  <2> QED BY <2>1, <2>3, <1>h
<1>3. ASSUME NEW c \in Calls, NewSession(c) PROVE data'[call'[d].key] = Absent
  BY <1>0, <1>3, <1>d, <1>h DEF NewSession
<1>4. ASSUME NEW c \in Calls, LockMutex(c) PROVE data'[call'[d].key] = Absent
  BY <1>0, <1>4, <1>d, <1>h DEF LockMutex
<1>5. ASSUME NEW c \in Calls, GetUnderMutex(c) PROVE data'[call'[d].key] = Absent
  BY <1>0, <1>5, <1>d, <1>h DEF GetUnderMutex
<1>6. ASSUME NEW c \in Calls, PutUnderMutex(c) PROVE data'[call'[d].key] = Absent
  <2>1. st[c] = "put" /\ st[d] = "put" /\ c # d /\ call' = call
    BY <1>0, <1>6, <1>d DEF PutUnderMutex
  <2>2. mutex[Key(c)] = c /\ Key(c) # Key(d)
    BY <2>1, <1>h, <1>t DEF OwnsMutex
  <2>3. data' = data \/ data' = Storage!Effect(WriteOf(call[c]), data)
    BY <1>6 DEF PutUnderMutex, FailedWrite
  <2>4. WriteOf(call[c]).key = Key(c)
    BY <1>k, <2>1 DEF WriteOf, Storage!AllRequests
  <2>5. Storage!Effect(WriteOf(call[c]), data)[Key(d)] = data[Key(d)]
    BY <2>2, <2>4, <1>d, <1>h, <2>1 DEF Storage!Effect
  <2> QED BY <2>1, <2>3, <2>5, <1>h
<1>7. ASSUME NEW c \in Calls, UnlockMutex(c) PROVE data'[call'[d].key] = Absent
  BY <1>0, <1>7, <1>d, <1>h DEF UnlockMutex
<1>8. ASSUME NEW c \in Calls, EtcdReturn(c) PROVE data'[call'[d].key] = Absent
  BY <1>0, <1>8, <1>d, <1>h DEF EtcdReturn, Storage!Return
<1>9. CASE LateWrite
  BY <1>9, <1>l DEF LateWrite
<1>10. ASSUME NEW r \in Replicas, ProcessEnds(r) PROVE data'[call'[d].key] = Absent
  BY <1>0, <1>10, <1>d, <1>h DEF ProcessEnds, Storage!Abandon
<1>11. ASSUME NEW k \in Keys, LeaseExpires(k) PROVE data'[call'[d].key] = Absent
  BY <1>0, <1>11, <1>d, <1>h DEF LeaseExpires
<1> QED BY <1>1, <1>2, <1>3, <1>4, <1>5, <1>6, <1>7, <1>8, <1>9, <1>10, <1>11
        DEF EtcdNext, OperationStep, EtcdEnvironment

\* The inductive invariant of the client with disciplined users, for any
\* number of goroutines, processes, keys and failures.
THEOREM EtcdInvariant == ASSUME Disciplined PROVE EtcdSpec => []EtcdInv
<1>1. EtcdInv /\ [EtcdNext]_etcdVars => EtcdInv'
  <2>1. CASE EtcdNext
    BY <2>1, TypeStep, DecidedStep, MutexStep, LateStep, AbsentStep DEF EtcdInv
  <2>2. CASE UNCHANGED etcdVars
    BY <2>2 DEF etcdVars, EtcdInv, EtcdTypeOK, Storage!StorageTypeOK, Decided, OwnsMutex,
                LateIsGiven, WritesOnlyIfAbsent, Key
  <2> QED BY <2>1, <2>2
<1> QED BY <1>1, InvInit, PTL DEF EtcdSpec

\* PutIfAbsent writes only if the key is absent (atomic_storage.go:17).
THEOREM PutIfAbsentIsAtomic == ASSUME Disciplined PROVE EtcdSpec => []WritesOnlyIfAbsent
BY EtcdInvariant, PTL DEF EtcdInv

\* A step of the client is a step of the atomic storage, or none: PutIfAbsent
\* takes effect at its Get if the key is present, and at its Put otherwise.
LEMMA StorageStep ==
  ASSUME Disciplined, EtcdInv, EtcdNext
  PROVE  [Storage!StorageNext]_Storage!storageVars
<1> USE StorageAssumption DEF Storage!WellFormed
<1>t. EtcdTypeOK /\ Decided /\ LateIsGiven /\ WritesOnlyIfAbsent
  BY DEF EtcdInv
<1>k. \A c \in Calls : st[c] # "idle" =>
         call[c] \in Requests /\ call[c] \in Storage!AllRequests /\ call[c] # NoRequest
  BY <1>t DEF EtcdTypeOK, Storage!StorageTypeOK, Decided
<1>l. late = {}
  BY <1>t, EtcdAssumption DEF LateIsGiven, EtcdTypeOK, Disciplined
<1>p. \A c \in Calls : st[c] \notin {"idle", "unlock", "return"} => Storage!Pending(c)
  BY <1>k, <1>t DEF Decided, Storage!Pending
<1>f. ASSUME NEW c \in Calls, NEW w, Storage!Effect(w, data) \in {data, Storage!Effect(call[c], data)},
             FailedWrite(w)
      PROVE  data' \in {data, Storage!Effect(call[c], data)}
  BY <1>f, EtcdAssumption, <1>t DEF FailedWrite, EtcdTypeOK, Disciplined
<1>1. ASSUME NEW c \in Calls, NEW q \in Requests, Begin(c, q) PROVE Storage!StorageNext
  BY <1>1 DEF Begin, Storage!StorageNext
<1>2. ASSUME NEW c \in Calls, EtcdRequest(c) PROVE Storage!StorageNext
  <2>1. CASE Storage!Perform(c)
    BY <2>1 DEF Storage!StorageNext
  <2>2. CASE /\ Decide(c, Storage!Error)
             /\ IF Storage!IsRead(call[c]) THEN UNCHANGED <<data, late, given>>
                                           ELSE FailedWrite(call[c])
             /\ UNCHANGED call
    <3>1. data' \in {data, Storage!Effect(call[c], data)} BY <2>2, <1>f
    <3>2. Storage!Fail(c) BY <1>2, <1>p, <2>2, <3>1 DEF Storage!Fail, EtcdRequest
    <3> QED BY <3>2 DEF Storage!StorageNext
  <2> QED BY <1>2, <2>1, <2>2 DEF EtcdRequest
<1>3. ASSUME NEW c \in Calls, NewSession(c) PROVE [Storage!StorageNext]_Storage!storageVars
  <2>1. Storage!Fail(c) \/ UNCHANGED <<data, call, ret>>
    BY <1>3, <1>p DEF NewSession, Storage!Fail
  <2> QED BY <2>1 DEF Storage!StorageNext, Storage!storageVars
<1>4. ASSUME NEW c \in Calls, LockMutex(c) PROVE [Storage!StorageNext]_Storage!storageVars
  <2>1. Storage!Fail(c) \/ UNCHANGED <<data, call, ret>>
    BY <1>4, <1>p DEF LockMutex, Storage!Fail
  <2> QED BY <2>1 DEF Storage!StorageNext, Storage!storageVars
<1>5. ASSUME NEW c \in Calls, GetUnderMutex(c) PROVE [Storage!StorageNext]_Storage!storageVars
  <2>1. call[c].kind = "putIfAbsent" /\ call[c] \in Storage!AllRequests /\ Storage!Pending(c)
    BY <1>5, <1>k, <1>t, <1>p DEF GetUnderMutex, Decided
  <2>2. data[Key(c)] # Absent => Storage!Effect(call[c], data) = data
    BY <2>1 DEF Storage!Effect, Storage!Applies
  <2>3. Storage!Perform(c) \/ Storage!Fail(c) \/ UNCHANGED <<data, call, ret>>
    BY <1>5, <2>1, <2>2 DEF GetUnderMutex, Storage!Fail, Storage!Perform
  <2> QED BY <2>3 DEF Storage!StorageNext, Storage!storageVars
<1>6. ASSUME NEW c \in Calls, PutUnderMutex(c) PROVE Storage!StorageNext
  <2>1. /\ call[c].kind = "putIfAbsent" /\ call[c] \in Storage!AllRequests /\ Storage!Pending(c)
        /\ data[call[c].key] = Absent
    BY <1>6, <1>k, <1>t, <1>p DEF PutUnderMutex, Decided, WritesOnlyIfAbsent
  <2>2. Storage!Effect(WriteOf(call[c]), data) = Storage!Effect(call[c], data)
    BY <2>1 DEF Storage!Effect, Storage!Applies, Storage!Written, Storage!IsRead, WriteOf,
                Storage!AllRequests
  <2>3. Storage!Reply(call[c], data) = [ok |-> TRUE, err |-> FALSE, found |-> {}]
    BY <2>1 DEF Storage!Reply, Storage!Applies, Storage!Found, Storage!IsRead
  <2>4. CASE /\ data' = Storage!Effect(WriteOf(call[c]), data)
             /\ Decide(c, [ok |-> TRUE, err |-> FALSE, found |-> {}])
    BY <1>6, <2>1, <2>2, <2>3, <2>4 DEF PutUnderMutex, Storage!Perform, Storage!StorageNext
  <2>5. CASE Decide(c, Storage!Error) /\ FailedWrite(WriteOf(call[c]))
    <3>1. data' \in {data, Storage!Effect(call[c], data)} BY <2>2, <2>5, <1>f
    <3>2. Storage!Fail(c) BY <1>6, <2>1, <2>5, <3>1 DEF Storage!Fail, PutUnderMutex
    <3> QED BY <3>2 DEF Storage!StorageNext
  <2> QED BY <1>6, <2>4, <2>5 DEF PutUnderMutex
<1>7. ASSUME NEW c \in Calls, UnlockMutex(c) PROVE [Storage!StorageNext]_Storage!storageVars
  BY <1>7 DEF UnlockMutex, Storage!storageVars
<1>8. ASSUME NEW c \in Calls, EtcdReturn(c) PROVE Storage!StorageNext
  BY <1>8 DEF EtcdReturn, Storage!StorageNext
<1>9. CASE LateWrite
  BY <1>9, <1>l DEF LateWrite
<1>10. ASSUME NEW r \in Replicas, ProcessEnds(r) PROVE Storage!StorageNext
  BY <1>10 DEF ProcessEnds, Storage!StorageNext
<1>11. ASSUME NEW k \in Keys, LeaseExpires(k) PROVE [Storage!StorageNext]_Storage!storageVars
  BY <1>11 DEF LeaseExpires, Storage!storageVars
<1> QED BY <1>1, <1>2, <1>3, <1>4, <1>5, <1>6, <1>7, <1>8, <1>9, <1>10, <1>11
        DEF EtcdNext, OperationStep, EtcdEnvironment

\* The etcd client with disciplined users implements the atomic storage.
THEOREM EtcdIsAtomicStorage == ASSUME Disciplined PROVE EtcdSpec => ImplementsAtomicStorage
<1>1. EtcdInit => Storage!StorageInit
  BY DEF EtcdInit
<1>2. EtcdInv /\ [EtcdNext]_etcdVars => [Storage!StorageNext]_Storage!storageVars
  <2>1. CASE UNCHANGED etcdVars
    BY <2>1 DEF etcdVars, Storage!storageVars
  <2> QED BY <2>1, StorageStep
<1> QED BY <1>1, <1>2, EtcdInvariant, PTL DEF EtcdSpec, ImplementsAtomicStorage, Storage!StorageSpec

----------------------------------------------------------------------------
(* The memory storage. *)

\* Nobody is in an operation at first.
LEMMA MemInitInv == MemInit => MemInv
BY StorageAssumption, MemoryAssumption
   DEF MemInit, MemInv, MemTypeOK, HasItsLock, MemDecided, NoConcurrentMapAccess, Inside,
       Storage!StorageInit, Storage!StorageTypeOK, Storage!WellFormed

\* What the storage answers is an answer.
LEMMA MemReplies ==
  ASSUME MemInv
  PROVE  /\ \A c \in Calls : call[c] # NoRequest =>
              /\ call[c] \in Requests /\ call[c] \in Storage!AllRequests
              /\ Storage!Reply(call[c], data) \in Storage!Replies
         /\ [ok |-> TRUE, err |-> FALSE, found |-> {}] \in Storage!Replies
         /\ NoReply \notin Storage!Replies /\ NoRequest \notin Requests
<1>1. Storage!WellFormed /\ Storage!StorageTypeOK
  BY StorageAssumption DEF MemInv, MemTypeOK
<1>2. \A c \in Calls : call[c] # NoRequest => call[c] \in Requests /\ call[c] \in Storage!AllRequests
  BY <1>1 DEF Storage!WellFormed, Storage!StorageTypeOK
<1>3. \A c \in Calls : call[c] # NoRequest => Storage!Reply(call[c], data) \in Storage!Replies
  BY <1>1, <1>2, EffectType DEF Storage!StorageTypeOK
<1>4. [ok |-> TRUE, err |-> FALSE, found |-> {}] \in Storage!Replies
  BY DEF Storage!Replies
<1> QED BY <1>1, <1>2, <1>3, <1>4 DEF Storage!WellFormed

\* Every step of a goroutine keeps the invariant.
LEMMA MemStepInv ==
  ASSUME MemInv, NEW c \in Calls, (\E q \in Requests : MemBegin(c, q)) \/ MemStep(c)
  PROVE  MemTypeOK' /\ HasItsLock' /\ MemDecided'
<1> USE MemoryAssumption, MemReplies
    DEF MemInv, MemTypeOK, HasItsLock, MemDecided, Inside, Move, Storage!StorageTypeOK
<1>1. ASSUME NEW q \in Requests, MemBegin(c, q) PROVE MemTypeOK' /\ HasItsLock' /\ MemDecided'
  BY <1>1 DEF MemBegin, Storage!Invoke
<1>2. CASE LockStorage(c)
  <2>1. ~Storage!IsRead(call[c]) /\ ~Conditional(call[c]) => Storage!Applies(call[c], data)
    BY DEF Conditional, Storage!Applies
  <2>2. Conditional(call[c]) => ~Storage!IsRead(call[c])
    BY DEF Conditional, Storage!IsRead
  <2> QED BY <1>2, <2>1, <2>2 DEF LockStorage
<1>3. CASE UnsafeGet(c)
  <2>1. Conditional(call[c]) => ~Storage!IsRead(call[c])
    BY DEF Conditional, Storage!IsRead
  <2> QED BY <1>3, <2>1 DEF UnsafeGet
<1>4. CASE UnsafePut(c)
  <2>1. \A d \in Calls \ {c} : at[d] # "write"
    BY <1>4 DEF UnsafePut, NoConcurrentMapAccess
  <2>2. data' \in [Keys -> Values \cup {Absent}]
    BY <1>4 DEF UnsafePut, Storage!Written, Storage!AllRequests
  <2>3. MemTypeOK'
    BY <1>4, <2>2 DEF UnsafePut
  <2>4. HasItsLock'
    BY <1>4 DEF UnsafePut
  <2>5. MemDecided'
    BY <1>4, <2>1 DEF UnsafePut
  <2> QED BY <2>3, <2>4, <2>5
<1>5. CASE UnlockStorage(c)
  BY <1>5 DEF UnlockStorage, Storage!Return
<1> QED BY <1>1, <1>2, <1>3, <1>4, <1>5 DEF MemStep

\* The invariant of the memory storage, for any number of goroutines.
THEOREM MemInvariant == MemSpec => []MemInv
<1>1. MemInv /\ [MemNext]_memVars => MemInv'
  <2> SUFFICES ASSUME MemInv, [MemNext]_memVars PROVE MemInv'
    OBVIOUS
  <2>1. MemTypeOK' /\ HasItsLock' /\ MemDecided'
    <3>1. CASE MemNext
      BY <3>1, MemStepInv DEF MemNext
    <3>2. CASE UNCHANGED memVars
      BY <3>2 DEF memVars, MemInv, MemTypeOK, HasItsLock, MemDecided, Inside, Storage!StorageTypeOK
    <3> QED BY <3>1, <3>2
  <2>2. NoConcurrentMapAccess'
    BY <2>1, MemoryAssumption DEF MemTypeOK, HasItsLock, MemDecided, NoConcurrentMapAccess, Inside
  <2> QED BY <2>1, <2>2 DEF MemInv
<1> QED BY <1>1, MemInitInv, PTL DEF MemSpec

\* No goroutine is at the map of memory_storage.go while another one writes.
THEOREM MapIsNotShared == MemSpec => []NoConcurrentMapAccess
<1>1. MemInv => NoConcurrentMapAccess
  BY DEF MemInv
<1> QED BY <1>1, MemInvariant, PTL

\* An operation takes effect when it reads, if it writes nothing, and when it
\* writes otherwise.
LEMMA MemStorageStep ==
  ASSUME MemInv, MemNext
  PROVE  [Storage!StorageNext]_Storage!storageVars
<1>1. PICK c \in Calls : (\E q \in Requests : MemBegin(c, q)) \/ MemStep(c)
  BY DEF MemNext
<1>t. /\ MemDecided /\ data \in [Keys -> Values \cup {Absent}]
      /\ at[c] # "idle" => call[c] # NoRequest /\ call[c] \in Storage!AllRequests
      /\ at[c] \notin {"idle", "unlock"} => Storage!Pending(c)
  BY MemReplies DEF MemInv, MemTypeOK, MemDecided, Storage!StorageTypeOK, Storage!Pending
<1>2. ASSUME NEW q \in Requests, MemBegin(c, q) PROVE Storage!StorageNext
  BY <1>2 DEF MemBegin, Storage!StorageNext
<1>3. CASE LockStorage(c)
  BY <1>3 DEF LockStorage, Storage!storageVars
<1>4. CASE UnsafeGet(c)
  <2>1. CASE ret' = ret
    BY <1>4, <2>1 DEF UnsafeGet, Storage!storageVars
  <2>2. CASE ret' # ret
    <3>1. /\ at[c] = "read" /\ ret' = [ret EXCEPT ![c] = Storage!Reply(call[c], data)]
          /\ ~(Conditional(call[c]) /\ Storage!Applies(call[c], data)) /\ UNCHANGED <<data, call>>
      BY <1>4, <2>2 DEF UnsafeGet
    <3>2. Storage!IsRead(call[c]) \/ Conditional(call[c])
      BY <3>1, <1>t DEF MemDecided
    <3>3. Storage!Effect(call[c], data) = data
      BY <3>1, <3>2 DEF Storage!Effect
    <3>4. Storage!Perform(c)
      BY <1>t, <3>1, <3>3 DEF Storage!Perform
    <3> QED BY <3>4 DEF Storage!StorageNext
  <2> QED BY <2>1, <2>2
<1>5. CASE UnsafePut(c)
  <2>1. ~Storage!IsRead(call[c]) /\ Storage!Applies(call[c], data) /\ Storage!Pending(c)
    BY <1>5, <1>t DEF UnsafePut, MemDecided
  <2>2. Storage!Effect(call[c], data) = data'
    BY <1>5, <2>1 DEF UnsafePut, Storage!Effect
  <2>3. Storage!Reply(call[c], data) = [ok |-> TRUE, err |-> FALSE, found |-> {}]
    BY <2>1 DEF Storage!Reply, Storage!Found, Storage!IsRead
  <2>4. Storage!Perform(c)
    BY <1>5, <2>1, <2>2, <2>3 DEF UnsafePut, Storage!Perform
  <2> QED BY <2>4 DEF Storage!StorageNext
<1>6. CASE UnlockStorage(c)
  BY <1>6 DEF UnlockStorage, Storage!StorageNext
<1> QED BY <1>1, <1>2, <1>3, <1>4, <1>5, <1>6 DEF MemStep

\* The map under its read-write lock is the atomic storage.
THEOREM MemoryIsAtomicStorage == MemSpec => ImplementsAtomicStorage
<1>1. MemInit => Storage!StorageInit
  BY DEF MemInit
<1>2. MemInv /\ [MemNext]_memVars => [Storage!StorageNext]_Storage!storageVars
  <2>1. CASE UNCHANGED memVars
    BY <2>1 DEF memVars, Storage!storageVars
  <2> QED BY <2>1, MemStorageStep
<1> QED BY <1>1, <1>2, MemInvariant, PTL DEF MemSpec, ImplementsAtomicStorage, Storage!StorageSpec

----------------------------------------------------------------------------
(* The keys of the typed storages. *)

\* A number once given is kept, and a new type gets the next one.
LEMMA NumberKeeps ==
  ASSUME NEW known \in Seq(Types), NEW t \in Types
  PROVE  /\ Number(known, t) \in Seq(Types)
         /\ Number(known, t) # <<>>
         /\ KeyTypesFirst(known) /\ known # <<>> => KeyTypesFirst(Number(known, t))
<1>1. CASE t \in ToSet(known)
  <2>1. Number(known, t) = known /\ known # <<>>
    BY <1>1 DEF Number, ToSet
  <2> QED BY <2>1
<1>2. CASE t \notin ToSet(known)
  <2>1. /\ Number(known, t) = Append(known, t)
        /\ \A i \in 1 .. Len(known) : known[i] # t
    BY <1>2 DEF Number, ToSet
  <2>2. ASSUME KeyTypesFirst(known), known # <<>> PROVE KeyTypesFirst(Append(known, t))
    BY <2>1, <2>2 DEF KeyTypesFirst
  <2> QED BY <2>1, <2>2
<1> QED BY <1>1, <1>2

\* Encoding a key numbers the key's types first, unless they were before.
LEMMA EncodeKey ==
  ASSUME NEW known \in Seq(Types), KeyTypesFirst(known), NEW ch
  PROVE  LET now == Encode("PaymentChannelKey", known) IN
         /\ now \in Seq(Types) /\ now # <<>> /\ KeyTypesFirst(now)
         /\ KeyBytes(ch, now) = <<1, 2, ch>>
<1> DEFINE now == Encode("PaymentChannelKey", known)
<1>0. now = Number(Number(known, "PaymentChannelKey"), "big.Int")
  BY DEF Encode
<1>1. CASE known = <<>>
  <2>1. Number(known, "PaymentChannelKey") = <<"PaymentChannelKey">>
    BY <1>1 DEF Number, ToSet
  <2>2. DOMAIN <<"PaymentChannelKey">> = {1}
    OBVIOUS
  <2>3. "big.Int" \notin ToSet(<<"PaymentChannelKey">>)
    BY <2>2 DEF ToSet
  <2>4. now = Append(<<"PaymentChannelKey">>, "big.Int")
    BY <1>0, <2>1, <2>3 DEF Number
  <2>5. DOMAIN now = 1 .. 2 /\ Len(now) = 2 /\ now[1] = "PaymentChannelKey" /\ now[2] = "big.Int"
    BY <2>4
  <2>6. now \in Seq(Types)
    BY <2>1, <1>0, NumberKeeps DEF Types
  <2> HIDE DEF now
  <2>7. NumberOf("PaymentChannelKey", now) = 1 /\ NumberOf("big.Int", now) = 2
    BY <2>5 DEF NumberOf
  <2>8. now # <<>> /\ KeyTypesFirst(now)
    BY <2>5, <2>6 DEF KeyTypesFirst
  <2> QED BY <2>6, <2>7, <2>8 DEF KeyBytes, now
<1>2. CASE known # <<>>
  <2>1. known[1] = "PaymentChannelKey" /\ known[2] = "big.Int" /\ Len(known) >= 2
    BY <1>2 DEF KeyTypesFirst
  <2>2. "PaymentChannelKey" \in ToSet(known) /\ "big.Int" \in ToSet(known)
    BY <2>1 DEF ToSet
  <2>3. now = known
    BY <1>0, <2>2 DEF Number
  <2>4. \A i \in DOMAIN known : /\ known[i] = "PaymentChannelKey" <=> i = 1
                                /\ known[i] = "big.Int" <=> i = 2
    BY <1>2 DEF KeyTypesFirst
  <2>5. NumberOf("PaymentChannelKey", known) = 1 /\ NumberOf("big.Int", known) = 2
    BY <2>1, <2>4 DEF NumberOf
  <2> QED BY <1>2, <2>3, <2>5 DEF KeyBytes
<1> QED BY <1>1, <1>2

\* Encoding a channel or a payment keeps that.
LEMMA EncodeValue ==
  ASSUME NEW known \in Seq(Types), KeyTypesFirst(known), known # <<>>,
         NEW T \in {"PaymentChannelData", "Payment"}
  PROVE  /\ Encode(T, known) \in Seq(Types) /\ Encode(T, known) # <<>>
         /\ KeyTypesFirst(Encode(T, known))
<1>1. {"PaymentChannelKey", "PaymentChannelData", "Payment", "big.Int", "Address", "GroupID"} = Types
  BY DEF Types
<1> DEFINE Good(k) == k \in Seq(Types) /\ k # <<>> /\ KeyTypesFirst(k)
<1>2. ASSUME NEW k, Good(k), NEW t \in Types PROVE Good(Number(k, t))
  BY <1>2, NumberKeeps
<1>3. Good(known)
  OBVIOUS
<1> HIDE DEF Good
<1>4. CASE T = "PaymentChannelData"
  <2>1. Encode(T, known) = Number(Number(Number(Number(known, "PaymentChannelData"),
                                                "big.Int"), "Address"), "GroupID")
    BY <1>4 DEF Encode
  <2>2. Good(Encode(T, known))
    BY <1>1, <1>2, <1>3, <2>1
  <2> QED BY <2>2 DEF Good
<1>5. CASE T = "Payment"
  <2>1. Encode(T, known) = Number(Number(Number(known, "Payment"), "Address"), "big.Int")
    BY <1>5 DEF Encode
  <2>2. Good(Encode(T, known))
    BY <1>1, <1>2, <1>3, <2>1
  <2> QED BY <2>2 DEF Good
<1> QED BY <1>4, <1>5

\* Every request that writes a payment gets a channel first.
LEMMA AccessOrder ==
  ASSUME NEW kind \in {"pay", "claim", "list", "state"}
  PROVE  /\ Accesses(kind) \in Seq(AccessKinds)
         /\ \A i \in 1 .. Len(Accesses(kind)) :
              Accesses(kind)[i] = "paymentPut" =>
                \E j \in 1 .. Len(Accesses(kind)) : j < i /\ Accesses(kind)[j] = "channelGet"
<1>1. CASE kind = "pay"
  BY <1>1 DEF Accesses, AccessKinds
<1>2. CASE kind = "claim"
  <2>1. Accesses(kind) = <<"channelGet", "paymentList", "paymentDelete", "channelGet",
                           "channelGet", "channelPut", "paymentPut">>
    BY <1>2 DEF Accesses
  <2>2. Len(Accesses(kind)) = 7 /\ Accesses(kind)[1] = "channelGet"
    BY <2>1
  <2>3. Accesses(kind) \in Seq(AccessKinds)
    BY <2>1 DEF AccessKinds
  <2> QED BY <2>2, <2>3
<1>3. CASE kind = "list"
  BY <1>3 DEF Accesses, AccessKinds
<1>4. CASE kind = "state"
  BY <1>4 DEF Accesses, AccessKinds
<1> QED BY <1>1, <1>2, <1>3, <1>4

\* A storage access of a request: it numbers what it encodes, keys first, and
\* the request has one access less to make, or ends.
LEMMA AccessInv ==
  ASSUME TypedInv, NEW c \in Handlers, job[c] # <<>>, Proceed(c), on' = on,
         NEW now \in Seq(Types), Knows(c, now), KeyTypesFirst(now),
         Known(c) # <<>> \/ Head(job[c]) = "channelGet" => now # <<>>,
         channels' \subseteq channels \cup {<<1, 2, on[c]>>}
  PROVE  TypedInv'
<1> USE TypedAssumption DEF TypedInv, TypedTypeOK, Known, Knows
<1>1. /\ job' \in [Handlers -> Seq(AccessKinds)]
      /\ \A d \in Handlers \ {c} : job'[d] = job[d]
      /\ job'[c] \in {Tail(job[c]), <<>>}
  <2>1. job[c] \in Seq(AccessKinds) /\ Tail(job[c]) \in Seq(AccessKinds) /\ <<>> \in Seq(AccessKinds)
    OBVIOUS
  <2> QED BY <2>1 DEF Proceed
<1>2. types' \in [Processes -> Seq(Types)] /\ (\A r \in Processes : KeyTypesFirst(types'[r]))
  OBVIOUS
<1>3. ASSUME NEW d \in Handlers, types'[ProcessOf[d]] = <<>>
      PROVE  types[ProcessOf[d]] = <<>> /\ (d = c => Head(job[c]) # "channelGet")
  BY <1>3
<1>4. ASSUME NEW d \in Handlers, NEW i \in 1 .. Len(job'[d]), job'[d][i] = "paymentPut",
             types'[ProcessOf[d]] = <<>>
      PROVE  \E j \in 1 .. Len(job'[d]) : j < i /\ job'[d][j] = "channelGet"
  <2>1. CASE d # c
    <3>1. job'[d] = job[d] /\ Known(d) = <<>>
      BY <1>1, <1>3, <1>4, <2>1
    <3>2. i \in 1 .. Len(job[d]) /\ job[d][i] = "paymentPut"
      BY <1>4, <3>1
    <3>3. \E j \in 1 .. Len(job[d]) : j < i /\ job[d][j] = "channelGet"
      BY <3>1, <3>2 DEF ChannelBeforePayment
    <3> QED BY <3>1, <3>3
  <2>2. CASE d = c
    <3>1. job[c] \in Seq(AccessKinds) /\ job'[c] = Tail(job[c])
      BY <1>1, <1>4, <2>2
    <3>2. /\ Len(job[c]) = Len(job'[c]) + 1
          /\ \A j \in 1 .. Len(job'[c]) : job'[c][j] = job[c][j + 1]
      BY <3>1
    <3>3. i \in Nat /\ i + 1 \in 1 .. Len(job[c]) /\ job[c][i + 1] = "paymentPut" /\ Known(c) = <<>>
      BY <1>3, <1>4, <2>2, <3>1, <3>2
    <3>4. PICK j \in 1 .. Len(job[c]) : j < i + 1 /\ job[c][j] = "channelGet"
      BY <3>3 DEF ChannelBeforePayment
    <3>5. j # 1
      BY <1>3, <1>4, <2>2, <3>1, <3>4
    <3>6. j - 1 \in 1 .. Len(job'[c]) /\ j - 1 < i /\ job'[c][j - 1] = "channelGet"
      BY <3>1, <3>2, <3>3, <3>4, <3>5
    <3> QED BY <2>2, <3>6
  <2> QED BY <2>1, <2>2
<1>5. ChannelBeforePayment'
  BY <1>4 DEF ChannelBeforePayment
<1>6. \A k \in channels' : \E ch \in Channels : k = <<1, 2, ch>>
  OBVIOUS
<1> QED BY <1>1, <1>2, <1>5, <1>6

\* Every step keeps the invariant.
LEMMA TypedStepInv == TypedInv /\ [TypedNext]_typedVars => TypedInv'
<1> SUFFICES ASSUME TypedInv, [TypedNext]_typedVars PROVE TypedInv'
  OBVIOUS
<1>t. /\ TypedTypeOK /\ ChannelBeforePayment
      /\ \A c \in Handlers : Known(c) \in Seq(Types) /\ KeyTypesFirst(Known(c)) /\ on[c] \in Channels
      /\ \A c \in Handlers : job[c] \in Seq(AccessKinds)
  BY TypedAssumption DEF TypedInv, TypedTypeOK, Known
<1>1. ASSUME NEW c \in Handlers, NEW kind \in {"pay", "claim", "list", "state"}, NEW ch \in Channels,
             Receive(c, kind, ch)
      PROVE  TypedInv'
  <2>1. TypedTypeOK'
    BY <1>t, <1>1, AccessOrder DEF Receive, TypedTypeOK
  <2>2. ChannelBeforePayment'
    <3> SUFFICES ASSUME NEW d \in Handlers, NEW i \in 1 .. Len(job'[d]), job'[d][i] = "paymentPut",
                        Known(d)' = <<>>
                 PROVE  \E j \in 1 .. Len(job'[d]) : j < i /\ job'[d][j] = "channelGet"
      BY DEF ChannelBeforePayment
    <3>1. CASE d = c
      <4>1. job'[d] = Accesses(kind)
        BY <1>t, <1>1, <3>1 DEF Receive, TypedTypeOK
      <4> QED BY <4>1, AccessOrder
    <3>2. CASE d # c
      <4>1. job'[d] = job[d] /\ Known(d) = <<>>
        BY <1>t, <1>1, <3>2 DEF Receive, TypedTypeOK, Known
      <4> QED BY <1>t, <4>1 DEF ChannelBeforePayment
    <3> QED BY <3>1, <3>2
  <2> QED BY <1>1, <2>1, <2>2 DEF Receive, TypedInv
<1>2. ASSUME NEW c \in Handlers, ChannelGet(c) PROVE TypedInv'
  BY <1>2, <1>t, EncodeKey, AccessInv DEF ChannelGet, Doing
<1>3. ASSUME NEW c \in Handlers, ChannelPut(c) PROVE TypedInv'
  <2> DEFINE known == Encode("PaymentChannelKey", Known(c))
             now   == Encode("PaymentChannelData", known)
  <2>1. known \in Seq(Types) /\ known # <<>> /\ KeyTypesFirst(known) /\ KeyBytes(on[c], known) = <<1, 2, on[c]>>
    BY <1>t, EncodeKey
  <2>2. now \in Seq(Types) /\ now # <<>> /\ KeyTypesFirst(now)
    BY <2>1, EncodeValue
  <2>3. /\ job[c] # <<>> /\ Proceed(c) /\ on' = on /\ Knows(c, now)
        /\ channels' = channels \cup {<<1, 2, on[c]>>}
    BY <1>3, <2>1 DEF ChannelPut, Doing
  <2> HIDE DEF now
  <2> QED BY <2>2, <2>3, AccessInv
<1>4. ASSUME NEW c \in Handlers, PaymentPut(c) PROVE TypedInv'
  <2>1. Known(c) # <<>>
    <3>1. Len(job[c]) >= 1 /\ job[c][1] = "paymentPut"
      BY <1>4, <1>t DEF PaymentPut, Doing
    <3>2. ~\E j \in 1 .. Len(job[c]) : j < 1 /\ job[c][j] = "channelGet"
      OBVIOUS
    <3>3. 1 \in 1 .. Len(job[c])
      BY <1>t, <3>1
    <3> QED BY <1>t, <3>1, <3>2, <3>3 DEF ChannelBeforePayment
  <2> DEFINE now == Encode("Payment", Known(c))
  <2>2. now \in Seq(Types) /\ now # <<>> /\ KeyTypesFirst(now)
    BY <1>t, <2>1, EncodeValue
  <2>3. Encode("ID", Known(c)) = Known(c)
    BY DEF Encode
  <2>4. /\ job[c] # <<>> /\ Proceed(c) /\ on' = on /\ Knows(c, now) /\ channels' = channels
    BY <1>4, <2>3 DEF PaymentPut, Doing
  <2> HIDE DEF now
  <2> QED BY <2>2, <2>4, AccessInv
<1>5. ASSUME NEW c \in Handlers, PaymentList(c) \/ PaymentDelete(c) PROVE TypedInv'
  <2>1. Encode("ID", Known(c)) = Known(c)
    BY DEF Encode
  <2>2. types' = types => Knows(c, Known(c))
    BY <1>t DEF Knows, Known, TypedTypeOK
  <2>3. /\ job[c] # <<>> /\ Head(job[c]) # "channelGet" /\ Proceed(c) /\ on' = on
        /\ Knows(c, Known(c)) /\ channels' = channels
    BY <1>5, <2>1, <2>2 DEF PaymentList, PaymentDelete, Doing
  <2> QED BY <1>t, <2>3, AccessInv
<1>6. ASSUME NEW r \in Processes, Restart(r) PROVE TypedInv'
  <2>1. TypedTypeOK'
    BY <1>t, <1>6 DEF Restart, TypedTypeOK
  <2>2. ChannelBeforePayment'
    <3>1. \A d \in Handlers : \/ job'[d] = <<>>
                              \/ job'[d] = job[d] /\ types'[ProcessOf[d]] = types[ProcessOf[d]]
      BY <1>t, <1>6, TypedAssumption DEF Restart, TypedTypeOK
    <3> QED BY <1>t, <3>1 DEF ChannelBeforePayment, Known
  <2>3. \A p \in Processes : KeyTypesFirst(types'[p])
    BY <1>6, <1>t DEF Restart, TypedInv, TypedTypeOK, KeyTypesFirst
  <2> QED BY <1>6, <2>1, <2>2, <2>3 DEF Restart, TypedInv
<1>7. CASE UNCHANGED typedVars
  BY <1>7 DEF typedVars, TypedInv, TypedTypeOK, ChannelBeforePayment, Known
<1> QED BY <1>1, <1>2, <1>3, <1>4, <1>5, <1>6, <1>7 DEF TypedNext

\* What every process has numbered agrees on the types of a key, for any
\* number of processes, requests in progress, channels and restarts.
THEOREM TypedInvariant == TypedSpec => []TypedInv
<1>1. TypedInit => TypedInv
  BY DEF TypedInit, TypedInv, TypedTypeOK, ChannelBeforePayment, KeyTypesFirst
<1> QED BY <1>1, TypedStepInv, PTL DEF TypedSpec

\* A channel that one replica has stored is found by every other, although
\* the key's bytes depend on what a process has encoded before.
THEOREM KeysAgree == TypedSpec => []EveryReplicaFindsIt
<1>1. TypedInv => EveryReplicaFindsIt
  <2> SUFFICES ASSUME TypedInv, NEW k \in channels, NEW r \in Processes
               PROVE  KeyBytes(k[3], Encode("PaymentChannelKey", types[r])) = k
    BY DEF EveryReplicaFindsIt
  <2>1. PICK ch \in Channels : k = <<1, 2, ch>>
    BY DEF TypedInv
  <2>2. types[r] \in Seq(Types) /\ KeyTypesFirst(types[r])
    BY DEF TypedInv, TypedTypeOK
  <2>3. KeyBytes(ch, Encode("PaymentChannelKey", types[r])) = <<1, 2, ch>>
    BY <2>2, EncodeKey
  <2> QED BY <2>1, <2>3
<1> QED BY <1>1, TypedInvariant, PTL
=============================================================================

----------------------------- MODULE EtcdLocker ----------------------------
(***************************************************************************)
(* The channel lock (escrow/lock.go) and the operator's unlock command     *)
(* (snetd/cmd/channel.go) on top of the etcd client, request by request:   *)
(* what Locker takes to be atomic is spelled out, and a write that was     *)
(* given up may still be executed later.                                   *)
(***************************************************************************)
EXTENDS EtcdClient

CONSTANT Operator    \* the goroutine of `snetd channel --unlock`

ASSUME OperatorAssumption == Operator \in Calls

VARIABLES
  lock,   \* lock[c]: where goroutine c is in Lock() ... Unlock()
  name    \* name[c]: the key of the lock it wants or holds

lockerVars == <<etcdVars, lock, name>>

LockCalls == Calls \ {Operator}

GetOf(k)         == [kind |-> "get", key |-> k, old |-> "locked", new |-> "locked"]
SwapOf(k, o, n)  == [kind |-> "cas", key |-> k, old |-> o, new |-> n]
PutOf(k)         == [kind |-> "putIfAbsent", key |-> k, old |-> "locked", new |-> "locked"]
DeleteOf(k)      == [kind |-> "delete", key |-> k, old |-> "locked", new |-> "locked"]
LockRequests(k)  == {GetOf(k), SwapOf(k, "unlocked", "locked"), SwapOf(k, "locked", "unlocked"),
                     PutOf(k), DeleteOf(k)}
LockValues       == {"locked", "unlocked"}

ASSUME LockRequestsAssumption ==
  Values = LockValues /\ Requests = UNION {LockRequests(k) : k \in Keys}

LockerInit == /\ EtcdInit
              /\ lock = [c \in Calls |-> "idle"]
              /\ name \in {[c \in Calls |-> k] : k \in Keys}

At(c, l) == lock[c] = l
Go(c, l) == lock' = [lock EXCEPT ![c] = l]

\* A storage operation is over; the next one, if any, begins in the same step.
Then(c, q) ==
  /\ st[c] = "return"
  /\ call' = [call EXCEPT ![c] = q]
  /\ ret'  = [ret EXCEPT ![c] = NoReply]
  /\ Goto(c, IF q.kind = "putIfAbsent" THEN "session" ELSE "request")
  /\ UNCHANGED <<data, mutex, late, given, faults>>

\* Lock(name): Get.
LockStart(c, k) ==
  /\ c \in LockCalls /\ At(c, "idle")
  /\ Begin(c, GetOf(k))
  /\ Go(c, "locking")
  /\ name' = [name EXCEPT ![c] = k]

\* Lock(name): what the Get found decides between an error, a refusal, a
\* CompareAndSwap and a PutIfAbsent.
LockBranchAnyValue(c) ==  \* mutant: CompareAndSwap(value, locked) for any value found
  /\ c \in LockCalls /\ At(c, "locking") /\ st[c] = "return"
  /\ \/ ret[c].err /\ EtcdReturn(c) /\ Go(c, "idle")
     \/ \E v \in ret[c].found : Then(c, SwapOf(name[c], v, "locked")) /\ Go(c, "taking")
     \/ ~ret[c].err /\ ret[c].found = {} /\ Then(c, PutOf(name[c])) /\ Go(c, "taking")
  /\ UNCHANGED name
LockBranch(c) ==
  /\ c \in LockCalls /\ At(c, "locking") /\ st[c] = "return"
  /\ \/ /\ ret[c].err \/ "locked" \in ret[c].found
        /\ EtcdReturn(c) /\ Go(c, "idle")
     \/ /\ ret[c].found = {"unlocked"}
        /\ Then(c, SwapOf(name[c], "unlocked", "locked")) /\ Go(c, "taking")
     \/ /\ ~ret[c].err /\ ret[c].found = {}
        /\ Then(c, PutOf(name[c])) /\ Go(c, "taking")
  /\ UNCHANGED name

LockTakenAnyway(c) ==     \* mutant: the ok flag of the swap is not looked at
  /\ c \in LockCalls /\ At(c, "taking")
  /\ EtcdReturn(c)
  /\ Go(c, IF ret[c].err THEN "idle" ELSE "held")
  /\ UNCHANGED name
LockTaken(c) ==
  /\ c \in LockCalls /\ At(c, "taking")
  /\ EtcdReturn(c)
  /\ Go(c, IF ret[c].ok THEN "held" ELSE "idle")
  /\ UNCHANGED name

\* Unlock(): CompareAndSwap(locked, unlocked).
UnlockStart(c) ==
  /\ c \in LockCalls /\ At(c, "held")
  /\ Begin(c, SwapOf(name[c], "locked", "unlocked"))
  /\ Go(c, "unlocking")
  /\ UNCHANGED name

UnlockEnd(c) ==
  /\ c \in LockCalls /\ At(c, "unlocking")
  /\ EtcdReturn(c)
  /\ Go(c, "idle")
  /\ UNCHANGED name

\* Goroutine c has the lock k: from the swap that took it to the one that
\* gives it back, or fails to.
OwnsLock(c, k) ==
  /\ c \in LockCalls /\ name[c] = k
  /\ \/ At(c, "held")
     \/ At(c, "taking") /\ ret[c] # NoReply /\ ret[c].ok
     \/ At(c, "unlocking") /\ ret[c] = NoReply

\* A PutIfAbsent that found the key absent will write it, whatever was written
\* since: a late "locked" of another goroutine does not keep it from the lock.
Overwriting(k) == \E c \in LockCalls : st[c] = "put" /\ Key(c) = k

\* The operator steps in when a channel has been locked for long: its owner
\* is gone, and so is every write that was given up.
Forlorn(k) == /\ data[k] = "locked" /\ ~Overwriting(k)
              /\ \A c \in Calls : ~OwnsLock(c, k)
              /\ \A w \in late : w.key # k

\* snetd channel --unlock: Get, and Delete if the key is there.
OperatorGet(k) ==
  /\ At(Operator, "idle") /\ Forlorn(k)
  /\ Begin(Operator, GetOf(k))
  /\ Go(Operator, "locking")
  /\ name' = [name EXCEPT ![Operator] = k]

OperatorDelete ==
  /\ At(Operator, "locking") /\ st[Operator] = "return"
  /\ \/ ret[Operator].ok /\ Then(Operator, DeleteOf(name[Operator])) /\ Go(Operator, "taking")
     \/ ~ret[Operator].ok /\ EtcdReturn(Operator) /\ Go(Operator, "idle")
  /\ UNCHANGED name

OperatorDone ==
  /\ At(Operator, "taking")
  /\ EtcdReturn(Operator)
  /\ Go(Operator, "idle")
  /\ UNCHANGED name

----------------------------------------------------------------------------
\* The requests to etcd of the operations above.
Request(c) == OperationStep(c) /\ UNCHANGED <<lock, name>>

ReplicaEnds(r) ==
  /\ ProcessEnds(r)
  /\ lock' = [c \in Calls |-> IF ReplicaOf[c] = r THEN "idle" ELSE lock[c]]
  /\ UNCHANGED name

LockStep(c) == LockBranch(c) \/ LockTaken(c) \/ UnlockEnd(c) \/ Request(c)

OperatorStep == OperatorDelete \/ OperatorDone \/ Request(Operator)

LockerNext ==
  \/ \E c \in LockCalls : \/ \E k \in Keys : LockStart(c, k)
                          \/ UnlockStart(c) \/ LockStep(c)
  \/ \E k \in Keys : OperatorGet(k)
  \/ OperatorStep
  \/ \E r \in Replicas : ReplicaEnds(r)
  \/ (LateWrite \/ \E k \in Keys : LeaseExpires(k)) /\ UNCHANGED <<lock, name>>

LockerSpec == LockerInit /\ [][LockerNext]_lockerVars

\* Goroutines run; requests with a deadline are answered or run into it, the
\* two without one (session, unlock of the mutex) are answered or fail.
LockerFairness ==
  /\ \A c \in LockCalls : WF_lockerVars(LockStep(c))
  /\ WF_lockerVars(OperatorStep)
LockerFairSpec == LockerSpec /\ LockerFairness

----------------------------------------------------------------------------
\* At most one goroutine owns a lock, although its storage operations are not
\* atomic, fail, and are executed late.
OneOwner == \A c, d \in Calls, k \in Keys : OwnsLock(c, k) /\ OwnsLock(d, k) => c = d

owner == [k \in Keys |->
            IF \E c \in Calls : OwnsLock(c, k) THEN CHOOSE c \in Calls : OwnsLock(c, k)
            ELSE IF data[k] = "locked" /\ ~Overwriting(k) THEN "stranded" ELSE "free"]

Abstract == INSTANCE Mutex WITH Channels <- Keys, Free <- "free", Stranded <- "stranded"

\* The lock over etcd, request by request, implements the abstract mutex: a
\* write that is executed late strands a free channel or frees a stranded
\* one, and never takes the lock from its owner.
LateWritesAreHarmless == Abstract!Spec

\* Lock() and Unlock() return, also when the mutex of PutIfAbsent belongs to a
\* session nobody will close (etcddb_client.go:224, the deadline of mu.Lock).
LockReturns == \A c \in LockCalls : lock[c] \in {"locking", "taking", "unlocking"}
                                      ~> lock[c] \in {"idle", "held"}

----------------------------------------------------------------------------
(* The inductive invariant behind OneOwner. *)

\* Where a goroutine is in its code determines which operation it is in.
LockPlace ==
  /\ lock \in [Calls -> {"idle", "locking", "taking", "held", "unlocking"}]
  /\ name \in [Calls -> Keys]
  /\ \A c \in Calls :
       /\ call[c] = NoRequest <=> lock[c] \in {"idle", "held"}
       /\ lock[c] = "locking" => call[c] = GetOf(name[c])
       /\ lock[c] = "taking" /\ c # Operator =>
            call[c] \in {SwapOf(name[c], "unlocked", "locked"), PutOf(name[c])}
       /\ lock[c] = "taking" /\ c = Operator => call[c] = DeleteOf(name[c])
       /\ lock[c] = "unlocking" => call[c] = SwapOf(name[c], "locked", "unlocked")
       /\ lock[c] \in {"held", "unlocking"} => c # Operator

\* The writes that may be executed late.
LateWrites == UNION {{SwapOf(k, "unlocked", "locked"), SwapOf(k, "locked", "unlocked"),
                      DeleteOf(k), WriteOf(PutOf(k))} : k \in Keys}

\* What may yet take a "locked" away that nobody owns: a late Unlock, a late
\* Delete, or the operator, from its Get to its Delete.
LateUnlock(k) == SwapOf(k, "locked", "unlocked") \in late
LateDelete(k) == DeleteOf(k) \in late
Operating(k)  == /\ name[Operator] = k
                 /\ \/ At(Operator, "locking")
                    \/ At(Operator, "taking") /\ ret[Operator] = NoReply
Doomed(k) == LateUnlock(k) \/ LateDelete(k) \/ Operating(k)

\* The owner's key says "locked", and nothing is about to change or to
\* overwrite that; what is, was left locked for nobody, and only one thing at
\* a time unlocks it.
Guarded ==
  \A k \in Keys :
    /\ \A c \in Calls : OwnsLock(c, k) => data[k] = "locked" /\ ~Overwriting(k) /\ ~Doomed(k)
    /\ Doomed(k) => data[k] = "locked" /\ ~Overwriting(k)
    /\ Overwriting(k) => data[k] # "unlocked"
    /\ ~(LateUnlock(k) /\ LateDelete(k))
    /\ Operating(k) => ~LateUnlock(k) /\ ~LateDelete(k)

LockerInv == /\ EtcdTypeOK /\ Decided /\ OwnsMutex
             /\ LockPlace /\ late \subseteq LateWrites
             /\ Guarded /\ OneOwner
=============================================================================

------------------------------- MODULE Locker ------------------------------
(***************************************************************************)
(* The lock of a payment channel (escrow/lock.go) on top of the atomic     *)
(* storage (etcd).  Lock() is two storage accesses, a Get and then a       *)
(* CompareAndSwap or a PutIfAbsent that depends on what the Get returned;  *)
(* Unlock() is one CompareAndSwap that names no owner.  The lock has no    *)
(* lease: a crashed daemon, or an access that fails, may leave it taken    *)
(* until an operator runs `snetd channel --unlock`.                        *)
(***************************************************************************)
EXTENDS Naturals

CONSTANTS
  Channels,    \* names of the locks: the payment channels' keys
  Calls,       \* the goroutines that serve a request, over all replicas
  Replicas,    \* daemon processes that share one etcd
  ReplicaOf,   \* ReplicaOf[c]: the process that runs call c
  NoChannel,   \* target of a call that has no lock request
  MaxFaults    \* bound: failed accesses and crashes in a behaviour

ASSUME ReplicaAssumption == ReplicaOf \in [Calls -> Replicas]
ASSUME NoChannelAssumption == NoChannel \notin Channels
ASSUME MaxFaultsAssumption == MaxFaults \in Nat

VARIABLES
  key,      \* key[ch]: value of the lock's key in the storage
  lst,      \* lst[c]: where call c is in Lock() ... Unlock()
  seen,     \* seen[c]: what the Get of Lock() returned to call c
  target,   \* target[c]: the channel call c locks
  faults    \* failures so far

lockVars == <<key, lst, seen, target, faults>>

KeyValues  == {"absent", "locked", "unlocked"}
LockStates == {"idle", "swap", "held", "refused", "error"}

LockTypeOK == /\ key    \in [Channels -> KeyValues]
              /\ lst    \in [Calls -> LockStates]
              /\ seen   \in [Calls -> KeyValues \ {"locked"}]
              /\ target \in [Calls -> Channels \cup {NoChannel}]
              /\ faults \in 0 .. MaxFaults

LockInit == /\ key    = [ch \in Channels |-> "absent"]
            /\ lst    = [c \in Calls |-> "idle"]
            /\ seen   = [c \in Calls |-> "absent"]
            /\ target = [c \in Calls |-> NoChannel]
            /\ faults = 0

Holds(c, ch) == lst[c] = "held" /\ target[c] = ch

\* A storage or blockchain access fails, or a process dies.
Fault == /\ faults < MaxFaults
         /\ faults' = faults + 1

NoFault == UNCHANGED faults

(***************************************************************************)
(* Lock(): the Get.  A key that says "locked" refuses the caller at once.  *)
(***************************************************************************)
LockGet(c, ch) ==
  /\ lst[c] = "idle"
  /\ target' = [target EXCEPT ![c] = ch]
  /\ \/ /\ key[ch] = "locked"
        /\ lst' = [lst EXCEPT ![c] = "refused"]
        /\ UNCHANGED seen
        /\ NoFault
     \/ /\ key[ch] # "locked"
        /\ lst'  = [lst EXCEPT ![c] = "swap"]
        /\ seen' = [seen EXCEPT ![c] = key[ch]]
        /\ NoFault
     \/ /\ lst' = [lst EXCEPT ![c] = "error"]
        /\ UNCHANGED seen
        /\ Fault
  /\ UNCHANGED key

(***************************************************************************)
(* Lock(): CompareAndSwap(unlocked, locked) when the Get found the key,    *)
(* PutIfAbsent(locked) otherwise.  Both succeed exactly when the key is    *)
(* still what the Get returned.  A failed access may have taken effect.    *)
(***************************************************************************)
SwapSucceedsBlindly(c) == TRUE    \* mutant: a Put instead of a CompareAndSwap
SwapSucceeds(c) == key[target[c]] = seen[c]

TakenKeySwapped(ch) == [key EXCEPT ![ch] = "unlocked"]   \* mutant: arguments swapped
TakenKey(ch) == [key EXCEPT ![ch] = "locked"]

LockSwap(c) ==
  /\ lst[c] = "swap"
  /\ seen' = [seen EXCEPT ![c] = "absent"]
  /\ \/ /\ SwapSucceeds(c)
        /\ key' = TakenKey(target[c])
        /\ lst' = [lst EXCEPT ![c] = "held"]
        /\ NoFault
     \/ /\ ~SwapSucceeds(c)
        /\ lst' = [lst EXCEPT ![c] = "refused"]
        /\ UNCHANGED key
        /\ NoFault
     \/ /\ lst' = [lst EXCEPT ![c] = "error"]
        /\ \/ SwapSucceeds(c) /\ key' = TakenKey(target[c])
           \/ UNCHANGED key
        /\ Fault
  /\ UNCHANGED target

(***************************************************************************)
(* Unlock(): CompareAndSwap(locked, unlocked).  A key that is not "locked" *)
(* is only logged; a failed access may or may not have taken effect.       *)
(***************************************************************************)
UnlockKeyMistyped(ch) ==  \* mutant: a value Lock() does not know
  IF key[ch] = "locked" THEN [key EXCEPT ![ch] = "open"] ELSE key
UnlockKeySwapped(ch) ==   \* mutant: CompareAndSwap(unlocked, locked)
  IF key[ch] = "unlocked" THEN [key EXCEPT ![ch] = "locked"] ELSE key
UnlockKey(ch) == IF key[ch] = "locked" THEN [key EXCEPT ![ch] = "unlocked"] ELSE key

Unlock(c) ==
  /\ lst[c] = "held"
  /\ lst'    = [lst EXCEPT ![c] = "idle"]
  /\ target' = [target EXCEPT ![c] = NoChannel]
  /\ \/ key' = UnlockKey(target[c]) /\ NoFault
     \/ key' \in {key, UnlockKey(target[c])} /\ Fault
  /\ UNCHANGED seen

LockReturnUnlocks(c) ==   \* mutant: the deferred Unlock runs for a refused call too
  /\ lst[c] \in {"refused", "error"}
  /\ lst'    = [lst EXCEPT ![c] = "idle"]
  /\ target' = [target EXCEPT ![c] = NoChannel]
  /\ key'    = UnlockKey(target[c])
  /\ UNCHANGED <<seen, faults>>

\* Lock() returned without a lock; the caller reports the error.
LockReturn(c) ==
  /\ lst[c] \in {"refused", "error"}
  /\ lst'    = [lst EXCEPT ![c] = "idle"]
  /\ target' = [target EXCEPT ![c] = NoChannel]
  /\ UNCHANGED <<key, seen, faults>>

(***************************************************************************)
(* The process of a replica ends: its calls vanish, the storage stays.     *)
(***************************************************************************)
DropCalls(r) ==
  LET dead(c) == ReplicaOf[c] = r
  IN /\ lst'    = [c \in Calls |-> IF dead(c) THEN "idle" ELSE lst[c]]
     /\ seen'   = [c \in Calls |-> IF dead(c) THEN "absent" ELSE seen[c]]
     /\ target' = [c \in Calls |-> IF dead(c) THEN NoChannel ELSE target[c]]
     /\ UNCHANGED key

(***************************************************************************)
(* `snetd channel --unlock`: deletes the lock's key if it exists, whatever *)
(* its value.  The operator is assumed to do so only for a channel no live *)
(* call holds; the command itself does not, and cannot, check that.        *)
(***************************************************************************)
DeletedKeyElsewhere(ch) == key    \* mutant: a key of another prefix is deleted
DeletedKey(ch) == [key EXCEPT ![ch] = "absent"]

UnlockChannel(ch) ==
  /\ key[ch] # "absent"
  /\ \A c \in Calls : ~Holds(c, ch)
  /\ key' = DeletedKey(ch)
  /\ UNCHANGED <<lst, seen, target, faults>>

\* An access of the callers to other keys, or to the blockchain, fails.
OtherFault == Fault /\ UNCHANGED <<key, lst, seen, target>>

LockNext ==
  \/ \E c \in Calls : \/ \E ch \in Channels : LockGet(c, ch)
                      \/ LockSwap(c)
                      \/ LockReturn(c)
                      \/ Unlock(c)
  \/ \E r \in Replicas : DropCalls(r) /\ (Fault \/ NoFault)
  \/ \E ch \in Channels : UnlockChannel(ch)
  \/ OtherFault

LockSpec == LockInit /\ [][LockNext]_lockVars

(***************************************************************************)
(* Correctness.                                                            *)
(***************************************************************************)

\* Two live calls never hold the lock of one channel (lock.go:15 "ok is
\* false if lock cannot be aquired"), whatever fails or crashes.
MutualExclusion ==
  \A c, d \in Calls : \A ch \in Channels : Holds(c, ch) /\ Holds(d, ch) => c = d

\* The inductive strengthening: a call that holds a lock has its key "locked",
\* so that no other Get or swap can succeed; only calls inside Lock() ...
\* Unlock() have a target.
HeldIsLocked ==
  \A c \in Calls : lst[c] = "held" => target[c] \in Channels /\ key[target[c]] = "locked"

TargetIsChannel == \A c \in Calls : lst[c] # "idle" => target[c] \in Channels

LockInv == LockTypeOK /\ HeldIsLocked /\ TargetIsChannel /\ MutualExclusion

\* The owner that the detailed state stands for.
lockOwner ==
  [ch \in Channels |->
     IF \E c \in Calls : Holds(c, ch) THEN CHOOSE c \in Calls : Holds(c, ch)
     ELSE IF key[ch] = "locked" THEN "stranded" ELSE "free"]

Abstract == INSTANCE Mutex WITH owner <- lockOwner, Free <- "free", Stranded <- "stranded"

\* The Get-then-swap protocol over the shared key implements the abstract
\* mutex: ownership goes through "free", and what a failure strands only the
\* operator's unlock gives back.
ImplementsMutex == Abstract!Spec
=============================================================================

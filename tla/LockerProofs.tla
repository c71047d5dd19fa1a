---------------------------- MODULE LockerProofs ---------------------------
(* Proofs about Locker, for any calls, channels, replicas and failures. *)
EXTENDS Locker, TLAPS

USE ReplicaAssumption, NoChannelAssumption, MaxFaultsAssumption

\* No call holds a lock at first.
LEMMA LockInitInv == LockInit => LockInv
  BY DEF LockInit, LockInv, LockTypeOK, HeldIsLocked, TargetIsChannel, MutualExclusion,
         Holds, KeyValues, LockStates

\* Every step of the locker, failed accesses and crashes included, keeps the
\* invariant: a swap only succeeds on a key that is not "locked".
LEMMA LockNextInv == LockInv /\ [LockNext]_lockVars => LockInv'
<1> SUFFICES ASSUME LockInv, [LockNext]_lockVars PROVE LockInv'
    OBVIOUS
<1> USE DEF LockInv, LockTypeOK, HeldIsLocked, TargetIsChannel, MutualExclusion, Holds,
            KeyValues, LockStates, Fault, NoFault
<1>1. ASSUME NEW c \in Calls, NEW ch \in Channels, LockGet(c, ch) PROVE LockInv'
      BY <1>1 DEF LockGet
<1>2. ASSUME NEW c \in Calls, LockSwap(c) PROVE LockInv'
      BY <1>2 DEF LockSwap, SwapSucceeds, TakenKey
<1>3. ASSUME NEW c \in Calls, LockReturn(c) PROVE LockInv'
      BY <1>3 DEF LockReturn
<1>4. ASSUME NEW c \in Calls, Unlock(c) PROVE LockInv'
      BY <1>4 DEF Unlock, UnlockKey
<1>5. ASSUME NEW r \in Replicas, DropCalls(r), Fault \/ NoFault PROVE LockInv'
      BY <1>5 DEF DropCalls
<1>6. ASSUME NEW ch \in Channels, UnlockChannel(ch) PROVE LockInv'
      BY <1>6 DEF UnlockChannel, DeletedKey
<1>7. CASE OtherFault
      BY <1>7 DEF OtherFault
<1>8. CASE UNCHANGED lockVars
      BY <1>8 DEF lockVars
<1> QED BY <1>1, <1>2, <1>3, <1>4, <1>5, <1>6, <1>7, <1>8 DEF LockNext

\* The inductive invariant holds in every reachable state of the locker.
THEOREM LockInvariant == LockSpec => []LockInv
  BY LockInitInv, LockNextInv, PTL DEF LockSpec

\* Two live calls never both hold the lock that escrow/lock.go gives out for
\* a channel.
THEOREM LockMutualExclusion == LockSpec => []MutualExclusion
<1>1. LockInv => MutualExclusion
      BY DEF LockInv
<1> QED BY <1>1, LockInvariant, PTL

----------------------------------------------------------------------------
(* The refinement of Mutex. *)

\* Which owner a state stands for, channel by channel.
OwnerIs ==
  \A ch \in Channels :
    /\ \A c \in Calls : Holds(c, ch) => lockOwner[ch] = c
    /\ (\A c \in Calls : ~Holds(c, ch)) =>
         lockOwner[ch] = IF key[ch] = "locked" THEN "stranded" ELSE "free"

\* The CHOOSE in lockOwner picks the one holder there is.
LEMMA OwnerLemma == LockInv => OwnerIs
<1> SUFFICES ASSUME LockInv, NEW ch \in Channels
             PROVE /\ \A c \in Calls : Holds(c, ch) => lockOwner[ch] = c
                   /\ (\A c \in Calls : ~Holds(c, ch)) =>
                        lockOwner[ch] = IF key[ch] = "locked" THEN "stranded" ELSE "free"
    BY DEF OwnerIs
<1>1. lockOwner[ch] = IF \E c \in Calls : Holds(c, ch) THEN CHOOSE c \in Calls : Holds(c, ch)
                      ELSE IF key[ch] = "locked" THEN "stranded" ELSE "free"
      BY DEF lockOwner
<1>2. ASSUME NEW c \in Calls, Holds(c, ch) PROVE lockOwner[ch] = c
  <2>1. Holds(CHOOSE d \in Calls : Holds(d, ch), ch) /\ (CHOOSE d \in Calls : Holds(d, ch)) \in Calls
        BY <1>2
  <2> QED BY <1>1, <1>2, <2>1 DEF LockInv, MutualExclusion
<1> QED BY <1>1, <1>2

\* A step that leaves the keys and the holders alone leaves the owners alone.
LEMMA SameOwners ==
  ASSUME key' = key, \A c \in Calls, ch \in Channels : Holds(c, ch)' <=> Holds(c, ch),
         LockInv, LockInv'
  PROVE  lockOwner' = lockOwner
<1>1. OwnerIs /\ OwnerIs'
      BY OwnerLemma, PTL
<1>2. ASSUME NEW ch \in Channels PROVE lockOwner'[ch] = lockOwner[ch]
  <2>1. CASE \E c \in Calls : Holds(c, ch)
        BY <1>1, <2>1 DEF OwnerIs
  <2>2. CASE \A c \in Calls : ~Holds(c, ch)
        BY <1>1, <2>2 DEF OwnerIs
  <2> QED BY <2>1, <2>2
<1> QED BY <1>2 DEF lockOwner

\* Initially every channel is free.
LEMMA RefinesInit == LockInit => Abstract!Init
<1> SUFFICES ASSUME LockInit PROVE lockOwner \in [Channels -> {"free"}]
    BY DEF Abstract!Init
<1>1. \A c \in Calls, ch \in Channels : ~Holds(c, ch)
      BY DEF LockInit, Holds
<1> QED BY <1>1 DEF LockInit, lockOwner

\* Every step of the locker is a step of the abstract mutex or changes no
\* owner: the successful swap acquires, Unlock releases or strands, a swap
\* that took effect but failed strands, a crash strands all the locks of the
\* replica, and the operator recovers.
LEMMA RefinesNext ==
  LockInv /\ LockInv' /\ [LockNext]_lockVars => [Abstract!Next]_lockOwner
<1> SUFFICES ASSUME LockInv, LockInv', [LockNext]_lockVars
             PROVE  [Abstract!Next]_lockOwner
    OBVIOUS
<1>0. OwnerIs /\ OwnerIs'
      BY OwnerLemma, PTL
<1>f. /\ lockOwner  = [ch \in Channels |-> lockOwner[ch]]
      /\ lockOwner' = [ch \in Channels |-> lockOwner'[ch]]
      BY DEF lockOwner
<1>t. /\ key \in [Channels -> KeyValues] /\ lst \in [Calls -> LockStates]
      /\ target \in [Calls -> Channels \cup {NoChannel}]
      BY DEF LockInv, LockTypeOK
<1>1. ASSUME NEW c \in Calls, NEW ch \in Channels, LockGet(c, ch) PROVE lockOwner' = lockOwner
  <2>1. key' = key /\ \A d \in Calls, e \in Channels : Holds(d, e)' <=> Holds(d, e)
        BY <1>1, <1>t DEF LockGet, Holds, LockStates
  <2> QED BY <2>1, SameOwners
<1>2. ASSUME NEW c \in Calls, LockSwap(c) PROVE [Abstract!Next]_lockOwner
  <2>1. PICK ch \in Channels : target[c] = ch
        BY <1>2 DEF LockSwap, LockInv, TargetIsChannel
  <2>2. CASE key' = key
    <3>1. \A d \in Calls, e \in Channels : Holds(d, e)' <=> Holds(d, e)
          BY <1>2, <1>t, <2>2, <2>1 DEF LockSwap, Holds, SwapSucceeds, TakenKey, LockInv, LockTypeOK, KeyValues
    <3> QED BY <3>1, <2>2, SameOwners
  <2>3. CASE key' # key
    <3>1. key[ch] # "locked" /\ key' = [key EXCEPT ![ch] = "locked"]
          BY <1>2, <1>t, <2>3, <2>1 DEF LockSwap, SwapSucceeds, TakenKey, LockInv, LockTypeOK
    <3>2. \A d \in Calls : ~Holds(d, ch)
          BY <3>1 DEF LockInv, HeldIsLocked, Holds
    <3>3. \A d \in Calls, e \in Channels : e # ch => (Holds(d, e)' <=> Holds(d, e))
          BY <1>2, <1>t, <2>1 DEF LockSwap, Holds
    <3>4. \A e \in Channels : e # ch => lockOwner'[e] = lockOwner[e]
      <4> SUFFICES ASSUME NEW e \in Channels, e # ch PROVE lockOwner'[e] = lockOwner[e]
          OBVIOUS
      <4>1. key'[e] = key[e]
            BY <3>1, <1>t
      <4>2. CASE \E d \in Calls : Holds(d, e)
            BY <4>2, <3>3, <1>0 DEF OwnerIs
      <4>3. CASE \A d \in Calls : ~Holds(d, e)
            BY <4>1, <4>3, <3>3, <1>0 DEF OwnerIs
      <4> QED BY <4>2, <4>3
    <3>5. lockOwner[ch] = "free"
          BY <3>1, <3>2, <2>1, <1>0 DEF OwnerIs
    <3>6. CASE lst' = [lst EXCEPT ![c] = "held"]
      <4>1. Holds(c, ch)'
            BY <3>6, <1>2, <1>t, <2>1 DEF LockSwap, Holds
      <4>2. lockOwner'[ch] = c
            BY <4>1, <2>1, <1>0 DEF OwnerIs
      <4>3. lockOwner' = [lockOwner EXCEPT ![ch] = c]
            BY <4>2, <3>4, <2>1, <1>f
      <4> QED BY <4>3, <3>5, <2>1 DEF Abstract!Next, Abstract!Acquire
    <3>7. CASE lst' = [lst EXCEPT ![c] = "error"]
      <4>1. \A d \in Calls : ~Holds(d, ch)'
            BY <3>7, <3>2, <1>2, <1>t DEF LockSwap, Holds
      <4>2. lockOwner'[ch] = "stranded"
            BY <4>1, <3>1, <2>1, <1>t, <1>0 DEF OwnerIs
      <4>3. lockOwner' = [e \in Channels |-> IF e \in {ch} THEN "stranded" ELSE lockOwner[e]]
            BY <4>2, <3>4, <2>1 DEF lockOwner
      <4> QED BY <4>3, <2>1 DEF Abstract!Next, Abstract!Strand
    <3> QED BY <3>6, <3>7, <2>3, <1>2 DEF LockSwap
  <2> QED BY <2>2, <2>3
<1>3. ASSUME NEW c \in Calls, LockReturn(c) PROVE lockOwner' = lockOwner
  <2>1. key' = key /\ \A d \in Calls, e \in Channels : Holds(d, e)' <=> Holds(d, e)
        BY <1>3, <1>t DEF LockReturn, Holds, LockStates
  <2> QED BY <2>1, SameOwners
<1>4. ASSUME NEW c \in Calls, Unlock(c) PROVE [Abstract!Next]_lockOwner
  <2>1. PICK ch \in Channels : target[c] = ch /\ Holds(c, ch) /\ key[ch] = "locked"
        BY <1>4 DEF Unlock, LockInv, HeldIsLocked, Holds
  <2>2. \A d \in Calls : ~Holds(d, ch)'
        BY <1>4, <1>t, <2>1 DEF Unlock, Holds, LockInv, MutualExclusion
  <2>3. \A d \in Calls, e \in Channels : e # ch => (Holds(d, e)' <=> Holds(d, e))
        BY <1>4, <1>t, <2>1 DEF Unlock, Holds
  <2>4. \A e \in Channels : e # ch => lockOwner'[e] = lockOwner[e]
    <3> SUFFICES ASSUME NEW e \in Channels, e # ch PROVE lockOwner'[e] = lockOwner[e]
        OBVIOUS
    <3>1. key'[e] = key[e]
          BY <1>4, <1>t, <2>1 DEF Unlock, UnlockKey
    <3>2. CASE \E d \in Calls : Holds(d, e)
          BY <3>2, <2>3, <1>0 DEF OwnerIs
    <3>3. CASE \A d \in Calls : ~Holds(d, e)
          BY <3>1, <3>3, <2>3, <1>0 DEF OwnerIs
    <3> QED BY <3>2, <3>3
  <2>5. lockOwner[ch] = c
        BY <2>1, <1>0 DEF OwnerIs
  <2>6. CASE key' = [key EXCEPT ![ch] = "unlocked"]
    <3>1. lockOwner'[ch] = "free"
          BY <2>6, <2>1, <2>2, <1>t, <1>0 DEF OwnerIs
    <3>2. lockOwner' = [lockOwner EXCEPT ![ch] = "free"]
          BY <3>1, <2>4, <2>1 DEF lockOwner
    <3> QED BY <3>2, <2>5, <2>1 DEF Abstract!Next, Abstract!Release
  <2>7. CASE key' = key
    <3>1. lockOwner'[ch] = "stranded"
          BY <2>7, <2>1, <2>2, <1>0 DEF OwnerIs
    <3>2. lockOwner' = [e \in Channels |-> IF e \in {ch} THEN "stranded" ELSE lockOwner[e]]
          BY <3>1, <2>4, <2>1 DEF lockOwner
    <3> QED BY <3>2, <2>1 DEF Abstract!Next, Abstract!Strand
  <2> QED BY <2>6, <2>7, <2>1, <1>4 DEF Unlock, UnlockKey
<1>5. ASSUME NEW r \in Replicas, DropCalls(r) PROVE [Abstract!Next]_lockOwner
  <2>  DEFINE S == {ch \in Channels : \E c \in Calls : Holds(c, ch) /\ ReplicaOf[c] = r}
  <2>1. ASSUME NEW ch \in S PROVE lockOwner'[ch] = "stranded"
    <3>1. PICK c \in Calls : Holds(c, ch) /\ ReplicaOf[c] = r
          OBVIOUS
    <3>2. \A d \in Calls : ~Holds(d, ch)'
          BY <1>5, <3>1 DEF DropCalls, Holds, LockInv, MutualExclusion
    <3>3. key'[ch] = "locked"
          BY <1>5, <3>1 DEF DropCalls, Holds, LockInv, HeldIsLocked
    <3> QED BY <3>2, <3>3, <1>0 DEF OwnerIs
  <2>2. ASSUME NEW ch \in Channels, ch \notin S PROVE lockOwner'[ch] = lockOwner[ch]
    <3>1. key'[ch] = key[ch] /\ \A d \in Calls : Holds(d, ch)' <=> Holds(d, ch)
          BY <1>5, <2>2 DEF DropCalls, Holds
    <3>2. CASE \E d \in Calls : Holds(d, ch)
          BY <3>2, <3>1, <1>0 DEF OwnerIs
    <3>3. CASE \A d \in Calls : ~Holds(d, ch)
          BY <3>3, <3>1, <1>0 DEF OwnerIs
    <3> QED BY <3>2, <3>3
  <2>3. lockOwner' = [e \in Channels |-> IF e \in S THEN "stranded" ELSE lockOwner[e]]
        BY <2>1, <2>2 DEF lockOwner
  <2> QED BY <2>3 DEF Abstract!Next, Abstract!Strand
<1>6. ASSUME NEW ch \in Channels, UnlockChannel(ch) PROVE [Abstract!Next]_lockOwner
  <2>1. \A d \in Calls, e \in Channels : Holds(d, e)' <=> Holds(d, e)
        BY <1>6 DEF UnlockChannel, Holds
  <2>2. lockOwner[ch] \in {"stranded", "free"} /\ lockOwner'[ch] = "free"
        BY <1>6, <2>1, <1>t, <1>0 DEF UnlockChannel, DeletedKey, OwnerIs
  <2>3. ASSUME NEW e \in Channels, e # ch PROVE lockOwner'[e] = lockOwner[e]
    <3>1. key'[e] = key[e]
          BY <1>6, <2>3, <1>t DEF UnlockChannel, DeletedKey
    <3>2. CASE \E d \in Calls : Holds(d, e)
          BY <3>2, <2>1, <1>0 DEF OwnerIs
    <3>3. CASE \A d \in Calls : ~Holds(d, e)
          BY <3>1, <3>3, <2>1, <1>0 DEF OwnerIs
    <3> QED BY <3>2, <3>3
  <2>4. lockOwner' = [lockOwner EXCEPT ![ch] = "free"]
        BY <2>2, <2>3 DEF lockOwner
  <2>5. CASE lockOwner[ch] = "stranded"
        BY <2>4, <2>5 DEF Abstract!Next, Abstract!Recover
  <2>6. CASE lockOwner[ch] = "free"
    <3>1. lockOwner' = lockOwner
          BY <2>4, <2>6 DEF lockOwner
    <3> QED BY <3>1
  <2> QED BY <2>2, <2>5, <2>6
<1>7. CASE OtherFault \/ UNCHANGED lockVars
  <2>1. key' = key /\ \A d \in Calls, e \in Channels : Holds(d, e)' <=> Holds(d, e)
        BY <1>7 DEF OtherFault, lockVars, Holds
  <2> QED BY <2>1, SameOwners
<1> QED BY <1>1, <1>2, <1>3, <1>4, <1>5, <1>6, <1>7 DEF LockNext

\* The locker of escrow/lock.go, with its Get-then-swap Lock() and its
\* ownerless Unlock(), implements the abstract mutex, crashes and failed
\* accesses included.
THEOREM LockerImplementsMutex == LockSpec => ImplementsMutex
  BY RefinesInit, RefinesNext, LockInvariant, PTL DEF LockSpec, ImplementsMutex, Abstract!Spec
=============================================================================

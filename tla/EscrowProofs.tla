---------------------------- MODULE EscrowProofs ---------------------------
(* Proofs about Escrow, for any calls, channels, replicas, price, threshold *)
(* and number of failures.                                                  *)
EXTENDS Escrow, LockerProofs

----------------------------------------------------------------------------
(* The payment core uses the locker as the locker's specification says. *)

\* Initially the locks are as the locker's initial states say.
LEMMA InitIsLockInit == Init => LockInit
  BY DEF Init

\* Every step of the payment core is a step of the locker, a failure of some
\* other access, or leaves the locks alone.
LEMMA NextIsLockNext == EscrowInv /\ [Next]_vars => [LockNext]_lockVars
<1> SUFFICES ASSUME EscrowInv, [Next]_vars PROVE [LockNext]_lockVars
    OBVIOUS
<1> USE DEF lockVars, callVars, chainVars, daemonVars
<1>1. ASSUME NEW c \in Calls, StartCall(c) PROVE [LockNext]_lockVars
  <2>1. ASSUME NEW p \in PayRequests, StartPayment(c, p) PROVE [LockNext]_lockVars
    <3>1. p.ch \in Channels
          BY DEF PayRequests
    <3> QED BY <2>1, <3>1 DEF StartPayment, LockNext
  <2>2. ASSUME NEW q \in ClaimRequests, ClaimRequest(c, q) PROVE [LockNext]_lockVars
        BY <2>2 DEF ClaimRequest
  <2>3. CASE InProgressRequest(c)
        BY <2>3 DEF InProgressRequest
  <2> QED BY <1>1, <2>1, <2>2, <2>3 DEF StartCall
<1>2. ASSUME NEW c \in Calls, CallStep(c) PROVE [LockNext]_lockVars
  <2> USE DEF KeepLock, Outcome, Write, OtherFault, NoFault
  <2>1. CASE LockStep(c) \/ LockDenied(c) \/ UnlockStep(c) \/ PanicUnlock(c)
        BY <2>1 DEF LockStep, LockDenied, UnlockStep, PanicUnlock, LockNext
  <2>2. CASE ServiceDone(c) \/ ServiceFailed(c) \/ RemoveDone(c)
        BY <2>2 DEF ServiceDone, ServiceFailed, RemoveDone
  <2>3. CASE PaymentGet(c) \/ PaymentChain(c) \/ PaymentValidate(c) \/ ServicePanics(c)
        BY <2>3 DEF PaymentGet, PaymentChain, PaymentValidate, ServicePanics, LockNext
  <2>4. CASE PaymentCommit(c) \/ ClaimGet(c) \/ ClaimPut(c) \/ PaymentPut(c)
        BY <2>4 DEF PaymentCommit, ClaimGet, ClaimPut, PaymentPut, LockNext
  <2>5. CASE UnlockedGet(c) \/ VerifyChain(c) \/ ListClaims(c) \/ BeginChain(c)
        BY <2>5 DEF UnlockedGet, VerifyChain, ListClaims, BeginChain, LockNext
  <2>6. CASE RemoveClaimed(c)
        BY <2>6 DEF RemoveClaimed, LockNext
  <2>7. CASE ClaimLock(c)
    <3>1. Ch(c) \in Channels
          BY <2>7 DEF ClaimLock, At, Ch, EscrowInv, CallLock, ClaimPcs
    <3> QED BY <2>7, <3>1 DEF ClaimLock, LockNext
  <2>8. CASE Die(c)
    <3>1. ReplicaOf[c] \in Replicas
          BY ReplicaAssumption
    <3> QED BY <2>8, <3>1 DEF Die, LockNext
  <2> QED BY <1>2, <2>1, <2>2, <2>3, <2>4, <2>5, <2>6, <2>7, <2>8 DEF CallStep
<1>3. ASSUME NEW r \in Replicas, Crash(r) PROVE [LockNext]_lockVars
      BY <1>3 DEF Crash, LockNext
<1>4. ASSUME NEW ch \in Channels, OperatorUnlock(ch) PROVE [LockNext]_lockVars
      BY <1>4 DEF OperatorUnlock, LockNext
<1>5. CASE ChainStep
      BY <1>5 DEF ChainStep, OpenChannel, AddFunds, ExtendChannel, ClaimOnChain, ClaimTimeout, NextBlock
<1>6. CASE UNCHANGED vars
      BY <1>6 DEF vars
<1> QED BY <1>1, <1>2, <1>3, <1>4, <1>5, <1>6 DEF Next

----------------------------------------------------------------------------
(* Facts about the functions of ChannelState. *)

\* The signatures and the absent channel have their types.
LEMMA ConstantTypes ==
  /\ NoSig \in Signatures
  /\ NoData \in ChannelData
  /\ NoData.nonce = -1 /\ NoData.auth = 0 /\ NoData.sig = NoSig
  /\ NotOpened \in MpeChannel
  /\ \A n, a \in Int : Sign(n, a) \in Signatures
  BY DEF NoSig, Signatures, NoData, ChannelData, NotOpened, MpeChannel, Payees, Sign

\* Reading a channel gives a channel, or says that there is none.
LEMMA PaymentChannelType ==
  ASSUME NEW s \in ChannelData, NEW bc \in MpeChannel, NEW ok \in BOOLEAN
  PROVE  /\ PaymentChannel(s, bc, ok).data \in ChannelData
         /\ PaymentChannel(s, bc, ok).res \in {"found", "notFound", "error"}
<1>1. FromBlockchain(bc) \in ChannelData
      BY ConstantTypes DEF FromBlockchain, ChannelData, MpeChannel
<1>2. Merge(s, FromBlockchain(bc)) \in ChannelData
      BY <1>1 DEF Merge, ChannelData
<1> QED BY <1>1, <1>2, ConstantTypes DEF PaymentChannel, Found, NotFound, Failed

\* What the daemon writes to its two storages has the storages' types.
LEMMA WriteTypes ==
  ASSUME NEW s \in ChannelData, NEW p \in Requests, NEW ch \in Channels
  PROVE  /\ Committed(s, p) \in ChannelData
         /\ IncrementChannelNonce(s) \in ChannelData
         /\ PaymentOf(ch, s) \in Payments
<1>0. p.amount \in Int /\ p.sig \in Signatures
      BY DEF Requests
<1>1. Committed(s, p) \in ChannelData
      BY <1>0 DEF Committed, ChannelData
<1>2. IncrementChannelNonce(s) \in ChannelData
      BY ConstantTypes DEF IncrementChannelNonce, ChannelData
<1>3. PaymentOf(ch, s) \in Payments
      BY DEF PaymentOf, ChannelData, Payments
<1> QED BY <1>1, <1>2, <1>3

\* Reading a channel found in either place never goes back behind what the
\* storage has: the nonce is higher, or the nonce, the authorized amount and
\* the signature are the stored ones.
LEMMA PaymentChannelForward ==
  ASSUME NEW s \in ChannelData, NEW bc \in MpeChannel, NEW ok \in BOOLEAN,
         PaymentChannel(s, bc, ok).res = "found"
  PROVE  LET d == PaymentChannel(s, bc, ok).data IN
         \/ d.nonce > s.nonce
         \/ d.nonce = s.nonce /\ d.auth = s.auth /\ d.sig = s.sig
<1>1. FromBlockchain(bc).nonce \in Nat
      BY DEF FromBlockchain, MpeChannel
<1>2. CASE s = NoData
      BY <1>1, <1>2, ConstantTypes DEF PaymentChannel, Found, NotFound, Failed
<1>3. CASE s # NoData
      BY <1>1, <1>3 DEF PaymentChannel, Found, NotFound, Failed, Merge, ChannelData
<1> QED BY <1>2, <1>3

\* A channel that is found is signed for when the stored one is, and is one of
\* ours when the stored one is: the group and the recipient are verified
\* before the daemon first stores a channel.
LEMMA PaymentChannelGood ==
  ASSUME NEW s \in ChannelData, NEW bc \in MpeChannel, NEW ok \in BOOLEAN,
         SignedFor(s.nonce, s.auth, s.sig),
         s # NoData => bc.open /\ bc.payee = "ours",
         PaymentChannel(s, bc, ok).res = "found"
  PROVE  LET d == PaymentChannel(s, bc, ok).data IN
         /\ bc.open /\ bc.payee = "ours"
         /\ SignedFor(d.nonce, d.auth, d.sig)
<1>1. SignedFor(FromBlockchain(bc).nonce, FromBlockchain(bc).auth, FromBlockchain(bc).sig)
      BY DEF FromBlockchain, SignedFor
<1>2. CASE s = NoData
      BY <1>1, <1>2 DEF PaymentChannel, Found, NotFound, Failed, BlockchainError, MpeChannel, Payees
<1>3. CASE s # NoData
      BY <1>1, <1>3 DEF PaymentChannel, Found, NotFound, Failed, Merge, ChannelData
<1> QED BY <1>2, <1>3

----------------------------------------------------------------------------
(* Type correctness. *)

\* Requests have their types.
LEMMA RequestTypes ==
  /\ NoRequest \in Requests /\ ListRequest \in Requests
  /\ \A p \in PayRequests : p \in Requests /\ p.ch \in Channels /\ p.kind = "pay"
  /\ \A q \in ClaimRequests : q \in Requests /\ q.ch \in Channels /\ q.kind = "claim"
<1>1. NoRequest \in Requests /\ ListRequest \in Requests
      BY ConstantTypes DEF NoRequest, ListRequest, Requests
<1>2. ASSUME NEW p \in PayRequests PROVE p \in Requests /\ p.ch \in Channels /\ p.kind = "pay"
  <2>1. PICK ch \in Channels, n \in ReqNonces, a \in ReqAmounts :
          \/ p = [kind |-> "pay", ch |-> ch, nonce |-> n, amount |-> a, sig |-> Sign(n, a)]
          \/ p = [kind |-> "pay", ch |-> ch, nonce |-> n, amount |-> a, sig |-> NoSig]
        BY DEF PayRequests
  <2>2. n \in Nat /\ a \in Nat /\ Sign(n, a) \in Signatures /\ NoSig \in Signatures
        BY RequestAssumption, ConstantTypes
  <2> QED BY <2>1, <2>2 DEF Requests
<1>3. ASSUME NEW q \in ClaimRequests PROVE q \in Requests /\ q.ch \in Channels /\ q.kind = "claim"
      BY RequestAssumption, ConstantTypes DEF ClaimRequests, Requests
<1> QED BY <1>1, <1>2, <1>3

\* A call that ends leaves its variables typed.
LEMMA EndCallType ==
  ASSUME TypeOK, NEW c \in Calls, EndCall(c)
  PROVE  /\ pc' \in [Calls -> Pcs] /\ req' \in [Calls -> Requests]
         /\ snap' \in [Calls -> ChannelData] /\ todo' \in [Calls -> SUBSET Payments]
<1>1. NoRequest \in Requests /\ NoData \in ChannelData /\ "idle" \in Pcs
      BY RequestTypes, ConstantTypes DEF Pcs
<1> QED BY <1>1 DEF TypeOK, EndCall, Goto

\* The types of everything but the locks.
DataTypeOK ==
  /\ pc     \in [Calls -> Pcs]
  /\ req    \in [Calls -> Requests]
  /\ snap   \in [Calls -> ChannelData]
  /\ todo   \in [Calls -> SUBSET Payments]
  /\ store  \in [Channels -> ChannelData]
  /\ pays   \in SUBSET Payments
  /\ chain  \in [Channels -> MpeChannel]
  /\ block  \in 0 .. MaxBlock
  /\ funded \in [Channels -> 0 .. MaxFunds]
  /\ income \in [Channels -> Int]
  /\ served \in [Channels -> Nat]

\* A paid call keeps the types.
LEMMA PayTypes ==
  ASSUME EscrowInv, NEW c \in Calls,
         \/ \E p \in PayRequests : StartPayment(c, p)
         \/ LockStep(c) \/ LockDenied(c) \/ UnlockStep(c)
         \/ PaymentGet(c) \/ PaymentChain(c) \/ PaymentValidate(c)
         \/ ServiceDone(c) \/ ServiceFailed(c) \/ ServicePanics(c)
         \/ PanicUnlock(c) \/ PaymentCommit(c)
  PROVE  DataTypeOK'
<1> USE DEF DataTypeOK, callVars, chainVars, Goto
<1>t. TypeOK /\ DataTypeOK
      BY DEF EscrowInv, TypeOK
<1>p. {"lock", "chain", "validate", "unlock", "serve", "commit", "panic", "dying"} \subseteq Pcs
      BY DEF Pcs, PayPcs
<1>1. ASSUME NEW p \in PayRequests, StartPayment(c, p) PROVE DataTypeOK'
      BY <1>1, <1>t, <1>p, RequestTypes DEF StartPayment
<1>2. CASE LockStep(c)
      BY <1>2, <1>t DEF LockStep
<1>3. CASE LockDenied(c) \/ UnlockStep(c)
      BY <1>3, <1>t, EndCallType DEF LockDenied, UnlockStep
<1>4. CASE PaymentGet(c)
  <2>1. store[Ch(c)] \in ChannelData
        BY <1>4, <1>t DEF PaymentGet, EscrowInv, CallLock, Ch
  <2> QED BY <1>4, <1>t, <1>p, <2>1 DEF PaymentGet
<1>5. CASE PaymentChain(c)
  <2>1. Ch(c) \in Channels
        BY <1>5, <1>t DEF PaymentChain, EscrowInv, CallLock, Ch, At, PayPcs
  <2>2. \A ok \in BOOLEAN : PaymentChannel(snap[c], chain[Ch(c)], ok).data \in ChannelData
        BY <1>t, <2>1, PaymentChannelType
  <2> QED BY <1>5, <1>t, <1>p, <2>2 DEF PaymentChain
<1>6. CASE PaymentValidate(c) \/ ServiceFailed(c) \/ ServicePanics(c) \/ PanicUnlock(c)
      BY <1>6, <1>t, <1>p DEF PaymentValidate, ServiceFailed, ServicePanics, PanicUnlock
<1>7. CASE ServiceDone(c)
  <2>1. Ch(c) \in Channels
        BY <1>7, <1>t DEF ServiceDone, EscrowInv, CallLock, Ch, At, PayPcs
  <2>2. served' \in [Channels -> Nat]
        BY <1>7, <1>t, <2>1 DEF ServiceDone
  <2> QED BY <1>7, <1>t, <1>p, <2>2 DEF ServiceDone
<1>8. CASE PaymentCommit(c)
  <2>0. Ch(c) \in Channels
        BY <1>8, <1>t DEF PaymentCommit, EscrowInv, CallLock, Ch, At, PayPcs
  <2>1. Committed(snap[c], req[c]) \in ChannelData
        BY <1>t, <2>0, WriteTypes
  <2> QED BY <1>8, <1>t, <1>p, <2>1 DEF PaymentCommit
<1> QED BY <1>1, <1>2, <1>3, <1>4, <1>5, <1>6, <1>7, <1>8

\* A claim, or a list of claims, keeps the types.
LEMMA ClaimTypes ==
  ASSUME EscrowInv, NEW c \in Calls,
         \/ \E q \in ClaimRequests : ClaimRequest(c, q)
         \/ InProgressRequest(c)
         \/ UnlockedGet(c) \/ VerifyChain(c) \/ ListClaims(c)
         \/ RemoveClaimed(c) \/ RemoveDone(c) \/ BeginChain(c)
         \/ ClaimLock(c) \/ ClaimGet(c) \/ ClaimPut(c) \/ PaymentPut(c)
  PROVE  DataTypeOK'
<1> USE DEF DataTypeOK, callVars, chainVars, Goto
<1>t. TypeOK /\ DataTypeOK
      BY DEF EscrowInv, TypeOK
<1>p. {"verifyGet", "verifyChain", "list", "remove", "beginGet", "beginChain", "begin", "lock",
       "claimPut", "paymentPut", "unlock", "dying"} \subseteq Pcs
      BY DEF Pcs, ClaimPcs
<1>n. NoData \in ChannelData
      BY ConstantTypes
<1>1. ASSUME NEW q \in ClaimRequests, ClaimRequest(c, q) PROVE DataTypeOK'
      BY <1>1, <1>t, <1>p, RequestTypes DEF ClaimRequest
<1>2. CASE InProgressRequest(c)
      BY <1>2, <1>t, <1>p, RequestTypes DEF InProgressRequest
<1>3. CASE UnlockedGet(c)
  <2>1. store[Ch(c)] \in ChannelData
        BY <1>3, <1>t DEF UnlockedGet, EscrowInv, CallLock, Ch, ClaimPcs
  <2>2. CASE EndCall(c)
        BY <1>3, <1>t, <2>2, EndCallType DEF UnlockedGet
  <2>3. CASE ~EndCall(c)
        BY <1>3, <1>t, <1>p, <2>1, <2>3 DEF UnlockedGet
  <2> QED BY <2>2, <2>3
<1>4. CASE VerifyChain(c)
  <2>1. CASE EndCall(c)
        BY <1>4, <1>t, <2>1, EndCallType DEF VerifyChain
  <2>2. CASE ~EndCall(c)
        BY <1>4, <1>t, <1>p, <1>n, <2>2 DEF VerifyChain
  <2> QED BY <2>1, <2>2
<1>5. CASE ListClaims(c)
  <2>1. CASE EndCall(c)
        BY <1>5, <1>t, <2>1, EndCallType DEF ListClaims
  <2>2. CASE ~EndCall(c)
        BY <1>5, <1>t, <1>p, <2>2 DEF ListClaims
  <2> QED BY <2>1, <2>2
<1>6. CASE RemoveClaimed(c)
  <2>0. pays' \subseteq pays
        BY <1>6 DEF RemoveClaimed
  <2>1. CASE EndCall(c)
        BY <1>6, <1>t, <2>0, <2>1, EndCallType DEF RemoveClaimed
  <2>2. CASE ~EndCall(c)
    <3>1. todo' \in [Calls -> SUBSET Payments]
          BY <1>6, <1>t, <2>2 DEF RemoveClaimed, Rest
    <3> QED BY <1>6, <1>t, <2>0, <2>2, <3>1 DEF RemoveClaimed
  <2> QED BY <2>1, <2>2
<1>7. CASE RemoveDone(c)
  <2>1. CASE EndCall(c)
        BY <1>7, <1>t, <2>1, EndCallType DEF RemoveDone
  <2>2. CASE ~EndCall(c)
        BY <1>7, <1>t, <1>p, <2>2 DEF RemoveDone
  <2> QED BY <2>1, <2>2
<1>8. CASE BeginChain(c)
  <2>1. CASE EndCall(c)
        BY <1>8, <1>t, <2>1, EndCallType DEF BeginChain
  <2>2. CASE ~EndCall(c)
        BY <1>8, <1>t, <1>p, <1>n, <2>2 DEF BeginChain
  <2> QED BY <2>1, <2>2
<1>9. CASE ClaimLock(c)
      BY <1>9, <1>t, <1>p DEF ClaimLock
<1>10. CASE ClaimGet(c)
  <2>1. store[Ch(c)] \in ChannelData
        BY <1>10, <1>t DEF ClaimGet, EscrowInv, CallLock, Ch
  <2> QED BY <1>10, <1>t, <1>p, <2>1 DEF ClaimGet
<1>11. CASE ClaimPut(c)
  <2>1. Ch(c) \in Channels
        BY <1>11, <1>t DEF ClaimPut, EscrowInv, CallLock, Ch, At, ClaimPcs
  <2>2. IncrementChannelNonce(snap[c]) \in ChannelData
        BY <1>t, <2>1, WriteTypes
  <2> QED BY <1>11, <1>t, <1>p, <2>2 DEF ClaimPut
<1>12. CASE PaymentPut(c)
  <2>1. Ch(c) \in Channels
        BY <1>12, <1>t DEF PaymentPut, EscrowInv, CallLock, Ch, At, ClaimPcs
  <2>2. PaymentOf(Ch(c), snap[c]) \in Payments
        BY <1>t, <2>1, WriteTypes
  <2> QED BY <1>12, <1>t, <1>p, <2>2 DEF PaymentPut
<1> QED BY <1>1, <1>2, <1>3, <1>4, <1>5, <1>6, <1>7, <1>8, <1>9, <1>10, <1>11, <1>12

\* A claim and a withdrawal keep a channel of the contract typed.
LEMMA MpeChannelTypes ==
  ASSUME NEW bc \in MpeChannel, NEW a \in Int
  PROVE  /\ [bc EXCEPT !.nonce = @ + 1, !.value = @ - a] \in MpeChannel
         /\ [bc EXCEPT !.nonce = @ + 1, !.value = 0, !.exp = 0] \in MpeChannel
<1>1. bc.nonce + 1 \in Nat /\ bc.value - a \in Int /\ 0 \in Nat /\ 0 \in Int
      BY DEF MpeChannel
<1>2. \A n \in Nat, v \in Int : [bc EXCEPT !.nonce = n, !.value = v] \in MpeChannel
      BY DEF MpeChannel
<1>3. \A n \in Nat, v \in Int, e \in Nat : [bc EXCEPT !.nonce = n, !.value = v, !.exp = e] \in MpeChannel
      BY DEF MpeChannel
<1> QED BY <1>1, <1>2, <1>3, Zenon

\* The end of a process, the operator and the contract keep the types.
LEMMA OtherTypes ==
  ASSUME EscrowInv,
         \/ \E c \in Calls : Die(c)
         \/ \E r \in Replicas : Crash(r)
         \/ \E ch \in Channels : OperatorUnlock(ch)
         \/ ChainStep
  PROVE  DataTypeOK'
<1> USE DEF DataTypeOK, callVars, chainVars, daemonVars
<1>t. TypeOK /\ DataTypeOK
      BY DEF EscrowInv, TypeOK
<1>e. ASSUME NEW r, EndCalls(r), UNCHANGED <<store, pays, chainVars, served>> PROVE DataTypeOK'
  <2>1. NoRequest \in Requests /\ NoData \in ChannelData /\ "idle" \in Pcs
        BY RequestTypes, ConstantTypes DEF Pcs
  <2> QED BY <1>e, <1>t, <2>1 DEF EndCalls
<1>1. ASSUME NEW c \in Calls, Die(c) PROVE DataTypeOK'
      BY <1>1, <1>e DEF Die
<1>2. ASSUME NEW r \in Replicas, Crash(r) PROVE DataTypeOK'
      BY <1>2, <1>e DEF Crash
<1>3. ASSUME NEW ch \in Channels, OperatorUnlock(ch) PROVE DataTypeOK'
      BY <1>3, <1>t DEF OperatorUnlock
<1>4. ASSUME NEW ch \in Channels, NEW v \in Deposits, NEW e \in Expirations, NEW y \in OpenPayees,
             OpenChannel(ch, v, e, y)
      PROVE  DataTypeOK'
  <2>1. v \in 0 .. MaxFunds /\ e \in Nat /\ y \in Payees
        BY <1>4, ChainAssumption DEF OpenChannel
  <2>2. [open |-> TRUE, payee |-> y, nonce |-> 0, value |-> v, exp |-> e] \in MpeChannel
        BY <2>1 DEF MpeChannel
  <2> QED BY <1>4, <1>t, <2>1, <2>2 DEF OpenChannel
<1>5. ASSUME NEW ch \in Channels, NEW v \in Deposits, AddFunds(ch, v) PROVE DataTypeOK'
  <2>1. funded[ch] + v \in 0 .. MaxFunds /\ v \in Int
        BY <1>5, <1>t, ChainAssumption DEF AddFunds
  <2>2. [chain[ch] EXCEPT !.value = @ + v] \in MpeChannel
        BY <1>t, <2>1 DEF MpeChannel
  <2>3. chain' = [chain EXCEPT ![ch] = [chain[ch] EXCEPT !.value = @ + v]]
        BY <1>5 DEF AddFunds
  <2> QED BY <1>5, <1>t, <2>1, <2>2, <2>3 DEF AddFunds
<1>6. ASSUME NEW ch \in Channels, NEW e \in Expirations, ExtendChannel(ch, e) PROVE DataTypeOK'
  <2>1. [chain[ch] EXCEPT !.exp = e] \in MpeChannel
        BY <1>t, ChainAssumption DEF MpeChannel
  <2>2. chain' = [chain EXCEPT ![ch] = [chain[ch] EXCEPT !.exp = e]]
        BY <1>6 DEF ExtendChannel
  <2> QED BY <1>6, <1>t, <2>1, <2>2 DEF ExtendChannel
<1>7. ASSUME NEW ch \in Channels, ClaimTimeout(ch) PROVE DataTypeOK'
  <2>1. [chain[ch] EXCEPT !.nonce = @ + 1, !.value = 0, !.exp = 0] \in MpeChannel
        BY <1>t, MpeChannelTypes
  <2>2. chain' = [chain EXCEPT ![ch] = [chain[ch] EXCEPT !.nonce = @ + 1, !.value = 0, !.exp = 0]]
        BY <1>7, <1>t DEF ClaimTimeout
  <2> QED BY <1>7, <1>t, <2>1, <2>2 DEF ClaimTimeout
<1>8. ASSUME NEW p \in pays, ClaimOnChain(p) PROVE DataTypeOK'
  <2>1. p.ch \in Channels /\ p.amount \in Int
        BY <1>t DEF Payments
  <2>2. [chain[p.ch] EXCEPT !.nonce = @ + 1, !.value = @ - p.amount] \in MpeChannel
        BY <1>t, <2>1, MpeChannelTypes
  <2>3. chain' = [chain EXCEPT ![p.ch] = [chain[p.ch] EXCEPT !.nonce = @ + 1, !.value = @ - p.amount]]
        BY <1>8, <1>t, <2>1 DEF ClaimOnChain
  <2> QED BY <1>8, <1>t, <2>1, <2>2, <2>3 DEF ClaimOnChain
<1>9. CASE NextBlock
      BY <1>9, <1>t, ChainAssumption DEF NextBlock
<1> QED BY <1>1, <1>2, <1>3, <1>4, <1>5, <1>6, <1>7, <1>8, <1>9 DEF ChainStep

\* Every step keeps every type.
LEMMA TypeStep ==
  ASSUME EscrowInv, [Next]_vars
  PROVE  TypeOK'
<1>1. LockInv'
      BY NextIsLockNext, LockNextInv DEF EscrowInv
<1>2. DataTypeOK'
  <2>1. CASE UNCHANGED vars
        BY <2>1 DEF vars, callVars, chainVars, DataTypeOK, EscrowInv, TypeOK
  <2> QED BY <2>1, PayTypes, ClaimTypes, OtherTypes DEF Next, StartCall, CallStep
<1> QED BY <1>1, <1>2 DEF TypeOK, DataTypeOK, LockInv

----------------------------------------------------------------------------
(* The rest of the invariant: what a call knows while it holds the lock. *)

CallInv == /\ CallLock /\ SnapshotGood /\ Accepted
           /\ Isolation /\ ClaimsVerify /\ OnlyOurChannels

\* The pcs of the code that needs no lock.
FreePcs == Pcs \ (LockedPcs \cup {"lock"})

\* Nothing of another call than c changes.
Others(c) ==
  \A d \in Calls \ {c} :
    /\ pc'[d] = pc[d] /\ req'[d] = req[d] /\ snap'[d] = snap[d]
    /\ lst'[d] = lst[d] /\ target'[d] = target[d]

\* A step to code that needs no lock, by a call that has none afterwards,
\* keeps the invariant when it writes no channel.
LEMMA FreeStep ==
  ASSUME EscrowInv, NEW c \in Calls, Others(c),
         pc'[c] \in FreePcs, lst'[c] = "idle",
         pc'[c] \notin PayPcs,
         pc'[c] \in ClaimPcs \ {"list", "remove"} => req'[c].kind = "claim",
         req'[c].kind \in {"pay", "claim"} => req'[c].ch \in Channels,
         store' = store, chain' = chain, pays' \subseteq pays
  PROVE  CallInv'
<1> USE DEF EscrowInv, Others
<1>p. pc'[c] \notin {"chain", "validate", "serve", "commit", "claimPut", "paymentPut", "lock"}
      BY DEF FreePcs, LockedPcs
<1>1. CallLock'
      BY DEF CallLock, FreePcs
<1>2. SnapshotGood' /\ Accepted'
      BY <1>p DEF SnapshotGood, Accepted
<1>3. Isolation'
      BY <1>p DEF Isolation
<1>4. ClaimsVerify' /\ OnlyOurChannels'
      BY DEF ClaimsVerify, OnlyOurChannels
<1> QED BY <1>1, <1>2, <1>3, <1>4 DEF CallInv

\* A call that returns keeps the invariant if it has given the lock back.
LEMMA EndCallInv ==
  ASSUME EscrowInv, NEW c \in Calls, EndCall(c), lst'[c] = "idle",
         \A d \in Calls \ {c} : lst'[d] = lst[d] /\ target'[d] = target[d],
         store' = store, chain' = chain, pays' \subseteq pays
  PROVE  CallInv'
<1>1. Others(c) /\ pc'[c] = "idle" /\ req'[c] = NoRequest
      BY DEF EndCall, Goto, Others, EscrowInv, TypeOK
<1>2. NoRequest.kind = "none"
      BY DEF NoRequest
<1>3. "idle" \in FreePcs /\ "idle" \notin PayPcs \cup ClaimPcs
      BY DEF FreePcs, Pcs, LockedPcs, PayPcs, ClaimPcs
<1> QED BY <1>1, <1>2, <1>3, FreeStep

\* While a call holds the lock of its channel no other call works on it.
LEMMA Alone ==
  ASSUME EscrowInv, NEW c \in Calls, pc[c] \in LockedPcs
  PROVE  /\ req[c].ch \in Channels
         /\ \A d \in Calls \ {c} : pc[d] \in LockedPcs => req[d].ch # req[c].ch
<1>1. Holds(c, req[c].ch) /\ req[c].ch \in Channels
      BY DEF EscrowInv, CallLock, Holds, LockInv, TargetIsChannel
<1>2. ASSUME NEW d \in Calls \ {c}, pc[d] \in LockedPcs PROVE req[d].ch # req[c].ch
  <2>1. Holds(d, req[d].ch)
        BY <1>2 DEF EscrowInv, CallLock, Holds
  <2> QED BY <1>1, <2>1 DEF EscrowInv, LockInv, MutualExclusion
<1> QED BY <1>1, <1>2

\* Lock() and Unlock() keep the invariant.
LEMMA LockingInv ==
  ASSUME EscrowInv, NEW c \in Calls,
         \/ \E p \in PayRequests : StartPayment(c, p)
         \/ ClaimLock(c) \/ LockStep(c) \/ LockDenied(c) \/ UnlockStep(c) \/ PanicUnlock(c)
  PROVE  CallInv'
<1> USE DEF callVars, chainVars, EscrowInv, TypeOK, LockTypeOK
<1>1. ASSUME NEW p \in PayRequests, StartPayment(c, p) PROVE CallInv'
  <2>1. p.kind = "pay" /\ p.ch \in Channels
        BY RequestTypes
  <2>2. /\ Others(c) /\ pc'[c] = "lock" /\ req'[c] = p /\ target'[c] = p.ch /\ lst'[c] # "idle"
        /\ UNCHANGED <<store, chain, pays>>
        BY <1>1 DEF StartPayment, LockGet, Goto, Others
  <2>3. CallLock'
        BY <2>1, <2>2 DEF CallLock, Others, LockedPcs, PayPcs, ClaimPcs
  <2>4. SnapshotGood' /\ Accepted' /\ Isolation'
        BY <2>2 DEF SnapshotGood, Accepted, Isolation, Others
  <2>5. ClaimsVerify' /\ OnlyOurChannels'
        BY <2>2 DEF ClaimsVerify, OnlyOurChannels
  <2> QED BY <2>3, <2>4, <2>5 DEF CallInv
<1>2. CASE ClaimLock(c) \/ LockStep(c)
  <2>2. /\ Others(c) /\ pc'[c] = "lock" /\ req' = req /\ target'[c] = req[c].ch /\ lst'[c] # "idle"
        /\ UNCHANGED <<store, chain, pays>> /\ pc[c] \in {"begin", "lock"}
        BY <1>2 DEF ClaimLock, LockStep, LockGet, LockSwap, Goto, Others, Ch, At, CallLock
  <2>3. CallLock'
        BY <2>2 DEF CallLock, Others, LockedPcs, PayPcs, ClaimPcs
  <2>4. SnapshotGood' /\ Accepted' /\ Isolation'
        BY <2>2 DEF SnapshotGood, Accepted, Isolation, Others
  <2>5. ClaimsVerify' /\ OnlyOurChannels'
        BY <2>2 DEF ClaimsVerify, OnlyOurChannels
  <2> QED BY <2>3, <2>4, <2>5 DEF CallInv
<1>3. CASE LockDenied(c) \/ UnlockStep(c)
  <2>1. /\ EndCall(c) /\ lst'[c] = "idle" /\ UNCHANGED <<store, chain, pays>>
        /\ \A d \in Calls \ {c} : lst'[d] = lst[d] /\ target'[d] = target[d]
        BY <1>3 DEF LockDenied, UnlockStep, LockReturn, Unlock
  <2> QED BY <2>1, EndCallInv
<1>4. CASE PanicUnlock(c)
  <2>1. /\ Others(c) /\ pc'[c] = "dying" /\ lst'[c] = "idle" /\ req' = req
        /\ UNCHANGED <<store, chain, pays>>
        BY <1>4 DEF PanicUnlock, Unlock, Goto, Others
  <2>2. "dying" \in FreePcs /\ "dying" \notin PayPcs \cup ClaimPcs
        BY DEF FreePcs, Pcs, LockedPcs, PayPcs, ClaimPcs
  <2>3. req[c].kind \in {"pay", "claim"} => req[c].ch \in Channels
        BY DEF CallLock
  <2> QED BY <2>1, <2>2, <2>3, FreeStep
<1> QED BY <1>1, <1>2, <1>3, <1>4

\* The steps of a paid call under the lock keep the invariant.
LEMMA PayInv ==
  ASSUME EscrowInv, NEW c \in Calls,
         \/ PaymentGet(c) \/ PaymentChain(c) \/ PaymentValidate(c)
         \/ ServiceDone(c) \/ ServiceFailed(c) \/ ServicePanics(c) \/ PaymentCommit(c)
  PROVE  CallInv'
<1> USE DEF callVars, chainVars, EscrowInv, TypeOK, LockTypeOK
<1>f. /\ Others(c) /\ lst' = lst /\ target' = target /\ req' = req /\ UNCHANGED <<chain, pays>>
      BY DEF PaymentGet, PaymentChain, PaymentValidate, ServiceDone, ServiceFailed, ServicePanics,
             PaymentCommit, Goto, Others, KeepLock, lockVars
<1>l. /\ lst[c] = "held" /\ target[c] = req[c].ch /\ req[c].kind = "pay" /\ req[c].ch \in Channels
      /\ pc'[c] \in {"unlock", "chain", "validate", "serve", "commit", "panic"}
      BY DEF PaymentGet, PaymentChain, PaymentValidate, ServiceDone, ServiceFailed, ServicePanics,
             PaymentCommit, Goto, At, CallLock, PayPcs, LockedPcs
<1>1. CallLock'
      BY <1>f, <1>l DEF CallLock, Others, LockedPcs, PayPcs, ClaimPcs
<1>2. CASE PaymentGet(c)
  <2>1. store' = store /\ (pc'[c] = "unlock" \/ (pc'[c] = "chain" /\ snap'[c] = store[req[c].ch]))
        BY <1>2 DEF PaymentGet, Goto, Ch
  <2>2. SnapshotGood' /\ Accepted' /\ Isolation'
        BY <1>f, <2>1 DEF SnapshotGood, Accepted, Isolation, Others
  <2> QED BY <1>1, <1>f, <2>1, <2>2 DEF CallInv, ClaimsVerify, OnlyOurChannels
<1>3. CASE PaymentChain(c)
  <2>1. PICK ok \in BOOLEAN :
          LET r == PaymentChannel(snap[c], chain[req[c].ch], ok)
          IN pc'[c] = (IF r.res = "found" THEN "validate" ELSE "unlock") /\ snap'[c] = r.data
        BY <1>3 DEF PaymentChain, Goto, Ch
  <2>2. store' = store /\ snap[c] = store[req[c].ch]
        BY <1>3 DEF PaymentChain, At, Isolation
  <2>3. CASE pc'[c] = "unlock"
    <3>1. SnapshotGood' /\ Accepted' /\ Isolation'
          BY <1>f, <2>2, <2>3 DEF SnapshotGood, Accepted, Isolation, Others
    <3> QED BY <1>1, <1>f, <2>2, <3>1 DEF CallInv, ClaimsVerify, OnlyOurChannels
  <2>4. CASE pc'[c] = "validate"
    <3>1. PaymentChannel(snap[c], chain[req[c].ch], ok).res = "found"
          BY <2>1, <2>4
    <3>2. /\ SignedFor(snap[c].nonce, snap[c].auth, snap[c].sig)
          /\ snap[c] # NoData => chain[req[c].ch].open /\ chain[req[c].ch].payee = "ours"
          BY <2>2, <1>l DEF ClaimsVerify, OnlyOurChannels
    <3>3. snap[c] \in ChannelData /\ chain[req[c].ch] \in MpeChannel
          BY <1>l
    <3>4. /\ chain[req[c].ch].open /\ chain[req[c].ch].payee = "ours"
          /\ SignedFor(snap'[c].nonce, snap'[c].auth, snap'[c].sig)
          BY <2>1, <3>1, <3>2, <3>3, PaymentChannelGood
    <3>5. \/ snap'[c].nonce > snap[c].nonce
          \/ snap'[c].nonce = snap[c].nonce /\ snap'[c].auth = snap[c].auth /\ snap'[c].sig = snap[c].sig
          BY <2>1, <3>1, <3>3, PaymentChannelForward
    <3>6. SnapshotGood' /\ Accepted'
          BY <1>f, <2>2, <2>4, <3>4 DEF SnapshotGood, Accepted, Others
    <3>7. Isolation'
          BY <1>f, <2>2, <2>4, <3>5 DEF Isolation, Others
    <3> QED BY <1>1, <1>f, <2>2, <3>6, <3>7 DEF CallInv, ClaimsVerify, OnlyOurChannels
  <2> QED BY <2>1, <2>3, <2>4
<1>4. CASE PaymentValidate(c)
  <2>1. /\ store' = store /\ snap' = snap /\ pc[c] = "validate"
        /\ pc'[c] = "unlock" \/ (pc'[c] = "serve" /\ Validate(req[c], snap[c], block)
                                                  /\ IncomeValid(req[c], snap[c]))
        BY <1>4 DEF PaymentValidate, Goto, At
  <2>2. SnapshotGood' /\ Isolation'
        BY <1>f, <2>1 DEF SnapshotGood, Isolation, Others
  <2>3. Accepted'
    <3>1. snap[c].auth \in Int /\ snap[c].full \in Int /\ req[c].amount \in Int /\ Price \in Int
          BY PriceAssumption DEF ChannelData, Requests
    <3>2. pc'[c] = "serve" => /\ req[c].amount = snap[c].auth + Price /\ req[c].amount <= snap[c].full
                              /\ req[c].nonce = snap[c].nonce
                              /\ req[c].sig = Sign(req[c].nonce, req[c].amount)
          BY <2>1, <3>1 DEF Validate, IncomeValid
    <3> QED BY <1>f, <2>1, <3>2 DEF Accepted, Others
  <2> QED BY <1>1, <1>f, <2>1, <2>2, <2>3 DEF CallInv, ClaimsVerify, OnlyOurChannels
<1>5. CASE ServiceDone(c) \/ ServiceFailed(c) \/ ServicePanics(c)
  <2>1. /\ store' = store /\ snap' = snap /\ pc[c] = "serve" /\ pc'[c] \in {"commit", "unlock", "panic"}
        BY <1>5 DEF ServiceDone, ServiceFailed, ServicePanics, Goto, At
  <2>2. SnapshotGood' /\ Isolation' /\ Accepted'
        BY <1>f, <2>1 DEF SnapshotGood, Isolation, Accepted, Others
  <2> QED BY <1>1, <1>f, <2>1, <2>2 DEF CallInv, ClaimsVerify, OnlyOurChannels
<1>6. CASE PaymentCommit(c)
  <2>1. /\ snap' = snap /\ pc[c] = "commit" /\ pc'[c] = "unlock"
        /\ store' = store \/ store' = [store EXCEPT ![req[c].ch] = Committed(snap[c], req[c])]
        BY <1>6 DEF PaymentCommit, Goto, At, Ch
  <2>2. \A d \in Calls \ {c} : pc[d] \in LockedPcs => store'[req[d].ch] = store[req[d].ch]
        BY <2>1, <1>l, Alone DEF LockedPcs
  <2>3. SnapshotGood' /\ Accepted'
        BY <1>f, <2>1 DEF SnapshotGood, Accepted, Others
  <2>4. Isolation'
        BY <1>f, <2>1, <2>2 DEF Isolation, Others, LockedPcs
  <2>5. LET t == Committed(snap[c], req[c]) IN
        SignedFor(t.nonce, t.auth, t.sig)
    <3>1. snap[c].auth >= 0
          BY <2>1 DEF SnapshotGood, SignedFor, ChannelData
    <3>2. req[c].amount > 0
          BY <2>1, <3>1, PriceAssumption DEF Accepted, ChannelData, Requests
    <3> QED BY <2>1, <3>2 DEF Accepted, Committed, SignedFor, ChannelData
  <2>6. ClaimsVerify'
        BY <1>f, <1>l, <2>1, <2>5 DEF ClaimsVerify
  <2>7. OnlyOurChannels'
        BY <1>f, <1>l, <2>1 DEF OnlyOurChannels, SnapshotGood
  <2> QED BY <1>1, <2>3, <2>4, <2>6, <2>7 DEF CallInv
<1> QED BY <1>2, <1>3, <1>4, <1>5, <1>6

\* The steps of a control request before it takes the lock keep the invariant.
LEMMA ControlInv ==
  ASSUME EscrowInv, NEW c \in Calls,
         \/ \E q \in ClaimRequests : ClaimRequest(c, q)
         \/ InProgressRequest(c)
         \/ UnlockedGet(c) \/ VerifyChain(c) \/ ListClaims(c)
         \/ RemoveClaimed(c) \/ RemoveDone(c) \/ BeginChain(c)
  PROVE  CallInv'
<1> USE DEF callVars, chainVars, lockVars, EscrowInv, TypeOK, LockTypeOK, Goto, At
<1>p. /\ {"verifyGet", "verifyChain", "list", "remove", "beginGet", "beginChain", "begin", "dying"}
           \subseteq FreePcs
      /\ {"verifyGet", "verifyChain", "list", "remove", "beginGet", "beginChain", "begin", "dying"}
           \cap PayPcs = {}
      /\ "idle" \in FreePcs
      BY DEF FreePcs, Pcs, LockedPcs, PayPcs, ClaimPcs
<1>1. ASSUME NEW q \in ClaimRequests, ClaimRequest(c, q) PROVE CallInv'
  <2>1. /\ Others(c) /\ pc'[c] = "verifyGet" /\ lst'[c] = "idle" /\ req'[c] = q
        /\ UNCHANGED <<store, chain, pays>>
        BY <1>1, <1>p DEF ClaimRequest, Others, CallLock, FreePcs
  <2> QED BY <1>p, <2>1, RequestTypes, FreeStep
<1>2. CASE InProgressRequest(c)
  <2>1. /\ Others(c) /\ pc'[c] = "list" /\ lst'[c] = "idle" /\ req'[c] = ListRequest
        /\ UNCHANGED <<store, chain, pays>>
        BY <1>2, <1>p DEF InProgressRequest, Others, CallLock, FreePcs
  <2>2. ListRequest.kind = "list"
        BY DEF ListRequest
  <2> QED BY <1>p, <2>1, <2>2, FreeStep
<1>3. CASE UnlockedGet(c) \/ VerifyChain(c) \/ ListClaims(c) \/ RemoveClaimed(c) \/ RemoveDone(c) \/ BeginChain(c)
  <2>1. /\ lst' = lst /\ target' = target /\ UNCHANGED <<store, chain>> /\ pays' \subseteq pays
        BY <1>3 DEF UnlockedGet, VerifyChain, ListClaims, RemoveClaimed, RemoveDone, BeginChain, KeepLock
  <2>2. lst[c] = "idle" /\ (req[c].kind \in {"pay", "claim"} => req[c].ch \in Channels)
        BY <1>3, <1>p DEF UnlockedGet, VerifyChain, ListClaims, RemoveClaimed, RemoveDone, BeginChain,
                          CallLock, FreePcs
  <2>3. CASE EndCall(c)
        BY <2>1, <2>2, <2>3, EndCallInv
  <2>4. CASE ~EndCall(c)
    <3>1. Others(c) /\ req' = req
          BY <1>3, <2>1, <2>4 DEF UnlockedGet, VerifyChain, ListClaims, RemoveClaimed, RemoveDone, BeginChain, Others
    <3>2. CASE UnlockedGet(c) \/ BeginChain(c)
      <4>1. req[c].kind = "claim" /\ pc'[c] \in {"verifyChain", "beginChain", "begin", "dying"}
            BY <3>2, <2>4 DEF UnlockedGet, BeginChain, CallLock, ClaimPcs
      <4> QED BY <1>p, <2>1, <2>2, <3>1, <4>1, FreeStep
    <3>3. CASE VerifyChain(c) \/ ListClaims(c) \/ RemoveClaimed(c)
      <4>1. pc'[c] \in {"list", "remove"}
            BY <3>3, <2>4 DEF VerifyChain, ListClaims, RemoveClaimed
      <4> QED BY <1>p, <2>1, <2>2, <3>1, <4>1, FreeStep
    <3>4. CASE RemoveDone(c)
      <4>1. pc'[c] = "beginGet" /\ req[c].kind = "claim"
            BY <3>4, <2>4 DEF RemoveDone
      <4> QED BY <1>p, <2>1, <2>2, <3>1, <4>1, FreeStep
    <3> QED BY <1>3, <3>2, <3>3, <3>4
  <2> QED BY <2>3, <2>4
<1> QED BY <1>1, <1>2, <1>3

\* The steps of a claim under the lock keep the invariant.
LEMMA ClaimInv ==
  ASSUME EscrowInv, NEW c \in Calls, ClaimGet(c) \/ ClaimPut(c) \/ PaymentPut(c)
  PROVE  CallInv'
<1> USE DEF callVars, chainVars, EscrowInv, TypeOK, LockTypeOK
<1>f. /\ Others(c) /\ lst' = lst /\ target' = target /\ req' = req /\ UNCHANGED chain
      BY DEF ClaimGet, ClaimPut, PaymentPut, Goto, Others, KeepLock
<1>l. /\ lst[c] = "held" /\ target[c] = req[c].ch /\ req[c].kind = "claim" /\ req[c].ch \in Channels
      /\ pc'[c] \in {"unlock", "claimPut", "paymentPut"}
      BY DEF ClaimGet, ClaimPut, PaymentPut, Goto, At, CallLock, ClaimPcs, LockedPcs
<1>1. CallLock'
      BY <1>f, <1>l DEF CallLock, Others, LockedPcs, PayPcs, ClaimPcs
<1>2. CASE ClaimGet(c)
  <2>1. /\ store' = store /\ pays' = pays
        /\ \/ pc'[c] = "unlock"
           \/ pc'[c] = "claimPut" /\ snap'[c] = store[req[c].ch] /\ snap'[c] # NoData
        BY <1>2 DEF ClaimGet, Goto, Ch
  <2>2. SnapshotGood' /\ Accepted' /\ Isolation'
        BY <1>f, <2>1 DEF SnapshotGood, Accepted, Isolation, Others
  <2> QED BY <1>1, <1>f, <2>1, <2>2 DEF CallInv, ClaimsVerify, OnlyOurChannels
<1>3. CASE ClaimPut(c)
  <2>1. /\ snap' = snap /\ pays' = pays /\ pc[c] = "claimPut"
        /\ \/ pc'[c] = "unlock" /\ store' = store
           \/ /\ pc'[c] \in {"unlock", "paymentPut"}
              /\ store' = [store EXCEPT ![req[c].ch] = IncrementChannelNonce(snap[c])]
        BY <1>3 DEF ClaimPut, Goto, At, Ch, Write
  <2>2. snap[c] = store[req[c].ch] /\ snap[c] # NoData
        BY <2>1 DEF Isolation, SnapshotGood
  <2>3. \A d \in Calls \ {c} : pc[d] \in LockedPcs => store'[req[d].ch] = store[req[d].ch]
        BY <2>1, <1>l, Alone DEF LockedPcs
  <2>4. SnapshotGood' /\ Accepted'
        BY <1>f, <1>l, <2>1, <2>2 DEF SnapshotGood, Accepted, Others, ClaimsVerify
  <2>5. Isolation'
        BY <1>f, <1>l, <2>1, <2>3 DEF Isolation, Others, LockedPcs
  <2>6. LET t == IncrementChannelNonce(snap[c]) IN SignedFor(t.nonce, t.auth, t.sig)
        BY DEF IncrementChannelNonce, SignedFor
  <2>7. ClaimsVerify'
        BY <1>l, <2>1, <2>6 DEF ClaimsVerify
  <2>8. OnlyOurChannels'
        BY <1>f, <1>l, <2>1, <2>2 DEF OnlyOurChannels
  <2> QED BY <1>1, <2>4, <2>5, <2>7, <2>8 DEF CallInv
<1>4. CASE PaymentPut(c)
  <2>1. /\ snap' = snap /\ store' = store /\ pc[c] = "paymentPut" /\ pc'[c] = "unlock"
        /\ \A p \in pays' : p \in pays \/ p = PaymentOf(req[c].ch, snap[c])
        BY <1>4 DEF PaymentPut, Goto, At, Ch
  <2>2. SnapshotGood' /\ Accepted' /\ Isolation'
        BY <1>f, <2>1 DEF SnapshotGood, Accepted, Isolation, Others
  <2>3. LET p == PaymentOf(req[c].ch, snap[c]) IN SignedFor(p.nonce, p.amount, p.sig)
        BY <2>1 DEF SnapshotGood, PaymentOf
  <2>4. ClaimsVerify'
        BY <2>1, <2>3 DEF ClaimsVerify
  <2> QED BY <1>1, <1>f, <2>1, <2>2, <2>4 DEF CallInv, OnlyOurChannels
<1> QED BY <1>2, <1>3, <1>4

\* The end of a process, the operator and the contract keep the invariant.
LEMMA OtherInv ==
  ASSUME EscrowInv,
         \/ \E c \in Calls : Die(c)
         \/ \E r \in Replicas : Crash(r)
         \/ \E ch \in Channels : OperatorUnlock(ch)
         \/ ChainStep
  PROVE  CallInv'
<1> USE DEF callVars, chainVars, lockVars, daemonVars, EscrowInv, TypeOK, LockTypeOK
<1>e. ASSUME NEW r, EndCalls(r), DropCalls(r), UNCHANGED <<store, pays, chainVars, served>>
      PROVE  CallInv'
  <2>1. \A d \in Calls :
          \/ pc'[d] = "idle" /\ req'[d] = NoRequest /\ lst'[d] = "idle"
          \/ /\ pc'[d] = pc[d] /\ req'[d] = req[d] /\ snap'[d] = snap[d]
             /\ lst'[d] = lst[d] /\ target'[d] = target[d]
        BY <1>e DEF EndCalls, DropCalls
  <2>2. NoRequest.kind = "none"
        BY DEF NoRequest
  <2>3. CallLock'
        BY <2>1, <2>2 DEF CallLock, LockedPcs, PayPcs, ClaimPcs
  <2>4. SnapshotGood' /\ Accepted' /\ Isolation'
        BY <1>e, <2>1 DEF SnapshotGood, Accepted, Isolation
  <2> QED BY <1>e, <2>3, <2>4 DEF CallInv, ClaimsVerify, OnlyOurChannels
<1>1. ASSUME NEW c \in Calls, Die(c) PROVE CallInv'
      BY <1>1, <1>e DEF Die
<1>2. ASSUME NEW r \in Replicas, Crash(r) PROVE CallInv'
      BY <1>2, <1>e DEF Crash
<1>3. ASSUME NEW ch \in Channels, OperatorUnlock(ch) PROVE CallInv'
      BY <1>3 DEF OperatorUnlock, UnlockChannel, CallInv, CallLock, SnapshotGood, Accepted, Isolation,
                  ClaimsVerify, OnlyOurChannels
<1>4. CASE ChainStep
  <2>1. \A ch \in Channels : chain[ch].open => chain'[ch].open /\ chain'[ch].payee = chain[ch].payee
    <3> SUFFICES ASSUME NEW ch \in Channels, chain[ch].open
                 PROVE  chain'[ch].open /\ chain'[ch].payee = chain[ch].payee
        OBVIOUS
    <3>1. chain \in [Channels -> MpeChannel] /\ chain[ch] \in MpeChannel
          OBVIOUS
    <3>2. ASSUME NEW d \in Channels, NEW v, NEW e, NEW y, OpenChannel(d, v, e, y)
          PROVE  chain'[ch] = chain[ch]
          BY <3>1, <3>2 DEF OpenChannel
    <3>3. ASSUME NEW d \in Channels, NEW v, AddFunds(d, v)
          PROVE  chain'[ch].open /\ chain'[ch].payee = chain[ch].payee
          BY <3>1, <3>3 DEF AddFunds, MpeChannel
    <3>4. ASSUME NEW d \in Channels, NEW e, ExtendChannel(d, e)
          PROVE  chain'[ch].open /\ chain'[ch].payee = chain[ch].payee
          BY <3>1, <3>4 DEF ExtendChannel, MpeChannel
    <3>5. ASSUME NEW d \in Channels, ClaimTimeout(d)
          PROVE  chain'[ch].open /\ chain'[ch].payee = chain[ch].payee
          BY <3>1, <3>5 DEF ClaimTimeout, MpeChannel
    <3>6. ASSUME NEW p \in pays, ClaimOnChain(p)
          PROVE  chain'[ch].open /\ chain'[ch].payee = chain[ch].payee
          BY <3>1, <3>6 DEF ClaimOnChain, MpeChannel, Payments
    <3>7. ASSUME NextBlock PROVE chain'[ch] = chain[ch]
          BY <3>7 DEF NextBlock
    <3> QED BY <1>4, <3>2, <3>3, <3>4, <3>5, <3>6, <3>7 DEF ChainStep
  <2>2. UNCHANGED <<pc, req, snap, lst, target, store, pays>>
        BY <1>4 DEF ChainStep, OpenChannel, AddFunds, ExtendChannel, ClaimOnChain, ClaimTimeout, NextBlock
  <2>3. CallLock' /\ Accepted' /\ Isolation' /\ ClaimsVerify'
        BY <2>2 DEF CallLock, Accepted, Isolation, ClaimsVerify
  <2>4. SnapshotGood'
        BY <2>1, <2>2 DEF SnapshotGood, CallLock, PayPcs
  <2>5. OnlyOurChannels'
        BY <2>1, <2>2 DEF OnlyOurChannels
  <2> QED BY <2>3, <2>4, <2>5 DEF CallInv
<1> QED BY <1>1, <1>2, <1>3, <1>4

----------------------------------------------------------------------------
(* The theorems. *)

\* The invariant holds initially.
LEMMA InitInv == Init => EscrowInv
<1> SUFFICES ASSUME Init PROVE EscrowInv
    OBVIOUS
<1>1. LockInv
      BY InitIsLockInit, LockInitInv
<1>2. TypeOK
  <2>1. /\ NoRequest \in Requests /\ NoData \in ChannelData /\ NotOpened \in MpeChannel
        BY ConstantTypes, RequestTypes
  <2> QED BY <1>1, <2>1, ChainAssumption DEF Init, TypeOK, LockInv, Pcs
<1>3. CallLock
      BY DEF Init, LockInit, CallLock, LockedPcs, PayPcs, ClaimPcs, NoRequest
<1>4. SnapshotGood /\ Accepted /\ Isolation
      BY DEF Init, SnapshotGood, Accepted, Isolation
<1>5. ClaimsVerify
      BY DEF Init, ClaimsVerify, SignedFor, NoData
<1>6. OnlyOurChannels
      BY DEF Init, OnlyOurChannels
<1> QED BY <1>1, <1>2, <1>3, <1>4, <1>5, <1>6 DEF EscrowInv

\* Every step keeps the invariant.
LEMMA InvStep == EscrowInv /\ [Next]_vars => EscrowInv'
<1> SUFFICES ASSUME EscrowInv, [Next]_vars PROVE EscrowInv'
    OBVIOUS
<1>1. LockInv'
      BY NextIsLockNext, LockNextInv DEF EscrowInv
<1>2. TypeOK'
      BY TypeStep
<1>3. CallInv'
  <2>1. ASSUME NEW c \in Calls, StartCall(c) PROVE CallInv'
        BY <2>1, LockingInv, ControlInv DEF StartCall
  <2>2. ASSUME NEW c \in Calls, CallStep(c) PROVE CallInv'
        BY <2>2, LockingInv, PayInv, ControlInv, ClaimInv, OtherInv DEF CallStep
  <2>3. CASE \/ \E r \in Replicas : Crash(r)
             \/ \E ch \in Channels : OperatorUnlock(ch)
             \/ ChainStep
        BY <2>3, OtherInv
  <2>4. CASE UNCHANGED vars
        BY <2>4 DEF vars, lockVars, callVars, chainVars, EscrowInv, CallInv, CallLock, SnapshotGood,
                    Accepted, Isolation, ClaimsVerify, OnlyOurChannels
  <2> QED BY <2>1, <2>2, <2>3, <2>4 DEF Next
<1> QED BY <1>1, <1>2, <1>3 DEF EscrowInv, CallInv

\* The inductive invariant of the payment core, through every interleaving,
\* failed access, crash and operator's unlock.
THEOREM EscrowInvariant == Spec => []EscrowInv
  BY InitInv, InvStep, PTL DEF Spec

\* The state of the payment core keeps its types.
THEOREM EscrowTypes == Spec => []TypeOK
<1>1. EscrowInv => TypeOK
      BY DEF EscrowInv
<1> QED BY <1>1, EscrowInvariant, PTL

\* No two paid calls or claims work on one channel at a time.
THEOREM EscrowMutualExclusion == Spec => []MutualExclusion
<1>1. EscrowInv => MutualExclusion
      BY DEF EscrowInv, LockInv
<1> QED BY <1>1, EscrowInvariant, PTL

\* What a call read under the lock is current when Commit or StartClaim
\* writes it back: no update of the stored channel is lost.
THEOREM NoLostUpdate == Spec => []Isolation
<1>1. EscrowInv => Isolation
      BY DEF EscrowInv
<1> QED BY <1>1, EscrowInvariant, PTL

\* What the daemon stores as authorized, or as a payment to claim, always
\* carries the signature the contract checks.
THEOREM StoredClaimsVerify == Spec => []ClaimsVerify
<1>1. EscrowInv => ClaimsVerify
      BY DEF EscrowInv
<1> QED BY <1>1, EscrowInvariant, PTL

\* The storage never has a channel of another group or recipient.
THEOREM StoredChannelsAreOurs == Spec => []OnlyOurChannels
<1>1. EscrowInv => OnlyOurChannels
      BY DEF EscrowInv
<1> QED BY <1>1, EscrowInvariant, PTL

\* A step that does not write the channel storage is no way back.
LEMMA SameStoreForward ==
  ASSUME TypeOK, store' = store
  PROVE  \A ch \in Channels : Forward(store[ch], store[ch]')
  BY DEF TypeOK, ChannelData, Forward

\* Commit and StartClaim only move the stored channel forward; Commit does so
\* because nobody wrote between its read and its Put.
LEMMA ForwardStep ==
  ASSUME EscrowInv, [Next]_vars
  PROVE  \A ch \in Channels : Forward(store[ch], store[ch]')
<1> USE DEF callVars, chainVars, daemonVars
<1>t. TypeOK
      BY DEF EscrowInv
<1>1. ASSUME NEW c \in Calls, PaymentCommit(c)
      PROVE  \A ch \in Channels : Forward(store[ch], store[ch]')
  <2>1. /\ pc[c] = "commit" /\ req[c].ch \in Channels
        /\ \/ store' = store
           \/ store' = [store EXCEPT ![req[c].ch] = Committed(snap[c], req[c])]
        BY <1>1 DEF PaymentCommit, At, Ch, EscrowInv, CallLock, PayPcs
  <2>2. /\ snap[c] \in ChannelData /\ store \in [Channels -> ChannelData] /\ req[c] \in Requests
        BY <1>t DEF TypeOK
  <2>3. LET s == snap[c]  t == store[req[c].ch]
        IN  /\ s.nonce > t.nonce \/ (s.nonce = t.nonce /\ s.auth = t.auth)
            /\ req[c].amount = s.auth + Price
        BY <2>1 DEF EscrowInv, Isolation, Accepted
  <2>4. Forward(store[req[c].ch], Committed(snap[c], req[c]))
        BY <2>1, <2>2, <2>3, PriceAssumption DEF Forward, Committed, ChannelData, Requests
  <2> QED BY <1>t, <2>1, <2>2, <2>4, SameStoreForward DEF Forward, ChannelData
<1>2. ASSUME NEW c \in Calls, ClaimPut(c)
      PROVE  \A ch \in Channels : Forward(store[ch], store[ch]')
  <2>1. /\ pc[c] = "claimPut" /\ req[c].ch \in Channels
        /\ \/ store' = store
           \/ store' = [store EXCEPT ![req[c].ch] = IncrementChannelNonce(snap[c])]
        BY <1>2 DEF ClaimPut, At, Ch, EscrowInv, CallLock, ClaimPcs
  <2>2. snap[c] = store[req[c].ch] /\ store \in [Channels -> ChannelData]
        BY <1>t, <2>1 DEF EscrowInv, Isolation, TypeOK
  <2>3. Forward(store[req[c].ch], IncrementChannelNonce(snap[c]))
        BY <2>1, <2>2 DEF Forward, IncrementChannelNonce, ChannelData
  <2> QED BY <1>t, <2>1, <2>2, <2>3, SameStoreForward DEF Forward, ChannelData
<1>3. CASE store' = store
      BY <1>t, <1>3, SameStoreForward
<1>4. ASSUME NEW c \in Calls, StartCall(c) PROVE store' = store
      BY <1>4 DEF StartCall, StartPayment, ClaimRequest, InProgressRequest
<1>5. ASSUME NEW c \in Calls, CallStep(c) PROVE PaymentCommit(c) \/ ClaimPut(c) \/ store' = store
      BY <1>5 DEF CallStep, LockStep, LockDenied, UnlockStep, PaymentGet, PaymentChain,
                  PaymentValidate, ServiceDone, ServiceFailed, ServicePanics, PanicUnlock,
                  UnlockedGet, VerifyChain, ListClaims, RemoveClaimed, RemoveDone, BeginChain,
                  ClaimLock, ClaimGet, PaymentPut, Die
<1>6. ASSUME \/ \E r \in Replicas : Crash(r)
             \/ \E ch \in Channels : OperatorUnlock(ch)
             \/ ChainStep
             \/ UNCHANGED vars
      PROVE  store' = store
      BY <1>6 DEF Crash, OperatorUnlock, ChainStep, OpenChannel, AddFunds, ExtendChannel,
                  ClaimOnChain, ClaimTimeout, NextBlock, vars
<1> QED BY <1>1, <1>2, <1>3, <1>4, <1>5, <1>6 DEF Next

\* The stored nonce never goes back and the authorized amount of a nonce
\* never shrinks, whatever order the writes of the replicas come in.
THEOREM StoreForward == Spec => StoreGoesForward
<1>1. EscrowInv /\ [Next]_vars => [\A ch \in Channels : Forward(store[ch], store[ch]')]_vars
      BY ForwardStep
<1> QED BY <1>1, EscrowInvariant, PTL DEF Spec, StoreGoesForward

\* A locked key nobody holds.  As a call that has ended holds nothing, this is
\* what Stranded comes to.
Unheld(ch) == key[ch] = "locked" /\ \A c \in Calls : ~Holds(c, ch)

\* A channel is stranded by a failed access, or by a process that ends.
LEMMA StrandStep ==
  ASSUME EscrowInv, [Next]_vars, NEW ch \in Channels, ~Unheld(ch), Unheld(ch)'
  PROVE  faults' > faults \/ ProcessEnds
<1>t. /\ key \in [Channels -> KeyValues] /\ lst \in [Calls -> LockStates]
      /\ target \in [Calls -> Channels \cup {NoChannel}] /\ faults \in Nat
      /\ pc \in [Calls -> Pcs]
      BY MaxFaultsAssumption DEF EscrowInv, TypeOK, LockTypeOK
<1>f. Fault => faults' > faults
      BY <1>t DEF Fault
<1>s. ~UNCHANGED <<key, lst, target>>
      BY DEF Unheld, Holds
<1>1. ASSUME NEW c \in Calls, LockStep(c) PROVE faults' > faults \/ ProcessEnds
  <2>1. target[c] \in Channels /\ lst[c] = "swap" /\ target' = target
        BY <1>1 DEF LockStep, LockSwap, EscrowInv, LockInv, TargetIsChannel
  <2>2. CASE key' = key
        BY <1>1, <1>t, <2>1, <2>2 DEF LockStep, LockSwap, Unheld, Holds
  <2>3. CASE key' = TakenKey(target[c]) /\ lst' = [lst EXCEPT ![c] = "held"]
        BY <1>t, <2>1, <2>3 DEF TakenKey, Unheld, Holds
  <2> QED BY <1>1, <1>f, <2>2, <2>3 DEF LockStep, LockSwap
<1>2. ASSUME NEW c \in Calls, UnlockStep(c) \/ PanicUnlock(c) PROVE faults' > faults \/ ProcessEnds
  <2>1. /\ lst[c] = "held" /\ target[c] \in Channels /\ key[target[c]] = "locked"
        /\ lst' = [lst EXCEPT ![c] = "idle"] /\ target' = [target EXCEPT ![c] = NoChannel]
        BY <1>2 DEF UnlockStep, PanicUnlock, Unlock, EscrowInv, LockInv, HeldIsLocked
  <2>2. CASE key' = UnlockKey(target[c])
        BY <1>t, <2>1, <2>2, NoChannelAssumption DEF UnlockKey, Unheld, Holds
  <2> QED BY <1>2, <1>f, <2>2 DEF UnlockStep, PanicUnlock, Unlock
<1>3. ASSUME NEW c \in Calls, key' = key, lst[c] # "held",
             \E state \in LockStates : lst' = [lst EXCEPT ![c] = state],
             \E a \in Channels \cup {NoChannel} : target' = [target EXCEPT ![c] = a]
      PROVE  FALSE
      BY <1>3, <1>t DEF Unheld, Holds
<1>4. ASSUME NEW c \in Calls, LockDenied(c) PROVE FALSE
      BY <1>3, <1>4 DEF LockDenied, LockReturn, LockStates
<1>5. ASSUME NEW c \in Calls, NEW a \in Channels, LockGet(c, a) PROVE FALSE
      BY <1>3, <1>5 DEF LockGet, LockStates
<1>6. ASSUME NEW c \in Calls, StartCall(c) PROVE FALSE
  <2>1. ASSUME NEW p \in PayRequests, StartPayment(c, p) PROVE FALSE
        BY <1>5, <2>1, RequestTypes DEF StartPayment
  <2> QED BY <1>6, <1>s, <2>1 DEF StartCall, ClaimRequest, InProgressRequest, lockVars
<1>7. ASSUME NEW c \in Calls, ClaimLock(c) PROVE FALSE
  <2>1. Ch(c) \in Channels
        BY <1>7 DEF ClaimLock, At, Ch, EscrowInv, CallLock, ClaimPcs
  <2> QED BY <1>5, <1>7, <2>1 DEF ClaimLock
<1>8. ASSUME NEW c \in Calls, Die(c) PROVE ProcessEnds
      BY <1>8 DEF Die, EndCalls, ProcessEnds, At
<1>9. ASSUME NEW c \in Calls, CallStep(c) PROVE faults' > faults \/ ProcessEnds
      BY <1>9, <1>1, <1>2, <1>4, <1>7, <1>8, <1>s
      DEF CallStep, PaymentGet, PaymentChain, PaymentValidate, ServiceDone, ServiceFailed, ServicePanics,
          PaymentCommit, UnlockedGet, VerifyChain, ListClaims, RemoveClaimed, RemoveDone, BeginChain,
          ClaimGet, ClaimPut, PaymentPut, KeepLock, lockVars
<1>10. ASSUME NEW a \in Channels, OperatorUnlock(a) PROVE FALSE
      BY <1>10, <1>t DEF OperatorUnlock, UnlockChannel, DeletedKey, Unheld, Holds
<1>11. ASSUME ChainStep \/ UNCHANGED vars PROVE FALSE
      BY <1>11, <1>s DEF ChainStep, OpenChannel, AddFunds, ExtendChannel, ClaimOnChain, ClaimTimeout,
                         NextBlock, daemonVars, vars, lockVars
<1>12. ASSUME NEW r \in Replicas, Crash(r) PROVE faults' > faults
      BY <1>12, <1>f DEF Crash
<1> QED BY <1>6, <1>9, <1>10, <1>11, <1>12 DEF Next

\* Without a failed access, a kill or a panic every lock is given back.
THEOREM LocksAreGivenBack == Spec => StrandedByFailure
<1>1. EscrowInv /\ EscrowInv' /\ [Next]_vars =>
        [\A ch \in Channels : ~Stranded(ch) /\ Stranded(ch)' => faults' > faults \/ ProcessEnds]_vars
  <2> SUFFICES ASSUME EscrowInv, EscrowInv', [Next]_vars, NEW ch \in Channels,
                      ~Stranded(ch), Stranded(ch)'
               PROVE  faults' > faults \/ ProcessEnds
      OBVIOUS
  <2>1. ~Unheld(ch)
        BY DEF Stranded, Unheld
  <2>2. Unheld(ch)'
        BY DEF Stranded, Unheld, Holds, EscrowInv, CallLock, LockedPcs
  <2> QED BY <2>1, <2>2, StrandStep
<1> QED BY <1>1, EscrowInvariant, PTL DEF Spec, StrandedByFailure

\* The payment core uses the locker as LockSpec describes: paid calls, claims,
\* crashes and the operator only ever take the locker's own steps.
THEOREM EscrowUsesLocker == Spec => LockSpec
  BY InitIsLockInit, NextIsLockNext, EscrowInvariant, PTL DEF Spec, LockSpec

\* So the locks of the payment core are an abstract mutex per channel.
THEOREM EscrowImplementsMutex == Spec => ImplementsMutex
  BY EscrowUsesLocker, LockerImplementsMutex, PTL
=============================================================================

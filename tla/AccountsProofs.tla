--------------------------- MODULE AccountsProofs --------------------------
(* Proofs about EscrowAccounts and EscrowLosses: the money of a channel, for *)
(* any calls, channels, replicas, price, threshold and deposits.             *)
EXTENDS EscrowLosses, EscrowProofs, FiniteSetTheorems

----------------------------------------------------------------------------
(* Sums of amounts. *)

\* Nothing is owed for no payment.
LEMMA TotalOfNone == Total({}) = 0
<1>1. Tokens({}) = {}
      BY DEF Tokens
<1> QED BY <1>1, FS_EmptySet DEF Total

\* Some of the payments amount to no more than all of them.
LEMMA TotalOfSome ==
  ASSUME NEW S, NEW T, T \subseteq S, IsFiniteSet(Tokens(S))
  PROVE  /\ IsFiniteSet(Tokens(T))
         /\ Total(T) \in Nat /\ Total(S) \in Nat /\ Total(T) <= Total(S)
<1>1. Tokens(T) \subseteq Tokens(S)
      BY DEF Tokens
<1>2. IsFiniteSet(Tokens(T)) /\ Cardinality(Tokens(T)) <= Cardinality(Tokens(S))
      BY <1>1, FS_Subset
<1> QED BY <1>2, FS_CardinalityType DEF Total

\* One more payment adds its amount.
LEMMA TotalOfMore ==
  ASSUME NEW S, NEW p, p \notin S, p.amount \in Nat, IsFiniteSet(Tokens(S))
  PROVE  /\ IsFiniteSet(Tokens(S \cup {p}))
         /\ Total(S) \in Nat /\ Total(S \cup {p}) = Total(S) + p.amount
<1> DEFINE New == {p} \X (1 .. p.amount)
<1>1. IsFiniteSet(1 .. p.amount) /\ Cardinality(1 .. p.amount) = p.amount
      BY FS_Interval
<1>2. IsFiniteSet({p}) /\ Cardinality({p}) = 1
      BY FS_Singleton
<1>3. IsFiniteSet(New) /\ Cardinality(New) = Cardinality({p}) * Cardinality(1 .. p.amount)
      BY <1>1, <1>2, FS_Product, Zenon
<1>4. Tokens(S \cup {p}) = Tokens(S) \cup New
      BY DEF Tokens
<1>5. Tokens(S) \cap New = {}
      BY DEF Tokens
<1>6. Cardinality({}) = 0
      BY FS_EmptySet
<1>7. /\ IsFiniteSet(Tokens(S) \cup New)
      /\ Cardinality(Tokens(S) \cup New)
           = Cardinality(Tokens(S)) + Cardinality(New) - Cardinality(Tokens(S) \cap New)
      BY <1>3, FS_Union
<1>8. Cardinality(Tokens(S)) \in Nat
      BY FS_CardinalityType
<1> HIDE DEF New
<1>9. Cardinality(New) = p.amount
      BY <1>1, <1>2, <1>3
<1> QED BY <1>4, <1>5, <1>6, <1>7, <1>8, <1>9 DEF Total
----------------------------------------------------------------------------
(* Steps that leave the money of a channel alone. *)

\* What is owed depends on the pending payments alone.
LEMMA OwedSame ==
  ASSUME NEW ch, Pending(ch)' = Pending(ch)
  PROVE  Owed(ch)' = Owed(ch)
  BY DEF Owed, Total, Tokens

\* Amounts are natural numbers.
LEMMA MoneyTypes ==
  ASSUME EscrowInv, PaysInOrder, NEW ch \in Channels
  PROVE  /\ \A p \in pays : p.ch \in Channels /\ p.nonce \in Int /\ p.amount \in Nat
         /\ store[ch] \in ChannelData /\ store[ch].auth \in Nat
         /\ chain[ch] \in MpeChannel /\ block \in Nat
         /\ IsFiniteSet(Tokens(Pending(ch)))
         /\ Owed(ch) \in Nat /\ Authorized(ch) \in Nat /\ income[ch] \in Int
         /\ Revenue(ch) \in Int
         /\ served[ch] \in Nat
         /\ Price * served[ch] \in Int /\ Price * (served[ch] + 1) = Price * served[ch] + Price
<1>1. \A p \in pays : p.ch \in Channels /\ p.nonce \in Int /\ p.amount \in Nat
      BY DEF EscrowInv, TypeOK, Payments, ClaimsVerify, SignedFor
<1>2. store[ch] \in ChannelData /\ chain[ch] \in MpeChannel /\ block \in Nat
      BY ChainAssumption DEF EscrowInv, TypeOK
<1>3. store[ch].auth \in Nat
      BY <1>2 DEF EscrowInv, ClaimsVerify, SignedFor, ChannelData
<1>4. IsFiniteSet(Tokens(Pending(ch))) /\ Owed(ch) \in Nat
  <2>1. Pending(ch) \subseteq pays
        BY DEF Pending
  <2> QED BY <2>1, TotalOfSome DEF PaysInOrder, Owed
<1>5. Authorized(ch) \in Nat /\ income[ch] \in Int /\ served[ch] \in Nat
      BY <1>3 DEF Authorized, EscrowInv, TypeOK
<1>6. Price * served[ch] \in Int /\ Price * (served[ch] + 1) = Price * served[ch] + Price
      BY <1>5, PriceAssumption
<1>7. Revenue(ch) \in Int
      BY <1>4, <1>5 DEF Revenue
<1> QED BY <1>1, <1>2, <1>3, <1>4, <1>5, <1>6, <1>7

\* The places of the code where CallSound says something.
SoundPcs == ReadingPcs \cup {"paymentPut"}

\* The step leaves call d alone.
Waits(d) == pc'[d] = pc[d] /\ req'[d] = req[d] /\ snap'[d] = snap[d]

\* The step leaves the money of channel ch alone.
Untouched(ch) ==
  /\ store'[ch] = store[ch] /\ chain'[ch] = chain[ch]
  /\ income'[ch] = income[ch] /\ served'[ch] = served[ch]
  /\ Pending(ch)' = Pending(ch)
  /\ \A p \in pays' : p.ch = ch => p \in pays

\* A channel that is left alone stays sound, with the calls that wait on it.
LEMMA UntouchedSound ==
  ASSUME AccountsInv, block' = block, NEW ch \in Channels, Untouched(ch)
  PROVE  /\ ChannelSound(ch)'
         /\ \A d \in Calls : req[d].ch = ch /\ Waits(d) => CallSound(d)'
<1>1. Owed(ch)' = Owed(ch)
      BY OwedSame DEF Untouched
<1>2. Revenue(ch)' = Revenue(ch)
      BY <1>1 DEF Untouched, Revenue, Authorized
<1>3. ChannelSound(ch)'
      BY <1>1, <1>2 DEF AccountsInv, ChannelSound, Covers, Untouched
<1>4. ASSUME NEW d \in Calls, req[d].ch = ch, Waits(d) PROVE CallSound(d)'
  <2>1. CallSound(d)
        BY DEF AccountsInv
  <2>2. req'[d].ch = ch /\ pc'[d] = pc[d] /\ snap'[d] = snap[d]
        BY <1>4 DEF Waits
  <2> QED BY <1>1, <1>2, <1>4, <2>1, <2>2 DEF CallSound, Covers, Untouched
<1> QED BY <1>3, <1>4

\* A call elsewhere in the code has nothing to be sound about.
LEMMA ElsewhereSound == ASSUME NEW d \in Calls, pc'[d] \notin SoundPcs PROVE CallSound(d)'
  BY DEF CallSound, SoundPcs, ReadingPcs

\* A step that leaves the money of every channel alone keeps the invariant,
\* when the calls it moves are sound afterwards.
LEMMA QuietStep ==
  ASSUME EscrowInv, AccountsInv, UNCHANGED <<store, chain, block, income, served>>,
         pays' \subseteq pays, \A ch \in Channels : Pending(ch)' = Pending(ch),
         \A d \in Calls : Waits(d) \/ pc'[d] \notin SoundPcs \/ CallSound(d)'
  PROVE  AccountsInv'
<1>1. \A ch \in Channels : Untouched(ch)
      BY DEF Untouched
<1>2. \A ch \in Channels : ChannelSound(ch)'
      BY <1>1, UntouchedSound
<1>3. ASSUME NEW d \in Calls PROVE CallSound(d)'
  <2>1. CASE pc'[d] \notin SoundPcs
        BY <2>1, ElsewhereSound
  <2>2. CASE Waits(d) /\ pc'[d] \in SoundPcs
    <3>1. req[d].ch \in Channels
          BY <2>2, Alone DEF Waits, SoundPcs, ReadingPcs, LockedPcs
    <3> QED BY <1>1, <2>2, <3>1, UntouchedSound
  <2> QED BY <2>1, <2>2
<1>4. PaysInOrder'
  <2>1. IsFiniteSet(Tokens(pays'))
        BY TotalOfSome DEF AccountsInv, PaysInOrder
  <2> QED BY <2>1 DEF AccountsInv, PaysInOrder, Tokens
<1>5. Unopened'
      BY DEF AccountsInv, Unopened
<1> QED BY <1>2, <1>3, <1>4, <1>5 DEF AccountsInv

\* A call that moves to code which is not about money keeps the invariant.
LEMMA CallsAside ==
  ASSUME EscrowInv, AccountsInv, UNCHANGED <<store, pays, chain, block, income, served>>,
         \A d \in Calls : Waits(d) \/ pc'[d] \notin SoundPcs
  PROVE  AccountsInv'
<1>1. \A ch \in Channels : Pending(ch)' = Pending(ch)
      BY DEF Pending
<1> QED BY <1>1, QuietStep

\* Lock, Unlock, reads of the storage, and everything else that writes none of
\* the two storages and answers nobody.
LEMMA AsideSteps ==
  ASSUME EscrowInv, AccountsInv, NEW c \in Calls,
         \/ StartCall(c)
         \/ LockStep(c) \/ LockDenied(c) \/ UnlockStep(c) \/ PaymentGet(c)
         \/ ServiceFailed(c) \/ ServicePanics(c) \/ PanicUnlock(c)
         \/ UnlockedGet(c) \/ VerifyChain(c) \/ ListClaims(c) \/ RemoveDone(c) \/ BeginChain(c)
         \/ ClaimLock(c) \/ ClaimGet(c)
  PROVE  AccountsInv'
<1> USE DEF callVars, chainVars, Goto, EndCall
<1>t. /\ pc \in [Calls -> Pcs] /\ req \in [Calls -> Requests] /\ snap \in [Calls -> ChannelData]
      BY DEF EscrowInv, TypeOK
<1>1. UNCHANGED <<store, pays, chain, block, income, served>>
      BY DEF StartCall, StartPayment, ClaimRequest, InProgressRequest, LockStep, LockDenied, UnlockStep,
             PaymentGet, ServiceFailed, ServicePanics, PanicUnlock, UnlockedGet, VerifyChain, ListClaims,
             RemoveDone, BeginChain, ClaimLock, ClaimGet
<1>2. \A d \in Calls \ {c} : Waits(d)
  <2>1. CASE StartCall(c)
        BY <1>t, <2>1 DEF StartCall, StartPayment, ClaimRequest, InProgressRequest, Waits
  <2>2. CASE LockStep(c) \/ LockDenied(c) \/ UnlockStep(c) \/ PaymentGet(c)
        BY <1>t, <2>2 DEF LockStep, LockDenied, UnlockStep, PaymentGet, Waits
  <2>3. CASE ServiceFailed(c) \/ ServicePanics(c) \/ PanicUnlock(c) \/ ClaimLock(c) \/ ClaimGet(c)
        BY <1>t, <2>3 DEF ServiceFailed, ServicePanics, PanicUnlock, ClaimLock, ClaimGet, Waits
  <2>4. CASE UnlockedGet(c) \/ VerifyChain(c) \/ ListClaims(c) \/ RemoveDone(c) \/ BeginChain(c)
        BY <1>t, <2>4 DEF UnlockedGet, VerifyChain, ListClaims, RemoveDone, BeginChain, Waits
  <2> QED BY <2>1, <2>2, <2>3, <2>4
<1>3. Waits(c) \/ pc'[c] \notin SoundPcs
  <2> USE DEF SoundPcs, ReadingPcs
  <2>1. CASE StartCall(c)
        BY <1>t, <2>1 DEF StartCall, StartPayment, ClaimRequest, InProgressRequest
  <2>2. CASE LockStep(c) \/ LockDenied(c) \/ UnlockStep(c) \/ PaymentGet(c)
        BY <1>t, <2>2 DEF LockStep, LockDenied, UnlockStep, PaymentGet, Waits
  <2>3. CASE ServiceFailed(c) \/ ServicePanics(c) \/ PanicUnlock(c) \/ ClaimLock(c) \/ ClaimGet(c)
        BY <1>t, <2>3 DEF ServiceFailed, ServicePanics, PanicUnlock, ClaimLock, ClaimGet
  <2>4. CASE UnlockedGet(c) \/ VerifyChain(c) \/ ListClaims(c) \/ RemoveDone(c) \/ BeginChain(c)
        BY <1>t, <2>4 DEF UnlockedGet, VerifyChain, ListClaims, RemoveDone, BeginChain
  <2> QED BY <2>1, <2>2, <2>3, <2>4
<1> QED BY <1>1, <1>2, <1>3, CallsAside

\* A process that ends, and the operator's unlock, take no money.
LEMMA EndsAside ==
  ASSUME EscrowInv, AccountsInv,
         \/ \E c \in Calls : Die(c)
         \/ \E r \in Replicas : Crash(r)
         \/ \E ch \in Channels : OperatorUnlock(ch)
  PROVE  AccountsInv'
<1> USE DEF callVars, chainVars
<1>1. UNCHANGED <<store, pays, chain, block, income, served>>
      BY DEF Die, Crash, OperatorUnlock
<1>2. \A d \in Calls : Waits(d) \/ pc'[d] = "idle"
      BY DEF Die, Crash, OperatorUnlock, EndCalls, Waits
<1> QED BY <1>1, <1>2, CallsAside DEF SoundPcs, ReadingPcs

\* Payments that the contract has passed are not pending.
LEMMA RemovePending ==
  ASSUME EscrowInv, NEW c \in Calls, RemoveClaimed(c), NEW ch \in Channels
  PROVE  Pending(ch)' = Pending(ch)
<1>1. chain' = chain
      BY DEF RemoveClaimed, chainVars
<1>2. PICK p \in todo[c] :
        pays' = pays \/ (chain[p.ch].nonce > p.nonce /\ pays' = {q \in pays : ~SameID(p, q)})
      BY DEF RemoveClaimed
<1>3. CASE pays' = pays
      BY <1>1, <1>3 DEF Pending
<1>4. CASE chain[p.ch].nonce > p.nonce /\ pays' = {q \in pays : ~SameID(p, q)}
  <2>1. p.ch \in Channels /\ p.nonce \in Int /\ chain[p.ch].nonce \in Int
        BY DEF EscrowInv, TypeOK, Payments, MpeChannel
  <2>2. \A q \in pays : SameID(p, q) /\ q.ch = ch => ~(q.nonce >= chain[ch].nonce)
        BY <1>4, <2>1 DEF SameID
  <2> QED BY <1>1, <1>4, <2>2 DEF Pending
<1> QED BY <1>2, <1>3, <1>4

\* removeClaimedPayments takes no money.
LEMMA RemoveAside ==
  ASSUME EscrowInv, AccountsInv, NEW c \in Calls, RemoveClaimed(c)
  PROVE  AccountsInv'
<1> USE DEF callVars, chainVars, Goto, EndCall
<1>t. /\ pc \in [Calls -> Pcs] /\ req \in [Calls -> Requests] /\ snap \in [Calls -> ChannelData]
      BY DEF EscrowInv, TypeOK
<1>1. UNCHANGED <<store, chain, block, income, served>> /\ pays' \subseteq pays
      BY DEF RemoveClaimed
<1>2. \A d \in Calls : Waits(d) \/ pc'[d] \notin SoundPcs
      BY <1>t DEF RemoveClaimed, Waits, SoundPcs, ReadingPcs
<1> QED BY <1>1, <1>2, RemovePending, QuietStep

----------------------------------------------------------------------------
(* Steps of a call that is about money. *)

\* A channel that is found is the stored one, or has the funds, the expiration
\* and the nonce of the contract, which is not behind; nothing of a newer
\* nonce is authorized.
LEMMA PaymentChannelSource ==
  ASSUME NEW s \in ChannelData, NEW bc \in MpeChannel, NEW ok \in BOOLEAN,
         PaymentChannel(s, bc, ok).res = "found"
  PROVE  LET d == PaymentChannel(s, bc, ok).data IN
         \/ d = s
         \/ /\ s.nonce <= bc.nonce /\ d.nonce = bc.nonce /\ d.full = bc.value /\ d.exp = bc.exp
            /\ d.nonce > s.nonce => d.auth = 0
<1> DEFINE f == FromBlockchain(bc)
<1>1. f.nonce = bc.nonce /\ f.full = bc.value /\ f.exp = bc.exp /\ f.auth = 0 /\ bc.nonce \in Nat
      BY DEF FromBlockchain, MpeChannel
<1>2. CASE s = NoData
      BY <1>1, <1>2, ConstantTypes DEF PaymentChannel, Found, NotFound, Failed
<1>3. CASE s # NoData
      BY <1>1, <1>3 DEF PaymentChannel, Found, NotFound, Failed, Merge, ChannelData
<1> QED BY <1>2, <1>3

\* The channel read by StartPaymentTransaction is covered by the contract.
LEMMA ReadSound ==
  ASSUME EscrowInv, AccountsInv, NEW c \in Calls, PaymentChain(c) \/ PaymentValidate(c)
  PROVE  AccountsInv'
<1> USE DEF callVars, chainVars, Goto
<1>t. /\ pc \in [Calls -> Pcs] /\ req \in [Calls -> Requests] /\ snap \in [Calls -> ChannelData]
      BY DEF EscrowInv, TypeOK
<1>1. UNCHANGED <<store, pays, chain, block, income, served>> /\ req' = req
      BY DEF PaymentChain, PaymentValidate
<1>2. \A d \in Calls \ {c} : Waits(d)
      BY <1>t DEF PaymentChain, PaymentValidate, Waits
<1>3. \A ch \in Channels : Pending(ch)' = Pending(ch)
      BY <1>1 DEF Pending
<1>4. PICK ch \in Channels : req[c].ch = ch
      BY Alone DEF PaymentChain, PaymentValidate, At, LockedPcs
<1>5. Owed(ch)' = Owed(ch)
      BY <1>3, OwedSame
<1>m. /\ store[ch] \in ChannelData /\ chain[ch] \in MpeChannel
      /\ \A p \in pays : p.ch \in Channels /\ p.nonce \in Int /\ p.amount \in Nat
      BY MoneyTypes DEF AccountsInv
<1>6. CASE PaymentValidate(c)
  <2>1. snap' = snap /\ pc[c] = "validate" /\ (pc'[c] = "serve" \/ pc'[c] \notin SoundPcs)
        BY <1>6, <1>t DEF PaymentValidate, At, SoundPcs, ReadingPcs
  <2>2. CASE pc'[c] = "serve"
    <3>1. CallSound(c)
          BY DEF AccountsInv
    <3>2. CallSound(c)'
          BY <1>1, <1>4, <1>5, <2>1, <2>2, <3>1 DEF CallSound, ReadingPcs, Covers
    <3> QED BY <1>1, <1>2, <1>3, <3>2, QuietStep
  <2>3. CASE pc'[c] \notin SoundPcs
        BY <1>1, <1>2, <1>3, <2>3, QuietStep
  <2> QED BY <2>1, <2>2, <2>3
<1>7. CASE PaymentChain(c)
  <2>1. PICK ok \in BOOLEAN :
          LET r == PaymentChannel(snap[c], chain[ch], ok)
          IN pc'[c] = (IF r.res = "found" THEN "validate" ELSE "unlock") /\ snap'[c] = r.data
        BY <1>7, <1>t, <1>4 DEF PaymentChain, Ch
  <2>2. snap[c] = store[ch]
        BY <1>7, <1>4 DEF PaymentChain, At, EscrowInv, Isolation
  <2>3. CASE pc'[c] = "unlock"
        BY <1>1, <1>2, <1>3, <2>3, QuietStep DEF SoundPcs, ReadingPcs
  <2>4. CASE pc'[c] = "validate"
    <3> DEFINE d == snap'[c]
    <3>1. \/ d = store[ch]
          \/ /\ store[ch].nonce <= chain[ch].nonce /\ d.nonce = chain[ch].nonce
             /\ d.full = chain[ch].value /\ d.exp = chain[ch].exp
             /\ d.nonce > store[ch].nonce => d.auth = 0
          BY <1>m, <2>1, <2>2, <2>4, PaymentChannelSource
    <3>2. Covers(d, ch)
      <4>1. CASE d = store[ch]
            BY <4>1 DEF AccountsInv, ChannelSound
      <4>2. CASE store[ch].nonce <= chain[ch].nonce /\ d.nonce = chain[ch].nonce
                 /\ d.full = chain[ch].value /\ d.exp = chain[ch].exp
        <5>1. Pending(ch) = {}
              BY <4>2, <1>m DEF Pending, AccountsInv, PaysInOrder, ChannelData, MpeChannel
        <5>2. Owed(ch) = 0
              BY <5>1, TotalOfNone DEF Owed
        <5> QED BY <4>2, <5>2, <1>m DEF Covers, MpeChannel
      <4> QED BY <3>1, <4>1, <4>2
    <3>3. d.nonce > store[ch].nonce => d.auth = 0 /\ d.nonce <= chain[ch].nonce
          BY <3>1, <1>m DEF ChannelData, MpeChannel
    <3>4. CallSound(c)'
          BY <1>1, <1>4, <1>5, <2>4, <3>2, <3>3 DEF CallSound, ReadingPcs, Covers
    <3> QED BY <1>1, <1>2, <1>3, <3>4, QuietStep
  <2> QED BY <2>1, <2>3, <2>4
<1> QED BY <1>6, <1>7

\* A step of a call that has the lock, and touches no other channel than its
\* own, keeps the invariant if its channel and itself are sound afterwards.
LEMMA LockedStep ==
  ASSUME EscrowInv, AccountsInv, NEW c \in Calls, NEW ch \in Channels,
         pc[c] \in LockedPcs, req[c].ch = ch,
         \A d \in Calls \ {c} : Waits(d), UNCHANGED <<chain, block>>,
         \A e \in Channels \ {ch} : Untouched(e),
         ChannelSound(ch)', CallSound(c)', PaysInOrder'
  PROVE  AccountsInv'
<1>1. \A e \in Channels : ChannelSound(e)'
      BY UntouchedSound
<1>2. ASSUME NEW d \in Calls \ {c} PROVE CallSound(d)'
  <2>1. CASE pc'[d] \notin SoundPcs
        BY <2>1, ElsewhereSound
  <2>2. CASE pc'[d] \in SoundPcs
    <3>1. pc[d] \in LockedPcs
          BY <2>2 DEF Waits, SoundPcs, ReadingPcs, LockedPcs
    <3>2. req[d].ch \in Channels \ {ch}
          BY <3>1, Alone
    <3> QED BY <3>2, UntouchedSound
  <2> QED BY <2>1, <2>2
<1>3. Unopened'
      BY DEF AccountsInv, Unopened
<1> QED BY <1>1, <1>2, <1>3 DEF AccountsInv

\* An answered call may be charged for, which is left to its Commit.
LEMMA AnswerSound ==
  ASSUME EscrowInv, AccountsInv, NEW c \in Calls, ServiceDone(c)
  PROVE  AccountsInv'
<1> USE DEF callVars, chainVars, Goto
<1>t. /\ pc \in [Calls -> Pcs] /\ req \in [Calls -> Requests] /\ snap \in [Calls -> ChannelData]
      /\ served \in [Channels -> Nat]
      BY DEF EscrowInv, TypeOK
<1>0. PICK ch \in Channels : req[c].ch = ch
      BY Alone DEF ServiceDone, At, LockedPcs
<1>1. /\ UNCHANGED <<store, pays, chain, block, income>> /\ req' = req /\ snap' = snap
      /\ pc[c] = "serve" /\ pc'[c] = "commit" /\ served' = [served EXCEPT ![ch] = @ + 1]
      /\ \A d \in Calls \ {c} : Waits(d)
      BY <1>t, <1>0 DEF ServiceDone, Waits, At, Ch
<1>2. \A e \in Channels : Pending(e)' = Pending(e) /\ Owed(e)' = Owed(e)
      BY <1>1, OwedSame DEF Pending
<1>3. Revenue(ch)' = Revenue(ch) /\ served'[ch] = served[ch] + 1
      BY <1>1, <1>2, <1>t DEF Revenue, Authorized
<1>4. \A e \in Channels \ {ch} : Untouched(e)
      BY <1>1, <1>2, <1>t DEF Untouched
<1>m. /\ Revenue(ch) \in Int /\ Price * served[ch] \in Int
      /\ Price * (served[ch] + 1) = Price * served[ch] + Price /\ Price \in Nat
      BY MoneyTypes, PriceAssumption DEF AccountsInv
<1>5. Revenue(ch) <= Price * served[ch] /\ CallSound(c)
      BY DEF AccountsInv, ChannelSound
<1>6. Revenue(ch)' <= (Price * served[ch])' /\ Revenue(ch)' + Price <= (Price * served[ch])'
      BY <1>3, <1>m, <1>5
<1>7. ChannelSound(ch)'
      BY <1>1, <1>2, <1>6 DEF AccountsInv, ChannelSound, Covers
<1>8. CallSound(c)'
      BY <1>0, <1>1, <1>2, <1>5, <1>6 DEF CallSound, ReadingPcs, Covers
<1>9. PaysInOrder'
      BY <1>1 DEF AccountsInv, PaysInOrder, Tokens
<1> QED BY <1>0, <1>1, <1>4, <1>7, <1>8, <1>9, LockedStep DEF LockedPcs

\* Commit authorizes the price of the answered call, and no more than the
\* contract has.
LEMMA CommitSound ==
  ASSUME EscrowInv, AccountsInv, NEW c \in Calls, PaymentCommit(c)
  PROVE  AccountsInv'
<1> USE DEF callVars, chainVars, Goto
<1>t. /\ pc \in [Calls -> Pcs] /\ req \in [Calls -> Requests] /\ snap \in [Calls -> ChannelData]
      /\ store \in [Channels -> ChannelData]
      BY DEF EscrowInv, TypeOK
<1>0. PICK ch \in Channels : req[c].ch = ch
      BY Alone DEF PaymentCommit, At, LockedPcs
<1>1. /\ UNCHANGED <<pays, chain, block, income, served>> /\ pc[c] = "commit" /\ pc'[c] = "unlock"
      /\ store' = store \/ store' = [store EXCEPT ![ch] = Committed(snap[c], req[c])]
      /\ \A d \in Calls \ {c} : Waits(d)
      BY <1>t, <1>0 DEF PaymentCommit, Waits, At, Ch
<1>2. CASE store' = store
      BY <1>1, <1>2, CallsAside DEF SoundPcs, ReadingPcs
<1>3. CASE store' = [store EXCEPT ![ch] = Committed(snap[c], req[c])]
  <2>m. /\ Owed(ch) \in Nat /\ Authorized(ch) \in Nat /\ income[ch] \in Int /\ Revenue(ch) \in Int
        /\ Price * served[ch] \in Int /\ Price \in Nat /\ store[ch] \in ChannelData
        /\ chain[ch] \in MpeChannel /\ snap[c] \in ChannelData /\ req[c] \in Requests
        /\ \A p \in pays : p.nonce \in Int
        BY <1>t, MoneyTypes, PriceAssumption DEF AccountsInv
  <2>1. /\ store'[ch].nonce = snap[c].nonce /\ store'[ch].auth = snap[c].auth + Price
        /\ store'[ch].full = snap[c].full /\ store'[ch].exp = snap[c].exp
        /\ store'[ch].auth <= store'[ch].full
        BY <1>1, <1>3, <1>t DEF Committed, ChannelData, EscrowInv, Accepted
  <2>2. \A e \in Channels : Pending(e)' = Pending(e) /\ Owed(e)' = Owed(e)
        BY <1>1, OwedSame DEF Pending
  <2>3. /\ Covers(snap[c], ch) /\ Revenue(ch) + Price <= Price * served[ch]
        /\ snap[c].nonce > store[ch].nonce => snap[c].auth = 0 /\ snap[c].nonce <= chain[ch].nonce
        BY <1>0, <1>1 DEF AccountsInv, CallSound, ReadingPcs
  <2>4. \/ snap[c].nonce > store[ch].nonce
        \/ snap[c].nonce = store[ch].nonce /\ snap[c].auth = store[ch].auth
        BY <1>0, <1>1 DEF EscrowInv, Isolation
  <2>5. Authorized(ch)' <= Authorized(ch) + Price /\ Authorized(ch)' \in Int
        BY <1>1, <2>m, <2>1, <2>3, <2>4 DEF Authorized, ChannelData, MpeChannel
  <2>6. Revenue(ch)' <= (Price * served[ch])'
    <3>1. /\ Revenue(ch) = income[ch] + Owed(ch) + Authorized(ch)
          /\ Revenue(ch)' = income[ch] + Owed(ch) + Authorized(ch)'
          BY <1>1, <2>2 DEF Revenue
    <3>2. Revenue(ch)' <= Price * served[ch]
          BY <3>1, <2>3, <2>5, <2>m
    <3> QED BY <1>1, <3>2
  <2>7. ChannelSound(ch)'
        BY <1>1, <2>1, <2>2, <2>3, <2>6 DEF ChannelSound, Covers
  <2>8. PaysInOrder'
    <3>1. \A p \in pays : p.nonce < store'[p.ch].nonce
          BY <1>3, <1>t, <2>m, <2>1, <2>4 DEF AccountsInv, PaysInOrder, ChannelData
    <3> QED BY <1>1, <3>1 DEF AccountsInv, PaysInOrder, Tokens
  <2>9. \A e \in Channels \ {ch} : Untouched(e)
        BY <1>1, <1>3, <1>t, <2>2 DEF Untouched
  <2>10. CallSound(c)'
        BY <1>1, ElsewhereSound DEF SoundPcs, ReadingPcs
  <2> QED BY <1>0, <1>1, <2>7, <2>8, <2>9, <2>10, LockedStep DEF LockedPcs
<1> QED BY <1>1, <1>2, <1>3

\* The first write of a claim takes the authorized amount off the channel.
LEMMA ClaimPutSound ==
  ASSUME EscrowInv, AccountsInv, NEW c \in Calls, ClaimPut(c)
  PROVE  AccountsInv'
<1> USE DEF callVars, chainVars, Goto
<1>t. /\ pc \in [Calls -> Pcs] /\ req \in [Calls -> Requests] /\ snap \in [Calls -> ChannelData]
      /\ store \in [Channels -> ChannelData]
      BY DEF EscrowInv, TypeOK
<1>0. PICK ch \in Channels : req[c].ch = ch
      BY Alone DEF ClaimPut, At, LockedPcs
<1>1. /\ UNCHANGED <<pays, chain, block, income, served>> /\ req' = req /\ snap' = snap
      /\ pc[c] = "claimPut"
      /\ \/ pc'[c] = "unlock" /\ store' = store
         \/ /\ pc'[c] \in {"unlock", "paymentPut"}
            /\ store' = [store EXCEPT ![ch] = IncrementChannelNonce(snap[c])]
      /\ \A d \in Calls \ {c} : Waits(d)
      BY <1>t, <1>0 DEF ClaimPut, Waits, At, Ch, Write
<1>2. CASE pc'[c] = "unlock" /\ store' = store
      BY <1>1, <1>2, CallsAside DEF SoundPcs, ReadingPcs
<1>3. CASE /\ pc'[c] \in {"unlock", "paymentPut"}
           /\ store' = [store EXCEPT ![ch] = IncrementChannelNonce(snap[c])]
  <2>m. /\ Owed(ch) \in Nat /\ Authorized(ch) \in Nat /\ income[ch] \in Int /\ Revenue(ch) \in Int
        /\ Price * served[ch] \in Int /\ store[ch] \in ChannelData /\ store[ch].auth \in Nat
        /\ chain[ch] \in MpeChannel /\ \A p \in pays : p.nonce \in Int
        BY <1>t, MoneyTypes DEF AccountsInv
  <2>0. snap[c] = store[ch] /\ chain[ch].open
        BY <1>0, <1>1 DEF EscrowInv, Isolation, SnapshotGood, OnlyOurChannels
  <2>1. /\ store'[ch].nonce = store[ch].nonce + 1 /\ store'[ch].auth = 0
        /\ store'[ch].full = store[ch].full - store[ch].auth /\ store'[ch].exp = store[ch].exp
        BY <1>3, <1>t, <2>0 DEF IncrementChannelNonce
  <2>2. \A e \in Channels : Pending(e)' = Pending(e) /\ Owed(e)' = Owed(e)
        BY <1>1, OwedSame DEF Pending
  <2>3. ChannelSound(ch)
        BY DEF AccountsInv
  <2>4. Authorized(ch)' = 0
        BY <2>1 DEF Authorized
  <2>5. /\ Revenue(ch) = income[ch] + Owed(ch) + Authorized(ch)
        /\ Revenue(ch)' = income[ch] + Owed(ch)
        BY <1>1, <2>2, <2>4, <2>m DEF Revenue
  <2>6. /\ Revenue(ch)' <= Price * served[ch]
        /\ store[ch].nonce >= chain[ch].nonce => Revenue(ch)' + store[ch].auth <= Price * served[ch]
        BY <2>3, <2>5, <2>m DEF ChannelSound, Authorized
  <2>7. ChannelSound(ch)'
        BY <1>1, <2>m, <2>1, <2>2, <2>3, <2>6 DEF ChannelSound, Covers, ChannelData, MpeChannel
  <2>8. PaysInOrder'
    <3>1. \A p \in pays : p.nonce < store'[p.ch].nonce
          BY <1>3, <1>t, <2>m, <2>1 DEF AccountsInv, PaysInOrder, ChannelData
    <3> QED BY <1>1, <3>1 DEF AccountsInv, PaysInOrder, Tokens
  <2>9. \A e \in Channels \ {ch} : Untouched(e)
        BY <1>1, <1>3, <1>t, <2>2 DEF Untouched
  <2>10. CallSound(c)'
    <3>1. CASE pc'[c] = "unlock"
          BY <3>1, ElsewhereSound DEF SoundPcs, ReadingPcs
    <3>2. CASE pc'[c] = "paymentPut"
      <4>1. \A p \in pays : p.ch = ch => p.nonce < store[ch].nonce
            BY DEF AccountsInv, PaysInOrder
      <4> QED BY <1>0, <1>1, <2>0, <2>2, <2>3, <2>6, <3>2, <4>1
              DEF CallSound, ChannelSound, Covers, ReadingPcs
    <3> QED BY <1>3, <3>1, <3>2
  <2> QED BY <1>0, <1>1, <2>7, <2>8, <2>9, <2>10, LockedStep DEF LockedPcs
<1> QED BY <1>1, <1>2, <1>3

\* The payment of a claim is the first one for its nonce.
LEMMA NewPayment ==
  ASSUME EscrowInv, AccountsInv, NEW c \in Calls, pc[c] = "paymentPut",
         NEW ch \in Channels, req[c].ch = ch,
         NEW p, p = PaymentOf(ch, snap[c])
  PROVE  /\ p.ch = ch /\ p.nonce = snap[c].nonce /\ p.amount = snap[c].auth /\ p.amount \in Nat
         /\ p \notin pays /\ \A q \in pays : ~SameID(p, q)
<1>1. p.ch = ch /\ p.nonce = snap[c].nonce /\ p.amount = snap[c].auth /\ p.amount \in Nat
      BY DEF PaymentOf, EscrowInv, SnapshotGood, SignedFor, TypeOK, ChannelData
<1>2. \A q \in pays : q.ch = ch => q.nonce < snap[c].nonce
      BY DEF AccountsInv, CallSound
<1>3. snap[c].nonce \in Int /\ \A q \in pays : q.nonce \in Int
      BY DEF EscrowInv, TypeOK, ChannelData, Payments
<1> QED BY <1>1, <1>2, <1>3 DEF SameID

\* A new payment that the contract has not passed is owed.
LEMMA PaymentIsOwed ==
  ASSUME EscrowInv, AccountsInv, NEW ch \in Channels,
         NEW p, p.ch = ch, p.amount \in Nat, p \notin pays, p.nonce >= chain[ch].nonce,
         pays' = pays \cup {p}, chain'[ch] = chain[ch]
  PROVE  Owed(ch)' = Owed(ch) + p.amount
<1>1. Pending(ch)' = Pending(ch) \cup {p} /\ p \notin Pending(ch)
      BY DEF Pending
<1>2. IsFiniteSet(Tokens(Pending(ch)))
      BY MoneyTypes DEF AccountsInv
<1>3. Total(Pending(ch) \cup {p}) = Total(Pending(ch)) + p.amount
      BY <1>1, <1>2, TotalOfMore
<1> QED BY <1>1, <1>3 DEF Owed, Total, Tokens

\* The second write of a claim turns the amount into a pending payment.
LEMMA PaymentPutSound ==
  ASSUME EscrowInv, AccountsInv, NEW c \in Calls, PaymentPut(c)
  PROVE  AccountsInv'
<1> USE DEF callVars, chainVars, Goto
<1>t. /\ pc \in [Calls -> Pcs] /\ req \in [Calls -> Requests] /\ snap \in [Calls -> ChannelData]
      BY DEF EscrowInv, TypeOK
<1>0. PICK ch \in Channels : req[c].ch = ch
      BY Alone DEF PaymentPut, At, LockedPcs
<1> DEFINE p == PaymentOf(ch, snap[c])
<1>1. /\ UNCHANGED <<store, chain, block, income, served>>
      /\ pc[c] = "paymentPut" /\ pc'[c] = "unlock"
      /\ pays' = pays \/ pays' = {q \in pays : ~SameID(p, q)} \cup {p}
      /\ \A d \in Calls \ {c} : Waits(d)
      BY <1>t, <1>0 DEF PaymentPut, Waits, At, Ch
<1>2. CASE pays' = pays
      BY <1>1, <1>2, CallsAside DEF SoundPcs, ReadingPcs
<1>3. CASE pays' = {q \in pays : ~SameID(p, q)} \cup {p}
  <2>m. /\ Owed(ch) \in Nat /\ Authorized(ch) \in Nat /\ income[ch] \in Int /\ Revenue(ch) \in Int
        /\ Price * served[ch] \in Int /\ store[ch] \in ChannelData
        /\ chain[ch] \in MpeChannel /\ snap[c] \in ChannelData
        /\ \A q \in pays : q.ch \in Channels /\ q.nonce \in Int /\ q.amount \in Nat
        /\ IsFiniteSet(Tokens(Pending(ch)))
        BY <1>t, MoneyTypes DEF AccountsInv
  <2>0. p.ch = ch /\ p.nonce = snap[c].nonce /\ p.amount = snap[c].auth /\ p.amount \in Nat
        BY <1>0, <1>1, NewPayment
  <2>1. /\ Covers(snap[c], ch)
        /\ snap[c].nonce >= chain[ch].nonce => Revenue(ch) + snap[c].auth <= Price * served[ch]
        BY <1>0, <1>1 DEF AccountsInv, CallSound
  <2>2. p \notin pays /\ \A q \in pays : ~SameID(p, q)
        BY <1>0, <1>1, NewPayment
  <2> HIDE DEF p
  <2>3. pays' = pays \cup {p}
        BY <1>3, <2>2
  <2>4. /\ store[ch].nonce = snap[c].nonce + 1 /\ store[ch].exp = snap[c].exp
        /\ store[ch].full = snap[c].full - snap[c].auth
    <3>1. store[ch] = IncrementChannelNonce(snap[c])
          BY <1>0, <1>1 DEF EscrowInv, Isolation
    <3> QED BY <3>1 DEF IncrementChannelNonce
  <2>5. ChannelSound(ch)
        BY DEF AccountsInv
  <2>6. ChannelSound(ch)'
    <3>1. CASE p.nonce >= chain[ch].nonce
      <4>3. Owed(ch)' = Owed(ch) + snap[c].auth
            BY <1>1, <2>0, <2>2, <2>3, <3>1, PaymentIsOwed
      <4>4. Authorized(ch)' = Authorized(ch)
            BY <1>1 DEF Authorized
      <4>5. Revenue(ch)' <= Price * served[ch]
        <5>1. /\ Revenue(ch) = income[ch] + Owed(ch) + Authorized(ch)
              /\ Revenue(ch)' = income[ch] + (Owed(ch) + snap[c].auth) + Authorized(ch)
              BY <1>1, <4>3, <4>4 DEF Revenue
        <5>2. Revenue(ch) + snap[c].auth <= Price * served[ch] /\ snap[c].auth \in Nat
              BY <2>0, <2>1, <3>1
        <5> QED BY <5>1, <5>2, <2>m
      <4>6. Covers(store[ch], ch)'
            BY <1>1, <2>0, <2>m, <2>1, <2>4, <4>3 DEF Covers, ChannelData, MpeChannel
      <4> QED BY <1>1, <2>5, <4>5, <4>6 DEF ChannelSound
    <3>2. CASE ~(p.nonce >= chain[ch].nonce)
      <4>1. Pending(ch)' = Pending(ch)
            BY <1>1, <2>0, <2>3, <3>2 DEF Pending
      <4>2. Owed(ch)' = Owed(ch)
            BY <4>1, OwedSame
      <4> QED BY <1>1, <2>5, <4>2 DEF ChannelSound, Covers, Revenue, Authorized
    <3> QED BY <3>1, <3>2
  <2>7. PaysInOrder'
    <3>1. IsFiniteSet(Tokens(pays \cup {p}))
          BY <2>0, <2>2, TotalOfMore DEF AccountsInv, PaysInOrder
    <3>2. IsFiniteSet(Tokens(pays))'
          BY <2>3, <3>1 DEF Tokens
    <3>3. \A q, r \in pays' : SameID(q, r) => q = r
          BY <2>2, <2>3 DEF AccountsInv, PaysInOrder, SameID
    <3>4. \A q \in pays' : q.nonce < store'[q.ch].nonce
          BY <1>1, <2>m, <2>0, <2>3, <2>4 DEF AccountsInv, PaysInOrder, ChannelData
    <3> QED BY <3>2, <3>3, <3>4 DEF PaysInOrder
  <2>8. ASSUME NEW e \in Channels \ {ch} PROVE Untouched(e)
    <3>1. Pending(e)' = Pending(e)
          BY <1>1, <2>0, <2>3 DEF Pending
    <3> QED BY <1>1, <2>0, <2>3, <3>1 DEF Untouched
  <2>9. CallSound(c)'
        BY <1>1, ElsewhereSound DEF SoundPcs, ReadingPcs
  <2> QED BY <1>0, <1>1, <2>6, <2>7, <2>8, <2>9, LockedStep DEF LockedPcs
<1> QED BY <1>1, <1>2, <1>3

----------------------------------------------------------------------------
(* Steps of the contract. *)

\* A step of the contract keeps a channel and its calls sound when it charges
\* nobody more, does not go back to an earlier nonce, and leaves channel data
\* that is ahead of all payments covered.
LEMMA ContractStep ==
  ASSUME EscrowInv, AccountsInv, NEW ch \in Channels,
         UNCHANGED <<pc, req, snap, store, pays, served>>,
         chain'[ch] \in MpeChannel, chain'[ch].nonce >= chain[ch].nonce,
         chain[ch].open => chain'[ch].open,
         Revenue(ch)' \in Int, Revenue(ch)' <= Revenue(ch),
         \A v \in ChannelData :
           (\A q \in pays : q.ch = ch => q.nonce < v.nonce) /\ Covers(v, ch) => Covers(v, ch)'
  PROVE  /\ ChannelSound(ch)'
         /\ \A d \in Calls : req[d].ch = ch => CallSound(d)'
<1>m. /\ Revenue(ch) \in Int /\ Price * served[ch] \in Int /\ Price \in Nat
      /\ store[ch] \in ChannelData /\ chain[ch] \in MpeChannel
      /\ \A p \in pays : p.ch \in Channels /\ p.nonce \in Int /\ p.amount \in Nat
      BY MoneyTypes, PriceAssumption DEF AccountsInv
<1>1. Covers(store[ch], ch)'
  <2>1. \A q \in pays : q.ch = ch => q.nonce < store[ch].nonce
        BY DEF AccountsInv, PaysInOrder
  <2>2. Covers(store[ch], ch)
        BY DEF AccountsInv, ChannelSound
  <2> QED BY <1>m, <2>1, <2>2 DEF Covers
<1>2. ChannelSound(ch)'
      BY <1>m, <1>1 DEF AccountsInv, ChannelSound
<1>3. ASSUME NEW d \in Calls, req[d].ch = ch PROVE CallSound(d)'
  <2>0. snap[d] \in ChannelData /\ snap[d].auth \in Int /\ CallSound(d)
        BY DEF EscrowInv, TypeOK, AccountsInv, ChannelData
  <2>1. CASE pc[d] \notin SoundPcs
        BY <2>1, ElsewhereSound
  <2>2. CASE pc[d] \in ReadingPcs
    <3>1. snap[d].nonce >= store[ch].nonce
          BY <1>3, <1>m, <2>0, <2>2 DEF EscrowInv, Isolation, ReadingPcs, ChannelData
    <3>2. \A q \in pays : q.ch = ch => q.nonce < snap[d].nonce
          BY <1>m, <2>0, <3>1 DEF AccountsInv, PaysInOrder, ChannelData
    <3>3. Covers(snap[d], ch)
          BY <1>3, <2>0, <2>2 DEF CallSound
    <3>4. \A v \in ChannelData : v = snap[d] => Covers(v, ch)'
          BY <2>0, <3>2, <3>3
    <3>5. Covers(snap[d], ch)'
          BY <2>0, <3>4 DEF Covers
    <3>6. snap[d].nonce > store[ch].nonce => snap[d].auth = 0 /\ snap[d].nonce <= chain'[ch].nonce
          BY <1>3, <1>m, <2>0, <2>2 DEF CallSound, ChannelData, MpeChannel
    <3>7. pc[d] = "commit" => Revenue(ch)' + Price <= Price * served[ch]
          BY <1>3, <1>m, <2>0 DEF CallSound
    <3>8. pc[d] # "paymentPut"
          BY <2>2 DEF ReadingPcs
    <3> QED BY <1>3, <3>5, <3>6, <3>7, <3>8 DEF CallSound
  <2>3. CASE pc[d] = "paymentPut"
    <3>1. /\ chain[ch].open /\ Covers(snap[d], ch)
          /\ \A p \in pays : p.ch = ch => p.nonce < snap[d].nonce
          /\ snap[d].nonce >= chain[ch].nonce => Revenue(ch) + snap[d].auth <= Price * served[ch]
          BY <1>3, <2>0, <2>3 DEF CallSound
    <3>2. \A v \in ChannelData : v = snap[d] => Covers(v, ch)'
          BY <2>0, <3>1
    <3>3. Covers(snap[d], ch)'
          BY <2>0, <3>2 DEF Covers
    <3>4. snap[d].nonce >= chain'[ch].nonce => Revenue(ch)' + snap[d].auth <= Price * served[ch]
          BY <1>m, <2>0, <3>1 DEF ChannelData, MpeChannel
    <3> QED BY <1>3, <2>3, <3>1, <3>3, <3>4 DEF CallSound, ReadingPcs
  <2> QED BY <2>1, <2>2, <2>3 DEF SoundPcs
<1> QED BY <1>2, <1>3

\* The contract's step concerns channel ch, or none when only time passes.
LEMMA ContractInv ==
  ASSUME EscrowInv, AccountsInv, UNCHANGED <<pc, req, snap, store, pays, served>>,
         Unopened',
         \A ch \in Channels : ChannelSound(ch)' /\ \A d \in Calls : req[d].ch = ch => CallSound(d)'
  PROVE  AccountsInv'
<1>1. ASSUME NEW d \in Calls PROVE CallSound(d)'
  <2>1. CASE pc[d] \notin SoundPcs
        BY <2>1, ElsewhereSound
  <2>2. CASE pc[d] \in SoundPcs
    <3>1. req[d].ch \in Channels
          BY <2>2, Alone DEF SoundPcs, ReadingPcs, LockedPcs
    <3> QED BY <3>1
  <2> QED BY <2>1, <2>2
<1>2. PaysInOrder'
      BY DEF AccountsInv, PaysInOrder, Tokens
<1> QED BY <1>1, <1>2 DEF AccountsInv

\* Channels other than the one the contract changes are left alone.
LEMMA OtherChannelsSound ==
  ASSUME EscrowInv, AccountsInv, UNCHANGED <<pc, req, snap, store, pays, served, block>>,
         NEW ch \in Channels, chain'[ch] = chain[ch], income'[ch] = income[ch]
  PROVE  ChannelSound(ch)' /\ \A d \in Calls : req[d].ch = ch => CallSound(d)'
<1>1. Untouched(ch)
      BY DEF Untouched, Pending
<1>2. \A d \in Calls : Waits(d)
      BY DEF Waits
<1> QED BY <1>1, <1>2, UntouchedSound

\* Time, deposits and extensions keep the invariant: nothing is spent.
LEMMA DepositSound ==
  ASSUME EscrowInv, AccountsInv, DataTypeOK',
         \/ NextBlock
         \/ \E ch \in Channels :
              \/ \E v \in Deposits, e \in Expirations, y \in OpenPayees : OpenChannel(ch, v, e, y)
              \/ \E v \in Deposits : AddFunds(ch, v)
              \/ \E e \in Expirations : ExtendChannel(ch, e)
  PROVE  AccountsInv'
<1> USE DEF callVars, chainVars, daemonVars
<1>t. chain \in [Channels -> MpeChannel] /\ block \in Nat /\ chain' \in [Channels -> MpeChannel]
      BY ChainAssumption DEF EscrowInv, TypeOK, DataTypeOK
<1>1. UNCHANGED <<pc, req, snap, store, pays, served, income>>
      BY DEF NextBlock, OpenChannel, AddFunds, ExtendChannel
<1>2. ASSUME NEW ch \in Channels,
             chain'[ch].nonce = chain[ch].nonce, chain[ch].open => chain'[ch].open,
             \A v \in ChannelData : Covers(v, ch) /\ Owed(ch)' = Owed(ch) => Covers(v, ch)'
      PROVE  ChannelSound(ch)' /\ \A d \in Calls : req[d].ch = ch => CallSound(d)'
  <2>1. Owed(ch)' = Owed(ch)
    <3>1. Pending(ch)' = Pending(ch)
          BY <1>1, <1>2 DEF Pending
    <3> QED BY <3>1, OwedSame
  <2>2. Revenue(ch)' = Revenue(ch) /\ Revenue(ch) \in Int
        BY <1>1, <1>2, <2>1, MoneyTypes DEF Revenue, Authorized, AccountsInv
  <2>3. chain'[ch] \in MpeChannel /\ chain'[ch].nonce >= chain[ch].nonce
        BY <1>t, <1>2 DEF MpeChannel
  <2>4. Revenue(ch)' <= Revenue(ch)
        BY <2>2
  <2> QED BY <1>1, <1>2, <2>1, <2>2, <2>3, <2>4, ContractStep
<1>3. CASE NextBlock
  <2>1. chain' = chain /\ block' = block + 1
        BY <1>3 DEF NextBlock
  <2>2. ASSUME NEW ch \in Channels, NEW v \in ChannelData, Covers(v, ch), Owed(ch)' = Owed(ch)
        PROVE  Covers(v, ch)'
        BY <1>t, <2>1, <2>2 DEF Covers, ChannelData
  <2>3. Unopened'
        BY <2>1 DEF AccountsInv, Unopened
  <2> QED BY <1>1, <1>2, <2>1, <2>2, <2>3, ContractInv
<1>4. ASSUME NEW a \in Channels, block' = block,
             NEW f, f \in MpeChannel, chain' = [chain EXCEPT ![a] = f], f.open,
             f.nonce = chain[a].nonce,
             \/ chain[a].open /\ chain[a].value <= f.value /\ chain[a].exp <= f.exp
             \/ ~chain[a].open
      PROVE  AccountsInv'
  <2>1. ASSUME NEW ch \in Channels PROVE ChannelSound(ch)' /\ \A d \in Calls : req[d].ch = ch => CallSound(d)'
    <3>1. CASE ch # a
          BY <1>t, <1>1, <1>4, <2>1, <3>1, OtherChannelsSound
    <3>2. CASE ch = a
      <4>0. chain'[a] = f
            BY <1>t, <1>4
      <4>1. ASSUME NEW v \in ChannelData, Covers(v, a), Owed(a)' = Owed(a) PROVE Covers(v, a)'
        <5>1. CASE chain[a].open
          <6>1. Owed(a) \in Nat /\ v.exp \in Int /\ v.full \in Int /\ chain[a] \in MpeChannel
                BY <1>t, MoneyTypes DEF AccountsInv, ChannelData
          <6> QED BY <1>4, <4>0, <4>1, <5>1, <6>1 DEF Covers, MpeChannel
        <5>2. CASE ~chain[a].open
          <6>1. chain[a].exp = 0
                BY <5>2 DEF AccountsInv, Unopened, NotOpened
          <6>2. ~(block < v.exp)
                BY <1>t, <4>1, <6>1 DEF Covers, ChannelData
          <6> QED BY <1>4, <6>2 DEF Covers
        <5> QED BY <5>1, <5>2
      <4> QED BY <1>2, <1>4, <3>2, <4>0, <4>1
    <3> QED BY <3>1, <3>2
  <2>2. Unopened'
        BY <1>t, <1>4 DEF AccountsInv, Unopened
  <2> QED BY <1>1, <2>1, <2>2, ContractInv
<1>5. ASSUME NEW a \in Channels, NEW v \in Deposits, NEW e \in Expirations, NEW y \in OpenPayees,
             OpenChannel(a, v, e, y)
      PROVE  AccountsInv'
  <2> DEFINE f == [open |-> TRUE, payee |-> y, nonce |-> 0, value |-> v, exp |-> e]
  <2>1. /\ chain' = [chain EXCEPT ![a] = f] /\ block' = block /\ ~chain[a].open
        BY <1>5 DEF OpenChannel
  <2>2. f \in MpeChannel
        BY <1>t, <2>1
  <2>3. f.open /\ f.nonce = chain[a].nonce
        BY <2>1 DEF AccountsInv, Unopened, NotOpened
  <2> HIDE DEF f
  <2> QED BY <1>4, <2>1, <2>2, <2>3
<1>6. ASSUME NEW a \in Channels, NEW v \in Deposits, AddFunds(a, v) PROVE AccountsInv'
  <2> DEFINE f == [chain[a] EXCEPT !.value = @ + v]
  <2>1. /\ chain' = [chain EXCEPT ![a] = f] /\ block' = block /\ chain[a].open
        BY <1>6 DEF AddFunds
  <2>2. f \in MpeChannel
        BY <1>t, <2>1
  <2>3. f.open /\ f.nonce = chain[a].nonce /\ chain[a].value <= f.value /\ chain[a].exp <= f.exp
    <3>1. chain[a] \in MpeChannel /\ v \in Nat
          BY <1>t, ChainAssumption
    <3> QED BY <2>1, <3>1 DEF MpeChannel
  <2> HIDE DEF f
  <2> QED BY <1>4, <2>1, <2>2, <2>3
<1>7. ASSUME NEW a \in Channels, NEW e \in Expirations, ExtendChannel(a, e) PROVE AccountsInv'
  <2> DEFINE f == [chain[a] EXCEPT !.exp = e]
  <2>1. /\ chain' = [chain EXCEPT ![a] = f] /\ block' = block /\ chain[a].open /\ e > chain[a].exp
        BY <1>7 DEF ExtendChannel
  <2>2. f \in MpeChannel
        BY <1>t, <2>1
  <2>3. f.open /\ f.nonce = chain[a].nonce /\ chain[a].value <= f.value /\ chain[a].exp <= f.exp
    <3>1. chain[a] \in MpeChannel /\ e \in Nat
          BY <1>t, ChainAssumption
    <3> QED BY <2>1, <3>1 DEF MpeChannel
  <2> HIDE DEF f
  <2> QED BY <1>4, <2>1, <2>2, <2>3
<1> QED BY <1>3, <1>5, <1>6, <1>7

\* The sender empties only channels that no valid channel data relies on.
LEMMA TimeoutSound ==
  ASSUME EscrowInv, AccountsInv, DataTypeOK', NEW a \in Channels, ClaimTimeout(a)
  PROVE  AccountsInv'
<1> USE DEF callVars, chainVars, daemonVars
<1>t. chain \in [Channels -> MpeChannel] /\ block \in Nat /\ chain' \in [Channels -> MpeChannel]
      BY ChainAssumption DEF EscrowInv, TypeOK, DataTypeOK
<1>1. /\ UNCHANGED <<pc, req, snap, store, pays, served, income, block>>
      /\ chain[a].open /\ block >= chain[a].exp
      /\ \A ch \in Channels \ {a} : chain'[ch] = chain[ch]
      BY <1>t DEF ClaimTimeout
<1>2. chain'[a].nonce = chain[a].nonce + 1 /\ chain'[a].open
      BY <1>t, <1>1 DEF ClaimTimeout, MpeChannel
<1>m. /\ Owed(a) \in Nat /\ Authorized(a) \in Nat /\ income[a] \in Int
      /\ store[a] \in ChannelData /\ chain[a] \in MpeChannel
      /\ \A p \in pays : p.nonce \in Int
      /\ IsFiniteSet(Tokens(Pending(a)))
      BY MoneyTypes DEF AccountsInv
<1>3. Owed(a)' <= Owed(a) /\ Owed(a)' \in Nat
  <2>1. Pending(a)' \subseteq Pending(a)
        BY <1>1, <1>2, <1>m DEF Pending, MpeChannel
  <2>2. Total(Pending(a)') <= Total(Pending(a)) /\ Total(Pending(a)') \in Nat
        BY <2>1, <1>m, TotalOfSome
  <2> QED BY <2>2 DEF Owed, Total, Tokens
<1>4. Authorized(a)' <= Authorized(a) /\ Authorized(a)' \in Nat
      BY <1>1, <1>2, <1>m DEF Authorized, ChannelData, MpeChannel
<1>5. Revenue(a)' <= Revenue(a) /\ Revenue(a)' \in Int
  <2>1. Revenue(a) = income[a] + Owed(a) + Authorized(a) /\ Revenue(a)' = income[a] + Owed(a)' + Authorized(a)'
        BY <1>1 DEF Revenue
  <2> QED BY <2>1, <1>3, <1>4, <1>m
<1>6. ASSUME NEW v \in ChannelData, Covers(v, a) PROVE Covers(v, a)'
  <2>1. ~(block < v.exp)
        BY <1>t, <1>1, <1>6, <1>m DEF Covers, ChannelData, MpeChannel
  <2> QED BY <1>1, <2>1 DEF Covers
<1>7. chain'[a].nonce >= chain[a].nonce /\ chain'[a] \in MpeChannel
      BY <1>t, <1>2, <1>m DEF MpeChannel
<1>8. ChannelSound(a)' /\ \A d \in Calls : req[d].ch = a => CallSound(d)'
      BY <1>1, <1>2, <1>5, <1>6, <1>7, ContractStep
<1>9. Unopened'
      BY <1>1, <1>2 DEF AccountsInv, Unopened
<1> QED BY <1>1, <1>8, <1>9, OtherChannelsSound, ContractInv

\* A payment is income instead of owed, once, and the channel's nonce is
\* still behind the stored one.
LEMMA ClaimIsIncome ==
  ASSUME EscrowInv, AccountsInv, NEW p \in pays, ClaimOnChain(p), NEW a \in Channels, p.ch = a
  PROVE  /\ chain'[a].nonce = chain[a].nonce + 1 /\ chain'[a].open = chain[a].open
         /\ chain'[a].exp = chain[a].exp /\ chain'[a].value = chain[a].value - p.amount
         /\ Owed(a) = Owed(a)' + p.amount /\ Owed(a)' \in Nat
         /\ chain[a].nonce < store[a].nonce
         /\ Revenue(a)' = Revenue(a)
         /\ \A ch \in Channels \ {a} : chain'[ch] = chain[ch] /\ income'[ch] = income[ch]
<1>t. chain \in [Channels -> MpeChannel] /\ income \in [Channels -> Int]
      BY DEF EscrowInv, TypeOK
<1>m. /\ Owed(a) \in Nat /\ Authorized(a) \in Nat /\ income[a] \in Int
      /\ store[a] \in ChannelData /\ chain[a] \in MpeChannel
      /\ \A q \in pays : q.nonce \in Int /\ q.amount \in Nat
      /\ IsFiniteSet(Tokens(Pending(a)))
      BY MoneyTypes DEF AccountsInv
<1>1. /\ UNCHANGED <<store, pays>>
      /\ p.nonce = chain[a].nonce
      /\ \A ch \in Channels \ {a} : chain'[ch] = chain[ch] /\ income'[ch] = income[ch]
      /\ income'[a] = income[a] + p.amount
      BY <1>t DEF ClaimOnChain, daemonVars
<1>2. /\ chain'[a].nonce = chain[a].nonce + 1 /\ chain'[a].open = chain[a].open
      /\ chain'[a].exp = chain[a].exp /\ chain'[a].value = chain[a].value - p.amount
      BY <1>t DEF ClaimOnChain, MpeChannel
<1>3. Owed(a) = Owed(a)' + p.amount /\ Owed(a)' \in Nat
  <2>0. \A q \in pays : q.ch = a /\ q.nonce = chain[a].nonce => q = p
        BY <1>1 DEF AccountsInv, PaysInOrder, SameID
  <2>1. Pending(a) = Pending(a)' \cup {p} /\ p \notin Pending(a)'
    <3>1. \A q \in pays : q.ch = a => (q.nonce >= chain[a].nonce <=> q.nonce >= chain'[a].nonce \/ q = p)
          BY <1>1, <1>2, <1>m, <2>0 DEF MpeChannel
    <3>2. ~(p.nonce >= chain'[a].nonce)
          BY <1>1, <1>2, <1>m DEF MpeChannel
    <3> QED BY <1>1, <3>1, <3>2 DEF Pending
  <2>2. IsFiniteSet(Tokens(Pending(a)'))
        BY <2>1, <1>m, TotalOfSome
  <2>3. Total(Pending(a)' \cup {p}) = Total(Pending(a)') + p.amount /\ Total(Pending(a)') \in Nat
        BY <2>1, <2>2, <1>m, TotalOfMore
  <2> QED BY <2>1, <2>3 DEF Owed, Total, Tokens
<1>4. chain[a].nonce < store[a].nonce
      BY <1>1 DEF AccountsInv, PaysInOrder
<1>5. Authorized(a)' = Authorized(a)
      BY <1>1, <1>2, <1>4, <1>m DEF Authorized, ChannelData, MpeChannel
<1>6. Revenue(a)' = Revenue(a)
  <2>1. /\ Revenue(a) = income[a] + Owed(a) + Authorized(a)
        /\ Revenue(a)' = income[a] + p.amount + Owed(a)' + Authorized(a)
        BY <1>1, <1>5 DEF Revenue
  <2> QED BY <2>1, <1>3, <1>m
<1> QED BY <1>1, <1>2, <1>3, <1>4, <1>6

\* A claim on the contract keeps the invariant.
LEMMA ClaimOnChainSound ==
  ASSUME EscrowInv, AccountsInv, DataTypeOK', NEW p \in pays, ClaimOnChain(p)
  PROVE  AccountsInv'
<1>t. chain \in [Channels -> MpeChannel] /\ chain' \in [Channels -> MpeChannel]
      BY DEF EscrowInv, TypeOK, DataTypeOK
<1>0. PICK a \in Channels : p.ch = a
      BY DEF EscrowInv, TypeOK, Payments
<1>m. /\ Owed(a) \in Nat /\ Revenue(a) \in Int /\ store[a] \in ChannelData /\ chain[a] \in MpeChannel
      /\ \A q \in pays : q.nonce \in Int /\ q.amount \in Nat
      BY MoneyTypes DEF AccountsInv
<1>1. UNCHANGED <<pc, req, snap, store, pays, served, block>> /\ p.nonce = chain[a].nonce
      BY <1>0 DEF ClaimOnChain, daemonVars, callVars
<1>2. /\ chain'[a].nonce = chain[a].nonce + 1 /\ chain'[a].open = chain[a].open
      /\ chain'[a].exp = chain[a].exp /\ chain'[a].value = chain[a].value - p.amount
      /\ Owed(a) = Owed(a)' + p.amount /\ Owed(a)' \in Nat
      /\ chain[a].nonce < store[a].nonce
      /\ Revenue(a)' = Revenue(a)
      /\ \A ch \in Channels \ {a} : chain'[ch] = chain[ch] /\ income'[ch] = income[ch]
      BY <1>0, ClaimIsIncome
<1>3. ASSUME NEW v \in ChannelData, Covers(v, a), \A q \in pays : q.ch = a => q.nonce < v.nonce
      PROVE  Covers(v, a)'
  <2>1. p.nonce < v.nonce /\ p.amount \in Nat
        BY <1>0, <1>3, <1>m
  <2> QED BY <1>1, <1>2, <1>3, <1>m, <2>1 DEF Covers, ChannelData, MpeChannel
<1>4. /\ chain'[a].nonce >= chain[a].nonce /\ chain'[a] \in MpeChannel
      /\ Revenue(a)' <= Revenue(a) /\ Revenue(a)' \in Int
      BY <1>t, <1>2, <1>m DEF MpeChannel
<1>5. ChannelSound(a)' /\ \A d \in Calls : req[d].ch = a => CallSound(d)'
      BY <1>1, <1>2, <1>3, <1>4, ContractStep
<1>6. Unopened'
  <2>1. store[a] # NoData
        BY <1>2, <1>m, ConstantTypes DEF MpeChannel
  <2>2. chain[a].open
        BY <2>1 DEF EscrowInv, OnlyOurChannels
  <2> QED BY <1>1, <1>2, <2>2 DEF AccountsInv, Unopened
<1> QED BY <1>1, <1>2, <1>5, <1>6, OtherChannelsSound, ContractInv

----------------------------------------------------------------------------
(* The theorems about what holds whatever fails. *)

\* Nothing is charged, stored or read initially.
LEMMA AccountsInit == Init => AccountsInv
<1> SUFFICES ASSUME Init PROVE AccountsInv
    OBVIOUS
<1>1. EscrowInv
      BY InitInv
<1>2. PaysInOrder
  <2>1. Tokens({}) = {}
        BY DEF Tokens
  <2> QED BY <2>1, FS_EmptySet DEF Init, PaysInOrder
<1>3. Unopened
      BY DEF Init, Unopened
<1>4. ASSUME NEW ch \in Channels PROVE ChannelSound(ch)
  <2>1. store[ch] = NoData /\ chain[ch] = NotOpened /\ income[ch] = 0 /\ served[ch] = 0 /\ block = 0
        BY DEF Init
  <2>2. NoData.auth = 0 /\ NoData.full = 0 /\ NoData.exp = 0
        BY DEF NoData
  <2>3. Pending(ch) = {}
        BY DEF Init, Pending
  <2>4. Owed(ch) = 0
        BY <2>3, TotalOfNone DEF Owed
  <2>5. Authorized(ch) = 0
        BY <2>1, <2>2 DEF Authorized
  <2> QED BY <2>1, <2>2, <2>4, <2>5, PriceAssumption DEF ChannelSound, Revenue, Covers
<1>5. \A c \in Calls : CallSound(c)
      BY DEF Init, CallSound, ReadingPcs
<1> QED BY <1>2, <1>3, <1>4, <1>5 DEF AccountsInv

\* Every step keeps the accounts in order.
LEMMA AccountsStep == EscrowInv /\ AccountsInv /\ [Next]_vars => AccountsInv'
<1> SUFFICES ASSUME EscrowInv, AccountsInv, [Next]_vars PROVE AccountsInv'
    OBVIOUS
<1>1. DataTypeOK'
      BY TypeStep DEF TypeOK, DataTypeOK
<1>2. ASSUME NEW c \in Calls, StartCall(c) \/ CallStep(c) PROVE AccountsInv'
      BY <1>2, AsideSteps, EndsAside, RemoveAside, ReadSound, AnswerSound, CommitSound, ClaimPutSound,
         PaymentPutSound DEF CallStep
<1>3. CASE ChainStep
      BY <1>1, <1>3, DepositSound, TimeoutSound, ClaimOnChainSound DEF ChainStep
<1>4. CASE UNCHANGED vars
      BY <1>4, CallsAside DEF vars, callVars, chainVars, Waits
<1> QED BY <1>2, <1>3, <1>4, EndsAside DEF Next

\* The invariant behind the accounts, in every order of calls, claims,
\* failures, crashes and steps of the contract.
THEOREM AccountsInvariant == Spec => [](EscrowInv /\ AccountsInv)
<1>1. Init => EscrowInv /\ AccountsInv
      BY InitInv, AccountsInit
<1>2. (EscrowInv /\ AccountsInv) /\ [Next]_vars => (EscrowInv /\ AccountsInv)'
      BY InvStep, AccountsStep
<1> QED BY <1>1, <1>2, PTL DEF Spec

\* What the provider has and can still get of a channel is never more than the
\* price of the calls the service has answered.
THEOREM SenderNeverOvercharged == Spec => []NeverOvercharged
<1>1. EscrowInv /\ AccountsInv => NeverOvercharged
      BY DEF AccountsInv, ChannelSound, NeverOvercharged
<1> QED BY <1>1, AccountsInvariant, PTL

\* The contract holds the tokens of every pending payment and all that the
\* stored channel lets the client spend, until the channel expires.
THEOREM ChannelIsSolvent == Spec => []Solvent
<1>1. EscrowInv /\ AccountsInv => Solvent
      BY DEF AccountsInv, ChannelSound, Covers, Solvent
<1> QED BY <1>1, AccountsInvariant, PTL

\* A call the service works on, or has answered, is backed by tokens of the
\* contract beyond all pending payments, until its channel expires.
THEOREM WorkIsBacked == Spec => []BackedWork
<1>1. EscrowInv /\ AccountsInv => BackedWork
  <2> SUFFICES ASSUME EscrowInv, AccountsInv, NEW c \in Calls,
                      pc[c] \in {"serve", "commit"}, block < snap[c].exp
               PROVE  /\ chain[req[c].ch].nonce <= snap[c].nonce
                      /\ Owed(req[c].ch) + req[c].amount <= chain[req[c].ch].value
      BY DEF BackedWork
  <2>1. PICK ch \in Channels : req[c].ch = ch
        BY Alone DEF LockedPcs
  <2>2. Covers(snap[c], ch)
        BY <2>1 DEF AccountsInv, CallSound, ReadingPcs
  <2>3. req[c].amount <= snap[c].full
        BY DEF EscrowInv, Accepted
  <2>4. Owed(ch) \in Nat /\ chain[ch].value \in Int /\ req[c].amount \in Int /\ snap[c].full \in Int
        BY MoneyTypes DEF AccountsInv, MpeChannel, EscrowInv, TypeOK, Requests, ChannelData
  <2> QED BY <2>1, <2>2, <2>3, <2>4 DEF Covers
<1> QED BY <1>1, AccountsInvariant, PTL

----------------------------------------------------------------------------
(* Without failures: no gap between the claims of a channel. *)

\* No access fails, and no process is killed.
LEMMA NothingFails == ASSUME EscrowInv, NoFailures PROVE ~Fault
  BY MaxFaultsAssumption DEF EscrowInv, TypeOK, LockTypeOK, Fault, NoFailures

\* What a step of a call does to the calls: the call itself goes on with its
\* request or is done with it, and only beginClaimOnChannel panics.
LEMMA CallStepShape ==
  ASSUME EscrowInv, NoFailures, Roles, NEW c \in Calls, CallStep(c), ~Die(c)
  PROVE  /\ \A d \in Calls \ {c} : Waits(d)
         /\ req'[c] = req[c] \/ req'[c] = NoRequest
         /\ pc'[c] # "panic" /\ (pc'[c] = "dying" => pc[c] = "beginChain")
<1> USE DEF callVars, Goto, EndCall, Waits
<1>t. /\ pc \in [Calls -> Pcs] /\ req \in [Calls -> Requests] /\ snap \in [Calls -> ChannelData]
      BY DEF EscrowInv, TypeOK
<1>0. pc[c] # "panic" /\ ~Fault
      BY NothingFails DEF Roles
<1>1. CASE LockStep(c) \/ LockDenied(c) \/ UnlockStep(c) \/ ClaimLock(c)
      BY <1>t, <1>0, <1>1 DEF LockStep, LockDenied, UnlockStep, ClaimLock, At
<1>2. CASE PaymentGet(c) \/ PaymentChain(c) \/ PaymentValidate(c) \/ PaymentCommit(c)
      BY <1>t, <1>2 DEF PaymentGet, PaymentChain, PaymentValidate, PaymentCommit
<1>3. CASE ServiceDone(c) \/ ServiceFailed(c) \/ ServicePanics(c) \/ PanicUnlock(c)
      BY <1>t, <1>0, <1>3 DEF ServiceDone, ServiceFailed, ServicePanics, PanicUnlock, At
<1>4. CASE UnlockedGet(c) \/ VerifyChain(c) \/ ListClaims(c) \/ RemoveDone(c) \/ BeginChain(c)
      BY <1>t, <1>4 DEF UnlockedGet, VerifyChain, ListClaims, RemoveDone, BeginChain, At
<1>5. CASE RemoveClaimed(c)
      BY <1>t, <1>5 DEF RemoveClaimed, At
<1>6. CASE ClaimGet(c) \/ ClaimPut(c) \/ PaymentPut(c)
      BY <1>t, <1>6 DEF ClaimGet, ClaimPut, PaymentPut
<1> QED BY <1>1, <1>2, <1>3, <1>4, <1>5, <1>6 DEF CallStep

\* A call that starts was doing nothing; the others wait.
LEMMA StartShape ==
  ASSUME EscrowInv, NEW c \in Calls, StartCall(c)
  PROVE  /\ \A d \in Calls \ {c} : Waits(d)
         /\ pc[c] = "idle"
         /\ \/ c \in PayCalls /\ req'[c].kind = "pay" /\ pc'[c] = "lock"
            \/ c \in ClaimCalls /\ req'[c].kind = "claim" /\ pc'[c] = "verifyGet"
            \/ c \in ClaimCalls /\ req'[c].kind = "list" /\ pc'[c] = "list"
         /\ UNCHANGED <<store, pays, chain, block, income, served>>
<1> USE DEF callVars, chainVars, Goto, Waits, At
<1>t. /\ pc \in [Calls -> Pcs] /\ req \in [Calls -> Requests] /\ snap \in [Calls -> ChannelData]
      BY DEF EscrowInv, TypeOK
<1>1. ASSUME NEW p \in PayRequests, StartPayment(c, p) PROVE req'[c] = p /\ p.kind = "pay"
      BY <1>t, <1>1, RequestTypes DEF StartPayment
<1>2. ASSUME NEW q \in ClaimRequests, ClaimRequest(c, q) PROVE req'[c] = q /\ q.kind = "claim"
      BY <1>t, <1>2, RequestTypes DEF ClaimRequest
<1>3. ListRequest.kind = "list"
      BY DEF ListRequest
<1> QED BY <1>t, <1>1, <1>2, <1>3 DEF StartCall, StartPayment, ClaimRequest, InProgressRequest

\* A process that ends leaves its calls idle; without failures it is the
\* process of a claim.
LEMMA DieShape ==
  ASSUME EscrowInv, Roles, NEW c \in Calls, Die(c)
  PROVE  /\ c \in ClaimCalls /\ pc[c] = "dying"
         /\ \A d \in Calls : \/ Waits(d) /\ ReplicaOf[d] # ReplicaOf[c]
                             \/ pc'[d] = "idle" /\ req'[d] = NoRequest /\ ReplicaOf[d] = ReplicaOf[c]
         /\ UNCHANGED <<store, pays, chain, block, income, served>>
  BY DEF Die, EndCalls, Waits, Roles, At, chainVars

\* The contract and the operator move no call.
LEMMA OutsideShape ==
  ASSUME EscrowInv, NoFailures,
         \/ \E r \in Replicas : Crash(r)
         \/ \E ch \in Channels : OperatorUnlock(ch)
         \/ ChainStep
         \/ UNCHANGED vars
  PROVE  UNCHANGED <<pc, req, snap, store, pays, served>>
<1>1. ASSUME NEW r \in Replicas PROVE ~Crash(r)
      BY NothingFails DEF Crash
<1>2. CASE ChainStep
      BY <1>2 DEF ChainStep, OpenChannel, AddFunds, ExtendChannel, ClaimOnChain, ClaimTimeout, NextBlock,
                  daemonVars, callVars
<1> QED BY <1>1, <1>2 DEF OperatorUnlock, vars, callVars

\* Paid calls stay paid calls.
LEMMA RolesStep ==
  ASSUME EscrowInv, NoFailures, Roles, [Next]_vars
  PROVE  Roles'
<1>n. NoRequest.kind = "none"
      BY DEF NoRequest
<1>1. ASSUME NEW c \in Calls, StartCall(c) PROVE Roles'
      BY <1>1, StartShape DEF Roles, Waits
<1>2. ASSUME NEW c \in Calls, CallStep(c), ~Die(c) PROVE Roles'
  <2>1. pc[c] = "beginChain" => c \in ClaimCalls
        BY DEF EscrowInv, CallLock, ClaimPcs, Roles
  <2> QED BY <1>2, <1>n, <2>1, CallStepShape DEF Roles, Waits
<1>3. ASSUME NEW c \in Calls, Die(c) PROVE Roles'
      BY <1>3, <1>n, DieShape DEF Roles, Waits
<1>4. CASE UNCHANGED <<pc, req, snap, store, pays, served>>
      BY <1>4 DEF Roles
<1> QED BY <1>1, <1>2, <1>3, <1>4, OutsideShape DEF Next

\* Steps that write no claim leave no gap: the contract moves forward only, a
\* channel is written with its own nonce or the contract's, and payments are
\* removed only when the contract has passed them.
LEMMA GapFrame ==
  ASSUME TypeOK, NoGap, TypeOK',
         \A ch \in Channels :
           /\ chain'[ch].nonce >= chain[ch].nonce
           /\ store'[ch].nonce = store[ch].nonce \/ store'[ch].nonce <= chain'[ch].nonce,
         \A p \in pays : p \in pays' \/ p.nonce < chain'[p.ch].nonce,
         \A c \in Calls : pc[c] = "paymentPut" => Waits(c)
  PROVE  NoGap'
<1> SUFFICES ASSUME NEW ch \in Channels, NEW n \in chain'[ch].nonce .. store'[ch].nonce - 1
             PROVE  \/ \E p \in pays' : p.ch = ch /\ p.nonce = n /\ p.amount > 0 /\ p.sig = Sign(n, p.amount)
                    \/ \E c \in Calls : pc'[c] = "paymentPut" /\ req'[c].ch = ch /\ snap'[c].nonce = n
    BY DEF NoGap
<1>1. /\ chain[ch].nonce \in Int /\ chain'[ch].nonce \in Int /\ store[ch].nonce \in Int
      /\ store'[ch].nonce \in Int
      BY DEF TypeOK, MpeChannel, ChannelData
<1>2. n \in chain[ch].nonce .. store[ch].nonce - 1 /\ n >= chain'[ch].nonce /\ n \in Int
      BY <1>1
<1>3. CASE \E p \in pays : p.ch = ch /\ p.nonce = n /\ p.amount > 0 /\ p.sig = Sign(n, p.amount)
      BY <1>1, <1>2, <1>3
<1>4. CASE \E c \in Calls : pc[c] = "paymentPut" /\ req[c].ch = ch /\ snap[c].nonce = n
      BY <1>4 DEF Waits
<1> QED BY <1>2, <1>3, <1>4 DEF NoGap

\* The contract's nonces never go back.
LEMMA ChainForward ==
  ASSUME EscrowInv, AccountsInv, ChainStep
  PROVE  \A ch \in Channels : chain'[ch].nonce >= chain[ch].nonce
<1>t. chain \in [Channels -> MpeChannel] /\ \A ch \in Channels : chain[ch].nonce \in Nat
      BY DEF EscrowInv, TypeOK, MpeChannel
<1>1. ASSUME NEW a \in Channels, NEW v, NEW e, NEW y, OpenChannel(a, v, e, y)
      PROVE  \A ch \in Channels : chain'[ch].nonce >= chain[ch].nonce
      BY <1>t, <1>1 DEF OpenChannel, AccountsInv, Unopened, NotOpened
<1>2. ASSUME NEW a \in Channels, NEW v, AddFunds(a, v)
      PROVE  \A ch \in Channels : chain'[ch].nonce >= chain[ch].nonce
      BY <1>t, <1>2 DEF AddFunds, MpeChannel
<1>3. ASSUME NEW a \in Channels, NEW e, ExtendChannel(a, e)
      PROVE  \A ch \in Channels : chain'[ch].nonce >= chain[ch].nonce
      BY <1>t, <1>3 DEF ExtendChannel, MpeChannel
<1>4. ASSUME NEW a \in Channels, ClaimTimeout(a)
      PROVE  \A ch \in Channels : chain'[ch].nonce >= chain[ch].nonce
      BY <1>t, <1>4 DEF ClaimTimeout, MpeChannel
<1>5. ASSUME NEW p \in pays, ClaimOnChain(p)
      PROVE  \A ch \in Channels : chain'[ch].nonce >= chain[ch].nonce
      BY <1>t, <1>5 DEF ClaimOnChain, MpeChannel
<1>6. ASSUME NextBlock PROVE \A ch \in Channels : chain'[ch].nonce >= chain[ch].nonce
      BY <1>t, <1>6 DEF NextBlock
<1> QED BY <1>1, <1>2, <1>3, <1>4, <1>5, <1>6 DEF ChainStep

\* The steps of a call that write nothing.
LEMMA ReadOnlySteps ==
  ASSUME NEW c \in Calls, CallStep(c),
         ~PaymentCommit(c), ~ClaimPut(c), ~PaymentPut(c), ~RemoveClaimed(c)
  PROVE  UNCHANGED <<store, pays, chain, block, income>> /\ (UNCHANGED served \/ ServiceDone(c))
  BY DEF CallStep, callVars, chainVars, LockStep, LockDenied, UnlockStep, PaymentGet, PaymentChain,
         PaymentValidate, ServiceDone, ServiceFailed, ServicePanics, PanicUnlock, UnlockedGet, VerifyChain,
         ListClaims, RemoveDone, BeginChain, ClaimLock, ClaimGet, Die

\* Only a claim takes what is authorized off a channel.
LEMMA AmountStays ==
  ASSUME EscrowInv, NEW c \in Calls, CallStep(c), ~ClaimPut(c),
         NEW ch \in Channels, store[ch].auth # 0
  PROVE  store'[ch].auth # 0
<1>1. CASE PaymentCommit(c)
  <2>1. /\ pc[c] = "commit" /\ snap[c] \in ChannelData /\ store \in [Channels -> ChannelData]
        /\ store' = store \/ store' = [store EXCEPT ![req[c].ch] = Committed(snap[c], req[c])]
        BY <1>1 DEF PaymentCommit, At, Ch, EscrowInv, TypeOK
  <2>2. req[c].amount = snap[c].auth + Price /\ snap[c].auth \in Nat
        BY <2>1 DEF EscrowInv, Accepted, SnapshotGood, SignedFor, ChannelData
  <2>3. Committed(snap[c], req[c]).auth # 0
        BY <2>1, <2>2, PriceAssumption DEF Committed, ChannelData
  <2> QED BY <2>1, <2>3
<1>2. CASE PaymentPut(c) \/ RemoveClaimed(c)
      BY <1>2 DEF PaymentPut, RemoveClaimed
<1> QED BY <1>1, <1>2, ReadOnlySteps

\* What beginClaimOnChannel looks for stays there for the only claim.
LEMMA AmountStep ==
  ASSUME EscrowInv, NoFailures, OneClaimAtATime, Roles, [Next]_vars,
         \A d \in Calls : HasAmount(d)
  PROVE  \A d \in Calls : HasAmount(d)'
<1>n. NoRequest.kind = "none"
      BY DEF NoRequest
<1> SUFFICES ASSUME NEW d \in Calls, req'[d].kind = "claim" PROVE HasAmount(d)'
    BY DEF HasAmount
<1>0. HasAmount(d)
      OBVIOUS
<1>t. /\ pc \in [Calls -> Pcs] /\ req \in [Calls -> Requests] /\ snap \in [Calls -> ChannelData]
      /\ store \in [Channels -> ChannelData] /\ chain \in [Channels -> MpeChannel]
      BY DEF EscrowInv, TypeOK
<1>1. ASSUME Waits(d), req[d].ch \in Channels => (store[req[d].ch].auth # 0 => store'[req[d].ch].auth # 0)
      PROVE  HasAmount(d)'
  <2>1. req[d].kind = "claim" /\ req[d].ch \in Channels
        BY <1>1 DEF Waits, EscrowInv, CallLock
  <2> QED BY <1>0, <1>1, <2>1 DEF HasAmount, Waits
<1>2. CASE UNCHANGED <<pc, req, snap, store>>
      BY <1>1, <1>2 DEF Waits
<1>3. ASSUME NEW c \in Calls, StartCall(c) PROVE HasAmount(d)'
  <2>1. CASE c = d
        BY <1>3, <2>1, StartShape DEF HasAmount
  <2>2. CASE c # d
        BY <1>1, <1>3, <2>2, StartShape
  <2> QED BY <2>1, <2>2
<1>4. ASSUME NEW c \in Calls, Die(c) PROVE HasAmount(d)'
      BY <1>1, <1>4, <1>n, DieShape
<1>5. ASSUME NEW c \in Calls, CallStep(c), ~Die(c) PROVE HasAmount(d)'
  <2>1. CASE c # d
    <3>1. Waits(d)
          BY <1>5, <2>1, CallStepShape
    <3>2. ~ClaimPut(c)
      <4>1. d \in ClaimCalls
            BY <3>1 DEF Waits, Roles
      <4>2. ClaimPut(c) => c \in ClaimCalls
            BY DEF ClaimPut, At, EscrowInv, CallLock, ClaimPcs, Roles
      <4> QED BY <2>1, <4>1, <4>2 DEF OneClaimAtATime
    <3> QED BY <1>1, <1>5, <3>1, <3>2, AmountStays
  <2>2. CASE c = d
    <3>0. req'[c] = req[c] /\ req[c].kind = "claim" /\ ~Fault
          BY <1>5, <1>n, <2>2, CallStepShape, NothingFails
    <3>1. PICK ch \in Channels : req[c].ch = ch
          BY <3>0 DEF EscrowInv, CallLock
    <3>2. pc[c] \notin PayPcs
          BY <3>0 DEF EscrowInv, CallLock
    <3> USE DEF HasAmount, Goto, EndCall, callVars
    <3>3. CASE UnlockedGet(c)
          BY <1>t, <2>2, <3>0, <3>1, <3>3 DEF UnlockedGet, Ch, At
    <3>4. CASE BeginChain(c)
      <4>1. pc[c] = "beginChain" /\ store' = store /\ pc'[c] \in {"begin", "dying", "idle"}
            BY <1>t, <3>4 DEF BeginChain, At
      <4>2. CASE pc'[c] = "begin"
        <5>1. PICK ok \in BOOLEAN : LET r == PaymentChannel(snap[c], chain[ch], ok)
                                    IN r.res = "found" /\ r.data.auth # 0
              BY <1>t, <3>1, <3>4, <4>2 DEF BeginChain, Ch, SomethingToClaim
        <5>2. snap[c] \in ChannelData /\ chain[ch] \in MpeChannel
              BY <1>t
        <5>3. snap[c].auth # 0
          <6> DEFINE r == PaymentChannel(snap[c], chain[ch], ok)
          <6>1. \/ r.data = snap[c]
                \/ r.data.nonce = chain[ch].nonce /\ (r.data.nonce > snap[c].nonce => r.data.auth = 0)
                BY <5>1, <5>2, PaymentChannelSource
          <6>2. r.data.nonce > snap[c].nonce \/ r.data.auth = snap[c].auth
                BY <5>1, <5>2, PaymentChannelForward
          <6> QED BY <5>1, <6>1, <6>2
        <5> QED BY <1>0, <2>2, <3>0, <3>1, <4>1, <4>2, <5>3
      <4>3. CASE pc'[c] # "begin"
            BY <2>2, <4>1, <4>3
      <4> QED BY <4>2, <4>3
    <3>5. CASE ClaimLock(c) \/ LockStep(c)
      <4>1. store' = store /\ pc[c] \in {"begin", "lock"} /\ pc'[c] = "lock"
            BY <1>t, <3>5 DEF ClaimLock, LockStep, At
      <4> QED BY <1>0, <2>2, <3>0, <4>1
    <3>6. CASE ClaimGet(c)
      <4>1. /\ store' = store /\ pc[c] = "lock"
            /\ pc'[c] = "unlock" \/ (pc'[c] = "claimPut" /\ snap'[c] = store[ch])
            BY <1>t, <3>1, <3>6 DEF ClaimGet, Ch, At
      <4> QED BY <1>0, <2>2, <3>0, <3>1, <4>1
    <3>7. CASE ClaimPut(c)
      <4>1. snap' = snap /\ pc[c] = "claimPut" /\ pc'[c] \in {"paymentPut", "unlock"}
            BY <1>t, <3>7 DEF ClaimPut, At
      <4> QED BY <1>0, <2>2, <3>0, <4>1
    <3>8. CASE \/ LockDenied(c) \/ UnlockStep(c) \/ VerifyChain(c) \/ ListClaims(c)
               \/ RemoveClaimed(c) \/ RemoveDone(c) \/ PaymentPut(c)
          BY <1>t, <2>2, <3>0, <3>8, <1>n DEF LockDenied, UnlockStep, VerifyChain, ListClaims, RemoveClaimed,
                                   RemoveDone, PaymentPut, At
    <3>9. CASE \/ PaymentGet(c) \/ PaymentChain(c) \/ PaymentValidate(c) \/ ServiceDone(c)
               \/ ServiceFailed(c) \/ ServicePanics(c) \/ PanicUnlock(c) \/ PaymentCommit(c)
          BY <3>0, <3>2, <3>9 DEF PaymentGet, PaymentChain, PaymentValidate, ServiceDone, ServiceFailed,
                                  ServicePanics, PanicUnlock, PaymentCommit, At, PayPcs
    <3> QED BY <1>5, <3>3, <3>4, <3>5, <3>6, <3>7, <3>8, <3>9 DEF CallStep
  <2> QED BY <2>1, <2>2
<1> QED BY <1>2, <1>3, <1>4, <1>5, OutsideShape DEF Next

\* No step leaves a gap but that of a claim between its two writes.
LEMMA GapStep ==
  ASSUME NoGapInv, NoFailures, OneClaimAtATime, [Next]_vars
  PROVE  NoGap'
<1> USE DEF NoGapInv
<1>t. /\ TypeOK /\ TypeOK' /\ NoGap
      /\ pc \in [Calls -> Pcs] /\ snap \in [Calls -> ChannelData]
      /\ store \in [Channels -> ChannelData] /\ chain \in [Channels -> MpeChannel]
      BY TypeStep DEF EscrowInv, TypeOK
<1>i. \A ch \in Channels : chain[ch].nonce \in Int /\ store[ch].nonce \in Int
      BY <1>t DEF MpeChannel, ChannelData
<1>1. ASSUME UNCHANGED <<store, pays, chain>>, \A d \in Calls : pc[d] = "paymentPut" => Waits(d)
      PROVE  NoGap'
      BY <1>t, <1>i, <1>1, GapFrame
<1>2. ASSUME NEW c \in Calls, StartCall(c) PROVE NoGap'
  <2>1. \A d \in Calls : pc[d] = "paymentPut" => Waits(d)
        BY <1>2, StartShape
  <2> QED BY <1>1, <1>2, <2>1, StartShape
<1>3. ASSUME NEW c \in Calls, Die(c) PROVE NoGap'
  <2>1. \A d \in Calls : pc[d] = "paymentPut" => Waits(d)
    <3>1. \A d \in Calls : pc[d] = "paymentPut" => d \in ClaimCalls
          BY DEF EscrowInv, CallLock, ClaimPcs, Roles
    <3>2. c \in ClaimCalls /\ pc[c] = "dying"
          BY <1>3, DieShape
    <3> QED BY <1>3, <3>1, <3>2 DEF OneClaimAtATime
  <2> QED BY <1>1, <1>3, <2>1, DieShape
<1>4. CASE UNCHANGED <<pc, req, snap, store, pays>> /\ (ChainStep \/ UNCHANGED chain)
  <2>1. \A ch \in Channels : chain'[ch].nonce >= chain[ch].nonce
        BY <1>4, <1>i, ChainForward
  <2> QED BY <1>t, <1>4, <2>1, GapFrame DEF Waits
<1>5. ASSUME NEW c \in Calls, CallStep(c), ~Die(c) PROVE NoGap'
  <2>0. \A d \in Calls \ {c} : Waits(d)
        BY <1>5, CallStepShape
  <2>1. CASE pc[c] # "paymentPut" /\ ~PaymentCommit(c) /\ ~ClaimPut(c) /\ ~RemoveClaimed(c)
    <3>1. ~PaymentPut(c)
          BY <2>1 DEF PaymentPut, At
    <3> QED BY <1>1, <1>5, <2>0, <2>1, <3>1, ReadOnlySteps
  <2>2. CASE RemoveClaimed(c)
    <3>1. store' = store /\ chain' = chain /\ pc[c] = "remove"
          BY <2>2 DEF RemoveClaimed, chainVars, At
    <3>2. \A q \in pays : q \in pays' \/ q.nonce < chain[q.ch].nonce
      <4>1. PICK p \in todo[c] :
              pays' = pays \/ (chain[p.ch].nonce > p.nonce /\ pays' = {q \in pays : ~SameID(p, q)})
            BY <2>2 DEF RemoveClaimed
      <4>2. p.nonce \in Int /\ chain[p.ch].nonce \in Int
            BY <1>i DEF EscrowInv, TypeOK, Payments
      <4> QED BY <4>1, <4>2 DEF SameID
    <3> QED BY <1>t, <1>i, <2>0, <3>1, <3>2, GapFrame
  <2>3. CASE PaymentCommit(c)
    <3>0. PICK ch \in Channels : req[c].ch = ch
          BY <2>3, Alone DEF PaymentCommit, At, LockedPcs
    <3>1. /\ pays' = pays /\ chain' = chain /\ pc[c] = "commit"
          /\ store' = store \/ store' = [store EXCEPT ![ch] = Committed(snap[c], req[c])]
          BY <2>3, <3>0 DEF PaymentCommit, chainVars, At, Ch
    <3>2. Committed(snap[c], req[c]).nonce = snap[c].nonce
          BY <1>t DEF Committed, ChannelData
    <3>3. snap[c].nonce = store[ch].nonce \/ snap[c].nonce <= chain[ch].nonce
          BY <3>0, <3>1 DEF EscrowInv, Isolation, AccountsInv, CallSound, ReadingPcs
    <3>4. \A e \in Channels : store'[e].nonce = store[e].nonce \/ store'[e].nonce <= chain'[e].nonce
          BY <1>t, <3>1, <3>2, <3>3
    <3> QED BY <1>t, <1>i, <2>0, <3>1, <3>4, GapFrame
  <2>4. CASE ClaimPut(c)
    <3>0. PICK ch \in Channels : req[c].ch = ch
          BY <2>4, Alone DEF ClaimPut, At, LockedPcs
    <3>1. /\ pays' = pays /\ chain' = chain /\ pc[c] = "claimPut" /\ pc'[c] = "paymentPut"
          /\ req' = req /\ snap' = snap
          /\ store' = [store EXCEPT ![ch] = IncrementChannelNonce(snap[c])]
          BY <1>t, <2>4, <3>0, NothingFails DEF ClaimPut, chainVars, At, Ch, Goto, Write, Outcome
    <3>2. snap[c] = store[ch]
          BY <3>0, <3>1 DEF EscrowInv, Isolation
    <3>3. store'[ch].nonce = store[ch].nonce + 1 /\ \A e \in Channels \ {ch} : store'[e] = store[e]
          BY <1>t, <3>1, <3>2 DEF IncrementChannelNonce
    <3> SUFFICES ASSUME NEW e \in Channels, NEW n \in chain'[e].nonce .. store'[e].nonce - 1
                 PROVE  \/ \E p \in pays' : p.ch = e /\ p.nonce = n /\ p.amount > 0 /\ p.sig = Sign(n, p.amount)
                        \/ \E d \in Calls : pc'[d] = "paymentPut" /\ req'[d].ch = e /\ snap'[d].nonce = n
        BY DEF NoGap
    <3>4. CASE e = ch /\ n = store[ch].nonce
          BY <3>0, <3>1, <3>2, <3>4
    <3>5. CASE ~(e = ch /\ n = store[ch].nonce)
      <4>1. n \in chain[e].nonce .. store[e].nonce - 1
            BY <1>i, <3>1, <3>3, <3>5
      <4>2. \/ \E p \in pays : p.ch = e /\ p.nonce = n /\ p.amount > 0 /\ p.sig = Sign(n, p.amount)
            \/ \E d \in Calls : pc[d] = "paymentPut" /\ req[d].ch = e /\ snap[d].nonce = n
            BY <4>1 DEF NoGap
      <4> QED BY <2>0, <3>1, <4>2 DEF Waits
    <3> QED BY <3>4, <3>5
  <2>5. CASE PaymentPut(c)
    <3>0. PICK ch \in Channels : req[c].ch = ch
          BY <2>5, Alone DEF PaymentPut, At, LockedPcs
    <3> DEFINE p == PaymentOf(ch, snap[c])
    <3>1. /\ store' = store /\ chain' = chain /\ pc[c] = "paymentPut"
          /\ pays' = {q \in pays : ~SameID(p, q)} \cup {p}
          BY <1>t, <2>5, <3>0, NothingFails DEF PaymentPut, chainVars, At, Ch, Write, Outcome
    <3>2. req[c].kind = "claim" /\ snap[c].auth # 0
          BY <3>1 DEF EscrowInv, CallLock, ClaimPcs, HasAmount
    <3>3. p.ch = ch /\ p.nonce = snap[c].nonce /\ p.amount > 0 /\ p.sig = Sign(p.nonce, p.amount)
      <4>1. p.ch = ch /\ p.nonce = snap[c].nonce /\ p.amount = snap[c].auth /\ p.sig = snap[c].sig
            BY DEF PaymentOf
      <4>2. SignedFor(snap[c].nonce, snap[c].auth, snap[c].sig)
            BY <3>1 DEF EscrowInv, SnapshotGood
      <4> QED BY <3>2, <4>1, <4>2 DEF SignedFor
    <3> HIDE DEF p
    <3> SUFFICES ASSUME NEW e \in Channels, NEW n \in chain'[e].nonce .. store'[e].nonce - 1
                 PROVE  \/ \E q \in pays' : q.ch = e /\ q.nonce = n /\ q.amount > 0 /\ q.sig = Sign(n, q.amount)
                        \/ \E d \in Calls : pc'[d] = "paymentPut" /\ req'[d].ch = e /\ snap'[d].nonce = n
        BY DEF NoGap
    <3>4. \/ \E q \in pays : q.ch = e /\ q.nonce = n /\ q.amount > 0 /\ q.sig = Sign(n, q.amount)
          \/ \E d \in Calls : pc[d] = "paymentPut" /\ req[d].ch = e /\ snap[d].nonce = n
          BY <3>1 DEF NoGap
    <3>5. CASE \E q \in pays : q.ch = e /\ q.nonce = n /\ q.amount > 0 /\ q.sig = Sign(n, q.amount)
      <4>1. PICK q \in pays : q.ch = e /\ q.nonce = n /\ q.amount > 0 /\ q.sig = Sign(n, q.amount)
            BY <3>5
      <4>2. CASE SameID(p, q)
            BY <3>1, <3>3, <4>1, <4>2 DEF SameID
      <4>3. CASE ~SameID(p, q)
            BY <3>1, <4>1, <4>3
      <4> QED BY <4>2, <4>3
    <3>6. CASE \E d \in Calls : pc[d] = "paymentPut" /\ req[d].ch = e /\ snap[d].nonce = n
      <4>1. PICK d \in Calls : pc[d] = "paymentPut" /\ req[d].ch = e /\ snap[d].nonce = n
            BY <3>6
      <4>2. CASE d = c
            BY <3>0, <3>1, <3>3, <4>1, <4>2
      <4>3. CASE d # c
            BY <2>0, <4>1, <4>3 DEF Waits
      <4> QED BY <4>2, <4>3
    <3> QED BY <3>4, <3>5, <3>6
  <2>6. CASE pc[c] = "paymentPut" /\ ~PaymentPut(c)
        BY <1>5, <2>6 DEF CallStep, At, LockStep, LockDenied, UnlockStep, PaymentGet, PaymentChain,
           PaymentValidate, ServiceDone, ServiceFailed, ServicePanics, PanicUnlock, PaymentCommit, UnlockedGet,
           VerifyChain, ListClaims, RemoveClaimed, RemoveDone, BeginChain, ClaimLock, ClaimGet, ClaimPut, Die
  <2> QED BY <2>1, <2>2, <2>3, <2>4, <2>5, <2>6
<1>6. ASSUME \/ \E r \in Replicas : Crash(r)
             \/ \E ch \in Channels : OperatorUnlock(ch)
             \/ ChainStep
             \/ UNCHANGED vars
      PROVE  NoGap'
  <2>1. UNCHANGED <<pc, req, snap, store, pays>>
        BY <1>6, OutsideShape
  <2>2. ChainStep \/ UNCHANGED chain
        BY <1>6 DEF Crash, OperatorUnlock, vars, chainVars
  <2> QED BY <1>4, <2>1, <2>2
<1> QED BY <1>2, <1>3, <1>5, <1>6 DEF Next

\* A claim is for something.
LEMMA EmptyStep ==
  ASSUME NoGapInv, [Next]_vars
  PROVE  NoEmptyClaim'
<1>1. ASSUME NEW c \in Calls, PaymentPut(c) PROVE NoEmptyClaim'
  <2>1. /\ pc[c] = "paymentPut"
        /\ \A p \in pays' : p \in pays \/ p = PaymentOf(req[c].ch, snap[c])
        BY <1>1 DEF PaymentPut, At, Ch
  <2>2. snap[c].auth > 0
    <3>1. snap[c].auth # 0 /\ SignedFor(snap[c].nonce, snap[c].auth, snap[c].sig)
          BY <2>1 DEF NoGapInv, EscrowInv, CallLock, ClaimPcs, HasAmount, SnapshotGood
    <3> QED BY <3>1 DEF SignedFor
  <2> QED BY <2>1, <2>2 DEF NoGapInv, NoEmptyClaim, PaymentOf
<1>2. ASSUME pays' \subseteq pays PROVE NoEmptyClaim'
      BY <1>2 DEF NoGapInv, NoEmptyClaim
<1>3. ASSUME NEW c \in Calls, CallStep(c), ~PaymentPut(c) PROVE pays' \subseteq pays
  <2>1. CASE PaymentCommit(c) \/ ClaimPut(c) \/ RemoveClaimed(c)
        BY <2>1 DEF PaymentCommit, ClaimPut, RemoveClaimed
  <2> QED BY <1>3, <2>1, ReadOnlySteps
<1>4. ASSUME NEW c \in Calls, StartCall(c) PROVE pays' \subseteq pays
      BY <1>4, StartShape DEF NoGapInv
<1>5. ASSUME \/ \E r \in Replicas : Crash(r)
             \/ \E ch \in Channels : OperatorUnlock(ch)
             \/ ChainStep
             \/ UNCHANGED vars
      PROVE  pays' \subseteq pays
      BY <1>5 DEF Crash, OperatorUnlock, vars, ChainStep, OpenChannel, AddFunds, ExtendChannel, ClaimOnChain,
                  ClaimTimeout, NextBlock, daemonVars
<1> QED BY <1>1, <1>2, <1>3, <1>4, <1>5 DEF Next

\* The invariant behind the next two theorems.
THEOREM NoGapInvariant == ASSUME NoFailures, OneClaimAtATime PROVE Spec => []NoGapInv
<1>1. Init => NoGapInv
  <2> SUFFICES ASSUME Init PROVE NoGapInv
      OBVIOUS
  <2>1. NoGap
    <3>1. \A ch \in Channels : chain[ch].nonce = 0 /\ store[ch].nonce = -1
          BY ConstantTypes DEF Init, NotOpened
    <3> QED BY <3>1 DEF NoGap
  <2>2. Roles /\ NoEmptyClaim /\ \A c \in Calls : HasAmount(c)
        BY DEF Init, Roles, NoEmptyClaim, HasAmount, NoRequest
  <2> QED BY <2>1, <2>2, InitInv, AccountsInit DEF NoGapInv
<1>2. NoGapInv /\ [Next]_vars => NoGapInv'
      BY InvStep, AccountsStep, RolesStep, AmountStep, GapStep, EmptyStep DEF NoGapInv
<1> QED BY <1>1, <1>2, PTL DEF Spec

\* Without failures, and with one claim at a time, the provider can claim every
\* nonce from the contract's to the stored one: no started claim is missing.
THEOREM ClaimsHaveNoGap == ASSUME NoFailures, OneClaimAtATime PROVE Spec => []NoGap
<1>1. NoGapInv => NoGap
      BY DEF NoGapInv
<1> QED BY <1>1, NoGapInvariant, PTL

\* The unlocked check of beginClaimOnChannel is enough for one claim at a time:
\* no claim is started for nothing.
THEOREM ClaimsAreNotEmpty == ASSUME NoFailures, OneClaimAtATime PROVE Spec => []NoEmptyClaim
<1>1. NoGapInv => NoEmptyClaim
      BY DEF NoGapInv
<1> QED BY <1>1, NoGapInvariant, PTL

----------------------------------------------------------------------------
(* Without failures and before expiration: the books balance. *)

\* Where a call has money that is neither authorized nor pending.
BookedPcs == {"commit", "paymentPut"}

\* Calls elsewhere in the code have no money in their hands.
LEMMA NothingInHand ==
  ASSUME NEW ch, NEW S, S \cap Committing(ch) = {}, S \cap HandingOver(ch) = {}
  PROVE  InHand(ch, S) = 0
<1>1. Cardinality(S \cap Committing(ch)) = 0
      BY FS_EmptySet
<1>2. {PaymentOf(ch, snap[c]) : c \in S \cap HandingOver(ch)} = {}
      OBVIOUS
<1>3. Total({PaymentOf(ch, snap[c]) : c \in S \cap HandingOver(ch)}) = 0
      BY <1>2, TotalOfNone
<1>4. Price * 0 + 0 = 0
      BY PriceAssumption
<1> QED BY <1>1, <1>3, <1>4 DEF InHand

\* Nothing is lost while the calls with money go on.
LEMMA NothingCut ==
  ASSUME NEW ch \in Channels, lost \in [Channels -> Nat], CountLoss,
         \A d \in Committing(ch) \cup HandingOver(ch) : pc'[d] # "idle"
  PROVE  lost'[ch] = lost[ch]
<1> DEFINE S == {c \in Calls : CutOff(c)}
<1>1. S \cap Committing(ch) = {} /\ S \cap HandingOver(ch) = {}
      BY DEF CutOff
<1> HIDE DEF S
<1>2. InHand(ch, S) = 0
      BY <1>1, NothingInHand
<1>3. lost'[ch] = lost[ch] + InHand(ch, S)
      BY DEF CountLoss, S
<1> QED BY <1>2, <1>3

\* A step that leaves a channel's money and the calls on it alone, or where
\* they have none, keeps the books balanced.
LEMMA BalancedSame ==
  ASSUME EscrowInv, NEW ch \in Channels, Balanced(ch), Untouched(ch),
         lost \in [Channels -> Nat], CountLoss,
         \A d \in Calls : \/ Waits(d)
                          \/ /\ pc[d] \notin BookedPcs \/ req[d].ch # ch
                             /\ pc'[d] \notin BookedPcs \/ req'[d].ch # ch
  PROVE  Balanced(ch)'
<1>1. Committing(ch)' = Committing(ch) /\ HandingOver(ch)' = HandingOver(ch)
      BY DEF Committing, HandingOver, Waits, BookedPcs
<1>2. \A d \in HandingOver(ch) : snap'[d] = snap[d]
      BY DEF HandingOver, Waits, BookedPcs
<1>3. Owed(ch)' = Owed(ch)
      BY OwedSame DEF Untouched
<1>4. Revenue(ch)' = Revenue(ch)
      BY <1>3 DEF Untouched, Revenue, Authorized
<1>5. UNCHANGED <<store[ch], chain[ch], served[ch]>>
      BY DEF Untouched
<1>6. lost'[ch] = lost[ch]
  <2>1. \A d \in Committing(ch) \cup HandingOver(ch) : pc'[d] # "idle"
        BY DEF Committing, HandingOver, Waits, BookedPcs
  <2> QED BY <2>1, NothingCut
<1> QED BY <1>1, <1>2, <1>4, <1>5, <1>6 DEF Balanced

\* The same for a step that changes no money at all.
LEMMA BooksClosed ==
  ASSUME BalanceInv, CountLoss, UNCHANGED <<store, chain, income, served>>,
         pays' \subseteq pays, \A ch \in Channels : Pending(ch)' = Pending(ch),
         \A d \in Calls : Waits(d) \/ (pc[d] \notin BookedPcs /\ pc'[d] \notin BookedPcs)
  PROVE  \A ch \in Channels : Balanced(ch)'
<1>1. \A ch \in Channels : Untouched(ch)
      BY DEF Untouched
<1> QED BY <1>1, BalancedSame DEF BalanceInv

\* The step of a call with the lock concerns the books of its channel only.
LEMMA OtherBooks ==
  ASSUME BalanceInv, CountLoss, NEW c \in Calls, NEW ch \in Channels, req[c].ch = ch, req' = req,
         \A d \in Calls \ {c} : Waits(d),
         \A e \in Channels \ {ch} : Untouched(e), Balanced(ch)'
  PROVE  \A e \in Channels : Balanced(e)'
<1>1. ASSUME NEW e \in Channels \ {ch} PROVE Balanced(e)'
      BY BalancedSame DEF BalanceInv
<1> QED BY <1>1

\* While a call has the lock nobody else has money of its channel.
LEMMA OnlyMyBooks ==
  ASSUME EscrowInv, NEW c \in Calls, pc[c] \in LockedPcs, NEW ch \in Channels, req[c].ch = ch
  PROVE  /\ Committing(ch) = IF pc[c] = "commit" THEN {c} ELSE {}
         /\ HandingOver(ch) = IF pc[c] = "paymentPut" THEN {c} ELSE {}
<1>1. \A d \in Calls \ {c} : pc[d] \in LockedPcs => req[d].ch # ch
      BY Alone
<1>2. "commit" \in LockedPcs /\ "paymentPut" \in LockedPcs
      BY DEF LockedPcs
<1> QED BY <1>1, <1>2 DEF Committing, HandingOver

\* A call with money is the only one of its channel.
LEMMA PriceInHand ==
  ASSUME EscrowInv, NEW ch \in Channels, NEW c \in Committing(ch), NEW S, c \in S
  PROVE  InHand(ch, S) = Price
<1>1. c \in Calls /\ pc[c] = "commit" /\ req[c].ch = ch /\ "commit" \in LockedPcs
      BY DEF Committing, LockedPcs
<1>2. Committing(ch) = {c} /\ HandingOver(ch) = {}
      BY <1>1, OnlyMyBooks
<1>3. S \cap Committing(ch) = {c} /\ {PaymentOf(ch, snap[d]) : d \in S \cap HandingOver(ch)} = {}
      BY <1>2
<1>4. Cardinality(S \cap Committing(ch)) = 1
      BY <1>3, FS_Singleton
<1>5. Total({PaymentOf(ch, snap[d]) : d \in S \cap HandingOver(ch)}) = 0
      BY <1>3, TotalOfNone
<1>6. Price * 1 + 0 = Price
      BY PriceAssumption
<1> QED BY <1>4, <1>5, <1>6 DEF InHand

\* So is a claim between its two writes.
LEMMA AmountInHand ==
  ASSUME EscrowInv, NEW ch \in Channels, NEW c \in HandingOver(ch), NEW S, c \in S
  PROVE  InHand(ch, S) = snap[c].auth /\ snap[c].auth \in Nat
<1>1. c \in Calls /\ pc[c] = "paymentPut" /\ req[c].ch = ch /\ "paymentPut" \in LockedPcs
      BY DEF HandingOver, LockedPcs
<1>2. Committing(ch) = {} /\ HandingOver(ch) = {c}
      BY <1>1, OnlyMyBooks
<1> DEFINE p == PaymentOf(ch, snap[c])
           Handed == {PaymentOf(ch, snap[d]) : d \in S \cap HandingOver(ch)}
<1>3. S \cap Committing(ch) = {} /\ Handed = {p}
      BY <1>2
<1>4. Cardinality(S \cap Committing(ch)) = 0
      BY <1>3, FS_EmptySet
<1>5. p.amount = snap[c].auth /\ p.amount \in Nat
  <2>1. SignedFor(snap[c].nonce, snap[c].auth, snap[c].sig)
        BY <1>1 DEF EscrowInv, SnapshotGood
  <2>2. snap[c].auth \in Int
        BY <1>1 DEF EscrowInv, TypeOK, ChannelData
  <2> QED BY <2>1, <2>2 DEF SignedFor, PaymentOf
<1>i. InHand(ch, S) = Price * Cardinality(S \cap Committing(ch)) + Total(Handed)
      BY DEF InHand
<1> HIDE DEF Handed, p
<1>6. Tokens({}) = {} /\ IsFiniteSet({})
      BY FS_EmptySet DEF Tokens
<1>7. Total({} \cup {p}) = Total({}) + p.amount
      BY <1>5, <1>6, TotalOfMore
<1>8. {} \cup {p} = {p}
      OBVIOUS
<1>9. Total(Handed) = 0 + p.amount
      BY <1>3, <1>7, <1>8, TotalOfNone
<1>10. Price * 0 = 0
      BY PriceAssumption
<1> QED BY <1>4, <1>5, <1>9, <1>10, <1>i

\* What is lost is an amount.
LEMMA LossType == ASSUME BalanceInv, CountLoss PROVE lost' \in [Channels -> Nat]
<1> DEFINE S == {c \in Calls : CutOff(c)}
<1>1. ASSUME NEW ch \in Channels PROVE InHand(ch, S) \in Nat
  <2>1. CASE S \cap Committing(ch) = {} /\ S \cap HandingOver(ch) = {}
    <3> HIDE DEF S
    <3> QED BY <2>1, NothingInHand
  <2>2. ASSUME NEW c \in S \cap Committing(ch) PROVE InHand(ch, S) \in Nat
    <3> HIDE DEF S
    <3> QED BY <2>2, PriceInHand, PriceAssumption DEF BalanceInv
  <2>3. ASSUME NEW c \in S \cap HandingOver(ch) PROVE InHand(ch, S) \in Nat
    <3> HIDE DEF S
    <3> QED BY <2>3, AmountInHand DEF BalanceInv
  <2> QED BY <2>1, <2>2, <2>3
<1>2. lost' = [ch \in Channels |-> lost[ch] + InHand(ch, S)] /\ lost \in [Channels -> Nat]
      BY DEF CountLoss, BalanceInv
<1> HIDE DEF S
<1> QED BY <1>1, <1>2

\* After the step of a call with the lock, too, it is the only one with money.
LEMMA OnlyMyBooksThen ==
  ASSUME EscrowInv, NEW c \in Calls, pc[c] \in LockedPcs, NEW ch \in Channels, req[c].ch = ch,
         req' = req, \A d \in Calls \ {c} : Waits(d)
  PROVE  /\ Committing(ch)' = IF pc'[c] = "commit" THEN {c} ELSE {}
         /\ HandingOver(ch)' = IF pc'[c] = "paymentPut" THEN {c} ELSE {}
<1>1. \A d \in Calls \ {c} : pc[d] \in LockedPcs => req[d].ch # ch
      BY Alone
<1>2. "commit" \in LockedPcs /\ "paymentPut" \in LockedPcs
      BY DEF LockedPcs
<1> QED BY <1>1, <1>2 DEF Committing, HandingOver, Waits

\* An answer is booked as to be committed.
LEMMA AnswerBooked ==
  ASSUME BalanceInv, CountLoss, NEW c \in Calls, ServiceDone(c)
  PROVE  \A ch \in Channels : Balanced(ch)'
<1> USE DEF callVars, chainVars, Goto, BalanceInv
<1>t. /\ pc \in [Calls -> Pcs] /\ req \in [Calls -> Requests] /\ snap \in [Calls -> ChannelData]
      /\ served \in [Channels -> Nat]
      BY DEF EscrowInv, TypeOK
<1>0. PICK ch \in Channels : req[c].ch = ch
      BY Alone DEF ServiceDone, At, LockedPcs
<1>1. /\ UNCHANGED <<store, pays, chain, income>> /\ req' = req /\ snap' = snap
      /\ pc[c] = "serve" /\ pc'[c] = "commit" /\ served' = [served EXCEPT ![ch] = @ + 1]
      /\ \A d \in Calls \ {c} : Waits(d)
      BY <1>t, <1>0 DEF ServiceDone, Waits, At, Ch
<1>2. \A e \in Channels : Pending(e)' = Pending(e) /\ Owed(e)' = Owed(e)
      BY <1>1, OwedSame DEF Pending
<1>3. Revenue(ch)' = Revenue(ch) /\ served'[ch] = served[ch] + 1
      BY <1>1, <1>2, <1>t DEF Revenue, Authorized
<1>4. Committing(ch) = {} /\ HandingOver(ch) = {}
      BY <1>0, <1>1, OnlyMyBooks DEF LockedPcs
<1>5. Committing(ch)' = {c} /\ HandingOver(ch)' = {}
      BY <1>0, <1>1, OnlyMyBooksThen DEF LockedPcs
<1>l. lost'[ch] = lost[ch] /\ lost[ch] \in Nat
      BY <1>4, NothingCut
<1>6. Revenue(ch)' + Price + lost'[ch] = (Price * served[ch])'
  <2>1. Revenue(ch) + lost[ch] = Price * served[ch]
        BY <1>4 DEF Balanced
  <2>2. Price * (served[ch] + 1) = Price * served[ch] + Price /\ Revenue(ch) \in Int /\ Price \in Nat
        BY MoneyTypes, PriceAssumption DEF AccountsInv
  <2> QED BY <1>3, <1>l, <2>1, <2>2
<1>7. Balanced(ch)'
      BY <1>1, <1>5, <1>6 DEF Balanced
<1>8. \A e \in Channels \ {ch} : Untouched(e)
      BY <1>1, <1>2, <1>t DEF Untouched
<1> QED BY <1>0, <1>1, <1>7, <1>8, OtherBooks

\* Commit authorizes the price that was booked.
LEMMA CommitBooked ==
  ASSUME BalanceInv, CountLoss, NoFailures, NEW c \in Calls, PaymentCommit(c)
  PROVE  \A ch \in Channels : Balanced(ch)'
<1> USE DEF callVars, chainVars, Goto, BalanceInv
<1>t. /\ pc \in [Calls -> Pcs] /\ req \in [Calls -> Requests] /\ snap \in [Calls -> ChannelData]
      /\ store \in [Channels -> ChannelData]
      BY DEF EscrowInv, TypeOK
<1>0. PICK ch \in Channels : req[c].ch = ch
      BY Alone DEF PaymentCommit, At, LockedPcs
<1>1. /\ UNCHANGED <<pays, chain, income, served>> /\ pc[c] = "commit" /\ pc'[c] = "unlock"
      /\ store' = [store EXCEPT ![ch] = Committed(snap[c], req[c])] /\ req' = req
      /\ \A d \in Calls \ {c} : Waits(d)
      BY <1>t, <1>0, NothingFails DEF PaymentCommit, Waits, At, Ch, Write, Outcome
<1>m. /\ Owed(ch) \in Nat /\ Authorized(ch) \in Nat /\ income[ch] \in Int /\ Price \in Nat
      /\ store[ch] \in ChannelData /\ chain[ch] \in MpeChannel /\ snap[c] \in ChannelData
      BY <1>t, MoneyTypes, PriceAssumption DEF AccountsInv
<1>2. /\ store'[ch].nonce = snap[c].nonce /\ store'[ch].auth = snap[c].auth + Price
      /\ snap[c].nonce \in Nat
      BY <1>1, <1>t DEF Committed, ChannelData, EscrowInv, Accepted, Requests
<1>3. store'[ch] # NoData
      BY <1>2, ConstantTypes
<1>4. /\ snap[c].nonce > store[ch].nonce => snap[c].auth = 0 /\ snap[c].nonce <= chain[ch].nonce
      /\ \/ snap[c].nonce > store[ch].nonce
         \/ snap[c].nonce = store[ch].nonce /\ snap[c].auth = store[ch].auth
      BY <1>0, <1>1 DEF AccountsInv, CallSound, ReadingPcs, EscrowInv, Isolation
<1>5. /\ store[ch] # NoData => chain[ch].nonce <= store[ch].nonce
      /\ store[ch] = NoData => chain[ch].nonce = 0 /\ store[ch].nonce = -1
      BY ConstantTypes DEF Balanced
<1>6. chain[ch].nonce <= snap[c].nonce /\ Authorized(ch)' = Authorized(ch) + Price
  <2>1. CASE store[ch] # NoData
    <3>1. snap[c].nonce = store[ch].nonce /\ snap[c].auth = store[ch].auth
          BY <1>4, <1>5, <1>m, <2>1 DEF ChannelData, MpeChannel
    <3> QED BY <1>1, <1>2, <1>5, <2>1, <3>1 DEF Authorized
  <2>2. CASE store[ch] = NoData
        BY <1>1, <1>2, <1>4, <1>5, <1>m, <2>2 DEF Authorized, ChannelData, MpeChannel
  <2> QED BY <2>1, <2>2
<1>7. \A e \in Channels : Pending(e)' = Pending(e) /\ Owed(e)' = Owed(e)
      BY <1>1, OwedSame DEF Pending
<1>8. Revenue(ch)' + lost'[ch] = (Price * served[ch])'
  <2>1. Committing(ch) = {c} /\ HandingOver(ch) = {}
        BY <1>0, <1>1, OnlyMyBooks DEF LockedPcs
  <2>l. lost'[ch] = lost[ch] /\ lost[ch] \in Nat
        BY <1>1, <2>1, NothingCut
  <2>2. Revenue(ch) + Price + lost[ch] = Price * served[ch]
        BY <2>1 DEF Balanced
  <2>3. Revenue(ch) = income[ch] + Owed(ch) + Authorized(ch) /\ Revenue(ch)' = income[ch] + Owed(ch) + Authorized(ch)'
        BY <1>1, <1>7 DEF Revenue
  <2> QED BY <1>1, <1>6, <1>m, <2>2, <2>3, <2>l
<1>9. Committing(ch)' = {} /\ HandingOver(ch)' = {}
      BY <1>0, <1>1, OnlyMyBooksThen DEF LockedPcs
<1>10. Balanced(ch)'
      BY <1>1, <1>2, <1>3, <1>6, <1>8, <1>9 DEF Balanced
<1>11. \A e \in Channels \ {ch} : Untouched(e)
      BY <1>1, <1>7, <1>t DEF Untouched
<1> QED BY <1>0, <1>1, <1>10, <1>11, OtherBooks

\* The first write of a claim books the authorized amount as handed over.
LEMMA ClaimPutBooked ==
  ASSUME BalanceInv, CountLoss, NoFailures, NEW c \in Calls, ClaimPut(c)
  PROVE  \A ch \in Channels : Balanced(ch)'
<1> USE DEF callVars, chainVars, Goto, BalanceInv
<1>t. /\ pc \in [Calls -> Pcs] /\ req \in [Calls -> Requests] /\ snap \in [Calls -> ChannelData]
      /\ store \in [Channels -> ChannelData]
      BY DEF EscrowInv, TypeOK
<1>0. PICK ch \in Channels : req[c].ch = ch
      BY Alone DEF ClaimPut, At, LockedPcs
<1>1. /\ UNCHANGED <<pays, chain, income, served>> /\ pc[c] = "claimPut" /\ pc'[c] = "paymentPut"
      /\ store' = [store EXCEPT ![ch] = IncrementChannelNonce(snap[c])] /\ req' = req /\ snap' = snap
      /\ \A d \in Calls \ {c} : Waits(d)
      BY <1>t, <1>0, NothingFails DEF ClaimPut, Waits, At, Ch, Write, Outcome
<1>m. /\ Owed(ch) \in Nat /\ income[ch] \in Int /\ store[ch].auth \in Nat
      /\ store[ch].nonce \in Int /\ chain[ch].nonce \in Nat
      BY MoneyTypes DEF AccountsInv, ChannelData, MpeChannel
<1>2. snap[c] = store[ch] /\ store[ch] # NoData
      BY <1>0, <1>1 DEF EscrowInv, Isolation, SnapshotGood
<1>3. chain[ch].nonce <= store[ch].nonce
      BY <1>2 DEF Balanced
<1>4. store'[ch].nonce = store[ch].nonce + 1 /\ store'[ch].auth = 0
      BY <1>1, <1>2, <1>t DEF IncrementChannelNonce
<1>5. store'[ch] # NoData /\ chain[ch].nonce <= store'[ch].nonce
      BY <1>3, <1>4, <1>m, ConstantTypes
<1>6. \A e \in Channels : Pending(e)' = Pending(e) /\ Owed(e)' = Owed(e)
      BY <1>1, OwedSame DEF Pending
<1>7. Committing(ch) = {} /\ HandingOver(ch) = {}
      BY <1>0, <1>1, OnlyMyBooks DEF LockedPcs
<1>8. Committing(ch)' = {} /\ HandingOver(ch)' = {c}
      BY <1>0, <1>1, OnlyMyBooksThen DEF LockedPcs
<1>l. lost'[ch] = lost[ch] /\ lost[ch] \in Nat
      BY <1>7, NothingCut
<1>9. Revenue(ch)' + snap[c].auth + lost'[ch] = Price * served[ch]
  <2>1. Revenue(ch) + lost[ch] = Price * served[ch]
        BY <1>7 DEF Balanced
  <2>2. Authorized(ch) = store[ch].auth /\ Authorized(ch)' = 0
        BY <1>3, <1>4 DEF Authorized
  <2>3. Revenue(ch) = income[ch] + Owed(ch) + store[ch].auth /\ Revenue(ch)' = income[ch] + Owed(ch) + 0
        BY <1>1, <1>6, <2>2 DEF Revenue
  <2> QED BY <1>2, <1>l, <1>m, <2>1, <2>3
<1>10. Balanced(ch)'
      BY <1>1, <1>2, <1>3, <1>5, <1>8, <1>9 DEF Balanced
<1>11. \A e \in Channels \ {ch} : Untouched(e)
      BY <1>1, <1>6, <1>t DEF Untouched
<1> QED BY <1>0, <1>1, <1>10, <1>11, OtherBooks

\* The second write books it as owed.
LEMMA PaymentPutBooked ==
  ASSUME BalanceInv, CountLoss, NoFailures, NEW c \in Calls, PaymentPut(c)
  PROVE  \A ch \in Channels : Balanced(ch)'
<1> USE DEF callVars, chainVars, Goto, BalanceInv
<1>t. /\ pc \in [Calls -> Pcs] /\ req \in [Calls -> Requests] /\ snap \in [Calls -> ChannelData]
      BY DEF EscrowInv, TypeOK
<1>0. PICK ch \in Channels : req[c].ch = ch
      BY Alone DEF PaymentPut, At, LockedPcs
<1> DEFINE p == PaymentOf(ch, snap[c])
<1>1. /\ UNCHANGED <<store, chain, income, served>> /\ req' = req
      /\ pc[c] = "paymentPut" /\ pc'[c] = "unlock"
      /\ pays' = {q \in pays : ~SameID(p, q)} \cup {p}
      /\ \A d \in Calls \ {c} : Waits(d)
      BY <1>t, <1>0, NothingFails DEF PaymentPut, Waits, At, Ch, Write, Outcome
<1>2. /\ p.ch = ch /\ p.nonce = snap[c].nonce /\ p.amount = snap[c].auth /\ p.amount \in Nat
      /\ p \notin pays /\ \A q \in pays : ~SameID(p, q)
      BY <1>0, <1>1, NewPayment
<1> HIDE DEF p
<1>3. pays' = pays \cup {p}
      BY <1>1, <1>2
<1>h. Committing(ch) = {} /\ HandingOver(ch) = {c}
      BY <1>0, <1>1, OnlyMyBooks DEF LockedPcs
<1>l. lost'[ch] = lost[ch] /\ lost[ch] \in Nat
      BY <1>1, <1>h, NothingCut
<1>4. /\ chain[ch].nonce <= snap[c].nonce
      /\ Revenue(ch) + snap[c].auth + lost[ch] = Price * served[ch]
      BY <1>h DEF Balanced
<1>m. /\ Owed(ch) \in Nat /\ income[ch] \in Int /\ Authorized(ch) \in Nat
      /\ snap[c].nonce \in Int /\ chain[ch].nonce \in Int
      BY <1>t, MoneyTypes DEF AccountsInv, ChannelData, MpeChannel
<1>5. Owed(ch)' = Owed(ch) + snap[c].auth
  <2>1. p.nonce >= chain[ch].nonce
        BY <1>2, <1>4, <1>m
  <2> QED BY <1>1, <1>2, <1>3, <2>1, PaymentIsOwed
<1>6. Revenue(ch)' + lost'[ch] = Price * served[ch]
  <2>1. /\ Revenue(ch) = income[ch] + Owed(ch) + Authorized(ch)
        /\ Revenue(ch)' = income[ch] + (Owed(ch) + snap[c].auth) + Authorized(ch)
        BY <1>1, <1>5 DEF Revenue, Authorized
  <2> QED BY <1>2, <1>4, <1>l, <1>m, <2>1
<1>7. Committing(ch)' = {} /\ HandingOver(ch)' = {}
      BY <1>0, <1>1, OnlyMyBooksThen DEF LockedPcs
<1>8. Balanced(ch)'
      BY <1>1, <1>6, <1>7 DEF Balanced
<1>9. ASSUME NEW e \in Channels \ {ch} PROVE Untouched(e)
  <2>1. Pending(e)' = Pending(e)
        BY <1>1, <1>2, <1>3 DEF Pending
  <2> QED BY <1>1, <1>2, <1>3, <2>1 DEF Untouched
<1> QED BY <1>0, <1>1, <1>8, <1>9, OtherBooks

\* Steps of a call that moves no money keep the books.
LEMMA ReadOnlyBooked ==
  ASSUME BalanceInv, CountLoss, NoFailures, NEW c \in Calls, CallStep(c), ~Die(c),
         ~ServiceDone(c), ~PaymentCommit(c), ~ClaimPut(c), ~PaymentPut(c)
  PROVE  \A ch \in Channels : Balanced(ch)'
<1> USE DEF Goto, EndCall
<1>t. pc \in [Calls -> Pcs]
      BY DEF BalanceInv, EscrowInv, TypeOK
<1>1. \A d \in Calls \ {c} : Waits(d)
      BY CallStepShape DEF BalanceInv
<1>2. pc[c] \notin BookedPcs /\ pc'[c] \notin BookedPcs
  <2> USE DEF BookedPcs, At
  <2>1. CASE LockStep(c) \/ LockDenied(c) \/ UnlockStep(c) \/ ClaimLock(c)
        BY <1>t, <2>1 DEF LockStep, LockDenied, UnlockStep, ClaimLock, callVars
  <2>2. CASE PaymentGet(c) \/ PaymentChain(c) \/ PaymentValidate(c)
        BY <1>t, <2>2 DEF PaymentGet, PaymentChain, PaymentValidate
  <2>3. CASE ServiceFailed(c) \/ ServicePanics(c) \/ PanicUnlock(c) \/ ClaimGet(c)
        BY <1>t, <2>3 DEF ServiceFailed, ServicePanics, PanicUnlock, ClaimGet
  <2>4. CASE UnlockedGet(c) \/ VerifyChain(c) \/ ListClaims(c) \/ RemoveDone(c) \/ BeginChain(c)
        BY <1>t, <2>4 DEF UnlockedGet, VerifyChain, ListClaims, RemoveDone, BeginChain
  <2>5. CASE RemoveClaimed(c)
        BY <1>t, <2>5 DEF RemoveClaimed
  <2> QED BY <2>1, <2>2, <2>3, <2>4, <2>5 DEF CallStep
<1>3. CASE RemoveClaimed(c)
  <2>1. UNCHANGED <<store, chain, income, served>> /\ pays' \subseteq pays
        BY <1>3 DEF RemoveClaimed, chainVars
  <2>2. \A ch \in Channels : Pending(ch)' = Pending(ch)
        BY <1>3, RemovePending DEF BalanceInv
  <2> QED BY <1>1, <1>2, <2>1, <2>2, BooksClosed
<1>4. CASE ~RemoveClaimed(c)
  <2>1. UNCHANGED <<store, pays, chain, income, served>>
        BY <1>4, ReadOnlySteps
  <2>2. \A ch \in Channels : Pending(ch)' = Pending(ch)
        BY <2>1 DEF Pending
  <2> QED BY <1>1, <1>2, <2>1, <2>2, BooksClosed
<1> QED BY <1>3, <1>4

\* A claim that panics has no money itself; what the other calls of its
\* process had in their hands is lost.
LEMMA DieBooked ==
  ASSUME BalanceInv, CountLoss, NEW c \in Calls, Die(c)
  PROVE  \A ch \in Channels : Balanced(ch)'
<1> DEFINE S == {d \in Calls : CutOff(d)}
<1>1. /\ pc[c] = "dying"
      /\ \A d \in Calls : Waits(d) \/ pc'[d] = "idle"
      /\ UNCHANGED <<store, pays, chain, block, income, served>>
      BY DieShape DEF BalanceInv
<1>2. SUFFICES ASSUME NEW ch \in Channels PROVE Balanced(ch)'
      OBVIOUS
<1>b. EscrowInv /\ Balanced(ch) /\ lost \in [Channels -> Nat]
      BY DEF BalanceInv
<1>m. Revenue(ch) \in Int /\ Price \in Nat /\ lost[ch] \in Nat /\ Price * served[ch] \in Int
      BY <1>b, MoneyTypes, PriceAssumption DEF BalanceInv, AccountsInv
<1>u. Untouched(ch)
      BY <1>1 DEF Untouched, Pending
<1>3. CASE \A d \in Committing(ch) \cup HandingOver(ch) : pc'[d] # "idle"
  <2>1. ASSUME NEW d \in Calls
        PROVE  \/ Waits(d)
               \/ /\ pc[d] \notin BookedPcs \/ req[d].ch # ch
                  /\ pc'[d] \notin BookedPcs \/ req'[d].ch # ch
        BY <1>1, <1>3 DEF Committing, HandingOver, BookedPcs
  <2> QED BY <1>b, <1>u, <2>1, BalancedSame
<1>4. ASSUME NEW d \in Committing(ch) \cup HandingOver(ch), pc'[d] = "idle" PROVE Balanced(ch)'
  <2>1. d \in S /\ d \in Calls /\ req[d].ch = ch /\ pc[d] \in LockedPcs
        BY <1>4 DEF CutOff, Committing, HandingOver, LockedPcs
  <2>2. lost'[ch] = lost[ch] + InHand(ch, S)
        BY DEF CountLoss
  <2> HIDE DEF S
  <2>3. Revenue(ch) + lost'[ch] = Price * served[ch]
    <3>1. CASE d \in Committing(ch)
      <4>1. InHand(ch, S) = Price
            BY <1>b, <2>1, <3>1, PriceInHand
      <4>2. Revenue(ch) + Price + lost[ch] = Price * served[ch]
            BY <1>b, <3>1 DEF Balanced
      <4> QED BY <1>m, <2>2, <4>1, <4>2
    <3>2. CASE d \in HandingOver(ch)
      <4>1. InHand(ch, S) = snap[d].auth /\ snap[d].auth \in Nat
            BY <1>b, <2>1, <3>2, AmountInHand
      <4>2. Revenue(ch) + snap[d].auth + lost[ch] = Price * served[ch]
            BY <1>b, <3>2 DEF Balanced
      <4> QED BY <1>m, <2>2, <4>1, <4>2
    <3> QED BY <1>4, <3>1, <3>2
  <2>4. Committing(ch)' = {} /\ HandingOver(ch)' = {}
    <3>1. \A e \in Calls \ {d} : pc[e] \in LockedPcs => req[e].ch # ch
          BY <1>b, <2>1, Alone
    <3>2. "commit" \in LockedPcs /\ "paymentPut" \in LockedPcs
          BY DEF LockedPcs
    <3> QED BY <1>1, <1>4, <2>1, <3>1, <3>2 DEF Committing, HandingOver, Waits
  <2>5. Owed(ch)' = Owed(ch)
        BY <1>u, OwedSame DEF Untouched
  <2>6. Revenue(ch)' = Revenue(ch)
        BY <1>1, <2>5 DEF Revenue, Authorized
  <2> QED BY <1>1, <1>b, <2>3, <2>4, <2>6 DEF Balanced
<1> QED BY <1>3, <1>4

\* The contract keeps the books of a channel when it does not expire it and
\* stays behind the storage and behind a claim between its two writes.
LEMMA ContractBooked ==
  ASSUME BalanceInv, CountLoss, UNCHANGED <<pc, req, snap, store, served>>, NEW ch \in Channels,
         Revenue(ch)' = Revenue(ch), chain'[ch].open => chain'[ch].exp > MaxBlock,
         \/ chain'[ch].nonce = chain[ch].nonce
         \/ /\ store[ch] # NoData /\ chain'[ch].nonce <= store[ch].nonce
            /\ \A c \in HandingOver(ch) : chain'[ch].nonce <= snap[c].nonce
  PROVE  Balanced(ch)'
<1>1. Committing(ch)' = Committing(ch) /\ HandingOver(ch)' = HandingOver(ch)
      BY DEF Committing, HandingOver
<1>2. Balanced(ch)
      BY DEF BalanceInv
<1>3. lost'[ch] = lost[ch]
  <2>1. \A d \in Committing(ch) \cup HandingOver(ch) : pc'[d] # "idle"
        BY DEF Committing, HandingOver
  <2> QED BY <2>1, NothingCut DEF BalanceInv
<1> QED BY <1>1, <1>2, <1>3 DEF Balanced

\* Time, deposits and extensions keep the books.
LEMMA DepositBooked ==
  ASSUME BalanceInv, CountLoss, NoExpiry,
         \/ NextBlock
         \/ \E ch \in Channels :
              \/ \E v \in Deposits, e \in Expirations, y \in OpenPayees : OpenChannel(ch, v, e, y)
              \/ \E v \in Deposits : AddFunds(ch, v)
              \/ \E e \in Expirations : ExtendChannel(ch, e)
  PROVE  \A ch \in Channels : Balanced(ch)'
<1>t. chain \in [Channels -> MpeChannel]
      BY DEF BalanceInv, EscrowInv, TypeOK
<1>1. UNCHANGED <<pc, req, snap, store, pays, served, income>>
      BY DEF NextBlock, OpenChannel, AddFunds, ExtendChannel, callVars, daemonVars
<1>2. ASSUME NEW ch \in Channels, chain'[ch].nonce = chain[ch].nonce, chain'[ch].open => chain'[ch].exp > MaxBlock
      PROVE  Balanced(ch)'
  <2>1. Pending(ch)' = Pending(ch)
        BY <1>1, <1>2 DEF Pending
  <2>2. Owed(ch)' = Owed(ch)
        BY <2>1, OwedSame
  <2>3. Revenue(ch)' = Revenue(ch)
        BY <1>1, <1>2, <2>2 DEF Revenue, Authorized
  <2> QED BY <1>1, <1>2, <2>3, ContractBooked
<1>3. ASSUME NEW ch \in Channels
      PROVE  chain'[ch].nonce = chain[ch].nonce /\ (chain'[ch].open => chain'[ch].exp > MaxBlock)
  <2>0. /\ chain[ch].open => chain[ch].exp > MaxBlock
        /\ ~chain[ch].open => chain[ch].nonce = 0
        BY DEF BalanceInv, Balanced, AccountsInv, Unopened, NotOpened
  <2>1. CASE chain'[ch] = chain[ch]
        BY <2>0, <2>1
  <2>2. CASE NextBlock
        BY <2>0, <2>2 DEF NextBlock
  <2>3. ASSUME NEW a \in Channels, NEW v \in Deposits, NEW e \in Expirations, NEW y \in OpenPayees,
               OpenChannel(a, v, e, y), chain'[ch] # chain[ch]
        PROVE  chain'[ch].nonce = chain[ch].nonce /\ chain'[ch].exp > MaxBlock
    <3>1. a = ch /\ ~chain[ch].open /\ chain'[ch].nonce = 0 /\ chain'[ch].exp = e
          BY <1>t, <2>3 DEF OpenChannel
    <3> QED BY <2>0, <3>1 DEF NoExpiry
  <2>4. ASSUME NEW a \in Channels, NEW v \in Deposits, AddFunds(a, v), chain'[ch] # chain[ch]
        PROVE  chain'[ch].nonce = chain[ch].nonce /\ chain'[ch].exp > MaxBlock
    <3>1. /\ a = ch /\ chain[ch].open /\ chain'[ch].nonce = chain[ch].nonce /\ chain'[ch].exp = chain[ch].exp
          BY <1>t, <2>4 DEF AddFunds, MpeChannel
    <3> QED BY <2>0, <3>1
  <2>5. ASSUME NEW a \in Channels, NEW e \in Expirations, ExtendChannel(a, e), chain'[ch] # chain[ch]
        PROVE  chain'[ch].nonce = chain[ch].nonce /\ chain'[ch].exp > MaxBlock
    <3>1. /\ a = ch /\ chain'[ch].nonce = chain[ch].nonce /\ chain'[ch].exp = e
          BY <1>t, <2>5 DEF ExtendChannel, MpeChannel
    <3> QED BY <3>1 DEF NoExpiry
  <2> QED BY <2>1, <2>2, <2>3, <2>4, <2>5
<1> QED BY <1>2, <1>3

\* A claim on the contract turns what is owed into income; the sender cannot
\* take anything back before expiration.
LEMMA ClaimOnChainBooked ==
  ASSUME BalanceInv, CountLoss,
         \/ \E p \in pays : ClaimOnChain(p)
         \/ \E ch \in Channels : ClaimTimeout(ch)
  PROVE  \A ch \in Channels : Balanced(ch)'
<1>1. ASSUME NEW a \in Channels PROVE ~ClaimTimeout(a)
  <2>1. block \in 0 .. MaxBlock /\ MaxBlock \in Nat /\ chain[a].exp \in Int
        BY ChainAssumption DEF BalanceInv, EscrowInv, TypeOK, MpeChannel
  <2>2. chain[a].open => chain[a].exp > MaxBlock
        BY DEF BalanceInv, Balanced
  <2>3. ~(chain[a].open /\ block >= chain[a].exp)
        BY <2>1, <2>2
  <2> QED BY <2>3 DEF ClaimTimeout
<1>2. ASSUME NEW p \in pays, ClaimOnChain(p) PROVE \A ch \in Channels : Balanced(ch)'
  <2>0. PICK a \in Channels : p.ch = a
        BY DEF BalanceInv, EscrowInv, TypeOK, Payments
  <2>1. UNCHANGED <<pc, req, snap, store, pays, served>> /\ p.nonce = chain[a].nonce
        BY <1>2, <2>0 DEF ClaimOnChain, daemonVars, callVars
  <2>2. /\ chain'[a].nonce = chain[a].nonce + 1 /\ chain'[a].open = chain[a].open
        /\ chain'[a].exp = chain[a].exp
        /\ chain[a].nonce < store[a].nonce /\ Revenue(a)' = Revenue(a)
        /\ \A ch \in Channels \ {a} : chain'[ch] = chain[ch] /\ income'[ch] = income[ch]
        BY <1>2, <2>0, ClaimIsIncome DEF BalanceInv
  <2>m. store[a].nonce \in Int /\ chain[a].nonce \in Nat
        BY MoneyTypes DEF BalanceInv, AccountsInv, ChannelData, MpeChannel
  <2>3. store[a] # NoData /\ chain'[a].nonce <= store[a].nonce
        BY <2>2, <2>m, ConstantTypes
  <2>4. ASSUME NEW c \in HandingOver(a) PROVE chain'[a].nonce <= snap[c].nonce
    <3>1. c \in Calls /\ pc[c] = "paymentPut" /\ req[c].ch = a
          BY DEF HandingOver
    <3>2. p.nonce < snap[c].nonce /\ snap[c].nonce \in Int
          BY <1>2, <2>0, <3>1 DEF BalanceInv, AccountsInv, CallSound, EscrowInv, TypeOK, ChannelData
    <3> QED BY <2>1, <2>2, <2>m, <3>2
  <2>5. chain'[a].open => chain'[a].exp > MaxBlock
        BY <2>2 DEF BalanceInv, Balanced
  <2>6. Balanced(a)'
        BY <2>1, <2>2, <2>3, <2>4, <2>5, ContractBooked
  <2>7. ASSUME NEW ch \in Channels \ {a} PROVE Balanced(ch)'
    <3>1. Untouched(ch)
          BY <2>1, <2>2 DEF Untouched, Pending
    <3>2. \A d \in Calls : Waits(d)
          BY <2>1 DEF Waits
    <3> QED BY <3>1, <3>2, BalancedSame DEF BalanceInv
  <2> QED BY <2>6, <2>7
<1> QED BY <1>1, <1>2

\* Every step keeps the books balanced.
LEMMA BooksStep ==
  ASSUME NoFailures, NoExpiry, BalanceInv, LossNext
  PROVE  \A ch \in Channels : Balanced(ch)'
<1> USE DEF LossNext
<1>1. ASSUME NEW c \in Calls, CallStep(c) PROVE \A ch \in Channels : Balanced(ch)'
      BY <1>1, ReadOnlyBooked, DieBooked, AnswerBooked, CommitBooked, ClaimPutBooked, PaymentPutBooked
<1>2. ASSUME NEW c \in Calls, StartCall(c) PROVE \A ch \in Channels : Balanced(ch)'
  <2>1. /\ \A d \in Calls \ {c} : Waits(d)
        /\ pc[c] \notin BookedPcs /\ pc'[c] \notin BookedPcs
        /\ UNCHANGED <<store, pays, chain, block, income, served>>
        BY <1>2, StartShape DEF BookedPcs, BalanceInv
  <2>2. \A ch \in Channels : Pending(ch)' = Pending(ch)
        BY <2>1 DEF Pending
  <2> QED BY <2>1, <2>2, BooksClosed
<1>3. ASSUME UNCHANGED <<pc, req, snap, store, pays, served, chain, income>>
      PROVE  \A ch \in Channels : Balanced(ch)'
  <2>1. \A d \in Calls : Waits(d)
        BY <1>3 DEF Waits
  <2>2. \A ch \in Channels : Pending(ch)' = Pending(ch)
        BY <1>3 DEF Pending
  <2> QED BY <1>3, <2>1, <2>2, BooksClosed
<1>4. ASSUME \/ \E r \in Replicas : Crash(r)
             \/ \E ch \in Channels : OperatorUnlock(ch)
      PROVE  UNCHANGED <<pc, req, snap, store, pays, served, chain, income>>
  <2>1. \A r \in Replicas : ~Crash(r)
        BY NothingFails DEF Crash, BalanceInv
  <2> QED BY <1>4, <2>1 DEF OperatorUnlock, callVars, chainVars
<1>5. CASE ChainStep
      BY <1>5, DepositBooked, ClaimOnChainBooked DEF ChainStep
<1> QED BY <1>1, <1>2, <1>3, <1>4, <1>5 DEF Next

\* Balanced books are what EveryCallPaid says: at most one call of a channel
\* has money in its hands.
LEMMA BooksPay == ASSUME BalanceInv PROVE EveryCallPaid
<1>1. SUFFICES ASSUME NEW ch \in Channels
               PROVE  Revenue(ch) + lost[ch] + InHand(ch, Calls) = Price * served[ch]
      BY DEF EveryCallPaid
<1>b. EscrowInv /\ Balanced(ch) /\ lost[ch] \in Nat
      BY DEF BalanceInv
<1>m. Revenue(ch) \in Int /\ Price \in Nat /\ Price * served[ch] \in Int
      BY MoneyTypes, PriceAssumption DEF BalanceInv, AccountsInv
<1>2. CASE Committing(ch) = {} /\ HandingOver(ch) = {}
  <2>1. InHand(ch, Calls) = 0
        BY <1>2, NothingInHand
  <2>2. Revenue(ch) + lost[ch] = Price * served[ch]
        BY <1>2, <1>b DEF Balanced
  <2> QED BY <1>b, <1>m, <2>1, <2>2
<1>3. ASSUME NEW c \in Committing(ch) PROVE Revenue(ch) + lost[ch] + InHand(ch, Calls) = Price * served[ch]
  <2>1. c \in Calls
        BY DEF Committing
  <2>2. InHand(ch, Calls) = Price
        BY <1>3, <1>b, <2>1, PriceInHand
  <2>3. Revenue(ch) + Price + lost[ch] = Price * served[ch]
        BY <1>3, <1>b DEF Balanced
  <2> QED BY <1>b, <1>m, <2>2, <2>3
<1>4. ASSUME NEW c \in HandingOver(ch) PROVE Revenue(ch) + lost[ch] + InHand(ch, Calls) = Price * served[ch]
  <2>1. c \in Calls
        BY DEF HandingOver
  <2>2. InHand(ch, Calls) = snap[c].auth /\ snap[c].auth \in Nat
        BY <1>4, <1>b, <2>1, AmountInHand
  <2>3. Revenue(ch) + snap[c].auth + lost[ch] = Price * served[ch]
        BY <1>4, <1>b DEF Balanced
  <2> QED BY <1>b, <1>m, <2>2, <2>3
<1> QED BY <1>2, <1>3, <1>4

\* Without failures and before expiration, in any deployment, no answered call
\* is lost but those that a panic cut off: what the provider got, can claim or
\* has authorized, with what calls are just writing down, is exactly the price
\* of the other answered calls.
THEOREM AnsweredCallsArePaid ==
  ASSUME NoFailures, NoExpiry PROVE LossSpec => []EveryCallPaid
<1>1. LossInit => BalanceInv
  <2> SUFFICES ASSUME LossInit PROVE BalanceInv
      OBVIOUS
  <2> USE DEF LossInit
  <2>1. ASSUME NEW ch \in Channels PROVE Balanced(ch)
    <3>1. store[ch] = NoData /\ chain[ch] = NotOpened /\ income[ch] = 0 /\ served[ch] = 0 /\ lost[ch] = 0
          BY DEF Init
    <3>2. NoData.auth = 0 /\ ~NotOpened.open /\ NotOpened.nonce = 0
          BY DEF NoData, NotOpened
    <3>3. Pending(ch) = {}
          BY DEF Init, Pending
    <3>4. Owed(ch) = 0
          BY <3>3, TotalOfNone DEF Owed
    <3>5. Authorized(ch) = 0
          BY <3>1, <3>2 DEF Authorized
    <3>6. Committing(ch) = {} /\ HandingOver(ch) = {}
          BY DEF Init, Committing, HandingOver
    <3>7. Revenue(ch) + lost[ch] = Price * served[ch]
          BY <3>1, <3>4, <3>5, PriceAssumption DEF Revenue
    <3> QED BY <3>1, <3>2, <3>6, <3>7 DEF Balanced
  <2>2. Roles /\ lost \in [Channels -> Nat]
        BY DEF Init, Roles, NoRequest
  <2> QED BY <2>1, <2>2, InitInv, AccountsInit DEF BalanceInv
<1>2. BalanceInv /\ LossNext => BalanceInv'
  <2> SUFFICES ASSUME BalanceInv, LossNext PROVE BalanceInv'
      OBVIOUS
  <2>1. [Next]_vars /\ CountLoss
        BY DEF LossNext
  <2>2. EscrowInv' /\ AccountsInv' /\ Roles'
        BY <2>1, InvStep, AccountsStep, RolesStep DEF BalanceInv
  <2> QED BY <2>1, <2>2, LossType, BooksStep DEF BalanceInv
<1>3. BalanceInv /\ UNCHANGED lossVars => BalanceInv'
  <2> SUFFICES ASSUME BalanceInv, UNCHANGED lossVars PROVE BalanceInv'
      OBVIOUS
  <2>1. [Next]_vars
        BY DEF lossVars
  <2>2. EscrowInv' /\ AccountsInv' /\ Roles'
        BY <2>1, InvStep, AccountsStep, RolesStep DEF BalanceInv
  <2>3. ASSUME NEW ch \in Channels PROVE Balanced(ch)'
        BY OwedSame DEF BalanceInv, Balanced, lossVars, vars, callVars, chainVars, Committing, HandingOver,
                        Revenue, Authorized, Pending
  <2> QED BY <2>2, <2>3 DEF BalanceInv, lossVars
<1>4. BalanceInv => EveryCallPaid
      BY BooksPay
<1> QED BY <1>1, <1>2, <1>3, <1>4, PTL DEF LossSpec
=============================================================================

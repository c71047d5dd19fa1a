------------------------ MODULE StateServiceProofs -------------------------
(* Proofs about StateService: what GetChannelState answers while any number *)
(* of paid calls, claims, crashes and steps of the contract happen between  *)
(* its two reads.                                                           *)
EXTENDS StateService, EscrowProofs

----------------------------------------------------------------------------
(* How a step of the rest of the system moves a channel. *)

\* The stored channel is only changed by a Commit and by a claim's first
\* write, which do not touch the contract.
LEMMA StoreMoves ==
  ASSUME EscrowInv, [Next]_vars, NEW ch \in Channels, store'[ch] # store[ch]
  PROVE  /\ chain' = chain
         /\ \/ \E c \in Calls : /\ pc[c] = "commit" /\ req[c].ch = ch
                                /\ store'[ch] = Committed(snap[c], req[c])
            \/ store[ch] # NoData /\ store'[ch] = IncrementChannelNonce(store[ch])
<1> USE DEF callVars, chainVars, daemonVars
<1>1. ASSUME NEW c \in Calls, StartCall(c) PROVE store' = store
      BY <1>1 DEF StartCall, StartPayment, ClaimRequest, InProgressRequest
<1>2. ASSUME NEW c \in Calls, CallStep(c) PROVE PaymentCommit(c) \/ ClaimPut(c) \/ store' = store
      BY <1>2 DEF CallStep, LockStep, LockDenied, UnlockStep, PaymentGet, PaymentChain,
                  PaymentValidate, ServiceDone, ServiceFailed, ServicePanics, PanicUnlock,
                  UnlockedGet, VerifyChain, ListClaims, RemoveClaimed, RemoveDone, BeginChain,
                  ClaimLock, ClaimGet, PaymentPut, Die
<1>3. ASSUME \/ \E r \in Replicas : Crash(r)
             \/ \E d \in Channels : OperatorUnlock(d)
             \/ ChainStep
             \/ UNCHANGED vars
      PROVE  store' = store
      BY <1>3 DEF Crash, OperatorUnlock, ChainStep, OpenChannel, AddFunds, ExtendChannel,
                  ClaimOnChain, ClaimTimeout, NextBlock, vars
<1>4. PICK c \in Calls : PaymentCommit(c) \/ ClaimPut(c)
      BY <1>1, <1>2, <1>3 DEF Next
<1>5. store \in [Channels -> ChannelData]
      BY DEF EscrowInv, TypeOK
<1>6. CASE PaymentCommit(c)
  <2>1. /\ pc[c] = "commit" /\ chain' = chain
        /\ \/ store' = store
           \/ store' = [store EXCEPT ![req[c].ch] = Committed(snap[c], req[c])]
        BY <1>6 DEF PaymentCommit, At, Ch
  <2> QED BY <1>5, <2>1
<1>7. CASE ClaimPut(c)
  <2>1. /\ pc[c] = "claimPut" /\ chain' = chain
        /\ \/ store' = store
           \/ store' = [store EXCEPT ![req[c].ch] = IncrementChannelNonce(snap[c])]
        BY <1>7 DEF ClaimPut, At, Ch
  <2>2. snap[c] = store[req[c].ch] /\ snap[c] # NoData
        BY <2>1 DEF EscrowInv, Isolation, SnapshotGood
  <2> QED BY <1>5, <2>1, <2>2
<1> QED BY <1>4, <1>6, <1>7

\* An open channel stays open and keeps its recipient, and the contract's
\* nonce only ever moves to the next one.
LEMMA ChainMoves ==
  ASSUME EscrowInv, [Next]_vars, NEW ch \in Channels, chain[ch].open
  PROVE  /\ chain'[ch].open /\ chain'[ch].payee = chain[ch].payee
         /\ chain'[ch].nonce \in {chain[ch].nonce, chain[ch].nonce + 1}
<1> USE DEF callVars, chainVars, daemonVars
<1>t. chain \in [Channels -> MpeChannel] /\ chain[ch] \in MpeChannel /\ pays \subseteq Payments
      BY DEF EscrowInv, TypeOK
<1> DEFINE Same == chain'[ch].open /\ chain'[ch].payee = chain[ch].payee
<1>1. ASSUME NEW d \in Channels, NEW v, NEW e, NEW y, OpenChannel(d, v, e, y)
      PROVE  chain'[ch] = chain[ch]
      BY <1>1, <1>t DEF OpenChannel
<1>2. ASSUME NEW d \in Channels, NEW v, AddFunds(d, v)
      PROVE  Same /\ chain'[ch].nonce = chain[ch].nonce
      BY <1>2, <1>t DEF AddFunds, MpeChannel
<1>3. ASSUME NEW d \in Channels, NEW e, ExtendChannel(d, e)
      PROVE  Same /\ chain'[ch].nonce = chain[ch].nonce
      BY <1>3, <1>t DEF ExtendChannel, MpeChannel
<1>4. ASSUME NEW d \in Channels, ClaimTimeout(d)
      PROVE  Same /\ chain'[ch].nonce \in {chain[ch].nonce, chain[ch].nonce + 1}
      BY <1>4, <1>t DEF ClaimTimeout, MpeChannel
<1>5. ASSUME NEW p \in pays, ClaimOnChain(p)
      PROVE  Same /\ chain'[ch].nonce \in {chain[ch].nonce, chain[ch].nonce + 1}
      BY <1>5, <1>t DEF ClaimOnChain, MpeChannel, Payments
<1>6. ASSUME ~ChainStep PROVE chain' = chain
  <2>1. ASSUME NEW c \in Calls, StartCall(c) PROVE chain' = chain
        BY <2>1 DEF StartCall, StartPayment, ClaimRequest, InProgressRequest
  <2>2. ASSUME NEW c \in Calls, CallStep(c) PROVE chain' = chain
        BY <2>2 DEF CallStep, LockStep, LockDenied, UnlockStep, PaymentGet, PaymentChain,
                    PaymentValidate, ServiceDone, ServiceFailed, ServicePanics, PanicUnlock,
                    PaymentCommit, UnlockedGet, VerifyChain, ListClaims, RemoveClaimed,
                    RemoveDone, BeginChain, ClaimLock, ClaimGet, ClaimPut, PaymentPut, Die
  <2> QED BY <1>6, <2>1, <2>2 DEF Next, Crash, OperatorUnlock, vars
<1>7. NextBlock => chain' = chain
      BY DEF NextBlock
<1> QED BY <1>1, <1>2, <1>3, <1>4, <1>5, <1>6, <1>7 DEF ChainStep

----------------------------------------------------------------------------
(* What a request sees. *)

\* The state of one of our channels: the stored one, unless the contract has
\* passed it, and then the fresh state of the contract's nonce.
LEMMA CurrentState ==
  ASSUME NEW s \in ChannelData, NEW bc \in MpeChannel, bc.open, bc.payee = "ours"
  PROVE  /\ s = NoData \/ s.nonce < bc.nonce => Fresh(bc.nonce) \in CurrentStates(s, bc)
         /\ s # NoData /\ ~(s.nonce < bc.nonce) => StateOf(s) \in CurrentStates(s, bc)
<1>1. ~BlockchainError(bc, TRUE)
      BY DEF BlockchainError
<1>2. StateOf(FromBlockchain(bc)) = Fresh(bc.nonce) /\ FromBlockchain(bc).nonce = bc.nonce
      BY DEF StateOf, FromBlockchain, Fresh
<1>3. CASE s = NoData
      BY <1>1, <1>2, <1>3 DEF CurrentStates, PaymentChannel, Found
<1>4. CASE s # NoData
  <2>1. StateOf([s EXCEPT !.full = FromBlockchain(bc).full, !.exp = FromBlockchain(bc).exp]) = StateOf(s)
        BY DEF StateOf, ChannelData
  <2>2. Merge(s, FromBlockchain(bc)) =
          IF s.nonce < bc.nonce THEN FromBlockchain(bc)
          ELSE IF s.nonce > bc.nonce THEN s
          ELSE [s EXCEPT !.full = FromBlockchain(bc).full, !.exp = FromBlockchain(bc).exp]
        BY <1>2 DEF Merge, ChannelData, MpeChannel
  <2>3. CurrentStates(s, bc) = {StateOf(Merge(s, FromBlockchain(bc)))}
        BY <1>1, <1>4 DEF CurrentStates, PaymentChannel, Found
  <2> QED BY <1>2, <1>4, <2>1, <2>2, <2>3
<1> QED BY <1>3, <1>4

\* States have their type.
LEMMA StateTypes ==
  /\ \A s \in ChannelData : StateOf(s) \in States /\ ReplyState(s) \in States
  /\ \A s \in ChannelData, bc \in MpeChannel : CurrentStates(s, bc) \subseteq States
  /\ ErrorReply \in StateReplies
<1>1. \A s \in ChannelData : StateOf(s) \in States /\ ReplyState(s) \in States
      BY DEF StateOf, ReplyState, States, ChannelData
<1>2. \A s \in ChannelData, bc \in MpeChannel : CurrentStates(s, bc) \subseteq States
      BY <1>1, PaymentChannelType DEF CurrentStates
<1>3. ErrorReply \in StateReplies
      BY ConstantTypes DEF ErrorReply, StateReplies, States, NoState
<1> QED BY <1>1, <1>2, <1>3

\* What a signed channel is answered with is its state, and verifies.
LEMMA SignedReply ==
  ASSUME NEW s \in ChannelData, SignedFor(s.nonce, s.auth, s.sig)
  PROVE  /\ ReplyState(s) = StateOf(s)
         /\ SignedFor(ReplyState(s).nonce, ReplyState(s).amount, ReplyState(s).sig)
<1>1. ReplyState(s) = StateOf(s)
      BY DEF SignedFor, ReplyState, StateOf, Sign, NoSig, ChannelData
<1> QED BY <1>1 DEF StateOf

----------------------------------------------------------------------------
(* The invariant is kept: first by the rest of the system. *)

\* Only PaymentChain brings a call to where its channel is read, and nothing
\* changes what it has read afterwards.
LEMMA SnapshotKept ==
  ASSUME TypeOK, [Next]_vars, NEW c \in Calls, ~PaymentChain(c),
         (pc[c] \in {"validate", "serve", "commit"})'
  PROVE  pc[c] \in {"validate", "serve", "commit"} /\ snap'[c] = snap[c] /\ req'[c] = req[c]
<1> USE DEF callVars, chainVars, daemonVars, TypeOK
<1>1. ASSUME NEW d \in Calls, d # c, StartCall(d) \/ CallStep(d), ~Die(d)
      PROVE  pc'[c] = pc[c] /\ snap'[c] = snap[c] /\ req'[c] = req[c]
  <2>1. CASE StartCall(d)
        BY <1>1, <2>1 DEF StartCall, StartPayment, ClaimRequest, InProgressRequest, Goto
  <2>2. CASE \/ LockStep(d) \/ LockDenied(d) \/ UnlockStep(d) \/ PaymentGet(d) \/ PaymentChain(d)
             \/ PaymentValidate(d) \/ ServiceDone(d) \/ ServiceFailed(d) \/ ServicePanics(d)
             \/ PanicUnlock(d) \/ PaymentCommit(d)
        BY <1>1, <2>2 DEF LockStep, LockDenied, UnlockStep, PaymentGet, PaymentChain, PaymentValidate,
               ServiceDone, ServiceFailed, ServicePanics, PanicUnlock, PaymentCommit, EndCall, Goto
  <2>3. CASE \/ UnlockedGet(d) \/ VerifyChain(d) \/ ListClaims(d) \/ RemoveClaimed(d) \/ RemoveDone(d)
             \/ BeginChain(d) \/ ClaimLock(d) \/ ClaimGet(d) \/ ClaimPut(d) \/ PaymentPut(d)
        BY <1>1, <2>3 DEF UnlockedGet, VerifyChain, ListClaims, RemoveClaimed, RemoveDone, BeginChain,
               ClaimLock, ClaimGet, ClaimPut, PaymentPut, EndCall, Goto
  <2> QED BY <1>1, <2>1, <2>2, <2>3 DEF CallStep
<1>2. ASSUME StartCall(c) PROVE FALSE
      BY <1>2 DEF StartCall, StartPayment, ClaimRequest, InProgressRequest, Goto
<1>3. ASSUME CallStep(c), ~Die(c) PROVE PaymentValidate(c) \/ ServiceDone(c) \/ UNCHANGED <<pc, snap, req>>
  <2>1. LockStep(c) => UNCHANGED <<pc, snap, req>>
        BY DEF LockStep
  <2>2. RemoveClaimed(c) => UNCHANGED <<pc, snap, req>>
        BY DEF RemoveClaimed, EndCall, Goto
  <2>3. ~(LockDenied(c) \/ UnlockStep(c) \/ PaymentGet(c) \/ ServiceFailed(c) \/ ServicePanics(c)
          \/ PanicUnlock(c) \/ PaymentCommit(c))
        BY DEF LockDenied, UnlockStep, PaymentGet, ServiceFailed, ServicePanics, PanicUnlock,
               PaymentCommit, EndCall, Goto
  <2>4. ~(UnlockedGet(c) \/ VerifyChain(c) \/ ListClaims(c) \/ RemoveDone(c) \/ BeginChain(c)
          \/ ClaimLock(c) \/ ClaimGet(c) \/ ClaimPut(c) \/ PaymentPut(c))
        BY DEF UnlockedGet, VerifyChain, ListClaims, RemoveDone, BeginChain,
               ClaimLock, ClaimGet, ClaimPut, PaymentPut, EndCall, Goto
  <2> QED BY <1>3, <2>1, <2>2, <2>3, <2>4, Zenon DEF CallStep
<1>4. PaymentValidate(c) \/ ServiceDone(c) =>
        pc[c] \in {"validate", "serve"} /\ UNCHANGED <<snap, req>>
      BY DEF PaymentValidate, ServiceDone, At
<1>5. ASSUME NEW r, EndCalls(r) PROVE pc'[c] = pc[c] /\ snap'[c] = snap[c] /\ req'[c] = req[c]
      BY <1>5 DEF EndCalls
<1>6. ASSUME \/ \E ch \in Channels : OperatorUnlock(ch)
             \/ ChainStep
             \/ UNCHANGED vars
      PROVE  UNCHANGED <<pc, snap, req>>
      BY <1>6 DEF OperatorUnlock, ChainStep, OpenChannel, AddFunds, ExtendChannel,
                  ClaimOnChain, ClaimTimeout, NextBlock, vars
<1>7. ASSUME \/ \E d \in Calls : Die(d)
             \/ \E r \in Replicas : Crash(r)
      PROVE  pc'[c] = pc[c] /\ snap'[c] = snap[c] /\ req'[c] = req[c]
      BY <1>5, <1>7 DEF Die, Crash
<1> QED BY <1>1, <1>2, <1>3, <1>4, <1>6, <1>7 DEF Next

\* Neither nonce of an open channel goes back.
LEMMA NoncesGrow ==
  ASSUME EscrowInv, [Next]_vars, NEW ch \in Channels, chain[ch].open
  PROVE  store[ch].nonce <= store'[ch].nonce /\ chain[ch].nonce <= chain'[ch].nonce
<1>1. EscrowInv'
      BY InvStep
<1>2. /\ store[ch] \in ChannelData /\ store'[ch] \in ChannelData
      /\ chain[ch] \in MpeChannel /\ chain'[ch] \in MpeChannel
      BY <1>1 DEF EscrowInv, TypeOK
<1>3. Forward(store[ch], store'[ch])
      BY ForwardStep
<1>4. store[ch].nonce <= store'[ch].nonce
      BY <1>2, <1>3 DEF Forward, ChannelData
<1>5. chain[ch].nonce <= chain'[ch].nonce
      BY <1>2, ChainMoves DEF MpeChannel
<1> QED BY <1>4, <1>5

\* No paid call gets ahead of both the storage and the contract: a call takes
\* its channel from one of the two, and neither goes back.
LEMMA NoNonceAheadStep ==
  ASSUME EscrowInv, NoNonceAhead, [Next]_vars
  PROVE  NoNonceAhead'
<1> SUFFICES ASSUME NEW c \in Calls, (pc[c] \in {"validate", "serve", "commit"})'
             PROVE  \/ snap'[c].nonce <= store'[req'[c].ch].nonce
                    \/ snap'[c].nonce <= chain'[req'[c].ch].nonce
    BY DEF NoNonceAhead
<1> DEFINE ch == req[c].ch
<1>i. EscrowInv'
      BY InvStep
<1>t. /\ pc \in [Calls -> Pcs] /\ snap \in [Calls -> ChannelData] /\ req \in [Calls -> Requests]
      /\ store \in [Channels -> ChannelData] /\ chain \in [Channels -> MpeChannel]
      /\ store' \in [Channels -> ChannelData] /\ chain' \in [Channels -> MpeChannel]
      /\ snap' \in [Calls -> ChannelData]
      BY <1>i DEF EscrowInv, TypeOK
<1>2. CASE PaymentChain(c)
  <2>1. PICK ok \in BOOLEAN :
          /\ pc'[c] = IF PaymentChannel(snap[c], chain[ch], ok).res = "found" THEN "validate" ELSE "unlock"
          /\ snap'[c] = PaymentChannel(snap[c], chain[ch], ok).data
        BY <1>2, <1>t DEF PaymentChain, Goto, Ch
  <2>2. /\ pc[c] = "chain" /\ req' = req /\ store' = store /\ chain' = chain
        BY <1>2 DEF PaymentChain, At, chainVars
  <2>3. ch \in Channels /\ snap[c] = store[ch] /\ PaymentChannel(snap[c], chain[ch], ok).res = "found"
        BY <2>1, <2>2 DEF EscrowInv, CallLock, Isolation, PayPcs
  <2>4. snap'[c].nonce \in {store[ch].nonce, chain[ch].nonce}
        BY <1>t, <2>1, <2>3 DEF PaymentChannel, Found, NotFound, Failed, Merge, FromBlockchain, ChannelData
  <2> QED BY <1>t, <2>2, <2>3, <2>4 DEF ChannelData, MpeChannel
<1>3. CASE ~PaymentChain(c)
  <2>1. pc[c] \in {"validate", "serve", "commit"} /\ snap'[c] = snap[c] /\ req'[c] = req[c]
        BY <1>3, SnapshotKept DEF EscrowInv
  <2>2. ch \in Channels /\ chain[ch].open
        BY <2>1 DEF EscrowInv, CallLock, SnapshotGood, PayPcs
  <2>3. snap[c].nonce <= store[ch].nonce \/ snap[c].nonce <= chain[ch].nonce
        BY <2>1 DEF NoNonceAhead
  <2>4. store[ch].nonce <= store'[ch].nonce /\ chain[ch].nonce <= chain'[ch].nonce
        BY <2>2, NoncesGrow
  <2> QED BY <1>t, <2>1, <2>2, <2>3, <2>4 DEF ChannelData, MpeChannel
<1> QED BY <1>2, <1>3

\* Whatever happens between the reads of a request, the history has the state
\* it will answer with: a claim or a withdrawal takes the channel through the
\* fresh state of its new nonce, and a Commit never skips one.
LEMMA RememberedStep ==
  ASSUME StateInv, Next, UNCHANGED <<spc, sreq, ssnap>>, spc # "idle",
         views' = views \cup CurrentStates(store'[sreq], chain'[sreq])
  PROVE  Remembered'
<1> DEFINE s == store[sreq]
           t == store'[sreq]
           b == chain[sreq]
           d == chain'[sreq]
           ours == d.open /\ d.payee = "ours"
<1>0. /\ EscrowInv /\ EscrowInv' /\ [Next]_vars /\ sreq \in Channels /\ Remembered
      BY InvStep DEF StateInv, Remembered
<1>1. /\ s \in ChannelData /\ t \in ChannelData /\ b \in MpeChannel /\ d \in MpeChannel
      /\ ssnap \in ChannelData
      BY <1>0 DEF EscrowInv, TypeOK, StateInv, StateTypeOK
<1>2. views \subseteq views' /\ CurrentStates(t, d) \subseteq views'
      OBVIOUS
<1>3. s # NoData => b.open /\ b.payee = "ours"
      BY <1>0 DEF EscrowInv, OnlyOurChannels
<1>4. t # s => d = b
      BY <1>0, StoreMoves
<1>5. s.nonce <= t.nonce
  <2>1. Forward(s, t)
        BY <1>0, ForwardStep
  <2> QED BY <1>1, <2>1 DEF Forward, ChannelData
<1>6. b.open => d.open /\ d.payee = b.payee /\ d.nonce \in {b.nonce, b.nonce + 1}
      BY <1>0, ChainMoves
<1>7. CASE spc = "get"
      BY <1>0, <1>2, <1>7 DEF Remembered, View
<1>8. CASE spc = "chain"
  <2>1. /\ SignedFor(ssnap.nonce, ssnap.auth, ssnap.sig)
        /\ ssnap.nonce <= s.nonce
        /\ ssnap # NoData => b.open /\ b.payee = "ours"
        /\ ssnap # NoData => StateOf(ssnap) \in views \/ ssnap.nonce < b.nonce
        /\ b.open /\ b.payee = "ours" =>
             \A n \in {b.nonce} \cup (b.nonce .. s.nonce) : n > ssnap.nonce => Fresh(n) \in views
        BY <1>0, <1>8 DEF Remembered
  <2> HIDE DEF s, t, b, d
  <2>2. ssnap.nonce <= t.nonce
        BY <1>1, <1>5, <2>1 DEF ChannelData
  <2>3. ssnap # NoData => StateOf(ssnap) \in views' \/ ssnap.nonce < d.nonce
        BY <1>1, <1>2, <1>6, <2>1 DEF ChannelData, MpeChannel
  <2>4. ASSUME ours, NEW n \in {d.nonce} \cup (d.nonce .. t.nonce), n > ssnap.nonce
        PROVE  Fresh(n) \in views'
    <3>1. n \in Int /\ d.nonce <= n /\ (n # d.nonce => n <= t.nonce)
          BY <1>1, <2>4 DEF ChannelData, MpeChannel
    <3>2. t = NoData \/ t.nonce < d.nonce => Fresh(d.nonce) \in views'
          BY <1>1, <1>2, <2>4, CurrentState
    <3>3. b.open /\ b.payee = "ours" /\ n \in {b.nonce} \cup (b.nonce .. s.nonce) => Fresh(n) \in views'
          BY <1>2, <2>1, <2>4
    <3>4. CASE t = s
      <4>1. CASE n = d.nonce /\ (s = NoData \/ s.nonce < d.nonce)
            BY <3>2, <3>4, <4>1
      <4>2. CASE s # NoData /\ ~(n = d.nonce /\ s.nonce < d.nonce)
        <5>1. b.open /\ b.payee = "ours" /\ n \in b.nonce .. s.nonce
              BY <1>1, <1>3, <1>6, <3>1, <3>4, <4>2 DEF ChannelData, MpeChannel
        <5> QED BY <3>3, <5>1
      <4>3. CASE s = NoData /\ n # d.nonce
        <5>1. s.nonce = -1
              BY <4>3 DEF NoData
        <5> QED BY <1>1, <3>1, <3>4, <4>3, <5>1 DEF MpeChannel
      <4> QED BY <4>1, <4>2, <4>3
    <3>5. CASE t # s
      <4>1. d = b
            BY <1>4, <3>5
      <4>2. CASE n \in {b.nonce} \cup (b.nonce .. s.nonce)
            BY <2>4, <3>3, <4>1, <4>2
      <4>3. CASE n \notin {b.nonce} \cup (b.nonce .. s.nonce)
        <5>1. n # b.nonce /\ b.nonce < n /\ s.nonce < n /\ n <= t.nonce
              BY <1>1, <3>1, <4>1, <4>3 DEF ChannelData, MpeChannel
        <5>2. ASSUME NEW c \in Calls, pc[c] = "commit", req[c].ch = sreq, t = Committed(snap[c], req[c])
              PROVE  FALSE
          <6>1. snap[c] \in ChannelData /\ (snap[c].nonce <= s.nonce \/ snap[c].nonce <= b.nonce)
                BY <1>0, <5>2 DEF StateInv, NoNonceAhead, EscrowInv, TypeOK, s, b
          <6>2. t.nonce = snap[c].nonce
                BY <5>2, <6>1 DEF Committed, ChannelData
          <6> QED BY <1>1, <3>1, <5>1, <6>1, <6>2 DEF ChannelData, MpeChannel
        <5>3. s # NoData /\ t = IncrementChannelNonce(s)
          <6>1. \/ \E c \in Calls : /\ pc[c] = "commit" /\ req[c].ch = sreq
                                    /\ t = Committed(snap[c], req[c])
                \/ s # NoData /\ t = IncrementChannelNonce(s)
                BY <1>0, <3>5, StoreMoves DEF s, t
          <6> QED BY <5>2, <6>1
        <5>4. t.nonce = s.nonce + 1 /\ StateOf(t) = Fresh(t.nonce)
              BY <5>3 DEF IncrementChannelNonce, StateOf, Fresh
        <5>5. n = t.nonce /\ ~(t.nonce < d.nonce)
              BY <1>1, <3>1, <4>1, <5>1, <5>4 DEF ChannelData, MpeChannel
        <5>6. t = NoData \/ StateOf(t) \in views'
              BY <1>1, <1>2, <2>4, <5>5, CurrentState
        <5>7. t # NoData
          <6>1. t = NoData => t.nonce = -1
                BY DEF NoData
          <6> QED BY <1>1, <5>1, <6>1 DEF MpeChannel, ChannelData
        <5> QED BY <5>4, <5>5, <5>6, <5>7
      <4> QED BY <4>2, <4>3
    <3> QED BY <3>4, <3>5
  <2>5. ssnap # NoData => ours
        BY <1>6, <2>1
  <2>6. View(sreq)' \subseteq views'
        BY <1>2 DEF View, t, d
  <2> QED BY <1>0, <1>8, <2>1, <2>2, <2>3, <2>4, <2>5, <2>6 DEF Remembered, t, d
<1> QED BY <1>7, <1>8 DEF StateInv, StateTypeOK

\* The rest of the system keeps the invariant.
LEMMA RestInv == ASSUME StateInv, RestOfSystem PROVE StateInv'
<1>0. /\ EscrowInv /\ EscrowInv' /\ Next /\ UNCHANGED <<spc, sreq, ssnap>>
      /\ StateTypeOK /\ Remembered
      BY InvStep DEF StateInv, RestOfSystem
<1>1. NoNonceAhead'
      BY <1>0, NoNonceAheadStep DEF StateInv
<1>2. CASE spc = "idle"
  <2>1. reply' = ErrorReply /\ views' = {}
        BY <1>2 DEF RestOfSystem
  <2>2. StateTypeOK'
        BY <1>0, <2>1, StateTypes DEF StateTypeOK
  <2>3. Remembered' /\ ReplyIsLatest' /\ ReplyVerifies'
        BY <1>0, <1>2, <2>1 DEF Remembered, ReplyIsLatest, ReplyVerifies, ErrorReply
  <2> QED BY <1>0, <1>1, <2>2, <2>3 DEF StateInv
<1>3. CASE spc # "idle"
  <2>1. reply' = reply /\ views' = views \cup CurrentStates(store'[sreq], chain'[sreq])
        BY <1>0, <1>3 DEF RestOfSystem, View
  <2>2. sreq \in Channels
        BY <1>0, <1>3 DEF Remembered
  <2>3. CurrentStates(store'[sreq], chain'[sreq]) \subseteq States
        BY <1>0, <2>2, StateTypes DEF EscrowInv, TypeOK
  <2>4. StateTypeOK'
        BY <1>0, <2>1, <2>3 DEF StateTypeOK
  <2>5. Remembered'
        BY <1>0, <1>3, <2>1, RememberedStep
  <2>6. ReplyIsLatest' /\ ReplyVerifies'
        BY <2>1 DEF StateInv, ReplyIsLatest, ReplyVerifies
  <2> QED BY <1>0, <1>1, <2>4, <2>5, <2>6 DEF StateInv
<1> QED BY <1>2, <1>3

----------------------------------------------------------------------------
(* The steps of the request itself. *)

\* Nothing the request does touches what the payment core's invariant is about.
LEMMA CoreUnchanged ==
  ASSUME StateInv, UNCHANGED vars
  PROVE  EscrowInv' /\ NoNonceAhead'
  BY InvStep, NoNonceAheadStep DEF StateInv

\* A request ends with an error, or with a reply that was among the states of
\* the channel and verifies.
LEMMA AnswerInv ==
  ASSUME StateInv, NEW r \in StateReplies, Answer(r),
         r.ok /\ r.fresh => r.state \in views,
         r.ok => SignedFor(r.state.nonce, r.state.amount, r.state.sig)
  PROVE  StateInv'
<1>1. EscrowInv' /\ NoNonceAhead'
      BY CoreUnchanged DEF Answer
<1>2. /\ spc' = "idle" /\ sreq' = NoChannel /\ ssnap' = NoData /\ reply' = r
      /\ views' = IF r.ok THEN views ELSE {}
      BY DEF Answer
<1>3. StateTypeOK'
      BY <1>2, ConstantTypes DEF StateInv, StateTypeOK
<1>4. Remembered' /\ ReplyIsLatest' /\ ReplyVerifies'
      BY <1>2 DEF Remembered, ReplyIsLatest, ReplyVerifies
<1> QED BY <1>1, <1>3, <1>4 DEF StateInv

\* An error is always a good answer.
LEMMA ErrorInv == ASSUME StateInv, Answer(ErrorReply) PROVE StateInv'
<1>1. ErrorReply \in StateReplies /\ ~ErrorReply.ok
      BY StateTypes DEF ErrorReply
<1> QED BY <1>1, AnswerInv

\* The request comes in.
LEMMA RequestInv == ASSUME StateInv, NEW ch \in Channels, GetChannelState(ch) PROVE StateInv'
<1>1. CASE Answer(ErrorReply)
      BY <1>1, ErrorInv
<1>2. CASE ~Answer(ErrorReply)
  <2>1. /\ spc' = "get" /\ sreq' = ch /\ reply' = ErrorReply /\ views' = View(ch)
        /\ UNCHANGED <<vars, ssnap>>
        BY <1>2 DEF GetChannelState
  <2>2. EscrowInv' /\ NoNonceAhead'
        BY <2>1, CoreUnchanged
  <2>3. View(ch) \subseteq States
        BY StateTypes DEF View, StateInv, EscrowInv, TypeOK
  <2>4. StateTypeOK'
        BY <2>1, <2>3, StateTypes DEF StateInv, StateTypeOK
  <2>5. View(sreq)' = views'
        BY <2>1 DEF View, vars, chainVars
  <2>6. Remembered' /\ ReplyIsLatest' /\ ReplyVerifies'
        BY <2>1, <2>5 DEF Remembered, ReplyIsLatest, ReplyVerifies, ErrorReply
  <2> QED BY <2>2, <2>4, <2>6 DEF StateInv
<1> QED BY <1>1, <1>2

\* The read of the storage: what it finds is the channel's state now, or the
\* contract has passed it.
LEMMA GetInv == ASSUME StateInv, StateGet PROVE StateInv'
<1>1. CASE Answer(ErrorReply)
      BY <1>1, ErrorInv
<1>2. CASE ~Answer(ErrorReply)
  <2>1. spc = "get" /\ spc' = "chain" /\ ssnap' = store[sreq] /\ UNCHANGED <<vars, sreq, reply, views>>
        BY <1>2 DEF StateGet
  <2>2. EscrowInv' /\ NoNonceAhead'
        BY <2>1, CoreUnchanged
  <2>3. sreq \in Channels /\ View(sreq) \subseteq views
        BY <2>1 DEF StateInv, Remembered
  <2> DEFINE s == store[sreq]
             b == chain[sreq]
             ours == b.open /\ b.payee = "ours"
  <2>4. /\ s \in ChannelData /\ b \in MpeChannel /\ CurrentStates(s, b) \subseteq views
        /\ store' = store /\ chain' = chain
        BY <2>1, <2>3 DEF View, StateInv, EscrowInv, TypeOK, vars, chainVars
  <2>5. SignedFor(s.nonce, s.auth, s.sig) /\ (s # NoData => ours)
        BY <2>3 DEF StateInv, EscrowInv, ClaimsVerify, OnlyOurChannels
  <2>6. ReplyIsLatest' /\ ReplyVerifies' /\ StateTypeOK'
        BY <2>1, <2>4 DEF StateInv, ReplyIsLatest, ReplyVerifies, StateTypeOK
  <2>7. View(sreq)' \subseteq views'
        BY <2>1, <2>3, <2>4 DEF View
  <2> HIDE DEF s, b
  <2>8. s # NoData => StateOf(s) \in views \/ s.nonce < b.nonce
        BY <2>4, <2>5, CurrentState
  <2>9. ASSUME ours, NEW n \in {b.nonce} \cup (b.nonce .. s.nonce), n > s.nonce
        PROVE  Fresh(n) \in views
    <3>1. n = b.nonce /\ s.nonce < b.nonce
          BY <2>4, <2>9 DEF ChannelData, MpeChannel
    <3> QED BY <2>4, <2>9, <3>1, CurrentState
  <2>10. s.nonce <= s.nonce
         BY <2>4 DEF ChannelData
  <2>11. Remembered'
         BY <2>1, <2>3, <2>4, <2>5, <2>7, <2>8, <2>9, <2>10 DEF Remembered, s, b
  <2> QED BY <2>2, <2>6, <2>11 DEF StateInv
<1> QED BY <1>1, <1>2

\* The read of the contract and the answer.
LEMMA ChainInv == ASSUME StateInv, StateChain PROVE StateInv'
<1> DEFINE b == chain[sreq]
           Found0(ok) == PaymentChannel(ssnap, b, ok)
<1>1. PICK signer, ok \in BOOLEAN : Answer(ReplyTo(Found0(ok), signer, ok))
      BY DEF StateChain
<1>2. CASE ReplyTo(Found0(ok), signer, ok) = ErrorReply
      BY <1>1, <1>2, ErrorInv
<1>3. CASE ReplyTo(Found0(ok), signer, ok) # ErrorReply
  <2>0. spc = "chain" /\ sreq \in Channels /\ Remembered
        BY DEF StateChain, StateInv, Remembered
  <2>1. /\ ssnap \in ChannelData /\ b \in MpeChannel
        BY <2>0 DEF StateInv, StateTypeOK, EscrowInv, TypeOK
  <2>2. /\ SignedFor(ssnap.nonce, ssnap.auth, ssnap.sig)
        /\ ssnap # NoData => b.open /\ b.payee = "ours"
        /\ ssnap # NoData => StateOf(ssnap) \in views \/ ssnap.nonce < b.nonce
        /\ b.open /\ b.payee = "ours" /\ b.nonce > ssnap.nonce => Fresh(b.nonce) \in views
        BY <2>0 DEF Remembered
  <2>3. Found0(ok).res = "found" /\ ReplyTo(Found0(ok), signer, ok) = ReplyOf(ReplyState(Found0(ok).data), ok)
        BY <1>3 DEF ReplyTo
  <2> DEFINE d == Found0(ok).data
             r == ReplyOf(ReplyState(d), ok)
  <2> HIDE DEF b
  <2>4. /\ d \in ChannelData /\ b.open /\ b.payee = "ours" /\ SignedFor(d.nonce, d.auth, d.sig)
        BY <2>1, <2>2, <2>3, PaymentChannelType, PaymentChannelGood
  <2>5. r \in StateReplies
        BY <2>4, StateTypes DEF ReplyOf, StateReplies
  <2>6. /\ ReplyState(d) = StateOf(d)
        /\ SignedFor(ReplyState(d).nonce, ReplyState(d).amount, ReplyState(d).sig)
        BY <2>4, SignedReply
  <2>7. ASSUME ok PROVE StateOf(d) \in views
    <3>1. StateOf(FromBlockchain(b)) = Fresh(b.nonce) /\ FromBlockchain(b).nonce = b.nonce
          BY DEF StateOf, FromBlockchain, Fresh
    <3>2. ~BlockchainError(b, ok)
          BY <2>4, <2>7 DEF BlockchainError
    <3>3. CASE ssnap = NoData
      <4>1. d = FromBlockchain(b) /\ b.nonce > ssnap.nonce
            BY <2>1, <2>4, <3>2, <3>3 DEF PaymentChannel, Found, NoData, MpeChannel
      <4> QED BY <2>2, <2>4, <3>1, <4>1
    <3>4. CASE ssnap # NoData
      <4>1. d = Merge(ssnap, FromBlockchain(b))
            BY <2>4, <3>2, <3>4 DEF PaymentChannel, Found
      <4>2. CASE ssnap.nonce < b.nonce
        <5>1. d = FromBlockchain(b)
              BY <2>1, <3>1, <4>1, <4>2 DEF Merge, ChannelData, MpeChannel
        <5> QED BY <2>1, <2>2, <2>4, <3>1, <4>2, <5>1 DEF ChannelData, MpeChannel
      <4>3. CASE ~(ssnap.nonce < b.nonce)
        <5>1. StateOf(d) = StateOf(ssnap)
              BY <2>1, <3>1, <4>1, <4>3 DEF Merge, StateOf, ChannelData, MpeChannel
        <5> QED BY <2>2, <3>4, <4>3, <5>1
      <4> QED BY <4>2, <4>3
    <3> QED BY <3>3, <3>4
  <2>8. r.ok /\ r.fresh = ok /\ r.state = ReplyState(d)
        BY DEF ReplyOf
  <2>9. Answer(r)
        BY <1>1, <2>3
  <2> HIDE DEF r, d
  <2> QED BY <2>5, <2>6, <2>7, <2>8, <2>9, AnswerInv
<1> QED BY <1>2, <1>3

----------------------------------------------------------------------------
(* The theorems. *)

\* No request has come yet, and the payment core has its invariant.
LEMMA StateInitInv == StateInit => StateInv
<1> SUFFICES ASSUME StateInit PROVE StateInv
    OBVIOUS
<1>1. EscrowInv
      BY InitInv DEF StateInit
<1>2. StateTypeOK
      BY ConstantTypes, StateTypes DEF StateInit, StateTypeOK
<1>3. NoNonceAhead
      BY DEF StateInit, Init, NoNonceAhead
<1>4. Remembered /\ ReplyIsLatest /\ ReplyVerifies
      BY DEF StateInit, Remembered, ReplyIsLatest, ReplyVerifies, ErrorReply
<1> QED BY <1>1, <1>2, <1>3, <1>4 DEF StateInv

\* Every step keeps it.
LEMMA StateNextInv == StateInv /\ [StateNext]_allVars => StateInv'
<1> SUFFICES ASSUME StateInv, [StateNext]_allVars PROVE StateInv'
    OBVIOUS
<1>1. CASE UNCHANGED allVars
  <2>1. EscrowInv' /\ NoNonceAhead'
        BY <1>1, CoreUnchanged DEF allVars
  <2>2. StateTypeOK' /\ ReplyIsLatest' /\ ReplyVerifies'
        BY <1>1 DEF allVars, serviceVars, StateInv, StateTypeOK, ReplyIsLatest, ReplyVerifies
  <2>3. Remembered'
        BY <1>1 DEF allVars, serviceVars, vars, chainVars, StateInv, Remembered, View
  <2> QED BY <2>1, <2>2, <2>3 DEF StateInv
<1> QED BY <1>1, RestInv, RequestInv, GetInv, ChainInv DEF StateNext, ServiceStep

\* The inductive invariant of the state service over the payment core.
THEOREM StateInvariant == StateSpec => []StateInv
  BY StateInitInv, StateNextInv, PTL DEF StateSpec

\* GetChannelState never makes up a state: what it answers, when the contract
\* could be read, the channel was in at one instant since the request came,
\* although the storage and the contract are read apart and without the lock.
THEOREM ReplyWasCurrent == StateSpec => []ReplyIsLatest
<1>1. StateInv => ReplyIsLatest
      BY DEF StateInv
<1> QED BY <1>1, StateInvariant, PTL

\* Every amount GetChannelState answers with carries the signer's signature
\* for exactly that nonce and amount.
THEOREM ReplyIsSigned == StateSpec => []ReplyVerifies
<1>1. StateInv => ReplyVerifies
      BY DEF StateInv
<1> QED BY <1>1, StateInvariant, PTL
=============================================================================

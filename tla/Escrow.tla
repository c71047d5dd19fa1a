------------------------------- MODULE Escrow ------------------------------
(***************************************************************************)
(* The payment core of the daemon: paid calls (handler/interceptors.go,    *)
(* escrow/payment_handler.go, escrow/escrow.go) and the provider's claims  *)
(* (escrow/control_service.go, escrow/escrow.go) that run concurrently, on *)
(* any number of replicas, over one shared storage and one contract.       *)
(*                                                                         *)
(* Every access to the storage, to the blockchain and to the service is a  *)
(* step of its own, so any two calls interleave between any two accesses.  *)
(* An access may fail; a failed write may nevertheless have taken effect.  *)
(***************************************************************************)
EXTENDS ChannelState, Locker

CONSTANTS
  PayCalls,      \* the calls that serve paid requests
  ClaimCalls,    \* the calls that serve the provider's control requests
  ReqNonces,     \* bound: nonces a client or the provider puts in a request
  ReqAmounts,    \* bound: amounts a client signs
  Deposits,      \* bound: amounts the sender adds to a channel in one go
  MaxFunds,      \* bound: tokens a sender ever puts into one channel
  Expirations,   \* bound: expiration blocks a sender chooses
  OpenPayees,    \* bound: to whom channels are opened
  MaxBlock       \* bound: last block of the chain

ASSUME CallsAssumption ==
  /\ Calls = PayCalls \cup ClaimCalls
  /\ PayCalls \cap ClaimCalls = {}
ASSUME RequestAssumption ==
  /\ ReqNonces \subseteq Nat
  /\ ReqAmounts \subseteq Nat
ASSUME ChainAssumption ==
  /\ Deposits \subseteq Nat \ {0}
  /\ Expirations \subseteq Nat
  /\ OpenPayees \subseteq Payees
  /\ MaxFunds \in Nat
  /\ MaxBlock \in Nat

VARIABLES
  pc,       \* pc[c]: the next access of call c
  req,      \* req[c]: the request call c serves
  snap,     \* snap[c]: the channel as call c has it in memory
  todo,     \* todo[c]: pending payments call c still has to look at
  store,    \* store[ch]: the channel in the payment channel storage
  pays,     \* the payment storage: claims that were started
  chain,    \* chain[ch]: the channel in the contract
  block,    \* the current block
  funded,   \* funded[ch]: tokens the sender put into the channel so far
  income,   \* income[ch]: tokens the provider received from the channel
  served    \* served[ch]: paid requests the service has answered

callVars  == <<pc, req, snap, todo>>
chainVars == <<chain, block, funded, income>>
vars      == <<lockVars, callVars, store, pays, chainVars, served>>

\* A payment is signed by the channel's signer, or it is not.
PayRequests ==
  UNION {{[kind |-> "pay", ch |-> ch, nonce |-> n, amount |-> a, sig |-> Sign(n, a)],
          [kind |-> "pay", ch |-> ch, nonce |-> n, amount |-> a, sig |-> NoSig]} :
         ch \in Channels, n \in ReqNonces, a \in ReqAmounts}
ClaimRequests ==
  {[kind |-> "claim", ch |-> ch, nonce |-> n, amount |-> 0, sig |-> NoSig] :
     ch \in Channels, n \in ReqNonces}
ListRequest == [kind |-> "list", ch |-> NoChannel, nonce |-> 0, amount |-> 0, sig |-> NoSig]
NoRequest   == [kind |-> "none", ch |-> NoChannel, nonce |-> 0, amount |-> 0, sig |-> NoSig]

Requests == [kind : {"pay", "claim", "list", "none"}, ch : Channels \cup {NoChannel},
             nonce : Nat, amount : Nat, sig : Signatures]
Payments == [ch : Channels, nonce : Int, amount : Int, sig : Signatures]

PayPcs   == {"chain", "validate", "serve", "commit", "panic"}
ClaimPcs == {"verifyGet", "verifyChain", "list", "remove", "beginGet", "beginChain",
             "begin", "claimPut", "paymentPut"}
Pcs      == {"idle", "lock", "unlock", "dying"} \cup PayPcs \cup ClaimPcs

TypeOK ==
  /\ LockTypeOK
  /\ pc     \in [Calls -> Pcs]
  /\ req    \in [Calls -> Requests]
  /\ snap   \in [Calls -> ChannelData]
  /\ todo   \in [Calls -> SUBSET Payments]
  /\ store  \in [Channels -> ChannelData]
  /\ pays   \in SUBSET Payments
  /\ chain  \in [Channels -> MpeChannel]
  /\ block  \in 0 .. MaxBlock
  /\ funded \in [Channels -> 0 .. MaxFunds]
  /\ income \in [Channels -> Int]
  /\ served \in [Channels -> Nat]

Init ==
  /\ LockInit
  /\ pc     = [c \in Calls |-> "idle"]
  /\ req    = [c \in Calls |-> NoRequest]
  /\ snap   = [c \in Calls |-> NoData]
  /\ todo   = [c \in Calls |-> {}]
  /\ store  = [ch \in Channels |-> NoData]
  /\ pays   = {}
  /\ chain  = [ch \in Channels |-> NotOpened]
  /\ block  = 0
  /\ funded = [ch \in Channels |-> 0]
  /\ income = [ch \in Channels |-> 0]
  /\ served = [ch \in Channels |-> 0]

----------------------------------------------------------------------------
(* Parts of the steps. *)

At(c, p) == pc[c] = p
Goto(c, p) == pc' = [pc EXCEPT ![c] = p]

\* The call returns to its client.
EndCall(c) ==
  /\ Goto(c, "idle")
  /\ req'  = [req EXCEPT ![c] = NoRequest]
  /\ snap' = [snap EXCEPT ![c] = NoData]
  /\ todo' = [todo EXCEPT ![c] = {}]

\* The step touches the lock only by the failure it may count.
KeepLock == UNCHANGED <<key, lst, seen, target>>

\* A read of the storage or the blockchain either works or fails.
Outcome(ok) == IF ok THEN NoFault ELSE Fault

\* A write: it works, or fails with or without having taken effect.
Write(ok, applied) == Outcome(ok) /\ (ok => applied)

Ch(c) == req[c].ch

----------------------------------------------------------------------------
(* Lock() and Unlock() as paid calls and claims use them. *)

LockStep(c) ==
  /\ At(c, "lock")
  /\ LockSwap(c)
  /\ UNCHANGED <<callVars, store, pays, chainVars, served>>

\* "another transaction on channel is in progress", or the lock's error.
LockDenied(c) ==
  /\ At(c, "lock")
  /\ LockReturn(c)
  /\ EndCall(c)
  /\ UNCHANGED <<store, pays, chainVars, served>>

\* The deferred Unlock of StartPaymentTransaction (on error), Commit,
\* Rollback and StartClaim, after which the call returns.
UnlockStep(c) ==
  /\ At(c, "unlock")
  /\ Unlock(c)
  /\ EndCall(c)
  /\ UNCHANGED <<store, pays, chainVars, served>>

----------------------------------------------------------------------------
(* A paid call. *)

\* The interceptor starts a payment transaction: Lock() begins with its Get.
StartPayment(c, p) ==
  /\ c \in PayCalls
  /\ At(c, "idle")
  /\ LockGet(c, p.ch)
  /\ Goto(c, "lock")
  /\ req' = [req EXCEPT ![c] = p]
  /\ UNCHANGED <<snap, todo, store, pays, chainVars, served>>

\* PaymentChannel: the read of the storage.
PaymentGet(c) ==
  /\ At(c, "lock") /\ lst[c] = "held" /\ req[c].kind = "pay"
  /\ \E ok \in BOOLEAN :
       /\ Outcome(ok)
       /\ Goto(c, IF ok THEN "chain" ELSE "unlock")
       /\ snap' = IF ok THEN [snap EXCEPT ![c] = store[Ch(c)]] ELSE snap
  /\ KeepLock
  /\ UNCHANGED <<req, todo, store, pays, chainVars, served>>

\* PaymentChannel: the read of the contract, and the merge.
PaymentChain(c) ==
  /\ At(c, "chain")
  /\ \E ok \in BOOLEAN :
       LET r == PaymentChannel(snap[c], chain[Ch(c)], ok)
       IN /\ Outcome(ok)
          /\ Goto(c, IF r.res = "found" THEN "validate" ELSE "unlock")
          /\ snap' = [snap EXCEPT ![c] = r.data]
  /\ KeepLock
  /\ UNCHANGED <<req, todo, store, pays, chainVars, served>>

\* Validate reads the current block; the income is checked right after.  A
\* rejected payment is rolled back.
PaymentValidateKeepsLock(c) ==   \* mutant: no Rollback after a failed income check
  /\ At(c, "validate")
  /\ NoFault
  /\ IF Validate(req[c], snap[c], block) /\ ~IncomeValid(req[c], snap[c])
     THEN EndCall(c)
     ELSE /\ Goto(c, IF Validate(req[c], snap[c], block) THEN "serve" ELSE "unlock")
          /\ UNCHANGED <<req, snap, todo>>
  /\ KeepLock
  /\ UNCHANGED <<store, pays, chainVars, served>>
PaymentValidate(c) ==
  /\ At(c, "validate")
  /\ \E ok \in BOOLEAN :
       /\ Outcome(ok)
       /\ Goto(c, IF ok /\ Validate(req[c], snap[c], block) /\ IncomeValid(req[c], snap[c])
                  THEN "serve" ELSE "unlock")
  /\ KeepLock
  /\ UNCHANGED <<req, snap, todo, store, pays, chainVars, served>>

\* The service answers: the interceptor will Commit.
ServiceDone(c) ==
  /\ At(c, "serve")
  /\ Goto(c, "commit")
  /\ served' = [served EXCEPT ![Ch(c)] = @ + 1]
  /\ UNCHANGED <<lockVars, req, snap, todo, store, pays, chainVars>>

\* The service returns an error: the interceptor rolls the payment back.
ServiceFailed(c) ==
  /\ At(c, "serve")
  /\ Goto(c, "unlock")
  /\ UNCHANGED <<lockVars, req, snap, todo, store, pays, chainVars, served>>

\* The handler panics: the interceptor rolls back and panics again.
ServicePanics(c) ==
  /\ At(c, "serve")
  /\ Fault
  /\ Goto(c, "panic")
  /\ KeepLock
  /\ UNCHANGED <<req, snap, todo, store, pays, chainVars, served>>

PanicUnlock(c) ==
  /\ At(c, "panic")
  /\ Unlock(c)
  /\ Goto(c, "dying")
  /\ UNCHANGED <<req, snap, todo, store, pays, chainVars, served>>

\* Commit: the Put.  Whether it worked or not, the lock is released next.
PaymentCommit(c) ==
  /\ At(c, "commit")
  /\ \E ok, applied \in BOOLEAN :
       /\ Write(ok, applied)
       /\ store' = IF applied
                   THEN [store EXCEPT ![Ch(c)] = Committed(snap[c], req[c])] ELSE store
  /\ Goto(c, "unlock")
  /\ KeepLock
  /\ UNCHANGED <<req, snap, todo, pays, chainVars, served>>

----------------------------------------------------------------------------
(* The provider's control requests: StartClaim and GetListInProgress. *)

\* StartClaim, signed by the provider for a channel and a nonce.
ClaimRequest(c, q) ==
  /\ c \in ClaimCalls
  /\ At(c, "idle")
  /\ Goto(c, "verifyGet")
  /\ req' = [req EXCEPT ![c] = q]
  /\ UNCHANGED <<lockVars, snap, todo, store, pays, chainVars, served>>

\* GetListInProgress, its checks passed.
InProgressRequest(c) ==
  /\ c \in ClaimCalls
  /\ At(c, "idle")
  /\ Goto(c, "list")
  /\ req' = [req EXCEPT ![c] = ListRequest]
  /\ UNCHANGED <<lockVars, snap, todo, store, pays, chainVars, served>>

\* PaymentChannel, called without the lock by verifySignerForStartClaim
\* and by beginClaimOnChannel: the read of the storage.
UnlockedGet(c) ==
  /\ pc[c] \in {"verifyGet", "beginGet"}
  /\ \/ /\ NoFault
        /\ Goto(c, IF At(c, "verifyGet") THEN "verifyChain" ELSE "beginChain")
        /\ snap' = [snap EXCEPT ![c] = store[Ch(c)]]
        /\ UNCHANGED <<req, todo>>
     \/ /\ Fault
        /\ EndCall(c)
  /\ KeepLock
  /\ UNCHANGED <<store, pays, chainVars, served>>

\* verifySignerForStartClaim: the signature must be for the latest nonce.  A
\* channel that is not found passes, for lack of an error to return.
VerifyChain(c) ==
  /\ At(c, "verifyChain")
  /\ \E ok \in BOOLEAN :
       LET r      == PaymentChannel(snap[c], chain[Ch(c)], ok)
           passes == \/ r.res = "notFound"
                     \/ r.res = "found" /\ r.data.nonce = req[c].nonce
       IN /\ Outcome(ok)
          /\ \/ /\ passes
                /\ Goto(c, "list")
                /\ snap' = [snap EXCEPT ![c] = NoData]
                /\ UNCHANGED <<req, todo>>
             \/ /\ ~passes
                /\ EndCall(c)
  /\ KeepLock
  /\ UNCHANGED <<store, pays, chainVars, served>>

\* removeClaimedPayments: ListClaims.
ListClaims(c) ==
  /\ At(c, "list")
  /\ \/ /\ NoFault
        /\ Goto(c, "remove")
        /\ todo' = [todo EXCEPT ![c] = pays]
        /\ UNCHANGED <<req, snap>>
     \/ /\ Fault
        /\ EndCall(c)
  /\ KeepLock
  /\ UNCHANGED <<store, pays, chainVars, served>>

\* The loop goes on with the next claim of its list.
RestUnchanged(S, p) == S      \* mutant: the loop does not advance
Rest(S, p) == S \ {p}

\* removeClaimedPayments, one turn of its loop: a payment whose nonce the
\* contract has passed is finished, that is deleted.  A channel the contract
\* does not know ends the loop without an error; a failed read or a failed
\* delete, which may have taken effect, ends the request.
RemoveClaimed(c) ==
  /\ At(c, "remove")
  /\ \E p \in todo[c] :
       LET bc   == chain[p.ch]
           past == bc.nonce > p.nonce
           kept == {q \in pays : ~SameID(p, q)}
       IN \E ok \in BOOLEAN :
            /\ Outcome(ok)
            /\ \/ /\ ok /\ ~BlockchainError(bc, TRUE)
                  /\ todo' = [todo EXCEPT ![c] = IF bc.open THEN Rest(@, p) ELSE {}]
                  /\ pays' = IF bc.open /\ past THEN kept ELSE pays
                  /\ UNCHANGED <<pc, req, snap>>
               \/ /\ BlockchainError(bc, ok)
                  /\ EndCall(c)
                  /\ UNCHANGED pays
               \/ /\ ~ok /\ ~BlockchainError(bc, TRUE) /\ bc.open /\ past
                  /\ EndCall(c)
                  /\ pays' = kept
  /\ KeepLock
  /\ UNCHANGED <<store, chainVars, served>>

\* The loop is over: GetListInProgress replies with listClaims, StartClaim
\* goes on to beginClaimOnChannel.
RemoveDone(c) ==
  /\ At(c, "remove")
  /\ todo[c] = {}
  /\ \/ req[c].kind = "list"  /\ EndCall(c)
     \/ req[c].kind = "claim" /\ Goto(c, "beginGet") /\ UNCHANGED <<req, snap, todo>>
  /\ UNCHANGED <<lockVars, store, pays, chainVars, served>>

\* beginClaimOnChannel: nothing authorized, nothing to claim.  A channel that
\* is not found is a nil pointer, which panics.
BeginChain(c) ==
  /\ At(c, "beginChain")
  /\ \E ok \in BOOLEAN :
       LET r == PaymentChannel(snap[c], chain[Ch(c)], ok)
       IN /\ Outcome(ok)
          /\ \/ /\ r.res = "found" /\ SomethingToClaim(r.data)
                /\ Goto(c, "begin")
                /\ snap' = [snap EXCEPT ![c] = NoData]
                /\ UNCHANGED <<req, todo>>
             \/ /\ r.res = "notFound"
                /\ Goto(c, "dying")
                /\ UNCHANGED <<req, snap, todo>>
             \/ /\ r.res = "error" \/ (r.res = "found" /\ ~SomethingToClaim(r.data))
                /\ EndCall(c)
  /\ KeepLock
  /\ UNCHANGED <<store, pays, chainVars, served>>

\* lockingPaymentChannelService.StartClaim: Lock().
ClaimLock(c) ==
  /\ At(c, "begin")
  /\ LockGet(c, Ch(c))
  /\ Goto(c, "lock")
  /\ UNCHANGED <<req, snap, todo, store, pays, chainVars, served>>

\* StartClaim: the channel as the storage has it, not merged.
ClaimGet(c) ==
  /\ At(c, "lock") /\ lst[c] = "held" /\ req[c].kind = "claim"
  /\ \E ok \in BOOLEAN :
       LET found == ok /\ store[Ch(c)] # NoData
       IN /\ Outcome(ok)
          /\ Goto(c, IF found THEN "claimPut" ELSE "unlock")
          /\ snap' = IF found THEN [snap EXCEPT ![c] = store[Ch(c)]] ELSE snap
  /\ KeepLock
  /\ UNCHANGED <<req, todo, store, pays, chainVars, served>>

\* StartClaim: the updated channel is written first ...
ClaimPut(c) ==
  /\ At(c, "claimPut")
  /\ \E ok, applied \in BOOLEAN :
       /\ Write(ok, applied)
       /\ store' = IF applied
                   THEN [store EXCEPT ![Ch(c)] = IncrementChannelNonce(snap[c])] ELSE store
       /\ Goto(c, IF ok THEN "paymentPut" ELSE "unlock")
  /\ KeepLock
  /\ UNCHANGED <<req, snap, todo, pays, chainVars, served>>

\* ... and the payment of the old channel second.
PaymentPut(c) ==
  /\ At(c, "paymentPut")
  /\ \E ok, applied \in BOOLEAN :
       LET p == PaymentOf(Ch(c), snap[c])
       IN /\ Write(ok, applied)
          /\ pays' = IF applied THEN {q \in pays : ~SameID(p, q)} \cup {p} ELSE pays
  /\ Goto(c, "unlock")
  /\ KeepLock
  /\ UNCHANGED <<req, snap, todo, store, chainVars, served>>

----------------------------------------------------------------------------
(* Processes that end.  A replica restarts with no call in progress. *)

EndCalls(r) ==
  LET dead(c) == ReplicaOf[c] = r
  IN /\ pc'   = [c \in Calls |-> IF dead(c) THEN "idle" ELSE pc[c]]
     /\ req'  = [c \in Calls |-> IF dead(c) THEN NoRequest ELSE req[c]]
     /\ snap' = [c \in Calls |-> IF dead(c) THEN NoData ELSE snap[c]]
     /\ todo' = [c \in Calls |-> IF dead(c) THEN {} ELSE todo[c]]

\* An unrecovered panic of call c ends the process it runs in.
Die(c) ==
  /\ At(c, "dying")
  /\ DropCalls(ReplicaOf[c])
  /\ NoFault
  /\ EndCalls(ReplicaOf[c])
  /\ UNCHANGED <<store, pays, chainVars, served>>

\* A replica is killed in the middle of its calls.
Crash(r) ==
  /\ \E c \in Calls : ReplicaOf[c] = r /\ pc[c] # "idle"
  /\ DropCalls(r)
  /\ Fault
  /\ EndCalls(r)
  /\ UNCHANGED <<store, pays, chainVars, served>>

\* The operator frees a channel whose lock no live call holds.
OperatorUnlock(ch) ==
  /\ UnlockChannel(ch)
  /\ UNCHANGED <<callVars, store, pays, chainVars, served>>

----------------------------------------------------------------------------
(* The MultiPartyEscrow contract: what the sender, the provider and time   *)
(* do to a channel.  The contract is not part of the repository; this is   *)
(* what the daemon's code relies on.                                       *)

daemonVars == <<lockVars, callVars, store, pays, served>>

\* The sender opens a channel, once.
OpenChannel(ch, value, exp, payee) ==
  /\ ~chain[ch].open
  /\ value <= MaxFunds
  /\ chain'  = [chain EXCEPT ![ch] = [open |-> TRUE, payee |-> payee, nonce |-> 0,
                                      value |-> value, exp |-> exp]]
  /\ funded' = [funded EXCEPT ![ch] = value]
  /\ UNCHANGED <<daemonVars, block, income>>

AddFunds(ch, value) ==
  /\ chain[ch].open
  /\ funded[ch] + value <= MaxFunds
  /\ chain'  = [chain EXCEPT ![ch].value = @ + value]
  /\ funded' = [funded EXCEPT ![ch] = @ + value]
  /\ UNCHANGED <<daemonVars, block, income>>

\* The expiration is only ever moved forward.
ExtendChannel(ch, exp) ==
  /\ chain[ch].open
  /\ exp > chain[ch].exp
  /\ chain' = [chain EXCEPT ![ch].exp = exp]
  /\ UNCHANGED <<daemonVars, block, funded, income>>

\* The provider sends a payment of the payment storage to the contract, which
\* accepts it for the current nonce, with the sender's signature, within the
\* value; the nonce is incremented and the rest stays in the channel.
ClaimOnChain(p) ==
  LET bc == chain[p.ch]
  IN /\ p.nonce = bc.nonce
     /\ p.sig = Sign(p.nonce, p.amount)
     /\ p.amount <= bc.value
     /\ chain'  = [chain EXCEPT ![p.ch].nonce = @ + 1, ![p.ch].value = @ - p.amount]
     /\ income' = [income EXCEPT ![p.ch] = @ + p.amount]
     /\ UNCHANGED <<daemonVars, block, funded>>

\* The sender takes back what is left of an expired channel.
ClaimTimeout(ch) ==
  /\ chain[ch].open
  /\ chain[ch].value > 0
  /\ block >= chain[ch].exp
  /\ chain' = [chain EXCEPT ![ch].nonce = @ + 1, ![ch].value = 0, ![ch].exp = 0]
  /\ UNCHANGED <<daemonVars, block, funded, income>>

NextBlock ==
  /\ block < MaxBlock
  /\ block' = block + 1
  /\ UNCHANGED <<daemonVars, chain, funded, income>>

----------------------------------------------------------------------------
\* What a call does once it has been started.
CallStep(c) ==
  \/ LockStep(c) \/ LockDenied(c) \/ UnlockStep(c)
  \/ PaymentGet(c) \/ PaymentChain(c) \/ PaymentValidate(c)
  \/ ServiceDone(c) \/ ServiceFailed(c) \/ ServicePanics(c)
  \/ PanicUnlock(c) \/ PaymentCommit(c)
  \/ UnlockedGet(c) \/ VerifyChain(c) \/ ListClaims(c)
  \/ RemoveClaimed(c) \/ RemoveDone(c) \/ BeginChain(c)
  \/ ClaimLock(c) \/ ClaimGet(c) \/ ClaimPut(c) \/ PaymentPut(c)
  \/ Die(c)

StartCall(c) ==
  \/ \E p \in PayRequests : StartPayment(c, p)
  \/ \E q \in ClaimRequests : ClaimRequest(c, q)
  \/ InProgressRequest(c)

ChainStep ==
  \/ \E ch \in Channels :
       \/ \E v \in Deposits, e \in Expirations, y \in OpenPayees : OpenChannel(ch, v, e, y)
       \/ \E v \in Deposits : AddFunds(ch, v)
       \/ \E e \in Expirations : ExtendChannel(ch, e)
       \/ ClaimTimeout(ch)
  \/ \E p \in pays : ClaimOnChain(p)
  \/ NextBlock

Next ==
  \/ \E c \in Calls : StartCall(c) \/ CallStep(c)
  \/ \E r \in Replicas : Crash(r)
  \/ \E ch \in Channels : OperatorUnlock(ch)
  \/ ChainStep

Spec == Init /\ [][Next]_vars

\* Goroutines run, the storage and the blockchain answer or time out, and
\* the service answers or fails: every started call goes on.
CallFairness == \A c \in Calls : WF_vars(CallStep(c))

\* The operator unlocks a channel that stays stranded.
OperatorFairness == \A ch \in Channels : WF_vars(OperatorUnlock(ch))

FairSpec     == Spec /\ CallFairness
RecoverySpec == FairSpec /\ OperatorFairness

----------------------------------------------------------------------------
(* Correctness. *)

\* The channel a call has read under the lock is still the stored one when
\* the call writes it back (escrow.go:226 Commit writes fields read by
\* StartPaymentTransaction; escrow.go:122 and 127 use one read twice): no
\* update of another call, on any replica, is lost.
Isolation ==
  \A c \in Calls : LET s == snap[c]  t == store[req[c].ch] IN
    /\ pc[c] \in {"chain", "claimPut"} => s = t
    /\ pc[c] \in {"validate", "serve", "commit"} =>
         \/ s.nonce > t.nonce
         \/ s.nonce = t.nonce /\ s.auth = t.auth /\ s.sig = t.sig
    /\ pc[c] = "paymentPut" => t = IncrementChannelNonce(s)

\* What is stored as authorized, and what is stored to be claimed, carries
\* the signature the contract will check for exactly that nonce and amount;
\* only an amount of zero goes unsigned.
SignedFor(nonce, amount, sig) ==
  \/ amount = 0 /\ sig = NoSig
  \/ amount > 0 /\ sig = Sign(nonce, amount)

ClaimsVerify ==
  /\ \A ch \in Channels : SignedFor(store[ch].nonce, store[ch].auth, store[ch].sig)
  /\ \A p \in pays : SignedFor(p.nonce, p.amount, p.sig)

\* A channel of another replica group or another recipient never gets into
\* the storage, although a stored channel's group is not verified again
\* (escrow.go:53).
OnlyOurChannels ==
  \A ch \in Channels :
    store[ch] # NoData => chain[ch].open /\ chain[ch].payee = "ours"

\* A channel's stored nonce never goes back, and the authorized amount of a
\* nonce never shrinks: no write of a slow call undoes a newer one.
Forward(s, t) == s.nonce < t.nonce \/ (s.nonce = t.nonce /\ s.auth <= t.auth)
StoreGoesForward == [][\A ch \in Channels : Forward(store[ch], store[ch]')]_vars

\* Every way out of a call gives its lock back (payment_handler.go:70 "Make
\* sure the transaction is Rolled back , else this will cause a lock on the
\* channel"): a channel becomes locked for no running call only when an access
\* fails or a process ends.
Stranded(ch)      == key[ch] = "locked" /\ \A c \in Calls : Holds(c, ch) => pc[c] = "idle"
ProcessEnds       == \E c \in Calls : pc[c] = "dying" /\ pc'[c] = "idle"
StrandedByFailure ==
  [][\A ch \in Channels : ~Stranded(ch) /\ Stranded(ch)' => faults' > faults \/ ProcessEnds]_vars

\* No claim is started for nothing (control_service.go:164 "Check if there is
\* any Authorized amount to initiate a claim").  This is what the unlocked
\* check of beginClaimOnChannel is for; it holds while the provider runs one
\* claim at a time.
NoEmptyClaim == \A p \in pays : p.amount > 0

\* Between the contract's nonce and the stored one every nonce has a payment
\* the contract will accept, so that the provider can claim them one after
\* the other up to the stored channel.  Without a failure only the claim
\* between its two writes has a gap, its own.
NoGap ==
  \A ch \in Channels : \A n \in chain[ch].nonce .. store[ch].nonce - 1 :
      \/ \E p \in pays : p.ch = ch /\ p.nonce = n /\ p.amount > 0 /\ p.sig = Sign(n, p.amount)
      \/ \E c \in Calls : pc[c] = "paymentPut" /\ req[c].ch = ch /\ snap[c].nonce = n

----------------------------------------------------------------------------
(* The inductive invariant behind the safety properties. *)

\* Where a call is in its code determines what it has of the lock and which
\* requests it serves.
LockedPcs == {"chain", "validate", "serve", "commit", "panic", "claimPut", "paymentPut", "unlock"}
CallLock ==
  \A c \in Calls :
    /\ pc[c] \in LockedPcs => lst[c] = "held"
    /\ pc[c] = "lock" => lst[c] # "idle"
    /\ pc[c] \in LockedPcs \cup {"lock"} => target[c] = req[c].ch
    /\ pc[c] \notin LockedPcs \cup {"lock"} => lst[c] = "idle"
    /\ pc[c] \in PayPcs => req[c].kind = "pay"
    /\ pc[c] \in ClaimPcs \ {"list", "remove"} => req[c].kind = "claim"
    /\ req[c].kind \in {"pay", "claim"} => req[c].ch \in Channels

\* The channel a call will write comes from an own channel and is signed for.
SnapshotGood ==
  \A c \in Calls : LET s == snap[c] IN
    /\ pc[c] \in {"validate", "serve", "commit"} =>
         chain[req[c].ch].open /\ chain[req[c].ch].payee = "ours"
    /\ pc[c] = "claimPut" => s # NoData
    /\ pc[c] \in {"validate", "serve", "commit", "paymentPut"} => SignedFor(s.nonce, s.auth, s.sig)

\* A payment that was let through pays the price, no more, on top of what the
\* call read, and is signed for it.
Accepted ==
  \A c \in Calls :
    pc[c] \in {"serve", "commit"} =>
      /\ req[c].nonce = snap[c].nonce
      /\ req[c].sig = Sign(req[c].nonce, req[c].amount)
      /\ req[c].amount = snap[c].auth + Price
      /\ req[c].amount <= snap[c].full

EscrowInv == /\ TypeOK /\ LockInv /\ CallLock /\ SnapshotGood /\ Accepted
             /\ Isolation /\ ClaimsVerify /\ OnlyOurChannels

----------------------------------------------------------------------------
\* Every call that was started returns to its client.
CallsReturn == \A c \in Calls : pc[c] # "idle" ~> pc[c] = "idle"

\* A channel does not stay locked forever: the call that holds it gives it
\* back, and the operator frees it when the call cannot.
ChannelsAreFreed == \A ch \in Channels : key[ch] = "locked" ~> key[ch] # "locked"
=============================================================================

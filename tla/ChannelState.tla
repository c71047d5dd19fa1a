---------------------------- MODULE ChannelState ---------------------------
(***************************************************************************)
(* The state of a payment channel and the pure functions over it: what     *)
(* escrow/payment_channel_storage.go, payment_channel_api.go,              *)
(* validation.go and income.go compute, without any access to a store.     *)
(*                                                                         *)
(* A signature is modelled by what it signs.  The channel's signer signs   *)
(* (channel, nonce, amount); recovering the address from a signature gives *)
(* the channel's signer exactly when the message is the one signed, so the *)
(* record Sign(nonce, amount) stands for a genuine signature and NoSig     *)
(* for no bytes, or bytes that recover to any other address.               *)
(***************************************************************************)
EXTENDS Integers

CONSTANTS
  Price,       \* fixed price of a call, in cogs (escrow/income.go)
  Threshold    \* payment_expiration_threshold_blocks of the configuration

ASSUME PriceAssumption     == Price \in Nat \ {0}
ASSUME ThresholdAssumption == Threshold \in Nat

Sign(nonce, amount) == [nonce |-> nonce, amount |-> amount]
NoSig      == [nonce |-> -1, amount |-> 0]
Signatures == [nonce : Int, amount : Int]

\* PaymentChannelData: the fields that change after the channel is opened.
ChannelData == [nonce : Int,      \* Nonce
                full  : Int,      \* FullAmount
                exp   : Int,      \* Expiration, a block number
                auth  : Int,      \* AuthorizedAmount
                sig   : Signatures]

\* "ok = false": no such channel.
NoData == [nonce |-> -1, full |-> 0, exp |-> 0, auth |-> 0, sig |-> NoSig]

\* A channel of the MultiPartyEscrow contract.  payee says whether the
\* recipient and the replica group of the channel are this daemon's.
Payees    == {"ours", "otherGroup", "otherRecipient"}
MpeChannel == [open : BOOLEAN, payee : Payees, nonce : Nat, value : Int, exp : Nat]

NotOpened == [open |-> FALSE, payee |-> "ours", nonce |-> 0, value |-> 0, exp |-> 0]

----------------------------------------------------------------------------
\* BlockchainChannelReader.GetChannelStateFromBlockchain, the found case.
FromBlockchain(bc) ==
  [nonce |-> bc.nonce, full |-> bc.value, exp |-> bc.exp, auth |-> 0, sig |-> NoSig]

\* The reader's error case: the call failed, or the recipient is not ours.
BlockchainError(bc, readOk) == ~readOk \/ (bc.open /\ bc.payee = "otherRecipient")

\* MergeStorageAndBlockchainChannelState
MergeAlways(storage, blockchain) ==         \* mutant: the contract's funds whatever the nonces
  [storage EXCEPT !.full = blockchain.full, !.exp = blockchain.exp]
MergePrefersChain(storage, blockchain) ==   \* mutant: <= where the code has <
  IF storage.nonce > blockchain.nonce THEN storage ELSE blockchain
Merge(storage, blockchain) ==
  IF storage.nonce > blockchain.nonce THEN storage
  ELSE IF storage.nonce < blockchain.nonce THEN blockchain
  ELSE [storage EXCEPT !.full = blockchain.full, !.exp = blockchain.exp]

Found(data) == [res |-> "found", data |-> data]
NotFound    == [res |-> "notFound", data |-> NoData]
Failed      == [res |-> "error", data |-> NoData]

\* lockingPaymentChannelService.PaymentChannel, given what its two reads
\* returned: the storage's channel and the contract's.  The group is only
\* verified for a channel the storage does not know; a failed or empty
\* blockchain read falls back on the storage.
PaymentChannelAnyGroup(storage, bc, readOk) ==   \* mutant: no verifyGroupId
  IF BlockchainError(bc, readOk) \/ ~bc.open
  THEN IF storage = NoData THEN Failed ELSE Found(storage)
  ELSE Found(IF storage = NoData THEN FromBlockchain(bc) ELSE Merge(storage, FromBlockchain(bc)))
PaymentChannel(storage, bc, readOk) ==
  IF storage = NoData
  THEN IF BlockchainError(bc, readOk) THEN Failed
       ELSE IF ~bc.open THEN NotFound
       ELSE IF bc.payee = "otherGroup" THEN Failed
       ELSE Found(FromBlockchain(bc))
  ELSE IF BlockchainError(bc, readOk) \/ ~bc.open THEN Found(storage)
       ELSE Found(Merge(storage, FromBlockchain(bc)))

\* ChannelPaymentValidator.Validate, given the current block.
ValidateNoFunds(payment, channel, block) ==   \* mutant: FullAmount is not compared
  /\ payment.nonce = channel.nonce
  /\ payment.sig = Sign(payment.nonce, payment.amount)
  /\ block + Threshold < channel.exp
Validate(payment, channel, block) ==
  /\ payment.nonce = channel.nonce
  /\ payment.sig = Sign(payment.nonce, payment.amount)
  /\ block + Threshold < channel.exp
  /\ channel.full >= payment.amount

\* incomeValidator.Validate on the income computed by the payment handler.
IncomeEnough(payment, channel) == payment.amount - channel.auth >= Price   \* mutant: >=
IncomeValid(payment, channel) == payment.amount - channel.auth = Price

\* paymentTransaction.Commit: the channel the transaction started from, with
\* the amount and the signature of its payment.
CommittedOldAmount(channel, payment) ==      \* mutant: the amount is not advanced
  [channel EXCEPT !.sig = payment.sig]
CommittedOldSignature(channel, payment) ==   \* mutant: the signature is not advanced
  [channel EXCEPT !.auth = payment.amount]
Committed(channel, payment) ==
  [channel EXCEPT !.auth = payment.amount, !.sig = payment.sig]

\* IncrementChannelNonce, the update of every claim the daemon starts.
DecreaseAmountOnly(channel) ==   \* mutant: the nonce is not incremented
  [channel EXCEPT !.full = @ - channel.auth, !.auth = 0, !.sig = NoSig]
IncrementChannelNonce(channel) ==
  [nonce |-> channel.nonce + 1, full |-> channel.full - channel.auth,
   exp   |-> channel.exp,       auth |-> 0,  sig |-> NoSig]

\* getPaymentFromChannel
PaymentOfUpdated(ch, channel) ==   \* mutant: taken from the channel after its update
  [ch |-> ch, nonce |-> channel.nonce + 1, amount |-> 0, sig |-> NoSig]
PaymentOf(ch, channel) ==
  [ch |-> ch, nonce |-> channel.nonce, amount |-> channel.auth, sig |-> channel.sig]

\* beginClaimOnChannel's test; AuthorizedAmount.Int64() is taken to be exact,
\* that is amounts are below 2^63.
SomethingToClaim(channel) == channel.auth # 0

\* The payment storage keeps one payment per "channel id/nonce" (Payment.ID).
SameID(p, q) == p.ch = q.ch /\ p.nonce = q.nonce
=============================================================================

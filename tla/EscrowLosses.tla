---------------------------- MODULE EscrowLosses ---------------------------
(***************************************************************************)
(* The books of the provider: Escrow with a history of the money that was  *)
(* lost because a process ended in the middle of writing it down.  A claim *)
(* for a channel nobody knows panics (control_service.go:165) and takes    *)
(* the paid calls of its daemon with it.                                   *)
(***************************************************************************)
EXTENDS EscrowAccounts

VARIABLE lost   \* lost[ch]: money of calls that were cut off

lossVars == <<vars, lost>>

\* Money that calls have in their hands: the price of an answered call that
\* is about to Commit, and the amount of a claim between its two writes.
Committing(ch)  == {c \in Calls : pc[c] = "commit" /\ req[c].ch = ch}
HandingOver(ch) == {c \in Calls : pc[c] = "paymentPut" /\ req[c].ch = ch}
InHand(ch, S) == Price * Cardinality(S \cap Committing(ch))
                   + Total({PaymentOf(ch, snap[c]) : c \in S \cap HandingOver(ch)})

\* Such a call goes on to give its lock back, unless its process ends.
CutOff(c) == pc'[c] = "idle"
CountLoss == lost' = [ch \in Channels |-> lost[ch] + InHand(ch, {c \in Calls : CutOff(c)})]

LossInit == Init /\ lost = [ch \in Channels |-> 0]
LossNext == Next /\ CountLoss
LossSpec == LossInit /\ [][LossNext]_lossVars

\* Without failures and before expiration nothing else is ever lost: what the
\* provider got, can claim or has authorized, with what calls have in their
\* hands or were cut off with, is exactly the price of the answered calls
\* (escrow.go:226 Commit, escrow.go:122 and 129 the two writes of a claim).
EveryCallPaid ==
  \A ch \in Channels : Revenue(ch) + lost[ch] + InHand(ch, Calls) = Price * served[ch]

----------------------------------------------------------------------------
(* The inductive invariant behind EveryCallPaid. *)

\* The contract never gets ahead of the storage, and the books balance.
Balanced(ch) ==
  /\ chain[ch].open => chain[ch].exp > MaxBlock
  /\ store[ch] # NoData => chain[ch].nonce <= store[ch].nonce
  /\ store[ch] = NoData => chain[ch].nonce = 0
  /\ Committing(ch) \cup HandingOver(ch) = {} => Revenue(ch) + lost[ch] = Price * served[ch]
  /\ \A c \in Committing(ch) : Revenue(ch) + Price + lost[ch] = Price * served[ch]
  /\ \A c \in HandingOver(ch) :
       /\ chain[ch].nonce <= snap[c].nonce
       /\ Revenue(ch) + snap[c].auth + lost[ch] = Price * served[ch]

BalanceInv == /\ EscrowInv /\ AccountsInv /\ Roles
              /\ lost \in [Channels -> Nat]
              /\ \A ch \in Channels : Balanced(ch)
=============================================================================

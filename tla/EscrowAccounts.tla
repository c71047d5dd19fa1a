--------------------------- MODULE EscrowAccounts --------------------------
(***************************************************************************)
(* What makes the payment core correct: properties of Escrow that add up   *)
(* money.  A sum of amounts is the number of tokens they stand for, since  *)
(* the prover knows finite sets and their cardinality, and no recursion.   *)
(***************************************************************************)
EXTENDS Escrow, FiniteSets

\* The tokens that a set of payments is about, and how many there are.
Tokens(S) == UNION {{p} \X (1 .. p.amount) : p \in S}
Total(S)  == Cardinality(Tokens(S))

\* Payments the provider can still take to the contract.
Pending(ch) == {p \in pays : p.ch = ch /\ p.nonce >= chain[ch].nonce}
Owed(ch)    == Total(Pending(ch))

\* What the provider has, and can still get, from a channel.
Authorized(ch) == IF store[ch].nonce >= chain[ch].nonce THEN store[ch].auth ELSE 0
Revenue(ch)    == income[ch] + Owed(ch) + Authorized(ch)

\* The sender is never charged for a call the service did not answer, in
\* whatever order calls, claims, failures and crashes come
\* (payment_channel_api.go:93 "increments on price after each successful RPC
\* call"): a payment is counted once, before and after its claim is started.
NeverOvercharged == \A ch \in Channels : Revenue(ch) <= Price * served[ch]

\* As long as the stored channel has not expired, the contract holds enough
\* for every pending payment, for what the storage still lets the client
\* spend, and so for what is authorized (payment_channel_api.go:39 "without
\* risk of overexpenditure").
Solvent ==
  \A ch \in Channels :
    store[ch] # NoData /\ block < store[ch].exp =>
      /\ chain[ch].nonce <= store[ch].nonce
      /\ Owed(ch) + store[ch].full <= chain[ch].value
      /\ store[ch].auth <= store[ch].full

\* A call that was let through to the service works on tokens the contract
\* still has, beyond all pending payments, until its channel expires.
BackedWork ==
  \A c \in Calls : LET ch == req[c].ch IN
    pc[c] \in {"serve", "commit"} /\ block < snap[c].exp =>
      /\ chain[ch].nonce <= snap[c].nonce
      /\ Owed(ch) + req[c].amount <= chain[ch].value

----------------------------------------------------------------------------
(* The inductive invariant behind the properties that hold whatever fails. *)

\* The payment storage holds finitely many tokens, one payment for a nonce,
\* and only payments of nonces the stored channel has left behind.
PaysInOrder ==
  /\ IsFiniteSet(Tokens(pays))
  /\ \A p, q \in pays : SameID(p, q) => p = q
  /\ \A p \in pays : p.nonce < store[p.ch].nonce

Unopened == \A ch \in Channels : ~chain[ch].open => chain[ch] = NotOpened

\* Until channel data v expires, the contract has the channel's tokens and
\* those of all pending payments, and cannot be emptied by the sender.
Covers(v, ch) ==
  block < v.exp =>
    /\ v.exp <= chain[ch].exp
    /\ chain[ch].nonce <= v.nonce
    /\ Owed(ch) + v.full <= chain[ch].value

ChannelSound(ch) ==
  /\ Revenue(ch) <= Price * served[ch]
  /\ store[ch].auth <= store[ch].full
  /\ Covers(store[ch], ch)

\* What a call reads of a channel that is ahead of the stored one comes from
\* the contract; what it is about to write is already paid for.
ReadingPcs == {"validate", "serve", "commit"}
CallSound(c) == LET ch == req[c].ch  s == snap[c] IN
  /\ pc[c] \in ReadingPcs =>
       /\ Covers(s, ch)
       /\ s.nonce > store[ch].nonce => s.auth = 0 /\ s.nonce <= chain[ch].nonce
  /\ pc[c] = "commit" => Revenue(ch) + Price <= Price * served[ch]
  /\ pc[c] = "paymentPut" =>
       /\ chain[ch].open
       /\ Covers(s, ch)
       /\ \A p \in pays : p.ch = ch => p.nonce < s.nonce
       /\ s.nonce >= chain[ch].nonce => Revenue(ch) + s.auth <= Price * served[ch]

AccountsInv == /\ PaysInOrder /\ Unopened
               /\ \A ch \in Channels : ChannelSound(ch)
               /\ \A c \in Calls : CallSound(c)

----------------------------------------------------------------------------
(* The inductive invariant behind NoGap, and what it and the books of      *)
(* EscrowLosses need of an instance.                                       *)

NoFailures      == MaxFaults = 0
OneClaimAtATime == \A c, d \in ClaimCalls : c = d
NoExpiry        == \A e \in Expirations : e > MaxBlock

\* Who serves what: a paid call dies of a failure only.
Roles ==
  \A c \in Calls :
    /\ req[c].kind = "pay" => c \in PayCalls
    /\ req[c].kind \in {"claim", "list"} => c \in ClaimCalls
    /\ pc[c] = "dying" => c \in ClaimCalls
    /\ pc[c] # "panic"

\* What beginClaimOnChannel saw to be authorized still is when the claim, the
\* only one, gets the lock.
HasAmount(c) ==
  req[c].kind = "claim" =>
    /\ pc[c] = "beginChain" /\ snap[c].auth # 0 => store[req[c].ch].auth # 0
    /\ pc[c] \in {"begin", "lock"} => store[req[c].ch].auth # 0
    /\ pc[c] \in {"claimPut", "paymentPut"} => snap[c].auth # 0

NoGapInv == /\ EscrowInv /\ AccountsInv /\ Roles /\ NoGap /\ NoEmptyClaim
            /\ \A c \in Calls : HasAmount(c)
=============================================================================

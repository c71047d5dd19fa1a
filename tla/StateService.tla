---------------------------- MODULE StateService ---------------------------
(***************************************************************************)
(* GetChannelState (escrow/state_service.go) beside the paid calls, the    *)
(* claims and the contract of Escrow: how a client learns the nonce and    *)
(* the amount it last signed before it pays, or after its payment was      *)
(* refused (handler/interceptors.go, IncorrectNonce).                      *)
(*                                                                         *)
(* The request reads the storage and then the contract without the         *)
(* channel's lock, so anything may happen between the two reads.  It       *)
(* writes nothing, so one request at a time shows what any number of them  *)
(* would be answered.                                                      *)
(***************************************************************************)
EXTENDS Escrow

VARIABLES
  spc,     \* the next access of the request: "idle", "get" or "chain"
  sreq,    \* its channel
  ssnap,   \* what it read from the storage
  reply,   \* the reply, an error until there is one
  views    \* history: the states the channel had since the request came

serviceVars == <<spc, sreq, ssnap, reply, views>>
allVars     == <<vars, serviceVars>>

\* What the client gets: ChannelStateReply, or an error.  fresh tells that
\* the read of the contract had worked.
States   == [nonce : Int, amount : Int, sig : Signatures]
NoState  == [nonce |-> -1, amount |-> 0, sig |-> NoSig]
ReplyOf(state, fresh) == [ok |-> TRUE, state |-> state, fresh |-> fresh]
ErrorReply   == [ok |-> FALSE, state |-> NoState, fresh |-> FALSE]
StateReplies == [ok : BOOLEAN, state : States, fresh : BOOLEAN]

StateTypeOK ==
  /\ spc   \in {"idle", "get", "chain"}
  /\ sreq  \in Channels \cup {NoChannel}
  /\ ssnap \in ChannelData
  /\ reply \in StateReplies
  /\ views \in SUBSET States

StateInit ==
  /\ Init
  /\ spc   = "idle"
  /\ sreq  = NoChannel
  /\ ssnap = NoData
  /\ reply = ErrorReply
  /\ views = {}

\* The nonce, the signed amount and the signature of a channel.
StateOf(data) == [nonce |-> data.nonce, amount |-> data.auth, sig |-> data.sig]

\* The state a channel is in: what PaymentChannel finds when both of its
\* reads happen at once.
CurrentStates(s, bc) ==
  LET r == PaymentChannel(s, bc, TRUE) IN IF r.res = "found" THEN {StateOf(r.data)} ELSE {}
View(ch) == CurrentStates(store[ch], chain[ch])

\* The reply carries the amount and the signature only if there is one; a
\* client takes an amount that is not there for zero.
ReplyFullAmount(data) == [nonce |-> data.nonce, amount |-> data.full, sig |-> data.sig]   \* mutant
ReplyState(data) ==
  [nonce |-> data.nonce, amount |-> IF data.sig = NoSig THEN 0 ELSE data.auth, sig |-> data.sig]

----------------------------------------------------------------------------
\* The request is answered: with an error, or a reply that the history must
\* explain.
Answer(r) ==
  /\ spc'   = "idle"
  /\ sreq'  = NoChannel
  /\ ssnap' = NoData
  /\ reply' = r
  /\ views' = IF r.ok THEN views ELSE {}
  /\ UNCHANGED vars

\* GetChannelState comes in; a signature that recovers to nobody is refused
\* before anything is read.
GetChannelState(ch) ==
  /\ spc = "idle"
  /\ \/ Answer(ErrorReply)
     \/ /\ spc'   = "get"
        /\ sreq'  = ch
        /\ reply' = ErrorReply
        /\ views' = View(ch)
        /\ UNCHANGED <<vars, ssnap>>

\* PaymentChannel: the read of the storage.
StateGetNothing ==   \* mutant: the storage's channel is not used
  /\ spc = "get"
  /\ spc' = "chain"
  /\ UNCHANGED <<vars, sreq, ssnap, reply, views>>
StateGet ==
  /\ spc = "get"
  /\ \/ /\ spc'   = "chain"
        /\ ssnap' = store[sreq]
        /\ UNCHANGED <<vars, sreq, reply, views>>
     \/ Answer(ErrorReply)

\* PaymentChannel: the read of the contract and the merge.  The sender whose
\* signature it was must be the channel's signer; only here it matters who it
\* is.
ReplyTo(found, signer, ok) ==
  IF found.res = "found" /\ signer THEN ReplyOf(ReplyState(found.data), ok) ELSE ErrorReply
StateChain ==
  /\ spc = "chain"
  /\ \E signer, ok \in BOOLEAN :
       Answer(ReplyTo(PaymentChannel(ssnap, chain[sreq], ok), signer, ok))

\* Meanwhile the rest of the system goes on; the history notes the states it
\* takes the requested channel through, and forgets a reply that was given.
RestOfSystem ==
  /\ Next
  /\ UNCHANGED <<spc, sreq, ssnap>>
  /\ reply' = IF spc = "idle" THEN ErrorReply ELSE reply
  /\ views' = IF spc = "idle" THEN {} ELSE views \cup View(sreq)'

ServiceStep == StateGet \/ StateChain

StateNext ==
  \/ \E ch \in Channels : GetChannelState(ch)
  \/ ServiceStep
  \/ RestOfSystem

StateSpec == StateInit /\ [][StateNext]_allVars

----------------------------------------------------------------------------
(* Correctness. *)

\* A reply is a state the channel was in at one instant between the request
\* and the reply, although its two halves were read at different times and
\* without the lock ("returns the latest state of the channel",
\* state_service.go:26).
ReplyIsLatest == reply.ok /\ reply.fresh => reply.state \in views

\* Even when the contract could not be read the client can verify the reply
\* and sign on top of it: the signature is the channel signer's for exactly
\* that nonce and amount, and only zero goes unsigned.
ReplyVerifies == reply.ok => SignedFor(reply.state.nonce, reply.state.amount, reply.state.sig)

----------------------------------------------------------------------------
(* The inductive invariant behind ReplyIsLatest. *)

\* What a paid call is going to write has a nonce that the storage or the
\* contract already had.
NoNonceAhead ==
  \A c \in Calls :
    pc[c] \in {"validate", "serve", "commit"} =>
      snap[c].nonce <= store[req[c].ch].nonce \/ snap[c].nonce <= chain[req[c].ch].nonce

\* While a request is served, the history has the channel's present state;
\* and once it has read the storage, the state it will answer with: the
\* stored one, unless the contract has passed it, and the fresh state of
\* every later nonce the contract may have when it is read.
Fresh(n) == [nonce |-> n, amount |-> 0, sig |-> NoSig]
Remembered ==
  /\ spc # "idle" => View(sreq) \subseteq views /\ sreq \in Channels
  /\ spc = "chain" =>
       /\ SignedFor(ssnap.nonce, ssnap.auth, ssnap.sig)
       /\ ssnap.nonce <= store[sreq].nonce
       /\ ssnap # NoData => chain[sreq].open /\ chain[sreq].payee = "ours"
       /\ ssnap # NoData => \/ StateOf(ssnap) \in views
                            \/ ssnap.nonce < chain[sreq].nonce
       /\ chain[sreq].open /\ chain[sreq].payee = "ours" =>
            \A n \in {chain[sreq].nonce} \cup (chain[sreq].nonce .. store[sreq].nonce) :
               n > ssnap.nonce => Fresh(n) \in views

StateInv == EscrowInv /\ StateTypeOK /\ NoNonceAhead /\ Remembered /\ ReplyIsLatest /\ ReplyVerifies
=============================================================================

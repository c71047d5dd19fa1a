--------------------------- MODULE ControlRequests -------------------------
(***************************************************************************)
(* Who may ask for the provider's lists (escrow/control_service.go): the   *)
(* checks GetListUnclaimed and GetListInProgress make before they answer.  *)
(* The provider signs a message that names the list, the contract and the  *)
(* block it believes current; whoever has a signed message can send it, at *)
(* any later time, to either method and with any block number.             *)
(***************************************************************************)
EXTENDS Integers, FiniteSets

CONSTANTS
  Signers,     \* owners of keys
  Provider,    \* the payment address of the service's metadata
  Contracts,   \* MPE addresses
  Mpe,         \* the one of the service's metadata
  MaxBlock,    \* bound: last block of the chain
  MaxMessages  \* bound: signed messages that ever exist

ASSUME SignersAssumption  == Provider \in Signers /\ Mpe \in Contracts
ASSUME BoundAssumption    == MaxBlock \in Nat /\ MaxMessages \in Nat

VARIABLES
  block,      \* the latest block of the chain
  messages,   \* signed messages that exist
  answers     \* the answers given: to which request, at which block

requestVars == <<block, messages, answers>>

Methods  == {"GetListUnclaimed", "GetListInProgress"}
Prefixes == {"__list_unclaimed", "__list_in_progress"}
Blocks   == 0 .. MaxBlock

Messages == [by : Signers, prefix : Prefixes, mpe : Contracts, block : Blocks]
Requests == [method : Methods, mpe : Contracts, block : Blocks]

RequestInit == block = 0 /\ messages = {} /\ answers = {}

----------------------------------------------------------------------------
\* verifySignerForListUnclaimed and verifySignerForListInProgress sign
\* different texts.
SamePrefix(method) == "__list_unclaimed"      \* mutant: one text for both lists
Prefix(method) == IF method = "GetListUnclaimed" THEN "__list_unclaimed" ELSE "__list_in_progress"

\* getMessageBytes, verifySigner and verifyPaymentAddress: the signature must
\* recover the provider from the message rebuilt from the request and from the
\* daemon's own contract address.
verifySigner(q, signature) ==
  signature = [by |-> Provider, prefix |-> Prefix(q.method), mpe |-> Mpe, block |-> q.block]

checkMpeAddress(q) == q.mpe = Mpe

\* big.Int.Cmp: the sign of the difference.
Cmp(a, b) == IF a < b THEN -1 ELSE IF a > b THEN 1 ELSE 0

compareWithLatestBlockNumber(latest, passed) ==
  LET difference == Cmp(latest, passed)
  IN  -5 <= difference \/ difference <= 5

\* A request with a signed message, answered when all three checks pass.
Answer(q, signature) ==
  /\ checkMpeAddress(q)
  /\ compareWithLatestBlockNumber(block, q.block)
  /\ verifySigner(q, signature)
  /\ answers' = answers \cup {[method |-> q.method, block |-> q.block, at |-> block]}
  /\ UNCHANGED <<block, messages>>

\* A request that fails a check, or whose read of the latest block fails, gets
\* an error and leaves nothing behind.
Refuse(q, signature) ==
  /\ \E readOk \in BOOLEAN :
       ~(/\ checkMpeAddress(q)
         /\ readOk /\ compareWithLatestBlockNumber(block, q.block)
         /\ verifySigner(q, signature))
  /\ UNCHANGED requestVars

\* Somebody signs a message for the latest block.
SignMessage(m) ==
  /\ m.block = block
  /\ messages' = messages \cup {m}
  /\ Cardinality(messages') <= MaxMessages
  /\ UNCHANGED <<block, answers>>

Mine == /\ block < MaxBlock
        /\ block' = block + 1
        /\ UNCHANGED <<messages, answers>>

RequestNext == \/ \E q \in Requests, s \in messages : Answer(q, s) \/ Refuse(q, s)
               \/ \E m \in Messages : SignMessage(m)
               \/ Mine

RequestSpec == RequestInit /\ [][RequestNext]_requestVars

----------------------------------------------------------------------------
\* Every list that is given out was asked for by the provider: a message it
\* signed for this very list and block exists, so a message signed for one
\* list, by somebody else or for another contract opens no other list.
AskedByProvider ==
  \A a \in answers :
    [by |-> Provider, prefix |-> IF a.method = "GetListUnclaimed" THEN "__list_unclaimed"
                                 ELSE "__list_in_progress",
     mpe |-> Mpe, block |-> a.block] \in messages

\* control_service.go:288 "Check if the block number passed is not more +- 5
\* from the latest block number on chain": a signed message is good for ten
\* blocks and no longer.
AnswersAreRecent == \A a \in answers : a.at - a.block \in -5 .. 5
=============================================================================

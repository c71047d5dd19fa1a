---------------------------- MODULE TypedStorage ---------------------------
(***************************************************************************)
(* Serialized keys (escrow/atomic_storage.go TypedAtomicStorageImpl,       *)
(* escrow/payment_channel_storage.go, escrow/payment_storage.go).  The key *)
(* of a payment channel is the gob encoding of a struct, and gob writes    *)
(* the numbers of the struct's types, which a process hands out in the     *)
(* order in which it first encodes a type.  Two processes find the same    *)
(* record only if they agree on these numbers.                             *)
(***************************************************************************)
EXTENDS Naturals, Sequences, SequencesExt

CONSTANTS
  Processes,    \* daemon processes that share the storage
  Handlers,    \* the goroutines of their requests
  ProcessOf,   \* ProcessOf[c]: the process of goroutine c
  Channels     \* payment channels

ASSUME TypedAssumption == ProcessOf \in [Handlers -> Processes]

VARIABLES
  types,      \* types[r]: the types process r has encoded, in the order of their numbers
  channels,   \* keys of the payment channel storage
  payments,   \* channels with a payment in the payment storage
  job,        \* job[c]: the storage accesses the request of goroutine c still makes
  on          \* on[c]: the channel of the request

typedVars == <<types, channels, payments, job, on>>

\* gob: a type that is new to the process gets the next number; a value
\* brings the types of its fields along, and a string has none of its own.
Number(known, t) == IF t \in ToSet(known) THEN known ELSE Append(known, t)
Encode(T, known) ==
  CASE T = "PaymentChannelKey"  -> Number(Number(known, "PaymentChannelKey"), "big.Int")
    [] T = "PaymentChannelData" -> Number(Number(Number(Number(known, "PaymentChannelData"),
                                                 "big.Int"), "Address"), "GroupID")
    [] T = "Payment"            -> Number(Number(Number(known, "Payment"), "Address"), "big.Int")
    [] T = "ID"                 -> known
NumberOf(t, known) == CHOOSE i \in DOMAIN known : known[i] = t

\* serialize(&PaymentChannelKey{ID: ch}), by a process that has encoded it.
KeyBytes(ch, known) ==
  <<NumberOf("PaymentChannelKey", known), NumberOf("big.Int", known), ch>>

\* The storage accesses of the requests, in the order of the code: a payment
\* (StartPaymentTransaction, Commit), a claim (StartClaim of the control
\* service), a list (GetListInProgress) and a channel state request.
Accesses(kind) ==
  CASE kind = "pay"   -> <<"channelGet", "channelPut">>
    [] kind = "claim" -> <<"channelGet", "paymentList", "paymentDelete", "channelGet",
                           "channelGet", "channelPut", "paymentPut">>
    [] kind = "list"  -> <<"paymentList", "paymentDelete">>
    [] kind = "state" -> <<"channelGet">>

TypedInit == /\ types = [r \in Processes |-> <<>>]
             /\ channels = {}
             /\ payments = {}
             /\ job = [c \in Handlers |-> <<>>]
             /\ on \in {[c \in Handlers |-> ch] : ch \in Channels}

Receive(c, kind, ch) ==
  /\ job[c] = <<>>
  /\ job' = [job EXCEPT ![c] = Accesses(kind)]
  /\ on'  = [on EXCEPT ![c] = ch]
  /\ UNCHANGED <<types, channels, payments>>

Known(c) == types[ProcessOf[c]]
Knows(c, seq) == types' = [types EXCEPT ![ProcessOf[c]] = seq]
Doing(c, access) == job[c] # <<>> /\ Head(job[c]) = access

\* The request goes on, or ends here: an error, nothing stored, nothing to do.
Proceed(c) == job' \in {[job EXCEPT ![c] = Tail(@)], [job EXCEPT ![c] = <<>>]}

\* Get: the key is serialized.  What is not stored is taken from the
\* blockchain, except by the locked part of a claim, which ends.
ClaimsNow(c) == Tail(job[c]) = <<"channelPut", "paymentPut">>

ChannelGet(c) ==
  LET now == Encode("PaymentChannelKey", Known(c))
  IN /\ Doing(c, "channelGet")
     /\ Knows(c, now)
     /\ Proceed(c)
     /\ ClaimsNow(c) /\ KeyBytes(on[c], now) \notin channels => job'[c] = <<>>
     /\ UNCHANGED <<channels, payments, on>>

\* Put: the key is serialized, then the value.
ChannelPut(c) ==
  LET known == Encode("PaymentChannelKey", Known(c))
      now   == Encode("PaymentChannelData", known)
  IN /\ Doing(c, "channelPut")
     /\ Knows(c, now)
     /\ channels' = channels \cup {KeyBytes(on[c], known)}
     /\ Proceed(c)
     /\ UNCHANGED <<payments, on>>

\* Put of the payment storage: the key is Payment.ID(), a string.
PaymentPut(c) ==
  /\ Doing(c, "paymentPut")
  /\ Knows(c, Encode("Payment", Encode("ID", Known(c))))
  /\ payments' = payments \cup {on[c]}
  /\ Proceed(c)
  /\ UNCHANGED <<channels, on>>

\* GetAll only decodes: a value carries its types along.
PaymentList(c) ==
  /\ Doing(c, "paymentList")
  /\ Proceed(c)
  /\ UNCHANGED <<types, channels, payments, on>>

\* Delete of the payment storage, by Payment.ID().
PaymentDeleteByValue(c) ==   \* mutant: the payment itself is the key
  /\ Doing(c, "paymentDelete")
  /\ Knows(c, Encode("Payment", Known(c)))
  /\ payments' \in {payments} \cup {payments \ {ch} : ch \in payments}
  /\ Proceed(c)
  /\ UNCHANGED <<channels, on>>
PaymentDelete(c) ==
  /\ Doing(c, "paymentDelete")
  /\ Knows(c, Encode("ID", Known(c)))
  /\ payments' \in {payments} \cup {payments \ {ch} : ch \in payments}
  /\ Proceed(c)
  /\ UNCHANGED <<channels, on>>

\* A process restarts and starts numbering anew.
Restart(r) ==
  /\ types' = [types EXCEPT ![r] = <<>>]
  /\ job'   = [c \in Handlers |-> IF ProcessOf[c] = r THEN <<>> ELSE job[c]]
  /\ UNCHANGED <<channels, payments, on>>

TypedNext ==
  \/ \E c \in Handlers :
       \/ \E kind \in {"pay", "claim", "list", "state"}, ch \in Channels : Receive(c, kind, ch)
       \/ ChannelGet(c) \/ ChannelPut(c) \/ PaymentPut(c) \/ PaymentList(c) \/ PaymentDelete(c)
  \/ \E r \in Processes : Restart(r)

TypedSpec == TypedInit /\ [][TypedNext]_typedVars

----------------------------------------------------------------------------
\* A stored channel is found by every replica, whatever it has served before
\* and however often it was restarted: otherwise a channel would start again
\* with nothing authorized (escrow.go:43 takes it from the blockchain).
EveryReplicaFindsIt ==
  \A k \in channels, r \in Processes :
    KeyBytes(k[3], Encode("PaymentChannelKey", types[r])) = k

----------------------------------------------------------------------------
(* The inductive invariant behind it. *)

AccessKinds == {"channelGet", "channelPut", "paymentList", "paymentDelete", "paymentPut"}
Types == {"PaymentChannelKey", "PaymentChannelData", "Payment", "big.Int", "Address", "GroupID"}
TypedTypeOK ==
  /\ types \in [Processes -> Seq(Types)]
  /\ job   \in [Handlers -> Seq(AccessKinds)]
  /\ on    \in [Handlers -> Channels]

\* A process that has numbered any type has numbered the key's types first.
KeyTypesFirst(known) ==
  \/ known = <<>>
  \/ /\ Len(known) >= 2 /\ known[1] = "PaymentChannelKey" /\ known[2] = "big.Int"
     /\ \A i \in 3 .. Len(known) : known[i] \notin {"PaymentChannelKey", "big.Int"}

\* It has, because every request that writes a payment gets a channel before.
ChannelBeforePayment ==
  \A c \in Handlers : \A i \in 1 .. Len(job[c]) :
    job[c][i] = "paymentPut" /\ Known(c) = <<>> =>
      \E j \in 1 .. Len(job[c]) : j < i /\ job[c][j] = "channelGet"

TypedInv ==
  /\ TypedTypeOK /\ ChannelBeforePayment
  /\ \A r \in Processes : KeyTypesFirst(types[r])
  /\ \A k \in channels : \E ch \in Channels : k = <<1, 2, ch>>
=============================================================================

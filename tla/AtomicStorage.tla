---------------------------- MODULE AtomicStorage --------------------------
(***************************************************************************)
(* What escrow/atomic_storage.go promises of a storage: every operation    *)
(* takes effect at one moment between its call and its return, or reports  *)
(* an error and may then have taken effect or not.                         *)
(***************************************************************************)
CONSTANTS
  Keys,      \* the keys, with the prefix of their storage
  PrefixOf,  \* PrefixOf[k]: the storage a key belongs to (PrefixedAtomicStorage)
  Values,    \* serialized values
  Absent,    \* what an absent key has for a value
  Calls,     \* goroutines that use the storage
  Requests,  \* what they ask for
  NoRequest, \* a goroutine that is not in an operation
  NoReply    \* an operation that has not been decided

Kinds == {"get", "list", "put", "putIfAbsent", "cas", "delete"}

AllRequests == [kind : Kinds, key : Keys, old : Values, new : Values]
Replies     == [ok : BOOLEAN, err : BOOLEAN, found : SUBSET Values]

\* What the storages that implement this one assume of the constants.
WellFormed ==
  /\ Requests \subseteq AllRequests
  /\ Absent \notin Values
  /\ NoRequest \notin Requests
  /\ NoReply \notin Replies

VARIABLES
  data,   \* data[k]: the value of key k
  call,   \* call[c]: the request of goroutine c
  ret     \* ret[c]: what the storage has decided to answer

storageVars == <<data, call, ret>>

StorageTypeOK == /\ data \in [Keys -> Values \cup {Absent}]
                 /\ call \in [Calls -> Requests \cup {NoRequest}]
                 /\ ret  \in [Calls -> Replies \cup {NoReply}]

StorageInit == /\ data = [k \in Keys |-> Absent]
               /\ call = [c \in Calls |-> NoRequest]
               /\ ret  = [c \in Calls |-> NoReply]

\* A conditional write happens if its condition holds; Put and Delete have none.
Applies(q, d) == /\ q.kind = "putIfAbsent" => d[q.key] = Absent
                 /\ q.kind = "cas" => d[q.key] = q.old

\* The storage after request q.
IsRead(q) == q.kind \in {"get", "list"}
Written(q) == IF q.kind = "delete" THEN Absent ELSE q.new
Effect(q, d) == IF ~IsRead(q) /\ Applies(q, d) THEN [d EXCEPT ![q.key] = Written(q)] ELSE d

\* What a read returns; a list has every value of the prefix.
Read(q) == IF q.kind = "get" THEN {q.key} ELSE {k \in Keys : PrefixOf[k] = PrefixOf[q.key]}
Found(q, d) == {v \in Values : IsRead(q) /\ \E k \in Read(q) : d[k] = v}

Reply(q, d) ==
  [ok |-> IF q.kind = "get" THEN d[q.key] # Absent ELSE Applies(q, d),
   err |-> FALSE, found |-> Found(q, d)]

Error == [ok |-> FALSE, err |-> TRUE, found |-> {}]

Invoke(c, q) == /\ call[c] = NoRequest
                /\ call' = [call EXCEPT ![c] = q]
                /\ UNCHANGED <<data, ret>>

Pending(c) == call[c] # NoRequest /\ ret[c] = NoReply

Perform(c) == /\ Pending(c)
              /\ data' = Effect(call[c], data)
              /\ ret'  = [ret EXCEPT ![c] = Reply(call[c], data)]
              /\ UNCHANGED call

Fail(c) == /\ Pending(c)
           /\ data' \in {data, Effect(call[c], data)}
           /\ ret' = [ret EXCEPT ![c] = Error]
           /\ UNCHANGED call

Return(c) == /\ ret[c] # NoReply
             /\ call' = [call EXCEPT ![c] = NoRequest]
             /\ ret'  = [ret EXCEPT ![c] = NoReply]
             /\ UNCHANGED data

\* The process of the goroutines S ends.
Abandon(S) == /\ call' = [c \in Calls |-> IF c \in S THEN NoRequest ELSE call[c]]
              /\ ret'  = [c \in Calls |-> IF c \in S THEN NoReply ELSE ret[c]]
              /\ UNCHANGED data

StorageNext == \/ \E c \in Calls : \/ \E q \in Requests : Invoke(c, q)
                                   \/ Perform(c) \/ Fail(c) \/ Return(c)
               \/ \E S \in SUBSET Calls : Abandon(S)

StorageSpec == StorageInit /\ [][StorageNext]_storageVars
=============================================================================

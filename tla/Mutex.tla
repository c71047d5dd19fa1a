------------------------------- MODULE Mutex -------------------------------
(***************************************************************************)
(* What escrow/lock.go promises to its callers: at any time a channel is   *)
(* free, owned by one call, or stranded (its lock is taken and no live     *)
(* call will ever release it).  Ownership never passes directly from one   *)
(* call to another, and a stranded channel only becomes usable again       *)
(* through a recovery.                                                     *)
(***************************************************************************)
CONSTANTS Calls,      \* the calls that may want a channel
          Channels,   \* the channels that are locked, one lock each
          Free,       \* nobody owns the channel
          Stranded    \* the lock is taken but its owner is gone

VARIABLE owner        \* owner[ch]: who owns channel ch

Owners == Calls \cup {Free, Stranded}

Init == owner \in [Channels -> {Free}]

\* A call takes a free channel.
Acquire(c, ch) == /\ owner[ch] = Free
                  /\ owner' = [owner EXCEPT ![ch] = c]

\* The owner gives the channel back.
Release(c, ch) == /\ owner[ch] = c
                  /\ owner' = [owner EXCEPT ![ch] = Free]

\* A failure leaves a set of channels locked for nobody: the owners crashed,
\* an Unlock failed, or a Lock took effect although it reported an error.
Strand(S) == owner' = [ch \in Channels |-> IF ch \in S THEN Stranded ELSE owner[ch]]

\* The operator makes a stranded channel usable again.
Recover(ch) == /\ owner[ch] = Stranded
               /\ owner' = [owner EXCEPT ![ch] = Free]

Next == \/ \E c \in Calls, ch \in Channels : Acquire(c, ch) \/ Release(c, ch)
        \/ \E S \in SUBSET Channels : Strand(S)
        \/ \E ch \in Channels : Recover(ch)

Spec == Init /\ [][Next]_owner
=============================================================================

------------------------------ MODULE MCEscrow -----------------------------
(* Instances of Escrow: who runs where. *)
EXTENDS EscrowAccounts, TLC

CONSTANTS p1, p2, k1, k2,   \* paid calls and control calls
          r1, r2,           \* replicas
          chA               \* channels

\* Paid calls run on one replica, control calls on the other.
MCReplicaOf == [c \in Calls |-> IF c \in {p1, p2} THEN r1 ELSE r2]
MCSymmetry  == Permutations(PayCalls) \cup Permutations(ClaimCalls)
=============================================================================

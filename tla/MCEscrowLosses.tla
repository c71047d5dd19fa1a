--------------------------- MODULE MCEscrowLosses --------------------------
(* Instances of EscrowLosses: one daemon serves paid and control calls. *)
EXTENDS MCEscrow, EscrowLosses

MCOneReplica == [c \in Calls |-> r1]
=============================================================================

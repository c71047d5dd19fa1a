-------------------------- MODULE MCControlRequests ------------------------
(* The provider and one other signer, two contracts. *)
EXTENDS ControlRequests
CONSTANTS provider, other, mpe, mpeOld
=============================================================================

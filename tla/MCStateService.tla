--------------------------- MODULE MCStateService --------------------------
(* Instances of StateService: a paid call, a claim and a state request. *)
EXTENDS StateService, TLC

CONSTANTS p1, k1, r1, r2, chA

MCReplicaOf == [c \in Calls |-> IF c = p1 THEN r1 ELSE r2]
=============================================================================

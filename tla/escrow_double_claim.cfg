SPECIFICATION Spec
CONSTANTS
  p1 = p1  p2 = p2  k1 = k1  k2 = k2  r1 = r1  r2 = r2  chA = chA
  Calls = {p1, k1, k2}
  PayCalls = {p1}
  ClaimCalls = {k1, k2}
  Replicas = {r1, r2}
  Channels = {chA}
  NoChannel = NoChannel
  ReplicaOf <- MCReplicaOf
  MaxFaults = 0
  Price = 1
  Threshold = 0
  ReqNonces = {0, 1}
  ReqAmounts = {1, 2}
  Deposits = {2}
  MaxFunds = 2
  Expirations = {1}
  OpenPayees = {"ours"}
  MaxBlock = 0
SYMMETRY MCSymmetry
INVARIANT NoEmptyClaim

SPECIFICATION Spec
CONSTANTS
  p1 = p1  p2 = p2  k1 = k1  k2 = k2  r1 = r1  r2 = r2  chA = chA
  Calls = {p1, k1}
  PayCalls = {p1}
  ClaimCalls = {k1}
  Replicas = {r1, r2}
  Channels = {chA}
  NoChannel = NoChannel
  ReplicaOf <- MCReplicaOf
  MaxFaults = 1
  Price = 1
  Threshold = 1
  ReqNonces = {0, 1}
  ReqAmounts = {1, 2}
  Deposits = {1}
  MaxFunds = 2
  Expirations = {2, 4}
  OpenPayees = {"ours", "otherGroup", "otherRecipient"}
  MaxBlock = 2
SYMMETRY MCSymmetry
INVARIANTS OnlyOurChannels NeverOvercharged Solvent BackedWork

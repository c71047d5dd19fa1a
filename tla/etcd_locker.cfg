CONSTANTS
  c1 = c1  c2 = c2  op = op  r1 = r1  r2 = r2  r3 = r3  kA = kA
  Calls = {c1, c2, op}
  Operator = op
  Replicas = {r1, r2, r3}
  Keys = {kA}
  Values = {"locked", "unlocked"}
  Absent = Absent  Nobody = Nobody  Orphan = Orphan
  NoRequest = NoRequest  NoReply = NoReply
  ReplicaOf <- MCReplicaOf
  PrefixOf <- MCPrefixOf
  Requests <- MCRequests
  MaxFaults = 3
  MaxLate = 2
SPECIFICATION LockerFairSpec
INVARIANT OneOwner
PROPERTIES LateWritesAreHarmless LockReturns

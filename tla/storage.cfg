SPECIFICATION Spec
CONSTANTS
  c1 = c1  c2 = c2  c3 = c3  r1 = r1  r2 = r2  kA = kA  kB = kB
  h1 = h1  h2 = h2  h3 = h3  chA = chA
  Calls = {c1, c2, c3}
  Replicas = {r1, r2}
  Keys = {kA, kB}
  Values = {"locked", "unlocked"}
  Absent = Absent  Nobody = Nobody  Orphan = Orphan  NoWriter = NoWriter
  NoRequest = NoRequest  NoReply = NoReply
  ReplicaOf <- MCReplicaOf
  PrefixOf <- MCPrefixOf
  Requests <- MCRequests
  MaxFaults = 2
  MaxLate = 0
  Processes = {r1, r2}
  Handlers = {h1, h2, h3}
  ProcessOf <- MCProcessOf
  Channels = {chA}
INVARIANTS WritesOnlyIfAbsent NoConcurrentMapAccess EveryReplicaFindsIt
PROPERTY ImplementsAtomicStorage

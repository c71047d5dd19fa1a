SPECIFICATION Spec
CONSTANTS
  RatePerMin = 4
  BurstSize = 2
  Minute = 11
  DaemonType = "grpc"
  MaxTime = 15
  provider = provider  other = other  mpe = mpe  mpeOld = mpeOld
  Signers = {provider, other}
  Provider = provider
  Contracts = {mpe, mpeOld}
  Mpe = mpe
  MaxBlock = 2
  MaxMessages = 2
  MaxIn = 3
  MaxOut = 3
  Calls = {1, 2}
  Channels = {10, 20}
  ServiceTypes = {"jsonrpc", "process", "none"}
  MaxMessageSize = 3
  PipeBuffer = 2
CHECK_DEADLOCK FALSE
INVARIANTS TokenBucket PacedCallsPass AskedByProvider SuccessIsComplete HalfCloseIsTrue ChargedForAnswer
PROPERTIES HandlerReturns GoroutinesEnd LockIsReturned

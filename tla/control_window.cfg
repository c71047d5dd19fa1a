SPECIFICATION RequestSpec
CONSTANTS
  provider = provider  other = other  mpe = mpe  mpeOld = mpeOld
  Signers = {provider}
  Provider = provider
  Contracts = {mpe}
  Mpe = mpe
  MaxBlock = 6
  MaxMessages = 1
INVARIANT AnswersAreRecent

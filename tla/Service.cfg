SPECIFICATION ServiceSpec
CONSTANTS
  Entries <- MCEntries
  Years <- MCYears
  Foreign <- MCForeign
  MaxMessages = 2
  MaxLoads = 1
  MaxRequests = 2
  Numbers <- MCNumbers
  Arrays <- MCArrays
  Texts <- MCTexts
  CommitTexts <- MCCommitTexts
  ProofTexts <- MCProofTexts
  OtherOffsets <- MCOffsets
  IntBytes = 2
  Limit64 = 32768
  Ranges <- MCRanges
  Primes <- MCPrimes
  Gas = {179999, 180007}
INVARIANTS CallsAreExact ValidatesWhatWasSent GeneratesGpq
PROPERTIES KeepsPromise ProvableIsProved

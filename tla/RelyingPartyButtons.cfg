SPECIFICATION Spec
CONSTANTS
    Entries <- MCEntries
    Attestations <- MCAttestations
    WalletProofs <- MCWalletProofs
    MaxLoads = 1
    MaxChecks = 2
INVARIANT OkayMeansInRange
CHECK_DEADLOCK FALSE

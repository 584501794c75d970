SPECIFICATION Spec
CONSTANTS
    Entries <- MCEntries
    Attestations <- MCAttestations
    WalletProofs <- MCWalletProofs
    MaxLoads = 2
    MaxChecks = 2
INVARIANTS TypeOK OkayIsGenuine AdultDiscountDeserved WaitingHasReason
CHECK_DEADLOCK FALSE

CONSTANTS
    N = 77
    g = 4
    h = 60
    t = 2
    l = 1
    s = 1
    MaxSecret = 3
    Widest = 3
    MaxGoCalls = 1
    Hash1 <- MCHash1
    Hash2 <- MCHash2
    Tried <- MCTried
    Secrets <- MCSecrets
    Ranges <- MCRanges
SPECIFICATION Spec
INVARIANTS
    TypeOK
    SelfCheckPasses
    RemainderFits
    RetryCanSucceed
    GoFirstAnswerIsJavas
    SameVerdicts
CHECK_DEADLOCK FALSE

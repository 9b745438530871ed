\* Liveness: no symmetry reduction (unsound for temporal properties).
CONSTANTS
    a1 = a1
    a2 = a2
    p1 = p1
    p2 = p2
    p3 = p3
    Accounts <- MCAccounts
    InvalidAccounts <- MCInvalidAccounts
    Invocations <- MCInvocations2
    CompensationsMayFail = TRUE
    LambdaMayTimeOut = TRUE
SPECIFICATION FairSpec
PROPERTY Termination

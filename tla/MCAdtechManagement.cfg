CONSTANTS
    a1 = a1
    a2 = a2
    p1 = p1
    p2 = p2
    p3 = p3
    Accounts <- MCAccounts
    InvalidAccounts <- MCInvalidAccounts
    Invocations <- MCInvocations2
    CompensationsMayFail = TRUE
    LambdaMayTimeOut = TRUE
SYMMETRY MCSymmetry
SPECIFICATION Spec
INVARIANT TypeOK
INVARIANT CheckpointsReflectStores
PROPERTY ImplementsSaga

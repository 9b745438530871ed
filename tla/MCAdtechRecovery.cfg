CONSTANTS
    a1 = a1
    a2 = a2
    p1 = p1
    p2 = p2
    Accounts <- MCAccounts
    InvalidAccounts <- MCInvalidAccounts
    Invocations <- MCInvocations2
    CompensationsMayFail = FALSE
    LambdaMayTimeOut = FALSE
SYMMETRY MCSymmetry
SPECIFICATION Spec
INVARIANT NoWedgedTenant

CONSTANTS
    a1 = a1
    a2 = a2
    p1 = p1
    p2 = p2
    Accounts <- MCAccounts
    InvalidAccounts <- MCInvalidAccounts
    Invocations <- MCInvocations1
    CompensationsMayFail = FALSE
    LambdaMayTimeOut = FALSE
SPECIFICATION Spec
INVARIANT NoWedgedTenant

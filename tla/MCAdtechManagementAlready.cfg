\* One invocation at a time; forward calls may fail transiently, rollback
\* calls fail only when IAM refuses them, and no invocation times out.
CONSTANTS
    a1 = a1
    a2 = a2
    p1 = p1
    p2 = p2
    p3 = p3
    Accounts <- MCAccounts
    InvalidAccounts <- MCInvalidAccounts
    Invocations <- MCInvocations1
    CompensationsMayFail = FALSE
    LambdaMayTimeOut = FALSE
SPECIFICATION Spec
PROPERTY AlreadyOnboardedIsTruthful

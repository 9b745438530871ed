\* One invocation at a time on one valid account, and every rollback call
\* that IAM and DynamoDB can carry out succeeds.
CONSTANTS
    a1 = a1
    a2 = a2
    p1 = p1
    p2 = p2
    p3 = p3
    Accounts <- MCAccounts
    InvalidAccounts <- MCInvalidAccounts
    Invocations <- MCInvocations1
    CompensationsMayFail = FALSE
    LambdaMayTimeOut = FALSE
SPECIFICATION Spec
PROPERTY FailureRestores

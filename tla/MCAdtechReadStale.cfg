\* One invocation slot, one account IAM accepts, no transient rollback
\* failures or timeouts, and a Scan page that holds the whole table: the
\* only way a read can miss a confirmed tenant is a replica that has not
\* yet caught up with its row.
CONSTANTS
    a1 = a1
    a2 = a2
    p1 = p1
    p2 = p2
    Accounts <- MCAccounts
    InvalidAccounts <- MCInvalidAccounts
    Invocations <- MCInvocations1
    CompensationsMayFail = FALSE
    LambdaMayTimeOut = FALSE
    ScanPageSize = 1
INIT ReadInit
NEXT ReadNext
PROPERTY ConfirmedTenantsAreRead

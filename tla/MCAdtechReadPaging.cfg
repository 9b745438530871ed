\* Two valid tenants, one invocation slot, no transient rollback failures or
\* timeouts, and a Scan page that holds one row: the table is larger than
\* one page, as a table of many tenants is larger than 1 MB.
CONSTANTS
    a1 = a1
    a2 = a2
    p1 = p1
    p2 = p2
    Accounts <- MCAccounts
    InvalidAccounts <- MCNoInvalidAccounts
    Invocations <- MCInvocations1
    CompensationsMayFail = FALSE
    LambdaMayTimeOut = FALSE
    ScanPageSize = 1
INIT ReadInit
NEXT ReadNext
PROPERTY ConvergedTenantsAreRead

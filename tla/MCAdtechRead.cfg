\* Two invocation slots beside the read Lambda over one valid and one
\* invalid account (IAM never lets a2 hold a role, so one Scan page of one
\* row holds every tenant); compensations may fail and invocations may
\* time out.
CONSTANTS
    a1 = a1
    a2 = a2
    p1 = p1
    p2 = p2
    Accounts <- MCAccounts
    InvalidAccounts <- MCInvalidAccounts
    Invocations <- MCInvocations2
    CompensationsMayFail = TRUE
    LambdaMayTimeOut = TRUE
    ScanPageSize = 1
SYMMETRY MCSymmetry
INIT ReadInit
NEXT ReadNext
INVARIANT ReadTypeOK
PROPERTY ConvergedTenantsAreRead

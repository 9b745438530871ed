--------------------------- MODULE AdtechRecovery ---------------------------
(***************************************************************************)
(* Can an operator always get a tenant out of the state the handlers leave *)
(* it in, by submitting onboarding and offboarding requests again?         *)
(*                                                                         *)
(* SoloRun computes what one handler does to an account when it runs alone *)
(* and each call succeeds exactly when IAM allows it (no throttling, no    *)
(* timeout): the forward calls of Workflow up to the first one IAM         *)
(* refuses, then the rollback loop over the checkpoint Map in insertion    *)
(* order up to the first rollback call IAM refuses.  Recoverable(a) is the *)
(* set of account states from which some sequence of such requests         *)
(* removes every resource of the tenant.                                   *)
(***************************************************************************)
EXTENDS AdtechManagement, FiniteSets

(* The smallest element of a nonempty set of naturals. *)
Least(T) == CHOOSE i \in T : \A j \in T : i <= j

(* Resources after the first i forward calls of kind, from S. *)
ForwardFrom(kind, S) ==
    LET f[i \in 0..NumSteps] ==
          IF i = 0 THEN S ELSE Effect(Workflow(kind)[i], f[i - 1])
    IN  f

(* Resources after the rollback loop undid the first j entries of the Map. *)
UnwindFrom(kind, S) ==
    LET u[j \in 0..(NumSteps - 1)] ==
          IF j = 0 THEN S
          ELSE Effect(RollbackCall(kind, Checkpoint(kind, j)), u[j - 1])
    IN  u

(* The outcome of one handler of kind for account a holding S.            *)
SoloRun(kind, a, S) ==
    LET fwd   == ForwardFrom(kind, S)
        k     == Least({i \in 1..NumSteps :
                          ~Allowed(Workflow(kind)[i], a, fwd[i - 1])}
                       \cup {NumSteps + 1})
        undo  == UnwindFrom(kind, fwd[k - 1])
        m     == Least({j \in 1..(k - 1) :
                          ~Allowed(RollbackCall(kind, Checkpoint(kind, j)),
                                   a, undo[j - 1])}
                       \cup {k})
    IN  IF k = NumSteps + 1 THEN fwd[NumSteps] ELSE undo[m - 1]

(* The account states from which one request leads into R.                *)
CleanableBy(a, R) ==
    R \cup UNION {IF \E kind \in Kinds : SoloRun(kind, a, S) \in R THEN {S} ELSE {} :
                   S \in SUBSET Resources}

(* Four more requests.                                                     *)
CleanableBy4(a, R) == CleanableBy(a, CleanableBy(a, CleanableBy(a, CleanableBy(a, R))))

(* A shortest path among the 16 account states has at most 15 requests,  *)
(* so 16 rounds reach every account state that can be cleaned up.         *)
Recoverable ==
    [a \in Accounts |->
        CleanableBy4(a, CleanableBy4(a, CleanableBy4(a, CleanableBy4(a, {{}}))))]

(* No running invocation serves account a. *)
Settled(a) == \A p \in Invocations : pc[p] \in Active => req[p].acct # a

(***************************************************************************)
(* spec.md section 4: a FAILED workflow is never resumed, callers re-submit *)
(* a fresh onboarding or offboarding request.  Whenever no handler runs on *)
(* an account, re-submitting requests can still clean it up: the handlers  *)
(* never leave a tenant in a state where CreateRole (EntityAlreadyExists)  *)
(* and DetachRolePolicy (NoSuchEntity) refuse every later request.         *)
(***************************************************************************)
NoWedgedTenant ==
    \A a \in Accounts : Settled(a) => res[a] \in Recoverable[a]

=============================================================================

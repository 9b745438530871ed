----------------------------- MODULE AdtechCalls ----------------------------
(***************************************************************************)
(* The external calls the Adtech management Lambdas make, what each does   *)
(* to a tenant's resources and when the service carries it out, and the    *)
(* two workflows built from them: the forward calls of each handler, the   *)
(* checkpoint key set after each, and the compensation of each key.  The   *)
(* handler model (AdtechManagement) and the abstract saga (AdtechSaga)     *)
(* share these definitions.                                                *)
(***************************************************************************)
EXTENDS Naturals, Sequences

CONSTANTS
    Accounts,              \* AWS account ids of Adtechs
    InvalidAccounts        \* ids for which IAM rejects the trust policy

(***************************************************************************)
(* External calls of util/role_operations.ts and util/db_operations.ts.    *)
(* A call adds (put) or removes (not put) one resource of an account.      *)
(***************************************************************************)
Resources == {"role", "policy", "mgmt", "auth"}

createIAMRole          == [r |-> "role",   put |-> TRUE]
deleteIAMRole          == [r |-> "role",   put |-> FALSE]
attachRolePolicy       == [r |-> "policy", put |-> TRUE]
detachRolePolicy       == [r |-> "policy", put |-> FALSE]
addToAdtechMgmtDB      == [r |-> "mgmt",   put |-> TRUE]
deleteFromAdtechMgmtDB == [r |-> "mgmt",   put |-> FALSE]
addToPBSAuthDB         == [r |-> "auth",   put |-> TRUE]
deleteFromPBSAuthDB    == [r |-> "auth",   put |-> FALSE]

Calls == [r : Resources, put : BOOLEAN]

(***************************************************************************)
(* When the service can carry out call c for account a whose resources    *)
(* are S.  IAM CreateRole fails with EntityAlreadyExists on an existing    *)
(* role name and with MalformedPolicyDocument when the trust policy names  *)
(* an account that does not exist; DeleteRole fails with NoSuchEntity on a *)
(* missing role and DeleteConflict while a policy is attached;             *)
(* Attach/DetachRolePolicy fail with NoSuchEntity on a missing role or     *)
(* (detach) a missing attachment.  DynamoDB Put overwrites and Delete of a *)
(* missing key succeeds.                                                   *)
(***************************************************************************)
Allowed(c, a, S) ==
    /\ c = createIAMRole    => "role" \notin S /\ a \notin InvalidAccounts
    /\ c = deleteIAMRole    => "role" \in S /\ "policy" \notin S
    /\ c = attachRolePolicy => "role" \in S
    /\ c = detachRolePolicy => "policy" \in S

(* The resources of an account after call c succeeded on them. *)
Effect(c, S) == IF c.put THEN S \cup {c.r} ELSE S \ {c.r}

-----------------------------------------------------------------------------
(***************************************************************************)
(* The two workflows.  Checkpoint keys of util/global_vars.ts: the Map key *)
(* names the resource a forward call changed; its value is the role name,  *)
(* AWS id, ARN or request JSON, all determined by the account here.        *)
(***************************************************************************)
IAM_ROLE_CHECKPOINT        == "role"
IAM_ROLE_POLICY_CHECKPOINT == "policy"
ADTECH_MGMT_CHECKPOINT     == "mgmt"

CheckpointKeys ==
    {IAM_ROLE_CHECKPOINT, IAM_ROLE_POLICY_CHECKPOINT, ADTECH_MGMT_CHECKPOINT}

Kinds == {"onboard", "offboard"}

Requests == [kind : Kinds, acct : Accounts]

NumSteps == 4

(* The awaited forward calls of each handler, in program order. *)
Workflow(kind) ==
    IF kind = "onboard"
    THEN <<createIAMRole, attachRolePolicy, addToAdtechMgmtDB, addToPBSAuthDB>>
    ELSE <<detachRolePolicy, deleteIAMRole, deleteFromAdtechMgmtDB,
           deleteFromPBSAuthDB>>

(* Mutant: the offboarding handler sets the policy key twice (copy-paste), *)
(* so Map.set overwrites it and the role deletion is never recorded.       *)
CheckpointDuplicateKey(kind, i) ==
    IF kind = "onboard"
    THEN <<IAM_ROLE_CHECKPOINT, IAM_ROLE_POLICY_CHECKPOINT,
           ADTECH_MGMT_CHECKPOINT>>[i]
    ELSE <<IAM_ROLE_POLICY_CHECKPOINT, IAM_ROLE_POLICY_CHECKPOINT,
           ADTECH_MGMT_CHECKPOINT>>[i]

(* The checkpoint key each handler sets after its i-th call (none after the *)
(* last one, which returns instead).                                        *)
Checkpoint(kind, i) ==
    IF kind = "onboard"
    THEN <<IAM_ROLE_CHECKPOINT, IAM_ROLE_POLICY_CHECKPOINT,
           ADTECH_MGMT_CHECKPOINT>>[i]
    ELSE <<IAM_ROLE_POLICY_CHECKPOINT, IAM_ROLE_CHECKPOINT,
           ADTECH_MGMT_CHECKPOINT>>[i]

(* rollbackCheckpoint of the onboarding handler, by checkpoint key. *)
OnboardingRollback ==
    [role |-> deleteIAMRole, policy |-> detachRolePolicy,
     mgmt |-> deleteFromAdtechMgmtDB]

(* rollbackCheckpoint of the offboarding handler, by checkpoint key. *)
OffboardingRollback ==
    [role |-> createIAMRole, policy |-> attachRolePolicy,
     mgmt |-> addToAdtechMgmtDB]

(* The call that undoes a checkpoint. *)
RollbackCall(kind, key) ==
    IF kind = "onboard" THEN OnboardingRollback[key]
    ELSE OffboardingRollback[key]


=============================================================================

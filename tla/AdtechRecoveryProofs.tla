-------------------------- MODULE AdtechRecoveryProofs --------------------------
(***************************************************************************)
(* When handlers run one at a time, IAM refuses exactly what it must and   *)
(* the Lambda is never stopped mid-handler, no tenant is ever wedged:      *)
(* every account that no handler is running on can still be cleaned up by *)
(* submitting requests again (NoWedgedTenant), for every set of accounts.  *)
(*                                                                         *)
(* The argument: a settled account holds its IAM role exactly when the     *)
(* coordinator policy is attached (SettledIAMPaired).  Each handler breaks *)
(* the pair with its first call and restores it with its second; a failure *)
(* after the first call is undone by the first entry of the Map, and a     *)
(* failure after the second stops the rollback loop at that entry, where   *)
(* IAM refuses DeleteRole (policy still attached) or AttachRolePolicy (role *)
(* gone).  From a paired account one offboarding (if the role exists) or   *)
(* one onboarding followed by one offboarding removes everything.          *)
(***************************************************************************)
EXTENDS AdtechRecovery, AdtechSagaProofs

(* One Lambda invocation, rollback calls fail only when IAM refuses them, *)
(* and no timeout: the setting of the recovery_sequential run.             *)
SoloAssumption ==
    /\ \A p, q \in Invocations : p = q
    /\ CompensationsMayFail = FALSE
    /\ LambdaMayTimeOut = FALSE

(* The role exists exactly when the policy is attached to it. *)
Paired(S) == "role" \in S <=> "policy" \in S

(* Whenever no handler runs on an account, its IAM role exists exactly   *)
(* when the coordinator policy is attached to it: the conjunct of SoloInv *)
(* that NoWedgedTenant rests on (a role without its policy is what wedges *)
(* a tenant: CreateRole fails with EntityAlreadyExists, DetachRolePolicy  *)
(* with NoSuchEntity).                                                    *)
SettledIAMPaired ==
    \A a \in Accounts :
        Settled(a) => ("role" \in res[a] <=> "policy" \in res[a])

(* The inductive invariant: IInv, nothing for accounts IAM refuses, no    *)
(* interference, and a running handler started from a paired account.     *)
SoloInv ==
    /\ IInv
    /\ InvalidInv
    /\ \A q \in Invocations : ~interfered[q]
    /\ \A q \in Invocations : pc[q] \in Active => Paired(snap[q])
    /\ SettledIAMPaired


(* With one invocation, no step marks an invocation as interfered with:  *)
(* Interfere only marks other invocations on the same account.             *)
LEMMA NoInterference ==
    ASSUME SoloAssumption, TypeOK, \A q \in Invocations : ~interfered[q], Next
    PROVE  \A q \in Invocations : ~interfered'[q]
<1>1. PICK p \in Invocations :
        \/ Start(p) \/ ForwardOk(p) \/ ForwardFail(p) \/ Rollback(p)
        \/ RespondFailure(p) \/ Kill(p)
  BY DEF Next
<1>2. \A q \in Invocations : q = p
  BY DEF SoloAssumption
<1>3. \A q \in Invocations : ~Interfere(p)[q]
  BY <1>2, InterfereFacts
<1>4. ASSUME NEW m, Finish(p, m), m \in [Invocations -> BOOLEAN]
      PROVE  \A q \in Invocations : ~interfered'[q]
  BY <1>2, <1>4 DEF Finish
<1>5. Interfere(p) \in [Invocations -> BOOLEAN]
  BY InterfereFacts
<1>6. interfered \in [Invocations -> BOOLEAN]
  BY DEF TypeOK
<1>7. CASE Start(p) \/ ForwardFail(p)
  BY <1>7 DEF Start, ForwardFail
<1>8. CASE ForwardOk(p)
  <2>1. CASE step[p] = NumSteps
    BY <1>8, <2>1, <1>4, <1>5 DEF ForwardOk
  <2>2. CASE step[p] # NumSteps
    BY <1>8, <2>2, <1>3 DEF ForwardOk
  <2>3. QED
    BY <2>1, <2>2
<1>9. CASE Rollback(p)
  BY <1>9, <1>3, <1>4, <1>6 DEF Rollback
<1>10. CASE RespondFailure(p) \/ Kill(p)
  BY <1>10, <1>4, <1>6 DEF RespondFailure, Kill
<1>11. QED
  BY <1>1, <1>7, <1>8, <1>9, <1>10

(* What SoloInv says of the running invocation: its account holds what its *)
(* snapshot and checkpoint Map say, and it started from a paired account.  *)
LEMMA RunFacts ==
    ASSUME SoloInv, NEW p \in Invocations, pc[p] \in Active
    PROVE  /\ req[p].kind \in Kinds /\ req[p].acct \in Accounts
           /\ step[p] \in 1..NumSteps /\ cur[p] \in 1..NumSteps
           /\ ckpts[p] = Ledger(req[p].kind, step[p] - 1)
           /\ cur[p] <= step[p] /\ (cur[p] >= 2 => step[p] = 2)
           /\ (pc[p] = "fwd" => cur[p] = 1)
           /\ res[req[p].acct] = Expected(p)
           /\ Paired(snap[p])
<1>1. TypeOK /\ InvocationInv(p) /\ ~interfered[p] /\ Paired(snap[p])
  BY DEF SoloInv, IInv, TypeInv
<1>2. QED
  BY <1>1, LocalTypes DEF InvocationInv

(* The Map of a running invocation: Outstanding is the keys from the loop *)
(* position to the last forward call that succeeded.                       *)
LEMMA RunOutstanding ==
    ASSUME SoloInv, NEW p \in Invocations, pc[p] \in Active
    PROVE  /\ Len(ckpts[p]) = step[p] - 1
           /\ Outstanding(p) =
                {Checkpoint(req[p].kind, i) : i \in cur[p]..(step[p] - 1)}
<1>1. /\ req[p].kind \in Kinds /\ step[p] \in 1..NumSteps
      /\ cur[p] \in 1..NumSteps
      /\ ckpts[p] = Ledger(req[p].kind, step[p] - 1)
  BY RunFacts
<1>2. step[p] - 1 \in 0..(NumSteps - 1)
  BY <1>1 DEF NumSteps
<1>3. QED
  BY <1>1, <1>2, OutstandingLedger, LedgerShape


(* Expected(p) is paired once the Map holds both IAM keys: the onboarding *)
(* has added role and policy, the offboarding has removed both.            *)
LEMMA BothKeysPaired ==
    ASSUME SoloInv, NEW p \in Invocations, pc[p] \in Active,
           {"role", "policy"} \subseteq Outstanding(p)
    PROVE  Paired(Expected(p))
<1>1. req[p].kind \in Kinds
  BY RunFacts
<1>2. QED
  BY <1>1 DEF Expected, Paired, Kinds

(* The handler returns 500 after its rollback loop: the Map is used up, so *)
(* the account is as the handler found it, which was paired.               *)
LEMMA RespondPaired ==
    ASSUME SoloInv, NEW p \in Invocations, RespondFailure(p)
    PROVE  Paired(res[req[p].acct])
<1>1. pc[p] = "undo" /\ cur[p] > Len(ckpts[p])
  BY DEF RespondFailure
<1>2. /\ Len(ckpts[p]) = step[p] - 1
      /\ Outstanding(p) =
           {Checkpoint(req[p].kind, i) : i \in cur[p]..(step[p] - 1)}
      /\ step[p] \in 1..NumSteps /\ cur[p] \in 1..NumSteps
  BY <1>1, RunOutstanding, RunFacts DEF Active
<1>3. Outstanding(p) = {}
  BY <1>1, <1>2 DEF NumSteps
<1>4. Expected(p) = snap[p]
  BY <1>3 DEF Expected
<1>5. QED
  BY <1>1, <1>4, RunFacts DEF Active

(* The rollback loop stops because IAM refuses its call.  With one entry  *)
(* in the Map that call is DeleteRole with the policy attached, or        *)
(* AttachRolePolicy with the role gone: the pair is intact.  With two or   *)
(* more entries the loop is at the first (IInv), and both IAM keys are     *)
(* outstanding.                                                            *)
LEMMA RefusedPaired ==
    ASSUME SoloInv, NEW p \in Invocations, pc[p] = "undo",
           cur[p] <= Len(ckpts[p]),
           ~CanSucceed(RollbackCall(req[p].kind, ckpts[p][cur[p]]), req[p].acct)
    PROVE  Paired(res[req[p].acct])
<1> DEFINE a == req[p].acct
           k == req[p].kind
<1>1. /\ k \in Kinds /\ a \in Accounts
      /\ step[p] \in 1..NumSteps /\ cur[p] \in 1..NumSteps
      /\ (cur[p] >= 2 => step[p] = 2)
      /\ res[a] = Expected(p)
      /\ Len(ckpts[p]) = step[p] - 1
      /\ Outstanding(p) = {Checkpoint(k, i) : i \in cur[p]..(step[p] - 1)}
      /\ ckpts[p] = Ledger(k, step[p] - 1)
  BY RunFacts, RunOutstanding DEF Active
<1>2. cur[p] = 1 /\ step[p] \in 2..NumSteps
  BY <1>1 DEF NumSteps
<1>3. ckpts[p][cur[p]] = Checkpoint(k, 1)
  <2>1. step[p] - 1 \in 0..(NumSteps - 1) /\ 1 \in 1..(step[p] - 1)
    BY <1>2 DEF NumSteps
  <2>2. QED
    BY <1>1, <1>2, <2>1, LedgerShape
<1>4. CASE step[p] = 2
  <2>1. Outstanding(p) = {Checkpoint(k, 1)}
    BY <1>1, <1>2, <1>4
  <2>2. CASE k = "onboard"
    <3>1. res[a] = snap[p] \cup {"role"}
      BY <1>1, <2>1, <2>2 DEF Expected, Checkpoint, IAM_ROLE_CHECKPOINT
    <3>2. ~Allowed(deleteIAMRole, a, res[a])
      BY <1>3, <2>2 DEF CanSucceed, RollbackCall, OnboardingRollback,
                        Checkpoint, IAM_ROLE_CHECKPOINT
    <3>3. "policy" \in res[a]
      BY <3>1, <3>2 DEF Allowed, deleteIAMRole, createIAMRole,
                       attachRolePolicy, detachRolePolicy
    <3>4. QED
      BY <3>1, <3>3 DEF Paired
  <2>3. CASE k = "offboard"
    <3>1. res[a] = snap[p] \ {"policy"}
      BY <1>1, <2>1, <2>3 DEF Expected, Checkpoint, IAM_ROLE_POLICY_CHECKPOINT
    <3>2. ~Allowed(attachRolePolicy, a, res[a])
      BY <1>3, <2>3 DEF CanSucceed, RollbackCall, OffboardingRollback,
                        Checkpoint, IAM_ROLE_POLICY_CHECKPOINT
    <3>3. "role" \notin res[a]
      BY <3>2 DEF Allowed, deleteIAMRole, createIAMRole,
                 attachRolePolicy, detachRolePolicy
    <3>4. QED
      BY <3>1, <3>3 DEF Paired
  <2>4. QED
    BY <1>1, <2>2, <2>3 DEF Kinds
<1>5. CASE step[p] # 2
  <2>1. {1, 2} \subseteq cur[p]..(step[p] - 1)
    BY <1>2, <1>5 DEF NumSteps
  <2>2. {Checkpoint(k, 1), Checkpoint(k, 2)} = {"role", "policy"}
    BY <1>1 DEF Checkpoint, Kinds, IAM_ROLE_CHECKPOINT, IAM_ROLE_POLICY_CHECKPOINT
  <2>3. {"role", "policy"} \subseteq Outstanding(p)
    BY <1>1, <2>1, <2>2
  <2>4. QED
    BY <1>1, <2>3, BothKeysPaired DEF Active
<1>6. QED
  BY <1>4, <1>5

(* The last forward call (PutItem into the PBS Auth table) succeeds: the  *)
(* Map holds all three keys, so the IAM pair is complete or gone, and the *)
(* call only touches the auth entry.                                       *)
LEMMA LastPaired ==
    ASSUME SoloInv, NEW p \in Invocations, ForwardOk(p), step[p] = NumSteps
    PROVE  Paired(res'[req[p].acct])
<1> DEFINE a == req[p].acct
           k == req[p].kind
           c == Workflow(k)[step[p]]
<1>1. pc[p] = "fwd" /\ res' = Apply(c, a)
  BY DEF ForwardOk
<1>2. /\ k \in Kinds /\ a \in Accounts /\ cur[p] = 1
      /\ res[a] = Expected(p)
      /\ Outstanding(p) = {Checkpoint(k, i) : i \in cur[p]..(step[p] - 1)}
  BY <1>1, RunFacts, RunOutstanding DEF Active
<1>3. {"role", "policy"} \subseteq Outstanding(p)
  BY <1>2 DEF Checkpoint, Kinds, NumSteps, IAM_ROLE_CHECKPOINT,
              IAM_ROLE_POLICY_CHECKPOINT
<1>4. Paired(res[a])
  BY <1>1, <1>2, <1>3, BothKeysPaired DEF Active
<1>5. c \in Calls /\ c.r = "auth"
  BY <1>2, WorkflowTyped DEF Workflow, NumSteps, Kinds, addToPBSAuthDB,
                            deleteFromPBSAuthDB
<1>6. res'[a] = IF c.put THEN res[a] \cup {c.r} ELSE res[a] \ {c.r}
  BY <1>1, <1>2, <1>5, ApplyEffect DEF SoloInv, IInv, TypeInv
<1>7. QED
  BY <1>4, <1>5, <1>6 DEF Paired


(* With one invocation, an account is settled when that invocation is not *)
(* running on it.                                                          *)
LEMMA SettledBefore ==
    ASSUME SoloAssumption, SoloInv, NEW p \in Invocations, NEW b \in Accounts,
           pc[p] \in Active => req[p].acct # b
    PROVE  Paired(res[b])
BY DEF SoloAssumption, SoloInv, SettledIAMPaired, Settled, Paired

(* Every step keeps SoloInv, when handlers run one at a time.             *)
LEMMA SoloStep ==
    ASSUME SoloAssumption, SoloInv, [Next]_vars
    PROVE  SoloInv'
<1>1. TypeOK /\ IInv /\ InvalidInv
  BY DEF SoloInv, IInv, TypeInv
<1>2. IInv'
  BY <1>1, IInvStep
<1>3. CASE UNCHANGED vars
  BY <1>2, <1>3 DEF SoloInv, InvalidInv, SettledIAMPaired, Settled, vars
<1>4. CASE Next
  <2>1. InvalidInv'
    BY <1>1, <1>4, InvalidStep
  <2>2. \A q \in Invocations : ~interfered'[q]
    BY <1>1, <1>4, NoInterference DEF SoloInv
  <2>3. PICK p \in Invocations :
          \/ Start(p) \/ ForwardOk(p) \/ ForwardFail(p) \/ Rollback(p)
          \/ RespondFailure(p) \/ Kill(p)
    BY <1>4 DEF Next
  <2>4. \A q \in Invocations : q = p
    BY DEF SoloAssumption
  <2> DEFINE a == req[p].acct
  <2>5. a \in Accounts /\ req[p].kind \in Kinds
    BY <1>1, LocalTypes
  <2>6. ~Kill(p)
    BY DEF Kill, SoloAssumption
  <2>7. ASSUME NEW m, Finish(p, m) PROVE pc'[p] = Idle
    BY <1>1, <2>7, FinishFrame
  (* The started invocation's snapshot is paired. *)
  <2>8. pc'[p] \in Active => Paired(snap'[p])
    <3>1. CASE Start(p)
      <4>1. PICK r \in Requests : req' = [req EXCEPT ![p] = r]
                                  /\ snap' = [snap EXCEPT ![p] = res[r.acct]]
        BY <3>1 DEF Start
      <4>2. r.acct \in Accounts /\ pc[p] = Idle
        BY <3>1 DEF Requests, Start
      <4>3. Paired(res[r.acct])
        BY <4>2, SettledBefore DEF Idle, Active
      <4>4. QED
        BY <1>1, <4>1, <4>3 DEF TypeOK
    <3>2. CASE ForwardOk(p) \/ ForwardFail(p) \/ Rollback(p)
      <4>1. pc[p] \in Active
        BY <3>2 DEF ForwardOk, ForwardFail, Rollback, Active
      <4>2. Paired(snap[p])
        BY <4>1 DEF SoloInv
      <4>3. CASE snap' = snap
        BY <4>2, <4>3
      <4>4. CASE snap' # snap
        <5>1. \E m : Finish(p, m)
          BY <3>2, <4>4 DEF ForwardOk, ForwardFail, Rollback
        <5>2. QED
          BY <5>1, <2>7 DEF Idle, Active
      <4>5. QED
        BY <4>3, <4>4
    <3>3. CASE RespondFailure(p)
      BY <3>3, <2>7 DEF RespondFailure, Idle, Active
    <3>4. QED
      BY <2>3, <2>6, <3>1, <3>2, <3>3
  (* Every account settled after the step is paired. *)
  <2>9. SettledIAMPaired'
    <3> SUFFICES ASSUME NEW b \in Accounts, Settled(b)'
                 PROVE  Paired(res'[b])
      BY DEF SettledIAMPaired, Paired
    <3>1. pc'[p] \in Active => req'[p].acct # b
      BY DEF Settled
    <3>2. CASE Start(p)
      <4>1. res' = res /\ pc[p] = Idle
        BY <3>2 DEF Start
      <4>2. QED
        BY <4>1, SettledBefore DEF Idle, Active
    <3>3. CASE ForwardOk(p)
      <4> DEFINE c == Workflow(req[p].kind)[step[p]]
      <4>1. c \in Calls /\ res' = Apply(c, a) /\ req' = req
        BY <1>1, <3>3, LocalTypes, WorkflowTyped DEF ForwardOk
      <4>2. b # a => res'[b] = res[b]
        BY <1>1, <2>5, <4>1, ApplyEffect
      <4>3. CASE step[p] = NumSteps
        <5>1. CASE b = a
          BY <3>3, <4>3, <5>1, LastPaired DEF SoloInv
        <5>2. CASE b # a
          BY <4>2, <5>2, SettledBefore
        <5>3. QED
          BY <5>1, <5>2
      <4>4. CASE step[p] # NumSteps
        <5>1. pc'[p] = "fwd"
          BY <3>3, <4>4 DEF ForwardOk
        <5>2. b # a
          BY <3>1, <4>1, <5>1 DEF Active
        <5>3. QED
          BY <4>2, <5>2, SettledBefore
      <4>5. QED
        BY <4>3, <4>4
    <3>4. CASE ForwardFail(p)
      <4>1. res' = res /\ req' = req /\ pc'[p] = "undo"
        BY <1>1, <3>4 DEF ForwardFail, TypeOK
      <4>2. QED
        BY <3>1, <4>1, SettledBefore DEF Active
    <3>5. CASE Rollback(p)
      <4> DEFINE c == RollbackCall(req[p].kind, ckpts[p][cur[p]])
      <4>1. pc[p] = "undo" /\ cur[p] <= Len(ckpts[p]) /\ req' = req
        BY <3>5 DEF Rollback
      <4>2. CASE /\ CanSucceed(c, a) /\ res' = Apply(c, a)
                 /\ UNCHANGED pc
        <5>1. c \in Calls
          BY <1>1, <3>5, RollbackCallOf
        <5>2. b # a
          BY <3>1, <4>1, <4>2 DEF Active
        <5>3. res'[b] = res[b]
          BY <1>1, <2>5, <4>2, <5>1, <5>2, ApplyEffect
        <5>4. QED
          BY <5>2, <5>3, SettledBefore
      <4>3. CASE /\ ~CanSucceed(c, a) \/ CompensationsMayFail
                 /\ UNCHANGED res
        <5>1. ~CanSucceed(c, a)
          BY <4>3 DEF SoloAssumption
        <5>2. CASE b = a
          BY <4>1, <4>3, <5>1, <5>2, RefusedPaired DEF SoloInv
        <5>3. CASE b # a
          BY <4>3, <5>3, SettledBefore
        <5>4. QED
          BY <5>2, <5>3
      <4>4. QED
        BY <3>5, <4>2, <4>3 DEF Rollback
    <3>6. CASE RespondFailure(p)
      <4>1. res' = res
        BY <3>6 DEF RespondFailure
      <4>2. CASE b = a
        BY <3>6, <4>1, <4>2, RespondPaired DEF SoloInv
      <4>3. CASE b # a
        BY <4>1, <4>3, SettledBefore
      <4>4. QED
        BY <4>2, <4>3
    <3>7. QED
      BY <2>3, <2>6, <3>2, <3>3, <3>4, <3>5, <3>6
  <2>10. \A q \in Invocations : pc'[q] \in Active => Paired(snap'[q])
    BY <2>4, <2>8
  <2>11. QED
    BY <1>2, <2>1, <2>2, <2>9, <2>10 DEF SoloInv
<1>5. QED
  BY <1>3, <1>4


(* The initial state satisfies SoloInv: nothing exists and nobody runs.   *)
LEMMA SoloInit == Init => SoloInv
<1> SUFFICES ASSUME Init PROVE SoloInv
  OBVIOUS
<1>1. IInv
  BY IInvInit
<1>2. InvalidInv
  BY ConstantsAssumption DEF Init, InvalidInv, Idle, Active
<1>3. QED
  BY <1>1, <1>2 DEF Init, SoloInv, SettledIAMPaired, Paired, Idle, Active

(* When handlers run one at a time, IAM refuses only what it must and no  *)
(* Lambda times out, every account no handler is running on has its role  *)
(* exactly when the coordinator policy is attached.                       *)
LEMMA SettledIAMPairedHolds ==
    ASSUME SoloAssumption
    PROVE  Spec => []SettledIAMPaired
<1>1. Init => SoloInv
  BY SoloInit
<1>2. SoloInv /\ [Next]_vars => SoloInv'
  BY SoloStep
<1>3. SoloInv => SettledIAMPaired
  BY DEF SoloInv
<1>4. QED
  BY <1>1, <1>2, <1>3, PTL DEF Spec

-----------------------------------------------------------------------------
(***************************************************************************)
(* What one handler run alone does to a paired account.                    *)
(***************************************************************************)

(* ForwardFrom is the function its recursive definition describes: the   *)
(* definition has a solution, built call by call.                         *)
LEMMA ForwardFromDef ==
    ASSUME NEW kind, NEW S
    PROVE  ForwardFrom(kind, S) =
             [i \in 0..NumSteps |->
                IF i = 0 THEN S
                ELSE Effect(Workflow(kind)[i], ForwardFrom(kind, S)[i - 1])]
<1> DEFINE W  == Workflow(kind)
           e1 == Effect(W[1], S)
           e2 == Effect(W[2], e1)
           e3 == Effect(W[3], e2)
           e4 == Effect(W[4], e3)
           g  == [i \in 0..NumSteps |->
                    IF i = 0 THEN S ELSE IF i = 1 THEN e1
                    ELSE IF i = 2 THEN e2 ELSE IF i = 3 THEN e3 ELSE e4]
<1>1. g = [i \in 0..NumSteps |-> IF i = 0 THEN S ELSE Effect(W[i], g[i - 1])]
  BY DEF NumSteps
<1>2. QED
  BY <1>1 DEF ForwardFrom


(* An offboarding run alone on an account holding its role and attached  *)
(* policy succeeds at every call and removes everything.                   *)
LEMMA OffboardCleans ==
    ASSUME NEW a \in Accounts, NEW S \in SUBSET Resources,
           "role" \in S, "policy" \in S
    PROVE  SoloRun("offboard", a, S) = {}
<1> DEFINE W   == Workflow("offboard")
           fwd == ForwardFrom("offboard", S)
<1> USE DEF NumSteps, Workflow, detachRolePolicy, deleteIAMRole,
            deleteFromAdtechMgmtDB, deleteFromPBSAuthDB
<1>1. fwd = [i \in 0..NumSteps |->
               IF i = 0 THEN S ELSE Effect(W[i], fwd[i - 1])]
  BY ForwardFromDef
<1>2. fwd[0] = S
  BY <1>1
<1>3. fwd[1] = S \ {"policy"}
  BY <1>1, <1>2 DEF Effect
<1>4. fwd[2] = S \ {"policy", "role"}
  BY <1>1, <1>3 DEF Effect
<1>5. fwd[3] = S \ {"policy", "role", "mgmt"}
  BY <1>1, <1>4 DEF Effect
<1>6. fwd[4] = {}
  <2>1. fwd[4] = fwd[3] \ {"auth"}
    BY <1>1 DEF Effect
  <2>2. \A x \in S : x \in {"policy", "role", "mgmt", "auth"}
    BY DEF Resources
  <2>3. QED
    BY <1>5, <2>1, <2>2
<1>7. \A i \in 1..NumSteps : Allowed(W[i], a, fwd[i - 1])
  BY <1>2, <1>3, <1>4, <1>5
     DEF Allowed, createIAMRole, attachRolePolicy
<1>8. Least({i \in 1..NumSteps : ~Allowed(W[i], a, fwd[i - 1])}
              \cup {NumSteps + 1}) = NumSteps + 1
  <2>1. {i \in 1..NumSteps : ~Allowed(W[i], a, fwd[i - 1])} = {}
    BY <1>7
  <2>2. Least({NumSteps + 1}) = NumSteps + 1
    BY DEF Least
  <2>3. QED
    BY <2>1, <2>2
<1>9. QED
  BY <1>6, <1>8 DEF SoloRun

(* An onboarding run alone on a valid account without a role succeeds at *)
(* every call and leaves every resource in place.                          *)
LEMMA OnboardCompletes ==
    ASSUME NEW a \in Accounts \ InvalidAccounts, NEW S \in SUBSET Resources,
           "role" \notin S
    PROVE  SoloRun("onboard", a, S) = Resources
<1> DEFINE W   == Workflow("onboard")
           fwd == ForwardFrom("onboard", S)
<1> USE DEF NumSteps, Workflow, createIAMRole, attachRolePolicy,
            addToAdtechMgmtDB, addToPBSAuthDB
<1>1. fwd = [i \in 0..NumSteps |->
               IF i = 0 THEN S ELSE Effect(W[i], fwd[i - 1])]
  BY ForwardFromDef
<1>2. fwd[0] = S
  BY <1>1
<1>3. fwd[1] = S \cup {"role"}
  BY <1>1, <1>2 DEF Effect
<1>4. fwd[2] = S \cup {"role", "policy"}
  BY <1>1, <1>3 DEF Effect
<1>5. fwd[3] = S \cup {"role", "policy", "mgmt"}
  BY <1>1, <1>4 DEF Effect
<1>6. fwd[4] = Resources
  <2>1. fwd[4] = fwd[3] \cup {"auth"}
    BY <1>1 DEF Effect
  <2>2. \A x \in S : x \in {"policy", "role", "mgmt", "auth"}
    BY DEF Resources
  <2>3. QED
    BY <1>5, <2>1, <2>2 DEF Resources
<1>7. \A i \in 1..NumSteps : Allowed(W[i], a, fwd[i - 1])
  BY <1>2, <1>3, <1>4, <1>5
     DEF Allowed, deleteIAMRole, detachRolePolicy
<1>8. Least({i \in 1..NumSteps : ~Allowed(W[i], a, fwd[i - 1])}
              \cup {NumSteps + 1}) = NumSteps + 1
  <2>1. {i \in 1..NumSteps : ~Allowed(W[i], a, fwd[i - 1])} = {}
    BY <1>7
  <2>2. Least({NumSteps + 1}) = NumSteps + 1
    BY DEF Least
  <2>3. QED
    BY <2>1, <2>2
<1>9. QED
  BY <1>6, <1>8 DEF SoloRun


-----------------------------------------------------------------------------
(***************************************************************************)
(* The rounds of Recoverable.                                              *)
(***************************************************************************)

(* A round keeps every state already known to be cleanable. *)
LEMMA CleanableGrows ==
    ASSUME NEW a, NEW R
    PROVE  R \subseteq CleanableBy(a, R)
BY DEF CleanableBy

LEMMA CleanableGrows4 ==
    ASSUME NEW a, NEW R
    PROVE  R \subseteq CleanableBy4(a, R)
<1>1. R \subseteq CleanableBy(a, R)
  BY CleanableGrows
<1>2. CleanableBy(a, R) \subseteq CleanableBy(a, CleanableBy(a, R))
  BY CleanableGrows
<1>3. CleanableBy(a, CleanableBy(a, R))
        \subseteq CleanableBy(a, CleanableBy(a, CleanableBy(a, R)))
  BY CleanableGrows
<1>4. CleanableBy(a, CleanableBy(a, CleanableBy(a, R)))
        \subseteq CleanableBy4(a, R)
  BY CleanableGrows DEF CleanableBy4
<1>5. QED
  BY <1>1, <1>2, <1>3, <1>4

(* A state from which one request leads into R is added by a round. *)
LEMMA CleanableStep ==
    ASSUME NEW a, NEW R, NEW S \in SUBSET Resources, NEW kind \in Kinds,
           SoloRun(kind, a, S) \in R
    PROVE  S \in CleanableBy(a, R)
<1>1. (IF \E k \in Kinds : SoloRun(k, a, S) \in R THEN {S} ELSE {}) = {S}
  OBVIOUS
<1>2. QED
  BY <1>1 DEF CleanableBy

(* Everything in the first two rounds is recoverable. *)
LEMMA TwoRoundsRecoverable ==
    ASSUME NEW a \in Accounts, NEW S,
           S \in CleanableBy(a, CleanableBy(a, {{}}))
    PROVE  S \in Recoverable[a]
<1> DEFINE C2 == CleanableBy(a, CleanableBy(a, {{}}))
           R1 == CleanableBy4(a, {{}})
           R2 == CleanableBy4(a, R1)
           R3 == CleanableBy4(a, R2)
<1>1. C2 \subseteq CleanableBy(a, C2)
  BY CleanableGrows
<1>2. CleanableBy(a, C2) \subseteq CleanableBy(a, CleanableBy(a, C2))
  BY CleanableGrows
<1>3. C2 \subseteq R1
  BY <1>1, <1>2 DEF CleanableBy4
<1>4. R1 \subseteq R2 /\ R2 \subseteq R3 /\ R3 \subseteq CleanableBy4(a, R3)
  BY CleanableGrows4
<1>5. Recoverable[a] = CleanableBy4(a, R3)
  BY DEF Recoverable
<1>6. QED
  BY <1>3, <1>4, <1>5

(* A paired account of a valid tenant is recoverable: offboard it if the *)
(* role exists, otherwise onboard it first.                                *)
LEMMA PairedRecoverable ==
    ASSUME NEW a \in Accounts \ InvalidAccounts, NEW S \in SUBSET Resources,
           Paired(S)
    PROVE  S \in Recoverable[a]
<1> DEFINE C1 == CleanableBy(a, {{}})
           C2 == CleanableBy(a, C1)
<1>1. ASSUME NEW T \in SUBSET Resources, "role" \in T, "policy" \in T
      PROVE  T \in C1
  <2>1. SoloRun("offboard", a, T) \in {{}}
    BY <1>1, OffboardCleans
  <2>2. QED
    BY <2>1, CleanableStep DEF Kinds
<1>2. S \in C2
  <2>1. CASE "role" \in S
    <3>1. S \in C1
      BY <2>1, <1>1 DEF Paired
    <3>2. QED
      BY <3>1, CleanableGrows
  <2>2. CASE "role" \notin S
    <3>1. SoloRun("onboard", a, S) = Resources
      BY <2>2, OnboardCompletes
    <3>2. Resources \in C1
      BY <1>1 DEF Resources
    <3>3. QED
      BY <3>1, <3>2, CleanableStep DEF Kinds
  <2>3. QED
    BY <2>1, <2>2
<1>3. QED
  BY <1>2, TwoRoundsRecoverable

(* NoWedgedTenant, for every set of accounts, when handlers run one at a *)
(* time, IAM refuses only what it must and no Lambda times out: whatever   *)
(* the onboarding and offboarding handlers did, and wherever their calls   *)
(* failed, a tenant no handler is running on can be cleaned up by          *)
(* submitting requests again.                                              *)
THEOREM NoWedgedTenantSolo ==
    ASSUME SoloAssumption
    PROVE  Spec => []NoWedgedTenant
<1>1. SoloInv => NoWedgedTenant
  <2> SUFFICES ASSUME SoloInv, NEW a \in Accounts, Settled(a)
               PROVE  res[a] \in Recoverable[a]
    BY DEF NoWedgedTenant
  <2>1. res[a] \in SUBSET Resources
    BY DEF SoloInv, IInv, TypeInv, TypeOK
  <2>2. CASE a \in InvalidAccounts
    <3>1. res[a] = {}
      BY <2>2 DEF SoloInv, InvalidInv
    <3>2. {} \in CleanableBy(a, CleanableBy(a, {{}}))
      <4>1. {} \in CleanableBy(a, {{}})
        BY CleanableGrows
      <4>2. QED
        BY <4>1, CleanableGrows
    <3>3. QED
      BY <3>1, <3>2, TwoRoundsRecoverable
  <2>3. CASE a \notin InvalidAccounts
    <3>1. Paired(res[a])
      BY DEF SoloInv, SettledIAMPaired, Paired
    <3>2. QED
      BY <2>1, <2>3, <3>1, PairedRecoverable
  <2>4. QED
    BY <2>2, <2>3
<1>2. QED
  BY SoloInit, SoloStep, <1>1, PTL DEF Spec

=============================================================================

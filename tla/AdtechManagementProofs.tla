----------------------- MODULE AdtechManagementProofs -----------------------
(***************************************************************************)
(* Proofs about the onboarding/offboarding handlers of AdtechManagement,   *)
(* for every set of accounts and every number of concurrent invocations.   *)
(***************************************************************************)
EXTENDS AdtechManagement, TLAPS

(***************************************************************************)
(* TypeOK is not inductive by itself: the rollback loop increments cur     *)
(* while cur <= Len(ckpts), so cur stays in 1..NumSteps only because the    *)
(* Map never holds more entries than forward calls were made before the    *)
(* current one.                                                             *)
(***************************************************************************)
LedgerBound ==
    \A p \in Invocations : Len(ckpts[p]) < step[p]

TypeInv == TypeOK /\ LedgerBound

LEMMA CallsTyped ==
    /\ createIAMRole \in Calls /\ deleteIAMRole \in Calls
    /\ attachRolePolicy \in Calls /\ detachRolePolicy \in Calls
    /\ addToAdtechMgmtDB \in Calls /\ deleteFromAdtechMgmtDB \in Calls
    /\ addToPBSAuthDB \in Calls /\ deleteFromPBSAuthDB \in Calls
BY DEF Calls, Resources, createIAMRole, deleteIAMRole, attachRolePolicy,
       detachRolePolicy, addToAdtechMgmtDB, deleteFromAdtechMgmtDB,
       addToPBSAuthDB, deleteFromPBSAuthDB

LEMMA WorkflowTyped ==
    ASSUME NEW kind \in Kinds, NEW i \in 1..NumSteps
    PROVE  Workflow(kind)[i] \in Calls
BY CallsTyped DEF Workflow, Kinds, NumSteps

LEMMA CheckpointTyped ==
    ASSUME NEW kind \in Kinds, NEW i \in 1..(NumSteps - 1)
    PROVE  Checkpoint(kind, i) \in CheckpointKeys
BY DEF Checkpoint, Kinds, NumSteps, CheckpointKeys, IAM_ROLE_CHECKPOINT,
       IAM_ROLE_POLICY_CHECKPOINT, ADTECH_MGMT_CHECKPOINT

LEMMA ApplyTyped ==
    ASSUME TypeOK, NEW c \in Calls, NEW a \in Accounts
    PROVE  Apply(c, a) \in [Accounts -> SUBSET Resources]
BY DEF TypeOK, Apply, Effect, Calls

LEMMA MapSetTyped ==
    ASSUME NEW m \in Seq(CheckpointKeys), NEW key \in CheckpointKeys
    PROVE  /\ MapSet(m, key) \in Seq(CheckpointKeys)
           /\ Len(MapSet(m, key)) <= Len(m) + 1
BY DEF MapSet

(* The fields of one invocation have their types. *)
LEMMA LocalTypes ==
    ASSUME TypeOK, NEW p \in Invocations
    PROVE  /\ req[p].kind \in Kinds /\ req[p].acct \in Accounts
           /\ step[p] \in 1..NumSteps /\ cur[p] \in 1..NumSteps
           /\ ckpts[p] \in Seq(CheckpointKeys)
BY DEF TypeOK, Requests

LEMMA TypeInit == Init => TypeInv
BY DEF Init, TypeInv, TypeOK, LedgerBound, NumSteps, ErrorNames, Active, Idle

LEMMA TypeStep == TypeInv /\ [Next]_vars => TypeInv'
<1> SUFFICES ASSUME TypeInv, [Next]_vars PROVE TypeInv'
  OBVIOUS
<1> USE DEF TypeInv, TypeOK, LedgerBound, NumSteps, Idle, Active, ErrorNames
<1>1. ASSUME NEW p \in Invocations, Start(p) PROVE TypeInv'
  BY <1>1 DEF Start, Requests
<1>2. ASSUME NEW p \in Invocations, ForwardOk(p) PROVE TypeInv'
  <2> DEFINE a == req[p].acct
             c == Workflow(req[p].kind)[step[p]]
  <2>0. /\ req[p].kind \in Kinds /\ a \in Accounts
        /\ step[p] \in 1..NumSteps /\ ckpts[p] \in Seq(CheckpointKeys)
    BY LocalTypes
  <2>1. c \in Calls
    BY <2>0, WorkflowTyped
  <2>2. res' \in [Accounts -> SUBSET Resources]
    BY <1>2, <2>0, <2>1, ApplyTyped DEF ForwardOk
  <2>3. CASE step[p] = NumSteps
    <3>1. /\ Finish(p, Interfere(p))
          /\ UNCHANGED req
      BY <1>2, <2>3 DEF ForwardOk
    <3>2. Interfere(p) \in [Invocations -> BOOLEAN]
      BY DEF Interfere
    <3>3. QED
      BY <2>2, <3>1, <3>2 DEF Finish
  <2>4. CASE step[p] # NumSteps
    <3> DEFINE key == Checkpoint(req[p].kind, step[p])
    <3>1. key \in CheckpointKeys
      BY <2>0, <2>4, CheckpointTyped
    <3>2. /\ MapSet(ckpts[p], key) \in Seq(CheckpointKeys)
          /\ Len(MapSet(ckpts[p], key)) <= Len(ckpts[p]) + 1
      BY <2>0, <3>1, MapSetTyped
    <3>3. /\ ckpts' = [ckpts EXCEPT ![p] = MapSet(ckpts[p], key)]
          /\ step' = [step EXCEPT ![p] = step[p] + 1]
          /\ interfered' = Interfere(p)
          /\ UNCHANGED <<req, pc, cur, err, snap>>
      BY <1>2, <2>4 DEF ForwardOk
    <3>4. step[p] + 1 \in 1..NumSteps
      BY <2>0, <2>4
    <3>5. QED
      BY <2>0, <2>2, <3>2, <3>3, <3>4 DEF Interfere
  <2>5. QED
    BY <2>3, <2>4
<1>3. ASSUME NEW p \in Invocations, ForwardFail(p) PROVE TypeInv'
  <2>1. \A c, a : CallErrors(c, a) \subseteq ErrorNames
    BY DEF CallErrors
  <2>2. QED
    BY <1>3, <2>1 DEF ForwardFail
<1>4. ASSUME NEW p \in Invocations, Rollback(p) PROVE TypeInv'
  <2> DEFINE a == req[p].acct
             c == RollbackCall(req[p].kind, ckpts[p][cur[p]])
  <2>0. /\ req[p].kind \in Kinds /\ a \in Accounts
        /\ step[p] \in 1..NumSteps /\ cur[p] \in 1..NumSteps
        /\ ckpts[p] \in Seq(CheckpointKeys)
        /\ cur[p] <= Len(ckpts[p]) /\ Len(ckpts[p]) < step[p]
    BY <1>4, LocalTypes DEF Rollback
  <2>1. c \in Calls
    <3>1. ckpts[p][cur[p]] \in CheckpointKeys
      BY <2>0
    <3>2. QED
      BY <3>1, CallsTyped DEF RollbackCall,
         OnboardingRollback, OffboardingRollback, CheckpointKeys,
         IAM_ROLE_CHECKPOINT, IAM_ROLE_POLICY_CHECKPOINT, ADTECH_MGMT_CHECKPOINT
  <2>2. CASE /\ CanSucceed(c, a) /\ res' = Apply(c, a)
             /\ interfered' = Interfere(p)
             /\ cur' = [cur EXCEPT ![p] = cur[p] + 1]
             /\ UNCHANGED <<pc, step, ckpts, err, snap>>
    <3>1. cur[p] + 1 \in 1..NumSteps
      BY <2>0
    <3>2. QED
      BY <1>4, <2>0, <2>1, <2>2, <3>1, ApplyTyped DEF Rollback, Interfere
  <2>3. CASE Finish(p, interfered) /\ UNCHANGED res
    BY <1>4, <2>3 DEF Rollback, Finish
  <2>4. QED
    BY <1>4, <2>2, <2>3 DEF Rollback
<1>5. ASSUME NEW p \in Invocations, RespondFailure(p) PROVE TypeInv'
  BY <1>5 DEF RespondFailure, Finish
<1>6. ASSUME NEW p \in Invocations, Kill(p) PROVE TypeInv'
  BY <1>6 DEF Kill, Finish
<1>7. CASE UNCHANGED vars
  BY <1>7 DEF vars
<1>8. QED
  BY <1>1, <1>2, <1>3, <1>4, <1>5, <1>6, <1>7 DEF Next

(* The type of every variable is preserved by every step. *)
THEOREM TypeCorrect == Spec => []TypeOK
<1>1. TypeInv => TypeOK
  BY DEF TypeInv
<1>2. QED
  BY TypeInit, TypeStep, <1>1, PTL DEF Spec

-----------------------------------------------------------------------------
(***************************************************************************)
(* The inductive invariant behind CheckpointsReflectStores.                *)
(*                                                                         *)
(* Ledger(kind, n) is the checkpoint Map after n forward calls succeeded:  *)
(* the handler's keys, in program order.                                   *)
(***************************************************************************)
Ledger(kind, n) == [i \in 1..n |-> Checkpoint(kind, i)]

(* IAM never holds a policy attachment without its role. *)
IAMConsistent(S) == "policy" \in S => "role" \in S

StoresIAM == \A a \in Accounts : IAMConsistent(res[a])

(***************************************************************************)
(* What an invocation knows about its account while no one interferes:     *)
(* the stores are its snapshot changed by the outstanding checkpoints; the *)
(* first forward call found the account in the state it needs (no role for *)
(* onboarding, an attached policy for offboarding); and the rollback loop  *)
(* gets past its first entry only when the Map has a single entry, since   *)
(* with two entries the first rollback call is rejected by IAM (DeleteRole *)
(* while the policy is attached, AttachRolePolicy to the deleted role).    *)
(***************************************************************************)
InvocationInv(p) ==
    /\ pc[p] = Idle =>
         step[p] = 1 /\ ckpts[p] = <<>> /\ cur[p] = 1 /\ ~interfered[p]
    /\ pc[p] \in Active =>
         /\ ckpts[p] = Ledger(req[p].kind, step[p] - 1)
         /\ cur[p] <= step[p]
         /\ pc[p] = "fwd" => cur[p] = 1
         /\ IAMConsistent(snap[p])
         /\ ~interfered[p] =>
              /\ res[req[p].acct] = Expected(p)
              /\ step[p] >= 2 =>
                   IF req[p].kind = "onboard" THEN "role" \notin snap[p]
                   ELSE "policy" \in snap[p]
              /\ cur[p] >= 2 => step[p] = 2

IInv == TypeInv /\ StoresIAM /\ \A p \in Invocations : InvocationInv(p)

(* The n-th forward call of a workflow changes the resource its checkpoint *)
(* key names, adding it for onboarding and removing it for offboarding.    *)
LEMMA WorkflowCheckpoint ==
    ASSUME NEW kind \in Kinds, NEW i \in 1..(NumSteps - 1)
    PROVE  /\ Workflow(kind)[i].r = Checkpoint(kind, i)
           /\ Workflow(kind)[i].put = (kind = "onboard")
<1> USE DEF Workflow, Checkpoint, IAM_ROLE_CHECKPOINT,
       IAM_ROLE_POLICY_CHECKPOINT, ADTECH_MGMT_CHECKPOINT, createIAMRole,
       deleteIAMRole, attachRolePolicy, detachRolePolicy, addToAdtechMgmtDB,
       deleteFromAdtechMgmtDB, addToPBSAuthDB, deleteFromPBSAuthDB
<1>1. i \in {1, 2, 3}
  BY DEF NumSteps
<1>2. CASE i = 1
  BY <1>2
<1>3. CASE i = 2
  BY <1>3
<1>4. CASE i = 3
  BY <1>4
<1>5. QED
  BY <1>1, <1>2, <1>3, <1>4

(* Setting the n-th key extends the Map: the keys of a workflow are        *)
(* distinct, so Map.set never hits an existing key.                        *)
LEMMA LedgerGrows ==
    ASSUME NEW kind \in Kinds, NEW n \in 1..(NumSteps - 1)
    PROVE  MapSet(Ledger(kind, n - 1), Checkpoint(kind, n)) = Ledger(kind, n)
<1>1. Checkpoint(kind, n) \notin Range(Ledger(kind, n - 1))
  BY DEF Checkpoint, Ledger, Range, Kinds, NumSteps, IAM_ROLE_CHECKPOINT,
         IAM_ROLE_POLICY_CHECKPOINT, ADTECH_MGMT_CHECKPOINT
<1>2. Append(Ledger(kind, n - 1), Checkpoint(kind, n)) = Ledger(kind, n)
  BY DEF Ledger, NumSteps
<1>3. QED
  BY <1>1, <1>2 DEF MapSet

LEMMA LedgerShape ==
    ASSUME NEW kind \in Kinds, NEW n \in 0..(NumSteps - 1)
    PROVE  /\ Len(Ledger(kind, n)) = n
           /\ \A i \in 1..n : Ledger(kind, n)[i] = Checkpoint(kind, i)
           /\ Ledger(kind, 0) = <<>>
BY DEF Ledger, NumSteps

(* The outstanding checkpoints of a Map that follows the workflow. *)
LEMMA OutstandingLedger ==
    ASSUME NEW p \in Invocations, NEW n \in 0..(NumSteps - 1),
           req[p].kind \in Kinds, ckpts[p] = Ledger(req[p].kind, n),
           cur[p] \in 1..NumSteps
    PROVE  Outstanding(p) = {Checkpoint(req[p].kind, i) : i \in cur[p]..n}
<1>1. /\ Len(ckpts[p]) = n
      /\ \A i \in 1..n : ckpts[p][i] = Checkpoint(req[p].kind, i)
  BY LedgerShape
<1>2. QED
  BY <1>1 DEF Outstanding, NumSteps

(* A call IAM accepts keeps every policy attached to an existing role. *)
LEMMA ApplyKeepsIAM ==
    ASSUME TypeOK, StoresIAM, NEW c \in Calls, NEW a \in Accounts,
           CanSucceed(c, a)
    PROVE  \A b \in Accounts : IAMConsistent(Apply(c, a)[b])
<1> SUFFICES ASSUME NEW b \in Accounts PROVE IAMConsistent(Apply(c, a)[b])
  OBVIOUS
<1>1. CASE b # a
  BY <1>1 DEF TypeOK, StoresIAM, Apply, Effect
<1>2. CASE b = a /\ c.r = "role" /\ c.put
  BY <1>2 DEF TypeOK, StoresIAM, IAMConsistent, Apply, Effect
<1>3. CASE b = a /\ c.r = "role" /\ ~c.put
  <2>1. c = deleteIAMRole
    BY <1>3 DEF Calls, deleteIAMRole
  <2>2. "policy" \notin res[a]
    BY <2>1 DEF CanSucceed, Allowed, deleteIAMRole
  <2>3. QED
    BY <1>3, <2>2 DEF TypeOK, IAMConsistent, Apply, Effect
<1>4. CASE b = a /\ c.r = "policy" /\ c.put
  <2>1. c = attachRolePolicy
    BY <1>4 DEF Calls, attachRolePolicy
  <2>2. "role" \in res[a]
    BY <2>1 DEF CanSucceed, Allowed, attachRolePolicy
  <2>3. QED
    BY <1>4, <2>2 DEF TypeOK, IAMConsistent, Apply, Effect
<1>5. CASE b = a /\ c.r \notin {"role"} /\ ~(c.r = "policy" /\ c.put)
  BY <1>5 DEF TypeOK, StoresIAM, IAMConsistent, Apply, Effect
<1>6. QED
  BY <1>1, <1>2, <1>3, <1>4, <1>5

(* A call changes only its own account, and there only its resource. *)
LEMMA ApplyEffect ==
    ASSUME TypeOK, NEW c \in Calls, NEW a \in Accounts
    PROVE  /\ Apply(c, a)[a] = IF c.put THEN res[a] \cup {c.r}
                                         ELSE res[a] \ {c.r}
           /\ \A b \in Accounts \ {a} : Apply(c, a)[b] = res[b]
BY DEF TypeOK, Apply, Effect

(* The invariant of one invocation survives a step that leaves its        *)
(* fields alone and either leaves its account alone or marks it           *)
(* interfered.                                                            *)
LEMMA Frame ==
    ASSUME NEW q \in Invocations, InvocationInv(q),
           pc'[q] = pc[q], step'[q] = step[q], ckpts'[q] = ckpts[q],
           cur'[q] = cur[q], snap'[q] = snap[q], req'[q] = req[q],
           interfered[q] => interfered'[q],
           pc[q] = Idle => interfered'[q] = interfered[q],
           pc[q] \in Active /\ ~interfered'[q] =>
               res'[req[q].acct] = res[req[q].acct]
    PROVE  InvocationInv(q)'
BY DEF InvocationInv, Expected, Outstanding

(* Interfere(p) marks p's running peers on its account and nobody else. *)
LEMMA InterfereFacts ==
    ASSUME TypeOK, NEW p \in Invocations, NEW q \in Invocations
    PROVE  /\ Interfere(p)[q] = (interfered[q] \/ (q # p /\ pc[q] \in Active
                                   /\ req[q].acct = req[p].acct))
           /\ Interfere(p) \in [Invocations -> BOOLEAN]
BY DEF Interfere, TypeOK

LEMMA IInvInit == Init => IInv
<1> SUFFICES ASSUME Init PROVE IInv
  OBVIOUS
<1>1. TypeInv
  BY TypeInit
<1>2. StoresIAM
  BY DEF Init, StoresIAM, IAMConsistent
<1>3. \A p \in Invocations : InvocationInv(p)
  BY DEF Init, InvocationInv, Idle, Active
<1>4. QED
  BY <1>1, <1>2, <1>3 DEF IInv

(* A successful call of invocation p leaves the account of every peer it  *)
(* does not mark as interfered untouched.                                  *)
LEMMA PeersUntouched ==
    ASSUME TypeOK, NEW p \in Invocations, NEW c \in Calls,
           res' = Apply(c, req[p].acct),
           NEW q \in Invocations, q # p, pc[q] \in Active, ~Interfere(p)[q]
    PROVE  res'[req[q].acct] = res[req[q].acct]
<1>1. req[q].acct # req[p].acct /\ req[q].acct \in Accounts
      /\ req[p].acct \in Accounts
  BY InterfereFacts DEF TypeOK, Requests
<1>2. QED
  BY <1>1, ApplyEffect

(* A slot that finishes satisfies the idle conjunct; its peers keep their *)
(* invariant when the step marks or spares their account.                 *)
LEMMA FinishStep ==
    ASSUME IInv, NEW p \in Invocations, NEW m, Finish(p, m),
           req' = req, m \in [Invocations -> BOOLEAN],
           \A q \in Invocations : interfered[q] => m[q],
           \A q \in Invocations : pc[q] = Idle => m[q] = interfered[q],
           \A q \in Invocations \ {p} :
               pc[q] \in Active /\ ~m[q] => res'[req[q].acct] = res[req[q].acct]
    PROVE  \A q \in Invocations : InvocationInv(q)'
<1> SUFFICES ASSUME NEW q \in Invocations PROVE InvocationInv(q)'
  OBVIOUS
<1>1. CASE q = p
  <2>1. pc'[p] = Idle /\ step'[p] = 1 /\ ckpts'[p] = <<>> /\ cur'[p] = 1
        /\ ~interfered'[p]
    BY DEF Finish, IInv, TypeInv, TypeOK, Idle
  <2>2. QED
    BY <1>1, <2>1 DEF InvocationInv, Idle, Active
<1>2. CASE q # p
  <2>1. InvocationInv(q)
    BY DEF IInv
  <2>2. /\ pc'[q] = pc[q] /\ step'[q] = step[q] /\ ckpts'[q] = ckpts[q]
        /\ cur'[q] = cur[q] /\ snap'[q] = snap[q] /\ req'[q] = req[q]
        /\ interfered'[q] = m[q]
    BY <1>2 DEF Finish, IInv, TypeInv, TypeOK
  <2>3. QED
    BY <2>1, <2>2, <1>2, Frame
<1>3. QED
  BY <1>1, <1>2

LEMMA StartStep ==
    ASSUME IInv, NEW p \in Invocations, Start(p)
    PROVE  StoresIAM' /\ \A q \in Invocations : InvocationInv(q)'
<1>1. StoresIAM'
  BY DEF Start, IInv, StoresIAM
<1>2. ASSUME NEW q \in Invocations, q # p PROVE InvocationInv(q)'
  <2>1. /\ pc'[q] = pc[q] /\ step'[q] = step[q] /\ ckpts'[q] = ckpts[q]
        /\ cur'[q] = cur[q] /\ snap'[q] = snap[q] /\ req'[q] = req[q]
        /\ interfered'[q] = interfered[q] /\ res' = res
    BY <1>2 DEF Start, IInv, TypeInv, TypeOK
  <2>2. QED
    BY <2>1, Frame DEF IInv
<1>3. InvocationInv(p)'
  <2>1. PICK r \in Requests : req' = [req EXCEPT ![p] = r]
                              /\ snap' = [snap EXCEPT ![p] = res[r.acct]]
    BY DEF Start
  <2>2. /\ pc[p] = Idle /\ step[p] = 1 /\ ckpts[p] = <<>> /\ cur[p] = 1
        /\ ~interfered[p]
    BY DEF Start, IInv, InvocationInv
  <2>3. /\ pc'[p] = "fwd" /\ step'[p] = 1 /\ ckpts'[p] = <<>> /\ cur'[p] = 1
        /\ ~interfered'[p] /\ req'[p] = r /\ snap'[p] = res[r.acct]
        /\ res' = res
    BY <2>1, <2>2 DEF Start, IInv, TypeInv, TypeOK
  <2>4. r.kind \in Kinds /\ r.acct \in Accounts
    BY DEF Requests
  <2>5. ckpts'[p] = Ledger(r.kind, step'[p] - 1)
    BY <2>3, <2>4, LedgerShape DEF NumSteps
  <2>6. IAMConsistent(snap'[p])
    BY <2>3, <2>4 DEF IInv, StoresIAM
  <2>7. Outstanding(p)' = {}
    BY <2>3 DEF Outstanding
  <2>8. res'[req'[p].acct] = Expected(p)'
    BY <2>3, <2>7 DEF Expected
  <2>9. QED
    BY <2>3, <2>5, <2>6, <2>8 DEF InvocationInv, Active
<1>4. QED
  BY <1>1, <1>2, <1>3

LEMMA ForwardFailStep ==
    ASSUME IInv, NEW p \in Invocations, ForwardFail(p)
    PROVE  StoresIAM' /\ \A q \in Invocations : InvocationInv(q)'
<1>1. StoresIAM'
  BY DEF ForwardFail, IInv, StoresIAM
<1>2. ASSUME NEW q \in Invocations, q # p PROVE InvocationInv(q)'
  <2>1. /\ pc'[q] = pc[q] /\ step'[q] = step[q] /\ ckpts'[q] = ckpts[q]
        /\ cur'[q] = cur[q] /\ snap'[q] = snap[q] /\ req'[q] = req[q]
        /\ interfered'[q] = interfered[q] /\ res' = res
    BY <1>2 DEF ForwardFail, IInv, TypeInv, TypeOK
  <2>2. QED
    BY <2>1, Frame DEF IInv
<1>3. InvocationInv(p)'
  <2>1. /\ pc[p] = "fwd" /\ pc'[p] = "undo" /\ cur[p] = 1 /\ cur'[p] = 1
        /\ step'[p] = step[p] /\ ckpts'[p] = ckpts[p] /\ snap'[p] = snap[p]
        /\ req'[p] = req[p] /\ interfered'[p] = interfered[p] /\ res' = res
    BY DEF ForwardFail, IInv, InvocationInv, TypeInv, TypeOK, Active
  <2>2. InvocationInv(p)
    BY DEF IInv
  <2>3. QED
    BY <2>1, <2>2 DEF InvocationInv, Active, Idle, Expected, Outstanding
<1>4. QED
  BY <1>1, <1>2, <1>3

(* The entries of a ledger from position c0 on. *)
LEMMA LedgerSet ==
    ASSUME NEW kind \in Kinds, NEW n \in 0..(NumSteps - 1),
           NEW c0 \in 1..NumSteps
    PROVE  {Ledger(kind, n)[i] : i \in c0..Len(Ledger(kind, n))}
             = {Checkpoint(kind, i) : i \in c0..n}
<1>1. Len(Ledger(kind, n)) = n
      /\ \A i \in 1..n : Ledger(kind, n)[i] = Checkpoint(kind, i)
  BY LedgerShape
<1>2. QED
  BY <1>1

(* A successful call of p keeps the invariant of every other invocation *)
(* whose locals the step leaves alone.                                  *)
LEMMA CallPeers ==
    ASSUME IInv, NEW p \in Invocations, NEW c \in Calls,
           res' = Apply(c, req[p].acct), interfered' = Interfere(p),
           NEW q \in Invocations, q # p,
           pc'[q] = pc[q], step'[q] = step[q], ckpts'[q] = ckpts[q],
           cur'[q] = cur[q], snap'[q] = snap[q], req'[q] = req[q]
    PROVE  InvocationInv(q)'
<1>1. TypeOK /\ InvocationInv(q)
  BY DEF IInv, TypeInv
<1>2. interfered'[q] = (interfered[q] \/ (pc[q] \in Active
                                    /\ req[q].acct = req[p].acct))
  BY <1>1, InterfereFacts
<1>3. pc[q] \in Active /\ ~interfered'[q] => res'[req[q].acct] = res[req[q].acct]
  BY <1>1, <1>2, PeersUntouched
<1>4. /\ interfered[q] => interfered'[q]
      /\ pc[q] = Idle => interfered'[q] = interfered[q]
  BY <1>1, <1>2 DEF Idle, Active, TypeOK
<1>5. QED
  BY <1>1, <1>3, <1>4, Frame

(* The mark Interfere(p) fits FinishStep: it only adds marks, and only on *)
(* running invocations.                                                    *)
LEMMA InterfereMarks ==
    ASSUME TypeOK, NEW p \in Invocations
    PROVE  /\ Interfere(p) \in [Invocations -> BOOLEAN]
           /\ \A q \in Invocations : interfered[q] => Interfere(p)[q]
           /\ \A q \in Invocations :
                 pc[q] = Idle => Interfere(p)[q] = interfered[q]
<1>1. ASSUME NEW q \in Invocations
      PROVE  /\ interfered[q] => Interfere(p)[q]
             /\ pc[q] = Idle => Interfere(p)[q] = interfered[q]
  BY InterfereFacts DEF TypeOK, Idle, Active
<1>2. QED
  BY <1>1, InterfereFacts

(* The last forward call succeeds and the handler returns 200. *)
LEMMA ForwardOkLast ==
    ASSUME IInv, NEW p \in Invocations, ForwardOk(p), step[p] = NumSteps
    PROVE  StoresIAM' /\ \A q \in Invocations : InvocationInv(q)'
<1> DEFINE a == req[p].acct
           c == Workflow(req[p].kind)[step[p]]
<1>1. TypeOK /\ StoresIAM
  BY DEF IInv, TypeInv
<1>2. a \in Accounts /\ c \in Calls
  BY <1>1, LocalTypes, WorkflowTyped
<1>3. CanSucceed(c, a) /\ res' = Apply(c, a) /\ req' = req
      /\ Finish(p, Interfere(p))
  BY DEF ForwardOk
<1>4. StoresIAM'
  BY <1>1, <1>2, <1>3, ApplyKeepsIAM DEF StoresIAM
<1>5. \A q \in Invocations \ {p} :
        pc[q] \in Active /\ ~Interfere(p)[q] =>
          res'[req[q].acct] = res[req[q].acct]
  BY <1>1, <1>2, <1>3, PeersUntouched
<1>6. \A q \in Invocations : InvocationInv(q)'
  BY <1>1, <1>3, <1>5, InterfereMarks, FinishStep
<1>7. QED
  BY <1>4, <1>6

(* A forward call before the last succeeds and its checkpoint is set. *)
LEMMA ForwardOkMid ==
    ASSUME IInv, NEW p \in Invocations, ForwardOk(p), step[p] # NumSteps
    PROVE  StoresIAM' /\ \A q \in Invocations : InvocationInv(q)'
<1> DEFINE a == req[p].acct
           k == req[p].kind
           n == step[p]
           c == Workflow(k)[n]
           O == {Checkpoint(k, i) : i \in 1..(n - 1)}
<1>1. TypeOK /\ StoresIAM /\ InvocationInv(p)
  BY DEF IInv, TypeInv
<1>2. a \in Accounts /\ k \in Kinds /\ n \in 1..(NumSteps - 1) /\ c \in Calls
      /\ cur[p] \in 1..NumSteps
  BY <1>1, LocalTypes, WorkflowTyped DEF NumSteps
<1>3. /\ pc[p] = "fwd" /\ CanSucceed(c, a) /\ res' = Apply(c, a)
      /\ req' = req /\ interfered' = Interfere(p)
      /\ ckpts' = [ckpts EXCEPT ![p] = MapSet(@, Checkpoint(k, n))]
      /\ step' = [step EXCEPT ![p] = @ + 1]
      /\ UNCHANGED <<pc, cur, err, snap>>
  BY <1>2 DEF ForwardOk, NumSteps
<1>4. StoresIAM'
  BY <1>1, <1>2, <1>3, ApplyKeepsIAM DEF StoresIAM
<1>5. ASSUME NEW q \in Invocations, q # p PROVE InvocationInv(q)'
  <2>1. ckpts'[q] = ckpts[q] /\ step'[q] = step[q]
    BY <1>1, <1>3, <1>5 DEF TypeOK
  <2>2. QED
    BY <1>1, <1>2, <1>3, <1>5, <2>1, CallPeers DEF IInv
<1>6. InvocationInv(p)'
  <2>1. /\ ckpts[p] = Ledger(k, n - 1) /\ cur[p] = 1
        /\ IAMConsistent(snap[p])
        /\ ~interfered[p] =>
              /\ res[a] = Expected(p)
              /\ n >= 2 => IF k = "onboard" THEN "role" \notin snap[p]
                                            ELSE "policy" \in snap[p]
    BY <1>1, <1>3 DEF InvocationInv, Active
  <2>2. /\ ckpts'[p] = Ledger(k, n) /\ step'[p] = n + 1
        /\ pc'[p] = "fwd" /\ cur'[p] = 1 /\ snap'[p] = snap[p]
        /\ req'[p] = req[p] /\ interfered'[p] = interfered[p]
    <3>1. ckpts'[p] = MapSet(Ledger(k, n - 1), Checkpoint(k, n))
      BY <1>1, <1>3, <2>1 DEF TypeOK
    <3>2. interfered'[p] = interfered[p]
      BY <1>1, <1>3, InterfereFacts DEF TypeOK
    <3>3. MapSet(Ledger(k, n - 1), Checkpoint(k, n)) = Ledger(k, n)
      BY <1>2, LedgerGrows
    <3>4. step'[p] = n + 1 /\ pc'[p] = "fwd" /\ cur'[p] = 1
          /\ snap'[p] = snap[p] /\ req'[p] = req[p]
      BY <1>1, <1>3, <2>1 DEF TypeOK
    <3>5. QED
      BY <3>1, <3>2, <3>3, <3>4
  <2>3. Outstanding(p) = O /\ Outstanding(p)' = O \cup {Checkpoint(k, n)}
    <3>1. Outstanding(p) = O
      <4>1. n - 1 \in 0..(NumSteps - 1) /\ 1 \in 1..NumSteps
        BY <1>2 DEF NumSteps
      <4>2. {Ledger(k, n - 1)[i] : i \in 1..Len(Ledger(k, n - 1))} = O
        BY <1>2, <4>1, LedgerSet
      <4>3. QED
        BY <2>1, <4>2 DEF Outstanding
    <3>2. Outstanding(p)' = {Checkpoint(k, i) : i \in 1..n}
      <4>1. n \in 0..(NumSteps - 1) /\ 1 \in 1..NumSteps
        BY <1>2 DEF NumSteps
      <4>2. {Ledger(k, n)[i] : i \in 1..Len(Ledger(k, n))}
              = {Checkpoint(k, i) : i \in 1..n}
        BY <1>2, <4>1, LedgerSet
      <4>3. QED
        BY <2>2, <4>2 DEF Outstanding
    <3>3. QED
      BY <3>1, <3>2, <1>2 DEF NumSteps
  <2>4. c.r = Checkpoint(k, n) /\ c.put = (k = "onboard")
    BY <1>2, WorkflowCheckpoint
  <2>5. res'[a] = IF c.put THEN res[a] \cup {c.r} ELSE res[a] \ {c.r}
    BY <1>1, <1>2, <1>3, ApplyEffect
  <2>6. ~interfered[p] => res'[a] = Expected(p)'
    BY <2>2, <2>3, <2>4, <2>5, <2>1 DEF Expected
  <2>7. ~interfered[p] /\ n = 1 =>
          IF k = "onboard" THEN "role" \notin snap[p] ELSE "policy" \in snap[p]
    <3>1. SUFFICES ASSUME ~interfered[p], n = 1
                   PROVE  IF k = "onboard" THEN "role" \notin snap[p]
                          ELSE "policy" \in snap[p]
      OBVIOUS
    <3>2. res[a] = snap[p]
      <4>1. O = {}
        BY <3>1
      <4>2. QED
        BY <2>1, <2>3, <3>1, <4>1 DEF Expected
    <3>3. c = IF k = "onboard" THEN createIAMRole ELSE detachRolePolicy
      BY <3>1 DEF Workflow
    <3>4. QED
      BY <1>3, <3>2, <3>3 DEF CanSucceed, Allowed, createIAMRole, detachRolePolicy,
         deleteIAMRole, attachRolePolicy
  <2>8. QED
    BY <2>1, <2>2, <2>6, <2>7, <1>2 DEF InvocationInv, Active, Idle, NumSteps
<1>7. QED
  BY <1>4, <1>5, <1>6

(* The rollback call of every checkpoint key is a call. *)
LEMMA RollbackCallTyped ==
    ASSUME NEW kind \in Kinds, NEW key \in CheckpointKeys
    PROVE  RollbackCall(kind, key) \in Calls
BY CallsTyped DEF RollbackCall,
   OnboardingRollback, OffboardingRollback, CheckpointKeys, IAM_ROLE_CHECKPOINT,
   IAM_ROLE_POLICY_CHECKPOINT, ADTECH_MGMT_CHECKPOINT

(* A rollback call succeeds and the loop moves to the next checkpoint.  *)
(* Without interference this only happens for a one-entry Map: with two *)
(* entries the first rollback call is one IAM rejects.                  *)
LEMMA RollbackOkStep ==
    ASSUME IInv, NEW p \in Invocations,
           pc[p] = "undo", cur[p] <= Len(ckpts[p]),
           CanSucceed(RollbackCall(req[p].kind, ckpts[p][cur[p]]), req[p].acct),
           res' = Apply(RollbackCall(req[p].kind, ckpts[p][cur[p]]), req[p].acct),
           interfered' = Interfere(p),
           cur' = [cur EXCEPT ![p] = @ + 1],
           UNCHANGED <<pc, step, ckpts, err, snap, req>>
    PROVE  StoresIAM' /\ \A q \in Invocations : InvocationInv(q)'
<1> DEFINE a == req[p].acct
           k == req[p].kind
           n == step[p]
           c == RollbackCall(k, ckpts[p][cur[p]])
<1>0. /\ pc[p] = "undo" /\ cur[p] <= Len(ckpts[p])
      /\ snap' = snap /\ req' = req /\ step' = step /\ ckpts' = ckpts
      /\ pc' = pc
  OBVIOUS
<1>1. TypeOK /\ StoresIAM /\ InvocationInv(p) /\ LedgerBound
  BY DEF IInv, TypeInv
<1>2. /\ a \in Accounts /\ k \in Kinds /\ n \in 1..NumSteps
      /\ cur[p] \in 1..NumSteps /\ ckpts[p] \in Seq(CheckpointKeys)
      /\ Len(ckpts[p]) < n
  BY <1>1, LocalTypes DEF LedgerBound
<1>3. c \in Calls
  BY <1>2, RollbackCallTyped
<1>4. StoresIAM'
  BY <1>1, <1>2, <1>3, ApplyKeepsIAM DEF StoresIAM
<1>5. ASSUME NEW q \in Invocations, q # p PROVE InvocationInv(q)'
  <2>1. cur'[q] = cur[q]
    BY <1>1, <1>5 DEF TypeOK
  <2>2. QED
    BY <1>1, <1>2, <1>3, <1>5, <2>1, CallPeers DEF IInv
<1>6. InvocationInv(p)'
  <2>1. /\ ckpts[p] = Ledger(k, n - 1) /\ cur[p] <= n
        /\ ~interfered[p] =>
              /\ res[a] = Expected(p)
              /\ n >= 2 => IF k = "onboard" THEN "role" \notin snap[p]
                                            ELSE "policy" \in snap[p]
              /\ cur[p] >= 2 => n = 2
    BY <1>1 DEF InvocationInv, Active
  <2>2. /\ cur'[p] = cur[p] + 1 /\ cur[p] + 1 <= n
        /\ interfered'[p] = interfered[p]
    BY <1>1, <1>2, InterfereFacts DEF TypeOK
  <2>3. Len(ckpts[p]) = n - 1
    <3>1. n - 1 \in 0..(NumSteps - 1)
      BY <1>2 DEF NumSteps
    <3>2. Len(Ledger(k, n - 1)) = n - 1
      BY <1>2, <3>1, LedgerShape
    <3>3. QED
      BY <2>1, <3>2
  <2>4. ~interfered[p] => res'[a] = Expected(p)' /\ n = 2
    <3>1. SUFFICES ASSUME ~interfered[p] PROVE res'[a] = Expected(p)' /\ n = 2
      OBVIOUS
    <3>2. cur[p] = 1
      BY <1>0, <1>2, <2>1, <2>3, <3>1
    <3>3. ckpts[p][1] = Checkpoint(k, 1)
      BY <1>2, <2>1, <2>3, <3>2, LedgerShape DEF NumSteps
    <3>4. n = 2
      <4>1. SUFFICES ASSUME n # 2 PROVE FALSE
        OBVIOUS
      <4>2. n >= 3
        BY <1>0, <1>2, <2>3, <3>2, <4>1
      <4>3. Checkpoint(k, 1) \in Outstanding(p) /\ Checkpoint(k, 2) \in Outstanding(p)
        <5>1. ckpts[p][2] = Checkpoint(k, 2)
          BY <1>2, <2>1, <4>2, LedgerShape DEF NumSteps
        <5>2. 1 \in cur[p]..Len(ckpts[p]) /\ 2 \in cur[p]..Len(ckpts[p])
          BY <1>2, <2>3, <3>2, <4>2
        <5>3. QED
          BY <3>3, <5>1, <5>2 DEF Outstanding
      <4>4. CASE k = "onboard"
        <5>1. "policy" \in res[a]
          BY <2>1, <3>1, <4>3, <4>4 DEF Expected, Checkpoint, IAM_ROLE_CHECKPOINT,
             IAM_ROLE_POLICY_CHECKPOINT, ADTECH_MGMT_CHECKPOINT
        <5>2. c = deleteIAMRole
          BY <3>2, <3>3, <4>4 DEF Checkpoint, RollbackCall,
             OnboardingRollback, OffboardingRollback, IAM_ROLE_CHECKPOINT
        <5>3. QED
          BY <5>1, <5>2 DEF CanSucceed, Allowed, deleteIAMRole, createIAMRole
      <4>5. CASE k = "offboard"
        <5>1. "role" \notin res[a]
          BY <2>1, <3>1, <4>3, <4>5 DEF Expected, Checkpoint, IAM_ROLE_CHECKPOINT,
             IAM_ROLE_POLICY_CHECKPOINT, ADTECH_MGMT_CHECKPOINT
        <5>2. c = attachRolePolicy
          BY <3>2, <3>3, <4>5 DEF Checkpoint, RollbackCall,
             OnboardingRollback, OffboardingRollback,
             IAM_ROLE_POLICY_CHECKPOINT
        <5>3. QED
          BY <5>1, <5>2 DEF CanSucceed, Allowed, attachRolePolicy, createIAMRole,
             deleteIAMRole
      <4>6. QED
        BY <1>2, <4>4, <4>5 DEF Kinds
    <3>5. Outstanding(p) = {Checkpoint(k, 1)} /\ Outstanding(p)' = {}
      BY <2>2, <2>3, <3>2, <3>3, <3>4 DEF Outstanding
    <3>6. res'[a] = IF c.put THEN res[a] \cup {c.r} ELSE res[a] \ {c.r}
      BY <1>1, <1>2, <1>3, ApplyEffect
    <3>7. CASE k = "onboard"
      <4>1. c = deleteIAMRole /\ Checkpoint(k, 1) = "role"
        BY <3>2, <3>3, <3>7 DEF Checkpoint, RollbackCall,
           OnboardingRollback, OffboardingRollback, IAM_ROLE_CHECKPOINT
      <4>2. "role" \notin snap[p] /\ res[a] = snap[p] \cup {"role"}
        BY <2>1, <3>1, <3>4, <3>5, <3>7, <4>1 DEF Expected
      <4>3. res'[a] = snap[p]
        BY <3>6, <4>1, <4>2 DEF deleteIAMRole
      <4>4. Expected(p)' = snap[p]
        BY <1>0, <3>5, <3>7 DEF Expected
      <4>5. QED
        BY <3>4, <4>3, <4>4
    <3>8. CASE k = "offboard"
      <4>1. c = attachRolePolicy /\ Checkpoint(k, 1) = "policy"
        BY <3>2, <3>3, <3>8 DEF Checkpoint, RollbackCall,
           OnboardingRollback, OffboardingRollback,
           IAM_ROLE_POLICY_CHECKPOINT
      <4>2. "policy" \in snap[p] /\ res[a] = snap[p] \ {"policy"}
        BY <2>1, <3>1, <3>4, <3>5, <3>8, <4>1 DEF Expected
      <4>3. res'[a] = snap[p]
        BY <3>6, <4>1, <4>2 DEF attachRolePolicy
      <4>4. Expected(p)' = snap[p]
        BY <1>0, <3>5, <3>8 DEF Expected
      <4>5. QED
        BY <3>4, <4>3, <4>4
    <3>9. QED
      BY <1>2, <3>7, <3>8 DEF Kinds
  <2>5. QED
    BY <1>1, <2>1, <2>2, <2>4 DEF InvocationInv, Active, Idle
<1>7. QED
  BY <1>4, <1>5, <1>6

(* An invocation ends without touching the stores: a rejected rollback  *)
(* call, the 500 response, or a timeout.                                *)
LEMMA QuietFinishStep ==
    ASSUME IInv, NEW p \in Invocations, Finish(p, interfered), res' = res,
           req' = req
    PROVE  StoresIAM' /\ \A q \in Invocations : InvocationInv(q)'
<1>1. interfered \in [Invocations -> BOOLEAN]
  BY DEF IInv, TypeInv, TypeOK
<1>2. StoresIAM'
  BY DEF IInv, StoresIAM
<1>3. QED
  BY <1>1, <1>2, FinishStep

LEMMA IInvStep == IInv /\ [Next]_vars => IInv'
<1> SUFFICES ASSUME IInv, [Next]_vars PROVE IInv'
  OBVIOUS
<1>1. TypeInv'
  BY TypeStep DEF IInv
<1>2. StoresIAM' /\ \A q \in Invocations : InvocationInv(q)'
  <2>1. ASSUME NEW p \in Invocations, Start(p)
        PROVE  StoresIAM' /\ \A q \in Invocations : InvocationInv(q)'
    BY <2>1, StartStep
  <2>2. ASSUME NEW p \in Invocations, ForwardOk(p)
        PROVE  StoresIAM' /\ \A q \in Invocations : InvocationInv(q)'
    BY <2>2, ForwardOkLast, ForwardOkMid
  <2>3. ASSUME NEW p \in Invocations, ForwardFail(p)
        PROVE  StoresIAM' /\ \A q \in Invocations : InvocationInv(q)'
    BY <2>3, ForwardFailStep
  <2>4. ASSUME NEW p \in Invocations, Rollback(p)
        PROVE  StoresIAM' /\ \A q \in Invocations : InvocationInv(q)'
    <3> DEFINE c == RollbackCall(req[p].kind, ckpts[p][cur[p]])
    <3>1. CASE /\ CanSucceed(c, req[p].acct)
               /\ res' = Apply(c, req[p].acct)
               /\ interfered' = Interfere(p)
               /\ cur' = [cur EXCEPT ![p] = @ + 1]
               /\ UNCHANGED <<pc, step, ckpts, err, snap>>
      BY <2>4, <3>1, RollbackOkStep DEF Rollback
    <3>2. CASE Finish(p, interfered) /\ UNCHANGED res
      BY <2>4, <3>2, QuietFinishStep DEF Rollback
    <3>3. QED
      BY <2>4, <3>1, <3>2 DEF Rollback
  <2>5. ASSUME NEW p \in Invocations, RespondFailure(p)
        PROVE  StoresIAM' /\ \A q \in Invocations : InvocationInv(q)'
    BY <2>5, QuietFinishStep DEF RespondFailure
  <2>6. ASSUME NEW p \in Invocations, Kill(p)
        PROVE  StoresIAM' /\ \A q \in Invocations : InvocationInv(q)'
    BY <2>6, QuietFinishStep DEF Kill
  <2>7. CASE UNCHANGED vars
    <3>1. StoresIAM'
      BY <2>7 DEF vars, IInv, StoresIAM
    <3>2. ASSUME NEW q \in Invocations PROVE InvocationInv(q)'
      <4>1. /\ pc'[q] = pc[q] /\ step'[q] = step[q] /\ ckpts'[q] = ckpts[q]
            /\ cur'[q] = cur[q] /\ snap'[q] = snap[q] /\ req'[q] = req[q]
            /\ interfered'[q] = interfered[q] /\ res' = res
        BY <2>7 DEF vars
      <4>2. QED
        BY <4>1, Frame DEF IInv
    <3>3. QED
      BY <3>1, <3>2
  <2>8. QED
    BY <2>1, <2>2, <2>3, <2>4, <2>5, <2>6, <2>7 DEF Next
<1>3. QED
  BY <1>1, <1>2 DEF IInv

(* The uninterfered invariant implies CheckpointsReflectStores. *)
LEMMA IInvReflects == IInv => CheckpointsReflectStores
BY DEF IInv, InvocationInv, CheckpointsReflectStores

(***************************************************************************)
(* While a handler runs and no other invocation has touched its account,  *)
(* the account's stores are what the handler found at entry changed by     *)
(* exactly the checkpoints its Map still holds from the loop cursor on:    *)
(* the Map of adtech_onboarding_lambda.ts and adtech_offboarding_lambda.ts *)
(* is an exact record of what remains to undo, for every number of        *)
(* accounts and invocations.                                               *)
(***************************************************************************)
THEOREM CheckpointsCorrect == Spec => []CheckpointsReflectStores
<1>1. Init => IInv
  BY IInvInit
<1>2. IInv /\ [Next]_vars => IInv'
  BY IInvStep
<1>3. IInv => CheckpointsReflectStores
  BY IInvReflects
<1>4. QED
  BY <1>1, <1>2, <1>3, PTL DEF Spec

=============================================================================

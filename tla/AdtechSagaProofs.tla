--------------------------- MODULE AdtechSagaProofs ---------------------------
(***************************************************************************)
(* The onboarding and offboarding handlers implement the abstract saga of  *)
(* AdtechSaga under the mapping of AdtechManagement (SagaStatus, the size  *)
(* of the checkpoint Map, the loop position), for every set of accounts    *)
(* and every number of invocations.  The proof rests on the inductive      *)
(* invariant IInv of AdtechManagementProofs: a running handler's Map is    *)
(* the ledger of its completed forward calls, and the loop position never  *)
(* passes the end of the Map by more than one.                             *)
(*                                                                         *)
(* The last section holds facts about running handlers that the read and  *)
(* recovery proofs share: accounts IAM refuses never get a resource        *)
(* (InvalidInv), and what a finishing slot leaves behind.                  *)
(***************************************************************************)
EXTENDS AdtechManagementProofs

(* The mapped forward calls and compensations done. *)
DoneMap == [p \in Invocations |-> Len(ckpts[p])]
UndoneMap == [p \in Invocations |-> cur[p] - 1]

(* The saga and the handlers share the calls of AdtechCalls. *)
LEMMA SagaCalls ==
    /\ Saga!Requests = Requests
    /\ Saga!NumSteps = NumSteps
    /\ \A k : Saga!Workflow(k) = Workflow(k)
    /\ \A k, i : Saga!Checkpoint(k, i) = Checkpoint(k, i)
    /\ \A k, key : Saga!RollbackCall(k, key) = RollbackCall(k, key)
    /\ \A c, a, S : Saga!Allowed(c, a, S) <=> Allowed(c, a, S)
    /\ \A c, S : Saga!Effect(c, S) = Effect(c, S)
BY DEF Saga!Requests, Saga!Kinds, Saga!NumSteps, Saga!Workflow, Saga!Checkpoint,
       Saga!RollbackCall, Saga!Allowed, Saga!Effect, Saga!OnboardingRollback,
       Saga!OffboardingRollback, Saga!IAM_ROLE_CHECKPOINT,
       Saga!IAM_ROLE_POLICY_CHECKPOINT, Saga!ADTECH_MGMT_CHECKPOINT,
       Saga!createIAMRole, Saga!deleteIAMRole, Saga!attachRolePolicy,
       Saga!detachRolePolicy, Saga!addToAdtechMgmtDB, Saga!deleteFromAdtechMgmtDB,
       Saga!addToPBSAuthDB, Saga!deleteFromPBSAuthDB,
       Requests, Kinds, NumSteps, Workflow, Checkpoint, RollbackCall, Allowed,
       Effect, OnboardingRollback, OffboardingRollback, IAM_ROLE_CHECKPOINT,
       IAM_ROLE_POLICY_CHECKPOINT, ADTECH_MGMT_CHECKPOINT, createIAMRole,
       deleteIAMRole, attachRolePolicy, detachRolePolicy, addToAdtechMgmtDB,
       deleteFromAdtechMgmtDB, addToPBSAuthDB, deleteFromPBSAuthDB

(* What IInv says of the Map and the loop of a running invocation.         *)
LEMMA RunningLedger ==
    ASSUME IInv, NEW p \in Invocations, pc[p] \in Active
    PROVE  /\ Len(ckpts[p]) = step[p] - 1
           /\ \A i \in 1..Len(ckpts[p]) : ckpts[p][i] = Checkpoint(req[p].kind, i)
           /\ cur[p] \in 1..(Len(ckpts[p]) + 1)
           /\ pc[p] = "fwd" => cur[p] = 1
<1>1. /\ ckpts[p] = Ledger(req[p].kind, step[p] - 1)
      /\ cur[p] <= step[p] /\ (pc[p] = "fwd" => cur[p] = 1)
  BY DEF IInv, InvocationInv
<1>2. req[p].kind \in Kinds /\ step[p] \in 1..NumSteps /\ cur[p] \in 1..NumSteps
  BY LocalTypes DEF IInv, TypeInv
<1>3. step[p] - 1 \in 0..(NumSteps - 1)
  BY <1>2 DEF NumSteps
<1>4. /\ Len(Ledger(req[p].kind, step[p] - 1)) = step[p] - 1
      /\ \A i \in 1..(step[p] - 1) :
           Ledger(req[p].kind, step[p] - 1)[i] = Checkpoint(req[p].kind, i)
  BY <1>2, <1>3, LedgerShape
<1>5. QED
  BY <1>1, <1>2, <1>4

(* An idle slot maps to an idle saga invocation with nothing done. *)
LEMMA IdleMaps ==
    ASSUME IInv, NEW p \in Invocations, pc[p] = Idle
    PROVE  Len(ckpts[p]) = 0 /\ cur[p] - 1 = 0
BY DEF IInv, InvocationInv

(* Finishing a slot resets its saga invocation. *)
LEMMA FinishMaps ==
    ASSUME TypeOK, NEW p \in Invocations, NEW m, Finish(p, m)
    PROVE  Saga!Reset(p)
<1>1. SagaStatus' = [SagaStatus EXCEPT ![p] = "idle"]
  BY DEF Finish, SagaStatus, TypeOK, Idle
<1>2. DoneMap' = [DoneMap EXCEPT ![p] = 0]
  BY DEF Finish, DoneMap, TypeOK
<1>3. UndoneMap' = [UndoneMap EXCEPT ![p] = 0]
  <2>1. cur' = [cur EXCEPT ![p] = 1]
    BY DEF Finish
  <2>2. cur \in [Invocations -> 1..NumSteps]
    BY DEF TypeOK
  <2>3. cur'[p] - 1 = 0
    BY <2>1, <2>2
  <2>4. \A q \in Invocations \ {p} : cur'[q] - 1 = cur[q] - 1
    BY <2>1, <2>2
  <2>5. QED
    BY <2>3, <2>4 DEF UndoneMap
<1>4. QED
  BY <1>1, <1>2, <1>3 DEF Saga!Reset, DoneMap, UndoneMap


(* A slot's status maps to the saga status of its pc. *)
LEMMA StatusOf ==
    ASSUME TypeOK, NEW p \in Invocations
    PROVE  /\ pc[p] = Idle => SagaStatus[p] = "idle"
           /\ pc[p] = "fwd" => SagaStatus[p] = "pending"
           /\ pc[p] = "undo" => SagaStatus[p] = "unwinding"
BY DEF SagaStatus, Idle

(* Moving slot p to pc v moves its saga status accordingly. *)
LEMMA StatusMoves ==
    ASSUME TypeOK, NEW p \in Invocations, NEW v \in {"fwd", "undo"},
           pc' = [pc EXCEPT ![p] = v]
    PROVE  SagaStatus' =
             [SagaStatus EXCEPT ![p] = IF v = "fwd" THEN "pending" ELSE "unwinding"]
<1>1. pc \in [Invocations -> Active \cup {Idle}]
  BY DEF TypeOK
<1>2. \A q \in Invocations \ {p} : SagaStatus'[q] = SagaStatus[q]
  BY <1>1 DEF SagaStatus
<1>3. SagaStatus'[p] = IF v = "fwd" THEN "pending" ELSE "unwinding"
  BY <1>1 DEF SagaStatus
<1>4. QED
  BY <1>2, <1>3 DEF SagaStatus

LEMMA StartMaps ==
    ASSUME IInv, NEW p \in Invocations, Start(p)
    PROVE  Saga!Begin(p)
<1>1. TypeOK /\ pc[p] = Idle
  BY DEF IInv, TypeInv, Start
<1>2. SagaStatus[p] = "idle"
  BY <1>1, StatusOf
<1>3. SagaStatus' = [SagaStatus EXCEPT ![p] = "pending"]
  BY <1>1, StatusMoves DEF Start
<1>4. /\ \E r \in Requests : req' = [req EXCEPT ![p] = r]
      /\ UNCHANGED <<res, ckpts, cur>>
  BY DEF Start
<1>5. \E r \in Saga!Requests : req' = [req EXCEPT ![p] = r]
  BY <1>4, SagaCalls
<1>6. DoneMap' = DoneMap /\ UndoneMap' = UndoneMap
  BY <1>4 DEF DoneMap, UndoneMap
<1>7. QED
  BY <1>2, <1>3, <1>4, <1>5, <1>6 DEF Saga!Begin, DoneMap, UndoneMap

LEMMA ForwardFailMaps ==
    ASSUME IInv, NEW p \in Invocations, ForwardFail(p)
    PROVE  Saga!CallFails(p)
<1>1. TypeOK /\ pc[p] = "fwd"
  BY DEF IInv, TypeInv, ForwardFail
<1>2. cur[p] = 1
  BY <1>1, RunningLedger DEF Active
<1>3. SagaStatus[p] = "pending"
  BY <1>1, StatusOf
<1>4. SagaStatus' = [SagaStatus EXCEPT ![p] = "unwinding"]
  BY <1>1, StatusMoves DEF ForwardFail
<1>5. cur' = cur
  BY <1>1, <1>2 DEF ForwardFail, TypeOK
<1>6. UNCHANGED <<res, req, ckpts>>
  BY DEF ForwardFail
<1>7. QED
  BY <1>3, <1>4, <1>5, <1>6 DEF Saga!CallFails

LEMMA RespondMaps ==
    ASSUME IInv, NEW p \in Invocations, RespondFailure(p)
    PROVE  Saga!Fail(p)
<1>1. TypeOK /\ pc[p] = "undo" /\ cur[p] > Len(ckpts[p])
  BY DEF IInv, TypeInv, RespondFailure
<1>2. cur[p] - 1 = Len(ckpts[p])
  BY <1>1, RunningLedger DEF Active
<1>3. SagaStatus[p] = "unwinding"
  BY <1>1, StatusOf
<1>4. Saga!Reset(p) /\ UNCHANGED <<res, req>>
  BY <1>1, FinishMaps DEF RespondFailure
<1>5. QED
  BY <1>2, <1>3, <1>4 DEF Saga!Fail

LEMMA KillMaps ==
    ASSUME IInv, NEW p \in Invocations, Kill(p)
    PROVE  Saga!TimeOut(p)
<1>1. TypeOK /\ pc[p] \in Active /\ LambdaMayTimeOut
  BY DEF IInv, TypeInv, Kill
<1>2. SagaStatus[p] # "idle"
  BY <1>1 DEF SagaStatus, Active
<1>3. Saga!Reset(p) /\ UNCHANGED <<res, req>>
  BY <1>1, FinishMaps DEF Kill
<1>4. QED
  BY <1>1, <1>2, <1>3 DEF Saga!TimeOut


(* A successful forward call is the saga's next call: it extends the Map  *)
(* by one key, or ends the invocation after the last call.                *)
LEMMA ForwardOkMaps ==
    ASSUME IInv, NEW p \in Invocations, ForwardOk(p)
    PROVE  Saga!CallOk(p)
<1> DEFINE kind == req[p].kind
           a == req[p].acct
           c == Workflow(kind)[step[p]]
<1>1. TypeOK /\ pc[p] = "fwd" /\ CanSucceed(c, a) /\ res' = Apply(c, a)
      /\ req' = req
  BY DEF IInv, TypeInv, ForwardOk
<1>2. /\ Len(ckpts[p]) = step[p] - 1 /\ cur[p] = 1
      /\ ckpts[p] = Ledger(kind, step[p] - 1)
  BY <1>1, RunningLedger DEF IInv, InvocationInv, Active
<1>3. kind \in Kinds /\ a \in Accounts /\ step[p] \in 1..NumSteps
  BY <1>1, LocalTypes
<1>4. SagaStatus[p] = "pending"
  BY <1>1, StatusOf
<1>5. Saga!Perform(p, Saga!Workflow(kind)[DoneMap[p] + 1])
  <2>1. DoneMap[p] + 1 = step[p]
    BY <1>2, <1>3 DEF DoneMap
  <2>2. Saga!Allowed(c, a, res[a])
    BY <1>1, SagaCalls DEF CanSucceed
  <2>3. res' = [res EXCEPT ![a] = Saga!Effect(c, @)]
    BY <1>1, SagaCalls DEF Apply
  <2>4. QED
    BY <2>1, <2>2, <2>3, SagaCalls DEF Saga!Perform
<1>6. CASE step[p] = NumSteps
  <2>1. Finish(p, Interfere(p))
    BY <1>6 DEF ForwardOk
  <2>2. Saga!Reset(p)
    BY <1>1, <2>1, FinishMaps
  <2>3. DoneMap[p] + 1 = Saga!NumSteps
    BY <1>2, <1>3, <1>6, SagaCalls DEF DoneMap
  <2>4. QED
    BY <1>1, <1>4, <1>5, <2>2, <2>3 DEF Saga!CallOk, DoneMap, UndoneMap
<1>7. CASE step[p] # NumSteps
  <2>1. /\ ckpts' = [ckpts EXCEPT ![p] = MapSet(ckpts[p], Checkpoint(kind, step[p]))]
        /\ UNCHANGED <<pc, cur>>
    BY <1>7 DEF ForwardOk
  <2>2. step[p] \in 1..(NumSteps - 1)
    BY <1>3, <1>7 DEF NumSteps
  <2>3. MapSet(ckpts[p], Checkpoint(kind, step[p])) = Ledger(kind, step[p])
    BY <1>2, <1>3, <2>2, LedgerGrows
  <2>4. Len(Ledger(kind, step[p])) = step[p]
    BY <1>3, <2>2, LedgerShape
  <2>5. DoneMap' = [DoneMap EXCEPT ![p] = DoneMap[p] + 1]
    <3>1. ckpts \in [Invocations -> Seq(CheckpointKeys)]
      BY <1>1 DEF TypeOK
    <3>2. DoneMap'[p] = DoneMap[p] + 1
      BY <1>2, <1>3, <2>1, <2>3, <2>4, <3>1 DEF DoneMap
    <3>3. \A q \in Invocations \ {p} : DoneMap'[q] = DoneMap[q]
      BY <2>1, <3>1 DEF DoneMap
    <3>4. QED
      BY <3>2, <3>3 DEF DoneMap
  <2>6. SagaStatus' = SagaStatus /\ UndoneMap' = UndoneMap
    BY <2>1 DEF SagaStatus, UndoneMap
  <2>7. DoneMap[p] + 1 # Saga!NumSteps
    BY <1>2, <1>3, <1>7, SagaCalls DEF DoneMap
  <2>8. QED
    BY <1>1, <1>4, <1>5, <2>5, <2>6, <2>7 DEF Saga!CallOk, DoneMap, UndoneMap
<1>8. QED
  BY <1>6, <1>7


(* An iteration of the rollback loop is the saga's next compensation: the  *)
(* loop's entry is the checkpoint of the call done at that position.       *)
LEMMA RollbackMaps ==
    ASSUME IInv, NEW p \in Invocations, Rollback(p)
    PROVE  Saga!Compensate(p)
<1> DEFINE kind == req[p].kind
           a == req[p].acct
           c == RollbackCall(kind, ckpts[p][cur[p]])
           sc == Saga!RollbackCall(kind, Saga!Checkpoint(kind, UndoneMap[p] + 1))
<1>1. TypeOK /\ pc[p] = "undo" /\ cur[p] <= Len(ckpts[p]) /\ req' = req
  BY DEF IInv, TypeInv, Rollback
<1>2. kind \in Kinds /\ a \in Accounts /\ cur[p] \in 1..NumSteps
  BY <1>1, LocalTypes
<1>3. \A i \in 1..Len(ckpts[p]) : ckpts[p][i] = Checkpoint(kind, i)
  BY <1>1, RunningLedger DEF Active
<1>4. UndoneMap[p] + 1 = cur[p] /\ UndoneMap[p] < DoneMap[p]
  BY <1>1, <1>2 DEF UndoneMap, DoneMap
<1>5. c = sc
  BY <1>1, <1>2, <1>3, <1>4, SagaCalls
<1>6. SagaStatus[p] = "unwinding"
  BY <1>1, StatusOf
<1>7. CASE /\ CanSucceed(c, a) /\ res' = Apply(c, a)
           /\ cur' = [cur EXCEPT ![p] = @ + 1]
           /\ UNCHANGED <<pc, step, ckpts, err, snap>>
  <2>1. Saga!Perform(p, sc)
    <3>1. Saga!Allowed(sc, a, res[a])
      BY <1>5, <1>7, SagaCalls DEF CanSucceed
    <3>2. res' = [res EXCEPT ![a] = Saga!Effect(sc, @)]
      BY <1>5, <1>7, SagaCalls DEF Apply
    <3>3. QED
      BY <3>1, <3>2 DEF Saga!Perform
  <2>2. UndoneMap' = [UndoneMap EXCEPT ![p] = UndoneMap[p] + 1]
    <3>1. cur \in [Invocations -> 1..NumSteps]
      BY <1>1 DEF TypeOK
    <3>2. UndoneMap'[p] = UndoneMap[p] + 1
      BY <1>2, <1>7, <3>1 DEF UndoneMap
    <3>3. \A q \in Invocations \ {p} : UndoneMap'[q] = UndoneMap[q]
      BY <1>7, <3>1 DEF UndoneMap
    <3>4. QED
      BY <3>2, <3>3 DEF UndoneMap
  <2>3. SagaStatus' = SagaStatus /\ DoneMap' = DoneMap
    BY <1>7 DEF SagaStatus, DoneMap
  <2>4. QED
    BY <1>1, <1>4, <1>6, <2>1, <2>2, <2>3 DEF Saga!Compensate, DoneMap, UndoneMap
<1>8. CASE /\ ~CanSucceed(c, a) \/ CompensationsMayFail
           /\ Finish(p, interfered) /\ UNCHANGED res
  <2>1. ~Saga!Allowed(sc, a, res[a]) \/ CompensationsMayFail
    BY <1>5, <1>8, SagaCalls DEF CanSucceed
  <2>2. Saga!Reset(p)
    BY <1>1, <1>8, FinishMaps
  <2>3. QED
    BY <1>1, <1>4, <1>6, <1>8, <2>1, <2>2 DEF Saga!Compensate, DoneMap, UndoneMap
<1>9. QED
  BY <1>7, <1>8 DEF Rollback


(* The initial states of the handlers map to initial states of the saga. *)
LEMMA InitMaps == Init => Saga!SagaInit
<1> SUFFICES ASSUME Init PROVE Saga!SagaInit
  OBVIOUS
<1>1. req \in [Invocations -> Saga!Requests]
  BY SagaCalls DEF Init
<1>2. SagaStatus = [p \in Invocations |-> "idle"]
  BY DEF Init, SagaStatus, Idle
<1>3. DoneMap = [p \in Invocations |-> 0] /\ UndoneMap = [p \in Invocations |-> 0]
  BY DEF Init, DoneMap, UndoneMap
<1>4. QED
  BY <1>1, <1>2, <1>3 DEF Init, Saga!SagaInit, DoneMap, UndoneMap

(* Every step of the handlers is a saga step or leaves the mapped state   *)
(* alone.                                                                  *)
LEMMA StepMaps == IInv /\ [Next]_vars => [Saga!SagaNext]_Saga!sagaVars
<1> SUFFICES ASSUME IInv, [Next]_vars PROVE [Saga!SagaNext]_Saga!sagaVars
  OBVIOUS
<1>1. ASSUME NEW p \in Invocations, Start(p) PROVE Saga!SagaNext
  BY <1>1, StartMaps DEF Saga!SagaNext
<1>2. ASSUME NEW p \in Invocations, ForwardOk(p) PROVE Saga!SagaNext
  BY <1>2, ForwardOkMaps DEF Saga!SagaNext
<1>3. ASSUME NEW p \in Invocations, ForwardFail(p) PROVE Saga!SagaNext
  BY <1>3, ForwardFailMaps DEF Saga!SagaNext
<1>4. ASSUME NEW p \in Invocations, Rollback(p) PROVE Saga!SagaNext
  BY <1>4, RollbackMaps DEF Saga!SagaNext
<1>5. ASSUME NEW p \in Invocations, RespondFailure(p) PROVE Saga!SagaNext
  BY <1>5, RespondMaps DEF Saga!SagaNext
<1>6. ASSUME NEW p \in Invocations, Kill(p) PROVE Saga!SagaNext
  BY <1>6, KillMaps DEF Saga!SagaNext
<1>7. CASE UNCHANGED vars
  BY <1>7 DEF vars, Saga!sagaVars, SagaStatus
<1>8. QED
  BY <1>1, <1>2, <1>3, <1>4, <1>5, <1>6, <1>7 DEF Next

(***************************************************************************)
(* The onboarding and offboarding handlers implement the saga of           *)
(* AdtechSaga, for every set of accounts and invocations: the checkpoint   *)
(* Map records each completed forward call once, in order, and the catch   *)
(* block's loop compensates those entries in that order, at most once     *)
(* each, stopping at the first rollback call that throws.                  *)
(***************************************************************************)
THEOREM SagaRefinement == Spec => ImplementsSaga
<1>1. Init => IInv /\ Saga!SagaInit
  BY IInvInit, InitMaps
<1>2. IInv /\ [Next]_vars => IInv' /\ [Saga!SagaNext]_Saga!sagaVars
  BY IInvStep, StepMaps
<1>3. QED
  BY <1>1, <1>2, PTL DEF Spec, ImplementsSaga, Saga!SagaSpec

-----------------------------------------------------------------------------
(***************************************************************************)
(* Facts about the handlers that the read and recovery proofs share.       *)
(***************************************************************************)
(* Nothing exists for an account IAM refuses, and no invocation on it has *)
(* got past its first call.                                                *)
InvalidInv ==
    /\ \A a \in InvalidAccounts : res[a] = {}
    /\ \A q \in Invocations :
          pc[q] \in Active /\ req[q].acct \in InvalidAccounts => step[q] = 1

(* A finishing slot goes idle and leaves the other slots alone. *)
LEMMA FinishFrame ==
    ASSUME TypeOK, NEW p \in Invocations, NEW m, Finish(p, m)
    PROVE  /\ pc'[p] = Idle /\ step'[p] = 1 /\ ckpts'[p] = <<>>
           /\ \A q \in Invocations \ {p} :
                 pc'[q] = pc[q] /\ step'[q] = step[q] /\ ckpts'[q] = ckpts[q]
BY DEF Finish, TypeOK

(* The first call of a handler on an account IAM refuses never succeeds: *)
(* CreateRole is refused, and DetachRolePolicy finds no attachment.       *)
LEMMA InvalidFirstCallFails ==
    ASSUME TypeOK, InvalidInv, NEW p \in Invocations,
           req[p].acct \in InvalidAccounts
    PROVE  ~CanSucceed(Workflow(req[p].kind)[1], req[p].acct)
<1>1. req[p].kind \in Kinds /\ res[req[p].acct] = {}
  BY LocalTypes DEF InvalidInv
<1>2. QED
  BY <1>1 DEF CanSucceed, Allowed, Workflow, Kinds, createIAMRole, deleteIAMRole,
     attachRolePolicy, detachRolePolicy

(* An invocation on an account IAM refuses has an empty Map. *)
LEMMA InvalidEmptyMap ==
    ASSUME IInv, InvalidInv, NEW p \in Invocations, pc[p] \in Active,
           req[p].acct \in InvalidAccounts
    PROVE  Len(ckpts[p]) = 0
BY RunningLedger DEF InvalidInv

(* The call of a rollback-loop iteration is one of the eight calls. *)
LEMMA RollbackCallOf ==
    ASSUME TypeOK, NEW p \in Invocations, Rollback(p)
    PROVE  RollbackCall(req[p].kind, ckpts[p][cur[p]]) \in Calls
<1>1. /\ req[p].kind \in Kinds /\ cur[p] \in 1..NumSteps
      /\ ckpts[p] \in Seq(CheckpointKeys) /\ cur[p] <= Len(ckpts[p])
  BY LocalTypes DEF Rollback
<1>2. ckpts[p][cur[p]] \in CheckpointKeys
  BY <1>1
<1>3. QED
  BY <1>1, <1>2, RollbackCallTyped

(* No step creates a resource for an account IAM refuses: its onboarding *)
(* fails at CreateRole, and nothing is compensated.                       *)
LEMMA InvalidStep ==
    ASSUME IInv, InvalidInv, Next
    PROVE  InvalidInv'
<1>1. TypeOK
  BY DEF IInv, TypeInv
<1>2. PICK p \in Invocations :
        \/ Start(p) \/ ForwardOk(p) \/ ForwardFail(p) \/ Rollback(p)
        \/ RespondFailure(p) \/ Kill(p)
  BY DEF Next
<1> DEFINE a == req[p].acct
           Inner(q) == pc[q] \in Active /\ req[q].acct \in InvalidAccounts => step[q] = 1
<1>3. a \in Accounts
  BY <1>1, LocalTypes
<1>4. CASE Start(p)
  <2>1. step[p] = 1
    BY <1>4 DEF IInv, InvocationInv, Start
  <2>2. res' = res /\ step' = step
    BY <1>4 DEF Start
  <2>3. \A q \in Invocations \ {p} : pc'[q] = pc[q] /\ req'[q] = req[q]
    BY <1>1, <1>4 DEF Start, TypeOK
  <2>4. QED
    BY <2>1, <2>2, <2>3 DEF InvalidInv
<1>5. CASE ForwardOk(p)
  <2>1. a \notin InvalidAccounts
    <3>1. SUFFICES ASSUME a \in InvalidAccounts PROVE FALSE
      OBVIOUS
    <3>2. step[p] = 1
      BY <1>5, <3>1 DEF InvalidInv, ForwardOk, Active
    <3>3. QED
      BY <1>1, <1>5, <3>1, <3>2, InvalidFirstCallFails DEF ForwardOk
  <2>2. \A b \in InvalidAccounts : res'[b] = res[b]
    <3>1. Workflow(req[p].kind)[step[p]] \in Calls
      BY <1>1, LocalTypes, WorkflowTyped
    <3>2. QED
      BY <1>1, <1>3, <1>5, <2>1, <3>1, ApplyEffect, ConstantsAssumption
      DEF ForwardOk
  <2>3. \A q \in Invocations :
          pc'[q] \in Active /\ req'[q].acct \in InvalidAccounts => step'[q] = 1
    <3>1. CASE step[p] = NumSteps
      <4>1. Finish(p, Interfere(p)) /\ req' = req
        BY <1>5, <3>1 DEF ForwardOk
      <4>2. QED
        BY <1>1, <4>1, FinishFrame DEF InvalidInv, Idle, Active
    <3>2. CASE step[p] # NumSteps
      <4>1. step' = [step EXCEPT ![p] = @ + 1] /\ req' = req /\ pc' = pc
        BY <1>5, <3>2 DEF ForwardOk
      <4>2. QED
        BY <1>1, <2>1, <4>1 DEF InvalidInv, TypeOK
    <3>3. QED
      BY <3>1, <3>2
  <2>4. QED
    BY <2>2, <2>3 DEF InvalidInv
<1>6. CASE ForwardFail(p)
  BY <1>1, <1>6 DEF ForwardFail, InvalidInv, TypeOK, Active
<1>7. CASE Rollback(p)
  <2>1. a \notin InvalidAccounts
    <3>1. SUFFICES ASSUME a \in InvalidAccounts PROVE FALSE
      OBVIOUS
    <3>2. Len(ckpts[p]) = 0 /\ cur[p] \in 1..NumSteps
      BY <1>7, <3>1, <1>1, LocalTypes, InvalidEmptyMap DEF Rollback, Active
    <3>3. QED
      BY <1>7, <3>2 DEF Rollback
  <2>2. CASE /\ CanSucceed(RollbackCall(req[p].kind, ckpts[p][cur[p]]), a)
             /\ res' = Apply(RollbackCall(req[p].kind, ckpts[p][cur[p]]), a)
             /\ UNCHANGED <<pc, step, ckpts>> /\ req' = req
    <3>1. RollbackCall(req[p].kind, ckpts[p][cur[p]]) \in Calls
      BY <1>1, <1>7, RollbackCallOf
    <3>2. \A b \in InvalidAccounts : res'[b] = res[b]
      <4>1. \A b \in Accounts \ {a} :
              Apply(RollbackCall(req[p].kind, ckpts[p][cur[p]]), a)[b] = res[b]
        BY <1>1, <1>3, <3>1, ApplyEffect
      <4>2. QED
        BY <2>1, <2>2, <4>1, ConstantsAssumption
    <3>3. QED
      BY <2>2, <3>2 DEF InvalidInv
  <2>3. CASE Finish(p, interfered) /\ res' = res /\ req' = req
    BY <1>1, <2>3, FinishFrame DEF InvalidInv, Idle, Active
  <2>4. QED
    BY <1>7, <2>2, <2>3 DEF Rollback
<1>8. CASE RespondFailure(p) \/ Kill(p)
  <2>1. Finish(p, interfered) /\ res' = res /\ req' = req
    BY <1>8 DEF RespondFailure, Kill
  <2>2. QED
    BY <1>1, <2>1, FinishFrame DEF InvalidInv, Idle, Active
<1>9. QED
  BY <1>2, <1>4, <1>5, <1>6, <1>7, <1>8



=============================================================================

---------------------------- MODULE AdtechReadProofs ----------------------------
(***************************************************************************)
(* The read Lambda returns every confirmed tenant whose row the replicas  *)
(* agree on, for every set of accounts and invocations, as long as one    *)
(* Scan page holds a row for every account IAM accepts.                    *)
(*                                                                         *)
(* The argument: after its onboarding answered 200 with nobody else on     *)
(* the account, a confirmed tenant holds all four resources, and until an *)
(* offboarding of it starts, every invocation on it is an onboarding that *)
(* has not got past CreateRole, which IAM refuses while the role exists.   *)
(* Accounts IAM refuses never get a resource, so the table holds at most  *)
(* one row per valid account, and no replica holds a row of theirs.       *)
(***************************************************************************)
EXTENDS AdtechRead, AdtechSagaProofs, FiniteSetTheorems

(* A running invocation on a confirmed tenant's account is an onboarding  *)
(* with an empty checkpoint Map.                                           *)
ConfirmedInv ==
    \A a \in Accounts : confirmed[a] =>
        /\ res[a] = Resources
        /\ \A q \in Invocations :
              pc[q] \in Active /\ req[q].acct = a =>
                  req[q].kind = "onboard" /\ ckpts[q] = <<>>

(* No replica has ever held a row for an account IAM refuses.            *)
StaleInv ==
    /\ stale \in [Accounts -> SUBSET BOOLEAN]
    /\ \A b \in InvalidAccounts : TRUE \notin stale[b]

RInv ==
    /\ IInv
    /\ confirmed \in [Accounts -> BOOLEAN]
    /\ ConfirmedInv
    /\ InvalidInv
    /\ StaleInv

(* A step of the handlers keeps a confirmed tenant whole and leaves only  *)
(* onboardings with an empty Map running on it.                            *)
LEMMA ConfirmedStep ==
    ASSUME RInv, HandlerStep, NEW a \in Accounts, confirmed'[a]
    PROVE  /\ res'[a] = Resources
           /\ \A q \in Invocations :
                 pc'[q] \in Active /\ req'[q].acct = a =>
                     req'[q].kind = "onboard" /\ ckpts'[q] = <<>>
<1>1. TypeOK /\ IInv /\ Next
  BY DEF RInv, IInv, TypeInv, HandlerStep
<1>2. TypeOK'
  BY <1>1, IInvStep DEF IInv, TypeInv
<1>3. /\ ~\E p \in Invocations :
            pc'[p] \in Active /\ req'[p] = [kind |-> "offboard", acct |-> a]
      /\ confirmed[a] \/ \E p \in Invocations : Confirms(p, a)
  BY DEF HandlerStep
<1>4. \A q \in Invocations :
        pc'[q] \in Active /\ req'[q].acct = a => req'[q].kind = "onboard"
  <2> SUFFICES ASSUME NEW q \in Invocations, pc'[q] \in Active, req'[q].acct = a
               PROVE  req'[q].kind = "onboard"
    OBVIOUS
  <2>1. req'[q] \in Requests
    BY <1>2 DEF TypeOK
  <2>2. req'[q] # [kind |-> "offboard", acct |-> a]
    BY <1>3
  <2>3. QED
    BY <2>1, <2>2 DEF Requests, Kinds
<1> DEFINE Quiet(q) == pc'[q] \in Active /\ req'[q].acct = a => ckpts'[q] = <<>>
<1>5. CASE \E p \in Invocations : Confirms(p, a)
  <2>1. PICK p \in Invocations : Confirms(p, a)
    BY <1>5
  <2>2. /\ req[p] = [kind |-> "onboard", acct |-> a]
        /\ step[p] = NumSteps /\ ~interfered[p]
        /\ \A q \in Invocations \ {p} : pc[q] \in Active => req[q].acct # a
        /\ ForwardOk(p)
    BY <2>1 DEF Confirms
  <2>3. /\ pc[p] = "fwd" /\ res' = Apply(addToPBSAuthDB, a)
        /\ Finish(p, Interfere(p)) /\ req' = req
    BY <2>2 DEF ForwardOk, Workflow, NumSteps
  <2>4. /\ res[a] = Expected(p)
        /\ cur[p] = 1 /\ ckpts[p] = Ledger("onboard", 3)
    BY <1>1, <2>2, <2>3 DEF IInv, InvocationInv, Active, NumSteps
  <2>5. Outstanding(p) = {Checkpoint("onboard", i) : i \in 1..3}
    <3>1. /\ req[p].kind = "onboard" /\ req[p].kind \in Kinds
          /\ 3 \in 0..(NumSteps - 1) /\ cur[p] \in 1..NumSteps
      BY <2>2, <2>4 DEF Kinds, NumSteps
    <3>2. Outstanding(p) = {Checkpoint(req[p].kind, i) : i \in cur[p]..3}
      BY <2>4, <3>1, OutstandingLedger
    <3>3. QED
      BY <2>4, <3>1, <3>2
  <2>6. {Checkpoint("onboard", i) : i \in 1..3} = {"role", "policy", "mgmt"}
    BY DEF Checkpoint, IAM_ROLE_CHECKPOINT, IAM_ROLE_POLICY_CHECKPOINT,
           ADTECH_MGMT_CHECKPOINT
  <2>7. {"role", "policy", "mgmt"} \subseteq res[a]
    BY <2>2, <2>4, <2>5, <2>6 DEF Expected
  <2>8. res'[a] = Resources
    <3>1. res'[a] = res[a] \cup {"auth"}
      <4>1. addToPBSAuthDB \in Calls
        BY CallsTyped
      <4>2. Apply(addToPBSAuthDB, a)[a] =
              IF addToPBSAuthDB.put THEN res[a] \cup {addToPBSAuthDB.r}
              ELSE res[a] \ {addToPBSAuthDB.r}
        BY <1>1, <4>1, ApplyEffect
      <4>3. QED
        BY <2>3, <4>2 DEF addToPBSAuthDB
    <3>2. res[a] \subseteq Resources
      BY <1>1 DEF TypeOK
    <3>3. QED
      BY <2>7, <3>1, <3>2 DEF Resources
  <2>9. \A q \in Invocations : Quiet(q)
    <3>1. /\ pc'[p] = Idle
          /\ \A q \in Invocations \ {p} : pc'[q] = pc[q] /\ req'[q] = req[q]
      BY <1>1, <2>3, FinishFrame
    <3>2. QED
      BY <2>2, <3>1 DEF Idle, Active
  <2>10. QED
    BY <1>4, <2>8, <2>9
<1>6. CASE confirmed[a]
  <2>1. /\ res[a] = Resources
        /\ \A q \in Invocations :
              pc[q] \in Active /\ req[q].acct = a =>
                  req[q].kind = "onboard" /\ ckpts[q] = <<>>
    BY <1>6 DEF RInv, ConfirmedInv
  <2>2. PICK p \in Invocations :
          \/ Start(p) \/ ForwardOk(p) \/ ForwardFail(p) \/ Rollback(p)
          \/ RespondFailure(p) \/ Kill(p)
    BY <1>1 DEF Next
  <2>3. req[p].acct \in Accounts
    BY <1>1, LocalTypes
  <2>4. ASSUME Finish(p, interfered), res' = res, req' = req
        PROVE  res'[a] = Resources /\ \A q \in Invocations : Quiet(q)
    <3>1. /\ pc'[p] = Idle
          /\ \A q \in Invocations \ {p} : pc'[q] = pc[q] /\ ckpts'[q] = ckpts[q]
      BY <1>1, <2>4, FinishFrame
    <3>2. QED
      BY <2>1, <2>4, <3>1 DEF Idle, Active
  <2>5. CASE Start(p)
    <3>1. res' = res /\ ckpts' = ckpts
      BY <2>5 DEF Start
    <3>2. ckpts[p] = <<>>
      BY <2>5 DEF RInv, IInv, InvocationInv, Start
    <3>3. \A q \in Invocations \ {p} : pc'[q] = pc[q] /\ req'[q] = req[q]
      BY <1>1, <2>5 DEF Start, TypeOK
    <3>4. QED
      BY <1>4, <2>1, <3>1, <3>2, <3>3
  <2>6. CASE ForwardOk(p)
    <3>1. req[p].acct # a
      <4>1. SUFFICES ASSUME req[p].acct = a PROVE FALSE
        OBVIOUS
      <4>2. pc[p] = "fwd"
        BY <2>6 DEF ForwardOk
      <4>3. req[p].kind = "onboard" /\ ckpts[p] = <<>>
        BY <2>1, <4>1, <4>2 DEF Active
      <4>4. step[p] = 1
        BY <1>1, <4>2, <4>3, LocalTypes, RunningLedger DEF Active
      <4>5. ~CanSucceed(createIAMRole, a)
        BY <2>1 DEF CanSucceed, Allowed, createIAMRole, Resources
      <4>6. QED
        BY <2>6, <4>1, <4>3, <4>4, <4>5 DEF ForwardOk, Workflow
    <3>2. res'[a] = res[a]
      <4>1. Workflow(req[p].kind)[step[p]] \in Calls
        BY <1>1, LocalTypes, WorkflowTyped
      <4>2. QED
        BY <1>1, <2>3, <2>6, <3>1, <4>1, ApplyEffect DEF ForwardOk
    <3>3. \A q \in Invocations \ {p} :
            pc'[q] = pc[q] /\ req'[q] = req[q] /\ ckpts'[q] = ckpts[q]
      <4>1. CASE step[p] = NumSteps
        BY <1>1, <2>6, <4>1, FinishFrame DEF ForwardOk
      <4>2. CASE step[p] # NumSteps
        BY <1>1, <2>6, <4>2 DEF ForwardOk, TypeOK
      <4>3. QED
        BY <4>1, <4>2
    <3>4. req'[p] = req[p]
      BY <2>6 DEF ForwardOk
    <3>5. QED
      BY <1>4, <2>1, <3>1, <3>2, <3>3, <3>4
  <2>7. CASE ForwardFail(p)
    <3>1. res' = res /\ ckpts' = ckpts /\ req' = req /\ pc[p] \in Active
      BY <2>7 DEF ForwardFail, Active
    <3>2. \A q \in Invocations \ {p} : pc'[q] = pc[q]
      BY <1>1, <2>7 DEF ForwardFail, TypeOK
    <3>3. QED
      BY <1>4, <2>1, <3>1, <3>2
  <2>8. CASE Rollback(p)
    <3>1. req[p].acct # a
      <4>1. SUFFICES ASSUME req[p].acct = a PROVE FALSE
        OBVIOUS
      <4>2. pc[p] = "undo" /\ cur[p] <= Len(ckpts[p])
        BY <2>8 DEF Rollback
      <4>3. ckpts[p] = <<>> /\ cur[p] \in 1..NumSteps
        BY <1>1, <2>1, <4>1, <4>2, LocalTypes DEF Active
      <4>4. QED
        BY <4>2, <4>3
    <3>2. CASE /\ res' = Apply(RollbackCall(req[p].kind, ckpts[p][cur[p]]), req[p].acct)
               /\ UNCHANGED <<pc, ckpts>> /\ req' = req
      <4>1. RollbackCall(req[p].kind, ckpts[p][cur[p]]) \in Calls
        BY <1>1, <2>8, RollbackCallOf
      <4>2. res'[a] = res[a]
        BY <1>1, <2>3, <3>1, <3>2, <4>1, ApplyEffect
      <4>3. QED
        BY <1>4, <2>1, <3>2, <4>2
    <3>3. CASE Finish(p, interfered) /\ res' = res /\ req' = req
      BY <1>4, <2>4, <3>3
    <3>4. QED
      BY <2>8, <3>2, <3>3 DEF Rollback
  <2>9. CASE RespondFailure(p) \/ Kill(p)
    BY <1>4, <2>4, <2>9 DEF RespondFailure, Kill
  <2>10. QED
    BY <2>2, <2>5, <2>6, <2>7, <2>8, <2>9
<1>7. QED
  BY <1>3, <1>5, <1>6


(* Every read that returns lists a confirmed tenant whose row has        *)
(* converged, when one Scan page holds every account IAM accepts: the Get *)
(* finds its row, and the Scan, whose rows are never more than the page,  *)
(* returns them all.                                                       *)
LEMMA ReadCorrect ==
    ASSUME RInv, IsFiniteSet(Accounts),
           Cardinality(Accounts \ InvalidAccounts) <= ScanPageSize,
           NEW a \in Accounts, confirmed[a], stale[a] = {},
           ReadOneOk(a) \/ ReadAllOk
    PROVE  readResp'.status = 200 /\ a \in readResp'.tenants
<1>1. Visible(a) = {TRUE}
  <2>1. "mgmt" \in res[a]
    BY DEF RInv, ConfirmedInv, Resources
  <2>2. QED
    BY <2>1 DEF Visible
<1>2. CASE ReadOneOk(a)
  BY <1>1, <1>2 DEF ReadOneOk, readFromAdtechMgmtDB, Row, ConverterThrows,
                    converter, Found
<1>3. CASE ReadAllOk
  <2>0. PICK V \in ScanViews :
          \E page \in Pages({Row(b) : b \in V}) :
             readResp' = Found(AllTenants, {converter(r) : r \in page})
    BY <1>3 DEF ReadAllOk, ScanPages
  <2> DEFINE rows == {Row(b) : b \in V}
  <2>1. PICK page \in Pages(rows) :
          readResp' = Found(AllTenants, {converter(r) : r \in page})
    BY <2>0
  <2>2. a \in V
    BY <1>1, <2>0 DEF ScanViews
  <2>3. V \subseteq Accounts \ InvalidAccounts
    <3>1. SUFFICES ASSUME NEW b \in InvalidAccounts, b \in V PROVE FALSE
      BY <2>0 DEF ScanViews
    <3>2. "mgmt" \notin res[b] /\ TRUE \notin stale[b]
      BY DEF RInv, InvalidInv, StaleInv
    <3>3. b \in Accounts
      BY ConstantsAssumption
    <3>4. TRUE \in Visible(b)
      BY <2>0, <3>1, <3>3 DEF ScanViews
    <3>5. QED
      BY <3>2, <3>4 DEF Visible
  <2>4. IsFiniteSet(Accounts \ InvalidAccounts)
    BY FS_Difference
  <2>5. IsFiniteSet(V) /\ Cardinality(V) <= Cardinality(Accounts \ InvalidAccounts)
    BY <2>3, <2>4, FS_Subset
  <2>6. IsFiniteSet(rows) /\ Cardinality(rows) <= Cardinality(V)
    <3>1. [b \in V |-> Row(b)] \in Surjection(V, rows)
      BY DEF Surjection
    <3>2. QED
      BY <2>5, <3>1, FS_Surjection
  <2>7. Cardinality(rows) <= ScanPageSize
    BY <2>4, <2>5, <2>6, FS_CardinalityType, ScanPageSizeAssumption
  <2>8. page \subseteq rows /\ Cardinality(page) = Cardinality(rows)
    BY <2>1, <2>7 DEF Pages
  <2>9. page = rows
    BY <2>6, <2>8, FS_Subset
  <2>10. Row(a) \in page /\ converter(Row(a)) = a
    BY <2>2, <2>9 DEF Row, converter
  <2>11. QED
    BY <2>1, <2>10 DEF Found
<1>4. QED
  BY <1>2, <1>3


(* The initial state: nothing exists, nobody runs, nobody is confirmed,  *)
(* and the replicas agree.                                                 *)
LEMMA RInvInit == ReadInit => RInv
<1> SUFFICES ASSUME ReadInit PROVE RInv
  OBVIOUS
<1>1. IInv
  BY IInvInit DEF ReadInit
<1>2. confirmed \in [Accounts -> BOOLEAN] /\ ConfirmedInv
  BY DEF ReadInit, ConfirmedInv
<1>3. InvalidInv
  BY ConstantsAssumption DEF ReadInit, Init, InvalidInv, Idle, Active
<1>4. StaleInv
  BY ConstantsAssumption DEF ReadInit, StaleInv
<1>5. QED
  BY <1>1, <1>2, <1>3, <1>4 DEF RInv

(* A handler step records in stale only the earlier state of a row it     *)
(* changes, and an account IAM refuses never has one.                      *)
LEMMA StaleStep ==
    ASSUME RInv, HandlerStep
    PROVE  StaleInv'
<1>1. InvalidInv /\ StaleInv
  BY DEF RInv
<1>2. stale' \in [Accounts -> SUBSET BOOLEAN]
  <2>1. \A a \in Accounts :
          /\ stale[a] \in SUBSET BOOLEAN
          /\ stale[a] \cup {"mgmt" \in res[a]} \in SUBSET BOOLEAN
    <3> SUFFICES ASSUME NEW a \in Accounts
                 PROVE  /\ stale[a] \in SUBSET BOOLEAN
                        /\ stale[a] \cup {"mgmt" \in res[a]} \in SUBSET BOOLEAN
      OBVIOUS
    <3>1. stale[a] \in SUBSET BOOLEAN
      BY <1>1 DEF StaleInv
    <3>2. ("mgmt" \in res[a]) \in BOOLEAN
      OBVIOUS
    <3>3. QED
      BY <3>1, <3>2, Zenon
  <2>2. QED
    BY <2>1, Zenon DEF HandlerStep
<1>3. ASSUME NEW b \in InvalidAccounts PROVE TRUE \notin stale'[b]
  <2>1. b \in Accounts
    BY ConstantsAssumption
  <2>2. "mgmt" \notin res[b] /\ TRUE \notin stale[b]
    BY <1>1 DEF InvalidInv, StaleInv
  <2>3. stale'[b] \subseteq stale[b] \cup {"mgmt" \in res[b]}
    BY <2>1 DEF HandlerStep
  <2>4. QED
    BY <2>2, <2>3
<1>4. QED
  BY <1>2, <1>3 DEF StaleInv

(* Every step of the composition keeps RInv: the reads and the replicas   *)
(* catching up change nothing the handlers use, and the handler steps are *)
(* ConfirmedStep, InvalidStep and StaleStep.                               *)
LEMMA RInvStep == RInv /\ [ReadNext]_allVars => RInv'
<1> SUFFICES ASSUME RInv, [ReadNext]_allVars PROVE RInv'
  OBVIOUS
<1>1. CASE HandlerStep
  <2>1. IInv'
    BY <1>1, IInvStep DEF RInv, HandlerStep
  <2>2. confirmed' \in [Accounts -> BOOLEAN]
    BY <1>1 DEF HandlerStep
  <2>3. ConfirmedInv'
    BY <1>1, ConfirmedStep DEF ConfirmedInv
  <2>4. InvalidInv'
    BY <1>1, InvalidStep DEF RInv, HandlerStep
  <2>5. StaleInv'
    BY <1>1, StaleStep
  <2>6. QED
    BY <2>1, <2>2, <2>3, <2>4, <2>5 DEF RInv
<1>2. CASE UNCHANGED <<vars, confirmed, stale>>
  <2>1. IInv'
    BY <1>2, IInvStep DEF RInv
  <2>2. QED
    BY <1>2, <2>1 DEF RInv, ConfirmedInv, InvalidInv, StaleInv, vars
<1>3. ASSUME NEW a \in Accounts, Converge(a) PROVE RInv'
  <2>1. IInv'
    BY <1>3, IInvStep DEF RInv, Converge
  <2>2. StaleInv'
    <3>1. stale \in [Accounts -> SUBSET BOOLEAN]
      BY DEF RInv, StaleInv
    <3>2. stale' = [stale EXCEPT ![a] = {}]
      BY <1>3 DEF Converge
    <3>3. stale' \in [Accounts -> SUBSET BOOLEAN]
      BY <3>1, <3>2
    <3>4. \A b \in InvalidAccounts : TRUE \notin stale'[b]
      <4>1. \A b \in InvalidAccounts : TRUE \notin stale[b]
        BY DEF RInv, StaleInv
      <4>2. QED
        BY <3>1, <3>2, <4>1, ConstantsAssumption, Zenon
    <3>5. QED
      BY <3>3, <3>4 DEF StaleInv
  <2>3. UNCHANGED <<res, req, pc, step, ckpts, confirmed>>
    BY <1>3 DEF Converge, vars
  <2>4. ConfirmedInv' /\ InvalidInv' /\ confirmed' \in [Accounts -> BOOLEAN]
    BY <2>3 DEF RInv, ConfirmedInv, InvalidInv
  <2>5. QED
    BY <2>1, <2>2, <2>4 DEF RInv
<1>4. QED
  <2>1. \/ HandlerStep
        \/ UNCHANGED <<vars, confirmed, stale>>
        \/ \E a \in Accounts : Converge(a)
    BY DEF ReadNext, ReadOneOk, ReadOneFail, ReadAllOk, ReadAllFail, allVars
  <2>2. QED
    BY <1>1, <1>2, <1>3, <2>1

(* ConvergedTenantsAreRead for every set of accounts and invocations, when *)
(* one Scan page can hold a row for every account IAM accepts: no read of  *)
(* the Lambda in src/adtech_read_lambda.ts that returns misses a tenant    *)
(* whose onboarding answered 200, that nobody has offboarded since, and   *)
(* whose row every replica holds as it is.                                 *)
THEOREM ConvergedReadsHold ==
    ASSUME IsFiniteSet(Accounts),
           Cardinality(Accounts \ InvalidAccounts) <= ScanPageSize
    PROVE  ReadSpec => ConvergedTenantsAreRead
<1>1. ReadInit => RInv
  BY RInvInit
<1>2. RInv /\ [ReadNext]_allVars => RInv'
  BY RInvStep
<1>3. RInv => [\A a \in Accounts :
                 /\ confirmed[a] /\ stale[a] = {}
                 /\ ReadOneOk(a) \/ ReadAllOk
                 => readResp'.status = 200 /\ a \in readResp'.tenants]_allVars
  BY ReadCorrect
<1>4. QED
  BY <1>1, <1>2, <1>3, PTL DEF ReadSpec, ConvergedTenantsAreRead


(* Every response the read Lambda gives is a 200 listing tenants, or a   *)
(* 500 "does not exist" / read-all failure: converter maps each row of    *)
(* the table, which RInv keeps to rows of accounts, back to its account.   *)
LEMMA ReadRespStep ==
    ASSUME TypeOK, readResp \in Responses, [ReadNext]_allVars
    PROVE  readResp' \in Responses
<1>1. CASE HandlerStep
  BY <1>1 DEF HandlerStep
<1>2. ASSUME NEW a \in Accounts, ReadOneOk(a) PROVE readResp' \in Responses
  <2>1. PICK found \in Visible(a) :
          readResp' =
            IF ConverterThrows(readFromAdtechMgmtDB(a, found)) THEN NotFound(a)
            ELSE Found(a, {converter(readFromAdtechMgmtDB(a, found))})
    BY <1>2 DEF ReadOneOk
  <2>2. CASE found
    BY <2>1, <2>2 DEF readFromAdtechMgmtDB, Row, ConverterThrows,
                      converter, Found, Responses, ReadRequests
  <2>3. CASE ~found
    BY <2>1, <2>3 DEF readFromAdtechMgmtDB, NoItem, ConverterThrows,
                      NotFound, Responses, ReadRequests
  <2>4. QED
    BY <2>2, <2>3
<1>3. ASSUME NEW a \in Accounts, ReadOneFail(a) PROVE readResp' \in Responses
  BY <1>3 DEF ReadOneFail, NotFound, Responses, ReadRequests
<1>4. CASE ReadAllOk
  <2>1. PICK page \in ScanPages :
          readResp' = Found(AllTenants, {converter(r) : r \in page})
    BY <1>4 DEF ReadAllOk
  <2>2. PICK V \in ScanViews : page \in Pages({Row(b) : b \in V})
    BY <2>1 DEF ScanPages
  <2>3. V \subseteq Accounts /\ page \subseteq {Row(b) : b \in V}
    BY <2>2 DEF ScanViews, Pages
  <2>4. \A r \in page : converter(r) \in Accounts
    BY <2>3 DEF Row, converter
  <2>5. QED
    BY <2>1, <2>4 DEF Found, Responses, ReadRequests, AllTenants
<1>5. CASE ReadAllFail
  BY <1>5 DEF ReadAllFail, ReadAllFailed, Responses, ReadRequests, AllTenants
<1>6. CASE UNCHANGED allVars \/ \E a \in Accounts : Converge(a)
  BY <1>6 DEF allVars, Converge
<1>7. QED
  BY <1>1, <1>2, <1>3, <1>4, <1>5, <1>6 DEF ReadNext

(* ReadTypeOK: the composition of the handlers with the read Lambda is    *)
(* well typed in every reachable state, for every set of accounts.         *)
THEOREM ReadTypeCorrect == ReadSpec => []ReadTypeOK
<1> DEFINE J == RInv /\ readResp \in Responses
<1>1. ReadInit => J
  BY RInvInit DEF ReadInit, NoResponse, Found, Responses, ReadRequests, AllTenants
<1>2. J /\ [ReadNext]_allVars => J'
  BY RInvStep, ReadRespStep DEF RInv, IInv, TypeInv
<1>3. J => ReadTypeOK
  BY DEF RInv, IInv, TypeInv, StaleInv, ReadTypeOK
<1>4. QED
  BY <1>1, <1>2, <1>3, PTL DEF ReadSpec

=============================================================================

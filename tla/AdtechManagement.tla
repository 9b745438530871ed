-------------------------- MODULE AdtechManagement --------------------------
(***************************************************************************)
(* The Adtech onboarding and offboarding Lambdas of                        *)
(* typescript/coordinator/aws/adtechmanagement, together with the three    *)
(* external stores they write: IAM (the tenant's role and the attached     *)
(* coordinator policy), the Adtech Management DynamoDB table (metadata)    *)
(* and the PBS Auth DynamoDB table (role -> origin mapping).               *)
(*                                                                         *)
(* Every handler is a sequence of awaited calls; each await is a point     *)
(* where other Lambda invocations may run, so each call is one step.  An   *)
(* invocation records a checkpoint in a JavaScript Map after each forward  *)
(* call that succeeds; on the first failing call it iterates the Map and   *)
(* calls the compensation of every entry.                                  *)
(*                                                                         *)
(* Data is abstracted to what the stores can tell apart: all names of a    *)
(* tenant (role name coordinator-role-<awsID>, role ARN, table keys) are   *)
(* derived from its AWS account id, so the stores are modelled as the set  *)
(* of resources that exist for each account.                               *)
(***************************************************************************)
EXTENDS AdtechCalls, Functions

CONSTANTS
    Invocations,           \* concurrently running Lambda invocations
    CompensationsMayFail,  \* whether a rollback call may fail transiently
    LambdaMayTimeOut       \* whether an invocation may be stopped mid-handler

ASSUME ConstantsAssumption ==
    /\ InvalidAccounts \subseteq Accounts
    /\ CompensationsMayFail \in BOOLEAN
    /\ LambdaMayTimeOut \in BOOLEAN

VARIABLES
    res,         \* res[a]: the resources that exist in the stores for account a
    req,         \* req[p]: the request invocation p is serving
    pc,          \* pc[p]: where invocation p is in its handler
    step,        \* step[p]: index of the next forward call of the workflow
    ckpts,       \* ckpts[p]: keys of the checkpoint Map, in insertion order
    cur,         \* cur[p]: position of the rollback loop in ckpts[p]
    err,         \* err[p]: error.name of the forward call that failed
    snap,        \* ghost: res[req[p].acct] when invocation p started
    interfered   \* ghost: another invocation changed p's account while p ran

vars == <<res, req, pc, step, ckpts, cur, err, snap, interfered>>

-----------------------------------------------------------------------------
(* Whether the service can carry out call c on account a now.              *)
CanSucceed(c, a) == Allowed(c, a, res[a])

(* The store after call c for account a succeeded. *)
Apply(c, a) == [res EXCEPT ![a] = Effect(c, @)]

ErrorNames == {"EntityAlreadyExistsException",
               "MalformedPolicyDocumentException", "Other"}

(* The error.name a failing call c raises: the service error when the call *)
(* cannot succeed, otherwise a transient one (throttling, network).        *)
CallErrors(c, a) ==
    IF CanSucceed(c, a) THEN {"Other"}
    ELSE IF c = createIAMRole /\ "role" \in res[a]
         THEN {"EntityAlreadyExistsException"}
    ELSE IF c = createIAMRole THEN {"MalformedPolicyDocumentException"}
    ELSE {"Other"}

(* Map.prototype.set: a new key is appended, an existing key keeps its place. *)
MapSet(m, key) == IF key \in Range(m) THEN m ELSE Append(m, key)

-----------------------------------------------------------------------------
Active == {"fwd", "undo"}

(* An invocation slot is "idle" when no handler runs in it. *)
Idle == "idle"

(* Mutant: the slot is reset with an off-by-one step index. *)
FinishOffByOne(p, marks) ==
    /\ pc' = [pc EXCEPT ![p] = Idle]
    /\ step' = [step EXCEPT ![p] = 0]
    /\ ckpts' = [ckpts EXCEPT ![p] = <<>>]
    /\ cur' = [cur EXCEPT ![p] = 1]
    /\ err' = [err EXCEPT ![p] = "Other"]
    /\ snap' = [snap EXCEPT ![p] = {}]
    /\ interfered' = [marks EXCEPT ![p] = FALSE]

(* The handler returned (200, or 500 from the catch block), its promise   *)
(* rejected because a rollback call threw inside the catch block, or the  *)
(* Lambda timed out: the invocation, its checkpoint Map and its locals    *)
(* are gone and the slot is free.                                         *)
Finish(p, marks) ==
    /\ pc' = [pc EXCEPT ![p] = Idle]
    /\ step' = [step EXCEPT ![p] = 1]
    /\ ckpts' = [ckpts EXCEPT ![p] = <<>>]
    /\ cur' = [cur EXCEPT ![p] = 1]
    /\ err' = [err EXCEPT ![p] = "Other"]
    /\ snap' = [snap EXCEPT ![p] = {}]
    /\ interfered' = [marks EXCEPT ![p] = FALSE]

(* Mark every other running invocation on the same account as interfered. *)
Interfere(p) ==
    [q \in Invocations |->
        interfered[q] \/ (q # p /\ pc[q] \in Active
                                /\ req[q].acct = req[p].acct)]

Init ==
    /\ res = [a \in Accounts |-> {}]
    /\ req \in [Invocations -> Requests]
    /\ pc = [p \in Invocations |-> Idle]
    /\ step = [p \in Invocations |-> 1]
    /\ ckpts = [p \in Invocations |-> <<>>]
    /\ cur = [p \in Invocations |-> 1]
    /\ err = [p \in Invocations |-> "Other"]
    /\ snap = [p \in Invocations |-> {}]
    /\ interfered = [p \in Invocations |-> FALSE]

(* A Lambda slot receives a new request: handler entry, JSON.parse of the *)
(* body and a fresh checkpoint Map.                                        *)
Start(p) ==
    /\ pc[p] = Idle
    /\ \E r \in Requests :
        /\ req' = [req EXCEPT ![p] = r]
        /\ snap' = [snap EXCEPT ![p] = res[r.acct]]
    /\ pc' = [pc EXCEPT ![p] = "fwd"]
    /\ UNCHANGED <<res, step, ckpts, cur, err, interfered>>

(* The awaited forward call succeeds: the checkpoint is set, or the        *)
(* handler returns 200 after the last call.                                *)
ForwardOk(p) ==
    LET a == req[p].acct
        c == Workflow(req[p].kind)[step[p]]
    IN  /\ pc[p] = "fwd"
        /\ CanSucceed(c, a)
        /\ res' = Apply(c, a)
        /\ IF step[p] = NumSteps
           THEN Finish(p, Interfere(p))
           ELSE /\ ckpts' = [ckpts EXCEPT ![p] =
                              MapSet(@, Checkpoint(req[p].kind, step[p]))]
                /\ step' = [step EXCEPT ![p] = @ + 1]
                /\ interfered' = Interfere(p)
                /\ UNCHANGED <<pc, cur, err, snap>>
        /\ UNCHANGED req

(* Mutant: the catch block answers 500 without running the rollback loop. *)
ForwardFailNoUnwind(p) ==
    LET a == req[p].acct
        c == Workflow(req[p].kind)[step[p]]
    IN  /\ pc[p] = "fwd"
        /\ \E e \in CallErrors(c, a) : err' = [err EXCEPT ![p] = e]
        /\ pc' = [pc EXCEPT ![p] = "undo"]
        /\ cur' = [cur EXCEPT ![p] = Len(ckpts[p]) + 1]
        /\ UNCHANGED <<res, req, step, ckpts, snap, interfered>>

(* The awaited forward call throws: control enters the catch block. *)
ForwardFail(p) ==
    LET a == req[p].acct
        c == Workflow(req[p].kind)[step[p]]
    IN  /\ pc[p] = "fwd"
        /\ \E e \in CallErrors(c, a) : err' = [err EXCEPT ![p] = e]
        /\ pc' = [pc EXCEPT ![p] = "undo"]
        /\ cur' = [cur EXCEPT ![p] = 1]
        /\ UNCHANGED <<res, req, step, ckpts, snap, interfered>>

(* Mutant: the rollback loop does not advance past an undone checkpoint. *)
RollbackNoAdvance(p) ==
    LET a == req[p].acct
        c == RollbackCall(req[p].kind, ckpts[p][cur[p]])
    IN  /\ pc[p] = "undo"
        /\ cur[p] <= Len(ckpts[p])
        /\ \/ /\ CanSucceed(c, a)
              /\ res' = Apply(c, a)
              /\ interfered' = Interfere(p)
              /\ UNCHANGED <<pc, step, ckpts, cur, err, snap>>
           \/ /\ ~CanSucceed(c, a) \/ CompensationsMayFail
              /\ Finish(p, interfered)
              /\ UNCHANGED res
        /\ UNCHANGED req

(* One iteration of the rollback loop: the next checkpoint of the Map, in *)
(* insertion order, is undone; if that call throws, the exception escapes *)
(* the catch block and the remaining checkpoints are never undone.        *)
Rollback(p) ==
    LET a == req[p].acct
        c == RollbackCall(req[p].kind, ckpts[p][cur[p]])
    IN  /\ pc[p] = "undo"
        /\ cur[p] <= Len(ckpts[p])
        /\ \/ /\ CanSucceed(c, a)
              /\ res' = Apply(c, a)
              /\ interfered' = Interfere(p)
              /\ cur' = [cur EXCEPT ![p] = @ + 1]
              /\ UNCHANGED <<pc, step, ckpts, err, snap>>
           \/ /\ ~CanSucceed(c, a) \/ CompensationsMayFail
              /\ Finish(p, interfered)
              /\ UNCHANGED res
        /\ UNCHANGED req

(* The loop is over: the handler returns 500 with the message built from *)
(* err[p].                                                                *)
RespondFailure(p) ==
    /\ pc[p] = "undo"
    /\ cur[p] > Len(ckpts[p])
    /\ Finish(p, interfered)
    /\ UNCHANGED <<res, req>>

(* The Lambda runtime stops the invocation between two awaits (timeout). *)
Kill(p) ==
    /\ LambdaMayTimeOut
    /\ pc[p] \in Active
    /\ Finish(p, interfered)
    /\ UNCHANGED <<res, req>>

Next ==
    \E p \in Invocations :
        \/ Start(p)
        \/ ForwardOk(p)
        \/ ForwardFail(p)
        \/ Rollback(p)
        \/ RespondFailure(p)
        \/ Kill(p)

(* Every awaited call eventually settles (the SDK and Lambda time out);   *)
(* new requests and kills are not guaranteed.                             *)
Fairness ==
    \A p \in Invocations :
        /\ WF_vars(ForwardOk(p) \/ ForwardFail(p))
        /\ WF_vars(Rollback(p))
        /\ WF_vars(RespondFailure(p))

Spec == Init /\ [][Next]_vars

FairSpec == Spec /\ Fairness

-----------------------------------------------------------------------------
TypeOK ==
    /\ res \in [Accounts -> SUBSET Resources]
    /\ req \in [Invocations -> Requests]
    /\ pc \in [Invocations -> Active \cup {Idle}]
    /\ step \in [Invocations -> 1..NumSteps]
    /\ ckpts \in [Invocations -> Seq(CheckpointKeys)]
    /\ cur \in [Invocations -> 1..NumSteps]
    /\ err \in [Invocations -> ErrorNames]
    /\ snap \in [Invocations -> SUBSET Resources]
    /\ interfered \in [Invocations -> BOOLEAN]

(* The resources a running invocation has changed and not yet undone.     *)
Outstanding(p) == {ckpts[p][i] : i \in cur[p]..Len(ckpts[p])}

(* What the account should hold if the checkpoint Map is right.           *)
Expected(p) ==
    IF req[p].kind = "onboard" THEN snap[p] \cup Outstanding(p)
    ELSE snap[p] \ Outstanding(p)

(***************************************************************************)
(* The checkpoint Map is the only record of what a running handler has     *)
(* changed: while no other invocation touches the account, the stores      *)
(* differ from what the handler found exactly by the checkpoints it has    *)
(* set and not yet rolled back.  Wrong or missing Map.set calls, a set     *)
(* before its await, or a rollback call undoing the wrong resource all     *)
(* break it.                                                               *)
(***************************************************************************)
CheckpointsReflectStores ==
    \A p \in Invocations :
        pc[p] \in Active /\ ~interfered[p] => res[req[p].acct] = Expected(p)

(***************************************************************************)
(* spec.md section 8: an invocation that fails, whatever happens during    *)
(* the unwind, leaves no resource of the tenant behind (unwind is a left   *)
(* inverse of the completed prefix).  The handlers unwind in insertion     *)
(* order and let a throwing rollback call escape the catch block.          *)
(***************************************************************************)
FailureRestores ==
    [][\A p \in Invocations :
         /\ pc[p] = "undo" /\ pc'[p] = Idle
         /\ ~interfered[p]
         => res'[req[p].acct] = snap[p]
      ]_vars

(***************************************************************************)
(* spec.md section 4.3 and the onboarding catch block: the answer "An      *)
(* Adtech with AWS ID <awsID> is already onboarded." (error.name           *)
(* EntityAlreadyExistsException from CreateRole) is given only for a       *)
(* tenant that is onboarded, i.e. whose metadata and PBS Auth entries      *)
(* exist.  The code infers it from the existence of the IAM role alone.    *)
(***************************************************************************)
AlreadyOnboardedIsTruthful ==
    [][\A p \in Invocations :
         /\ RespondFailure(p)
         /\ req[p].kind = "onboard"
         /\ err[p] = "EntityAlreadyExistsException"
         => {"mgmt", "auth"} \subseteq res[req[p].acct]
      ]_vars

(***************************************************************************)
(* The refinement mapping to AdtechSaga: the status of an invocation is    *)
(* where it is in its handler, its forward calls done are the entries of   *)
(* its checkpoint Map, and its compensations done are the entries the      *)
(* rollback loop has passed.                                               *)
(***************************************************************************)
SagaStatus ==
    [p \in Invocations |->
        IF pc[p] = "fwd" THEN "pending"
        ELSE IF pc[p] = "undo" THEN "unwinding"
        ELSE "idle"]

Saga == INSTANCE AdtechSaga
          WITH status <- SagaStatus,
               done   <- [p \in Invocations |-> Len(ckpts[p])],
               undone <- [p \in Invocations |-> cur[p] - 1]

(***************************************************************************)
(* The handlers implement the saga: the checkpoint Map grows by exactly    *)
(* one key per successful forward call, is empty when a handler starts and *)
(* ends, and the catch block's for...of loop compensates its entries once  *)
(* each, in the order the forward calls completed.  A Map.set that misses  *)
(* a key, a loop that skips or repeats an entry, or a rollback call for    *)
(* the wrong key breaks it.                                                *)
(***************************************************************************)
ImplementsSaga == Saga!SagaSpec

(* Every started invocation eventually finishes: it responds, rejects or *)
(* is killed; the rollback loop cannot spin.                              *)
Termination ==
    \A p \in Invocations : pc[p] \in Active ~> pc[p] = Idle

=============================================================================

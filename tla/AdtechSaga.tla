------------------------------ MODULE AdtechSaga ------------------------------
(***************************************************************************)
(* What the onboarding and offboarding handlers promise, without their     *)
(* checkpoint Map: each invocation makes the forward calls of its workflow *)
(* in order, each only when the service carries it out; after a failed    *)
(* call it undoes the calls it completed, in the order it completed them,  *)
(* each at most once, and stops at the first compensation that throws.    *)
(* An invocation is a status and two counters: the forward calls done and *)
(* the compensations done.                                                 *)
(*                                                                         *)
(* AdtechManagement implements this specification under the mapping of    *)
(* its Map to "done" (the Map's size) and of its loop position to          *)
(* "undone".                                                               *)
(***************************************************************************)
EXTENDS AdtechCalls

CONSTANTS
    Invocations,           \* concurrently running Lambda invocations
    CompensationsMayFail,  \* whether a rollback call may fail transiently
    LambdaMayTimeOut       \* whether an invocation may be stopped mid-handler

VARIABLES
    res,      \* res[a]: the resources that exist in the stores for account a
    req,      \* req[p]: the request invocation p is serving
    status,   \* status[p]: "idle", "pending" or "unwinding" (spec.md section 4)
    done,     \* done[p]: forward calls of p that succeeded
    undone    \* undone[p]: of those, how many p has compensated

sagaVars == <<res, req, status, done, undone>>

SagaInit ==
    /\ res = [a \in Accounts |-> {}]
    /\ req \in [Invocations -> Requests]
    /\ status = [p \in Invocations |-> "idle"]
    /\ done = [p \in Invocations |-> 0]
    /\ undone = [p \in Invocations |-> 0]

(* The invocation ends; its slot is free for the next request.             *)
Reset(p) ==
    /\ status' = [status EXCEPT ![p] = "idle"]
    /\ done' = [done EXCEPT ![p] = 0]
    /\ undone' = [undone EXCEPT ![p] = 0]

(* The call c of p on its account succeeds.                                *)
Perform(p, c) ==
    LET a == req[p].acct
    IN  /\ Allowed(c, a, res[a])
        /\ res' = [res EXCEPT ![a] = Effect(c, @)]

Begin(p) ==
    /\ status[p] = "idle"
    /\ \E r \in Requests : req' = [req EXCEPT ![p] = r]
    /\ status' = [status EXCEPT ![p] = "pending"]
    /\ UNCHANGED <<res, done, undone>>

(* The next forward call succeeds; after the last one the invocation ends. *)
CallOk(p) ==
    /\ status[p] = "pending"
    /\ Perform(p, Workflow(req[p].kind)[done[p] + 1])
    /\ IF done[p] + 1 = NumSteps
       THEN Reset(p)
       ELSE /\ done' = [done EXCEPT ![p] = @ + 1]
            /\ UNCHANGED <<status, undone>>
    /\ UNCHANGED req

CallFails(p) ==
    /\ status[p] = "pending"
    /\ status' = [status EXCEPT ![p] = "unwinding"]
    /\ UNCHANGED <<res, req, done, undone>>

(* The completed call undone[p] + 1 is compensated.                        *)
Compensate(p) ==
    LET c == RollbackCall(req[p].kind, Checkpoint(req[p].kind, undone[p] + 1))
    IN  /\ status[p] = "unwinding"
        /\ undone[p] < done[p]
        /\ \/ /\ Perform(p, c)
              /\ undone' = [undone EXCEPT ![p] = @ + 1]
              /\ UNCHANGED <<status, done>>
           \/ /\ ~Allowed(c, req[p].acct, res[req[p].acct]) \/ CompensationsMayFail
              /\ Reset(p)
              /\ UNCHANGED res
        /\ UNCHANGED req

(* Every completed call was compensated: the Failure outcome.              *)
Fail(p) ==
    /\ status[p] = "unwinding"
    /\ undone[p] = done[p]
    /\ Reset(p)
    /\ UNCHANGED <<res, req>>

TimeOut(p) ==
    /\ LambdaMayTimeOut
    /\ status[p] # "idle"
    /\ Reset(p)
    /\ UNCHANGED <<res, req>>

SagaNext ==
    \E p \in Invocations :
        \/ Begin(p)
        \/ CallOk(p)
        \/ CallFails(p)
        \/ Compensate(p)
        \/ Fail(p)
        \/ TimeOut(p)

SagaSpec == SagaInit /\ [][SagaNext]_sagaVars

=============================================================================

----------------------------- MODULE AdtechRead -----------------------------
(***************************************************************************)
(* The read Lambda (src/adtech_read_lambda.ts) composed with the           *)
(* onboarding and offboarding handlers of AdtechManagement: it reads the   *)
(* Adtech Management table that they write, while they run.  A read is one *)
(* await (GetCommand or ScanCommand) followed by converter, so it is one   *)
(* step.                                                                   *)
(*                                                                         *)
(* GetCommand and ScanCommand set no ConsistentRead, so DynamoDB answers  *)
(* them with eventually consistent reads: a read may return a row as it   *)
(* was before the latest acknowledged writes.  stale[a] holds the earlier *)
(* states (row present or not) of account a's row that a read may still   *)
(* see; Converge(a) is the replicas catching up.                           *)
(*                                                                         *)
(* The ghost confirmed[a] records that an onboarding of account a returned *)
(* 200 while no other invocation was running on a, and that no            *)
(* offboarding of a has started since: the tenant the caller was told     *)
(* exists.                                                                 *)
(***************************************************************************)
EXTENDS AdtechManagement, FiniteSets

CONSTANT
    ScanPageSize  \* the rows one ScanCommand returns before LastEvaluatedKey

ASSUME ScanPageSizeAssumption == ScanPageSize \in Nat \ {0}

VARIABLES
    readResp,   \* the response of the last read Lambda invocation
    confirmed,  \* ghost: the onboarding of a was answered 200, see above
    stale       \* earlier states of each row a read may still return

allVars == <<vars, readResp, confirmed, stale>>

(* A row of the Adtech Management table, keyed by role ARN: all its        *)
(* attributes derive from the tenant's account.                            *)
Row(a) == [iam_role |-> a, aws_id |-> a]

(* Item of a GetCommand response: the row, or undefined.                   *)
NoItem == [iam_role |-> "undefined"]

(* Whether an eventually consistent read may find the row of a: its       *)
(* current state or an earlier one the replica it reads has not replaced. *)
Visible(a) == {"mgmt" \in res[a]} \cup stale[a]

(* Mutant: the Get names a key attribute the table is not keyed on, and   *)
(* never finds the row.                                                    *)
readFromAdtechMgmtDBWrongKey(a, found) == NoItem

(* readFromAdtechMgmtDB: the Item of a GetCommand on the role ARN of a,    *)
(* from a replica on which the row is found or not.                        *)
readFromAdtechMgmtDB(a, found) == IF found THEN Row(a) ELSE NoItem

(* The accounts whose rows a Scan finds: each row as some replica holds it.*)
ScanViews == {V \in SUBSET Accounts : \A a \in Accounts : (a \in V) \in Visible(a)}

(* One page of rows: all of them when they fit, otherwise any ScanPageSize *)
(* of them, in no order the code relies on.                                *)
Pages(rows) ==
    {page \in SUBSET rows :
        Cardinality(page) = IF Cardinality(rows) <= ScanPageSize
                            THEN Cardinality(rows) ELSE ScanPageSize}

(* The rows one ScanCommand can return: LastEvaluatedKey is ignored.     *)
ScanPages == UNION {Pages({Row(a) : a \in V}) : V \in ScanViews}

(* converter reads dynamodbResponse.iam_role: on an undefined Item that    *)
(* throws a TypeError, otherwise it maps the row to an Adtech (its tenant).*)
ConverterThrows(row) == "aws_id" \notin DOMAIN row
converter(row) == row.aws_id

(* ReadRequest: the role ARN of a tenant, or none (read all).            *)
AllTenants == "all"
ReadRequests == Accounts \cup {AllTenants}

(* A response, with the request it answers.                               *)
Responses ==
    [for : ReadRequests, status : {200}, tenants : SUBSET Accounts]
    \cup [for : ReadRequests, status : {500}, msg : {"NotFound", "ReadAllFailed"}]

Found(r, T) == [for |-> r, status |-> 200, tenants |-> T]
NotFound(a) == [for |-> a, status |-> 500, msg |-> "NotFound"]
ReadAllFailed == [for |-> AllTenants, status |-> 500, msg |-> "ReadAllFailed"]
NoResponse == Found(AllTenants, {})

-----------------------------------------------------------------------------
(* The request names the role ARN of a: the Get returns, and the handler   *)
(* answers [converter(Item)], or "does not exist" when converter throws.   *)
ReadOneOk(a) ==
    /\ \E found \in Visible(a) :
          readResp' =
            IF ConverterThrows(readFromAdtechMgmtDB(a, found)) THEN NotFound(a)
            ELSE Found(a, {converter(readFromAdtechMgmtDB(a, found))})
    /\ UNCHANGED <<vars, confirmed, stale>>

(* Mutant: the catch block answers with the success status code.          *)
ReadOneFailWrongStatus(a) ==
    /\ readResp' = [for |-> a, status |-> 200, msg |-> "NotFound"]
    /\ UNCHANGED <<vars, confirmed, stale>>

(* The Get throws (throttling, network): the catch block answers that the  *)
(* Adtech "does not exist".                                                *)
ReadOneFail(a) ==
    /\ readResp' = NotFound(a)
    /\ UNCHANGED <<vars, confirmed, stale>>

(* No role ARN: one Scan, every returned row mapped through converter.     *)
ReadAllOk ==
    /\ \E page \in ScanPages :
          readResp' = Found(AllTenants, {converter(r) : r \in page})
    /\ UNCHANGED <<vars, confirmed, stale>>

(* The Scan throws: READ_ALL_ADTECHS_ERROR_MESSAGE.                        *)
ReadAllFail ==
    /\ readResp' = ReadAllFailed
    /\ UNCHANGED <<vars, confirmed, stale>>

(* An onboarding of a answers 200; no other invocation changed a while it *)
(* ran, and none is still running on a.                                    *)
Confirms(p, a) ==
    /\ req[p] = [kind |-> "onboard", acct |-> a]
    /\ step[p] = NumSteps
    /\ ~interfered[p]
    /\ \A q \in Invocations \ {p} : pc[q] \in Active => req[q].acct # a
    /\ ForwardOk(p)

(* A step of the handlers, with the ghost: an offboarding of a that is     *)
(* running clears confirmed[a], an onboarding that confirms sets it.       *)
HandlerStep ==
    /\ Next
    /\ confirmed' =
         [a \in Accounts |->
            /\ ~\E p \in Invocations :
                   pc'[p] \in Active /\ req'[p] = [kind |-> "offboard", acct |-> a]
            /\ confirmed[a] \/ \E p \in Invocations : Confirms(p, a)]
    /\ stale' = [a \in Accounts |->
                  IF ("mgmt" \in res'[a]) = ("mgmt" \in res[a]) THEN stale[a]
                  ELSE stale[a] \cup {"mgmt" \in res[a]}]
    /\ UNCHANGED readResp

(* The replicas of the Adtech Management table agree again on a's row.    *)
Converge(a) ==
    /\ stale[a] # {}
    /\ stale' = [stale EXCEPT ![a] = {}]
    /\ UNCHANGED <<vars, readResp, confirmed>>

ReadInit ==
    /\ Init
    /\ readResp = NoResponse
    /\ confirmed = [a \in Accounts |-> FALSE]
    /\ stale = [a \in Accounts |-> {}]

ReadNext ==
    \/ HandlerStep
    \/ \E a \in Accounts : ReadOneOk(a) \/ ReadOneFail(a)
    \/ ReadAllOk
    \/ ReadAllFail
    \/ \E a \in Accounts : Converge(a)

ReadSpec == ReadInit /\ [][ReadNext]_allVars

-----------------------------------------------------------------------------
ReadTypeOK ==
    /\ TypeOK
    /\ readResp \in Responses
    /\ confirmed \in [Accounts -> BOOLEAN]
    /\ stale \in [Accounts -> SUBSET BOOLEAN]

(***************************************************************************)
(* spec.md section 3: once its onboarding succeeds, a tenant's record      *)
(* exists in the metadata store, and section 5 answers not-found only for  *)
(* an absent one.  So a tenant whose onboarding was answered 200 (with no  *)
(* concurrent invocation on it) and that nobody has started to offboard    *)
(* since is seen by every read that returns: the Get by its role ARN       *)
(* answers it and a Scan lists it.  The eventually consistent Get and      *)
(* Scan of db_operations.ts may still miss it.                             *)
(***************************************************************************)
ConfirmedTenantsAreRead ==
    [][\A a \in Accounts :
         /\ confirmed[a]
         /\ ReadOneOk(a) \/ ReadAllOk
         => readResp'.status = 200 /\ a \in readResp'.tenants
      ]_allVars

(***************************************************************************)
(* The same once the replicas have caught up with the tenant's row: a      *)
(* confirmed tenant whose row no replica holds an earlier state of is     *)
(* returned by every Get and every Scan that succeeds.  A stale rollback   *)
(* or a failed onboarding of another invocation deleting its row, a Get on *)
(* the wrong key or a Scan page too small for the table all break it.     *)
(***************************************************************************)
ConvergedTenantsAreRead ==
    [][\A a \in Accounts :
         /\ confirmed[a] /\ stale[a] = {}
         /\ ReadOneOk(a) \/ ReadAllOk
         => readResp'.status = 200 /\ a \in readResp'.tenants
      ]_allVars

=============================================================================

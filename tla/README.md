# Formal models of the Adtech management Lambdas

This directory holds TLA+ models of
`typescript/coordinator/aws/adtechmanagement`. The models come with TLC
configurations that model-check them, and TLAPS proofs of their main
invariants.

## The system

Three AWS Lambdas manage the tenants ("Adtechs") of the coordinator:

* **onboarding** (`src/adtech_onboarding_lambda.ts`) runs four awaited calls:
  `createIAMRole`, `attachRolePolicy`, `addToAdtechMgmtDB` and
  `addToPBSAuthDB`.
* **offboarding** (`src/adtech_offboarding_lambda.ts`) runs `detachRolePolicy`,
  `deleteIAMRole`, `deleteFromAdtechMgmtDB` and `deleteFromPBSAuthDB`.
* **read** (`src/adtech_read_lambda.ts`) runs a DynamoDB Get or Scan followed by
  `converter`.

The calls go to three external stores:

* IAM holds the tenant role `coordinator-role-<awsID>` and the attachment of
  the coordinator policy.
* The Adtech Management table holds the tenant metadata.
* The PBS Auth table maps the role ARN to the tenant's origin.

There is no cross-store transaction. After each forward call that succeeds, a
handler records a checkpoint in a JavaScript `Map`. The keys are those of
`util/global_vars.ts`: `IAM ROLE`, `IAM POLICY` and `ADTECH MGMT`. On the first
forward call that throws, the catch block iterates the Map and awaits
`rollbackCheckpoint` for every entry:

* onboarding undoes with `deleteIAMRole`, `detachRolePolicy` and
  `deleteFromAdtechMgmtDB`;
* offboarding undoes with `attachRolePolicy`, `createIAMRole(awsID)` and
  `addToAdtechMgmtDB(JSON.parse(value))`.

The handler then returns 500 with a message chosen from `error.name`.

Invocations interact only through the stores. Each await is a point where
another invocation, possibly on the same tenant, may run.

### State and operations (inventory)

| part | state | operations |
|---|---|---|
| IAM (`util/role_operations.ts`) | role, policy attachment, per account | CreateRole, DeleteRole, AttachRolePolicy, DetachRolePolicy |
| DynamoDB (`util/db_operations.ts`) | metadata row, auth row, per role ARN | Put, Delete (plus the reads Get and Scan) |
| onboarding / offboarding handler | request, position in the workflow, checkpoint Map, loop position, caught error | entry, each forward await, each rollback await, 500 response, timeout |
| read handler | none | Get or Scan, then mapping of fields |

Hard behaviours in this code:

* interleavings of invocations at every await;
* transient failures of any call, including the compensations;
* IAM rejecting calls whose precondition fails (DeleteConflict, NoSuchEntity,
  EntityAlreadyExists, MalformedPolicyDocument);
* a rollback call throwing out of the catch block;
* a Lambda timeout that loses the in-memory Map.

## Modules

* `AdtechCalls.tla` holds what the other modules share: the eight external
  calls as records (resource, put or delete), `Allowed` (IAM's preconditions),
  `Effect`, the checkpoint keys, the two workflows in program order, the
  checkpoint each forward call sets and the call `rollbackCheckpoint` makes for
  each key.
* `AdtechManagement.tla` models the onboarding and offboarding handlers
  together with the stores, so that concurrent invocations of both kinds share
  one account state.
  * **Data abstraction.** All names of a tenant (role name, ARN, table keys)
    derive from its AWS account id, so `res[a]` is the subset of
    `{"role","policy","mgmt","auth"}` that exists for account `a`.
  * **Calls.** A call is a record (resource, put or delete).
    * `CanSucceed` gives IAM's preconditions: CreateRole needs no role and a
      valid account (`InvalidAccounts` models MalformedPolicyDocument);
      DeleteRole needs the role and no attached policy; Attach needs the role;
      Detach needs the attachment.
    * DynamoDB Put and Delete always can succeed.
    * Any call may instead fail with a transient error.
  * **Per-invocation variables.** Each invocation slot `p` has:
    * `req`, its request;
    * `pc`, one of idle, fwd or undo;
    * `step`, the next forward call;
    * `ckpts`, the keys of the Map in insertion order, where `MapSet` is
      `Map.prototype.set`;
    * `cur`, the position of the `for ... of` loop;
    * `err`, the `error.name`.
  * **Actions.**
    * `Start` is handler entry.
    * `ForwardOk` and `ForwardFail` are one forward await. The last
      `ForwardOk` returns 200.
    * `Rollback` is one loop iteration. When the rollback call throws, the
      invocation ends with a rejected promise.
    * `RespondFailure` is the 500 return.
    * `Kill` is a Lambda timeout between two awaits.
    * A finished invocation frees its slot (`Finish`), so a slot serves
      request after request.
  * **Ghost variables.**
    * `snap[p]` is the account state at entry.
    * `interfered[p]` records that another invocation changed the account
      while `p` ran. The correctness properties are claims about uninterfered
      runs, since spec.md §5 accepts that concurrent requests on one tenant
      are not serialised.
* `AdtechSaga.tla` is the abstract specification of what the two handlers
  promise, without the Map. Each invocation is a status (idle, pending,
  unwinding) and two counters: the forward calls done and the compensations
  done. `CallOk` performs the next forward call when the service allows it;
  `CallFails` starts the unwind; `Compensate` undoes the next completed call,
  in the order the calls completed, or ends the invocation when that call
  throws; `Fail` ends an unwind that compensated everything; `TimeOut` ends a
  running invocation. `AdtechManagement` maps to it by `SagaStatus` (fwd is
  pending, undo is unwinding), `done = Len(ckpts[p])` and `undone = cur[p]-1`,
  and states the result as the property `ImplementsSaga`. The saga unwinds in
  completion order because that is what the code does; spec.md's reverse order
  is the subject of `FailureRestores`.
* `AdtechRecovery.tla` asks whether an operator can always clean a tenant up
  by re-submitting requests. `SoloRun(kind, a, S)` computes what one handler
  does to account state `S` when it runs alone and every call succeeds exactly
  when IAM allows it: the forward calls up to the first refused one, then the
  loop over the Map up to the first refused rollback call. `Recoverable[a]` is
  the set of account states from which some sequence of such requests reaches
  the empty state. It is computed as 16 rounds of `CleanableBy`, one more than
  the longest shortest path among the 16 account states.
* `AdtechRead.tla` composes the read Lambda with the two handlers. A read is
  one step, because the handler has one await: `readFromAdtechMgmtDB` (a Get
  by role ARN, `Item` undefined when absent) or `readAllFromAdtechMgmtDB` (one
  Scan, returning at most `ScanPageSize` rows because `LastEvaluatedKey` is
  ignored), then `converter`. `converter` throws on an undefined Item, and the
  catch block answers "does not exist". A Get or Scan may also throw. Neither
  command sets `ConsistentRead`, so both are eventually consistent: `stale[a]`
  holds the earlier states of `a`'s row (present or absent) that a replica may
  still return, a handler step that changes the row adds its previous state,
  and `Converge(a)` is the replicas catching up. A Get returns any state in
  `Visible(a)`; a Scan sees each row in one of its visible states
  (`ScanViews`) and returns one page of them. The
  ghost `confirmed[a]` is set when an onboarding of `a` answers 200 without
  interference and with no other invocation running on `a`. It is cleared
  when an offboarding of `a` starts.
* `MCAdtechManagement.tla`, `MCAdtechRecovery.tla` and `MCAdtechRead.tla` give
  the model values for TLC.
* `AdtechManagementProofs.tla`, `AdtechSagaProofs.tla`, `AdtechReadProofs.tla`
  and `AdtechRecoveryProofs.tla` hold the TLAPS proofs.

## Runs

| run | cfg | checks | result |
|---|---|---|---|
| saga_two_invocations | `MCAdtechManagement.cfg` | TypeOK, CheckpointsReflectStores, ImplementsSaga | pass: 111,212 distinct states, 4 s |
| unwind_order | `MCAdtechManagementUnwind.cfg` | FailureRestores | violation, 6 states |
| termination | `MCAdtechManagementLive.cfg` | Termination under `FairSpec` | pass: 222,240 states, 22 s |
| already_onboarded | `MCAdtechManagementAlready.cfg` | AlreadyOnboardedIsTruthful | violation, 9 states |
| recovery_sequential | `MCAdtechRecoverySeq.cfg` | NoWedgedTenant | pass: 152 distinct states, 1 s |
| wedged_by_concurrency | `MCAdtechRecovery.cfg` | NoWedgedTenant | violation, 17 states |
| wedged_by_timeout | `MCAdtechRecoveryTimeout.cfg` | NoWedgedTenant | violation, 4 states |
| read_confirmed | `MCAdtechRead.cfg` | ReadTypeOK, ConvergedTenantsAreRead | pass: 2,002,788 distinct states, 92 s |
| scan_single_page | `MCAdtechReadPaging.cfg` | ConvergedTenantsAreRead | violation, 12 states |
| stale_read | `MCAdtechReadStale.cfg` | ConfirmedTenantsAreRead | violation |

What the properties say:

* **CheckpointsReflectStores.** While a handler runs without interference,
  its account equals the state at entry with every checkpoint from the loop
  cursor on applied (added for onboarding, removed for offboarding). The Map is
  therefore an exact record of what is left to undo.
* **FailureRestores** is the guarantee of spec.md §8: every failed invocation,
  however it ends, restores its account. TLC refutes it.
  1. Onboarding creates the role and attaches the policy.
  2. `addToAdtechMgmtDB` fails.
  3. The loop's first call, DeleteRole, is refused with DeleteConflict because
     the policy is still attached.
  4. The promise rejects, and the role and the policy stay behind.

  Offboarding behaves the same way: it re-attaches the policy to the role it
  has just deleted. Both are recorded as findings. The unit tests miss them
  because their mocks accept every call.
* **Termination.** Every started invocation eventually finishes.
* **ImplementsSaga.** The handlers implement `AdtechSaga`: the Map grows by
  exactly one key per successful forward call, and the loop compensates its
  entries once each, in completion order. A loop that does not advance, a
  duplicated or missing `Map.set`, or a rollback call for the wrong key breaks
  it. TLAPS proves it for every instance (below).
* **AlreadyOnboardedIsTruthful.** The answer "already onboarded" (CreateRole
  failed with EntityAlreadyExists) is given only for a tenant whose metadata
  and PBS Auth entries exist, as spec.md §3 defines an onboarded tenant. TLC
  refutes it. An onboarding fails at `addToAdtechMgmtDB` and its unwind is
  refused (the ordering finding), so the role and the policy stay behind. The
  next onboarding of that account is told it is already onboarded, although it
  has neither entry.
* **NoWedgedTenant.** Whenever no handler runs on an account, the account is
  in `Recoverable`: re-submitting requests, as spec.md §4 tells callers to do,
  can still clean it up.
  * With one invocation at a time and no timeouts it holds. Every state the
    refused unwinds leave (role and policy; role, policy and metadata) can be
    cleaned up by an offboarding followed by more requests.
  * A timeout right after CreateRole leaves a role without a policy. From
    there onboarding fails at CreateRole and offboarding at DetachRolePolicy,
    with nothing to unwind, for ever.
  * With two invocations, a stale unwind wedges a tenant that was answered 200.
    1. An onboarding fails and starts its unwind.
    2. A concurrent offboarding detaches the policy, so the unwind's DeleteRole
       succeeds.
    3. A fresh onboarding re-creates the role and attaches the policy.
    4. The old loop detaches that policy.
    5. The fresh onboarding answers 200 and leaves a role without a policy,
       with metadata and an auth entry: a state no request can leave.
  The sequential case holds because a settled account there has its IAM role
  exactly when the policy is attached (proved below): the loop stops at its
  first refused call, which is the bug behind `FailureRestores` but also what
  keeps role and policy together.
* **ConfirmedTenantsAreRead.** A tenant whose onboarding was answered 200, with
  no other invocation on its account, and that nobody has started to offboard
  since, is returned by every Get of its role ARN and every Scan that answer
  200 (spec.md §3 and §5). TLC refutes it in the simplest setting (run
  `stale_read`): right after the 200, an eventually consistent Get finds no
  Item and the Lambda answers that the Adtech does not exist (a finding).
* **ConvergedTenantsAreRead.** The same for a confirmed tenant whose row the
  replicas agree on (`stale[a] = {}`). This is what is left to check once
  DynamoDB's consistency is accounted for: that no handler step, the stale
  unwind of another invocation or a failed re-onboarding included, removes a
  confirmed tenant's row, and that the Get and the Scan look in the right
  place. It holds beside two concurrent handler invocations with every fault
  on, as long as the table fits one Scan page. With more tenants than one page
  holds, read-all answers 200 with a list that omits a confirmed tenant,
  because `readAllFromAdtechMgmtDB` ignores `LastEvaluatedKey` (run
  `scan_single_page`, a finding).

Bounds:

* Two accounts, one of them invalid, so that CreateRole's MalformedPolicy path
  happens.
* Two invocation slots, each of which can serve any number of requests in
  sequence, so that same-account and cross-account interleavings both happen.
* Transient compensation failures and timeouts are enabled.
* The workflows are fixed at four steps.
* Symmetry over the invocation slots is sound: they are interchangeable and no
  property names one. The liveness run does without symmetry.

`Recoverable` is computed over all 16 subsets of the four resources, so it is
exact, not a bound. The recovery runs use one valid and one invalid account.
The sequential run has one slot, so that the only faults are IAM refusals and
transient forward failures. The read run makes `a2` invalid, so that one Scan
page of one row holds every tenant. With two valid accounts and every fault on
the run exceeds 18 M states. The paging run therefore has two valid accounts,
one slot and no faults. The stale-read run has one slot, no faults and a page
that holds the table, so that replica lag is the only way to miss a tenant.

A third slot (27.6 M states) adds no new interleaving pattern. The unwind run
disables transient failures and timeouts, so that its trace shows the ordering
problem alone.

Fairness: `WF` on each invocation's own forward, rollback and respond steps.
Once the Lambda has resumed after an await, the handler runs to its next await,
and every AWS call returns or throws. No fairness is assumed for new requests
or for timeouts.

## Proofs (TLAPS)

### Invariants (`AdtechManagementProofs.tla`)

Both theorems hold for all accounts, all invalid accounts and any number
of invocations. They assume only `ConstantsAssumption`.

* `TypeCorrect`: `Spec => []TypeOK`. The inductive form adds
  `Len(ckpts[p]) < step[p]`.
* `CheckpointsCorrect`: `Spec => []CheckpointsReflectStores`.

The last two rest on the inductive invariant `IInv`, which TLC also checks as
an invariant. It has three parts:

* the type invariant;
* `StoresIAM`: IAM never holds a policy attachment without its role;
* per invocation, `InvocationInv`:
  * an idle slot is reset;
  * a running slot's Map is `Ledger(kind, step-1)`, the first `step-1` keys of
    its workflow;
  * the entry state satisfies `StoresIAM`;
  * if the slot is uninterfered, the account equals `Expected(p)`, the first
    forward call found the account as it needed (no role for onboarding, an
    attached policy for offboarding), and the loop gets past its first entry
    only when the Map has one entry.

The last conjunct is why `CheckpointsReflectStores` alone is not inductive.
Suppose the Map has two or more entries. For onboarding, the first rollback
call is DeleteRole while the policy is outstanding. For offboarding, it is
AttachRolePolicy while the role is deleted. IAM refuses both, so the loop can
only advance past a one-entry Map, and for that Map the step restores the
entry state exactly.

The step proof has one lemma per action: `StartStep`, `ForwardOkMid`,
`ForwardOkLast`, `ForwardFailStep`, `RollbackOkStep` and `QuietFinishStep`
(for the rejected rollback, the 500 response and the timeout). These rest on
two lemmas about peers:

* `CallPeers`: a successful call of one invocation leaves every unmarked peer's
  account untouched;
* `FinishStep`: a finishing invocation keeps the invariant of every other
  invocation.

### The refinement (`AdtechSagaProofs.tla`)

`SagaRefinement`: `Spec => ImplementsSaga`, for every set of accounts and
invocations. It reuses `IInv`. Its `Ledger` conjunct gives three facts:

* a running invocation's Map has `step - 1` entries, so `done + 1` is the
  forward call the handler awaits;
* the `i`-th entry is `Checkpoint(kind, i)`, so the loop's entry at `cur` is
  the saga's compensation `undone + 1`;
* `cur = 1` while the handler runs forward, so `undone` is 0 when the unwind
  begins.

There is one lemma per action, each mapping it to a saga action: `StartMaps`,
`ForwardOkMaps` (the last call ends the invocation; `LedgerGrows` shows that a
middle call extends the Map by exactly its key), `ForwardFailMaps`,
`RollbackMaps` (both disjuncts), `RespondMaps` and `KillMaps`. These rest on
`FinishMaps`, which says a finishing slot resets its saga invocation, and on
`SagaCalls`, which says the instantiated saga uses the same calls. `StepMaps`
combines them with the stutter case. The theorem follows by PTL from
`IInvInit`, `IInvStep`, `InitMaps` and `StepMaps`.

### Converged tenants are read (`AdtechReadProofs.tla`)

`ConvergedReadsHold` proves `ReadSpec => ConvergedTenantsAreRead` for every
finite set of accounts and every set of invocations, with eventually
consistent reads. It has two hypotheses:
`Accounts` is finite, and one Scan page can hold a row for every account
that IAM accepts (`Cardinality(Accounts \ InvalidAccounts) <= ScanPageSize`).
The run `read_confirmed` satisfies both (one valid account, a page of one).
The run `scan_single_page` shows what happens when the second one fails, and
`stale_read` why the property is limited to rows the replicas agree on.

The inductive invariant `RInv` strengthens `IInv` with three conjuncts:

* `ConfirmedInv`: a confirmed tenant holds all four resources. Every
  invocation running on it is an onboarding with an empty Map. Such an
  onboarding is stuck at CreateRole, which IAM refuses while the role
  exists. So no step of the handlers can remove a resource of the tenant.
  The conjunct is needed because the property by itself says nothing about
  invocations that start after the confirmation. `ConfirmedStep` proves it:
  * a confirming step leaves `res[a] = Expected(p)`, which holds the three
    checkpointed resources (`OutstandingLedger`), plus the PBS auth entry;
  * every other step either spares the account or cannot pass its guard.
* `InvalidInv`: accounts that IAM refuses never get a resource, and an
  invocation on one never gets past its first call (`InvalidStep`). This
  bounds the Adtech Management table to the valid accounts. From that,
  `FS_Surjection` and `FS_Subset` show that a page of the right size is the
  whole table (`ReadCorrect`).
* `StaleInv`: no replica ever holds a row of an account IAM refuses
  (`StaleStep`), so a Scan, whichever replica states it sees, finds at most
  one row per valid account.

`RInvInit` and `RInvStep` establish `RInv`. The reads leave the handler state
alone. The theorem then follows by PTL. TLC checked `RInv` as an invariant on
the `read_confirmed` instance before the proof was written.

`ReadTypeCorrect` proves `ReadSpec => []ReadTypeOK` from `RInv` and one lemma
(`ReadRespStep`). Every Get answer and every page of a Scan maps rows back to
accounts.

### No wedged tenant when handlers run one at a time (`AdtechRecoveryProofs.tla`)

The theorem assumes `SoloAssumption`, the setting of the `recovery_sequential`
run:

* one invocation slot (`\A p, q \in Invocations : p = q`);
* rollback calls fail only when IAM refuses them (`CompensationsMayFail = FALSE`);
* no Lambda timeout.

These are the conditions under which TLC finds the property true. Without the
first or the last, the runs `wedged_by_concurrency` and `wedged_by_timeout`
refute it. Without the second it fails too: when AttachRolePolicy fails and
the unwind's DeleteRole then fails transiently, the role is left without its
policy. spec.md §7 accepts such a failed compensation as a state an operator
must repair, so no run is spent on it.

* `NoWedgedTenantSolo`: `Spec => []NoWedgedTenant`, for every set of accounts.
  It rests on the lemma `SettledIAMPairedHolds`: a settled account has its
  IAM role exactly when the policy is attached (`SettledIAMPaired`). TLC
  checked the inductive invariant `SoloInv` on an instance with three
  accounts before the proof was written. `SoloInv` adds four things to
  `IInv`:
  * `InvalidInv`;
  * no invocation is ever interfered with (`NoInterference`);
  * a running handler started from a paired account;
  * `SettledIAMPaired` itself.

  `SoloStep` has one case per action. Only the three ways a handler can
  finish put its account back among the settled ones:
  * `LastPaired`: the Map holds both IAM keys, and the last call touches only
    the auth entry;
  * `RefusedPaired`: a refused rollback call. With one Map entry it is
    DeleteRole with the policy attached, or AttachRolePolicy with the role
    gone. With two or more entries `IInv` puts the loop at the first entry,
    and both IAM keys are outstanding;
  * `RespondPaired`: the Map is used up, so the account is its paired
    snapshot.

  From the pairing to `NoWedgedTenant`:
  * `OffboardCleans` and `OnboardCompletes` compute `SoloRun` on paired
    states. An offboarding empties an account that has its role. An
    onboarding completes an account that has no role.
  * So every paired state is in the second round of `CleanableBy`
    (`PairedRecoverable`), and accounts that IAM refuses are empty.
  * `CleanableGrows` shows that every round keeps what the previous rounds
    found, so the second round lies inside `Recoverable`.
  * `ForwardFrom` is a recursive function over `0..4`. `ForwardFromDef`
    shows it satisfies its defining equation by building the solution call
    by call, with no induction.

Only TLC checks the following, because they are out of the prover's reach:

* liveness (`Termination`), since it needs fairness and ENABLED;
* the refutations (`FailureRestores`, `AlreadyOnboardedIsTruthful`,
  `NoWedgedTenant` with concurrency or timeouts, and
  `ConfirmedTenantsAreRead` with stale reads, `ConvergedTenantsAreRead` with
  paging);
* the mutants, which show what each property detects.

## Not modelled

* **Message texts, status codes and the response envelope.** They are
  formatting. The read Lambda's responses keep only the status and the
  tenants they list. One quirk is worth noting: the read Lambda's 500 response
  puts `message` beside `statusCode` instead of inside `body`.
* **Origin URL and adtech id contents,** and the other attributes `converter`
  copies. No property tells them apart.
* **Offboarding requests whose `iamRoleName`/`iamRoleArn` disagree with
  `awsID`.** These need a name per role besides the account. In the code as
  written the insertion-order unwind masks the mismatch (see the hazard in
  PROJECT.json).
* **A Get that throws, answered "does not exist".** This is modelled
  (`ReadOneFail`) but not checked: spec.md asks nothing that separates it from
  absence.
* **The Roma proto-in-hooks JavaScript example.** It is an unrelated encoding
  sample.

## Plan for later work

1. A name-aware variant of the offboarding request, to check the
   role-name hazard once the unwind order is fixed.
2. An abstract specification of the reverse-order unwind that spec.md
   describes, with a run showing which step of the code breaks the
   refinement.
3. More proofs:
   * the `StoresIAM` invariant on its own, as a theorem;
   * `Saga`-level invariants (compensations never exceed forward calls)
     carried to the handlers through `SagaRefinement`.

# A TLA+ development of the ADCP controller

ADCP (`src/src/adcp`) is a development execution controller. One SQLite *control store* is the
authority for the state of every Development Unit; controllers, recovery runs, deployment runners and
operators are processes that open the same database. This directory holds TLA+ modules of the store's
transactions and of the processes around it, TLC configurations that check them on small instances,
and TLAPS proofs about them.

## 1. Inventory

Paths are relative to `src/src/adcp`. `PROJECT.json` lists the same components with their status, every
definition with the lines it stands for, and the hazards with the properties that cover them.

| Component | State it keeps | Operations | Hard behaviour | What makes it correct |
|---|---|---|---|---|
| Global writer lease, `store/sqlite.py` 766-1588 | one row (FREE/HELD, owner, fencing token, three times), append-only event table keyed by operation key | acquire, takeover of an expired lease, replay, heartbeat, release, force revoke, assert, binding for ordinary writes | the clock is read before `BEGIN IMMEDIATE`, which may block; replays; crashes before the read-back | tokens exclusive and never reused; takeover only after expiry; row and events agree; ordinary writes in token order |
| Controlled deployment, `production_control.py` | an in-memory token, a heartbeat thread, the evidence so far | bounded wait to acquire, effects with an assertion before and after each, persist, release | effects are external and irreversible; lease lost in mid-effect; join timeout; one deployment called twice | at most one late effect; success means exclusive and released; nothing repeated; every call returns |
| Execution store, `store/sqlite.py` 3069-5095, `domain.py` | the `slice_execution` row (state, version, lease generation, result commit, rework count), attempts, verification and evaluation results, approvals, events, manifest | lease, transition, rework, attempts, results, approvals, acceptance | each step is its own transaction, some unfenced | state never ahead of evidence; acceptance only on evidence (and approval) for the accepted commit |
| Controller handlers, `controller.py` | none of their own (local variables between transactions) | maker, verification, evaluator, approval, acceptance, `advance`, cancel | a handler outlives its 60 s lease; crash between any two transactions | as above |
| Recovery, `recovery.py` | none of its own | `resume_once` and its `_resume_*` steps | acts on evidence that crashed handlers left behind | drives to the same outcomes, loses no approval, no budget |
| Deferred binding, slice control, `store/sqlite.py` 1590-3067, `controller.py` 770-1090 | slice control rows, worktree and branch in Git | provision, bind, activate, release, compensate | two stores (Git, SQLite) without a common transaction | a binding exists in both or in neither, or is reported for review |
| Pre-commit candidate closure, `store/sqlite.py` 271-755, `controller.py` 1640-2110 | candidate binding, verification, evaluator attempt and seal, evaluation, approval, closure rows; Git index and refs | hand over, verify, evaluate, seal, judge, approve, prepare and apply the Git plan, record | crash between Git steps, fence lost between them, a second content after a rework | the closed commit is the verified, evaluated and approved content |
| Control authority, `store/sqlite.py` 1795-2027, `cutover.py` | mode, generation, cutover id, events | switch, rollback, replay, cutover manager | replay after a rollback | one generation per decision; a stale replay is refused |
| Typed PostgreSQL receipts, `postgres_control.py`, `store/sqlite.py` 962-1122 | PREPARED and FINAL receipts | prepare, effect under W08, final, replay, reconcile | effect done, receipt not durable | an operation is never repeated blindly |
| Projection, `projection.py`, `notion_projection.py` | outbox record per projection | write, read back, record, retry | stale result over a newer one | SUCCEEDED only if the target holds the payload |
| Production migration orchestrator and DCS adoption, `production_migration_orchestrator.py`, `production_dcs_v8_adoption.py` | launchd's state of each writer service, schema version, lease, the inventory a run remembers | discover, acquire, disable and boot out, migrate, rebind, enable, bootstrap, kickstart, release | each launchctl command is its own effect; the inventory is only in memory; a lease lost in mid-way | no writer active while the schema changes; ADOPTED means restored |
| Schema v10 transition, `production_schema10_operational.py` | installed client, identity files of two entries, journal of what a call wrote, schema, lease | quiesce, project v0.5, migrate, rebind, resume, restore, roll back, release | several files without a transaction; guarded and unguarded calls; ambiguous migration | no old client on the new schema; release only after restore; exact compensation |
| Cleaner cutover and worker, `cleaner_*` | epoch in PostgreSQL, service files, authorized identities, launchd; a credential file and three evidence files | execute, prepare, recover, stop all, W07 alone; credential bootstrap and status | a point of no return in the middle, a compare-and-swap that may lose its answer, late effects | what is started fits the epoch in force; the credential is made once |
| Schema migrations, Flyway, surfaces, evaluator, verifier, seals, runner, capsules, CLI | mostly none: validation of inventories, files, SQL text, child processes | | | see section 8 |
| Thin client, `src/packages/adcp-global-writer-client` | none: a second implementation of the lease transactions | acquire, heartbeat, release, assert | divergence from the store | the same transactions |

Interactions. Everything meets in the database. Controllers and recovery exclude each other with the
*execution lease* (owner id, generation, TTL 60 s) and with the version of the row; production effects
exclude each other with the *global writer lease* (owner id, fencing token). A deployment runner shares
its lease with one heartbeat thread, through the database and one error field. Makers, verifiers,
evaluators and deployment effects are external processes or callbacks.

## 2. Modules

| Module | Models | Composition |
|---|---|---|
| `WriterLeaseStore` | the lease row, the event table and each lease transaction as one step, with the time it carries as an argument | extended or instantiated by the next two |
| `GlobalWriterLease` | processes that call the lease primitives: sample the clock, run the transaction, read back; bind and write ordinary rows; crash | EXTENDS `WriterLeaseStore` |
| `FencedLock` | the abstract promise: a token counter, at most one holder, instantaneous grants, extensions, releases and revocations, writes in token order | INSTANCE in `GlobalWriterLease`, with a refinement mapping |
| `GlobalWriterLeaseProofs` | theorems about the lease, and that it implements `FencedLock` | EXTENDS `GlobalWriterLease`, `TLAPS` |
| `ControlledDeployment` | `run_controlled_deployment`: main thread and heartbeat thread of each runner, operator, source drift | INSTANCE `WriterLeaseStore` with one operation key per attempt and kind |
| `ControlledDeploymentProofs` | theorems about it | EXTENDS `ControlledDeployment`, `TLAPS` |
| `ExecutionStore` | the execution row, its evidence tables and the transactions on them | extended by `Execution` |
| `Execution` | the controller's handlers as sequences of reads and transactions | EXTENDS `ExecutionStore` |
| `ExecutionRecovery` | `resume_once`, the whole next-state relation and its properties | EXTENDS `Execution` |
| `ExecutionProofs` | theorems about it, for any controller ids and where each process has an id of its own | EXTENDS `ExecutionRecovery`, `TLAPS` |
| `SliceControlStore` | the slice row, its events, and bind, release and finalise as transactions | extended by `SliceBinding` |
| `SliceBinding` | calls that bind, release, run, recover, cancel and accept a slice's execution across Git and the store | EXTENDS `SliceControlStore` |
| `SliceBindingProofs` | theorems about it | EXTENDS `SliceBinding`, `TLAPS` |
| `CandidateClosure` | the pre-commit candidate, from the Maker's hand-over to the recorded closure | |
| `CandidateClosureProofs` | theorems about it | EXTENDS `CandidateClosure`, `TLAPS` |
| `ControlAuthority` | the authority row and its events; switch, rollback, snapshot, seed, `register_slice` | |
| `LaunchdWriters` | launchd's state of each service and what each launchctl command does to it (external), with the classes A, B, C the code reads off it | extended by `DcsAdoption` |
| `DcsAdoption` | the adoption controller and the migration orchestrator inside it | EXTENDS `LaunchdWriters` |
| `DcsAdoptionProofs` | theorems about it | EXTENDS `DcsAdoption`, `TLAPS` |
| `Schema10Transition` | `Schema10WriterTransition` and `Schema10HeldW08` with one operator's calls on them | |
| `TransitionProofs` | theorems about the control authority, the schema v10 transition and the Cleaner cutover | EXTENDS `ControlAuthority`, `Schema10Transition`, `CleanerCutover`, `TLAPS` |
| `DeploymentLease` | the lease of a controlled deployment as far as its effects see it: held, live, one token per grant | extended by the next three |
| `TypedReceipts` | PREPARED, effect, FINAL and replay of the typed PostgreSQL operations | EXTENDS `DeploymentLease`, INSTANCE of `OneEffect` |
| `OneEffect` | the abstract promise of the receipts: an operation id is claimed by one request, has at most one effect, its outcome is recorded once, and success is told | INSTANCE in `TypedReceipts`, with a refinement mapping |
| `WorkerCredential` | the worker's credential file and its three pieces of evidence | EXTENDS `DeploymentLease` |
| `ReceiptsProofs` | theorems about both, and that the operations implement `OneEffect` | EXTENDS `TypedReceipts`, `WorkerCredential`, `TLAPS` |
| `CleanerCutover` | the five cutover operations, as one table of stages each | EXTENDS `DeploymentLease` |
| `MCOperations` | small instances for TLC of these eight subsystems | EXTENDS `SliceBinding`, `ControlAuthority`, `CandidateClosure`, `DcsAdoption`, `Schema10Transition`, `TypedReceipts`, `WorkerCredential`, `CleanerCutover` |
| `MCDcsAdoption` | constants for the adoption from schema 6 | EXTENDS `DcsAdoption` |
| `MCGlobalWriterLease`, `MCControlledDeployment`, `MCExecution` | constants and symmetry for TLC | |

How code becomes actions:

* One `BEGIN IMMEDIATE ... COMMIT` block is one step. Everything a caller reads outside of it, the clock
  included, is a step of its own, and what it remembers is in `call[p]`, `pc`, `now`, `beatNow`.
* A failing guard (a `StoreError`) writes nothing. In the lease and execution modules the caller then
  gives up (`CallFails`, `Abandon`); these also stand for a busy database and for the death of the
  process. In `ControlledDeployment` the exceptions have steps of their own, because `__exit__` still
  releases.
* In `WriterLeaseStore` time is a bounded clock that every process reads. In `ExecutionStore` it is the
  bit `live`: a transaction that carries an old time may pass the fence after expiry, but then the
  version or generation it also checks makes it equal to one that ran before the expiry.
* Commits are numbered by the maker attempt that produced them. Fingerprints frozen at creation are left
  out: they are equal on both sides of each comparison. Sealed artifacts, Git objects and worktrees are
  taken as unchanged on disk.
* The read-back of the execution row after `COMMIT` returns the row the transaction wrote.
* `DeploymentLease` is the lease of `ControlledDeployment` seen from inside an effect: asserted or not. Its
  grants, losses and releases are those that `GlobalWriterLease` proves exclusive; heartbeats only delay
  `Expire`, which may happen at any time.
* An assertion and the effect after it are two steps (`fresh` in `DcsAdoption` and `CleanerCutover`, the
  stages of `Schema10Transition`, `dispatch` and `psql` in `TypedReceipts`), so a lease may be lost between.
* A crash drops what a process only remembers: an inventory, a snapshot, a token. Where nothing is
  persisted the next run starts from what it finds, and the model says so.
* Git is a branch, a worktree and a marker of who made them; a Git command is one step. File contents,
  fingerprints, plists and wheels are the identity of a build or a content, and a validation accepts or
  refuses.

## 3. Runs

| Run | Instance | Question |
|---|---|---|
| `global_writer_lease` | 2 owners, 3 operation keys, TTL 2, clock to 3; 0.9 M states | Do tokens stay exclusive, events and row agree, and writes stay fenced, under late transactions, replays, revocation and crashes? Is it still the abstract lock? |
| `expired_lease` (violated) | the same | Can an expired lease be extended? |
| `deployment` | 2 runners of two deployments, 2 effects each, 1 attempt each, TTL 2, clock to 3; 1.4 M states | What may escape a lost lease, and what does success mean? |
| `deployment_retry` | 2 waiting runners with 2 attempts each, of two deployments, or of one and then one after the other; 1 effect, TTL 1, clock to 1; 0.2 M states | Are effects repeated? Does every call return? |
| `deployment_race` (violated) | 2 concurrent runners of one deployment, 2 effects, one waiter with 2 attempts, TTL 2, clock to 3 | Are effects repeated when two calls overlap? |
| `execution` | 2 controllers, 1 rework, 2 makers, 2 evaluators, 2 verifications, 2 lease generations, 4 verdicts; 1.8 M states | Does the state ever run ahead of the evidence? |
| `execution_approval` | the same with approval required, 2 verdicts; 2.1 M states | Is there a way round the approval? |
| `execution_shared_id` | 2 processes with one controller id; 2.5 M states | What does the accepting transaction guarantee without a fence between them? |
| `recovery_budget`, `recovery_evaluator` (violated) | 2 controllers, 2 reworks | see section 7 |
| `operations` | one of eight operational modules per behaviour, 0.93 M states in all; see below | One question per module: do its promises survive lost leases, crashes, retries and a second actor? |
| `adoption_status` (violated) | 2 services, 2 runs, schema 6 or 7 at the start, 2 leases | Does a failed migration leave the writers as they were? |

Why the bounds are enough for the cases that matter. Two owners, or runners, or controllers are the
stale one and its successor; the properties speak of pairs. Three operation keys allow a grant, its loss
(release, revoke or takeover) and a second grant, with a replay of each. The clock is one unit longer
than the TTL (in `global_writer_lease` and `deployment`), so a call sampled at 0 can commit after an expiry
and a takeover; `deployment_retry` asks about returning and repeating, for which one expiry is enough. Two
deployment steps (`deployment`) give an effect with and one without a predecessor, and two attempts
(`deployment_retry`) a failed wait and a successful one. The theorems of section 6 lift these bounds.
One rework gives a commit, its successor and the stale evidence of the first for the second; the code's
budget is 2 (`MaxReworks` is a constant), and a second rework repeats the steps of the first. Two lease
generations are one takeover. Runs of `ExecutionRecovery` do not check deadlock: an execution stops in a
terminal state, and BLOCKED ones wait for an operator. Symmetry is used for owners and keys, for runners
that differ in nothing, and for processes swapped together with their ids; it is not used in a run with a
liveness property.

`operations` chooses one module in the initial state, lets it run and leaves the variables of the others
at one fixed value each: what the properties read has an initial value, the rest none (`BindingUnused` to
`CutoverUnused`). Its state space is the disjoint union of nine instances of the eight modules: `CandidateClosure` is
instantiated twice. The bounds of each:

* binding: two callers and two executions, one call at a time (a crashed call leaves everything where it
  is), one bind after a release, so a released slice is bound again. A lease is granted at two
  `state_version`s of an execution (`LeasedAt` {0, 2}): the first lease, and a takeover after its Maker has
  started, so a lost Maker is recovered. An execution is followed to ACCEPTED or CANCELLED: VERIFYING stands
  for what comes between, and a cancel comes at any open state. Two calls at once are hazard
  `controller.py:471`.
* authority: two tools, two cutover ids, two slices, `MaxGen` 4: switch, rollback and a second switch with
  a retry of each, and a snapshot in between.
* closure: two authors, two contents, two Makers and two leases, once with two verifications and no move of
  the authority, and once (`moved closure`) with one verification and one move: stale evidence needs a
  second content, a stale fence a move. Both together are beyond a run.
* adoption: a daemon and a periodic service that are up, two runs, two leases, starting at schema 7: the
  second run can take over, or come after, the first. Starting at 6 is in `adoption_status`.
* transition: two writers, an operator whose process may die and start again, and four lease events
  (`MaxEvent`): acquire, loss, takeover, release.
* receipts: two calls, two operation ids, two requests, and the three kinds of operation that between them
  have every profile but PRINCIPAL's comparison inside its transaction.
* credential: two runs and two files, so a second file can be mistaken for the first.
* cleaner: two operations one after the other, each able to fail anywhere (`MaxRuns` 2), explored until an
  effect lands without the lease, since the property says nothing after that. The same instance with
  `MaxRuns` 3 (a failed cutover, its stop, and a third operation; 4.5 M states) also passes, and takes
  longer than a run should.

It does not check deadlock: every behaviour ends when its operations are done.

## 4. Properties

* Lease: `RowValid`, `LedgerAgrees`, `TokenExclusive`, `NoRevival`, `TakeoverAfterExpiry`, `WritesFenced`,
  `ImplementsLock` (refinement of `FencedLock`).
* Deployment: `AtMostOneLateEffect`, `SuccessWasExclusive`, `SuccessReleased`, `NoBlindRepeat`,
  `RunnerReturns` (liveness).
* Execution: `StateHasEvidence`, `AcceptedOnEvidence`, `AcceptsOnEvidence`, `AcceptedAsApproved`.
* Binding: `BoundHasWorktree`, `RowsAgree`, `MakerKeepsSlice`, `OwnArtifactsOnly`.
* Closure: `ReviewedIsCommitted`, `ClosureOnBranch`, `RefMovesUnderFence`.
* Authority: `AuthorityLedger`, `AnsweredInForce`, `RegisteredUnderStore`.
* Adoption: `QuietMigration`, `OneLateCommand`, `AdoptedRestores`; violated: `FailedMigrationRestores`.
* Schema v10 transition: `NewSchemaNewClient`, `OneLateEffect`, `ReleasedRestored`, `CompensationExact`.
* Receipts and credential: `ImplementsOneEffect` (refinement of `OneEffect`), `EvidenceHolds`.
* Cutover: `RuntimeFollowsEpoch`.

Each is stated and explained in its module, and each has a mutant in `PROJECT.json`: a plausible bug in
the code (a dropped guard, a missing reset, an early takeover) with which TLC finds the property violated.

## 5. Fairness

Only `ControlledDeployment` states fairness: weak fairness of each runner's main thread, as the operating
system schedules it. It is needed for `RunnerReturns`. Time, heartbeats, operators and failures get no
fairness, so a runner returns even if the clock stops, its heartbeat thread never runs and the lease it
waits for is never released: its attempts are counted.

## 6. Proofs

`GlobalWriterLeaseProofs` proves for every set of owners and keys and every TTL, from `LeaseAssumption`
(an owner is not NULL, the TTL is positive) and nothing else:

* `TypeInvariant`, by one step per action;
* `InductiveInvariant`, the strengthening `IInv` of `GlobalWriterLease`;
* `RowAlwaysValid`, `LedgerAlwaysAgrees`, `ExclusiveTokens`, from `IInv`;
* `FencingHolds`, the three action properties, from `IInv` and one step.

The argument. `TokenExclusive` is not inductive: it says nothing of a token still in flight between an
acquire and its read-back. `BeliefsGranted` ties every token a process holds, is bound to, or is about to
read back to a grant event of that process, and `LedgerAgrees` says each token was minted by one event;
together they give exclusion. That minting continues to be unique needs `NothingAhead` (no event is ahead
of the row) and `EventShape` (a grant or revoke mints the next token). `RowValid` needs
`HeartbeatAfterGrant`: a heartbeat in flight for the row's token sampled its clock no earlier than the
grant, because the token did not exist before. Two lemmas reduce the actions to what they do: every step
is one of three store steps (`StepIsStoreStep`) and one of a few process steps (`StepIsProcessStep`); the
preservation lemmas then split on those.

The same module proves `LeaseImplementsLock` from the same assumption: under the mapping `Lock` of
`GlobalWriterLease`, every behaviour of the lease protocol is one of `FencedLock`. Who was granted a token
is read off the event table (`MintedFor`): that is a function of the token because `LedgerAgrees` makes its
minter unique (`MinterFound`), it never changes for a token already minted (`GranteeKept`), and a grant
adds one pair (`OneMinted`). `StepImplements` then maps each action to a step or a stutter: a transaction
with an old clock value is the same abstract grant or extension as a prompt one, samples and failed calls
are stutters, and read-backs, replays and bindings are a `Tell` of a token to its own grantee.

`ControlledDeploymentProofs` proves, for any number of runners, attempts, steps and any TTL, from
`DeploymentAssumption` (at least one attempt and one step, a positive TTL, an owner is not NULL):

* `TypeCorrect`, which includes the bound on attempts;
* `LateEffectsBounded`, `SuccessExclusive` and `SuccessReleases`, the three safety properties;
* `SerialNoRepeat`: `NoBlindRepeat`, with the hypothesis `Serial` that callers do not overlap. It is false
  without (`deployment_race`).

The inductive invariant `Inv` has five parts: the types; `CountOK`, what the place in the code says of
attempts and effects; `GrantOK`, each attempt is granted at most once, with a token of its own; `TokenOK`,
the token a runner asserts is the one it was granted; and `LateOK`, a runner with a late effect, or with
another holder's effect inside its own, has lost its lease. The properties alone are not inductive, because
they say nothing of a runner between an assertion and the effect after it. The hinge is `LostStays`: no
transaction hands a token out again, so a runner that lost its lease fails every later assertion and its
release. For `SerialNoRepeat`, `SerialOK` says that of the runners of one deployment one is active and one
was ever granted; the check of prior acquisitions preserves it because no grant can slip in between.

`TransitionProofs` proves about the control authority, for any tools, cutover ids and `MaxGen`, from `Slices \in Nat` alone:

* `AuthorityTypes`, and `AuthorityInvariant`, the inductive invariant `AuthorityInv`: the types,
  `AuthorityLedger`, `GenerationsGrow` and `RegisteredUnderStore`;
* `LedgerAlwaysAgrees` and `RegistrationUnderStore`, its two parts that the run checks;
* `AnswersAreInForce`, the action property `AnsweredInForce`, which needs the types alone.

`GenerationsGrow` says that the generations of the events increase and that the row is past the last. The
ledger needs it: a snapshot between a rollback and the next switch raises the generation without an event,
so equality holds only within a pair of events. `StepIsLedgerStep` reduces every action to a transition, a
snapshot or no change of row and events; `NextInTurn` says that the compare-and-swap lets only the next of
the alternation pass, and `LedgerKept` and `LedgerKeptBySnapshot` finish the step. A registration stays
covered because no event is ever removed, and a new one is covered by `SwitchInForce`.

`ExecutionProofs` is about the whole of `ExecutionRecovery`: every handler, every recovery step, lease expiry and failures between any two transactions, for any processes, verdicts, rework
budget and table sizes. There are two invariants, because there are two kinds of safety.

* `TablesInv` needs nothing of the controller ids. Evidence tables only grow (`Grows`), a result that
  succeeded never changes, an evaluation repeats the commit and the verdict of its evaluator
  (`TablesAgree`), and whatever rows a handler remembers exist and say what it remembers (`Recalls`).
  From it: `TablesInvariant`, `TypeCorrect`, and `EvidenceWhenAccepted` (`AcceptsOnEvidence`): the accepting
  transaction reads evidence that covers the commit even if a twin with the same id runs beside it.
* `ExecutionInv` adds what the fence gives, and assumes `OwnId`: no two processes have one controller id.
  `Trusts` says that what a handler remembers of the *row* is still true while it owns it; `RowHasEvidence`
  that the row's state stands on evidence for the row's commit; `StaysCovered` and `Consumption` that an
  accepted row keeps its evidence and its one approval. From it: `ExecutionInvariant`, `EvidenceForState`,
  `AcceptanceCovered`, `AcceptanceApproved`.

`StateHasEvidence` by itself is not inductive: a handler between its read and its transaction carries a
commit that the state does not mention. Most of `Trusts` is conditional on ownership, for a handler that
lost the lease may remember anything; it cannot get the lease back without starting anew, so its
transactions fail on the fence. A few transactions have no fence (attempts, verification results, the
answer to an approval); they add evidence and never change what an acceptance rests on, so they are harmless. `OwnId` is what operators must provide, and
section 8 says what goes wrong without it. Each handler is one lemma, and two lemmas (`RowStep`,
`TableStep`) say how a change of the row or of the tables leaves the other processes.

`SliceBindingProofs` proves, for any executions, processes and bounds, from `StoreAssumption` (an execution
is not the null): `BookInvariant`, `BindingTypes`, `RowsAlwaysAgree` (`RowsAgree`), the action properties
`SliceIsKept` (`MakerKeepsSlice`) and `OwnArtifacts` (`OwnArtifactsOnly`), and, where binding calls do not
overlap (`Serial`), `BoundAlwaysHasWorktree` (`BoundHasWorktree`).

* `BookInv` holds for any number of calls at a time. The slice row names every open or accepted execution
  and a verified one has its result (`RowsFit`); an execution exists exactly when a bind event does, and a
  released one is cancelled and off the slice row (`EventsFit`), which tells it from one that was only
  cancelled: `Controller.cancel` leaves the slice row alone, so the row goes on naming that execution
  (`test_prebind.py` 891 expects it). `Knows` says what a process knows of its execution and of Git that no
  step of another undoes: a cancel may end an execution under its Maker, but nothing takes the slice from it.
  A bind or a release that is called again goes by the
  event it finds, which is right because of `EventsFit`.
* `ForeignFit` says that no call and no event claims a branch or worktree that a human made; it, too, needs
  no `Serial`, since a call claims only what it created itself.
* `GitFits` needs `Serial`: what a call has made and not yet bound belongs to no bound execution, and what it
  is about to bind is there (`Fits`). Two concurrent binding calls break it: the hazard at `controller.py`
  471, where the compensation of the one deletes what the other has bound.

`ReceiptsProofs` proves, for any calls, operation ids and requests and each of the six operations, from
`KindsAssumption`: `ReceiptsInvariant`, `ReceiptsTypes`, `ReceiptsAlwaysTell` (the state predicate `ReceiptsTell`)
and `ReceiptsImplementOneEffect` (`ImplementsOneEffect`). The
receipts of an id tell the truth by themselves only together with `Stands`, what a call between PREPARED and
FINAL knows of the effect it has started or not, and `Sole`: only the call that wrote PREPARED can still
act on the id. `Sole` is why an effect happens at most once: a second call finds PREPARED and reconciles,
also after a crash and after the lease has gone to another.

The refinement says more than that predicate: a claim stands for ever, no effect comes after the record of the
outcome, and a record is never replaced. PREPARED is the claim, a psql that succeeds the effect, FINAL
the record, and an answer of success the telling; `PreparedClaims`, `PsqlHasEffect`, `FinalRecords`, `ReturnTells`
and `ReplayTells` show each to be that step, and `QuietStep` that all the others are stutters: the lease, the
administrator's drift, crashes and refusals do not show in `OneEffect`. An effect whose caller died is the
same abstract step as one whose caller waits; `Stands` knows that its id is claimed and not yet recorded.

About the worker's credential the same module proves, for any operation ids and number of files, from
`FileAssumption`: `CredentialInvariant`, `CredentialTypes` and `EvidenceAlwaysHolds` (`EvidenceHolds`). The
lease has no part in it: the file is made after the last assertion. What carries it is `O_EXCL`. `OneFile`
says that, as long as nobody else touches the place, the one file is still there and either its maker has
yet to record it or a single EFFECT names it; `Recalls` says that a task past PREPARED, or a settlement past
its first look, holds the very file that EFFECT names, and neither EFFECT nor FINAL is ever rewritten.

`CandidateClosureProofs` proves, for any authors, numbers of contents, Makers, leases, verifications and moves
of the authority, from `ContentsAssumption`: `ClosureInvariant`, `ClosureTypes`, `ReviewedAlwaysCommitted`,
`ClosureAlwaysOnBranch` and the action property `RefMovesAlwaysFenced`. `ClosureInv` follows the review
backwards: the branch holds the content of the intent (`Closings`), the intent is an approved evaluation
(`Approvals`), the evaluation repeats a sealed evaluator result, and that rests on a verification that
passed for content a Maker handed over, all under one authority generation (`Chain`). `Remembers` carries
it through the steps between a handler's reads and its writes, `SoleJudge` keeps two handlers from giving
one evaluation two approval requests, and `RefGranted` says that between the fence check and `update-ref`
neither the lease nor the authority can have been handed on, because the closing transaction holds the
database; the lease may expire there.

`DcsAdoptionProofs` proves, for any services, runs and number of leases, and a start at schema 6, 7 or 8, from
`AdoptionAssumption` (a run and a service are not NULL, the inventories found at the start have the classes A,
B and C): `AdoptionInvariant`, `AdoptionTypes`, `LateCommandsBounded` (`OneLateCommand`), and the action
properties `MigrationsQuiet` (`QuietMigration`) and `AdoptedAlwaysRestores` (`AdoptedRestores`).

`QuietMigration` is the hard one. The migration does not look at the lease, and a run that lost its lease may
still give the command it has asserted, so two runs that both hold a command may act at once. What saves the
schema is that a command which loads a service is only ever *pending* for a service that is down, and for one
run (`Bringing`); that what the holder took down, or has to bring back, is pending for nobody else and stays
down (`Owns`); and that nothing outside its targets is loaded, or enabled with a bootstrap pending, when it
looks for the last time (`Clear`). Hence `Quieted`: while a run may migrate every service is clear, and a
successor that took the lease over has found nothing to bring back, so it cannot start a service either. Under
the first lease the targets are those of the preflight, which looked before the lease: `FoundOff` says that a
service found off then is still not loaded, because until schema 7 no run brings anything back. `Late` ties a
late command to a lost lease and a lost assertion, `Restored` carries the last look at the services over the
release to the read-back; a command of another run in between would be a late one. A command, a step without
one, and a migration each have one lemma for what they leave of the other runs (`CommandStep`, `QuietStep`,
`MigrationStep`), and each action one for its own run.

About the move to schema 10 `TransitionProofs` proves, for any writers and `MaxEvent`, from `MaxEvent \in Nat`
alone: `TransitionInvariant`, `TransitionTypes`, `NewSchemaAlwaysNewClient` (`NewSchemaNewClient`),
`AlwaysOneLateEffect` (`OneLateEffect`), and the action properties `ReleaseAlwaysRestores`
(`ReleasedRestored`) and `CompensatesAlwaysExactly` (`CompensationExact`). `TransitionInv` has these parts:

* `SchemaFit`: at schema 10 *every* writer, serving or not, has the v0.5 client and file, and no call that
  writes a file or quiesces is in progress. `NewSchemaNewClient` speaks of the serving writers only and says
  nothing of those a restore will start. A call that writes files began at schema 9 and is the only call, so
  no migration commits beside it; and v0.4 cannot be installed again past the migration.
* `CallFit`: what the phase, the schema and the lease object were when the call in progress began, and still
  are: nothing but the call itself, or a restart that ends it, changes them.
* `EntriesFit`: outside the entries a call has replaced the files are as it found them. This is where a
  write that fails after its replace must be counted as one.
* `LateFit`: a late effect used up the assertion before it, and its guard stays lost (`GuardLost`: an event
  number never comes back, and an expired lease is not renewed).
* `ProofFit`: the mark that the writers serve again is still true when the release reads it. For schema 9
  that holds only as long as the lease object does: a rollback that found the row free leaves no mark.

About the Cleaner cutover the same module proves, for any `MaxRuns` and from no assumption at all:
`CutoverTypesHold`, `CutoverInductiveHolds` and the action property `RuntimeAlwaysFollowsEpoch`
(`RuntimeFollowsEpoch`). What has to be proved is that a start, which looks at no file and no epoch itself, is
right because of what its run has done before. `CutoverInductive` says, beside the types:

* `FitsCutover`: each run is at a stage of its own, or at one that deals with its failure. It is part of the
  type invariant `CutoverTypes`, which is not inductive without it: the table of stages is partial.
* `RunningFits`: a writer that is not stopped has one build in its service file and its identity. A half
  stopped one (disabled, or enabled and not loaded) counts, since a command may yet make it run.
* `FoundFits`: so had the writers that a run found running. That run may be the one that undoes.
* `RunSound`, of the holder of the lease alone: the cutovers fence everything before they change anything
  (`FencesFirst`); execute undoes nothing but the fence, since it restores only while the epoch has not moved
  and it changes files only after (`ExecuteRestores`: what it read was 1, so "unchanged" means 1); prepare puts
  every service file back before it starts anything and never touches an identity (`PrepareRestores`); the
  recoveries act at epoch 2, and w07 on a stopped W07 (`RecoversMoved`); and what is about to be started has
  the build meant for it (`StartsFit`).

The last three are guarded by `~late`: an effect that was asserted and lands after the lease went to another
breaks them, and nothing in the code prevents it. The lists of writers are handled by their sets of members
(`OfMembers`, `TailMembers`). An action of a run either reads or has one effect, and two lemmas (`ReadingStep`,
`EffectStep`) say what each leaves of the other runs, who do not hold the lease; then each action is one lemma.

Only model-checked: `MCOperations.TypeOK`, the conjunction of the type invariants of the subsystems an
instance chooses among, each of which is a theorem above. Out of the prover's reach: liveness
(`RunnerReturns`), `ENABLED`, and induction over recursive definitions.

## 7. Where the code and its documentation disagree

* `expired_lease`: a heartbeat samples its clock before it waits for the database, and so can extend a
  lease that has expired in the meantime (`store/sqlite.py` 1381); a test says that it fails. Exclusion
  does not suffer, as `TakeoverAfterExpiry` and `TokenExclusive` show.
* `deployment_race`: the check for an earlier acquisition of a deployment is outside the transaction that
  acquires (`production_control.py` 440), so two overlapping calls both execute the effects.
* `recovery_budget`: a crash between `schedule_rework` and `register_agent_attempt` makes recovery replay
  the previous round; the unit of the budget bought nothing (`controller.py` 1471, `recovery.py` 160).
* `recovery_evaluator`: `resume_once` in a rework round whose evaluator has not begun takes the previous
  round's attempt for its own and blocks the execution (`recovery.py` 423).
* `adoption_status`: the fenced adoption whose migration to schema 7 fails leaves every writer disabled and
  unloaded and reports `NOT_REQUIRED` (`production_dcs_v8_adoption.py` 3619): the orchestrator restarts
  nothing, and the controller has no token. A test that injects other adapters promises the restart.

## 8. Not modelled, and why

Outside the approach: child processes, hashing, file seals, canonical JSON, capsules, schema validation,
SQL and plist text, Flyway, and command-line front ends. They compute an accept-or-refuse answer from
data, which the models take as nondeterministic where it matters (a verdict, a failed runner, a drifted
source). `store/migrations.py` is DDL; the CHECKs and triggers that matter appear in guards.

Left out inside modelled components:

* backups (their content is all a property could be about: that of the move to schema 10 is compared with the
  main file before the lease is acquired and without its WAL, so a commit between is missing from it,
  `production_schema10_operational.py` 2411), the heartbeat pump thread of the orchestrator
  (its failure is a lost lease) and the comparison of preserved rows after a migration;
* the disable of W07 inside the staging of its file, which is already disabled there;
* of the typed operations, PRINCIPAL, OWNER and PASSWORD have a profile in `TypedReceipts` but are not in
  the committed instance, which they would triple without a case of their own but the one named above;
* a compare-and-swap that lands after its run lost the lease: explored up to that point only;
* `schedule_high_rework`, the execution heartbeat, provisioning without a prior binding;
* the file copies of `cutover.py`;
* in `SliceBinding`, a rework of a bound execution, whose result replaces the first on both rows by the
  same transaction (`BoundHasWorktree` speaks of the first), and DESIGN_ESCALATION apart from ACCEPTED: both
  leave the slice row as it is. Nothing in the code takes a BLOCKED execution on, so it stays until it is
  cancelled.

Hazards that stay without a property are listed with the reason in `PROJECT.json`. Several of them are the
same shape: what an operation needs for going on after a crash (an inventory, a snapshot, a token, a
phase) is only in memory, so the next run takes what it finds for what should be, or has no legal call. No
document promises otherwise, and the models show the rest state.

With shared controller ids the fence does not separate processes; only what acceptance itself guarantees
(`AcceptsOnEvidence`) is claimed there. A late `register_result_commit` of a twin can overwrite the result
commit of an accepted row, and TLC shows it when `AcceptedOnEvidence` is checked with `OneId`.

## 9. Plan

In order of importance.

1. `Projection`: the outbox with its read-back and retry.
2. `schedule_high_rework` in `ExecutionStore`, and the resume of BLOCKED executions.
3. The thin client's transactions beside `WriterLeaseStore`.

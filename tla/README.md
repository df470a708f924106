# CellFlow: specifications, model checks and proofs

CellFlow tracks *business intents* that are realised by transactions on the CKB
chain. A client attaches a transaction, broadcasts it and reports the outcome;
stateless workers observe the chain through RPC endpoints that may lag, fail or
disagree, and move one database row per intent through three status axes until the
intent is *settled* (confirmed at the required depth with its expected Cells
verified), and webhooks tell consumers about it. What makes the code hard is that
nobody owns an intent: API calls, a daily cron sweep and durable workflow runs
all read the row, wait for the network and write back, any of them may die in
between, and the chain may reorganise.

## 1. The system's parts

| part | state | operations | interacts with |
|---|---|---|---|
| status algebra (`packages/core/src/state-machine.ts`, `confirmation.ts`) | none | `updateSubmission`, `applyChainObservation`, `isSettlementReady`, confirmation count | used by every writer of a row |
| spend evidence (`core/src/conflict-evidence.ts`) | JSON in `conflict_details` | first/next spent observation, broken continuity, maturity | reconciliation pass |
| execution repository (`packages/db/src/repository.ts`) | tables `intents`, `executions` (with `version`), `transaction_attempts`, `state_events`, `webhook_deliveries` | `attachTransaction`, `markSubmissionStatus`, `applySnapshot`, `updateCandidateAttempt`, `promoteAttemptProjection`, lease and workflow claims | every other part; the only shared state |
| intent API (`apps/api/src/service.ts`) | none | create, attach, mark, reconcile now, webhooks, keys | clients; repository |
| reconciliation pass (`workflows/reconcile/src/reconcile.ts`) | none between calls | observe, inspect inputs, corroborate, evaluate Cells, scan and promote candidates, write | RPC client; repository |
| reconciliation scheduling (`reconcileDue`, `apps/web/lib/workflow.ts`, `apps/web/workflows`, maintenance route) | `next_reconcile_at`, `reconcile_lease_*`, `workflow_*` columns | claim, renew and release a sweep's lease; claim, name, release and complete a durable run | reconciliation pass; submission routes |
| RPC client (`workflows/reconcile/src/rpc.ts`) | per-endpoint failure counters and cooldowns, per process | failover, circuit breaker, chain identity, `observe` | CKB nodes (external) |
| webhook delivery (`packages/webhooks`, `workflows/webhook-delivery`) | `webhook_deliveries` rows with leases, `webhook_endpoints` | enqueue, claim, renew, POST, complete, release, retry failed | outbox rows written with state events; consumers (external) |
| wallet adapter (`packages/ccc`) | the handle of a prepared transaction | persist, preflight, mark, send, report | intent API; wallet and node (external) |
| bootstrap and API keys (`apps/web/lib/server.ts`, `packages/db/src/migrate.ts`, key operations of the repository) | `schema_migrations`, `projects`, `api_keys`, a promise per process | migrate, create the first project; create and revoke keys | every request is admitted by them |
| rate limits, validation, evidence export, pages of the web application, CLI | counters | admission and presentation | do not write an intent's row |

The hard behaviours, listed line by line under `hazards` in `PROJECT.json`: stale
copies written back after network waits; unversioned writes next to versioned
ones; a promotion racing the pass over the tracked hash; answers of lagging
endpoints after a recorded commit; re-mining in another block with a verdict of the
old one; settlement announced twice, never, or not revoked; a row that still needs
attention with nothing scheduled; leases that expire while their holder still
works; crashes between any two steps; budgets compared with counters that crashes
do not advance; requests that name the intent and not the transaction they report
on, lost, repeated or applied late; a circuit breaker shared by callers that do not
agree on what a good endpoint is; setup and revocations that race over the last
row of their kind.

What makes each part correct: the row never claims a commit, a confirmation or a
settlement it holds no evidence for, never gives one up without proof, and says so
to consumers exactly when it changes; passes over stale copies change nothing;
one attempt wins; a row that is not finished is scheduled; a transaction is known
before it can be in the network, and an intent is not executed twice; a conflict is
told by two nodes of the right chain, and calls survive the loss of all nodes but one;
there is one first project, and it keeps an administrator.

## 2. Modules

```
TxStatus  SpendEvidence
      \    /
   ExecutionRow ------------------ ExecutionRow_proofs
      |      \                            |      |
IntentProjection  IntentTracking   IntentProjection_proofs  IntentTracking_proofs
   |  ^_______refines_____|
SpendHistory -- IntentProjection_proofs

ExecutionRow -- WalletBroadcast -- WalletBroadcast_proofs

TrackingSchedule -- TrackingSchedule_proofs
WebhookDelivery  -- WebhookDelivery_proofs
RpcFailover      -- RpcFailover_proofs
ServiceAccess    -- ServiceAccess_proofs
```

| module | models | state | actions or operators |
|---|---|---|---|
| `TxStatus` | status algebra, confirmation policy | none | `SubmissionAllowed`, `ApplyChainObservation`, `ConfirmationCount`, `IsSettlementReady`, ... |
| `SpendEvidence` | conflict evidence | none | `NextSpent`, `BreakContinuity`, `Matured` |
| `ExecutionRow` | what each operation makes of one row, and what an observation can say | none | `Attached`, `Marked`, `Reconciled`, `RpcFailed`, `Promoted`, `Observations` |
| `IntentProjection` | **abstract specification**: an intent whose operations are atomic | row, winner, last settlement event | attach, mark, reconcile, outage, promote |
| `SpendHistory` | `IntentProjection` with a history of the inspections that found the inputs spent | the same, `spent`, `earlier` | the same, each recording what it observed |
| `IntentTracking` | the tables and the workers around them | the same, `version`, attempts, what every worker read | read row, read attempts, scan candidates one by one, promote, write or lose the race, retry, die; attach and mark by clients |
| `TrackingSchedule` | who reconciles an intent and when | scheduling columns, report handlers, durable runs, sweeps | report, claim a start, start, name, give up; a run's rounds; the sweep's claim, renewal, pass, release; the faults of each |
| `WalletBroadcast` | wallets, the API, the network and reconciliation around one intent | row, attempts, each wallet's handle, requests under way, what the node holds | prepare, broadcast, send; serve a request, answer it or lose the reply; time out, crash; mine, evict; reconcile, promote |
| `RpcFailover` | the calls of one process to its CKB endpoints | failure counts and cooldowns, endpoints, the plan of each call | begin, identify, refuse, read, corroborate, contradict, return; probe; outage, recovery, restart |
| `ServiceAccess` | bootstrap of a deployment and the keys of its project | schema, projects, keys, two locks, requests | ensure, migrate, check, lock, create, fail; create a key, begin, decide and finish a revocation |
| `WebhookDelivery` | one outbox row and the processes that deliver it | the row, the endpoint switch, processes | enqueue, claim, renew, read endpoint, post or fail before it, complete, release, replay, crash, overrun |

`PROJECT.json` (`map`) gives for every definition the lines it stands for.
Names are the code's where TLA+ permits: `sub`, `chain` and `wf` are the columns
`submission_status`, `chain_status` and `workflow_status`; `due` says that
`next_reconcile_at` is set; `ready` that `settlement_ready_at` is.

### How state and actions correspond to the code

*The row.* `exec` joins `executions` with `intents.active_attempt_id` (the field
`tx`). The block a commit was seen in, the confirmation count, the Cell verdict with the block
it was given for (`proof`), the conflict with its spend evidence and what the last observation
proved about the recorded block (`seen`) are fields; broken evidence keeps its tips in the
code, but nobody asks for them, so the model forgets them. The CHECK on `conflict_type` is `Storable`: a
write that violates it throws, so the action is not enabled and the whole pass is
lost, as in PostgreSQL.

*Observations.* What `observe` and the input inspection answer is any member of
`Observations`: an endpoint may lag, so the answer is bound by the function's contract and not by
what was answered before. Competing outcomes that the code treats alike are one
(a prior commit that is known to be canonical and one whose check failed).

*API operations.* `attachTransaction` and `markSubmission` read, compute and write under a
version guard and start over from a fresh read when they lose, so each is one
step of `IntentTracking`. `MarkSubmission` carries no hash because the request carries none.

*The history of a spend.* `spent` and `earlier` are no columns: they collect, from the answers alone, the
tips at which inspections found the inputs spent. Both are emptied by whatever speaks
against the spend: the transaction is seen, an input is live, contended or uncertain, the
RPC fails, a new report on the submission or another transaction arrives. An `UNKNOWN` answer that inspected
nothing (a reported commit whose block could not be verified, or a hash without persisted inputs) ends
`spent` as well, as README.md:9 has it, but the code passes over it; what it then still counts on moves
to `earlier`. The row keeps only two tips and a flag in `conflict_details`. `SpentIsInspected` asks whether the
rule of `conflict-evidence.ts` is right about what the code counts, `SpentIsMature` whether
it is what the README says; it is not (`spend_lapse`).

*A pass* is not one step. A worker reads the row (`ReadIntent`), then the attempts
(`ReadAttempts`; two statements in the code), then scans the competing attempts in any order:
each is skipped (an RPC error), rewritten from the old copy without a version guard
(`UpdateCandidate`, `ConflictCandidate`), or promoted under the guard. Then it
writes under the guard or starts again, `MaxTries` times in all, as `reconcileIntent` does. A worker
may stop anywhere (`Abandon`).

*Scheduling.* Since passes are atomic (section 4), a pass is one step of
`TrackingSchedule`, and what it finds is open (`Result`). What the statuses tell
the sweep is the column `view`: `open` rows it takes, `contested` and `closed` rows
it leaves out; a row is contested while an unresolved replaced candidate makes the pass
ask for another one. A request stands for its `starting:` claim and, once named,
for the run id. `markWorkflowCompleted` names no run, so `Complete` completes whatever
claim the row holds. Time is three flags: a claim is a day old, a lease runs, a row is due.

*Webhooks.* Rows do not interact, so one is modelled. A process stands for its
fresh lease UUID. Time is two flags, `due` (the backoff elapsed) and `live` (the
lease runs). A request is counted when it is sent (`posts`). A try may also end before that: the destination
does not resolve or is not allowed, the encryption key is missing, the signing secret does not decrypt
(`FailBeforeRequest`, counted in `unsent`); the same catch block records it against the budget. What the consumer did with a request is
unknown, so a crash after it, a lease that ends during it or a failed write of its outcome
may repeat it.

*The wallet.* `WalletBroadcast` composes the row operations of `ExecutionRow` with
what is outside the database. A request stays in `net` until its reply is delivered:
the API may apply it, lose the reply and apply it again (the client's transport
retry), and a client that gave up may be overtaken by its own request. Only
`prepare` names the transaction; a mark is recorded for whatever attempt is active
when it is applied, as in `markSubmission`. A pass is one step, and what it may see is
what the node holds, or `UNKNOWN` from a lagging endpoint. Lost replies and transport retries are
ordinary steps, which every property allows for; a fault is a retry that is overtaken
by its first copy, a client that times out, a crash, or a preflight answered by a
lagging endpoint. The preflight needs persisted inputs. The node replaces what shares
an input, and the chain does not reorganise (`IntentProjection` has reorganisations).

*RPC calls.* `plan` is the list `healthyFirst` returns, computed once when the call begins;
the breaker may change under it. The count of failures outlives the cooldown, so one
more failure closes an endpoint that just came back. An endpoint of another chain
counts as failing, although it may serve other projects of the process well.
Corroboration and the probes of the readiness route do not ask the breaker; only the
probes report to it.

*Access.* A process bootstraps once; a failure drops the promise and the next
request tries again. A transaction that takes a lock, looks and writes is two steps, lock and
commit, with failure or death in between. `since` is PostgreSQL's `now()`, the
time the transaction began, which is before it waited for the lock; the expiry of the target
is compared with the server's clock, which differs by at most `Skew`.

## 3. What the runs check

| run | module, instance | shows |
|---|---|---|
| `projection` | `SpendHistory`; two hashes sharing an input, two blocks at one height, tips 0..2, depth 2, Cells required, monitoring on | evidence behind every commit, confirmation and settlement; verdicts match their block; unresolved rows stay scheduled; the confirmed hash is the winner; settlement is announced; a spent input conflicts the intent only after inspections the policy's window apart, with nothing but uninspected answers in between; commits go only by proof; conflicts are final |
| `tracking` | `IntentTracking`; two workers while the intent has one hash, one worker at a time once it has two (`OnePassOrOneHash`), 2 tries, 4 versions | a held version implies a current copy; the tables implement `IntentProjection` (`AtomicProjection`) with racing and dying workers; one winner; settled hashes are not displaced |
| `schedule` | `TrackingSchedule`; two reports, two sweeps, horizon 2, 2 faults | concurrent runs and overlapping sweeps need faults; a claim that blocks starts is nobody's leftover; every due row the sweep may see is served |
| `broadcast` | `WalletBroadcast`; two attempts without a common input, one wallet, two sends of each, one fault | what is sent is persisted; undisturbed, the intent is executed once, an ambiguous hash is not sent again, a live hash is the tracked one and scheduled |
| `failover` | `RpcFailover`; two callers sharing an endpoint, the second configured first with one of another chain, threshold 2, cooldown 2, one fault | the breaker alone fails no call; conflicts rest on two endpoints of the chain; calls recover while one agreed endpoint stays up |
| `access` | `ServiceAccess`; two servers of different releases, one setup request, two keys, two revocations, skew 1, times 0..2, one fault | one project with its key and schema; an administrator up to expiry; no lock left behind |
| `webhook` | `WebhookDelivery`; two processes, budget 2, one replay, 2 faults, failures before the request at any time | the owner's copy is current; attempts stay within the budget; duplicates need faults; a delivered row is final; every delivery ends |

Five runs expect a violation: each checks what the repository says of itself, and TLC shows a
behaviour of the code that contradicts it (`findings` quotes the lines).

| run | disagreement |
|---|---|
| `payload_mismatch` | the table's CHECK does not list `SIGNED_PAYLOAD_MISMATCH`, so the pass that found one is refused and the intent never becomes conflicted |
| `spend_lapse` | README.md:9 wants "uninterrupted chain evidence" and says that "RPC uncertainty breaks that continuity"; an `UNKNOWN` answer about a commit that could not be verified inspects nothing and leaves the evidence as it was, so the next inspection matures the spend |
| `settlement_loss` | a late rejection report with a suspected input conflict unsettles a settled row and publishes no revocation |
| `two_winners` | the unversioned candidate write makes an attempt active again after another worker confirmed the winner |
| `double_execution` | an RBF replacement that was only prepared hides the live attempt below it from the guard of the next replacement; a rebuild is accepted and both are mined |

Some properties are narrower than one might expect, because the wider ones fail.
`ExecutedOnce`, `LiveIsScheduled`, `LiveIsTracked` and `AmbiguousIsNotResent` are about *undisturbed* intents: at
most one wallet, attempts that share no input, no fault. Replies may be lost and calls
repeated. Each of the four fails with a single fault or a shared input, so they say nothing of these: a crash
after the send leaves a row `BROADCASTING` with nothing scheduled; a report that is applied late, or one of a handle
whose attempt was replaced, speaks for another attempt; an RBF replacement that was never sent, or was rejected, leaves the live
attempt below it without a guard or a schedule. `AlwaysExecutedOnce` (`double_execution`) shows what comes of the
unsent replacement; the others are listed under `hazards` with no property. `DueIsServed` is about rows the sweep may see. `FailoverRecovers` asks for an endpoint that every caller sharing
it accepts: a project that expects another chain can keep an endpoint closed for the
others. `AdministratorKept` allows for expiry and the difference of the clocks, as `now()`
is older than the decision it serves.

Every property of a passing run has a mutant (`mutants`): a definition with a
plausible fault (an ignored lease, a missing guard, a copy not invalidated), kept
beside the original as `Faulty...`, under which TLC finds that property violated.

### Bounds

`MaxVersion` caps versioned writes: four admit attach, mark, promotion or pass and a write
that races it; the refinement and `ReadsCurrent` are proved without the bound. Two
tries (the code has three) let a pass lose a race, start again and give up. `tracking` does not let two workers pass at once
over two hashes: that is `two_winners`, where one winner is not to be had; the refinement is proved
for any number of both, and one winner for one worker. Two blocks at one height are what a reorganisation needs;
tips 0..2 with depth 2 put the count below, at and above the policy.
`Horizon = 2` stands for the 720 rounds of a run: one round that goes on and one
that is the last. `MaxFaults` bounds crashes, failed calls, overruns and claims a day old.
Three reports with one sweep and two faults (5.4 million states) satisfy the safety
properties of `TrackingSchedule` as well.
In `broadcast` two attempts and two sends of each admit a rebuild over a live, rejected
or evicted attempt and a handle used twice; `MaxFaults = 1` admits one overtaken retry,
timeout, crash or lagging answer. In `failover` threshold and cooldown 2 separate a first failure from the one that
closes an endpoint and a half-expired cooldown from an open one; three endpoints over two
callers let one caller's failures close the other's endpoint. In `access`, two revocations and
two keys are the smallest race for the last administrator, and times 0..2 let a
key expire while a revocation waits. The proofs have none of these bounds.
`projection` uses a view: of the histories only the tips that can open or close a window of `MaturityWindow` bear on
`SpentIsInspected`, now and after any step, so states that agree on these are one. Symmetry is used in the runs of the intent modules, in `broadcast` and in `access`, which check invariants and action
properties only; runs with liveness use none. Deadlock is checked except in `broadcast`,
`double_execution` and `access`, where everything may come to rest: the wallet has used its sends, the intent is
decided, every request has ended.

### Fairness

The intent modules assume none. In `TrackingSchedule`: a handler and a run take
their next step unless a fault stops them (the platform executes them), the
sweep claims what is claimable again and again and goes on (`vercel.json`, a daily
cron), the lease of a dead sweep expires (PostgreSQL's clock). Reports, the reconcile route
and faults are never fair. In `WebhookDelivery`: backoffs elapse, leases expire, some process
claims again and again (the same cron), and a process that claimed proceeds.
`DueIsServed` says that a due row gets a run or a sweep, not that the pass succeeds:
the chain owes nothing. In `RpcFailover` a call that began goes on, because every request ends by its
answer or its timeout, and time passes; nobody promises that a call begins, a probe is made or an
outage ends. `WalletBroadcast` and `ServiceAccess` assume no fairness.

## 4. What is proved

All theorems hold for every value of the constants that satisfies the named
assumptions: any finite or infinite set of hashes and blocks, any policy, any number
of workers, reports and sweeps (finite where something is counted).

**Projection** (`ExecutionRow_proofs`, `IntentProjection_proofs`). The
inductive invariant is `TypeOK /\ SoundRow(exec) /\ ConfirmedIsWinning /\
ReadyAnnounced`. `SoundRow` collects the row's own conditions; none is
inductive alone (that a verdict is about the recorded block needs a block on every
confirmed row, which needs the way `ApplyChainObservation` preserves or drops a commit).
One lemma per operation says what it makes of a sound row (`AttachedFacts`,
`MarkedFacts`, `ReconciledFacts`, `RpcFailedFacts`, `PromotedFacts`); the projection adds
the winner and the event. That revocations follow an announcement (`RevocationsFollowReady`) is
proved and not run; the properties of the run `projection` are all theorems.

Three theorems say where the disagreements of section 3 end. `RefusedExactlyOnMismatch`: on every row that
can be reached, a pass is refused by the table's CHECK for a foreign payload and for nothing else (`payload_mismatch`).
`OnlyLateReportsUnsettle`: `SettlementLossAnnounced` is not an invariant (`settlement_loss`), and a late
rejection report with an input conflict is the one operation that breaks it; the invariant `Dated`, the announced event still
tells the row or the property is broken already, shows that every other operation keeps it. `ConfirmationsNeedCause`:
under the same hash `CONFIRMED` is lost only to a displaced block, to a transaction that is in
another block, to a lower count of the same block, to spent inputs or to a Cell that is not as expected (`GivesUp`). A failed
call or an uncertain answer alone never suffices; an answer about the same block at a lower tip does.

`SpendsInspected` adds the history. A row that is conflicted over a spent input holds no evidence any
more, so `SpentIsInspected` cannot be inductive: `EvidenceIsHistory` says of the row *before* the decision
that the two tips of unbroken evidence are in the history. `EvidenceAfterPass` says what a pass
makes of evidence: it extends it by a tip at which the inputs were found spent, keeps it, or
drops or breaks it; `ReconciledFacts` that only `SpendProven` makes this conflict. `OnlyUninspectedHurry` bounds the
disagreement `spend_lapse`: while `earlier` is empty, the README's rule `SpentIsMature` holds, so answers without an inspection are
the only uncertainty that the code counts across. `HistoryIsProjection` says
that the history only watches (`HistorySpec => Spec`), so all theorems about `Spec` hold in the runs.

**Tracking** (`IntentTracking_proofs`). The inductive invariant adds to the types
that each worker is *in line*: while its version is the row's, its copies are the
row and the winner; otherwise its version is smaller. A write under the guard
therefore starts from the current row, and is a step of `IntentProjection` on the
current state; the other steps change nothing the projection sees. This
is `PassesAreAtomic`: the tables implement the atomic projection for any number of
workers, hashes and versions. `SharedRowIsSound` and `SharedRowMoves` say what that buys: on the row the
workers share, whatever races, commits, settlements and verdicts are evidenced, polling is kept, the
winner and the announcement agree with the row, commits go only by proof and conflicted
rows stay. With one worker (the assumption `OneWorker`), `Exclusive` is inductive on
top of it: an attempt row says `CONFIRMED` only for the hash of a confirmed row, whose rivals are all
closed; a worker that scans a candidate holds a copy of an unconfirmed row, because
only its own write can confirm one. `OneWinner` and `SettlementStays` follow.

The assumption is not needed for itself. `GuardedSpec` is the same specification, for any number of workers, without the
steps that write a candidate from a copy the row has moved on from (`StaleCandidateWrite`): what a version
on the attempt's update would refuse. `OnlyStaleWritesReopen` proves both properties of it. The unversioned candidate write
is then the only cause of `two_winners`: racing passes, lost versions, clients, crashes and retries do no harm without it.

**Broadcast** (`WalletBroadcast_proofs`). `KnownBeforeSent` needs the whole path of a
handle: a handle that `prepare` returned names a hash with an attempt row, because only the API's
reply makes one, and no later write of the API or of a pass loses an attempt row. It holds for any
number of wallets and faults.

The properties of undisturbed intents rest on a second invariant, `QInv`: while the intent is undisturbed,
the network, the handle, the request under way and the row are in step (`Calm`). What the network holds is the
tracked hash, and its row says `BROADCASTING`, `SUBMISSION_UNKNOWN` or `SUBMITTED`; nothing is under way but the
request the wallet waits for; from a passed preflight to the send the network does not hold the hash, so the
outcome that is reported is the first one since. A replacement is therefore only admitted where nothing is live, and an
ambiguous hash is turned away by its own row. `CalmStep` has one lemma per action; `ExecutedAtMostOnce`, `TrackedWhenLive`,
`ScheduledWhenLive` and `NoResend` follow, for any number of attempts, sends, lost replies and retries. All safety
properties of the run `broadcast` are theorems.

**Failover** (`RpcFailover_proofs`). The invariant says that a call under way has an endpoint left to
ask, that the identity of the endpoint it reads has been checked, that its evidence comes from its own
endpoints on the expected chain, that a call that looks for a second opinion has none of the
first endpoint left in its plan, and that only an endpoint at the threshold cools down.

**Access** (`ServiceAccess_proofs`). The invariant ties each lock to the one transaction
that holds it. Who holds the bootstrap's lock knows whether the project is there; a
granted revocation leaves another administrator, or its target is no administrator key or
has expired up to the clocks' difference, and no other revocation can commit before the lock is given back.

**Scheduling** (`TrackingSchedule_proofs`). The invariant says that the open claim's
handler has not returned before it is named, that its run exists after, and that an
unstarted request has no run. `RunsArePaid` needs a ledger: live handlers and runs that can still
drive the intent, plus one if the open claim has aged, plus handlers about to give a claim up, are
at most the faults plus one for the open claim. `SweepsArePaid` is the
same for sweeps whose lease was overrun.

**Webhooks** (`WebhookDelivery_proofs`). The invariant adds that an open row has an
attempt left and an ended one no backoff. `DuplicatesArePaid` needs a ledger: requests that are
recorded or paid for, plus one for each process that may still owe a record. `BudgetIsEarned` is the other side
of the account and is proved without a run: an attempt is recorded only for a try that came to an end, with a request that was sent
or with a destination, key or secret that failed before it. No crash, overrun or failed write costs a delivery an
attempt; a consumer that never saw a request may still find the budget used up by failures before it. The end over a
disabled endpoint is the one record without a try, at most once per replay and once at the end.

Only model-checked: the liveness properties `DueIsServed`, `DeliveryEnds` and
`FailoverRecovers`, which are out of the prover's reach. Every invariant and action property
of a passing run is a theorem.

## 5. What is not modelled

- Durations and wall clock: backoff, lease and grace lengths. Any order of expiry and work is
  possible; the contention grace window is left out.
- `reconcile_attempts` (only a delay), saturation at `MAX_SAFE_INTEGER`, null tips,
  the count of spent observations (always at least one), error codes and event texts.
- `EXPIRED`: no code sets it.
- The matching of expected Cells and the hashing of payloads: pure functions of RPC
  data; their outcome is an arbitrary field of an observation.
- Several intents in one sweep, the sweep's limit and its concurrency: rows whose pass always
  throws keep the oldest `next_reconcile_at`, and nothing here says whether they starve others.
- In `RpcFailover`: the parsing of responses, DNS pinning and response limits, which are
  one condition (`Answers`).
- Rate limits (one atomic upsert each), scopes other than `admin`, hashing of keys.
- Webhook signatures and destination policy, evidence export, fingerprints, pages, CLI,
  release scripts: pure functions or thin callers; see `components`.

The recovery hint and the status label of the API's view are presentation and left out. Facts that were
seen while modelling are kept as notes, without a run:

- a confirmed row under a conflict suspicion advises to wait for a reconciliation that may not be scheduled;
- Cells may be judged on a pool answer of a lagging node, since the code evaluates them whenever the row
  stays confirmed. Such a node may not know the asserted live Cell yet, and its verdict conflicts the intent for good,
  while REVIEWER_UPGRADE_PATCH_2026-10-14.md:7 wants the "existing canonical snapshot" to remain "intact when an
  endpoint is lagging". The step is in the models, so no property forbids it;
- a candidate that is promoted brings along the evidence its attempt row was left with, so the history of its
  spend continues from there (`BroughtAlong`).

## 6. Where to go on

1. Several rows in a sweep: the limit, its order and rows whose pass always throws.
2. A lagging node that judges Cells, as a run of its own: the models have the step, but no property is about it.

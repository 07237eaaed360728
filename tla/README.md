# stitchkit: verification project

stitchkit is a TypeScript framework. Most of it is request/response code and pure
types; its hard parts are a few stateful cores that must stay correct under
concurrency, crashes, lost replies and timeouts. This project models those cores in
TLA+, checks them with TLC on small instances, and proves the invariants that matter
most with TLAPS for every instance. Paths below are relative to
`packages/core/src/` unless they start elsewhere.

## Contents

1. [The system](#the-system)
2. [What is modelled](#what-is-modelled)
3. [Runs, bounds and what they show](#runs-bounds-and-what-they-show)
4. [Fairness](#fairness)
5. [Proofs](#proofs)
6. [Disagreements found](#disagreements-found)
7. [Not modelled](#not-modelled)
8. [Plan](#plan)

## The system

| Component | State | Operations | Hard behaviour | Correct when |
| --- | --- | --- | --- | --- |
| Agent run store (`agent-runtime/store-*.ts`) | per conversation: head version, run records (state, revision, owner, fencing token, sequence), admission receipts, leases | accept, coalesce, acquire, checkpoint, operation, interrupt, recover (requeue, abandon), terminal commit with absorption | compare-and-swap conflicts, stale leases, retries after lost replies, two records in one commit | one open turn; leases never repeat; a settled run is final; each input is carried once; starts follow the durable order |
| Run executor (`run-*.ts`, `terminal-commit.ts`) | per ticket: phase, last record seen, retry budget, claims; per process: the set of executed runs | start, look up, acquire, write, fence, classify, commit, re-read, deliver, close from outside | every store call may throw with or without its effect; crash; a host that interrupts and abandons meanwhile | the answer is delivered once, by its author; an interrupt is honoured; no run is stranded in silence; tickets end |
| Runtime admission (`runtime-submit.ts`, `admission-lanes.ts`, `coordinator.ts`, `runtime-recovery.ts`, `runtime-control.ts`) | per key: lane (head, pending, tail), coordinator queue and active job, gate entries, recovery cursor | submit, preflight, accept, hand off, run, recover, interrupt, close | acceptances out of order, urgent work, duplicates owned by another process, close racing all of it | tickets resolve with their own answer; nobody joins too late or is left behind; a settled close is the end |
| Application kernel (`application/kernel-*.ts`) | lifecycle, accepting, operations in flight, one record per resource, published values, restart queue | start, activate, roll back, acquire/release, report health, restart, shutdown, force | three programs interleaving at awaits; hooks that reject or hang; stale completions | admission stays shut after shutdown; operations drain first; one generation at a time, known to the kernel; shutdown ends |
| Injection registry (`injection.ts`) | offers by key | offer, take, withdraw, clear | a run that starts with its inputs on offer; a retry that hands back what it took | what is on offer waits; what is absorbed was shown |
| History and compaction (`history*.ts`, `compaction.ts`) | ordered messages, watermark | seed, append, compact | a compaction racing a commit | order of messages is that of the turns |
| Managed schedule (`application/schedule*.ts`) | next tick, run in flight | tick, run, drain, abort | overlap, missed ticks, drain during a run | no overlap; a drained schedule is quiet |
| Revision signal (`application/revision-signal.ts`) | revision, delivery in flight | bump, deliver | a change that arrives during a delivery | the last change is delivered |
| Durability engine (`durability/`) | per durable name: an append-only ledger of results, intents, outcomes, parks and deliveries; per process: calls in flight, waiters | step, effect, reconcile, sleep, wait, deliver, wake, abort | crash between effect and record, replies lost, two deliveries, a delivery between the read and the park | an effect runs at most once; what a call returned every later call returns; a delivered wait ends |
| Exclusive lock (`internal/exclusive-lock*.ts`) | lock file, staging files, owner record, guards of guards | link, read, diagnose, guard, reclaim, release | takeover of a dead owner's lock by several contenders, a reclaimer that dies too | one owner; an abandoned lock is taken |
| Telegram update intake (`telegram/update-*.ts`) | per update: state, attempts, claim, lease; per process: a line per chat, slots, sweeps, deliveries of exhausted updates | accept, start, sweep, claim, handle, settle, exhaust, acknowledge, close | leases lost under a live attempt, a webhook during the read of the backlog, a store that throws, restart | one update of a chat at a time, the backlog first; settled only for the claim that handled it; every update ends |
| Notification outbox (`application/notification-*.ts`) | queue and receipts with attempts, leases and the receipts of a plan; per process: passes and timers | enqueue, claim, send, confirm, project, acknowledge, reject, start, stop | crash between send and receipt, lease lost, rollout of a version without the plan, stop() in the middle | a confirmed action is not sent again; acknowledged means whole; items leave |
| Directory inbox (`application/directory-inbox*.ts`) | files in directories | accept, deliver, acknowledge | crash between delivery and acknowledgement | at least once |
| Watch hub and live client (`application/watch-hub*.ts`, `live/`) | per question: revision, value, remembered values, the base of each subscriber, a read in flight; per client: the entry it shows and offers | open, close, detach, invalidate, read, retry, release, close; subscribe, take a frame, resynchronise, reconnect | frames of another open or another hub, drops noticed late, changes while nobody subscribes | what a client shows as live is the answer; every listener converges |
| Process group (`process/`) | leader, members, owner guard | start, terminate, settle | leader, member and owner dying in any order | settled only when the group is gone |
| Everything else: server, tools and MCP, browser and React clients, contracts, primitives, observability, tracking, files, oauth, voice, xlsx, release, `packages/tui`, `packages/create-stitchkit` | request-scoped or presentation state | | | covered by unit tests; see `PROJECT.json` for the reason per part |

How they interact. `submit()` reserves a place in the admission lane of its key,
passes the gate, and accepts the run in the store; the coordinator hands the run to an
executor, one at a time per key; the executor acquires a lease in the store, writes
under it and commits a terminal, which resolves the ticket. `recover()` reads the
store's active records and requeues, abandons or resumes them through the same
coordinator. `close()` shuts the gate and waits for what is inside. Processes share
nothing but the store. The application kernel owns the lifetime of resources, a
runtime among them; it calls `start`, `activate`, `stopAdmission`, `drain`, `close`
and `force` and is called back with health reports, completions and leases. The
durable steps of a run write their records beside it in the store, under the lease the
executor holds; `deliver()` may come from any process. The update intake, the outbox
and the lock stand on their own: each has processes that share only a store, or a
directory. The watch hub and its clients share only connections, which deliver in order
until they drop.

## What is modelled

| Module | Part | Correspondence |
| --- | --- | --- |
| `ConversationTurns` | what the store promises | an abstract specification: a turn is open, held, released, dropped or settled; an input has one carrier |
| `AgentRunStore` | the store's reducers | one action per mutation of one transaction; a conflict or TypeError is a disabled action; each record field is a function over runs |
| `AgentExecutor` | executors on the store (`EXTENDS AgentRunStore`) | a lane is one slot of a process; one action per await of the code; a store call commits, conflicts, throws without effect or loses its reply |
| `RuntimeAdmission` | one runtime and one key on the store (`EXTENDS AgentRunStore`) | one action per stretch between two awaits; execution reduced to acquire, the boundaries that take inputs on, and one outcome |
| `ApplicationKernel` | the resource lifetime | `turn` names the program that runs from await to await; a hook is a call and, later or never, its settlement; the record flags are sets of resources |
| `StepDurability` | durable steps, effects and parks | a call goes from store operation to store operation; the ledger of a name is the sequence of its records; `deliver()` is two operations of any process; a crash ends every call and leaves the ledger |
| `ExclusiveLock` | the lock between processes | one action per file-system call that matters; level 0 is the lock, level n + 1 the guard of level n; inodes are numbers the file system gives out, lowest first |
| `NotificationOutbox` | the outbox and its plans | a pass goes from `store.update` to `store.update` or send; an executor is one outbox of one process, with its chain of passes and its timers |
| `TelegramUpdates` | the update store and the intakes over it | an attempt goes from slot to claim to settlement; one flag `ripe` says that the one time that matters for a record has passed |
| `WatchedRead` | one watched question, its hub and its clients | a connection is a pair of queues; a frame is a revision, a value and the base of a difference; a handler of the client or of the hub is one action, and a read is its start and its end |
| `AgentRunStoreProofs`, `AgentExecutorProofs`, `RuntimeAdmissionProofs`, `ApplicationKernelProofs`, `StepDurabilityProofs`, `ExclusiveLockProofs`, `TelegramUpdatesProofs`, `DeliveryProofs` (the outbox and the watched read) | theorems | see [Proofs](#proofs) |
| `MC*` | constants for TLC | |

The control of the code is kept: every guard, early return and error path that
changes state. The data is reduced: an input is a key, an answer is the token of the
lease that wrote it, a priority is a Boolean, a time is a small stamp, a published
value is the number of the generation that published it.

Operators named `X_Y` before a definition `X` are plausible defects of `X`; each
property is violated when one of them takes its place (`PROJECT.json`, `mutants`).

Abstractions to keep in mind:

- *Promise microtasks.* What JavaScript does between two awaits is one action. A
  resolved promise that is awaited gives way to other microtasks; where nothing of the
  system can be queued there, the gap is left out.
- *Timers* are actions that may happen at any time: budgets are nondeterministic.
- *Resources of the kernel* are adversarial but not malicious: a `start()` that
  resolves opened a generation, a `close()` or `force()` that resolves closed what was
  open when it was called. Every resource has a `close()`. A late settlement of a hook
  the kernel no longer awaits has no effect of its own, except for `start()`.
- *Durability.* One process at a time makes the calls, which is what its execution
  lease gives it (`durability/contract.ts:139-144`). Names are read independently of each
  other, so one name shows what many would. `reconcile` answers exactly; a recipient that
  answers wrongly is outside. A `deliver()` whose append took effect and whose reply was
  lost wakes nobody until it is called again: `WaitsEnd` asks for one that returned.
- *Lock.* The diagnosis of an owner is exact, except for owners that cannot be probed
  (`Unprovable`), who count as alive. `release()` compares and unlinks in one step; the
  reclaim does not. `Reuse` is FALSE where an inode number is not given out while some
  process remembers it.
- *Outbox.* The executor stands for the identity of its lease: one executor works on one
  item at a time. `stop()` may be called without a `start()`. A send that throws may have arrived; that it may arrive twice is
  promised nowhere, so only what is *recorded* as sent is a property.
- *Updates.* A handler's return is joined to the record of it, since nobody else sees the
  moment between; a sweep of the timer, or a call of `sweep()`, is one step, one at a time
  per intake, and finds one exhausted update at a time. `sweep()` may come at any time:
  before `start()`, during its read, after `close()`. A claim id is used again only when nobody holds it.
- *Watched read.* A value is what its fingerprint identifies. `Remembered` stands for
  `deltaMemoryBytes` and `Smaller` for `deltaWins`. The client notices a drop at once and
  the server later (`Detach`); a subscriber whose connection is over hears nothing. With
  `Hold`, the hub holds a source longer than a frame is on its way. A hub closed under its
  connections refuses an open; the client whose deadline passed before does not hear it,
  which `LiveMeansCurrent` exempts. `WatchersConverge` speaks of the value and not of the
  phase: a client can stay `unavailable` with the answer in hand after a deadline that
  passes between the state frame and the acknowledgement.
- *Lease of a run.* The reducers compare the fencing token only when the caller gives one
  (`store-reduce-run.ts:68,106`); the runtime always does, and `HoldsLease` compares it.
- *Decisions of a recovery.* `RuntimeAdmission` has one process that acquires, so a run that
  was acquired when `recover()` scanned it is executed by that very process. The host must
  give evidence to touch it (`staleOwner: true`, `replaySafe: true`, `runtime.ts:95-96`),
  which would be false, so `Decision` abandons and requeues only queued runs. A run acquired
  between the scan and the decision has moved, and the decision conflicts. What a host does
  to the runs of live and dead owners is in `AgentExecutor`.
- *Driver of the store.* One mutation is atomic per head version, which is the contract
  of `store-driver-contract.ts`.

## Runs, bounds and what they show

| Run | Instance | Question |
| --- | --- | --- |
| `store` | 3 runs, 3 keys, 2 lanes with one label, 2 stamps, 6 mutations; symmetry on runs, keys and lanes | do all orders of mutations keep the store's invariants, and implement `ConversationTurns`? Six mutations reach an absorption of a run admitted beside the one that commits, and an acquisition after a recovery; two lanes with one label make the owner check alone insufficient |
| `executor` | 2 runs of which the first is started up to twice, 2 processes, 1 retry; drafts and the host write up to revision 2 of the first | is an answer delivered once and by its author when replies are lost, processes die and the host interferes, and does every ticket end? The second run is ahead of the first, behind it, or taken on and handed back by it |
| `admission` | one runtime and one of four hosts: `Coalescing`, 3 submissions with durable interrupts and a budgeted close; `Urgency`, 2 submissions that supersede or interrupt, with `recover()`; `AfterCrash`, 2 submissions that may be taken on, one of them admitted by another process, with `recover()` over a store that throws; `Injecting`, 3 submissions that coalesce and may be taken on | do tickets get their own answer, is an absorbed input one that waited and was shown, is nobody left behind, does urgent work go first, is close the end? Three submissions fill both places of a lane and coalesce one more |
| `admission_live` | 3 coalescing submissions, one admitted by another process, or 2 of which one is taken on, over a store that throws and with a close without a budget; or 2 submissions, `recover()` and a close with one | does every submission end, and does a close reach the abort of the active run, also while `recover()` waits behind that run? |
| `kernel` | a database and an API on it, both required; the database has a completion and `force()`, the API reports health; 1 restart, 1 operation | all kernel properties, at any interleaving of start, restart, reports, shutdown and force. Two resources in one dependency are the least where a dependant can hold a closed handle; the restart of `db` takes both down, that of `api` one |
| `durability` | 1 name of each of the four kinds, 2 calls, 2 deliverers (one of them in another process), 2 values; 5 calls and 3 faults | is an effect run once, and does every replay return what was returned, when processes die, stores throw and deliveries race? Three faults allow a crash inside the recovery of a crash |
| `lock` | 3 processes, one of them unprovable, 9 inodes, guards two deep, 2 deaths, 1 failed publication | is the holder of a name its owner, and is an abandoned lock taken? Two deaths leave a lock and a guard behind one survivor |
| `outbox` | 2 notifications, 2 executors of which one may lack the plan, a plan of 2 actions, 2 attempts, a queue of 1; 2 enqueues, 2 calls, 1 fault | is an action confirmed once never sent again, is an acknowledged notification whole, does every item leave the queue? |
| `updates` | one chat; one intake and 2 updates, with 1 fault or with 1 `sweep()` that the interval would not make; one intake and 1 update, with both; two intakes and 1 update, with 1 fault; 2 attempts, 1 slot, 3 calls | order, fencing, close and progress. The order of a chat, and a sweep that upsets it, need two updates; a stale claim needs two intakes; nothing the code does relates both cases |
| `watch` | 2 clients of which one keeps its connection, 2 values, differences one way, 1 remembered value, a hold; 1 change, 2 faults | is what a client shows as live the answer, does it offer what it holds, does everybody converge? Two faults allow a reopen during the recovery from a drop; the steady client keeps the source alive under the other, or lets it be held |
| `lock_reuse`, `watch_release` | 4 processes and inode numbers given out again; the `watch` instance without a hold and with 1 fault | violations: see below |

Every bound is a constant named in the module (`MaxVersion`, `MaxFailures`,
`MaxTickets`, `MaxRevision`, `MaxRestarts`, `MaxPending`, `MaxCrashes`, `MaxEnqueues`,
`MaxCalls`, `MaxChanges`, `MaxFaults`, `MaxMishaps`) and appears in a guard; those of the
update intake (`calls`, `sweeps`, `faults`) are the third part of a member of `Sites`. The `executor` run has a
constraint besides, `InOrder`: runs and keys are interchangeable, so the first run is the
one admitted first, and the second is admitted within the first three mutations.
`MaxVersion` is large enough in the executor and admission runs never to be what stops
a behaviour. Deadlock is checked for the lock, whose survivors go on asking; the others
stop, when their bounded work is done or after a shutdown.

What the theorems of a module need of the types is proved (`WatchTypes` for the watched
read, the types in the invariants below for the others) and is a property of no run.

`EarlyRestarts` of the kernel is FALSE in the runs: a restart that overlaps the
activation or the rollback of the startup is then left out. The lifecycle is `ready`
before the activations ran, so the code does accept such a restart; with it the two
chains interleave. The invariants `HandlesAreLive` and `GenerationsKnown` exempt that
through the history variable `raced`; `OneGeneration` does not, and with
`EarlyRestarts` and two restarts TLC finds it violated (see
[below](#disagreements-found)).

## Fairness

- `FairExecSpec`: a lane that can take a step eventually does: calls return or throw,
  timers fire, and a stream ends. The provider and tool timeouts of the runtime
  justify the last; the host, crashes and the start of tickets are not fair.
- `FairAdmissionSpec`: submissions, the coordinator, recovery and close go on.
  That runs end of themselves is an assumption of `SubmissionsEnd` alone, and is not
  made for `CloseAborts`.
- `FairSpec` of the kernel: callbacks run on, the timers of the budgets fire, and an
  await whose condition holds is over some time. Nothing is assumed of a resource or
  of a caller: `ShutdownEnds` holds with hooks and leases that never settle.

- `FairDurabilitySpec`: operations of the store and handlers end, a subscription hears
  of a write, deadlines pass.
- `FairLockSpec`: a process that runs goes on and asks again after a refusal, which is
  the loop of `withExclusiveLock`; deaths and failures are not fair.
- `FairOutboxSpec`: calls return or throw, timers fire, backoffs and the leases of those
  gone run out. Starting an executor is not fair: `ItemsLeave` asks that one runs.
- `FairWatchSpec`: frames on a connection arrive, handlers run, reads end, the retry timer
  fires and a connection that dropped comes back. Changes, drops, leaves and a hub's end
  are not fair.
- `FairUpdatesSpec`: calls and handlers end, the interval sweeps, and times pass, except the
  lease of an attempt that still renews it. Starting an intake is not fair, nor is a call
  of `sweep()`.

Where the work of a module is bounded, "everything that began ends" is stated as
`<>[](nothing is under way)`: `TicketsEnd`, `SubmissionsEnd`, `CloseAborts`,
`WatchersConverge`. With finitely many beginnings the two say the same.

## Proofs

All theorems hold for every value of the constants under the named assumptions of the
modules (`StoreAssumption`, `ExecutorAssumption`, `AdmissionAssumption`,
`KernelAssumption`, `DurabilityAssumption`, `LockAssumption`, `UpdatesAssumption`,
`OutboxAssumption`, `WatchAssumption`), which TLC evaluates on every run. They type the constants, keep
`None` (`Nothing` in the watched read) out of the sets it is added to, and say what the code enforces: `KernelAssumption`
that the start order is topological and names each resource once (`application/graph.ts`),
`AdmissionAssumption` that a reservation has a run of its own. A theorem with a further
hypothesis states it.

An invariant a run checks is almost never inductive. Each paragraph says what had to be
added, because that is what a change of the code may break without touching the property.

**Run store** (`AgentRunStoreProofs`). Type correctness first. The inductive invariant
is `TypeOK /\ Bookkeeping /\ OneOpenTurn /\ Carriage /\ HasReceipt`, proved one
conjunct after the other:

- `Bookkeeping` says what the others rest on and what no reader doubts until it is
  written down: an absent identity has no history, sequences are versions of the past,
  a lease's token was granted from its run. Without it, `LeasesDiffer` and
  `StartsInOrder` are not inductive.
- `OneOpenTurn` needs that an open turn blocks every acquisition (`OpenTurnBlocks`),
  also while it is back in the queue after a recovery.
- `Carriage` puts together `OnlyAdmitted`, `AbsorptionSound`, `AnsweredOnce` and
  `DuplicateFindsItsRun`: a commit that absorbs moves all four at once.
- The action properties (`FencedAnswers`, `SettledIsFinal`, `RevisionCountsWrites`)
  and the refinement of `ConversationTurns` follow from the invariant, one lemma per
  kind of step. `AbsorptionSound`, `DuplicateFindsItsRun`, `LeasesDiffer` and
  `RevisionCountsWrites` are proved and are properties of no run.

**Executors** (`AgentExecutorProofs`). `ExecutorsImplementStore` is `ExecSpec => Spec`:
every step of a lane, of the host or of a crash is one mutation of the store or none,
so every theorem about the store holds of any number of executors that lose replies,
retry, crash and recover (`TurnsUnderExecutors` states the main ones). The store
accepts any caller; what has to be shown is that an executor never offers it something
outside what its specification enumerates. That is `EInv`: the reason has become an
outcome by the time of the commit (`Decided`), the claim names other runs and inputs
that are there (`ClaimsOwn`, `Carries`).

`Honoured` proves `InterruptHonoured` from `AwareInv`: what a lane has read is the past
of its run, and a lane that still acts as if no interrupt had been recorded either names
an old revision, which the store refuses, or the run is not interrupted. What the others
do to the run only makes its view older (`Older`, from `WritesAreCounted` of the store);
what the lane does itself is one lemma per group of phases (`AcquiringAware`,
`ExecutingAware`, `CommittingAware`, `ClosingAware`). The invariant is not inductive
without the clause for `classify` and `closeOperation`: on the way through the catch, a
lane may learn the revision of an interrupt without adopting it, and is then safe only
because its reason is not `completed`.

`DeliveredOnce` and `NobodyStranded` prove `AnswerDeliveredOnce` and `NoSilentStrand`
from `KnowInv`, which says phase by phase what a lane knows of its run. The part that is
needed most is `Holds`: under the label of the process, the only lease of the run is the
one this lane was granted. After a lost reply an executor recognises its commit by owner
and token (`terminal-commit.ts`); the owner it compares is that of the process, so what it
finds is its own only if no other lane of the process holds the run. Both theorems
therefore have the hypothesis `[]OneJobPerRun`: two lanes of a process never have the same
run. The code gives it through the coordinator, which executes one job per key
(`runtime-submit.ts:117`, `runtime-recovery.ts:44`), and `OneLaneEach` draws the
conclusion for a process with one lane, where nothing is left to assume. It matters:
when a stream fails, `run-failure.ts:68-75` adopts a record that names the process and an
interrupt, and does not compare the token.

**Runtime admission** (`RuntimeAdmissionProofs`). `AdmissionImplementsStore` is
`AdmissionSpec => Spec`, so that the theorems of the store hold under `submit()`,
`recover()`, `close()` and other processes (`StoreUnderRuntime`). That a step of the
runtime is a step of the store comes from `AdmissionInv`: a reservation names runs and
stamps that exist (`Submitted`), the coordinator and the scan of `recover()` hold jobs
that were given to them (`Coordinated`, `Scanning`), every input that is in the store came
in by its own submission (`Origins`), and what is on offer or was taken on has been
accepted, for another run than the one that takes (`Offers`). The last is what an
absorption asks of the store: a run does not absorb itself.

`TicketsAreAnswered` needs `Told`, which says of a ticket that it was answered by a settled
run that has its input, and is the property read from the other end;
`AbsorbedInputsWereShown` follows from `AdmissionInv` step by step. `UrgentGoFirst` needs
that the urgent jobs stand at the front of the coordinator's queue (`Ordered`), and that a
job keeps its urgency while it waits (`UrgencyStays`): the policy is read at the insertion
and by the property much later. `SettledCloseIsQuiet` needs that only the active job has
acquired its run (`Executing`), that `close()` waits for everything past the gate
(`Guarded`), and that once it has waited nothing is queued (`Drained`).

`OfferedInputsWait` and `NobodyLeft` prove `OffersAreWaiting` and `NoneLeftBehind`. Neither
says anything of the admission lane, and both rest on it, in four layers:

- `LaneInv` is about the lane of `coalescePending` alone. The lane holds the runs of the
  leaders that are not over, the older one first (`Housed`), and the acceptances wait for
  each other in a chain that leaves out nobody whose run is in the lane: whoever is past
  its turn has all those before it past the gate (`Chained`). That is one statement about
  every pair of reservations, for chains of any length, and it is inductive because a
  submission appends to the tail and a settled admission only leaves. Every step but a
  submission is a `LaneStep`, which is all that its preservation needs of them.
- `InLine` relates the lane to the coordinator, as long as `recover()` is not called. The
  jobs are the submissions that hold a ticket of their own, each there once, and the head's
  leader is ahead of the pending one (`Lined`); nobody is still about to join a run that
  was looked up (`Joined`), which is what a reserved run waits for in `Create`.
- `Waiting`: what is on offer, or taken on by the attempt under way, is an input whose own
  run is queued, never both. A run that starts withdraws its offers before it is acquired, and by `Joined`
  no offer of it comes afterwards; a commit that absorbs a run has taken every input of it.
- `Serial` is for the hosts `NoneLeftBehind` names. A queued run is led by a submission of
  this process and has the time of that submission as its place, and the active job is the
  first of those that wait, with the revision it read. So an acquisition never fails
  (`FirstMayStart`): nothing is ahead of the run in the store's order, and by `Joined`
  nobody moves its revision after the look-up. The job that follows is the first of the
  rest because the lane holds at most two runs (`NextIsFirst`), and the first on a free
  lane because an earlier leader would be a job already (`PendingComesLater`).

The hypothesis `~host.recovers` of `NoneLeftBehind` came out of this proof: `recover()`
requeues a run between its look-up and its acquisition, and moves the revision.

**Application kernel** (`ApplicationKernelProofs`). `KInv` says that the shutdown has
moved only if it was requested, that a request shuts admission, and that the graceful
path is past `waitForPending()` only with nothing in flight. The last is
`OperationsDrainFirst` and is inductive only with the first two: what keeps `pending`
at zero is that nobody is admitted. `ShutForGood` follows step by step from it.

`OneOpenEach`, `OpenIsKnown` and `HandlesStayOpen` prove `OneGeneration`, `GenerationsKnown`
and `HandlesAreLive` for every graph of resources and any number of restarts, under
`~EarlyRestarts`. The argument has three layers over the types (`Typed`, for which the
walks of the kernel are shown to be walks of the graph: `OrderIs`, `Reversed`, `SubtreeIs`,
`RemainingIs`).

- `Programs` says who runs beside whom. The start, the restarts and the shutdown share
  the records with no lock; what keeps them apart is that restarts begin after the start,
  and that a shutdown finds none in flight (`Calm`, the negation of what `raced` and
  `forced` remember).
- `GenerationsInv` says that at most the last generation of a resource is open
  (`LastOnly`), that what a chain has still to start is closed and not recorded as closed
  (`Begins`, `Replaces`), and that an awaited `close()` was called with all that is open
  (`RollsBack`, `ClosesAll`). `OneGeneration` says nothing of any of these, and each is
  where a step needs it: a restart starts what its record says was erased. `LastOnly` and
  what is published hold even when the programs overlap; the rest while `Calm`.
- `HandlesInv` says that what is ready uses open generations (`ReadyHolds`), also while it
  is being started (`Starts`), and that a resource is closed only when no dependant of it
  is ready (`RestartDown`, `RollbackDown`, `SweepDown`). For that, the walk downwards meets
  dependants first (`Downward`), and what a restart takes down has all its dependants with
  it (`WithDependants`).

`Dependants` of the model is the least set with the resource that is closed under
dependants, where the code has one pass over the topological order; so its properties
follow without an induction over the pass.

**Durable steps** (`StepDurabilityProofs`). `DInv` is `Shapes /\ Alone /\ Intended /\
NotYet`: the ledger of a name has the shape its kind gives it, one call at a time works on
a name, whatever ran had its intent recorded first, and a call about to record an intent
has read that there is none. `RunOnce` says that an effect that may have happened is not
run again; by itself it says nothing of what the call has read, and the last two conjuncts
are what a step needs.

`OneAnswerEach` proves `OneAnswer` from `AInv`: once something final is recorded, whatever
was returned is what a replay returns (`Stable`). That survives an append because a body or
an effect under way has read that nothing final is recorded (`Placed`), and because what
`deliver()` appends comes behind the delivery that a wait returns, the first
(`Firsts`, `Sent`).

**Lock** (`ExclusiveLockProofs`). `HolderOwns` proves `HolderOwnsTheName` under `~Reuse`,
which the theorem states and which `lock_reuse` shows to be needed. `LInv` is `LockTypeOK`
and four parts: what a process has open fits where it is (`Shaped`), an open file records
the process that holds it (`Signed`) and has the name from its link on (`Named`), and what
a reclaim has read stays so, the file it is about to unlink being of an owner that is gone
(`Judged`). `Judged` is what the property leaves out: a removal keeps the others' names
only if the file it takes is a dead one's, and it stays one through the steps between the
verdict and the unlink because the guard keeps other reclaimers away, which is the property
itself one level up.

**Update intake** (`TelegramUpdatesProofs`). `SettledForItsAttempt` proves
`SettledIsHandled` from `UInv`, which adds types, that a record which was ever claimed names
its claim (`Named`), and that a delivery on its way to acknowledge has told the host of the
claim the record names (`HostKnows`): the acknowledgement comes steps after the handler and
settles whatever the record names then. That a new claim differs from every one in use is
`NewClaimIsNew`, by counting.

`ChatsRunInTurn`, `ClosedDoesNothing` and `OthersLeftGoFirst` prove `OneOfAChat`,
`ClosedIsIdle` and `BacklogFirst` from `LineInv`. An update is in the line as long as it has
a place, and an attempt under way has none of its chat ahead of it (`Lined`); it waits for
a slot once (`Queued`); `close()` returns when the reads, the attempts and the deliveries
are over (`Idle`); and an update left by others is still to be read by `start()`, with nothing
younger of its chat in line, or stands in line behind nothing younger (`Backed`).
`BacklogFirst` compares two updates that run; that the older one is not overtaken is decided
when it is read, page by page, while the webhook already accepts. The history variable
`backlog` loses the updates that a `sweep()` called during the read overtakes, and only those
(`Overtaken`): what the property exempts is among the
[disagreements](#disagreements-found).

**Outbox** (`DeliveryProofs`). `OutboxInv` is `Typed /\ Recorded /\ Working`.
`ReceiptsAreWhole` (`AcknowledgedWhole`) and `NothingRecordedIsResent`
(`RecordedIsNotResent`) need that an executor that still owns its item knows how many
actions are recorded of it (`Working`): it read that number at the claim, sends after it,
and acknowledges on the strength of it. It stays true because only the owner of the lease
writes receipts, and whoever lost the lease finds so at its next write.

**Watched read** (`DeliveryProofs`). There are two inductive invariants. `WatchInv` needs
no hold and proves `OffersAlways` (`OffersWhatItHolds`) and the types (`WatchTypes`);
`HeldInv` adds what holds under `Hold` and proves `LiveAlwaysCurrent` (`LiveMeansCurrent`).
Both hold for any number of clients, values and mishaps, and for queues of any length.

- `SourceInv` is the hub alone. A source with subscribers whose value may be old has a read
  under way or a retry to come (`Awaits`), and one that is live, with no read under way and
  not dirty, holds the answer (`Current`). The answer may change during a read: the read
  that ends then is not the last, since the change has made the source dirty.
- `Talk` says what a connection still carries: a client that keeps the question and has not
  opened it on a working connection shows nothing as live and has nothing to hear.
- `Offer` is about values. The hub answers a reopen with "unchanged" when the fingerprint it
  was offered is that of its value, and a client that takes this confirmation keeps its own.
  So a confirmation on its way must be of what the client holds by then, with no value ahead
  of it (`Confirms`); the hub offers it only on an open whose fingerprint is still held and
  behind which nothing of an earlier open can come (`Names`), and a client that closes holds
  nothing at its next open (`Reopens`). `OffersWhatItHolds` is one clause of this and says
  nothing of what is on its way.
- `Versions` says that revisions rise along a connection and towards the source, and that
  one revision is one value. This is what the code relies on when it drops a value as no
  newer, and it is false without a hold, as `watch_release` shows: a new source counts from
  1 again while frames of the old one are on their way.
- `Follows` says that the last value on its way to a subscriber is the source's, and with
  none on its way the client has it. A client that dropped the question has its close on the
  way as its last word.
- `Phases` says that a client which would show the value as live, once it has read what is
  on its way, is subscribed to a source that is live; and when the hub is closed, what it
  reads last is the refusal. With nothing on its way the two meet: the source is live and
  has no read under way, so its value is the answer, and the client has it.

The hypothesis `Hold` is a `holdMs` longer than a frame is on its way; what happens with the
default of 0 is among the [disagreements found](#disagreements-found).

Model-checked only:

- All liveness (`TicketsEnd`, `SubmissionsEnd`, `CloseAborts`, `ShutdownEnds`, `WaitsEnd`,
  `AbandonedIsTaken`, `ItemsLeave`, `UpdatesSettle`, `WatchersConverge`): the prover handles
  neither fairness nor ENABLED.

## Disagreements found

Two have a run that expects the violation, and an entry under `findings`.

- `lock_reuse`: a reclaim reads the owner, probes it and then unlinks by inode number
  (`exclusive-lock.ts:343-360`) without a descriptor on the file it read. On a file system
  that reuses numbers at once, the name may by then lead to the lock of a live process.
  `release()` pins the inode against this, and its comment says why.
- `watch_release`: with the default `holdMs` of 0, closing and reopening a key on one
  connection ends the source and begins another, whose revisions start at 1. A frame of
  the earlier open that is still on its way counts as the first answer of the new one, and
  the new source's frames are then dropped as no newer (`live/watch-client-state.ts:159`),
  while its state frame says `live`: the client shows the old answer. The comment on
  `answered` (lines 43-48) describes and excludes exactly this for a restarted hub. A frame
  does not name the open it answers. The `watch` run holds sources and shows that this
  suffices.

Eleven more were met while modelling. The model shows each, under the constants given: for
the first two those of the run named, for the others not those of a run.

- While `start()` reads what others left, a call of `sweep()` joins what has ripened at once
  (`telegram/update-intake.ts:421`; only the interval waits, line 408). A newer update of a
  chat whose grace has passed, or whose retry is due, is then claimed ahead of an older
  pending one that is read and has not joined, where the comment at line 331 says that rows
  join "in one pass, merged with `waiting`, so nothing runs ahead of the read".
  (`NothingAheadOfTheRead`, `updates`; `BacklogFirst` is claimed but for such a sweep.)
- A plan of a version that an executor does not know "waits, attempts untouched", says the
  comment at `application/notification-outbox.ts:171-173`. The attempts that `reject` passes
  on are those before this one (line 185), and `dropReason`
  (`notification-outbox-state.ts:100`) compares them with the limit as for any retryable
  failure. When the last attempt of an executor that knows the plan ended in its death, the
  loss of its lease, or a `stop()`, the next executor, if it does not know the plan, drops the
  notification with `attempt-limit`. (`UnknownPlansWait`, `outbox`.)

- `schedule()` of the outbox overwrites the handle of a pending timer
  (`notification-outbox.ts:383`). A `stop()` and a `start()` during a pass leave a timer no
  handle names; a later `stop()` does not clear it, and it claims and sends.
  (`StoppedClaimsNothing`, with one executor, a plan of one action, a queue of two and no
  fault.)
- The set `executing` of a process is filled when the reply of the acquisition arrives
  (`run-execution.ts:50`). A second lane of the same process whose acquisition conflicts in
  between takes the run for nobody's and abandons it, which the comment at
  `run-unacquired.ts:23-24` excludes. (`ExecutedRunsAreTheirs`, with both lanes in one process.)
- A run is durable before the coordinator knows of it (`runtime-submit.ts:233-269`). Without
  the lane of `coalescePending` nothing keeps two submissions in the order the store gives
  them: when the earlier one, or an urgent one, is accepted but still publishes its
  admission, the coordinator starts the other, which cannot acquire. Its ticket rejects
  with `AgentRunUnsettledError` and nothing in the process runs it until `recover()`, which
  `docs/guide/agent-runtime.md:1016` says of the error, where lines 259 and 795-797 promise
  a durable queue whose runs eventually run. The ticket
  also rejects when `recover()` requeues a run that the process has looked up and is about
  to acquire, and there the run itself is resumed by `recover()`. (`NoneLeftBehind`, which is claimed for hosts that coalesce and do not
  recover, of one that does not coalesce, or recovers.)
- `close()` clears the offers and says that nothing may be taken on afterwards
  (`runtime-control.ts:98-101`). A submission that was past the gate offers its input
  after that, and a retried attempt hands its inputs back; the run in flight takes them at
  its next boundary, and if it completes within the grace period the absorbed run's own
  ticket has been told `closed`. Nothing durable is wrong. (`OffersAreWaiting` is claimed
  until `close()`, and until `recover()`, which may abandon a run that is on offer.)
- `recover()` keeps its entry of the gate while it waits for an acquisition behind a live
  run (`runtime-recovery.ts:222`); a close without budgets waits for that entry and never
  aborts the run. (`CloseAborts`, of the host `Resuming` without its budget; with it,
  `admission_live` shows that the cycle is broken.)
- A restart never recomputes `accepting` (`kernel-restart.ts:139`). When the completion of
  the old generation settled first, the application is ready after the restart and refuses
  every operation until some resource reports its health. (`ReadinessAdmits`, `kernel`.)
- The lifecycle is `ready` before the activations ran (`kernel-start.ts`), and stays so
  while a failed activation rolls the resources back, until the rollback ends
  (`kernel-start.ts:278-291`). A restart accepted meanwhile runs beside the rollback, which
  may mark closed a resource that the restart has started again; a second restart then
  erases that record without a close and starts the next generation beside the open one.
  (`OneGeneration`, `kernel` with `EarlyRestarts`, two restarts and no operation.)
- A shutdown awaits the startup but not a restart in flight (`kernel-shutdown.ts:279`). It
  marks closed a resource whose `start()` resolves afterwards. (`NoneForgotten`, `kernel`;
  `GenerationsKnown` is the same but for the state this leaves.)
- An executor whose abandon lost its compare-and-swap
  verifies by reading the record (`run-unacquired.ts:57-106`), which says that the run was
  abandoned and not by whom. It then publishes the terminal of a run the host abandoned,
  against `docs/guide/agent-runtime.md:980-981`.

Three oddities of the update intake contradict nothing that is written: a `start()` during
a `close()` returns the promise of an earlier `start()` that will not start; a store error
at a claim lets later updates of the chat go first; and `close()` does not await a timer's
sweep in flight.

## Not modelled

- *Store*: seeding, compaction, the order of messages.
- *Executor*: prompt, stream parts, usage, branch observations.
- *Admission*: the host's own
  resume and abandon, several keys at once. Keys do not share state except the close.
- *Kernel*: `acquireWhenAccepting` (a retry of `acquire`), the snapshot's revision and
  listeners, operation totals, health values other than healthy or not, and the
  `degraded` summary.
- *Durability*: events, listing, retention of ledgers.
- *Lock*: the grace for a file that records no owner, retry delays.
- *Outbox*: the size limits of its state (`maxStateBytes`), which trim receipts.
- *Updates*: the SQL stores, which `update-store-check.ts` checks against the contract the
  memory store is modelled from.
- *Watched read*: capacities, what is watchable, admission scopes, session instances, the
  periodic reconcile, and subscribers that throw.
- *Everything else*, with the reason, in `PROJECT.json` under `components`. SQL drivers,
  providers, files, sockets and signals are somebody else's semantics; pure functions
  are within reach of unit tests.

## Plan

The order is by how much of the system's correctness a module carries.

1. *Done*: `ConversationTurns`, `AgentRunStore`, `AgentExecutor` (which implements it),
   `RuntimeAdmission`, `ApplicationKernel`, `StepDurability`, `ExclusiveLock`,
   `NotificationOutbox`, `TelegramUpdates`, `WatchedRead`, and the proofs listed above.
2. *Breadth.* `RunHistory` beside the store, `ManagedSchedule`, `RevisionSignal`. A project of this size stays reviewable with about
   a dozen runs, so each takes the place of a run that asks less.
3. *Refinement.* Done for the executors and for admission: both implement
   `AgentRunStore`, which implements `ConversationTurns`.
4. *Proof.* Done for every invariant and every action property that a run checks. What
   is left to TLC is the liveness.

The stateful cores above are a small part of the repository's lines. The rest is
declarations, adapters, rendering, build and release scripts, examples and their tests,
which keep no state between calls that a model could say more about than a unit test.

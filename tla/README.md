# A TLA+ verification project for llmperf-orchestrator

llmperf-orchestrator runs load tests against LLM Providers. Operators submit
Campaigns over HTTP; a Backend turns them into Runners, executes the requests of
each Runner (its Workers) on Ray actors under several limits at once, and keeps
everything that matters in PostgreSQL, so that a Backend may die and another may
take over. This directory holds TLA+ modules of the parts of that system where
order, failure and concurrency decide whether it is correct, TLC configurations
that check them on small instances, and TLAPS proofs for instances of any size.

Source paths below are relative to `src/src/llmperf_backend/` unless they start
with `docs/` or `src/`.

## 1. Inventory

| Component | State it keeps | Operations | Module |
|---|---|---|---|
| Runner execution and fencing: `storage/repository.py`, `runtime/scheduler.py`, `runtime/dispatch.py` | lease row; Runner, attempt, Worker and message rows; supervisors and dispatch tasks of a process | acquire, renew, release and lose the lease; recover stale Runners; start, cancel, complete and finish a Runner; reserve, send and commit a Worker | `RunnerLifecycle` |
| Request router: `runtime/request_pool.py` | queues, turns, busy slots, a condition | execute, cancel | `RequestRouter` |
| Worker dispatcher: `runtime/dispatch.py` | runtime gates (semaphores), tasks, registrations | register, submit, cancel once and twice, unregister | `WorkerDispatcher` |
| Message bus: `runtime/messages.py` | message and receipt rows, a bounded buffer, a reconciler | publish, deliver, receive, acknowledge, reconcile, close | `MessageBus`, `Mailbox` |
| Coordinator and admission: `runtime/coordinator.py`, `runtime/admission.py`, `compiler/rounds.py` | ready queues, turns, marks, permits | reconcile, claim, start, cool down, restart | `Coordinator` |
| Task instances: `storage/repository.py` | instance and node rows, checkpoint hashes | snapshot, activate, start, checkpoint, cancel a Campaign | `TaskInstance` |
| RunnerPlans and Planners: `runtime/planner.py`, `storage/repository.py` | plan rows, nodes, Runners | create, pause, resume, cancel, materialize | `Recurrence`, `RunnerPlan` |
| Runner progression: `runtime/runner.py`, `runtime/triggers.py` | pending, outstanding, results, timer, submission task | collect messages, walk over pending steps, submit, wait, stop | `RunnerProgress` |
| Campaign compiler: `compiler/tasks.py` | none (pure) | expand a workflow per coordinate and trial, derive seeds, bound the concurrency, assemble nodes | `CampaignCompiler` |
| Request compiler and guard: `compiler/requests.py`, `safety.py` | none (pure) | expand requests, count Workers and tokens, assess a workload against limits | `WorkloadAdmission` |
| Preparation and Worker input: `runtime/preparation.py`, `worker_input.py`, `src/src/llmperf/datasets/preparation.py` | caches of each request actor, phases of a Runner | expand Worker steps, calibrate, plan, render a prompt | `PromptPreparation`, phases in `ProgressViews`, outcomes in `RunnerLifecycle` |
| Artifact resolver: `artifacts/resolver.py` | memory entries and key locks per process, a directory shared by processes | resolve, download, publish by rename, fall back offline | `ArtifactCache` |
| Provider registry: `providers/registry.py`, `files.py` | profiles and generation, names of credentials, model cache | reload, Worker environment, discover | `ProviderRegistry` |
| Authentication: `api/auth.py`, trusted clients of `storage/repository.py` | active and previous key, client rows | refresh, verify, upsert, revoke | `TrustedKeys` |
| Campaign status: `_campaign_runtime`, the waiting commands of `src/src/llmperf_cli/` | none of its own; what a poll has read | four counting statements, wait, exit code | `CampaignStatus` |
| Progress documents: `api/progress.py` | none; rows and the Scheduler's handles | view of a Runner, view of a Campaign | `ProgressViews` |
| Benchmark engine: `src/src/llmperf/benchmark/throughput.py`, `src/src/llmperf/datasets/probes.py` | shared index, prepared stream, probe queue, results | request threads, probe threads and timers | `RequestThreads`, `ProbeQueue` |
| Configuration, logs, other handlers of `api/app.py` | configuration, bounded log files | validation, reads | not modelled |
| LLM clients, metrics, cache sizing | none shared | send one request, count tokens, summarize | not modelled |

How the parts interact:

```
 API ──rows──▶ PostgreSQL ◀──plans── Planner(s)            RunnerPlan, Recurrence
                  ▲   │ snapshot
      activate,   │   ▼
      start  ── Coordinator ──claim──▶ Scheduler._execute   Coordinator, TaskInstance
                                          │ run()            RunnerLifecycle
                                          ▼
                                     RunnerRuntime ◀──messages── MessageBus
                                          │ submit                RunnerProgress
                                          ▼
                                   WorkerDispatcher ──▶ RequestRouter ──▶ request actors
```

What is hard in this code, and therefore what the properties are about:

* **crashes and takeovers** between any two transactions of a Worker: reserve,
  send, commit, publish. A request must not be sent twice, and the books must
  agree with what was sent, although nobody can know after a crash;
* **stale owners** that still hold results when another Backend has the lease;
* **decisions from old reads**: the coordinator activates nodes and queues rounds
  from a snapshot of several statements, the reconciler applies messages that may
  have been acknowledged since, a cancellation acts on the Runners it saw first;
* **lost wakeups and lost permits** on the many ways out of an `await`;
* **bounds** shared by many: slots of actors, permits of nested runtimes,
  admission, a buffer that drops messages, a batch size used twice;
* **time**: misfires, clock changes, delays that count from the last of several
  dependencies, cooldowns, a deadline;
* **fairness**: turns between Runners in the router and between Campaigns in the
  coordinator;
* **caches that outlive what they were made from**: an artifact directory, a model
  list, a credential, the plans of prompts in an actor;
* **one question answered on two paths**: the guard's estimate and what is compiled
  and fired, a Campaign's progress and that of its Runners, a status made of counts
  and the rows it stands for;
* **threads inside a Worker** that share an index, a stream, a queue and timers.

`PROJECT.json` lists these hazards one by one, each at its line and with the
properties that would catch it.

## 2. Modules

One action is one transaction of the repository or what a coroutine does between
two awaits. A definition keeps the name of the code where it can. A comment that
begins with "Variant:" marks the definition of a plausible mistake; variants are not
part of any specification and are used to see that a property can fail.

### RunnerLifecycle

The durable rows (`lease`, `status`, `cancelRequested`, `attempt`, `worker`,
`completed`) and, per Backend process, the phase of the Scheduler, its lease
generation, the Runners still to be recovered, the supervisor of each Runner (`pc`)
and the dispatch task of each Worker (`task`). `sends` is a history variable: how often
the Provider saw the request of a Worker. Ordinary fenced transactions hold a shared
lock on the lease row and a takeover needs that row exclusively, so the check of
the fence and the writes are one step. Faults: a call that fails, a reply that is lost
after the commit, a crash, a lease that expires under a live process, a
cancellation that hits a supervisor inside one of its except branches. A fault may
leave a Runner running that no supervisor has (`Orphaned`); the next recovery ends it.

### RequestRouter

The calls of `execute` as coroutines that are asleep, awake or executing, the queue
of each Runner, the order of turns and the slots. A woken coroutine runs later and in
any order, which is what makes `notify_all` and the turn order interesting.

### WorkerDispatcher

Semaphores with their lines of waiters (asyncio's are fair and are modelled from
how the code uses them), the gates of a runtime as `<<runtime, epoch>>` because a
gate is dropped with its last Runner and created anew, and each request's physical
execution. A task whose wait for a physical execution is interrupted by a second
cancellation, after `cancel_grace_seconds`, ends as "forced".

### MessageBus and Mailbox

Stored messages and receipts, the buffer, the reconciler's pass (start, read,
apply) and the consumer (look, wait, receive, apply, acknowledge). `Mailbox` is the
abstract promise: a message is handled only after it was stored, and every stored
message is handled unless the mailbox closes. `MessageBus` implements it
(`Delivery`), with `closed` mapped to "closed or run() has ended".

### Coordinator

Passes of `reconcile` in stages, the ready queues and turns, the mark `admitted`,
the only admission loop, the permits of `RunnerAdmission` and who holds them,
restarts and failing transactions. A pass carries the set of Runners it has read, and
`Turns` is the loop of `_enqueue_runners`: what it has made of the queue after each
row. Rounds come from `compiler/rounds.py` and concern the Runners submitted with
them; a Campaign may have rounds and tasks, and a Runner of a task has round 0.

### TaskInstance

One instance: its nodes, their Runners, the coordinator's snapshot, the checkpoint
with the prompt hash of each payload, and `request_cancel_campaign` in its two
stages. Time is kept as ages that stop growing at `MaxDelay`.

### Recurrence and RunnerPlan

`Recurrence` holds `next_fire_details` and `preview_fires` as operators; a zone is its
offset at every tick, so gaps, repeated hours and a repeated day are just zones.
`RunnerPlan` has the plan rows, the Planners' transactions in two steps (the rows
locked and read, the writes) and the cancellation of the Campaign in two steps.
The loop over misfires and that of `preview_fires` are recursive functions from the turn
of the loop to its state, which is the form the proofs need. `databaseNow` is the time
of the transaction, and a plan's search for occurrences ends at `Horizon`.

### RunnerProgress

The loop of `RunnerRuntime.run`: `Collect` applies messages and forgets ended tasks,
`Evaluate` walks over the pending steps in their order, gives up the admission while
it only waits for a time, sets the timer and decides whether to return, time out, fail
or wait. Workers, bus, timer and clock run beside it. `mode` is how the Runner was
configured: its window and its cooldown, one of `Modes`. `Walk` is what the loop over
`Order` has made of the Runner after each step. Ages stop growing at `MaxAge`, at which
every delay, due time and cooldown has passed.

### CampaignCompiler and WorkloadAdmission

`CampaignCompiler` holds the compiler as operators: `Expand` turns the tree of a
workflow into rows with dependencies, delays and seeds, a composite node being the
sequence of its children expanded one after the other (`ExpandSerial`) or side by side
(`ExpandFork`); `WeightedPeak` is the code's bound on concurrency. Hashes are the tuples
they are computed from. `WorkloadAdmission` submits a workload, assesses it
(`Assess`, `Blocked`), compiles, assembles and fires its plan with the operators of
`Recurrence`; the reference it is compared with is written on the tree of the
workflow and on the expanded requests, not on the compiler's operators.

### ArtifactCache

Threads of one or two processes in `_resolve_sync`, step by step: lookup, key lock,
inspection of memory, resolved directories and snapshots, load, download file by
file, save, rename. The content of an artifact is its commit. The Hub moves `main`;
processes crash, downloads fail, directories vanish. Datasets and tokenizers are two
paths with their own rules for the revision that is recorded.

### ProviderRegistry

The document, the loaded profiles with their generation, the names of credentials
ever managed, the model cache, and callers whose fetch may outlive reloads.

### TrustedKeys

The bootstrap file with the verifier's reload interval and grace, and the client
rows with upsert and revoke as transactions that read, wait for a lock and write. What
an upsert writes of a row are the columns that differ from its first read; a row that was
not there is read once more under the lock, and is inserted or, if another transaction
committed it meanwhile, overwritten (`WrittenRow`).

### CampaignStatus

The rows of a Campaign with the transactions of the modules above, reduced to what
counts, and a client whose poll executes four statements with the rows changing in
between. Runners and a plan may be added to a Campaign at any time, also when it is over
(`AddRunners`, `AddPlan`; `api/app.py:765-796`, `1023-1054`, `1079-1113`). `Status` and
`Outcome` are `_campaign_runtime`. The Campaign has at most one plan and one task instance.

### ProbeQueue and RequestThreads

The threads of a Worker process. `ProbeQueue` has `DependentPlanQueue` with its
lock-protected counters and the Timers that put a family back after its delay.
`RequestThreads` has `launch_request` with the prepared list or stream. The stream is
consumed in the order of the indexes, so a chunk that waits is its first index and its
count, and the prepared requests are the next index and the end of their range.
`collected` is the list of results in the order they were recorded, its length the counter
that is compared with the number of requests.

### PromptPreparation

`worker_steps` and the recipe of each Worker as operators, the caches of an actor
(calibrations, plans, `prefix_bytes`) and actors that restart. `Evictions` is where the
eviction loop stops: the number of oldest plans after which the rest fits, by the
running `prefix_bytes`, or is one. That the running number is the size of the cached
plans is part of the property. `Alone` is the prompt an actor with empty caches would make.
A prompt put together to a size is the record of what it was made from. In sample mode a
Worker draws one intact record with a seed of its own (`DrawRecord`, any function of seed,
dataset and size), so two Workers may draw the same one. Each request has its own context
where parallel invocations share a Runner: the seed of its payload and its text, or none.

### ProgressViews

Runner and Worker rows, the Scheduler's handles with their phase and admission, and
the two ways to a Campaign's numbers: counted by the database and corrected for
resident Runners, or summed over the views of its Runners. `TotalOf` is SQL's `sum`
over a set of rows.

### ControlPlane and MCControlPlane

The services of the last sections share no state with one another, so they are
explored side by side: `part` says which one a behaviour belongs to, and the variables
of the others stay `Off`. `ControlPlane` holds the services from `ArtifactCache` on as
instances, their assumptions, `ServicesSpec` and their properties, each of which names
its part. `MCControlPlane` adds the workload of `WorkloadAdmission` as one more part;
its compiler is recursive, and no theorem may be stated in a module that reaches it.

## 3. Runs

All bounds are constants of the configurations. Deadlock is checked where the part
never stops (router); the others end when their work is done.

| Run | Instance | What it shows |
|---|---|---|
| `runner_lifecycle` | 2 Backends, 1 Runner, 2 Workers, 3 leases, 1 fault | a request is sent at most once, is booked as sent, committed outputs stay; a Backend serves only when the past is settled and a stale owner commits nothing. Two Workers are enough for one to be settled while another is in flight; any number of Runners is covered by the proofs |
| `runner_liveness` | 2 Backends, 1 Runner, 1 Worker, 3 leases, 1 fault | supervisors end; a started Runner reaches a terminal status unless the fault orphans it, and once no lease is live it does in any case, while another lease is left to take |
| `router` | 3 Runners, one with a backlog of 3, 2 actors of 2 slots, guard of 3, callers for ever | turns, slots and wakeups are consistent; nobody is overtaken twice; every waiting call ends |
| `dispatcher` | 3 Runners, nested runtimes of 1 and 2, 2 slots, forced ends included | permits are conserved, ceilings hold for physical executions until a cancellation is forced, no submission waits for ever |
| `dispatcher_forced` | the same with 4 Workers | **violation**, see section 6 |
| `mailbox` | 3 messages, buffer of 2, batches of 2 | no lost wakeup, no acknowledged message comes back, at most one redelivery; the bus implements `Mailbox`, liveness included |
| `coordinator` | 2 rounds and a task, 2 permits, ready queue of 1, 1 fault | marks, turns and permits agree with where Runners are; rounds are barriers; queued Runners are served |
| `task_instance` | 4 nodes: a replay, a delayed one, a batch join | order, completion, failure and cancellation of an instance; it ends with all its Runners |
| `plan` | a daily plan across a gap, grace 2, skip, 2 Planners, 1 rollback, 13 ticks | rows, nodes and Runners agree; emitted as previewed, in time, one at a time, only while active; active plans end |
| `plan_cancel` | as `plan` | **violation**, see section 6 |
| `progress` | 4 steps with a chain, a join, delays and a due time, window 2 or serial with a cooldown of 2, 1 redelivery | nothing starts early, no stall, the cooldown is kept, every step accounted for, a run ends without its deadline |
| `control_plane` | the services one by one, see below | what each service promises, thirteen properties |

`control_plane` in detail:

| Property | Instance | What it shows |
|---|---|---|
| `CompiledAsAuthored` | every tree of up to two composite nodes over two leaves, counts 0 to 4, loops with 1 to 4 lanes, 2 coordinates, 2 trials | the graph has the order of the tree, also around branches that expand to nothing; seeds repeat and differ as the recipe says |
| `EstimateCovers` | the same, with Runners, plans and step graphs | the guard's Runners, requests and tokens are what is compiled, fired and sent; its concurrency is not exceeded by any set of rows that may overlap and all Runners submitted and fired; at most the first fire of a calendar plan without `starts_at` is missing |
| `PlanFiresAreExpected` | interval, daily and weekly recurrences, immediate or not, a zone with a gap, a repeated hour and a step back over midnight | fires are exactly the expected instants, in order |
| `FrozenIsExecuted`, `ResolvesEnd` | 2 threads in 1 or 2 processes, one of them perhaps offline, 2 commits, 2 resolutions, 1 fault | a frozen tokenizer is what is executed, a directory holds the commit that names it; every resolution ends |
| `ProfilesAreKeptApart` | 2 Providers, 2 callers, 3 documents (one refused), 2 reloads | a list comes from the profile it was asked of; no Worker sees another's credential |
| `KeysExpireAsSaid` | 3 file keys and an unreadable file, grace 3, interval 2, 4 ticks, 3 writes, 2 administrators, 2 client keys | a replaced key lives for just its grace, also when another replacement or an unreadable file comes within it; a committed revocation stands |
| `AnswerIsTrue`, `WaitEnds` | 2 Runners of a direct submission, added later, of a plan or of a task, cancelled and failing anywhere | the answer to a waiting client is true as long as nothing is added after the first statement of its poll, and the Runners it read are as it says in any case; a client of a Campaign that is over, and to which nothing is added, is answered |
| `FamiliesInOrder` | 3 families with 2 repeats, 2 threads, Timers, a deadline, a broken thread | a family runs in order and nothing is given up in silence |
| `ResultsAreComplete` | 5 requests in chunks of 2, 2 threads, lost chunks and failing requests | a benchmark that reports has each request once in its list, with its own prompt |
| `PromptsAreReproducible` | up to 3 benchmarks in 2 actors, caches of 1 calibration and 2 plans, 1 restart; both modes, a dataset of 2 records of a size, payloads, shared Runners, probes | a prompt is that of an empty actor; Workers that are meant to share a text do, the others are made from another seed |
| `CampaignViewIsTheSum` | 2 Runners, 3 Workers, every order of rows, handles, samples and permits | the Campaign's numbers are the sum of its Runners' |

Several invariants are conjunctions of named parts, one property per question:
`BooksAgree`, `RouterInvariant`, `PermitInvariant`, `BufferConsistent`,
`AdmissionInvariant`, `LedgerInvariant`, `LoopInvariant`, `CompletionIsSound` and most
of those of `control_plane`. The type invariants are parts of them or are proved.

Why small instances say something: every property is about at most two Runners,
Workers, Planners, messages or nodes at a time, the instances have one more of each
than that where the run stays feasible, and each has room for the case the property
is about (a buffer that overflows, a queue smaller than the backlog, a second
takeover, a fault during a recovery). Symmetry is used only for
Backends, Planners, Runners and Workers that are interchangeable, and never in a
run with a liveness property.

### Fairness

* Tasks of a live event loop run, so what a coroutine does next is weakly fair.
  A semaphore and a row lock serve their waiters in order: waiting for one is
  strongly fair (`Coordinator`, `TaskInstance`).
* Provider calls end: the client has a timeout. `run()` has one as well.
* A dead Backend is started again (`Restart=always` in
  `deploy/systemd/llmperf-backend.service.template`), and its lease is not renewed.
* The reconciler and the Planner poll at an interval, whatever failed before; a
  transaction that was begun ends. For the Planner's, `Evaluate`'s and `Recheck`'s large
  actions this is stated as `[]<>` of having ended, which is what weak fairness of
  the action amounts to there and spares TLC its `ENABLED`.
* A thread that resolves an artifact goes on until its call returns; a client that
  waits polls again (`control_plane`).
* No fairness is assumed of users, faults, crashes, shutdowns, pauses or the
  deadline of a Runner.

## 4. Proofs

The theorems hold for every value of the constants that satisfies the named
assumptions of the modules; the bounds (`MaxGeneration`, `MaxFaults`, `MaxReloads` and
so on) only restrict behaviours, and no proof uses that they are small. `PROJECT.json`
lists the theorems; the argument behind each is this.

**`RunnerLifecycleProofs`**: `TypeOK` and every safety property of `RunnerLifecycle`:
`SentAtMostOnce`, `BooksAlwaysAgree` (from `SendsAccounted`, `SuccessesWereSent`,
`SuccessesHaveOutput` and `FinishedIsSettled`), `RecoveryIsComplete`, `CommitsAreFinal`,
`CancellationWins`. The properties are not inductive; four invariants carry them, each
using the ones before it:

* `SendLedger`: a Worker that is absent, created or cancelled was never sent and has no
  task; at most one process has a task of it; a queued task was not sent yet, one with
  a response was. Without the uniqueness of tasks two processes could send.
* `Fencing`: supervisors exist only in started processes; what runs was started under
  the current lease or is still in the recovery's list. This is what makes a takeover
  between two recoveries harmless.
* `Settlement`: nothing of a Runner exists before it starts, nothing is open after it.
* `Outcome`: a supervisor about to record a success has seen a committed one.

**`RequestRouterProofs`**: `RouterIsFair`, that is all of `RouterInvariant`. It becomes
inductive with `ServedStandBehind`: a Runner served while another waits stands behind
it in the turns, so it cannot be served a second time first. Queues and turns are lines
(sequences without duplicates); the lemmas say what joining, leaving and rotating do to
a line and to who stands behind whom. The wakeup part rests on `Finds`: whoever looks
at the queues finds that the head of the turns has been told, or is the head himself.

**`WorkerDispatcherProofs`**: `PermitsAreConserved`, that is all of `PermitInvariant`.
Besides types and conservation the invariant says that gates are numbered by their
epochs, that a registered Runner holds the current gates of its runtimes, that Workers
in progress belong to a registered Runner, and that the lines at the semaphores are
exactly the submissions that wait there. The ceilings follow by counting: whoever
executes and was not forced holds one permit of each gate. The Runners and Workers are
finite, and the slot of the Backend is no gate.

**`MessageBus`** (its proofs are the last section of `ControlPlaneProofs`):
`BufferStaysConsistent`, part by part, `RedeliveredAtMostOnce` and `ImplementsMailbox`,
the safety part of `Mailbox`. `RecoveredIsPending` needs
`ReadsAreCurrent`: as long as the revision a pass noted is current, what it read is
unacknowledged or its acknowledgement has not reached the buffer.
`AtMostOneRedelivery` needs `HandedOverOnce`: what waits in the buffer was handed over
at most once, and then only if its own delivery has come since.

**`CoordinatorProofs`**: `AdmissionStaysConsistent`, that is all of
`AdmissionInvariant`, and `StatusesMove`. The invariant has four parts:

* `ReadyInvariant`: queues, turns and marks agree (`Consistent`). A pass changes the
  queue row by row, so this is shown of every intermediate queue of `Turns`, with the
  rows still to come not yet queued.
* `RowsInvariant`: the Runners of a submitted Campaign all have rows; an earlier round
  that is not over is therefore seen by whoever reads the rows.
* `RoundsInvariant`: the rounds before a Runner are over when it is marked or running,
  and for each Runner a pass is about to queue. A pass acts on old reads, but a Runner
  that has ended stays so, hence what was clear when it was read is clear for ever.
* `PermitsInvariant`: the free permits and the active ones add up.

**`TaskInstanceProofs`**: `TypeOK` and every safety property of `TaskInstance`, for any
graph with at least one node. The argument rests on stability: `Recorded` (a result is
recorded only when its Runner ends) means that results, their prompts and ages never go
back, so a node that a snapshot calls ready is ready for ever (`SnapshotIsRight`) and
`activate_node` need not look at dependencies again. `PromptsAgree` strengthens the
property about prompts: as long as nothing went wrong, every succeeded request carries
the hash stored for its payload.

**`RunnerProgressProofs`**: `LoopStaysRight`, that is all of `LoopInvariant`, and
`CooldownIsKept`, for any workflow whose steps come after their dependencies in `Order`.
`Placed` says of a state of the walk that every step is in one place, that what is
outstanding was started in time, within the window and after the cooldown, and that a
cancelled step has a dependency that failed or was cancelled. It is shown of every
intermediate state of `Walk`. `Heard` says that messages tell of what has happened,
which is why nothing starts early although the Runner only knows what it has heard.
A Runner never stalls because the first pending step of `Order` has no pending
dependency: its dependencies are outstanding, so there is something to wait for, or
have results, so the walk submits it, cancels it or sets the timer.

**`ControlPlaneProofs`**: eight theorems about `ServicesSpec`, each with the inductive
invariant of its service.

| Theorem | Invariant | Argument |
|---|---|---|
| `KeysAlwaysExpire` | `FileInvariant`, `ClientInvariant` | replacements are noticed in the order of the files, so the previous key is the one noticed last; a key that the last write did not name is off or ends with the grace of that write |
| `ProfilesStayApart` | `RegistryInvariant` | the history ends with the loaded profiles and the names of every generation stay known; cache entries and fetches match the profile of their generation, which no reload changes |
| `FrozenIsAlwaysExecuted` | `CacheInvariant` | a snapshot holds what its name says; memory, directories and the jobs of threads are faithful to their revision at every step of a resolution, `main` and unfrozen datasets aside |
| `FamiliesStayInOrder` | `ProbeInvariant` | a family is in one place (ready, a timer, a thread), its results are the requests before that place, and the counter of the queue counts threads and timers |
| `AnswersAreTrue` | `StatusInvariant` | what may not change back is stable, so tables read one after the other are those of the present state wherever the answer depends on them, as long as nothing was added since the first; Runners at their end and a task instance that is over stay so whatever is added |
| `ResultsStayComplete` | `ThreadsInvariant` | without a fault each index taken is at one place of the list or with one thread, and not both (`OneOfEach`), so the list is full only when every index is in it; the stream hands out prompts in the order of the indexes |
| `PromptsStayReproducible` | `PromptsInvariant` | a cache entry was made for a recipe with its key, and the key names all that the entry is made of, so whichever recipe left it there it is what this one would make; an entry just used is the last one, which no eviction takes |
| `CampaignsSumUp` | `ViewsInvariant` | the rows of a Runner are among its Workers, no more than its handle has created, submitted ones among them; the corrections of resident Runners and the rows add up, Runner by Runner |

The assumptions of `ControlPlane` are those the code enforces or that keep the values
apart that stand for "none": a key file to start with, at least one thread, a positive
chunk and buffer, finite sets of Runners, families and threads; caches for at least one
entry, requests that name an input of their benchmark, seeds of datasets and payloads that
are not derived ones, and for Runners that are shared one context with a payload for each
request (`PromptsAssumption`); counts that are natural numbers and a `Null` that
is no row and no handle (`ViewsAssumption`).

The numbers of `CampaignsSumUp` and `prefix_bytes` are sums over finite sets. The
library defines a sum by a fold whose recursion the provers cannot unfold by
themselves, and has no theorem about it. The section "Sums over finite sets" proves what
is needed from the definition alone: such a function on the subsets exists and is the
only one (`SumExists`, `SumsAgree`), so a sum may be taken element by element in any
order (`SumStep`, `SumAdd`), split (`SumUnion`), added (`SumPlus`), renamed
(`SumRenamed`) and compared (`SumMono`). For sequences that gives the size of a
concatenation, of a cache whose entry moved to the end, and of what an eviction leaves.
Which Workers get the same prompt is then a matter of the recipes alone
(`WorkersDiffer`). Input, seed and place make the prompt (`SameBase`), so Workers that
share them send one text. The other direction is about the seeds, because different seeds
may draw the same record: seeds of inputs have one part or three, never two, so a place
can be told from a seed and Workers that differ in either have different seeds.

**`RunnerPlanProofs`**: `PlansKeepTheirLedger`, `PlansFireAsPreviewed` and
`OnlyActivePlansAreEmitted`. The invariant is `PlanInvariant`. `Locks` says what an open transaction
of a Planner knows: the rows it locked are still as it read them, active and due, and no
other Planner's. `History` says of one plan that row, nodes and Runners agree and that
every due time, that of the next fire included, is the one previewed.

* The preview is a chain: the first fire, then each the fire after the one before, up to
  the limit or where the next fire is past the end (`PreviewOf`). A fire is later than
  the one it follows, for any zone and any recurrence (`FireAfterOf`), so an occurrence
  that is skipped moves the cursor by one and the next fire by one item of the preview
  (`AdvanceOf`). This is shown of every row the loop over misfires passes through
  (`SkipOf`, `MisfiresOf`).
* A transaction writes at most one node for each plan it holds and emits all of them: no
  other node is pending, and its batch is no larger than the limit of the second
  `SELECT` (`WithNodesOf`, `PendingOf`). Hence nothing pending is left, and a skipping
  plan gets a Runner only when none was active.
* `OnlyActivePlansAreEmitted` follows from `Locks`: a Planner writes only rows that are
  still active.

Where the code loops over a sequence, the module has a recursive function from positions
to states. The prover has no induction over data, so "every state of the walk satisfies
J" is shown by contradiction at the least position that does not (`LeastNumber`, from the
well-foundedness of the natural numbers): it is not the first one, and the step before it
keeps J.

Only model-checked:

* all liveness properties and the fairness part of `Delivery`; TLAPS proves no temporal
  formulas with fairness or `ENABLED`;
* `CompiledAsAuthored` and `EstimateCovers`: the compiler and the workflow it is
  compared with are recursive over trees;
* `PlanFiresAreExpected`, which is stated in the same module. Its interval half is
  proved as a lemma (`IntervalFireOf`: the grid point taken is the first at or after the
  bound). The calendar half is not true of every zone the theorems allow (one could go
  back by more than a day), so it is checked for the zones of the run.

Every other invariant and every action property of the runs is a theorem.

## 5. Abstractions

* Payloads, prompts, names and error texts are model values or absent. A response
  is "ok" or "failed"; a prompt is its hash.
* The bus's generation counter is represented by what `receive` compares.
* `RequestRouter.forget`, `TimerSource.periodic` and dynamic expansion in
  `RunnerRuntime` have no caller or no implementation and are left out.
* Durations are whole ticks; rounding of fractional seconds is not modelled, nor is a
  plan whose recurrence finds no occurrence within its search horizon.
* The memory and health checks of the admission loop only delay it and are left out.
* Log text, events, projections and exports are left out.
* SHA-256 is injective: a seed or a key made by hashing is the tuple of its material.
* A dataset has a record of each size asked for; otherwise preparation raises
  (`src/src/llmperf/datasets/prompts.py:852-858`) and the Worker fails.
* A group of parallel invocations has a context for each request, all of payloads. The
  compiler makes no such groups at present; `configuration/models.py:408-428` accepts them.
* Views of `ProgressViews` are taken of one state; the code reads the rows and the
  Scheduler one after the other, see section 6.
* The key file is replaced by renaming a complete one over it; a file written in
  place may be read half written, which the verifier treats as any other content.
* The waits of the probe queue end by themselves after a quarter of a second, so
  its notifications are not modelled.

### Not modelled

* `configuration/`: validation of input. Its rules are the assumptions on constants
  and the inputs the modules enumerate.
* `storage/logs.py` and the log endpoints: bounded files nothing else depends on.
* LLM clients, tokenization, statistics over samples, correctness checks and cache
  sizing: network, files and arithmetic without shared state.
* Read-only handlers, exports, tables and paging of API and CLI.
* Schema creation and migration.

## 6. Findings

1. **Permits of a forced cancellation** (`dispatcher_forced`). `docs/runtime.md:20`
   says that cancellation retains permits until physical execution finishes, and a
   comment in `runtime/dispatch.py:140` says the same. A second cancellation, after
   `cancel_grace_seconds`, interrupts the shielded wait, the task's done callback
   releases its permits, and another Worker of the runtime starts while the first
   request still executes.
2. **A Runner that escapes the cancellation of its Campaign** (`plan_cancel`).
   `request_cancel_campaign` locks the Runners before the plans. A Planner that
   holds a plan commits a new queued Runner in between; the plan is cancelled, the
   Runner is not, and `start_selected` starts it. `docs/scheduling.md:54` says that the
   cancellation applies to the Campaign's plans, pending nodes and queued or running
   Runners. For Runners of task instances the same window is harmless, because
   `start_selected` discards a Runner whose instance is over
   (`TaskInstance!OverIsOver`).

What follows was met while modelling. No run states these sentences; where a property
had to leave a case out, the property says so.

* `_plan_occurrences` (`compiler/safety.py:154-180`) takes a calendar plan without
  `starts_at` for one that waits for its first wall time. Such a plan fires at once and
  then at its wall times, so with `ends_at` the guard budgets one occurrence too few, and
  with no wall time before `ends_at` it counts neither Runners nor concurrency for it.
  `EstimateIsExact` and `ConcurrencyIsCovered` are about what is fired and let just that
  one fire be missing (`Missed`).
* `DatasetCache` resolves the symbolic link of a downloaded file before it looks for
  the commit in the path (`artifacts/resolver.py:439-444`, `490-503`), so the recorded
  revision of a dataset is the requested one, "main" included, where `docs/usage.md:23`
  and `:343` speak of an immutable one. `FrozenIsExecuted` is therefore stated for
  tokenizers and for datasets asked for by their commit. An offline process may also
  record one commit for the only snapshot it has, of another.
* `get_campaign_status` executes its four statements in READ COMMITTED. A Runner or a
  plan created between them can make a Campaign look completed, and a waiting client
  then stops early. The API also adds Runners and plans to a Campaign that is over, after
  which an earlier answer no longer describes it. `AnswerIsTrue` says what holds of an
  answer in these cases and what only without them. In the same way the progress documents may for a moment count a Runner in two phases or
  show a negative correction.
* A database fault can leave a Runner running under a Backend that goes on serving: the
  reply to `start_selected` is lost, or `finish_runner` of the last branch fails. The log
  then says that "recovery will mark it indeterminate" (`runtime/scheduler.py:629-632`),
  which is right only once that Backend has lost its lease or ended: until then nothing
  looks for such a Runner (`Orphaned`).
* In sample mode `docs/tasks.md:206-208` promises that the planned requests select
  distinct records and share each `dataset_repeat_count` times, in a shuffled order, and
  `docs/usage.md:356-361` that records are not reused before the corpus is exhausted when
  they are concatenated. Workers prepare their inputs one by one
  (`runtime/worker_input.py:314-338`), each with a corpus of its own, so two of them may
  get one record long before that; repeats follow each other in the order of the requests.
* A Campaign whose task instance was cancelled between two nodes, with every Runner
  so far succeeded, reports `completed` and `succeeded`.
* `list_runners` orders by `created_at` without a tie-breaker, so pages of Runners
  created in one transaction may repeat or miss rows.
* With `dataset_repeat_count` above 1, `worker_steps` divides the index of a probe
  family by it, so families share a base prompt; the benchmark engine itself uses 1
  for probes.
* Two superusers who write one client at once may lose one of the two writes; what
  is committed last stands (`ClientKeysFollowTheLastWrite`).
* A chunk of prepared requests that is lost shifts the prompts of the other threads
  against their indexes until they stop; the benchmark fails, so nothing is reported.

## 7. Plan

Done: the modules of section 2 and the proofs of section 4.

What a next version would add:

1. Abstract specifications: a ledger of requests (unsent, sent, settled) that
   `RunnerLifecycle` implements; a fair queue that `RequestRouter` implements.
2. Compositions: `RunnerProgress` with `MessageBus` in place of its inbox, and a
   reconciler shared by several mailboxes; `Coordinator` with `TaskInstance`.
3. The order of a compiled graph for trees of bounded depth without `RECURSIVE`, so that
   a part of `CompiledAsAuthored` could be proved.

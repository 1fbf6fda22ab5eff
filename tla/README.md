# gpu-tenant-orchestrator: formal specification

This directory specifies and verifies the core logic of the orchestrator in
`src/src`: where GPU capacity is reserved, how allocation events become Temporal
workflows, and what a tenant can rely on when calls interleave, time out, are
repeated, or a worker dies. TLC checks the modules on small instances; TLAPS
proves, for every value of the constants, type correctness, every safety
property that a passing run checks, and a chain of refinements: Postgres
transactions implement the atomic store where reserves of one reservation do not
overlap, and the weaker overlapped store where they do; scheduler and workflows
implement the same two; workflows implement the life of an allocation that a
tenant may rely on; and dispatchers and API implement the delivery of events
between them.

## 1. Inventory

An allocation goes through five parts: the API publishes an event to Kafka; a
dispatcher thread in a worker takes it and starts workflow
`gpu-alloc-{allocation_id}`; the workflow plans (scheduler and store), deploys
(Helm), and activates, or releases the reservation. The scheduler and the store run in
the worker; the Postgres tables are shared by all workers.

| Component | Source (`src/src/...`) | State | Operations | Interacts with |
| --- | --- | --- | --- | --- |
| Pool catalogue | `placement/scheduler.py:53-104, 579-598` | immutable list of pools | `load_gpu_pools`, `latency_to` | read by the scheduler |
| Profile catalogue | `shared/gpu_profiles.py` | immutable map tier -> profile | `load_gpu_profiles`, `get` | API, activities, metrics |
| Placement policy | `temporal/activities.py:64-149`, `scheduler.py:533-562` | none | build a request, filter pools, rank pools | a placement attempt |
| Reservation store, memory | `scheduler.py:162-243` | dict under one lock; lost with the process | `get`, `reserve`, `mark_active`, `release`, `reserved_gpus_by_pool` | scheduler |
| Reservation store, Postgres | `scheduler.py:246-480` | tables `gpu_reservations`, `gpu_pool_locks` | the same, as transactions | shared by the workers |
| Scheduler | `scheduler.py:483-576` | the locals of a running call | `reserve`, `mark_active`, `release` | store |
| Workflow and activities | `temporal/workflows.py`, `temporal/activities.py` | Temporal's history of a run | plan, Helm, activate, release | Temporal, scheduler, Helm |
| Kafka dispatcher | `temporal/worker.py:343-584` | consumer position, committed offset, DLQ producer | `poll_once` and its parts | Kafka, Temporal |
| Worker health and metrics | `worker.py:82-340` | counters under one lock | `record_*`, `snapshot` | dispatcher, HTTP probes |
| API | `api/main.py` | shared Kafka producer, counters | `allocate_gpu`, `get_allocation_status` | Kafka, Temporal |
| Configuration | `shared/config.py` | constants | parse and validate | all |
| Tenant Helm chart, local stack | `helm/`, `deploy/`, `scripts/` (in `src/`) | none | none | Helm, Kubernetes |

### What is hard, and what makes each part correct

- **Store.** Two workers check and insert in one pool; a retry meets its own
  predecessor; status updates look at no status. Correct when the checked rows
  fit their pool, when a held reservation never moves (in Postgres: is written over
  only by a reserve that found no row), and when every `reserve` ends although it
  takes a row lock, a pool lock and a key in turn.
- **Scheduler.** The snapshot of reserved GPUs is stale when `reserve` is
  called. Correct when a fallback or a pending answer is justified by pools that really
  were full while the attempt ran, when an allocation is placed only where its own event
  allows, and when the answer agrees with the table until it is released or an
  overlapping attempt answers.
- **Workflow.** Attempts fail, lose answers, or outlive their timeouts;
  cancellation arrives at any activity; a worker restart empties the memory
  store; a late plan attempt writes over the row of a running allocation; one Helm
  release per customer. Correct when ACTIVE means reserved and served, when what runs
  is reserved, and when a cancelled run holds nothing, with the exceptions that
  section 3 lists and the properties name.
- **Dispatcher.** The thread, the event loop, the group and Temporal move
  independently; a timeout races a late start; DLQ delivery and commits fail
  silently. Correct when no commit skips an event and every event is handled.
- **API.** One producer is shared by all requests, so `flush` mixes
  their messages and their delivery reports; a thread may find it missing while
  another one makes it; the status look-up asks Temporal twice while runs close
  and start. Correct when 202 means that the request's own event is in the topic,
  when every request is answered, and when a status is one that the workflow had
  during the look-up. That a published event is handled in the end is the
  dispatcher's part.

## 2. Modules

| Module | Models | State |
| --- | --- | --- |
| `GpuPools` | pool records, their validity, `latency_to` | constants only |
| `Placement` | event -> request, candidate filter, ranking, `reservation_id_for` (joined by the constant `Hyphenated`, which need not be one to one); `WithinPolicy` is the reference definition of the filter, stated over the event | constants only |
| `ReservationStore` | the store as its callers see it, twice: `StoreSpec`, one atomic action per call (exactly the memory store, which holds its lock for the whole of each method), and `OverlappedStoreSpec`, which adds `Overwrite`, what a Postgres reserve that found no row does to a row made since | `reservations`, history `reactivated` |
| `PlacementScheduler` | `GpuPlacementScheduler.reserve` as separate store calls, several attempts at once, those of one reservation included | `planners`, history `seenFull`, `disowned` |
| `PostgresStore` | `reserve` one SQL statement at a time, with row, pool and key locks, deadlock abort, rollback, death of the connection | `tx` + the table |
| `AllocationWorkflow` | `GPUAllocationWorkflow.run` with its activities over the store; Temporal's retries, lost answers and late attempts; Helm as an effect on the customer's release | `run`, `placement`, `backoff`, `late`, `cluster`, `unseen`, `blind`, history |
| `AllocationLife` | what a tenant may rely on about an allocation: the order of its phases, and when GPUs are granted and given back (abstract; with its two theorems) | `phase`, `grant` |
| `KafkaDispatcher` | `poll_once` step by step for several workers of one consumer group, event-loop coroutines, DLQ producer, commits | `topic`, `pc`, `position`, `owner`, `committed`, ... |
| `EventDelivery` | what the worker side as a whole promises to publishers (abstract; with its theorem) | `topic`, `committed`, `started`, `deadLettered`, `workflow` |
| `AllocationApi` | `allocate_gpu` and `get_allocation_status` one step at a time, the shared producer, the broker, restarts, over `EventDelivery` | `pc`, `producer`, `via`, `message`, `report`, `lookUp` + the delivery |
| `ReservationStoreProofs`, `PostgresStoreProofs`, `PlacementSchedulerProofs`, `AllocationWorkflowProofs`, `KafkaDispatcherProofs`, `AllocationApiProofs` | theorems | |
| `MC*` | constants for TLC | |

`PlacementScheduler` EXTENDS `Placement` and `ReservationStore`;
`AllocationWorkflow` and `PostgresStore` EXTEND `ReservationStore`. All share
the variable `reservations`, so the refinement of `ReservationStore` by
`PostgresStore` is the identity on the table: the locks and locals of `tx` are
simply not part of the abstract state, and `ImplementsReservationStore` is
`StoreSpec` itself, a property of `PgSpec`.

`StoreSpec` is not what Postgres does when two reserves of one reservation
overlap: `SELECT ... FOR UPDATE` locks no missing row, and the upsert then
writes over the row that the other one made (`scheduler.py:346, 395-438`). With
several workers and a timed-out plan attempt this happens, so the modules above
the store are written against `OverlappedStoreSpec`: `PlacementScheduler` and
`AllocationWorkflow` note in `blind` which attempts began their reserve before
there was a row, and let those `Overwrite` a held one, into a pool with room,
moving it or setting it back from ACTIVE to RESERVED. Rows are never deleted, so
no attempt that began later can. That this is all that Postgres adds is
`PgImplementsOverlapped` and `OnlyUnseenOverwritten`. In one process no attempt
outlives the next (no activity awaits anything), and the memory store looks the
reservation up under its lock: there `blind` has no effect and `StoreSpec` is implemented.

`AllocationWorkflow` also implements `AllocationLife` (`Life == INSTANCE
AllocationLife WITH phase <- PhaseNow, grant <- GrantNow, Exclusive <-
~LateAttempts, Cancellable <- Cancellations`): `PhaseOf` forgets which activity of a placed allocation runs,
`GrantNow` turns the row of an allocation into the set of the pools where it is
held, and retries, lost answers, backoff, late attempts and clusters disappear.
The grant of the abstract module is bounded by the pool's capacity when it is
taken or exchanged, so the refinement contains the capacity check. `Exchange` is a
grant written over by an overlapping attempt; `Regrant` and `Straggle` are what
attempts of before a cancellation may do after it.

`EventDelivery` is the interface between the API and the workers. `KafkaDispatcher`
implements it (`Delivery == INSTANCE EventDelivery WITH deadLettered <- counted
\cup dlqErrors`): an event counts as dead-lettered when `send_to_dlq` has
counted it or recorded its error, and the threads, positions, owner, coroutines
and producer queues are not part of the promise. `AllocationApi` EXTENDS it and
takes the promise for the workers, so neither side carries the other's detail.

How the state corresponds to the code:

- A row keeps the pool, the GPU count and the status; `NoRow` is a missing row.
  The columns copied from the request (tenant, region, latency...) are never read
  back by the store and are left out.
- `tx[t]` is one connection inside `reserve`: its `pc` names the statement that
  runs next, and the locks it holds follow from it (`RowLocker`, `PoolLocker`,
  `KeyTaker`). A call that waits at its first statement is open already (`pc = "select"`).
  `saw_row` says whether that statement found a row. A statement that has to wait
  for a lock is a disabled action.
- A planner is one `plan_gpu_allocation` attempt: `request`, `candidates`, `free`
  and `untried` are the locals of `GpuPlacementScheduler.reserve`. `EndAttempt`
  is the return, and equally a death of the worker at that point.
- `run[w]` is the activity that the workflow's `await` is at; `backoff` says that
  it waits for Temporal's retry timer; `late` holds attempts that the server has
  timed out and that may still take effect; `unseen` names the workflows whose
  reservation such an attempt took after their running plan attempt had looked
  for it, or after they had closed: their plan may answer pending all the same.
  `blind` names the workflows whose running plan attempt began before the durable
  table had a row for them, and a late attempt keeps the same bit. `adrift` is the
  history of what parts an allocation from its row: a cancellation after the plan,
  a lost memory store, a late plan attempt that wrote over the row.
- `Accepted` are the allocations whose input `plan_gpu_allocation` accepts
  (`activities.py:189-197`). For the others no plan attempt ever answers; the
  dispatcher starts their workflows all the same, since it only looks for the keys.
- `pc[d]` is where dispatcher thread `d` is in `poll_once`; `coroutines` are the
  `execute_workflow` calls on the event loop that have not reached Temporal, which
  outlive the wait of the thread; `queued` is the DLQ producer's queue.
- `pc[r]` is where the handler thread of request `r` is in `allocate_gpu`, or its answer;
  `producer` names the module's producer after the request that made it, `via` the
  producer that has a request's message, and `message` and `report` what became of it.
  A request has an `allocation_id` of its own, so requests and workflow keys are
  one set; a client that repeats a request makes another.
- `lookUp[c]` is a status look-up: `describing` and `fetching` are its two calls to
  Temporal, and `seen` is the history of the workflow's states since it began.

Code that is not in the repository (Kafka's group, Temporal's retry policy and
timeouts) is modelled from how it is used, and marked external in
`PROJECT.json`.

Operators whose comment says "the ... that ..." and that no next-state relation
uses (`TryReservedBlindly`, `TimeoutNever`, ...) are mutated forms of the
definition that follows them. Each breaks one property, which shows that the
property depends on that piece of code.

## 3. Runs

| Run | Question | Bounds and why they are enough |
| --- | --- | --- |
| `scheduler` | Can interleaved attempts, activations and releases break the policy of an allocation, justify a wrong fallback or pending answer, or invalidate an answer other than by an overlapping attempt; is the next pool always determined? | Two attempts, four events: two without an `allocation_id`, of two tenants whose names and tiers read the same when joined with hyphens (home only, and home or two named regions), one GPU elsewhere, two GPUs at home; five pools of which three are unusable for different reasons (unhealthy, wrong type, too far). Two attempts are the smallest number that make a snapshot stale or overlap on one reservation; the pools of 1 and 2 GPUs fill, free and fill again. |
| `postgres_refinement` | Is each transaction a step of the atomic store? | Three reservations, two connections, two pools of two GPUs: both connections can compete for one pool while a third row changes it. |
| `postgres_retries` | With two transactions for one reservation and activations of released rows: capacity, who may write over a held row, who deadlocks with whom, and does every `reserve` end? | Two reservations, two connections, two pools of one GPU: the smallest instance with lock cycles over row, pool and key. |
| `postgres_moves` (violated) | May a repeated reserve move a held reservation? | Two reservations of one GPU, two connections, two pools of two. |
| `workflow_durable` | Durable store, several workers, cancellations and a late attempt, one customer: ACTIVE means served, what runs is reserved, GPUs are held only by runs that know of them, checked rows fit their pool, every run closes, every step is one of `AllocationLife`. | Two allocations of one and two GPUs, pools of one and two, one run each: they compete, and one may be left pending. `MaxLate = 1`: one attempt at a time may act after it was given up or cancelled, which is enough for a late plan attempt to write over the row of a deployed or ACTIVE allocation, and for a late activation of a released row. |
| `workflow_cancelled` | One worker with the memory store, restarts, cancellation at every activity, second runs: does anything but a cancelled plan leave GPUs held, what parts a workload from its reservation, is a pool overbooked, does a first run get stuck, is every step one of `AllocationLife`? | The same, two customers, two runs per workflow, `MaxLate = 0`: in one process no attempt outlives the next. |
| `workflow_helm_failure` (violated) | Is a Helm failure followed by release or success? | One pool of one GPU. |
| `workflow_redelivered` (violated) | Does the workflow raise only when there is no reservation? | One pool of one GPU, two runs. |
| `dispatcher` | Two workers of one group: nothing skipped, everything handled, and nothing done that `EventDelivery` does not allow? | Two events of any kind with one key, published at any time, one failure (crash, eviction or fatal error). Two events are enough for one to block, precede or share the workflow id of the other; two workers for a commit by a member that has lost the partition. A failed commit, a lost DLQ record and a timeout are possible at any time and are not counted. The proofs of section 5 lift the safety part to any number of workers, events and failures. |
| `dispatcher_commit_before_result` (violated) | Is the result awaited before the commit? | one worker, one event |
| `dispatcher_undecodable` (violated) | Does every invalid event reach the DLQ? | one worker, two events |
| `api` | Is 202 the truth, is every request answered, is a status one the workflow had, and one that an event caused? | One of two scenarios, chosen at the start: two requests race for the producer and share it, or one request whose workflow closes and starts again while a client asks. The topic holds two events, so a message can be in it twice, and then the other request's is never delivered. |

Bounds that the code does not have: `MaxRuns` (starts of one workflow id),
`MaxLate` (given-up attempts that still run),
`MaxEvents` (the length of the topic), `MaxFailures` (crashes, evictions and fatal errors of dispatchers), `MaxGpus` (the
largest profile), and the finite sets of reservations, connections, attempts and
workers. Deadlock is checked in the store and scheduler runs. The workflow,
dispatcher and API runs set `CHECK_DEADLOCK FALSE` because those systems stop: all
runs closed and `MaxRuns` used; all events handled and no failure left; all
requests answered and all their workflows closed.
Symmetry is used in `scheduler` (attempts) and `postgres_refinement`
(reservations and connections): no liveness property is checked there.
In the workflow runs every input is accepted (`Accepted` is the set of all
allocations): a rejected one only stays in its plan for ever. The safety theorems
hold for any `Accepted`.

### Where the code and its documents disagree

The five violated runs are disagreements between the code and what its documents
or comments say. `PROJECT.json` quotes both sides.

1. `postgres_moves`: `SELECT ... FOR UPDATE` locks nothing while the row does
   not exist (`scheduler.py:346`), so two attempts for one reservation can both go on,
   and the second upsert moves a reservation that was already answered. The
   memory store cannot do this, and README.md:159 says that both stores follow the same rules.
   The modules of scheduler and workflow take this over as `Overwrite`.
2. `workflow_helm_failure`: without a retry policy Temporal retries Helm for
   ever, so the release that README.md:143 promises is not reached.
3. `workflow_redelivered`: a second run of an ACTIVE allocation gets its
   reservation back with status ACTIVE and raises "did not return a reservation";
   a `ValueError` fails the workflow task, which is retried for ever.
4. `dispatcher_commit_before_result`: a timeout of the wait, or a start call
   that fails after the server has accepted it, commits the event while the
   workflow runs (README.md:131-132).
5. `dispatcher_undecodable`: a value that is not UTF-8 raises again in the
   handler of its own error, and the partition is blocked for ever (README.md:144).

Behaviours that the models allow, that no property forbids, and that a reader
of the code should know:

- A pending answer can be given although a pool has room at that moment: each
  candidate was full at some time during the attempt, but maybe not at the
  same time (`scheduler.py:511-522`). `PendingOnlyIfEachSeenFull` is the strongest
  statement that holds.
- Transactions wait for each other only when two attempts for one reservation
  are among them: the first has locked the row and waits for a pool, the second
  found no row, has a pool, and waits for the key (`scheduler.py:346-438`).
  Postgres aborts one and Temporal retries it. `DeadlockNeedsRetry` says that there is
  no other deadlock, so none at all without concurrent retries.
- A late plan attempt on Postgres that found no row can send the row of a deployed
  or ACTIVE allocation to another pool, or set it from ACTIVE back to RESERVED, while
  the workload stays where it is (`scheduler.py:395-438`). `ActiveIsServed` and
  `DeployedIsReserved` name it as one of the three ways in which workload and
  reservation part, with the release after a cancellation, which uninstalls
  nothing (`workflows.py:46-52`), and the loss of a memory store. `DecisionStands` names
  it as the one way in which an answer stops being true before its release.
- An event without `allocation_id` gets an id built from customer, tier, type and count,
  joined with hyphens (`scheduler.py:236-243`), so a later event with a different
  region policy, or of another tenant whose parts read the same, is answered with
  the old placement: possibly a region that its own event does not allow, where
  README.md:171-173 says that a fallback region is eligible only when the request
  or the default policy allows it. Such events reach the dispatcher only past the API,
  which draws an `allocation_id` for each. `PlacedWithinPolicy` is stated for events with
  an `allocation_id`, over their own policy.
- With cancellations and late attempts together, a late activation can reach a
  released reservation whose GPUs were given away: `NoOverbooking` fails there
  (`mark_active` checks no status, `scheduler.py:208, 441`). `OverbookingNeedsReactivation` is what holds,
  and is proved; `NoOverbooking` is checked where activities of one worker do
  not overlap.
- GPUs leak in three ways, and `GpusAccountedFor` says that there is no fourth:
  a workflow is cancelled while its plan activity runs, which is awaited outside
  the `try` (`workflows.py:18`); a plan attempt takes effect after its workflow has
  closed; or a retry looks its reservation up before the attempt that was given up
  takes it, finds no room, and answers pending (`scheduler.py:494-525`).
- A workflow whose tier or customer the plan rejects stays in its plan for ever:
  the `ValueError` (`activities.py:197`) is retried without limit, and the dispatcher's wait ends
  in the DLQ only.
- Only a second run of a workflow gets stuck in `raise ValueError`
  (`workflows.py:30`): `StuckOnlyOnRestart`.
- A failed DLQ publication is recorded and the event is committed nevertheless
  (`worker.py:556-561`); `flush(5)` may return with the record still queued, and
  `dlq_messages_total` counts it as written.
- The Helm release is named after the customer (`activities.py:247`): a later
  allocation of the same customer, or a late Helm attempt of an earlier one,
  replaces the workload, and both stay ACTIVE. `ActiveIsServed` permits exactly this:
  another allocation of the same customer, earlier or later.
- After a restart with the memory store the activation of a workflow that is
  still running raises "Unknown GPU reservation" at every attempt.
- A request that is answered 500 may be published all the same
  (`api/main.py:198-207`): a client that repeats it allocates twice.
- One message that is stuck in the shared producer makes every request that
  flushes meanwhile fail with 500, also those whose own event was delivered.
- The look-up of an event that went to the dead-letter topic before its workflow
  started answers "queued" for ever (`api/main.py:299-305`); with a redelivered event a status
  can go back from a final one to "running".
- `run_id`, `closed_at` and `result` of one status answer may belong to two runs: the
  look-up keeps no relation between them, and only its status is in the model.
- `handle.result()` is outside the `try` of the look-up (`api/main.py:328`): a
  Temporal failure there is answered with 500, one in `describe` with 503 (README.md:299).

## 4. Fairness

- `FairPgSpec`: a transaction that can run its next statement does (weak), and one
  that waits for a lock gets it if it is free again and again (strong), which is
  Postgres' lock queue; the deadlock detector fires. Nothing forces a client to call.
- `HelmMayFailSpec`: Temporal fires retry timers and every attempt ends
  (`AttemptEnds`, weak), by an answer or by its `start_to_close_timeout`; an activity
  on the store that can succeed does not fail at every attempt
  (`StoreAttemptSucceeds`, strong), which an unlimited retry policy and a database
  that is sometimes up give. A workflow awaits one activity at a time, so fairness of the
  disjunction is fairness of the awaited one. It is the specification of the
  violated run; `FairWorkflowSpec` adds that Helm does not fail for ever either,
  which is an assumption about charts and clusters and not about the code: `RunsEnd` rests on
  it, and `workflow_helm_failure` shows what happens without. A plan that rejects
  its input is not enabled, so that nothing is assumed of it: `RunsEnd` is stated for
  accepted inputs. Starts, cancellations and late attempts are never forced, and
  strong fairness asks nothing of an activation whose row is missing.
- `FairDispatcherSpec`: the thread runs, the group assigns a free partition, a
  wait ends within `WORKFLOW_RESULT_TIMEOUT_SECONDS`, and a queued DLQ record is
  delivered while the producer lives. No publication or commit has to be accepted, no
  coroutine has to reach Temporal (blocking activities hold the event loop), no
  workflow has to close. `EventsHandled` is `[]<>AllHandled`, since events are
  published at any time.
- `ApiFairness`: a handler thread runs, and `flush` returns after its timeout at
  the latest. Kafka need not deliver, acknowledge or refuse anything, the
  workers need not handle anything, no workflow has to close and no look-up has to end.

## 5. Proofs

All theorems hold for every catalogue of pools, every finite set of reservations
and every number of actors, events and failures. They rest on the named assumptions of the
modules, which TLC evaluates in the runs: `CatalogueAssumption`,
`PlacementAssumption`, `StoreAssumption`, `SchedulerAssumption`,
`AllocationIdAssumption` (no other event has the reservation id of an event with an
`allocation_id`, a UUID of the API, `api/main.py:248`), `PostgresAssumption`, `WorkflowAssumption`,
`DispatcherAssumption` and `ApiAssumption`. Of these, `CatalogueAssumption` says
that the catalogue is finite (it is a JSON list), and `ApiAssumption` that a
workflow's outcome is not called "queued" or "running". Conditions beyond them are in
the theorem's statement: `~ConcurrentRetries` and `~LateActivations` for the
refinement of the atomic store by Postgres and `~LateActivations` for that of the
overlapped store, `~LateAttempts \/ ~Durable` where workflows use the store
atomically, and `~(LateAttempts /\ Cancellations)` for `NoOverbooking`. Each of them is
met by a run, so none is empty; what each excludes is said below.

- `StoreTypeCorrect`, `CapacityHolds`, `NoOverbookingWithoutReactivation`
  (`ReservationStoreProofs`) are about `OverlappedStoreSpec`, of which `StoreSpec` is a special
  case. The held GPUs of a pool are a set of pairs `<<id, k>>`, so the sum over rows is
  a cardinality. The invariant is `StoreInv`: types and `OverbookingNeedsReactivation`.
  A row that is new, or written over, adds at most the block `{id} \X (1..n)`
  (`BlockFits`); every other call leaves a subset of `CheckedUnits` (`CheckedUnitsShrink`).
  `NoOverbooking` itself is not inductive: `mark_active` of a released row breaks it,
  and `reactivated` records which rows did. `HeldReservationsStay` is about
  `StoreSpec` only.
- Lemma `SnapshotAgrees`: the scheduler's snapshot is a fold over the rows, the
  check a cardinality, and both are one number. No induction theorem of the library
  can be cited for it (they take an operator as a parameter), so the induction is a
  fact about sets: if the set of subsets of the rows on which the two disagree were not
  empty, it would have a smallest member (`SmallestSubset`), and the one row that both
  add to the rest of it leaves a smaller one.
- `SchedulerTypeCorrect`, `PlacementsObeyPolicy`, `DecisionsStand`,
  `PendingIsJustified`, `FallbackIsJustified` (`PlacementSchedulerProofs`).
  `SchedulerImplementsStore` comes first: every step of the scheduler is one of the
  overlapped store or none, so its capacity theorem holds of the scheduler
  (`SchedulerKeepsCapacity`). `PlacedWithinPolicy` needs that every row, and not
  only an answer, is in a pool that an event with its id allows, because a later
  attempt is answered with the row (`PolicyInv`); for an event with an `allocation_id` that
  event is the only one with its id (`AllocationIdAssumption`). `DecisionStands` needs
  that what a reserve writes over is recorded in `disowned` by the very step that does it. The candidate
  filter is shown equal to `WithinPolicy`. A pending answer rests on `SeenInv`: each
  candidate that is no longer untried was seen full, the snapshot being the same
  number as the check by the argument of `SnapshotAgrees`; `FallbackOnlyFromFullPools`
  needs in addition that a nearer pool is ranked first among the untried ones.
  `PendingExhaustsPolicy` states the pending answer over `WithinPolicy` of the event
  instead of the scheduler's candidates, which joins the two.
- `NextPoolDetermined`. Two different pools never tie: the score ends with the
  `pool_id`, which `load_gpu_pools` keeps unique, so the lexicographic order is total on
  them (`ScoreOrder`), and a finite set of pools has one first member
  (`RankingHasOneHead`, by a smallest subset again). That the scores are integers
  needs the snapshot to count each pool (`RankInv`).
- `PgTypeCorrect` and `PgCapacityHolds` (`PostgresStoreProofs`). Capacity alone says nothing of a
  transaction that has read its sum and not yet committed. `RoomKept` says that
  the pool of such a transaction still has room for it, in terms of checked
  rows, and `PoolLockExclusive` says that no other transaction is past its lock on that pool;
  together they carry the room from the `SUM` to the commit.
- `PgImplementsStore`. Under `~ConcurrentRetries` and `~LateActivations`, each
  statement is a step of `ReservationStore` or leaves the table alone. The
  invariant adds that no two open transactions have the same row, that the row
  of an open transaction is not held, and that the room it found remains
  (`RoomToCommit`). Run `postgres_moves` shows that the first assumption is needed.
  `PgHeldNeverMoves` is the store's theorem carried over: it is the property that
  `postgres_moves` violates, proved where retries do not overlap.
- `PgImplementsOverlapped` drops `~ConcurrentRetries`: a commit is a `ReserveNew` if the row
  holds nothing and an `Overwrite` if it holds something, and `OverlapInv` keeps what both
  need, the room found by the `SUM`. `~LateActivations` remains, since a released row that is
  activated between the `SUM` and the commit takes that room; what
  holds even then is `PgCapacityHolds` and `PgOnlyUnseenOverwritten`. The modules above
  have late activations and late plan attempts, but not one inside the reserve of the other.
- `PgOnlyUnseenOverwritten` has no hypothesis. `SawInv`: a transaction that saw a row
  holds its lock until it ends, the locks of one row and of one key are exclusive,
  so nobody else can have written the row meanwhile, and no activation either.
- `PgDeadlockNeedsRetry` needs no hypothesis. `RowLockExclusive` says that no two
  transactions have the same row's lock. In a set of transactions that wait for each
  other one is at its upsert, since a transaction that holds a pool's lock and
  waits is at its upsert. The one it waits for has locked the row, or has written it
  and can only be at its commit, where it waits for nobody; so it has the row's lock and
  waits for a pool (`WaitedForAtInsert`), and both reserve the same reservation.
  `PgNoDeadlock` follows with `OneTransactionPerRow`.
- `DispatcherTypeCorrect`, `DispatcherSkipsNothing` (`KafkaDispatcherProofs`).
  `NothingSkipped` follows from `OwnerIsDone`: the owner of the partition has
  handled all it has read, except the event it is working on; only the owner's
  commit is accepted. `OnlyValidStart` (workflows and coroutines belong to valid
  events) is what makes a closed workflow count as handled. `WorkHasEvent` makes the
  type invariant inductive.
- `DispatcherImplementsDelivery`. Each step of a dispatcher is a step of
  `EventDelivery` or none. The commit is the hard case: only the owner's is
  accepted, all before its position is handled (`OwnerIsDone`), and its position is at
  least what was committed, since the owner started from there.
- `DeliveryKeepsPromises` (`EventDelivery`). `DeliveryInv`: types, no workflow
  without a valid event of its key that was started, nothing committed that was not handled.
  `DispatcherKeepsPromises` carries it to any number of dispatchers.
- `WorkflowTypeCorrect`, `WorkflowImplementsOverlapped`, `WorkflowKeepsCapacity`,
  `WorkflowGpusAccountedFor`, `WorkflowStuckOnlyOnRestart` (`AllocationWorkflowProofs`) have no
  hypothesis. Every step is a step of the overlapped store or none, which gives
  the capacity bound. `AccountInv` adds to `GpusAccountedFor` that a run reaches
  its release only by a cancellation, and that no attempt is late for an allocation
  that was never started. `FirstRunInv` adds to `StuckOnlyOnRestart` that in a first
  run that is still planning no row is ACTIVE and no activation, late ones included,
  is under way.
- `WorkflowImplementsStore` and `WorkflowHoldsStay` need `~LateAttempts \/ ~Durable`: where an
  attempt ends before the next one begins, a blind attempt still has no row when it
  ends (`OneWorkerInv`), and the memory store never is blind. With late attempts on
  Postgres both are false.
- `WorkflowNoOverbooking` needs `~(LateAttempts /\ Cancellations)`, and its two
  cases have an invariant each. Without late attempts (`OneWorkerInv`) the row of a run
  that deploys or activates is not released. Without cancellations (`UnreleasedInv`) no
  row is ever released, since nothing else leads to the release. Either way no activation meets
  a released row, `reactivated` stays empty, and `OverbookingNeedsReactivation` is `NoOverbooking`.
  With both, a late activation of a cancelled run reaches the released row and the
  theorem is false.
- `WorkflowServes` and `WorkflowDeploysReserved` have no hypothesis: what the code does not
  keep is in the property, as `adrift`. `ServedInv` says of every allocation that is not
  adrift that its run, its late Helm attempts and its deployments all agree with its
  row (`RunAgrees`, `TracesAgree`), that no release of it is under way, and that while its plan
  attempt is blind nothing acts on the row yet (`BlindAgrees`), so that only a late attempt
  can write over a row in use, and that puts it adrift.
- `WorkflowImplementsLife` has no hypothesis. The step lemma uses `AccountInv` (an answer of
  pending is truthful unless `unseen`), `SizedRows` (a row has the GPUs its allocation
  asks for, so the abstract capacity is the store's) and `Orderly` (an activation that meets
  a released row, and a late release, take late attempts and cancellations together, and
  without late attempts nothing held is written over). `LifeAnswersTrue` and
  `LifeGrantsStay` (`AllocationLife`, from `LifeInv`) are then what a tenant may rely on, each
  with the conditions under which it may, and `WorkflowKeepsPromises` carries them to
  the workflows.
- `ApiTypeCorrect`, `ApiAcceptsOnlyPublished`, `ApiLookUpsTruthful`
  (`AllocationApiProofs`). `ConfirmInv`: an acknowledged message and a report of "ok"
  belong to an event in the topic, through repeated and refused messages and whoever serves
  the report. `TruthInv`: the present state of the workflow is always in `seen` of a
  look-up that is under way, also when the run described is not the one whose
  result is fetched.
- `ApiImplementsDelivery`: each step of requests, producers, brokers and look-ups is a
  step of `EventDelivery` or none, so `DeliveryInv` holds of the API as well.
  `ApiStatusHasEvent` needs it: `StatusInv` says that each state a look-up has
  seen, but "absent", has a started event.

Every safety property that a passing run checks is stated by a theorem. Only
model-checked remain:

- liveness (`ReservesEnd`, `RunsEnd`, `EventsHandled`,
  `RequestsAreAnswered`): the proof system has no rules for fairness and ENABLED here;
- the five violated properties of section 3, of which TLC shows a counterexample. One
  of them, `HeldNeverMoves` of Postgres, is proved where its cause is absent.

## 6. Not modelled

- The parsing of the JSON catalogues, and the validation of request fields by the API's
  models: pure; their results are constants and the events.
- `validate_runtime_config` and the environment parsers: pure functions evaluated once,
  before anything starts. (`_uses_local_endpoint` takes what is before the first
  colon for the host, so its `"::1"` never matches, `config.py:172-174`.)
- `PostgresReservationStore.initialize`: the schema is part of `PgInit`.
- HTTP servers, Prometheus metrics, readiness, but for what `send_to_dlq` records,
  which is in `KafkaDispatcher`: readiness is a function of where the dispatcher's thread
  is, and nobody in the program reads the counters. The request counters of
  the API are written by handler threads without a lock; a lost increment shows
  in the metrics only.
- `AllocationRequest.customer_id` and the other keys of a message that the
  partitioning could depend on: there is one partition.
- The Helm chart's templates, the local Kubernetes stack and the scripts: no
  state of the program. The chart's `Job` template is immutable in Kubernetes, so
  an upgrade with a changed pod template fails; it is one of the reasons for
  `HelmFails`.
- Several partitions: the default `KAFKA_TOPIC_PARTITIONS` is one. With more,
  each partition is an independent copy of the log and the owner.

## 7. Plan

Done, in this order: `GpuPools`, `Placement`, `ReservationStore`, `PlacementScheduler`,
`PostgresStore`, `AllocationWorkflow`, `KafkaDispatcher`, `EventDelivery` and its
refinement by `KafkaDispatcher` and `AllocationApi`, `AllocationLife` and its refinement by
`AllocationWorkflow`, and the proofs of the types and safety properties of all of them.
What could follow:

1. `EventDelivery`'s workflow implemented by `AllocationWorkflow` (`absent`, `running`
   and the ways to close), so that API, dispatcher and workflow are one chain.
2. The plan attempt of `AllocationWorkflow`, one step there, replaced by the steps of
   `PlacementScheduler`, so that the policy of a placement is a theorem about ACTIVE
   allocations.
3. The plan attempt as two steps, its `SUM` and its commit, so that a late activation
   of a released row can fall between them (see `PgImplementsOverlapped`).
4. If the code is changed to repair one of the disagreements of section 3, its run
   becomes a passing one: a retry policy, a lock that exists before the row, a
   guard in `mark_active`.

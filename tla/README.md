# TLA+ models of obase

obase is a library: some 150 Python modules under `src/obase/` that other programs
import, most of which do not import one another. There is no main program, so the
models are of the modules that keep state across calls, survive crashes, or are used
by several callers at once. Each has a TLA+ module of its own; the MC modules put
independent ones side by side, so that one TLC run answers one question about a group.

Contents: inventory, modules and code, runs, bounds, fairness, proofs, what is only
model-checked, disagreements with the documentation, what is not modelled, plan.

## Inventory

For each part: the state it keeps, its operations, what is hard about it, and what
makes it correct. Parts marked (-) have no model; `PROJECT.json` lists every file.

### Work and its execution

* **durable_lease_queue**: a SQLite table of tasks (status, lease_id, attempts).
  `enqueue`, `lease`, `renew`, `complete`, `fail`, `release`, `sweep_expired`. Hard: leases lapse
  while their workers run, several objects (threads, processes) use one file, a
  `SELECT` and the `UPDATE` after it are two statements. Correct: a running term is
  exclusive, an overtaken worker has no say, attempts are bounded, every task settles.
* **orchestrator, linear pipeline**: `RunState` in memory and in `run_state.json`.
  `run_pipeline` with pauses, retries, failures and `resume`. Hard: crashes between and
  inside saves, resuming a run in any saved state. Correct: a stage finds its inputs,
  a pause's answer is not lost, every run ends.
* **orchestrator, runbook** with **runbook_runtime**: a graph walked by `runbook_goto`,
  checks registered on the way. Hard: each function loads, works and saves a whole copy
  and nothing locks the run. Correct: the history is a walk of the graph, a run is
  blocked only after the attempts it was allowed, registered checks are evaluated.
* **workflow_engine**: no state between calls; `topological_sort`, `execute`. Hard: layers of
  concurrent nodes and what a failure cancels. Correct: dependencies run first.
* **hardened_executor** with **resource_limits** and **permission_contract**: jobs pass
  a token check, a breaker, a rate limiter or a command firewall, and run beside a bait
  file. Correct: no job starts through an open breaker, every answer is audited, no
  bait stays behind.
* **harness_adapter**: one CLI process per run; `run`, `resume`, `cancel`, timeouts. Hard:
  the process's end, the timeout and a cancel race. Correct: a granted cancel is kept,
  no process is left running, everything ends.
* **collector_base, environ_processor_base, ts_writer**: loops that fetch with retries, compute and
  write rows in one transaction. Correct: the loops never stop, a table is never half written.
* **sympy_runtime, sandbox_runner, local_sandbox_pool, zero_egress_sandbox, ffmpeg,
  lean_formal_prover, symbolic_executor**: one child per call, a deadline, for SymPy a queue. Hard:
  result, end of the child, deadline and cancellation in any order. Correct: what the caller is
  told happened, and no child is left running.
* **docker**: operations on containers, images, networks, volumes and compose projects, each a look-up,
  an action and sometimes a second look. Hard: others remove and recreate what was found; replies
  are lost. Correct: an error says what happened; a name means exactly one container.
* **retry**: attempts with delays, by kind of error. **scheduler** (-).
* **gpu**: loaded models and a lock the callers take. Hard: unload, measure and load with awaits between.
  Correct: what acquire answers is loaded, and fits.
* **browser_runner**: one browser started on first use, by overlapping tasks.

### Coordination

* **circuit_breaker**: state, failure count, opening time, under a lock; the protected
  function outside it. Hard: answers of calls admitted in an earlier state. Correct:
  closed means fewer failures in a row than the threshold.
* **rate_limit**: a window of grant times behind an asyncio lock held while sleeping.
  Correct: never more grants in a period than the rate, nobody waits without reason.
* **hitl_signal_bus**: decision points with an `asyncio.Event`; threads decide, coroutines wait.
  Hard: the event is set from other threads. Correct: a decision reaches its waiters.
* **docker_pool**: slots of containers; `acquire`, `release`, `destroy`, `close` around awaited
  docker calls. Correct: a busy slot has one user; "full" means busy.
* **cache: DistributedLock**: a Redis key with a token and a time to live. Correct: who
  is inside and has not lapsed holds the key.
* **event_bus, daemon_bus, event_barrier**: handlers by event, a queue per handle, events by key.
  Hard: subscriptions change while an event is handed out; an event is set between check and
  wait. Correct: who was subscribed throughout is called once, in order; a set event wakes.
* **debounced_memory_queue**: the pending update per key and a timer. Correct: the newest is written or pending.
* **wfg_deadlock_detector**: who waits for whom. Correct: only agents in a deadlock are removed.
* **posix_shm_allocator, kv_cache_shared_memory**: named blocks and a text in one. Correct: what is
  read was written, unless a longer text lies behind.

### Records and budgets

* **loop_event_store: event log**: a hash-chained JSONL file shared through `flock`; `append` with dedupe
  ids, `verify`, `migrate`. Hard: crashes inside a write, a lock of a file that was
  replaced. Correct: one unbroken chain, each id once, nothing acknowledged is lost
  unnoticed, nobody keeps the lock.
* **persistent_store** on **versionstore**: a current document, a log, revisions with an
  index. Correct: a listed revision has the document it was saved with.
* **evidence_ledger**: one JSONL file under `flock`. Correct: what is read is what was
  appended, or reading raises.
* **QuotaTracker** (loop_event_store) and **cost_tracker**: spending against a budget, with
  events. Correct: overspending pauses the goal and is reported.
* **checkpoint_store, snapshot_store, kv_store, memory_bank, cognitive_store, knowledge_store,
  graph_storage, causal_graph_store, population_genome_store**: rows or files, several writers,
  migrations from an older form. Correct: what is read was stored last, whole, whatever died in between.
* **vector_memory, hierarchical_context**: memories found by words or vectors; a body with an
  abstract and an overview beside it. Correct: what is found is of the collection, not deleted, and
  relevant if anything is; an abstract is never of a later body than the note's.
* **ohlcv_store, price_store, tv_cache, market_history, options_marketdata**: a cache before a database or an
  exchange. Correct: an answer is in the range asked for, the newest of it, and no staler than the cache allows.
* **commerce_batch_schema** on **persistence/ddl**: tables, indexes and columns created one statement at a time
  by processes that start at once or died half way. Correct: it ends with the whole schema.
* **trail, audit, decision and trajectory logs** (-): append only, nothing reads them back.

### Services

* **mcp_stdio**: a server process, a write lock, futures by request id, a read loop. Hard:
  the process dies or is replaced while requests wait. Correct: an answer reaches the
  request it is about, nobody waits for a dead server.
* **team_registry**: JSON documents and an inbox in a shared directory. Hard: no locks,
  files emptied before they are written. Correct: added tasks and sent mail are kept; a team
  read is one that was written.
* **mq**: RabbitMQ publisher and consumer with acknowledgements, Redis event bus. Correct:
  a message leaves the broker only when its handler returned or it was rejected.
* **permission_contract, tool_governance, signed_token_session**: nonces revoked in memory and in a file, grants,
  sessions. Hard: a file emptied before it is filled, threads, restarts, a refresh that crosses a
  revocation. Correct: what was taken back stays taken back, expiry is not undone.
* **provider, plugin, agent, skill and tool registries, plugin_loader**: dictionaries, one shared file, an import
  guard. Correct: `has`, `get` and the lists agree after any history; a load leaves no guard behind.
* **llm, provider_live_state**: the default models, what of a conversation is sent, what is known of a balance.
* **acp_adapter, a2a_adapter, channel_adapter, mcp_http, mcp_client, alice_workspace**: sessions, remote tasks, a
  cursor per channel, an HTTP client, a cache of skills, documents with a record. Hard: calls of one
  session overlap, answers are lost or late. Correct: a closed session stays closed, no message is passed over.
* **symbol_normalize**: the symbols of eight sources. Correct: what is written for a source is read back as the same.
* **provider_routing, git, http, mail, other solvers and drivers** (-): one call each to
  something outside, or pure; they hold no state of their own.

Modules interact by being handed to each other: the executor is given a breaker and a
limiter, the quota tracker an event store, the runbook functions a state backend, the
processor what the collector stored. Where the receiving code depends on the other's
state, the model composes the two (HardenedExecutor EXTENDS CircuitBreaker; Collection
holds collector, processor and writer; Budgets sees of the event store what a restore
takes from it).

## Modules and code

| module | models (`src/obase/`) | its state in the code |
| --- | --- | --- |
| TaskLedger | what durable_lease_queue promises, every method atomic | abstract specification |
| LeaseQueue | `durable_lease_queue.py` | `rows`: the table; `call`: a method between its two statements; `valid`: terms not yet lapsed |
| Pipeline | `orchestrator.py`, `run_pipeline` | `disk`: run_state.json; `mem`: the RunState; `pc`: where the call is |
| Runbook | `orchestrator.py`, runbook functions; `runbook_runtime.py` | `run`: the saved RunState; `call`: a caller's copy between load and save |
| WorkflowEngine | `workflow_engine.py` | `layers`, `outputs`, per node `state` |
| CircuitBreaker | `circuit_breaker.py` | `_state`, `_failure_count`, `_opened_at` |
| HardenedExecutor | `hardened_executor.py` (on CircuitBreaker) | per job `pc`, `result`; bait files; audit log |
| HarnessRun | `harness_adapter.py`, the CLI base class | `task`, `proc`, tracked `status`, callers of cancel |
| RateLimiter | `rate_limit.py` | `_timestamps`; `queue`: the callers, the first holds the lock |
| HitlBus | `hitl_signal_bus.py` | `outcome`, `flag`: the event; what each waiter does |
| DockerPool | `docker_pool.py` | `slots`: the dictionary; `daemon`: containers that exist |
| EventStore | `loop_event_store.py`, the store | `lines`: per file; `path`; `holder`: flocks; `cache`: dedupe ids |
| PersistentStore | `persistent_store.py`, `versionstore/snapshot.py` | current file, log, revision directories, index |
| EvidenceLedger | `evidence_ledger.py` | `file`, `flock` |
| Collection | `collector_base/`, `environ_processor_base/`, `ts_writer/` | loop steps, open transaction, tables |
| Budgets | QuotaTracker; `cost_tracker.py` | spent, budget, paused; what the event log has of them |
| Messaging | `mq.py` | queue, unacknowledged deliveries, subscribers |
| McpStdio | `mcp_stdio.py` | process, read loop, `pending`, pipes |
| TeamRegistry | `team_registry.py` | config.json, tasks.json, inbox files, what each agent holds |
| TimedRuns | `sympy_runtime.py`, `sandbox_runner.py`, `local_sandbox_pool.py`, `zero_egress_sandbox.py`, `symbolic_executor.py`, `lean_formal_prover.py`, `ffmpeg/` | one call: the runner, the child, its queue, what the caller is told |
| DockerOps | `docker/` | the daemon's containers by id, calls in progress |
| Delivery | `event_bus.py`, `daemon_bus.py`, `event_barrier.py`, `debounced_memory_queue.py`, `wfg_deadlock_detector.py` | subscriptions and publishers on the way, queues, events and waiters, pending updates, the graph |
| LocalResources | `gpu.py`, `posix_shm_allocator.py`, `kv_cache_shared_memory.py`, `browser_runner.py` | loaded models and tasks; blocks, mappings; the browser |
| Capabilities | `permission_contract.py`, `tool_governance.py`, `signed_token_session.py`; `cache.py`, the lock | `revoked`, its file and the threads in it; sessions; `key`: the lock's Redis key |
| Registries | `provider_registry.py`, `plugin_registry.py`, `plugin_loader.py`, `agent_registry.py`, `skills_registry.py`, `tool_registry/` | the dictionaries; the plugins' file; the import guard |
| Providers | `llm.py`, `provider_live_state.py`, `retry.py` | defaults; a conversation; balance and refusals; attempts |
| Gateways | `acp_adapter.py`, `a2a_adapter.py`, `channel_adapter.py`, `mcp_http.py`, `mcp_client.py`, `alice_workspace.py` | sessions and tasks on both sides, cursors and polls, clients, documents |
| Symbols | `symbol_normalize/` | one text on its way through two sources |
| CommerceSchema | `commerce_batch_schema.py`, `persistence/ddl.py` | tables, indexes, columns; where each start is |
| Stores | `memory_bank.py`, `cognitive_store.py`, `knowledge_store.py`, `kv_store.py` | the tables, the files, what a client is in the middle of |
| Archives | `checkpoint_store.py`, `population_genome_store.py`, `graph_storage.py`, `causal_graph_store.py`, `snapshot_store.py`, `ohlcv_store/`, `tv_cache.py`, `price_store/` | as Stores |
| Lookups | `market_history.py`, `options_marketdata.py`, `vector_memory.py`, `hierarchical_context.py` | the caches, fetches on the way, the memories, the notes' layers |

An action is a handler, or the part of a handler between two points where other code may
run: two awaits of a coroutine, two statements on a database, two writes to a file, a lock
given up. Which points those are is said at the top of each module. Variables commented
"history" or "ghost" exist for the properties; no guard of code reads them. Constants whose
comment says "bound" limit counters in guards; nothing else depends on them.

The later modules hold several small components each, one next-state relation per component
(`BankNext`, `ChunkNext`, ...), because each is too small for a file of its own.

An operator named `X_Slip` (or `X_` and what went wrong) is `X` as a programmer could have got it wrong. The properties are
known to fail when it takes the place of `X`; no specification uses it.

The MC modules compose the components and keep the constants that are parameters; the cfg files give
these values. MCLeaseQueue instantiates one component. The
other five hold several components that share no state: the variable `scenario` picks, at
the start, the one a behaviour exercises, and the others stay at their Init. A property of
one component is vacuous in the other scenarios; the runs' states are the sum, not
the product, of the components' states. Their properties are conjunctions of the components'
properties of one kind; each conjunct is defined, with what it says, in the component's module.

| MC module | components |
| --- | --- |
| MCExecution | Pipeline, Runbook |
| MCLedgers | EventStore, PersistentStore, EvidenceLedger, Collection |
| MCProcesses | HardenedExecutor, HarnessRun, TimedRuns, DockerOps |
| MCCoordination | RateLimiter, CircuitBreaker, HitlBus, DockerPool, LocalResources, Stores, Archives, Lookups |
| MCServices | McpStdio, TeamRegistry, WorkflowEngine, Messaging, Budgets, Capabilities, CommerceSchema, Registries, Symbols, Providers, Gateways, Delivery |

## Runs

| run | what it asks | bounds | states |
| --- | --- | --- | --- |
| lease_queue | exclusive terms, powerless overtaken workers, bounded attempts, settling, refinement of TaskLedger | 2 tasks, 2 workers, 1 object, 2 attempts, 6 leases, 1 release, 1 crash | 54,000 |
| execution | the pipeline's inputs, answers and end; the runbook's checks, attempts and history | 3 stages, 2 pauses, 2 interrupts, 4 resumes; a graph with a cycle and a final node, 2 callers, 3 visits, 2 attempts, 2 rounds by the second caller | 105,000 |
| ledgers | chain, ids, revisions, evidence, ends of calls | 2 store objects, 3 rows, 1 migration, 1 crash; 1 object with torn lines, 4 rows, 2 crashes; 2 documents, 3 revisions; 2 appenders, 2 records, 2 deaths | 162,000 |
| processes | audit, baits, processes left running, cancels, what callers are told | 2 jobs, threshold 1; 2 runs, 2 cancellers; one timed call of every runner; 2 docker clients, 2 names, 2 ids | 118,000 |
| coordination | window, breaker, pool, decisions; who holds what on the machine; what stores and look-ups answer | rate 2 in 3 ticks, 4 calls, 7 ticks; 3 callers, threshold 2; 2 waiters, 2 deciders, 2 generations; 2 users, 1 slot; 2 clients per store, 2 or 3 writes; 2 ticks, 2 fetches, 3 memories, 2 notes | 706,000 |
| services | responses, mail, graphs, lock, messages, budgets, rights, registries, adapters | 2 callers, 3 requests, 2 processes; 2 agents, 2 tasks, 2 messages, 3 members; all graphs on 3 nodes; 3 clients; 2 messages, 2 consumers, 1 lost connection; total 4; 2 nonces, 3 sessions, 1 restart; 2 starts of the whole schema; every symbol of 6 assets; 2 callers of each adapter, 3 chat messages | 754,000 |
| lease_queue_shared, ledgers_lock, processes_breaker, coordination_wakeup, coordination_reuse, services_tasks | each: a sentence of the code's documentation that the code does not keep | as above, with the second object, the migration, the breaker without `is_open`, threads | |

What the properties of the composites say:

* execution: `StagesKeepTheirData` a stage finds its inputs, a pause's answer is kept; `ChecksDecide`
  registered checks are evaluated and a block is earned; `HistoryIsAWalk`; `ExecutionEnds`.
* ledgers: `LogIsSound` the chain holds and no id comes twice; `VerifiedIsComplete` nothing acknowledged
  is missing from a log that verifies; `RevisionsFaithful`; `EvidenceFailsClosed`; `CallsReturn`.
* processes: `ResultsAudited`, `BaitsRemoved`; `NoProcessLeftRunning` after a run, a cancel, a timed call;
  `AnswersAreTrue` a result or an error a caller was told is what happened; `GrantedFirstIsKept`;
  `EverythingEnds`.
* coordination: `LimiterKeepsTime` never more grants than the rate, no refusal or wait without reason;
  `ClosedWhileFewFailures`; `ResourcesHaveUsers` busy slots, loaded models, blocks and the browser belong to
  somebody; `StoresKeep` what any store, cache or look-up answers was stored, whole, last and in range; `DecisionDelivered`.
* services: `RequestsAnswered`, `WrittenMailArrives`, `SequencesAgree` (orders computed from graphs, lists and texts), `HolderHolds`, `NothingDropped` (queues, buses,
  signals, pending writes), `BudgetsKept`, `RightsEnd` (revoked, ended, run out: for good), `RegistriesAgree`, `GatewaysAgree`
  (what an adapter says is what the other side did).

Why the bounds suffice: each is the smallest at which the case the property is about can
happen, plus one where TLC could afford it. A lost exclusion needs two workers and one task
(a second one for interference); an overtaken worker needs a second lease of the same
task, a third to be overtaken twice. A late answer
needs a call admitted in one state, another that changes it, and a third to see it. A torn
line matters with a row before and one behind it; a duplicate with a retry after a
crash. Every two-node cycle, chain, fork and join is among the graphs on three nodes.

Runs without a deadlock check may really stop: a library is idle when nobody calls it, and
the bounds end every behaviour.

## Fairness

Only liveness properties use fairness, and only of what the runtime schedules.

* lease_queue: a statement that was begun ends; terms lapse (time passes); workers keep
  coming back for leases and the sweeper is run (`sweep_expired` is a maintenance call the module
  asks for); a worker that gets the lock again and again reports in the end. Strong where the
  lock may be taken in between.
* execution: a started call goes on (one coroutine, every await returns), and the owner of an
  interrupted run resumes it; the runbook's caller keeps trying.
* ledgers: a store's process runs; the kernel grants a flock that is free again and again
  (strong). The loops' steps go on: each ends in an answer, an error or a cancellation.
* processes: a spawn returns, a process that was killed dies, a wait with a timeout returns.
  No fairness makes a process exit by itself or answer SIGTERM. For timed calls: the caller goes on, the
  deadline passes, a killed child ends; the call without a deadline (see below) is not claimed to end.
* coordination: on the loop, a callback that is ready runs. With threads none is assumed: the
  lost wake-up is a safety violation.

## Proofs

Eight modules prove with TLAPS, for every value of the constants, what the runs show on small
ones. LeaseQueue_proofs is about one component. Each of the others extends the MC module of a
composite (MCServices and MCCoordination have two each) and proves its runs' own properties of the composed specification: the inductive
invariant is the conjunction of the components' invariants (under `scenario = ...` where a
component keeps its own only in some scenarios), and a step of the composite is a step of one
component that leaves the others' variables alone. Nothing is assumed but a premise where one is
named below, and the named assumptions of the modules that declare the constants, which TLC
evaluates in every run.

**LeaseQueue_proofs**: `TypeCorrect` from the assumptions on the constants. `Exclusion`,
`BoundedAttempts` and `Finality` need that all workers call one object (`SingleInstance`); the run
lease_queue_shared shows they fail without. The inductive invariant says that one worker is inside a
method at a time and that what its SELECT saw still holds at its UPDATE: exclusion alone is not
inductive, since LeaseUpdate looks only at what was selected. From the same invariant, and that no
identifier is above the last one issued, `LedgerKept`: each step of the queue is one of TaskLedger's
or none, so the two-step methods look atomic. `LatestHolderCompletes` needs no lock and holds for several
objects: the identifier in a row is the last one its task was granted under, and complete compares it.

**Execution_proofs**: `StageData` for any number of stages, pauses and resumes (the invariant says of the
copy in memory and of the file alike that the outputs up to the stage are there; and a call that is under way has a
file). `HistoryWalks` and `CheckedHistoryWalks`, for any graph and number of callers: the walk holds
of every copy in flight, so it does not matter whose copy is saved last. `ChecksCount` needs one caller,
which is what the scenario "runbook" says: then a copy in flight is the saved state, whose counters and checks agree
with what happened in this visit; with two, a save overwrites the other's. `TypesCorrect`.

**Ledgers_proofs**: `LogsSound`, `VerifiedLogsComplete`, `RevisionsKept`, `FailsClosed`, `TypesCorrect`.
One store object: the rows' numbers rise, no dedupe id comes twice, its cache agrees with the file, and either
a line is lost, which `verify` sees, or every acknowledged row is there; a migration under way holds the rows of
the file it will replace. Two objects that do not migrate: who writes holds the lock, and the row in its hands fits the
end of the chain. Document store: where a save is says what is on disk already; a line that a crash cut
spoils the revisions next to it and no others. Evidence ledger: a process between scan and write holds the
flock, and what it scanned is still true; a line behind a torn one spoils the file, so it may be
incomplete, but not silently.

**Processes_proofs**: `EveryResultAudited`, `NoBaitLeft` (a job without an end has no result, hence no
entry), `OpenBreakerKeepsOut`, whose premise `BreakerHasIsOpen` obase's own breaker does not meet (run
processes_breaker). `NothingLeftRunning`: a process that is up has a run tracked as running, to which nobody has
answered; and the timed calls' place says which of runner, child, queue and file exist. `GrantsKept`: a granted run
stays marked cancelled while its coroutine waits. `AnswersTrue`: besides the timed calls, names and
containers of the Docker daemon are one to one, ids are given out once, and each step of a client's call says which container
it looked up and what it already did to it. `TypesCorrect`.

**Coordination_proofs**, for any rate, period, number of callers, users and sizes:

* `LimiterIsExact`: the stamps in the window are the last grants, all earlier grants have left it, and a caller that
  sleeps does so until the oldest stamp of a full window leaves.
* `BreakerCounts`: the counter is the run of failures whatever the state they arrive in, which is
  what late answers could break.
* `UsersHaveResources`. Pool: a slot is never "idle", each container has one slot, one holder and one start; slots
  and creations together are at most the size and one more per further user. GPU: one call at a time has the lock, at most one model
  is loaded, and at each place of the call it is known what fits. Shared blocks: what has a name is tracked
  or cached, and a block is whole for its last writer, or torn by a longer text or by two writers. Browser: unless two starts raced, the live browser is the one in use.
* `LoopWakesWaiters`: on one loop, who is about to register waits for a request that is still undecided. With threads it is not
  (run coordination_wakeup).

**Stores_proofs** extends it with what is stored and looked up, for any clients, names, keys, limits, words, collections,
notes and answers of the exchange:

* `StoresAreKept`, from one invariant per store; the clocks and counters they share only rise, so a store at rest keeps its own.
  *Shared memory*: as Coordination_proofs says. *Memories, chunks, pairs*: rows are
  numbered as they came, so the newest by number is the latest. *Pages*: while no two writers crossed, one hand is at the page and the
  open file is the temporary one, never the page. *Checkpoints*: each statement of a save says what its transaction holds and what
  commits is what was promised. *Graph nodes*: while nobody deletes and none was cut off, both forms of a page say the same. *Genomes*:
  whoever is dropped scores least, which needs the choice of the victim from the members present, not only the size. *Causal graph*: what is
  kept, serialized and rebuilt is joined and has no circle: an edge is added after the search from its end found no way back, and a closed
  walk through the new edge would be such a way. *Bars*: while pushes are in order the cache is the newest of the settled
  bars, and dropping the oldest of more than the limit keeps it so. *Timed entries*: one per key. *History*: unless two
  fetches of one question overlapped, nobody was told what is newer than the shelf has. *Options*: parts that are done were born after
  the call began, which bounds the age of the chain put together. *Recall*: ids are never used again, and the newest of a window are
  those above which fewer than its length lie. *Layers*: who writes a body found no later one, and a sidecar
  is of the body there is or of an earlier one. Some sets are the instance's own, in the theorem as in the run: the three keys and three
  prefixes of the pair store, the two node ids and two price symbols, a causal graph on three nodes, scores from 0 to 2, one
  kind of option, searches for the best one.
* `TypesCorrect`, on top of the invariants of both modules, which already bound most variables. What is added: a breaker's cooling and the pool's lost
  containers; waiters of the bus that are not idle wait for a request; browsers that are starting count as launched, and saves of the
  population that are under way count as stored, which needs cardinalities; every number that was stored was given out;
  every time a look-up kept has passed.

**Services_proofs**, for any clients, agents, messages, callers, threads, handlers, costs and bounds:

* `LockIsHeld`, from NoToken not being a client: inductive with the types, since an exit compares the token.
* `OverrunsAreTold`: a goal is paused exactly while its pause is being logged, the log never knows of more than was charged; the priced
  costs are part of the total, and what was used is the total and what was lost.
* `CallersAreAnswered`. stdio: a response bears the number of the request it answers, an answer is the request's or an error, and
  when the read loop ended though nobody closed the client, the server is dead and everybody who waits is settled. HTTP: while nothing was
  spoilt by overlapping starts, exactly one caller starts the one open client, or those who close it leave none open.
* `MailArrives`. Team: only files of sent messages are listed, and a message about to be unlinked was
  read, could not be parsed, or was taken by another reader. Channels: below each message that was handed out or is on its way, all were handed, are on
  that way too, or were left out of a page by Slack.
* `DeliveryIsWhole`. Queue: a delivery about to be acknowledged is of a handled message. Event bus: different threads hand out different
  events, and what a handler was told and what it is still to be told are disjoint and make up what it is due. Daemon bus: the queue of
  a handle rises above everything it gave out, with the mark of its end last. Barrier and memory queue: who came late has its
  answer, and what is pending has a timer.
* `RevocationLasts`, an action property. The revocation file is empty only while one call is between opening and filling it; while no two
  were there at once and none died there, the nonces in memory, in the file or in the hands of that call include all that
  were settled, so a restart reads them all. A session in a line that is over was registered before its line ended, and a refresh
  under way that finds it so issues nothing.

**Adapters_proofs**, about the other components of MCServices, for any agents, threads, messages and bounds that are parameters; what
MCServices fixes (two registry names, the rate's window of 2, 3 retries) is fixed here too:

* `RegistriesTell`. Team: whatever is in config.json, or in an agent's hands, is a sound team; while no two calls met and none was cut off,
  what an agent is about to write is who is wanted. Registries: whatever was registered, replaced or removed, `has`, `get` and the lists
  read the same dictionaries, and discovery leaves none out unless it failed. Plugins: unless writers crossed or one died, the shared file is
  one call's copy with that call's change. Loads: while they do not overlap, the import hook is the real one or
  the loader's, who remembers the real one.
* `GatewaysTell`. ACP: a session's mark is set by a pending cancel and taken away by its end; unless another call came between, both sides
  say the same. A2A: "cancelled" is told only of a task whose end was confirmed. Workspace: who saves is the
  last in the documents' order, and each record names the document it was written after. Balance: the window of answers is the last of
  all that were seen; attempts: each wait is twice the one before and there are no more than allowed.

Only model-checked:

* liveness (`EveryTaskSettles`, `ExecutionEnds`, `CallsReturn`, `EverythingEnds`, `DecisionDelivered`): out of the prover's reach;
* `SequencesAgree`: what the searches of WorkflowEngine, CommerceSchema and Delivery compute for every graph, and what filtering and
  sorting leave of lists (Providers, Symbols), is an induction over data, which the installed provers cannot do;
* the types of Services (`TypesOK` of MCServices): the parts that matter are in the invariants above, with the types those need;
* what six runs violate.

## Where code and documentation disagree

Six runs end in a counterexample (`PROJECT.json`, findings): two queue objects lease one
task; a store waits for the lock of a file a migration replaced; the executor never sees an open
breaker; a decision from a thread wakes nobody; a released container is never reused;
concurrent `add_task` calls lose tasks. Seen while modelling, modelled as the code has
them, and not the subject of a run:

* harness_adapter:637 reads the process's exit code before the cancel marks the run, so a
  cancelled run may be reported failed or completed.
* circuit_breaker:70 admits any number of calls while half-open.
* rate_limit:33: the timeout does not run while a caller waits for the lock.
* hitl_signal_bus:126: a decision that arrives with the timeout may be answered timed_out.
* docker_pool:152 checks the size before an await and adds after it; :201 compares a time with
  itself; `close` does not wait for creations in progress.
* mcp_stdio:90, 238: `_buf` outlives the process; ids that timed out stay in `_pending`; requests
  registered after the read loop ended wait for their whole timeout.
* team_registry:269 unlinks messages it could not parse; two readers may both receive one;
  `lock_task` takes a task over unconditionally.
* workflow_engine:105 counts nodes, so edges that name unlisted ones can pass; a cancelled node
  is met as an exception object and raises a TypeError.
* loop_event_store:329: a torn last line restarts the chain at genesis; the result does not verify,
  and rows acknowledged behind it are not replayed. :334: the dedupe cache does not see
  other processes' rows.
* QuotaTracker: a charge whose event raises, or a crash before the pause, leaves an overspent goal
  unpaused until its next charge. cost_tracker:366: fallback rates bypass the budget check.
* versionstore: a crash can leave the current document ahead of log and revisions, and a cut index
  line swallows the next revision's.
* evidence_ledger: after a torn line nothing can be read or appended any more (it fails closed).
* mq:163 requeues a message whose handler raised, at once and without a log line; :5 and :107 say it is left
  unacknowledged with a warning.
* runbook: callers that overlap lose registered checks and may exceed the attempt cap.

Tokens, registries, providers:

* signed_token_session:3 calls revocations optionally persistent; they are in memory only.
* permission_contract:236-238 empties the revocation file before it is filled.
* plugin_loader: overlapping loads take each other's guard for the original. `auto_discover` conflicts with
  itself when it is called again after a failure; `register_with_capability` overwrites silently, `register_llm` with
  replace leaves the old capabilities; `has` asks the generic store when the built-in one is empty.
* PluginRegistry: a torn or stale file loses plugins.
* llm: a caller registered as VLM cannot take an image; `register_default_providers` stops half way at a name
  that is taken; the Claude and Gemini callers drop tools and send only the last system message.
* provider_live_state: the probe says ok above the threshold, health from the threshold on, so they disagree at it.
* symbol_normalize: `to_canonical` may answer what `is_canonical` refuses (a double suffix); `to_binance_concat` is
  ambiguous; a perpetual written for helixa is refused by its reader.

Children and machines:

* sympy_runtime: `evaluate` simplifies in the parent, outside of its timeout (335 says otherwise); a result put in the
  queue between the look and the end of the child is lost (376-394).
* `LocalSandboxPool.run_python` ignores its timeout; LocalSandboxRunner, the egress sandbox and ffmpeg leave the child
  running when they are cancelled; DockerSandboxRunner reports any failed wait as a timeout and keeps the container when its start fails.
* docker: the timeout of exec does not bound the call; `reload` outside of the try leaks raw errors; a name conflict is
  reported as a connection error.
* gpu: `ensure_available` is only safe inside `acquire`; `unload_all_except` raises when a provider is registered meanwhile; a loaded
  model can be reported unavailable.
* PosixShm.free unlinks what others use; a shorter text over a longer one reads as `{}`; a write larger than the block
  raises though its doc says False. browser_runner: two overlapping starts make two browsers.

Delivery:

* `enqueue(immediate=True)` of the memory queue does not await its flush, and each flush overwrites the file of the one before.
* daemon_bus: close wakes only one of several receivers. wfg_deadlock_detector: `resolve_deadlocks` may leave a deadlock.
* PgPool.get_or_create: two first calls make two pools. persistence: `write_one` without keys gives an empty conflict target.
* ACP: a transport's own exception leaves the session attached although close promises otherwise; a resume or a close during a
  pending cancel leaves a session "cancelled" that works, or raises KeyError. A2A with an injected transport ignores an error reply; a
  payload without a state counts as ok.
* channel_adapter: a late poll moves the cursor back and messages come again; Slack skips messages when more than a page waits.
* mcp_http: overlapping starts, or a failed one, leave a client open. `get_skill_metadata` may answer another skill's.
* alice_workspace: a record that was cut off makes `list_artifacts` fail for good and swallows the next one.
* team_registry: `cleanup` always says True; a config.json torn by a death is "already there" to create and "not found" to the rest; an
  `add_member` that overlaps a cleanup brings the team back; a removed lead stays lead. "fcntl-based file locking" (docstring): nothing locks.

Stores:

* memory_bank: a deleted memory of the older table comes back at the next open; one unreadable old row fails every list.
* cognitive_store: with PostgreSQL the vector is written without quotes, so a chunk with one is refused; delete always says True.
* knowledge_store: writers share one temporary path; ids `a/b` and `a_b` are one file. checkpoint_store: likewise `a/b`
  and `a:b`; two first saves end in an IntegrityError whose transaction stays open. kv_store: LIKE wildcards in a prefix.
* population_genome_store: a new genome is dropped at once when all others score more; what is dropped of the inactive is
  the oldest, not the lowest; `top_performer` is the first active one.
* graph_storage: a node whose id ends in `-`: `load_all` gives the older page. causal_graph_store: a refused edge leaves its new nodes.
* snapshot_store: the index is in memory, threads may give one version twice. ohlcv_store: the cache keeps gaps after a
  failed push. interaction_history and error_tag_store call helpers with keywords these do not have: every call raises TypeError.
* market_history: "bounded caching" (docstring), but nothing is ever evicted; an end of 0 means now; without an end the cache is never hit.
* options_marketdata: a body that is no JSON escapes raw; a failed gather leaves its other requests running.
* vector_memory: a word the query has twice counts double in `_df`, so a common one scores below zero and what matches is
  left out; a query without hits answers the newest; `query` and `delete` differ on the collection "".
* hierarchical_context: a write over budget raises after the body was replaced.
* cost_tracker: a budget exceeded by the input tokens leaves the output tokens unrecorded; unpriced tokens count 0 when not strict.

## Not modelled, and why

Times are choices of what has run out; contents of documents, messages and rows are opaque;
logging, formatting and schemas are left out. Python's own guarantees (a dictionary operation, an
assignment) are atomic steps. Parts of modelled files that are left out are named in the
component's note. Whole files: thin wrappers of one external call (docker CLI, browsers, mail,
HTTP, solvers, SQL helpers) have no state that could go wrong between two steps; types, constants and
parsing are pure. What has state and still no model is in the plan.

## Plan

Done so far: every component above without (-). Open:

1. Scheduler, harness_bridge, the interrupt flag of hitl_signal_bus, exec of docker_pool.
2. Proofs: the rest of the types of MCServices.

New components join the existing composites as scenarios, so that the number of runs stays small.

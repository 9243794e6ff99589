-------------------------- MODULE MCCoordination --------------------------
(***************************************************************************)
(* What coroutines, threads and processes coordinate through on one        *)
(* machine, for TLC: the rate limiter, the circuit breaker, the decision   *)
(* bus (all on one event loop, or with deciding threads), the container    *)
(* pool, the GPU, shared memory, the browser, and the stores on disk and   *)
(* in databases.  They share no state, so a behaviour exercises one of     *)
(* them (scenario) and leaves the others as they are at their start.       *)
(***************************************************************************)
EXTENDS RateLimiter, Integers, FiniteSets

CONSTANTS
  Callers, Threshold, MaxFailures,            \* of the circuit breaker
  Waiters, Deciders, MaxGenerations,          \* of the decision bus
  Users, Containers, MaxSize, NoContainer,    \* of the container pool
  Tasks, Processes, Vram, MaxBlocks, MaxTexts, \* of what the machine has once
  Names, Keys, MaxStored, Limit,              \* of the stores
  Times, Limits, Answers, Words, Collections, Notes,        \* of what is looked up,
  Ttl, MaxRetries, Window, MaxClock, MaxLookups, MaxMemories \* and how far

VARIABLES
  scenario,
  st, fails, cooled, call, streak,
  current, outcome, flag, waiter, waits, answer, decider,
  slots, daemon, task, held, closing, lost, verdict,
  keys, loaded, polite, holder, gpu,
  named, blocks, tracked, mapped, writing, texts, latest, torn, cached,
  browser, live, tab, launches, raced,
  count, older, memories, opened, arrived, meant, lite, pg, chunk,
  page, inodes, temp, writer, crossed, last, pairs, put,
  stored, saved, saver, writes, failed, promised, swept, pool, dropped, canon, legacy, pager, node, cut,
  graph, serialized, structures, loose, snapshots, snapper, overlapped,
  bars, barCache, pushing, orderly, entries, clock, given, prices, rows,
  moment, lookups, shelf, reader, heard, newest, met, exchange, part, stock, begun, chain,
  added, memory, forgotten, recalled, layers, noting, twice, search
breakerVars == <<st, fails, cooled, call, streak>>
busVars == <<current, outcome, flag, waiter, waits, answer, decider>>
poolVars == <<slots, daemon, task, held, closing, lost, verdict>>
localVars ==
  <<keys, loaded, polite, holder, gpu, named, blocks, tracked, mapped, writing, texts, latest, torn, cached,
    browser, live, tab, launches, raced>>
storeVars ==
  <<count, older, memories, opened, arrived, meant, lite, pg, chunk, page, inodes, temp, writer,
    crossed, last, pairs, put>>
archiveVars ==
  <<stored, saved, saver, writes, failed, promised, swept, pool, dropped, canon, legacy, pager, node, cut,
    graph, serialized, structures, loose, snapshots, snapper, overlapped,
    bars, barCache, pushing, orderly, entries, clock, given, prices, rows>>
lookupVars ==
  <<moment, lookups, shelf, reader, heard, newest, met, exchange, part, stock, begun, chain,
    added, memory, forgotten, recalled, layers, noting, twice, search>>

Breaker == INSTANCE CircuitBreaker
LoopBus == INSTANCE HitlBus WITH Threads <- FALSE, Timeouts <- FALSE
ThreadBus == INSTANCE HitlBus WITH Threads <- TRUE, Timeouts <- TRUE
Pool == INSTANCE DockerPool

Local == INSTANCE LocalResources WITH Users <- Processes
Store == INSTANCE Stores WITH Clients <- Processes
Archive == INSTANCE Archives WITH Actors <- Processes, calls <- stored, cached <- barCache
Lookup == INSTANCE Lookups WITH
  Callers <- Processes, MaxCalls <- MaxLookups, now <- moment, calls <- lookups, crossed <- twice

ASSUME BreakerAssumption == Threshold \in Nat \ {0} /\ MaxFailures \in Nat
ASSUME InstanceAssumptions == ThreadBus!BoundsAssumption /\ Pool!PoolAssumption
\* What the GPU has, and how many blocks and browsers are made.
ASSUME MachineAssumption == Vram \in Nat /\ MaxBlocks \in Nat \ {0} /\ MaxTexts \in Nat

\* What is looked up, and stored; nobody is called "nobody".
ASSUME StoresAssumption ==
  /\ IsFiniteSet(Names) /\ Keys # {} /\ "nobody" \notin Processes /\ MaxStored \in Nat /\ Limit \in Nat \ {0}
ASSUME LookupsAssumption ==
  /\ Times \subseteq Int /\ Limits \subseteq Nat \ {0} /\ Notes # {}
  /\ \A sent \in Answers : sent \subseteq Int /\ IsFiniteSet(sent)
  /\ Ttl \in Nat \ {0} /\ MaxRetries \in Nat /\ Window \in Nat \ {0}
  /\ MaxClock \in Nat /\ MaxLookups \in Nat /\ MaxMemories \in Nat

\* The scenarios of the components that have several.
Deciding == {"loop bus", "thread bus"}
OnTheMachine == {"gpu", "blocks", "browser"}
Storing == {"bank", "chunks", "pages", "kv"}
Archiving ==
  {"checkpoints", "genomes", "nodes", "causal graph", "snapshots", "bars", "ttl", "prices"}
LookingUp == {"history", "options", "recall", "layers"}

\* Scenarios whose components start in several states fix them in the others.
CoordinationInit ==
  /\ scenario \in {"limiter", "breaker", "pool"} \cup Deciding \cup OnTheMachine \cup Storing \cup Archiving
       \cup LookingUp
  /\ Init /\ Breaker!Init /\ LoopBus!Init /\ Pool!Init /\ Local!Init /\ Store!Init /\ Archive!Init
  /\ Lookup!Init
  /\ scenario # "gpu" => polite
  /\ scenario # "bank" => older = [n \in Names |-> "none"]
  /\ scenario # "kv" => \A k \in Store!PairKeys : pairs[k] = Store!Unset
  /\ scenario # "options" => exchange = "okx"
CoordinationNext ==
  /\ UNCHANGED scenario
  /\ \/ scenario = "limiter" /\ Next
     \/ scenario = "breaker" /\ Breaker!Next
     \/ scenario = "loop bus" /\ LoopBus!Next
     \/ scenario = "thread bus" /\ ThreadBus!Next
     \/ scenario = "pool" /\ Pool!Next
     \/ scenario = "gpu" /\ Local!GpuNext
     \/ scenario = "blocks" /\ Local!BlockNext
     \/ scenario = "browser" /\ Local!BrowserNext
     \/ scenario = "bank" /\ Store!BankNext
     \/ scenario = "chunks" /\ Store!ChunkNext
     \/ scenario = "pages" /\ Store!PageNext
     \/ scenario = "kv" /\ Store!KvNext
     \/ scenario = "checkpoints" /\ Archive!CheckpointNext
     \/ scenario = "genomes" /\ Archive!GenomeNext
     \/ scenario = "nodes" /\ Archive!NodeNext
     \/ scenario = "causal graph" /\ Archive!CausalNext
     \/ scenario = "snapshots" /\ Archive!SnapshotNext
     \/ scenario = "bars" /\ Archive!BarNext
     \/ scenario = "ttl" /\ Archive!TtlNext
     \/ scenario = "prices" /\ Archive!PriceNext
     \/ scenario = "history" /\ Lookup!HistoryNext
     \/ scenario = "options" /\ Lookup!OptionNext
     \/ scenario = "recall" /\ Lookup!RecallNext
     \/ scenario = "layers" /\ Lookup!LayerNext
  /\ scenario # "limiter" => UNCHANGED vars
  /\ scenario # "breaker" => UNCHANGED breakerVars
  /\ scenario \notin Deciding => UNCHANGED busVars
  /\ scenario # "pool" => UNCHANGED poolVars
  /\ scenario \notin OnTheMachine => UNCHANGED localVars
  /\ scenario \notin Storing => UNCHANGED storeVars
  /\ scenario \notin Archiving => UNCHANGED archiveVars
  /\ scenario \notin LookingUp => UNCHANGED lookupVars

CoordinationSpec ==
  /\ CoordinationInit
  /\ [][CoordinationNext]_<<scenario, vars, breakerVars, busVars, poolVars, localVars, storeVars, archiveVars,
                            lookupVars>>
  /\ scenario = "loop bus" => LoopBus!Fairness

\* All keep their types.
TypesOK ==
  /\ scenario = "limiter" => TypeOK
  /\ scenario = "breaker" => Breaker!TypeOK
  /\ scenario \in Deciding => ThreadBus!TypeOK
  /\ scenario = "pool" => Pool!TypeOK
  /\ scenario \in OnTheMachine => Local!TypeOK
  /\ scenario \in Storing => Store!TypeOK
  /\ scenario \in Archiving => Archive!TypeOK
  /\ scenario \in LookingUp => Lookup!TypeOK
\* No more than rate calls start within a period; who waits for the limiter waits
\* no longer than it must: a call is refused for a full window only, and room
\* that frees up is used.
LimiterKeepsTime == WindowRespected /\ RefusalIsEarned /\ RoomIsUsed
\* The breaker is closed exactly while fewer than failure_threshold failures came
\* since the last success.
ClosedWhileFewFailures == Breaker!ClosedWhileFewFailures
\* On one event loop, every waiter of a decided request is answered.
DecisionDelivered == scenario = "loop bus" => LoopBus!DecisionDelivered
\* No waiter sleeps through a decision made by a thread ("event.set() from other
\* threads is safe").
ThreadsWakeWaiters == scenario = "thread bus" => ThreadBus!NoLostWakeup
\* acquire says "pool full and no idle container" only when all are in use.
FullMeansBusy == Pool!FullMeansBusy
\* A busy slot of the pool belongs to one user or one call in progress, also
\* after a failed start; the GPU holds what fits and what is in use; blocks of
\* shared memory can be freed; there is one browser at most.
ResourcesHaveUsers ==
  /\ scenario = "pool" => Pool!OneHolder /\ Pool!BusySlotsAreUsed /\ Pool!OverlapsOnlyOverfill
  /\ scenario \in OnTheMachine => Local!ModelsFit /\ Local!BlocksCanBeFreed /\ Local!BrowserIsKnown
\* What a store answers is what was stored last, whoever else stored, died or was
\* refused meanwhile.
StoresKeep ==
  /\ scenario = "blocks" => Local!ReadsAreWhole
  /\ scenario \in Storing =>
       Store!MemoriesAreTheLatest /\ Store!ChunksAreFound /\ Store!PagesAreWhole /\ Store!KvIsLatest
  /\ scenario \in Archiving =>
       /\ Archive!CheckpointsHold /\ Archive!GenomesAreKept /\ Archive!NodesAgree
       /\ Archive!GraphIsAcyclic /\ Archive!VersionsCount
       /\ Archive!BarsAreNewest /\ Archive!LookupsAreFresh /\ Archive!BatchAgrees
  /\ scenario \in LookingUp =>
       Lookup!HistoryIsSound /\ Lookup!OptionsAreSound /\ Lookup!RecallIsRelevant /\ Lookup!LayersFollow

=============================================================================

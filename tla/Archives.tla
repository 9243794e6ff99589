------------------------------- MODULE Archives -------------------------------
(***************************************************************************)
(* Where states, graphs and prices are kept: checkpoints in one SQLite     *)
(* file (checkpoint_store: CheckpointNext), a population of workflows      *)
(* (population_genome_store: GenomeNext), nodes as Markdown pages          *)
(* (graph_storage: NodeNext), a causal graph (causal_graph_store:          *)
(* CausalNext), versions of a state (snapshot_store: SnapshotNext), bars   *)
(* in a database and a cache (ohlcv_store: BarNext), values that grow      *)
(* stale (tv_cache: TtlNext) and prices (price_store: PriceNext).          *)
(*                                                                         *)
(* External: SQLite's locks, the file system, the databases and caches     *)
(* behind the price and bar stores.  What is stored is the number of the   *)
(* call that stored it.                                                    *)
(*                                                                         *)
(* A definition named X_Slip is X with a slip a programmer could make; the *)
(* properties are checked to notice it.  Nothing else uses it.             *)
(***************************************************************************)
EXTENDS Naturals, SequencesExt, FiniteSetsExt

CONSTANTS
  Actors,     \* processes or threads
  Keys,       \* of checkpoints, and of what is cached
  MaxStored,  \* bound: calls that store something; versions of the causal graph
  Limit       \* max_population, LIST_BAR_LIMIT and max_entries

Nodes == {"n", "n-"}        \* an id that ends in "-" and one that does not
Places == {"a", "b", "c"}   \* the causal graph's nodes
Symbols == {"x", "y"}
Kinds == {"none", "zero", "bad", "number"}
NoRow == [price |-> "absent", last |-> "absent"]
PriceRows == [price : Kinds, last : Kinds] \cup {NoRow}

VARIABLES
  calls,       \* ghost: calls that stored something
  saved,       \* checkpoints that are committed, per key
  saver,       \* per process: what its save or reset is at
  writes,      \* who has the database's write lock, "nobody", and what it wrote
  failed,      \* ghost: processes whose last insert was refused
  promised,    \* ghost, per key: what the last call that returned stored
  swept,       \* ghost: keys whose row was gone when it was updated
  pool,        \* genomes in the order they came: score, active
  dropped,     \* ghost: what the latest addition dropped
  canon, legacy,  \* pages under a node's name, and under its older name
  pager,       \* per process: what it is doing to a page
  node,        \* ghost, per node: what it should be
  cut,         \* ghost: nodes that a deletion was at when its process died
  graph,       \* the causal graph: nodes, edges, version
  serialized,  \* a form of it that was kept
  structures,  \* ghost: the structure at each version
  loose,       \* ghost: the structure changed where the version does not tell
  snapshots,   \* SnapshotStore._index: version and what is in the file
  snapper,     \* per thread: the version its save is writing, 0 for none
  overlapped,  \* ghost: two saves overlapped
  bars, cached,   \* bars in the database, and in the cache
  pushing,     \* per writer: the bars it is to put into the cache
  orderly,     \* ghost: batches came one by one, each newer, and all were cached
  entries,     \* TTLCache._entries in their order
  clock,
  given,       \* what the latest lookup gave
  prices, rows    \* what the cache and the database say of a symbol

checkpointVars == <<saved, saver, writes, failed, promised, swept>>
genomeVars == <<pool, dropped>>
nodeVars == <<canon, legacy, pager, node, cut>>
causalVars == <<graph, serialized, structures, loose>>
snapshotVars == <<snapshots, snapper, overlapped>>
barVars == <<bars, cached, pushing, orderly>>
ttlVars == <<entries, clock, given>>
priceVars == <<prices, rows>>
vars == <<calls, checkpointVars, genomeVars, nodeVars, causalVars, snapshotVars, barVars, ttlVars, priceVars>>

AnyKey == CHOOSE k \in Keys : TRUE
Idle == [at |-> "idle", key |-> AnyKey, text |-> 0]
Unlocked == [by |-> "nobody", key |-> AnyKey, text |-> 0, hit |-> FALSE]
NoDrop == [score |-> 0, active |-> FALSE]
EmptyGraph == [nodes |-> {}, edges |-> {}]
NoAnswer == [hit |-> FALSE, key |-> AnyKey, value |-> 0, old |-> FALSE, allowed |-> FALSE]
Init ==
  /\ calls = 0 /\ saved = [k \in Keys |-> 0] /\ saver = [p \in Actors |-> Idle]
  /\ writes = Unlocked /\ failed = {} /\ promised = [k \in Keys |-> 0] /\ swept = {}
  /\ pool = << >> /\ dropped = NoDrop
  /\ canon = [n \in Nodes |-> 0] /\ legacy = [n \in Nodes |-> MaxStored + 1]
  /\ pager = [p \in Actors |-> [Idle EXCEPT !.key = "n"]] /\ node = legacy /\ cut = {}
  /\ graph = EmptyGraph /\ serialized = EmptyGraph /\ structures = <<EmptyGraph>> /\ loose = FALSE
  /\ snapshots = << >> /\ snapper = [p \in Actors |-> 0] /\ overlapped = FALSE
  /\ bars = {} /\ cached = << >> /\ pushing = [p \in Actors |-> {}] /\ orderly = TRUE
  /\ entries = << >> /\ clock = 0 /\ given = NoAnswer
  /\ prices = [s \in Symbols |-> NoRow] /\ rows = [s \in Symbols |-> FALSE]

NewCall == calls < MaxStored /\ calls' = calls + 1

-----------------------------------------------------------------------------
\* CheckpointStore.save looks for the row, writes and commits.
Locked(p) == writes.by \notin {"nobody", p}
SaveLooks(p, k) ==
  /\ saver[p].at = "idle" /\ NewCall
  /\ saver' = [saver EXCEPT ![p] = [at |-> IF saved[k] = 0 THEN "insert" ELSE "update", key |-> k, text |-> calls']]
  /\ UNCHANGED <<saved, writes, failed, promised, swept>>
Reset(p, k) ==
  /\ saver[p].at = "idle" /\ saver' = [saver EXCEPT ![p] = [at |-> "delete", key |-> k, text |-> 0]]
  /\ UNCHANGED <<calls, saved, writes, failed, promised, swept>>
SaveWrites(p) ==
  /\ saver[p].at \in {"update", "delete", "insert"} /\ ~Locked(p)
  /\ ~(saver[p].at = "insert" /\ saved[saver[p].key] # 0)
  /\ writes' = [by |-> p, key |-> saver[p].key, text |-> saver[p].text,
                hit |-> saver[p].at = "insert" \/ saved[saver[p].key] # 0]
  /\ saver' = [saver EXCEPT ![p].at = "commit"] /\ UNCHANGED <<calls, saved, failed, promised, swept>>
\* An insert of a key that came in the meantime is refused, and its transaction
\* stays open until the process saves or resets something else.
InsertRefused(p) ==
  /\ saver[p].at = "insert" /\ ~Locked(p) /\ saved[saver[p].key] # 0
  /\ writes' = [Unlocked EXCEPT !.by = p] /\ failed' = failed \cup {p}
  /\ saver' = [saver EXCEPT ![p] = Idle] /\ UNCHANGED <<calls, saved, promised, swept>>
\* Others that wait for the lock get an error in the end.
LockRefused(p) ==
  /\ saver[p].at \in {"insert", "update", "delete"} /\ Locked(p)
  /\ saver' = [saver EXCEPT ![p] = Idle] /\ UNCHANGED <<calls, saved, writes, failed, promised, swept>>
Commits(p) ==
  /\ saver[p].at = "commit" /\ saver' = [saver EXCEPT ![p] = Idle] /\ failed' = failed \ {p}
  /\ saved' = (IF writes.hit THEN [saved EXCEPT ![writes.key] = writes.text] ELSE saved)
  /\ promised' = [promised EXCEPT ![writes.key] = writes.text]
  /\ swept' = (IF writes.hit \/ writes.text = 0 THEN swept \ {writes.key} ELSE swept \cup {writes.key})
  /\ writes' = Unlocked /\ UNCHANGED calls
SaverDies(p) ==
  /\ saver[p].at # "idle" \/ writes.by = p
  /\ saver' = [saver EXCEPT ![p] = Idle] /\ failed' = failed \ {p}
  /\ writes' = (IF writes.by = p THEN Unlocked ELSE writes) /\ UNCHANGED <<calls, saved, promised, swept>>
CheckpointNext ==
  /\ UNCHANGED <<genomeVars, nodeVars, causalVars, snapshotVars, barVars, ttlVars, priceVars>>
  /\ \E p \in Actors :
       \/ SaveWrites(p) \/ InsertRefused(p) \/ LockRefused(p) \/ Commits(p) \/ SaverDies(p)
       \/ \E k \in Keys : SaveLooks(p, k) \/ Reset(p, k)

-----------------------------------------------------------------------------
\* add_genome and _enforce_population_limit: over the limit, the oldest that is
\* inactive goes, else the first of the least score.
Victim(all) ==
  IF \E i \in DOMAIN all : ~all[i].active
  THEN CHOOSE i \in DOMAIN all : ~all[i].active /\ \A j \in 1..i - 1 : all[j].active
  ELSE CHOOSE i \in DOMAIN all : /\ \A j \in DOMAIN all : all[i].score <= all[j].score
                                 /\ \A j \in 1..i - 1 : all[i].score < all[j].score
AddGenome ==
  LET all == Append(pool, [score |-> 1, active |-> TRUE])
  IN IF Len(all) <= Limit THEN pool' = all /\ dropped' = NoDrop
     ELSE pool' = RemoveAt(all, Victim(all)) /\ dropped' = all[Victim(all)]
RecordReward(i, score) == pool' = [pool EXCEPT ![i].score = score] /\ dropped' = NoDrop
Deactivate(i) == pool' = [pool EXCEPT ![i].active = FALSE] /\ dropped' = NoDrop
RemoveGenome(i) == pool' = RemoveAt(pool, i) /\ dropped' = NoDrop
GenomeNext ==
  /\ UNCHANGED <<calls, checkpointVars, nodeVars, causalVars, snapshotVars, barVars, ttlVars, priceVars>>
  /\ \/ AddGenome
     \/ \E i \in DOMAIN pool :
          Deactivate(i) \/ RemoveGenome(i) \/ \E score \in 0..2 : RecordReward(i, score)

-----------------------------------------------------------------------------
\* save_node writes a temporary file of its own and puts it in the page's place.
Page(p, place, n, text) == pager' = [pager EXCEPT ![p] = [at |-> place, key |-> n, text |-> text]]
SaveNode(p, n) ==
  /\ pager[p].at = "idle" /\ NewCall /\ Page(p, "saving", n, calls') /\ UNCHANGED <<canon, legacy, node, cut>>
PutNode(p) ==
  /\ pager[p].at = "saving" /\ canon' = [canon EXCEPT ![pager[p].key] = pager[p].text]
  /\ node' = [node EXCEPT ![pager[p].key] = pager[p].text] /\ cut' = cut \ {pager[p].key}
  /\ Page(p, "idle", "n", 0) /\ UNCHANGED <<calls, legacy>>
\* delete_node: the page, then the one under the older name.
DeleteCanon(p, n) ==
  /\ pager[p].at = "idle" /\ canon' = [canon EXCEPT ![n] = 0] /\ Page(p, "deleting", n, 0)
  /\ UNCHANGED <<calls, legacy, node, cut>>
DeleteLegacy_Slip(p) ==
  /\ pager[p].at = "deleting" /\ Page(p, "idle", "n", 0)
  /\ node' = [node EXCEPT ![pager[p].key] = canon[pager[p].key]] /\ UNCHANGED <<calls, canon, legacy, cut>>
DeleteLegacy(p) ==
  /\ pager[p].at = "deleting" /\ Page(p, "idle", "n", 0)
  /\ legacy' = [legacy EXCEPT ![pager[p].key] = 0]
  /\ node' = [node EXCEPT ![pager[p].key] = canon[pager[p].key]] /\ UNCHANGED <<calls, canon, cut>>
PagerDies(p) ==
  /\ pager[p].at # "idle" /\ Page(p, "idle", "n", 0)
  /\ cut' = (IF pager[p].at = "deleting" THEN cut \cup {pager[p].key} ELSE cut)
  /\ UNCHANGED <<calls, canon, legacy, node>>
\* get_node takes the page under the name first; load_all the one whose file
\* name sorts last.
GetNode(n) == IF canon[n] # 0 THEN canon[n] ELSE legacy[n]
LoadAll(n) == IF legacy[n] # 0 /\ (n = "n-" \/ canon[n] = 0) THEN legacy[n] ELSE canon[n]
NodeNext ==
  /\ UNCHANGED <<checkpointVars, genomeVars, causalVars, snapshotVars, barVars, ttlVars, priceVars>>
  /\ \E p \in Actors :
       \/ PutNode(p) \/ DeleteLegacy(p) \/ PagerDies(p)
       \/ \E n \in Nodes : SaveNode(p, n) \/ DeleteCanon(p, n)

-----------------------------------------------------------------------------
\* CausalGraphStore: add_node, record_failure of a node that is new, and
\* add_edge, which takes an edge off again that closes a circle: of three nodes,
\* one is on a circle if it is reached from itself in three steps.
Followers(g, S) == {e[2] : e \in {x \in g.edges : x[1] \in S}}
Reach(g, n) ==
  LET Grow(S) == S \cup Followers(g, S)
  IN Grow(Grow(Followers(g, {n})))
Acyclic(g) == \A n \in g.nodes : n \notin Reach(g, n)
Bump(g) == structures' = Append(structures, g) /\ graph' = g /\ UNCHANGED <<serialized, loose>>
AddNode(n) == Bump([graph EXCEPT !.nodes = @ \cup {n}])
WithEdge(u, v) == [nodes |-> graph.nodes \cup {u, v}, edges |-> graph.edges \cup {<<u, v>>}]
AddEdge(u, v) ==
  IF Acyclic(WithEdge(u, v)) THEN Bump(WithEdge(u, v))
  ELSE /\ graph' = [graph EXCEPT !.nodes = @ \cup {u, v}] /\ loose' = (loose \/ graph' # graph)
       /\ UNCHANGED <<serialized, structures>>
Serialize == serialized' = graph /\ UNCHANGED <<graph, structures, loose>>
\* deserialize takes the graph and keeps its version.
Deserialize ==
  /\ graph' = serialized /\ loose' = (loose \/ graph' # graph) /\ UNCHANGED <<serialized, structures>>
CausalNext ==
  /\ UNCHANGED <<calls, checkpointVars, genomeVars, nodeVars, snapshotVars, barVars, ttlVars, priceVars>>
  /\ Serialize \/ Deserialize
     \/ (Len(structures) <= MaxStored /\ ((\E n \in Places : AddNode(n)) \/ \E u, v \in Places : AddEdge(u, v)))

-----------------------------------------------------------------------------
\* SnapshotStore.save: the version, the file, then the index, which is lost when
\* the process ends.
SnapshotBegins(p) ==
  /\ snapper[p] = 0 /\ NewCall /\ snapper' = [snapper EXCEPT ![p] = Len(snapshots) + 1]
  /\ overlapped' = (overlapped \/ \E q \in Actors : snapper[q] # 0) /\ UNCHANGED snapshots
SnapshotEnds(p) ==
  /\ snapper[p] # 0 /\ snapper' = [snapper EXCEPT ![p] = 0]
  /\ snapshots' = Append(snapshots, [version |-> snapper[p], state |-> Len(snapshots) + 1])
  /\ UNCHANGED <<calls, overlapped>>
ForgetSnapshots ==
  /\ snapshots' = << >> /\ snapper' = [p \in Actors |-> 0] /\ overlapped' = FALSE /\ UNCHANGED calls
\* load: the first of that version, 0 for none.
LoadVersion(v) ==
  LET those == {i \in DOMAIN snapshots : snapshots[i].version = v}
  IN IF those = {} THEN 0 ELSE snapshots[CHOOSE i \in those : \A j \in those : i <= j].state
SnapshotNext ==
  /\ UNCHANGED <<checkpointVars, genomeVars, nodeVars, causalVars, barVars, ttlVars, priceVars>>
  /\ ForgetSnapshots \/ \E p \in Actors : SnapshotBegins(p) \/ SnapshotEnds(p)

-----------------------------------------------------------------------------
\* write_ohlcv_bars: the database, then the cache, the newest in front; what the
\* cache fails to take is not tried again.
At(S, i) == {x \in S : Cardinality({y \in S : y > x}) = i - 1}
NewestFirst(S) == [i \in 1..Cardinality(S) |-> CHOOSE x \in At(S, i) : TRUE]
Cut(s) == IF Len(s) > Limit THEN SubSeq(s, 1, Limit) ELSE s
WriteBars(p, batch) ==
  /\ pushing[p] = {} /\ bars' = bars \cup batch /\ pushing' = [pushing EXCEPT ![p] = batch]
  /\ orderly' = (orderly /\ (\A q \in Actors : pushing[q] = {}) /\ Min(batch) > Max({0} \cup bars))
  /\ UNCHANGED cached
PushCache(p) ==
  /\ pushing[p] # {} /\ pushing' = [pushing EXCEPT ![p] = {}]
  /\ cached' = Cut(NewestFirst(pushing[p]) \o cached)
  /\ UNCHANGED <<bars, orderly>>
CacheFails(p) ==
  /\ pushing[p] # {} /\ pushing' = [pushing EXCEPT ![p] = {}] /\ orderly' = FALSE /\ UNCHANGED <<bars, cached>>
\* read_ohlcv_list_or_fallback, when the cache can be read.
ReadBars == IF cached # << >> THEN cached ELSE Cut(NewestFirst(bars))
BarNext ==
  /\ UNCHANGED <<calls, checkpointVars, genomeVars, nodeVars, causalVars, snapshotVars, ttlVars, priceVars>>
  /\ \E p \in Actors :
       PushCache(p) \/ CacheFails(p)
       \/ \E batch \in {S \in SUBSET (1..MaxStored + 1) : Cardinality(S) \in {1, 2}} : WriteBars(p, batch)

-----------------------------------------------------------------------------
\* TTLCache: store and lookup, with fresh_until and stale_until.
Of(k) == {i \in DOMAIN entries : entries[i].key = k}
Others(k) == IF Of(k) = {} THEN entries ELSE RemoveAt(entries, CHOOSE i \in Of(k) : TRUE)
StoreEntry(k, ttl, stale) ==
  LET all == Append(Others(k), [key |-> k, value |-> calls', fresh |-> clock + ttl, usable |-> clock + ttl + stale])
  IN /\ NewCall /\ entries' = (IF Len(all) > Limit THEN Tail(all) ELSE all)
     /\ given' = NoAnswer /\ UNCHANGED clock
Usable(e, allowed) == clock <= e.fresh \/ (allowed /\ clock <= e.usable)
Lookup(k, allowed) ==
  /\ UNCHANGED <<calls, clock>>
  /\ IF Of(k) # {}
     THEN LET e == entries[CHOOSE i \in Of(k) : TRUE]
          IN IF Usable(e, allowed)
             THEN /\ entries' = Append(Others(k), e)
                  /\ given' = [hit |-> TRUE, key |-> k, value |-> e.value, old |-> clock > e.fresh, allowed |-> allowed]
             ELSE entries' = (IF clock > e.usable THEN Others(k) ELSE entries) /\ given' = NoAnswer
     ELSE given' = NoAnswer /\ UNCHANGED entries
Tick == clock < 2 /\ clock' = clock + 1 /\ given' = NoAnswer /\ UNCHANGED <<calls, entries>>
TtlNext ==
  /\ UNCHANGED <<checkpointVars, genomeVars, nodeVars, causalVars, snapshotVars, barVars, priceVars>>
  /\ \/ Tick
     \/ \E k \in Keys :
          (\E allowed \in BOOLEAN : Lookup(k, allowed)) \/ \E ttl, stale \in 0..1 : StoreEntry(k, ttl, stale)

-----------------------------------------------------------------------------
\* A price in the cache is the first field that is not 0, or the last one there
\* is; text that is no number sends the caller to the database.
SetPrice(s, row, known) == prices' = [prices EXCEPT ![s] = row] /\ rows' = [rows EXCEPT ![s] = known]
Raw(row) == IF row.price \in {"bad", "number"} THEN row.price ELSE row.last
InCache(s) == prices[s] # NoRow /\ Raw(prices[s]) \in {"zero", "number"}
FromDb(s) == IF rows[s] THEN "db" ELSE "none"
\* get_latest_price and get_prices_batch.
LatestPrice(s) == IF InCache(s) THEN Raw(prices[s]) ELSE FromDb(s)
Missing(listed) == {s \in listed : ~InCache(s)}
PricesBatch(listed) ==
  [s \in listed |-> IF s \in Missing(listed) THEN FromDb(s) ELSE IF InCache(s) THEN Raw(prices[s]) ELSE "none"]
PriceNext ==
  /\ UNCHANGED <<calls, checkpointVars, genomeVars, nodeVars, causalVars, snapshotVars, barVars, ttlVars>>
  /\ \E s \in Symbols : \E row \in PriceRows : \E known \in BOOLEAN : SetPrice(s, row, known)

Next ==
  CheckpointNext \/ GenomeNext \/ NodeNext \/ CausalNext \/ SnapshotNext \/ BarNext \/ TtlNext \/ PriceNext
Spec == Init /\ [][Next]_vars

-----------------------------------------------------------------------------
\* Every variable has its type.
TypeOK ==
  /\ calls \in 0..MaxStored /\ saved \in [Keys -> 0..MaxStored] /\ writes.by \in Actors \cup {"nobody"}
  /\ \A p \in Actors : saver[p].at \in {"idle", "insert", "update", "delete", "commit"}
                       /\ pager[p].at \in {"idle", "saving", "deleting"}
  /\ \A i \in DOMAIN pool : pool[i].score \in 0..2
  /\ canon \in [Nodes -> 0..MaxStored] /\ graph.nodes \subseteq Places /\ overlapped \in BOOLEAN
  /\ snapper \in [Actors -> 0..MaxStored] /\ Len(cached) <= Limit /\ clock \in 0..2
  /\ \A s \in Symbols : prices[s] \in PriceRows /\ rows[s] \in BOOLEAN

\* A checkpoint is what the last call that returned made of it, unless its row
\* was deleted between that call's look and its update; and only a call at work,
\* or a process whose last insert was refused, keeps the others from writing.
CheckpointsHold ==
  /\ \A k \in Keys : saved[k] = promised[k] \/ k \in swept
  /\ writes.by # "nobody" => saver[writes.by].at = "commit" \/ writes.by \in failed

\* A population stays within its limit, and an addition drops none that is active
\* while one is not, nor one that scores more than another.
GenomesAreKept ==
  /\ Len(pool) <= Limit
  /\ dropped.active => \A i \in DOMAIN pool : pool[i].active /\ pool[i].score >= dropped.score

\* A node is what was saved last, whoever died; both ways of reading agree, but
\* for an id that ends in "-" while there is a page under its older name.
NodesAgree ==
  \A n \in Nodes :
    /\ (\A p \in Actors : pager[p].at # "deleting" \/ pager[p].key # n) /\ n \notin cut => GetNode(n) = node[n]
    /\ LoadAll(n) # GetNode(n) => n = "n-" /\ legacy[n] # 0

\* The graph has no circle, and its version tells its structure, unless an edge
\* was refused that brought new nodes, or a graph was loaded into it.
GraphIsAcyclic == Acyclic(graph) /\ (loose \/ Last(structures) = graph)

\* The versions of a state count up from 1, and each loads what was saved as it,
\* as long as no two threads save at once.
VersionsCount ==
  overlapped \/ \A i \in DOMAIN snapshots : snapshots[i].version = i /\ LoadVersion(i) = i

\* Bars that came in order are read newest first and without a gap.
BarsAreNewest ==
  orderly /\ (\A p \in Actors : pushing[p] = {}) => ReadBars = Cut(NewestFirst(bars))

\* A lookup gives the value stored last, and one that is not fresh only to whoever
\* allows it.
LookupsAreFresh ==
  /\ Len(entries) <= Limit /\ IsInjective([i \in DOMAIN entries |-> entries[i].key])
  /\ given.old => given.allowed
  /\ given.hit => \E i \in DOMAIN entries : entries[i].key = given.key /\ entries[i].value = given.value

\* A batch answers for each symbol what a single call does.
BatchAgrees == \A s \in Symbols : PricesBatch(Symbols)[s] = LatestPrice(s)

=============================================================================

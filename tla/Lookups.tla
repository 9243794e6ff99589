------------------------------- MODULE Lookups -------------------------------
(***************************************************************************)
(* Where answers are looked up: candles of an exchange behind a cache      *)
(* (market_history: HistoryNext), an option chain put together from        *)
(* several requests (options_marketdata: OptionNext), memories found by    *)
(* the words they share with a query (vector_memory: RecallNext) and notes *)
(* with an abstract and an overview (hierarchical_context: LayerNext).     *)
(*                                                                         *)
(* External: the exchanges, which may answer anything or not at all;       *)
(* SQLite; the file system; an embedding and a scorer, which rank as they  *)
(* like.  Callers of market_history are threads, of options_marketdata     *)
(* coroutines, writers of notes processes.  Time is counted in candles.    *)
(***************************************************************************)
EXTENDS Integers, Sequences, FiniteSetsExt

CONSTANTS
  Callers,
  Times,       \* when a history may be asked to start or to end
  Limits,      \* how much may be asked for
  Answers,     \* the candles an exchange may send
  Words, Collections,   \* of memories
  Notes,       \* names of notes
  Ttl,         \* cache_ttl_s, cache_ttl
  MaxRetries,  \* max_retries
  Window,      \* how many memories a query looks at
  MaxClock,    \* bound: time passes
  MaxCalls,    \* bound: fetches begun, writes begun
  MaxMemories  \* bound: memories added

VARIABLES
  now, calls,
  shelf,       \* _CACHE: the answer to a question, since when, and (ghost) when it was asked
  reader,      \* per thread: the question its fetch is about, and when it asked
  heard,       \* ghost: the latest answer a thread was given
  newest,      \* ghost, per question: when the newest answer given was asked
  met,         \* ghost: questions of which two fetches overlapped
  exchange,    \* which one the options are of
  part,        \* per coroutine and request: where it is, its tries, what it got
  stock,       \* OptionsMarketDataAdapter._cache, per request
  begun,       \* per coroutine: when its fetch_options began, None when it is over
  chain,       \* per coroutine: how its latest fetch_options ended
  memory,      \* the rows: id, collection, words
  forgotten,   \* ghost: the ids deleted
  added,       \* how many memories there ever were
  recalled,    \* a query that was just answered: what it asked, saw and gave
  layers,      \* per note: its body (L2), abstract (L0) and overview (L1)
  noting,      \* per process: the note it writes, its text, the layers to go
  crossed,     \* ghost: notes two processes were at
  search       \* retrieve: the notes it has to look at, and those it has scored

historyVars == <<shelf, reader, heard, newest, met>>
optionVars == <<exchange, part, stock, begun, chain>>
recallVars == <<added, memory, forgotten, recalled>>
layerVars == <<layers, noting, crossed, search>>
vars == <<now, calls, historyVars, optionVars, recallVars, layerVars>>

None == -1
Parts == {"instruments", "summaries"}
Options == {"call"}
Layers == {"L0", "L1", "L2"}
EscalateThreshold == 1     \* escalate_threshold
TopK == 1          \* top_k
Empty == MaxCalls + 1   \* the text of a file that was emptied; 0 if there is none

NoQuestion == [start |-> 0, end |-> 0, limit |-> 1]
NoFetch == [asks |-> FALSE, q |-> NoQuestion, since |-> 0]
Unheard == [q |-> NoQuestion, rows |-> {}, candles |-> {}, back |-> FALSE]
Unasked == [at |-> "over", tries |-> 0, got |-> {}, born |-> 0]
NoChain == [said |-> "nothing", options |-> {}, age |-> 0, failed |-> FALSE]
NoRecall == [words |-> {}, of |-> "", n |-> 1, seen |-> {}, found |-> {}]
NotNoting == [at |-> "idle", note |-> CHOOSE n \in Notes : TRUE, text |-> 0, to |-> << >>]
Init ==
  /\ now = 0 /\ calls = 0
  /\ shelf = {} /\ reader = [p \in Callers |-> NoFetch] /\ heard = Unheard /\ newest = {} /\ met = {}
  /\ exchange \in {"deribit", "okx"} /\ part = [p \in Callers |-> [k \in Parts |-> Unasked]]
  /\ stock = [k \in Parts |-> [until |-> 0, got |-> {}, born |-> 0]]
  /\ begun = [p \in Callers |-> None] /\ chain = [p \in Callers |-> NoChain]
  /\ added = 0 /\ memory = {} /\ forgotten = {} /\ recalled = NoRecall
  /\ layers = [n \in Notes |-> [l \in Layers |-> 0]] /\ noting = [p \in Callers |-> NotNoting]
  /\ crossed = {} /\ search = [to |-> {}, scored |-> {}, given |-> {}]

NewCall == calls < MaxCalls /\ calls' = calls + 1
Tick == now < MaxClock /\ now' = now + 1

-----------------------------------------------------------------------------
\* fetch_price_history: an end that is not given, or 0, is now; a start that is
\* not given is limit candles before.
Question(start, end, limit) ==
  LET e == IF end \in {None, 0} THEN now ELSE end
  IN [start |-> IF start = None THEN e - limit ELSE start, end |-> e, limit |-> limit]

\* The candles in range; of more than limit, the newest.
Candles(q, rows) ==
  LET inRange == {t \in rows : q.start <= t /\ t <= q.end}
  IN {t \in inRange : Cardinality({u \in inRange : u > t}) < q.limit}

\* What a thread is given, and whether somebody was given a newer answer before.
Hear(q, rows, candles, since) ==
  LET before == {a \in newest : a.q = q} IN
  /\ heard' = [q |-> q, rows |-> rows, candles |-> candles, back |-> \E a \in before : a.since > since]
  /\ newest' = IF \E a \in before : a.since >= since THEN newest
               ELSE (newest \ before) \cup {[q |-> q, since |-> since]}

Kept(q) == {c \in shelf : c.q = q}
Fresh(q) == {c \in Kept(q) : now - c.at <= Ttl}
HistoryCached(q) ==
  \E c \in Fresh(q) :
    Hear(q, c.rows, c.candles, c.since) /\ UNCHANGED <<calls, shelf, reader, met>>
HistoryAsks(p, q) ==
  /\ reader[p] = NoFetch /\ q.start <= q.end /\ Fresh(q) = {} /\ NewCall
  /\ reader' = [reader EXCEPT ![p] = [asks |-> TRUE, q |-> q, since |-> now]]
  /\ met' = IF \E r \in Callers : reader[r].asks /\ reader[r].q = q THEN met \cup {q} ELSE met
  /\ UNCHANGED <<shelf, heard, newest>>
HistoryAnswered(p, rows) ==
  LET q == reader[p].q  since == reader[p].since IN
  /\ reader[p].asks /\ reader' = [reader EXCEPT ![p] = NoFetch]
  /\ shelf' = (shelf \ Kept(q)) \cup
       {[q |-> q, at |-> now, rows |-> rows, candles |-> Candles(q, rows), since |-> since]}
  /\ Hear(q, rows, Candles(q, rows), since) /\ UNCHANGED <<calls, met>>
\* No answer, a refusal or malformed candles raise, whatever the cache has.
HistoryFails(p) ==
  /\ reader[p].asks /\ reader' = [reader EXCEPT ![p] = NoFetch]
  /\ UNCHANGED <<calls, shelf, heard, newest, met>>
HistoryNext ==
  /\ \/ Tick /\ UNCHANGED <<calls, historyVars>>
     \/ /\ UNCHANGED now
        /\ \/ \E start \in {None} \cup Times, end \in {None, 0} \cup Times, limit \in Limits :
                LET q == Question(start, end, limit)
                IN  HistoryCached(q) \/ \E p \in Callers : HistoryAsks(p, q)
           \/ \E p \in Callers : HistoryFails(p) \/ \E rows \in Answers : HistoryAnswered(p, rows)
  /\ UNCHANGED <<optionVars, recallVars, layerVars>>

-----------------------------------------------------------------------------
\* fetch_options gathers its requests, of which two stand for all.
OptionsBegin(p) ==
  /\ begun[p] = None /\ (\A k \in Parts : part[p][k].at \in {"over", "done", "failed"}) /\ NewCall
  /\ begun' = [begun EXCEPT ![p] = now]
  /\ part' = [part EXCEPT ![p] = [k \in Parts |-> [Unasked EXCEPT !.at = "look"]]]
  /\ chain' = [chain EXCEPT ![p] = NoChain] /\ UNCHANGED <<exchange, stock>>

\* _get_json: a look at the cache, then up to max_retries + 1 requests.
PartCached(p, k) ==
  /\ part[p][k].at = "look" /\ stock[k].until > now
  /\ part' = [part EXCEPT ![p][k] = [@ EXCEPT !.at = "done", !.got = stock[k].got, !.born = stock[k].born]]
  /\ UNCHANGED <<calls, exchange, stock, begun, chain>>
PartAsks(p, k) ==
  /\ part[p][k].at = "look" /\ stock[k].until <= now
  /\ part' = [part EXCEPT ![p][k] = [@ EXCEPT !.at = "asked", !.tries = 1]]
  /\ UNCHANGED <<calls, exchange, stock, begun, chain>>
PartAnswered(p, k, options) ==
  /\ part[p][k].at = "asked"
  /\ stock' = [stock EXCEPT ![k] = [until |-> now + Ttl, got |-> options, born |-> now]]
  /\ part' = [part EXCEPT ![p][k] = [@ EXCEPT !.at = "done", !.tries = 0, !.got = options, !.born = now]]
  /\ UNCHANGED <<calls, exchange, begun, chain>>
\* A status below 500 but 429, an error of the API or a body that is no JSON ends
\* it; an exchange that cannot be reached, 429 and the others are tried again.
PartRefused(p, k) ==
  /\ part[p][k].at = "asked" /\ part' = [part EXCEPT ![p][k] = [Unasked EXCEPT !.at = "failed"]]
  /\ UNCHANGED <<calls, exchange, stock, begun, chain>>
PartRetried(p, k) ==
  /\ part[p][k].at = "asked"
  /\ part' = [part EXCEPT ![p][k] = IF @.tries <= MaxRetries THEN [@ EXCEPT !.tries = part[p][k].tries + 1]
                                    ELSE [Unasked EXCEPT !.at = "failed"]]
  /\ UNCHANGED <<calls, exchange, stock, begun, chain>>

\* Deribit's chain is of the options with a summary, OKX's of its instruments.
ChainOf(requests) == IF exchange = "deribit" THEN requests["summaries"].got ELSE requests["instruments"].got
\* gather raises the first failure; the other requests go on by themselves.
Told(p, said, options, failed) ==
  /\ begun[p] # None /\ begun' = [begun EXCEPT ![p] = None]
  /\ chain' = [chain EXCEPT ![p] = [said |-> said, options |-> options, failed |-> failed,
                                    age |-> begun[p] - Min({part[p][k].born : k \in Parts})]]
  /\ part' = [part EXCEPT ![p] = [k \in Parts |-> IF @[k].at \in {"look", "asked"} THEN @[k] ELSE Unasked]]
  /\ UNCHANGED <<calls, exchange, stock>>
OptionsFail(p) == (\E k \in Parts : part[p][k].at = "failed") /\ Told(p, "error", {}, TRUE)
OptionsTold(p) ==
  /\ \A k \in Parts : part[p][k].at = "done"
  /\ Told(p, IF ChainOf(part[p]) = {} THEN "error" ELSE "chain", ChainOf(part[p]), FALSE)
OptionNext ==
  /\ \/ Tick /\ UNCHANGED <<calls, optionVars>>
     \/ /\ UNCHANGED now
        /\ \E p \in Callers :
             \/ OptionsBegin(p) \/ OptionsFail(p) \/ OptionsTold(p)
             \/ \E k \in Parts :
                  \/ PartCached(p, k) \/ PartAsks(p, k) \/ PartRefused(p, k) \/ PartRetried(p, k)
                  \/ \E options \in SUBSET Options : PartAnswered(p, k, options)
  /\ UNCHANGED <<historyVars, recallVars, layerVars>>

-----------------------------------------------------------------------------
\* VectorMemory: an id is never given twice.
Add(collection, words) ==
  /\ added < MaxMemories /\ added' = added + 1 /\ recalled' = NoRecall
  /\ memory' = memory \cup {[id |-> added + 1, of |-> collection, words |-> words]}
  /\ UNCHANGED forgotten
\* delete one, a collection, or all.
Delete(rows) ==
  /\ memory' = memory \ rows /\ forgotten' = forgotten \cup {r.id : r \in rows}
  /\ recalled' = NoRecall /\ UNCHANGED added
NewestOf(rows, n) == {r \in rows : Cardinality({s \in rows : s.id > r.id}) < n}
Size(rows, n) == IF Cardinality(rows) < n THEN Cardinality(rows) ELSE n
\* query: of the newest Window those that score more than 0, or else the newest.
\* A word counts for a memory, but against it if the query has it twice and more
\* than half of what is looked at has it (_df counts it twice): what shares words
\* of both kinds may score either way.  An embedding ranks them all.
Shared(r, words) == r.words \cap words
Speaking(seen, words, double) ==
  {w \in words : w \in double => 2 * Cardinality({r \in seen : w \in r.words}) <= Cardinality(seen)}
Relevant(rows, words) == {r \in rows : Shared(r, words) # {}}
Found(seen, words, double, n, embeds) ==
  LET speaking == Speaking(seen, words, double)
      perhaps == Relevant(seen, speaking)
      surely == {r \in perhaps : Shared(r, words) \subseteq speaking}
      Given(rows) == IF rows = {} THEN {NewestOf(seen, n)} ELSE kSubset(Size(rows, n), rows)
  IN IF embeds THEN kSubset(Size(seen, n), seen)
     ELSE UNION {Given(surely \cup others) : others \in SUBSET (perhaps \ surely)}
Query(collection, words, double, n, embeds) ==
  LET seen == NewestOf({r \in memory : collection \in {"", r.of}}, Window) IN
  /\ \E found \in Found(seen, words, double, n, embeds) :
       recalled' = [words |-> IF embeds \/ double # {} THEN {} ELSE words,
                    of |-> collection, n |-> n, seen |-> seen, found |-> found]
  /\ UNCHANGED <<added, memory, forgotten>>
RecallNext ==
  /\ \/ \E c \in Collections, ws \in SUBSET Words : Add(c, ws)
     \/ \E r \in memory : Delete({r})
     \/ \E c \in Collections : Delete({r \in memory : r.of = c})
     \/ Delete(memory)
     \/ \E c \in Collections \cup {""}, ws \in (SUBSET Words) \ {{}}, n \in Limits, e \in BOOLEAN :
          \E double \in (IF e THEN {{}} ELSE SUBSET ws) : Query(c, ws, double, n, e)
  /\ UNCHANGED <<now, calls, historyVars, optionVars, layerVars>>

-----------------------------------------------------------------------------
\* HierarchicalContextStore.write gives a body and may give its abstract and its
\* overview; set_abstract and set_overview give one of what the body is now.
Writes == {<<"L2">>, <<"L2", "L0">>, <<"L2", "L1">>, <<"L2", "L0", "L1">>}
WritersOf(n) == {p \in Callers : noting[p].at # "idle" /\ noting[p].note = n}
Starts(p, n, text, to) ==
  /\ noting[p].at = "idle" /\ noting' = [noting EXCEPT ![p] = [at |-> "going", note |-> n, text |-> text, to |-> to]]
  /\ crossed' = IF WritersOf(n) = {} THEN crossed ELSE crossed \cup {n}
  /\ UNCHANGED <<layers, search>>
WriteBegins(p, n, to) == NewCall /\ Starts(p, n, calls', to)
SetBegins(p, n, l) ==
  NewCall /\ layers[n]["L2"] \notin {0, Empty} /\ Starts(p, n, layers[n]["L2"], <<l>>)
\* A layer's file is emptied, then written.
LayerOpens(p) ==
  /\ noting[p].at = "going" /\ noting' = [noting EXCEPT ![p].at = "open"]
  /\ layers' = [layers EXCEPT ![noting[p].note][Head(noting[p].to)] = Empty]
  /\ UNCHANGED <<calls, crossed, search>>
LayerWritten(p) ==
  LET w == noting[p] IN
  /\ w.at = "open" /\ layers' = [layers EXCEPT ![w.note][Head(w.to)] = w.text]
  /\ noting' = [noting EXCEPT ![p] = IF Len(w.to) = 1 THEN NotNoting
                                     ELSE [w EXCEPT !.at = "going", !.to = Tail(w.to)]]
  /\ UNCHANGED <<calls, crossed, search>>
\* A sidecar over its budget is refused, after the body was written.
LayerRefused(p) ==
  /\ noting[p].at = "going" /\ Head(noting[p].to) # "L2" /\ noting' = [noting EXCEPT ![p] = NotNoting]
  /\ UNCHANGED <<calls, layers, crossed, search>>
NoterDies(p) ==
  /\ noting[p].at # "idle" /\ noting' = [noting EXCEPT ![p] = NotNoting]
  /\ UNCHANGED <<calls, layers, crossed, search>>

\* retrieve looks at one note after the other (a look is one step here); only one
\* with an abstract counts.
RetrieveBegins ==
  /\ search.to = {} /\ search' = [to |-> Notes, scored |-> {}, given |-> {}]
  /\ UNCHANGED <<calls, layers, noting, crossed>>
\* The scorer may like the abstract and the overview as it will.
Scored(n, l0, l1) ==
  IF layers[n]["L0"] = 0 THEN {}
  ELSE IF l0 >= EscalateThreshold /\ layers[n]["L1"] # 0
       THEN {[note |-> n, layer |-> "L1", abstract |-> l0, score |-> l1]}
       ELSE {[note |-> n, layer |-> "L0", abstract |-> l0, score |-> l0]}
\* The best TopK are given when all were looked at.
Best(scored) ==
  {s \in kSubset(Size(scored, TopK), scored) :
     \A in \in s, out \in scored \ s : in.score >= out.score}
RetrieveLooks(n, l0, l1) ==
  /\ n \in search.to
  /\ LET scored == search.scored \cup Scored(n, l0, l1)  to == search.to \ {n}
     IN \E given \in (IF to = {} THEN Best(scored) ELSE {{}}) :
          search' = [to |-> to, scored |-> scored, given |-> given]
  /\ UNCHANGED <<calls, layers, noting, crossed>>
LayerNext ==
  /\ \/ \E p \in Callers :
          \/ LayerOpens(p) \/ LayerWritten(p) \/ LayerRefused(p) \/ NoterDies(p)
          \/ \E n \in Notes : \E to \in Writes : WriteBegins(p, n, to)
          \/ \E n \in Notes, l \in {"L0", "L1"} : SetBegins(p, n, l)
     \/ RetrieveBegins \/ \E n \in Notes, l0, l1 \in 0..1 : RetrieveLooks(n, l0, l1)
  /\ UNCHANGED <<now, historyVars, optionVars, recallVars>>

-----------------------------------------------------------------------------
\* Every variable has its type.
TypeOK ==
  /\ now \in 0..MaxClock /\ calls \in 0..MaxCalls
  /\ \A c \in shelf : c.at \in 0..MaxClock /\ Cardinality(Kept(c.q)) = 1
  /\ \A p \in Callers : reader[p].since \in 0..MaxClock
  /\ exchange \in {"deribit", "okx"} /\ \A k \in Parts : stock[k].until \in 0..MaxClock + Ttl
  /\ \A p \in Callers, k \in Parts : part[p][k].at \in {"over", "look", "asked", "done", "failed"}
  /\ begun \in [Callers -> None..MaxClock]
  /\ memory \subseteq [id : 1..added, of : Collections, words : SUBSET Words] /\ forgotten \subseteq 1..added
  /\ layers \in [Notes -> [Layers -> 0..Empty]] /\ crossed \subseteq Notes
  /\ \A p \in Callers : noting[p].at \in {"idle", "going", "open"}

\* A caller of fetch_price_history is given candles in the range asked for, no
\* more than limit, and of those the exchange sent none newer is missing; from
\* the cache or not, it never goes back behind what was given before, unless two
\* fetches of the same overlapped.
HistoryIsSound ==
  LET h == heard  inRange == {t \in h.rows : h.q.start <= t /\ t <= h.q.end} IN
  /\ h.candles \subseteq inRange /\ Cardinality(h.candles) <= h.q.limit
  /\ \A t \in inRange \ h.candles : Cardinality(h.candles) = h.q.limit /\ \A c \in h.candles : c > t
  /\ (h.back => h.q \in met)

\* fetch_options answers options, each part of the answer no older than the
\* cache's lifetime when it was called; it raises only for a request that was
\* refused or failed max_retries + 1 times, or for want of options.
OptionsAreSound ==
  \A p \in Callers :
    /\ chain[p].said = "chain" => chain[p].options # {} /\ chain[p].age < Ttl /\ ~chain[p].failed
    /\ chain[p].said = "error" => chain[p].failed \/ chain[p].options = {}
    /\ \A k \in Parts : part[p][k].tries <= MaxRetries + 1

\* What is recalled was not deleted by then and is of the collection asked for;
\* what shares no word with the query comes only if nothing that was seen does,
\* for a query by words that has none twice.
RecallIsRelevant ==
  LET r == recalled IN
  /\ r.found \subseteq r.seen /\ Cardinality(r.found) <= r.n
  /\ \A m \in r.found : r.of \in {"", m.of}
  /\ r.words # {} /\ Relevant(r.found, r.words) # r.found => Relevant(r.seen, r.words) = {}
  /\ \A m \in memory : m.id \notin forgotten

\* A note's abstract and overview are of its body or of an earlier one, never of
\* a later, unless two processes wrote the note at once; retrieve gives an
\* overview only where the abstract passed the threshold, and nothing better
\* than what it gives is left out.
LayersFollow ==
  /\ \A n \in Notes \ crossed, l \in {"L0", "L1"} :
       layers[n]["L2"] # Empty /\ layers[n][l] # Empty => layers[n][l] <= layers[n]["L2"]
  /\ \A s \in search.given : s.layer = "L1" => s.abstract >= EscalateThreshold
  /\ \A s \in search.given, t \in search.scored \ search.given : s.score >= t.score

=============================================================================

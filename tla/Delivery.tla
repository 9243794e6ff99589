------------------------------ MODULE Delivery ------------------------------
(***************************************************************************)
(* What reaches whom inside one process: event_bus (BusNext), daemon_bus   *)
(* (DaemonNext), event_barrier (BarrierNext), debounced_memory_queue       *)
(* (MemoryNext) and the wait-for graph of wfg_deadlock_detector            *)
(* (GraphNext).                                                            *)
(*                                                                         *)
(* Publishers of the event bus are threads, whose handlers run outside of  *)
(* its lock; the rest runs on one event loop, where a step goes from one   *)
(* await to the next.  External: handlers, and when a timer fires.         *)
(* An event is known by its number; an update of a key is one field.       *)
(***************************************************************************)
EXTENDS Naturals, SequencesExt, FiniteSetsExt

CONSTANTS
  Handlers,    \* handlers of the event bus, handles of the daemon bus, waiters
  Publishers,  \* threads that publish
  MaxHistory,  \* _max_history
  MaxEvents,   \* bound: events published
  Agents       \* the wait-for graph's nodes

Types == {"start", "stop"}
Fields == {"f", "g"}

VARIABLES
  subs,        \* per handler: the event type it subscribed to, "*" for all, "" for none
  history,     \* the events kept
  publisher,   \* per thread: the event it is handing out, and the handlers to go
  events,      \* ghost: the types of the events published
  due,         \* ghost, per handler: the events published while it listened
  got,         \* per handler: the events it was given
  handles,     \* per handle of the daemon bus: open, closed
  line,        \* its queue; 0 is the mark of its end
  signal,      \* the barrier's event is set
  waiter,      \* per waiter: idle, waiting, woken, true or false
  early,       \* ghost: waiters that came after the event was set
  pending,     \* DebouncedMemoryQueue._pending of a key
  timer,       \* the key's timer runs
  stored,      \* what the key's file holds
  updates,     \* ghost: the fields given and not yet written
  unarmed,     \* ghost: "immediate" updates came when no timer ran
  waits,       \* WaitForGraph.graph
  priority,    \* its priorities
  order,       \* the order in which it walks nodes and sets
  resolved     \* ghost: resolve_deadlocks has run

busVars == <<subs, history, publisher, events, due, got>>
daemonVars == <<handles, line>>
barrierVars == <<signal, waiter, early>>
memoryVars == <<pending, timer, stored, updates, unarmed>>
graphVars == <<waits, priority, order, resolved>>
vars == <<busVars, daemonVars, barrierVars, memoryVars, graphVars>>

Quiet == [event |-> 0, left |-> {}]
Init ==
  /\ subs = [h \in Handlers |-> ""] /\ history = << >> /\ publisher = [t \in Publishers |-> Quiet]
  /\ events = << >> /\ due = [h \in Handlers |-> {}] /\ got = [h \in Handlers |-> << >>]
  /\ handles = [h \in Handlers |-> "none"] /\ line = [h \in Handlers |-> << >>]
  /\ signal = FALSE /\ waiter = [h \in Handlers |-> "idle"] /\ early = {}
  /\ pending = {} /\ timer = FALSE /\ stored = {} /\ updates = {} /\ unarmed = FALSE
  /\ waits = [a \in Agents |-> {}] /\ priority \in [Agents -> 0..1]
  /\ order \in SetToSeqs(Agents) /\ resolved = FALSE

-----------------------------------------------------------------------------
\* EventBus: subscribe and unsubscribe.
Subscribe(h, type) ==
  /\ subs[h] = "" /\ subs' = [subs EXCEPT ![h] = type]
  /\ UNCHANGED <<history, publisher, events, due, got>>
Unsubscribe(h) ==
  /\ subs[h] # "" /\ subs' = [subs EXCEPT ![h] = ""]
  /\ UNCHANGED <<history, publisher, events, due, got>>

\* publish: under the lock, who is to be told and the history; then the handlers
\* one by one, whether they raise or not.
Matching(type) == {h \in Handlers : subs[h] \in {type, "*"}}
Kept(h) == IF Len(h) > MaxHistory THEN SubSeq(h, Len(h) - MaxHistory + 1, Len(h)) ELSE h
Publish(t, type) ==
  /\ publisher[t] = Quiet /\ Len(events) < MaxEvents /\ events' = Append(events, type)
  /\ history' = Kept(Append(history, Len(events')))
  /\ publisher' = [publisher EXCEPT ![t] = [event |-> Len(events'), left |-> Matching(type)]]
  /\ due' = [h \in Handlers |-> IF subs[h] \in {type, "*"} THEN due[h] \cup {Len(events')} ELSE due[h]]
  /\ UNCHANGED <<subs, got>>
Tell(t, h) ==
  /\ h \in publisher[t].left /\ got' = [got EXCEPT ![h] = Append(@, publisher[t].event)]
  /\ publisher' = [publisher EXCEPT ![t].left = @ \ {h}]
  /\ UNCHANGED <<subs, history, events, due>>
Published(t) ==
  /\ publisher[t] # Quiet /\ publisher[t].left = {} /\ publisher' = [publisher EXCEPT ![t] = Quiet]
  /\ UNCHANGED <<subs, history, events, due, got>>
ClearHistory == history' = << >> /\ UNCHANGED <<subs, publisher, events, due, got>>
BusNext ==
  /\ UNCHANGED <<daemonVars, barrierVars, memoryVars, graphVars>>
  /\ \/ ClearHistory
     \/ \E h \in Handlers : Unsubscribe(h) \/ \E type \in Types \cup {"*"} : Subscribe(h, type)
     \/ \E t \in Publishers :
          Published(t) \/ (\E type \in Types : Publish(t, type)) \/ \E h \in Handlers : Tell(t, h)

-----------------------------------------------------------------------------
\* InProcessDaemonBus: a handle has a queue of its own without a limit, so that
\* a publish is one step; close ends it with a mark.
Open(h) ==
  /\ handles[h] = "none" /\ handles' = [handles EXCEPT ![h] = "open"]
  /\ UNCHANGED <<line, events, due, got>>
PublishAll ==
  /\ Len(events) < MaxEvents /\ events' = Append(events, "topic")
  /\ line' = [h \in Handlers |-> IF handles[h] = "open" THEN Append(line[h], Len(events')) ELSE line[h]]
  /\ due' = [h \in Handlers |-> IF handles[h] = "open" THEN due[h] \cup {Len(events')} ELSE due[h]]
  /\ UNCHANGED <<handles, got>>
Receive(h) ==
  /\ line[h] # << >> /\ line' = [line EXCEPT ![h] = Tail(@)]
  /\ got' = [got EXCEPT ![h] = IF Head(line[h]) = 0 THEN @ ELSE Append(@, Head(line[h]))]
  /\ UNCHANGED <<handles, events, due>>
Close(h) ==
  /\ handles[h] = "open" /\ handles' = [handles EXCEPT ![h] = "closed"]
  /\ line' = [line EXCEPT ![h] = Append(@, 0)] /\ UNCHANGED <<events, due, got>>
DaemonNext ==
  /\ UNCHANGED <<subs, history, publisher, barrierVars, memoryVars, graphVars>>
  /\ PublishAll \/ \E h \in Handlers : Open(h) \/ Receive(h) \/ Close(h)

-----------------------------------------------------------------------------
\* wait_for_event: an event that is set answers at once, else the waiter is
\* registered; a timeout may still beat its wake-up.
WaitFor(h) ==
  /\ waiter[h] = "idle" /\ waiter' = [waiter EXCEPT ![h] = IF signal THEN "true" ELSE "waiting"]
  /\ early' = (IF signal THEN early \cup {h} ELSE early) /\ UNCHANGED signal
Wakes(h) == waiter[h] = "waiting"
SetEvent ==
  /\ signal' = TRUE /\ waiter' = [h \in Handlers |-> IF Wakes(h) THEN "woken" ELSE waiter[h]]
  /\ UNCHANGED early
Answered(h) == waiter[h] = "woken" /\ waiter' = [waiter EXCEPT ![h] = "true"] /\ UNCHANGED <<signal, early>>
TimesOut(h) ==
  /\ waiter[h] \in {"waiting", "woken"} /\ waiter' = [waiter EXCEPT ![h] = "false"]
  /\ UNCHANGED <<signal, early>>
BarrierNext ==
  /\ UNCHANGED <<busVars, daemonVars, memoryVars, graphVars>>
  /\ SetEvent \/ \E h \in Handlers : WaitFor(h) \/ Answered(h) \/ TimesOut(h)

-----------------------------------------------------------------------------
\* DebouncedMemoryQueue.enqueue merges into what is pending.  An immediate one
\* makes a flush that nothing awaits and returns; another arms the timer anew.
Enqueue(f, immediate) ==
  /\ pending' = pending \cup {f} /\ updates' = updates \cup {f}
  /\ timer' = (timer \/ ~immediate)
  /\ unarmed' = (immediate /\ (~timer \/ unarmed)) /\ UNCHANGED stored
\* _flush_one writes what is pending over the file: what was in it is gone.
FlushOne ==
  /\ pending' = {} /\ stored' = (IF pending = {} THEN stored ELSE pending)
  /\ updates' = updates \ pending /\ timer' = FALSE /\ unarmed' = FALSE
TimerFires == timer /\ FlushOne
\* flush_all, and pop, which answers what was written: its timer is cancelled.
FlushAll == pending # {} /\ FlushOne
MemoryNext ==
  /\ UNCHANGED <<busVars, daemonVars, barrierVars, graphVars>>
  /\ TimerFires \/ FlushAll \/ \E f \in Fields : \E i \in BOOLEAN : Enqueue(f, i)

-----------------------------------------------------------------------------
\* WaitForGraph: add_wait, and detect_cycles: a depth-first walk that skips what
\* it has visited, and takes down the part of its path that it meets again.
AddWait(a, b) ==
  /\ ~resolved /\ a # b /\ b \notin waits[a] /\ waits' = [waits EXCEPT ![a] = @ \cup {b}]
  /\ UNCHANGED <<priority, order, resolved>>
Walk(S) == SelectSeq(order, LAMBDA a : a \in S)
Found == [visited : SUBSET Agents, cycles : Seq(Seq(Agents))]
Dfs[a \in Agents, path \in Seq(Agents), known \in Found] ==
  IF a \in ToSet(path)
  THEN [known EXCEPT !.cycles = Append(@, SubSeq(path, CHOOSE i \in DOMAIN path : path[i] = a, Len(path)))]
  ELSE IF a \in known.visited THEN known
  ELSE FoldLeft(LAMBDA k, b : Dfs[b, Append(path, a), k],
                [known EXCEPT !.visited = @ \cup {a}], Walk(waits[a]))
DetectCycles ==
  FoldLeft(LAMBDA k, a : IF a \in k.visited THEN k ELSE Dfs[a, << >>, k],
           [visited |-> {}, cycles |-> << >>], Walk({a \in Agents : waits[a] # {}})).cycles

\* resolve_deadlocks: of each cycle, the shortest first, that has none yet, the
\* first of the least priority; then remove_agent for each.
Victim(cycle) ==
  cycle[CHOOSE i \in DOMAIN cycle :
          /\ \A j \in DOMAIN cycle : priority[cycle[i]] <= priority[cycle[j]]
          /\ \A j \in 1..i - 1 : priority[cycle[i]] < priority[cycle[j]]]
Victims ==
  FoldLeft(LAMBDA taken, c : LET left == SelectSeq(c, LAMBDA a : a \notin taken)
                             IN IF left = << >> THEN taken ELSE taken \cup {Victim(left)},
           {}, SortSeq(DetectCycles, LAMBDA c, d : Len(c) < Len(d)))
Resolve ==
  /\ ~resolved /\ resolved' = TRUE
  /\ waits' = [a \in Agents |-> IF a \in Victims THEN {} ELSE waits[a] \ Victims]
  /\ UNCHANGED <<priority, order>>
GraphNext ==
  /\ UNCHANGED <<busVars, daemonVars, barrierVars, memoryVars>>
  /\ Resolve \/ \E a, b \in Agents : AddWait(a, b)

Next == BusNext \/ DaemonNext \/ BarrierNext \/ MemoryNext \/ GraphNext
Spec == Init /\ [][Next]_vars

-----------------------------------------------------------------------------
\* Every variable has its type.
TypeOK ==
  /\ subs \in [Handlers -> Types \cup {"*", ""}] /\ Len(history) <= MaxHistory
  /\ Len(events) <= MaxEvents /\ \A t \in Publishers : publisher[t].event \in 0..MaxEvents
  /\ \A h \in Handlers : due[h] \subseteq 1..MaxEvents /\ ToSet(got[h]) \subseteq 1..MaxEvents
  /\ handles \in [Handlers -> {"none", "open", "closed"}]
  /\ signal \in BOOLEAN /\ waiter \in [Handlers -> {"idle", "waiting", "woken", "true", "false"}]
  /\ pending \subseteq Fields /\ stored \subseteq Fields /\ updates \subseteq Fields
  /\ timer \in BOOLEAN /\ unarmed \in BOOLEAN /\ early \subseteq Handlers
  /\ waits \in [Agents -> SUBSET Agents]

\* Whoever listened when an event was published is given it exactly once, or is
\* still to be; a handle of the daemon bus in the order of publication, with the
\* mark of its end behind all of them.
EachOnce ==
  \A h \in Handlers :
    LET waiting == {publisher[t].event : t \in {u \in Publishers : h \in publisher[u].left}}
                   \cup (ToSet(line[h]) \ {0})
    IN /\ IsInjective(got[h]) /\ ToSet(got[h]) \cup waiting = due[h]
       /\ ToSet(got[h]) \cap waiting = {}
       /\ handles[h] # "none" =>
            /\ \A i, j \in DOMAIN got[h] : i < j => got[h][i] < got[h][j]
            /\ 0 \in ToSet(line[h]) => Last(line[h]) = 0

\* Nobody waits for an event that is set, nor is refused one that was set before.
SignalSeen ==
  signal => \A h \in Handlers : waiter[h] # "waiting" /\ (h \in early => waiter[h] = "true")

\* An update that is not in the file yet is pending, and a timer will write it,
\* unless all that is pending came immediate with no timer running.
UpdatesHaveATimer == updates = pending /\ (pending # {} => timer \/ unarmed)

\* Only agents that wait for each other in a circle are victims, and a graph with
\* such a circle loses at least one.
Reaches(a, b) ==
  LET Grow(S) == S \cup UNION {waits[x] : x \in S}
  IN b \in FoldSet(LAMBDA x, S : Grow(S), waits[a], Agents)
Deadlocked == {a \in Agents : Reaches(a, a)}
VictimsAreDeadlocked ==
  ~resolved => Victims \subseteq Deadlocked /\ (Deadlocked # {} => Victims # {})

=============================================================================

----------------------------- MODULE DockerPool -----------------------------
(***************************************************************************)
(* obase.docker_pool.DockerPool: coroutines on one event loop acquire,     *)
(* release and destroy containers; every docker call is awaited in a       *)
(* thread, so the pool's dictionary may change under any of them.          *)
(*                                                                         *)
(* The idle timeout of release compares a time with itself and never acts. *)
(*                                                                         *)
(* A definition named X_Slip is X with a slip a programmer could make; the *)
(* properties are checked to notice it.  Nothing else uses it.             *)
(***************************************************************************)
EXTENDS Naturals, FiniteSets

CONSTANTS
  Users,       \* coroutines that use the pool
  Containers,  \* identifiers the daemon gives out
  MaxSize,     \* max_size
  NoContainer

PoolAssumption ==
  MaxSize \in Nat \ {0} /\ NoContainer \notin Containers /\ IsFiniteSet(Users)

VARIABLES
  slots,    \* containers the pool knows, with their busy flag and state
  daemon,   \* containers that exist in the docker daemon
  task,     \* per user, the call it is in
  held,     \* per user, the container acquire returned to it
  closing,  \* containers close still has to destroy
  lost,     \* history: containers whose start or removal failed
  verdict   \* history: what the last acquire found

vars == <<slots, daemon, task, held, closing, lost, verdict>>

Idle == [op |-> "idle"]
Slot_Created(c) == [id |-> c, busy |-> TRUE, state |-> "created"]
Slot(c) == [id |-> c, busy |-> TRUE, state |-> "running"]
Pooled == {s.id : s \in slots}
SlotOf(c) == CHOOSE s \in slots : s.id = c
WithoutSlot(c) == {s \in slots : s.id # c}
Free(u) == task[u] = Idle
In(u, op) == task[u].op = op
Goes(u, t) == task' = [task EXCEPT ![u] = t]

\* Identifiers that mean something to somebody: the daemon never reuses them.
Known ==
  daemon \cup lost \cup Pooled \cup {held[u] : u \in Users} \cup closing
  \cup {task[u].id : u \in {v \in Users : task[v].op \in {"start", "remove", "closing one"}}}

Init ==
  /\ slots = {} /\ daemon = {}
  /\ task = [u \in Users |-> Idle] /\ held = [u \in Users |-> NoContainer]
  /\ closing = {} /\ lost = {} /\ verdict = "none"

Reusable == {s \in slots : ~s.busy /\ s.state = "idle"}
HasRoom == Cardinality(slots) < MaxSize

\* acquire: an idle slot, or else room for a new one; create is awaited.
Acquire(u) ==
  /\ Free(u) /\ held[u] = NoContainer
  /\ IF Reusable # {}
     THEN \E s \in Reusable :
            /\ slots' = WithoutSlot(s.id) \cup {[s EXCEPT !.busy = TRUE]}
            /\ held' = [held EXCEPT ![u] = s.id]
            /\ verdict' = "reused" /\ UNCHANGED task
     ELSE /\ IF HasRoom
             THEN Goes(u, [op |-> "create"]) /\ verdict' = "none"
             ELSE verdict' = "full" /\ UNCHANGED task
          /\ UNCHANGED <<slots, held>>
  /\ UNCHANGED <<daemon, closing, lost>>

Entered(c) == slots \cup {Slot(c)}

\* docker create answers: the slot goes into the pool, start is awaited.
Created(u) ==
  /\ In(u, "create")
  /\ \E c \in Containers \ Known :
       /\ daemon' = daemon \cup {c} /\ slots' = Entered(c)
       /\ Goes(u, [op |-> "start", id |-> c])
  /\ UNCHANGED <<held, closing, lost, verdict>>

CreateFails(u) ==
  /\ In(u, "create") /\ Goes(u, Idle)
  /\ UNCHANGED <<slots, daemon, held, closing, lost, verdict>>

Started(u) ==
  /\ In(u, "start") /\ Goes(u, Idle)
  /\ held' = [held EXCEPT ![u] = task[u].id]
  /\ UNCHANGED <<slots, daemon, closing, lost, verdict>>

\* start fails: the slot goes, the container stays in the daemon.
StartFails_Kept(u) ==
  /\ In(u, "start") /\ Goes(u, Idle)
  /\ lost' = lost \cup {task[u].id}
  /\ UNCHANGED <<slots, daemon, held, closing, verdict>>
StartFails(u) ==
  /\ In(u, "start") /\ Goes(u, Idle)
  /\ slots' = WithoutSlot(task[u].id) /\ lost' = lost \cup {task[u].id}
  /\ UNCHANGED <<daemon, held, closing, verdict>>

\* release: not busy any more; the state is left as it is.
Released(c) == {IF s.id = c THEN [s EXCEPT !.busy = FALSE] ELSE s : s \in slots}
Release(u) ==
  /\ Free(u) /\ held[u] \in Pooled
  /\ slots' = Released(held[u])
  /\ held' = [held EXCEPT ![u] = NoContainer]
  /\ UNCHANGED <<daemon, task, closing, lost, verdict>>

\* status asks the daemon and marks what is gone, and what it could not ask about
\* (silent); only the mark stays.
Status(u) ==
  /\ Free(u)
  /\ \E silent \in SUBSET daemon :
       slots' = {IF s.id \in daemon \ silent THEN s ELSE [s EXCEPT !.state = "missing"] : s \in slots}
  /\ UNCHANGED <<daemon, task, held, closing, lost, verdict>>

\* destroy awaits the removal; the slot goes whether or not it worked.
Destroy(u, c) ==
  /\ Free(u) /\ c \in Pooled
  /\ c = held[u] \/ ~SlotOf(c).busy
  /\ Goes(u, [op |-> "remove", id |-> c])
  /\ held' = [held EXCEPT ![u] = IF @ = c THEN NoContainer ELSE @]
  /\ UNCHANGED <<slots, daemon, closing, lost, verdict>>

Removed(u) ==
  /\ In(u, "remove") /\ Goes(u, Idle)
  /\ slots' = WithoutSlot(task[u].id) /\ daemon' = daemon \ {task[u].id}
  /\ UNCHANGED <<held, closing, lost, verdict>>

RemoveFails(u) ==
  /\ In(u, "remove") /\ Goes(u, Idle)
  /\ slots' = WithoutSlot(task[u].id) /\ lost' = lost \cup {task[u].id}
  /\ UNCHANGED <<daemon, held, closing, verdict>>

\* close destroys, one after the other, the containers it found at its start; one
\* that somebody else destroyed meanwhile makes it raise.
Close(u) ==
  /\ Free(u) /\ closing = {} /\ \A v \in Users : held[v] = NoContainer
  /\ closing' = Pooled
  /\ Goes(u, [op |-> "close"])
  /\ UNCHANGED <<slots, daemon, held, lost, verdict>>

CloseNext(u) ==
  /\ In(u, "close")
  /\ \E c \in closing :
       /\ closing' = IF c \in Pooled THEN closing \ {c} ELSE {}
       /\ Goes(u, IF c \in Pooled THEN [op |-> "closing one", id |-> c] ELSE Idle)
  /\ UNCHANGED <<slots, daemon, held, lost, verdict>>

CloseOne(u) ==
  /\ In(u, "closing one") /\ Goes(u, [op |-> "close"])
  /\ slots' = WithoutSlot(task[u].id) /\ daemon' = daemon \ {task[u].id}
  /\ UNCHANGED <<held, closing, lost, verdict>>

\* One removal fails: close raises and leaves the rest.
CloseFails(u) ==
  /\ In(u, "closing one") /\ Goes(u, Idle)
  /\ slots' = WithoutSlot(task[u].id) /\ lost' = lost \cup {task[u].id}
  /\ closing' = {}
  /\ UNCHANGED <<daemon, held, verdict>>

Closed(u) ==
  /\ In(u, "close") /\ closing = {} /\ Goes(u, Idle)
  /\ UNCHANGED <<slots, daemon, held, closing, lost, verdict>>

\* A container disappears by itself.
Vanishes(c) ==
  /\ c \in daemon /\ daemon' = daemon \ {c} /\ lost' = lost \cup {c}
  /\ UNCHANGED <<slots, task, held, closing, verdict>>

Next ==
  \/ \E u \in Users :
       \/ Acquire(u) \/ Created(u) \/ CreateFails(u) \/ Started(u) \/ StartFails(u)
       \/ Release(u) \/ Status(u) \/ Removed(u) \/ RemoveFails(u)
       \/ (\E c \in Containers : Destroy(u, c))
       \/ Close(u) \/ CloseNext(u) \/ CloseOne(u) \/ CloseFails(u) \/ Closed(u)
  \/ \E c \in Containers : Vanishes(c)

Spec == Init /\ [][Next]_vars

-----------------------------------------------------------------------------
\* Every variable has its type.
TypeOK ==
  /\ slots \subseteq [id: Containers, busy: BOOLEAN, state: {"idle", "running", "missing"}]
  /\ daemon \subseteq Containers /\ closing \subseteq Containers /\ lost \subseteq Containers
  /\ \A u \in Users :
       /\ task[u].op \in {"idle", "create", "start", "remove", "close", "closing one"}
       /\ held[u] \in Containers \cup {NoContainer}

\* A container is with one user at most, and its slot says busy.
OneHolder ==
  \A u \in Users : held[u] # NoContainer =>
    /\ \A v \in Users : held[v] = held[u] => u = v
    /\ held[u] \in Pooled => SlotOf(held[u]).busy

\* A failed start leaves no slot that nobody will ever release.
BusySlotsAreUsed ==
  \A s \in slots : s.busy =>
    \/ \E u \in Users : held[u] = s.id
    \/ \E u \in Users : task[u].op \in {"start", "remove", "closing one"} /\ task[u].id = s.id

\* Acquires that overlap take the pool over its maximum, each by one slot; calls
\* that come one after the other do not.
OverlapsOnlyOverfill == Cardinality(slots) <= MaxSize + Cardinality(Users) - 1

\* acquire answers "full and no idle container" only when every slot is busy.
FullMeansBusy ==
  [][verdict' = "full" /\ verdict # "full" => \A s \in slots : s.busy]_vars

=============================================================================

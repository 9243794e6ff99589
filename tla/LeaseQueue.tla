---------------------------- MODULE LeaseQueue ----------------------------
(***************************************************************************)
(* obase.durable_lease_queue: tasks in a SQLite table, handed to workers   *)
(* under a lease that lapses after a timeout.                              *)
(*                                                                         *)
(* Several DurableLeaseQueue objects may share one database file.  Each    *)
(* object has its own threading.Lock, held for the whole of a method, so   *)
(* two methods of one object never overlap.  `lease' and `sweep_expired'   *)
(* read rows first and write them in a transaction that begins only with   *)
(* the first UPDATE: another object's whole method fits in between.        *)
(*                                                                         *)
(* Time is abstracted to which lease terms have run out: every call names  *)
(* its own timeout, so any term may end before any other.  `now', read at  *)
(* the top of a method, is read together with the method's SELECT.         *)
(*                                                                         *)
(* A definition named X_Slip is X with a slip a programmer could make; the *)
(* properties are checked to notice it.  Nothing else uses it.             *)
(***************************************************************************)
EXTENDS Naturals, FiniteSets

CONSTANTS
  Items,        \* task identifiers
  Workers,      \* threads that call the queue
  Instances,    \* DurableLeaseQueue objects open on the same database
  InstOf,       \* the object each worker calls
  Prio,         \* the priority each task is enqueued with
  MaxAttempts,  \* max_attempts, the same in every lease and sweep call
  MaxLeases,    \* bound: lease identifiers handed out
  MaxReleases,  \* bound: successful release calls per task
  MaxCrashes    \* bound: process crashes

ASSUME ItemsAssumption == IsFiniteSet(Items)
ASSUME InstancesAssumption == InstOf \in [Workers -> Instances]
ASSUME PriorityAssumption == Prio \in [Items -> Nat]
ASSUME BoundsAssumption ==
  /\ MaxAttempts \in Nat \ {0}
  /\ MaxLeases \in Nat
  /\ MaxReleases \in Nat
  /\ MaxCrashes \in Nat

VARIABLES
  rows,      \* the table: per task its status, lease_id, attempts, created_at
  valid,     \* the lease terms that have not run out
  issued,    \* history: lease identifiers handed out so far
  grants,    \* history: the lease identifiers each task was handed out under
  held,      \* the lease each worker last obtained
  call,      \* the method each worker is between the two statements of
  released,  \* history: successful release calls per task
  crashes    \* history: crashes so far

vars == <<rows, valid, issued, grants, held, call, released, crashes>>

Null == 0
Status == {"absent", "pending", "leased", "done", "failed"}
Row == [status: Status, lease: Nat, attempts: Nat, created: Nat]
Lease == [item: Items, lease: Nat \ {Null}]

\* A worker with no lease in hand, and one with no method in progress.
NoLease == [lease |-> Null]
Idle == [op |-> "idle"]
LeaseCall == [op: {"lease"}, item: Items]
SweepCall == [op: {"sweep"}, over: SUBSET Items, spent: SUBSET Items]

-----------------------------------------------------------------------------
\* The lease a row records, and whether its term has run out.
LeaseOn(i) == [item |-> i, lease |-> rows[i].lease]
Expired(i) == rows[i].status = "leased" /\ LeaseOn(i) \notin valid

\* WHERE clause of lease's SELECT, and its ORDER BY.
Claimable_Unexpired(i) ==
  \/ rows[i].status = "pending"
  \/ rows[i].status = "leased" /\ rows[i].attempts < MaxAttempts
Claimable_OneTooMany(i) ==
  \/ rows[i].status = "pending"
  \/ Expired(i) /\ rows[i].attempts <= MaxAttempts
Claimable(i) ==
  \/ rows[i].status = "pending"
  \/ Expired(i) /\ rows[i].attempts < MaxAttempts
Precedes(i, j) ==
  \/ Prio[i] > Prio[j]
  \/ Prio[i] = Prio[j] /\ rows[i].created < rows[j].created

\* The object's lock is free: none of its callers is inside a method.
Unlocked(w) == \A v \in Workers : InstOf[v] = InstOf[w] => call[v] = Idle

\* The row matched by WHERE lease_id = ?, when there is one.
Matches_ByItem(w) == held[w] # NoLease
Matches(w) == held[w] # NoLease /\ rows[held[w].item].lease = held[w].lease

SetStatus(i, s) == [rows EXCEPT ![i].status = s]
BackToPending_OtherStatus(r) == [r EXCEPT !.status = "released", !.lease = Null]
BackToPending(r) == [r EXCEPT !.status = "pending", !.lease = Null]

-----------------------------------------------------------------------------
Init ==
  /\ rows = [i \in Items |->
               [status |-> "absent", lease |-> Null, attempts |-> 0, created |-> 0]]
  /\ valid = {}
  /\ issued = 0
  /\ grants = [i \in Items |-> {}]
  /\ held = [w \in Workers |-> NoLease]
  /\ call = [w \in Workers |-> Idle]
  /\ released = [i \in Items |-> 0]
  /\ crashes = 0

Enqueue(w, i) ==
  /\ Unlocked(w)
  /\ rows[i].status = "absent"
  /\ rows' = [rows EXCEPT ![i].status = "pending",
                          ![i].created = Cardinality({j \in Items : rows[j].status # "absent"})]
  /\ UNCHANGED <<valid, issued, grants, held, call, released, crashes>>

\* lease: the SELECT.  A call that finds no row returns None and changes nothing.
LeaseSelect(w, i) ==
  /\ Unlocked(w)
  /\ Claimable(i)
  /\ \A j \in Items : Claimable(j) => ~Precedes(j, i)
  /\ call' = [call EXCEPT ![w] = [op |-> "lease", item |-> i]]
  /\ UNCHANGED <<rows, valid, issued, grants, held, released, crashes>>

\* lease: the UPDATE names the row by item_id alone and increments in place.
\* The identifier is a fresh uuid.
LeaseUpdate(w) ==
  LET i == call[w].item
      l == issued + 1
      g == [item |-> i, lease |-> l]
  IN
  /\ call[w].op = "lease"
  /\ issued < MaxLeases
  /\ rows' = [rows EXCEPT ![i].status = "leased", ![i].lease = l, ![i].attempts = @ + 1]
  /\ valid' = valid \cup {g}
  /\ issued' = l
  /\ grants' = [grants EXCEPT ![i] = @ \cup {l}]
  /\ held' = [held EXCEPT ![w] = g]
  /\ call' = [call EXCEPT ![w] = Idle]
  /\ UNCHANGED <<released, crashes>>

\* renew: a lapsed lease that nobody reclaimed is revived.
Renew_AnyStatus(w) ==
  /\ Unlocked(w)
  /\ Matches(w)
  /\ valid' = valid \cup {held[w]}
  /\ UNCHANGED <<rows, issued, grants, held, call, released, crashes>>
Renew(w) ==
  /\ Unlocked(w)
  /\ Matches(w)
  /\ rows[held[w].item].status = "leased"
  /\ valid' = valid \cup {held[w]}
  /\ UNCHANGED <<rows, issued, grants, held, call, released, crashes>>

\* complete and fail look at the lease_id only, whatever the status is.
\* Whatever the answer, the caller is finished with the term.
Settle(w, s) ==
  /\ Unlocked(w)
  /\ held[w] # NoLease
  /\ rows' = IF Matches(w) THEN SetStatus(held[w].item, s) ELSE rows
  /\ valid' = valid \ {held[w]}
  /\ UNCHANGED <<issued, grants, held, call, released, crashes>>

Complete(w) == Settle(w, "done")
Fail(w) == Settle(w, "failed")

\* release: back to pending, the attempt stays counted.
Release(w) ==
  LET i == held[w].item IN
  /\ Unlocked(w)
  /\ Matches(w)
  /\ rows[i].status = "leased"
  /\ released[i] < MaxReleases
  /\ rows' = [rows EXCEPT ![i] = BackToPending(@)]
  /\ valid' = valid \ {held[w]}
  /\ released' = [released EXCEPT ![i] = @ + 1]
  /\ UNCHANGED <<issued, grants, held, call, crashes>>

\* sweep_expired: the SELECT fetches the lapsed rows with their attempts.
SweepSelect_SkipsSpent(w) ==
  LET lapsed == {i \in Items : Expired(i) /\ rows[i].attempts < MaxAttempts} IN
  /\ Unlocked(w)
  /\ lapsed # {}
  /\ call' = [call EXCEPT ![w] = [op |-> "sweep", over |-> lapsed, spent |-> {}]]
  /\ UNCHANGED <<rows, valid, issued, grants, held, released, crashes>>
SweepSelect(w) ==
  LET lapsed == {i \in Items : Expired(i)} IN
  /\ Unlocked(w)
  /\ lapsed # {}
  /\ call' = [call EXCEPT ![w] =
                [op |-> "sweep", over |-> lapsed,
                 spent |-> {i \in lapsed : rows[i].attempts >= MaxAttempts}]]
  /\ UNCHANGED <<rows, valid, issued, grants, held, released, crashes>>

\* sweep_expired: the UPDATEs, one transaction, each by item_id alone.
SweepUpdate(w) ==
  LET c == call[w] IN
  /\ c.op = "sweep"
  /\ rows' = [i \in Items |->
                IF i \in c.spent THEN [rows[i] EXCEPT !.status = "failed"]
                ELSE IF i \in c.over THEN BackToPending(rows[i])
                ELSE rows[i]]
  /\ call' = [call EXCEPT ![w] = Idle]
  /\ UNCHANGED <<valid, issued, grants, held, released, crashes>>

\* Time passes: the term of a lease ends.
Lapse(g) ==
  /\ g \in valid
  /\ valid' = valid \ {g}
  /\ UNCHANGED <<rows, issued, grants, held, call, released, crashes>>

\* The process of one object dies.  Its unfinished transaction never
\* committed; its workers lose the leases they held.
Crash(n) ==
  /\ crashes < MaxCrashes
  /\ held' = [w \in Workers |-> IF InstOf[w] = n THEN NoLease ELSE held[w]]
  /\ call' = [w \in Workers |-> IF InstOf[w] = n THEN Idle ELSE call[w]]
  /\ crashes' = crashes + 1
  /\ UNCHANGED <<rows, valid, issued, grants, released>>

Next ==
  \/ \E w \in Workers :
       \/ \E i \in Items : Enqueue(w, i) \/ LeaseSelect(w, i)
       \/ LeaseUpdate(w)
       \/ Renew(w)
       \/ Complete(w)
       \/ Fail(w)
       \/ Release(w)
       \/ SweepSelect(w)
       \/ SweepUpdate(w)
  \/ \E g \in valid : Lapse(g)
  \/ \E n \in Instances : Crash(n)

Spec == Init /\ [][Next]_vars

\* A method that took the lock finishes; the lock is handed out fairly, so a
\* worker that keeps calling lease, a maintenance loop that keeps calling
\* sweep_expired, and a worker with a result to report all get their turn.
\* Every term ends unless it is renewed.
Fairness ==
  /\ \A w \in Workers :
       /\ WF_vars(LeaseUpdate(w))
       /\ WF_vars(SweepUpdate(w))
       /\ SF_vars(Complete(w) \/ Fail(w) \/ Release(w))
  /\ SF_vars(\E w \in Workers, i \in Items : LeaseSelect(w, i))
  /\ SF_vars(\E w \in Workers : SweepSelect(w))
  /\ \A i \in Items, l \in 1..MaxLeases : WF_vars(Lapse([item |-> i, lease |-> l]))

FairSpec == Spec /\ Fairness

-----------------------------------------------------------------------------
\* Every variable has its type.
TypeOK ==
  /\ rows \in [Items -> Row]
  /\ issued \in Nat
  /\ grants \in [Items -> SUBSET (Nat \ {Null})]
  /\ valid \in SUBSET Lease
  /\ held \in [Workers -> Lease \cup {NoLease}]
  /\ call \in [Workers -> {Idle} \cup LeaseCall \cup SweepCall]
  /\ released \in [Items -> Nat]
  /\ crashes \in Nat

-----------------------------------------------------------------------------
\* All workers call one object (one process, one DurableLeaseQueue).
SingleInstance == \A v, w \in Workers : InstOf[v] = InstOf[w]

\* While a worker's term runs, the table still shows the task leased to it: no
\* other worker was given the task, and no sweep took it back.  (lease,
\* sweep_expired and the module's promise that only lapsed leases move on.)
UnexpiredLeaseHolds ==
  \A g \in valid : rows[g.item].status = "leased" /\ LeaseOn(g.item) = g

\* A task that reached done or failed is never pending or leased again: the
\* sweep and the next lease call leave it alone.
Settled(i) == rows[i].status \in {"done", "failed"}
KeepsSettled == \A i \in Items : Settled(i) => Settled(i)'
SettledStaysSettled == [][KeepsSettled]_vars

\* Only the worker that received a task's most recent lease can complete it:
\* a worker that was overtaken after a lapse has no say any more.
LatestCompletes ==
  \A i \in Items : rows[i].status # "done" /\ rows'[i].status = "done" =>
    \E w \in Workers :
      /\ held[w] # NoLease /\ held[w].item = i
      /\ \A l \in grants[i] : l <= held[w].lease
OvertakenWorkerIsPowerless == [][LatestCompletes]_vars

\* A task is handed out at most max_attempts times, plus once per release (a
\* pending row is leased again without looking at its attempts).
AttemptsBounded ==
  \A i \in Items : rows[i].attempts <= MaxAttempts + released[i]

\* A task in the table ends up done or failed, through crashes, hung workers
\* and lapsed leases, as long as lease and sweep_expired keep being called.
EveryTaskSettles ==
  \A i \in Items :
    rows[i].status # "absent" ~> Settled(i)

-----------------------------------------------------------------------------
\* The ledger a caller sees: the rows and the running terms.
Ledger == INSTANCE TaskLedger WITH
  state <- [i \in Items |-> rows[i].status],
  lease <- [i \in Items |-> rows[i].lease],
  terms <- valid

\* One object keeps the promises of the ledger, although its lease and
\* sweep_expired take two steps each.
ImplementsLedger == Ledger!LedgerSpec

=============================================================================

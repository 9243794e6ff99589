-------------------------- MODULE LeaseQueue_proofs --------------------------
(***************************************************************************)
(* Theorems about LeaseQueue for any number of tasks, workers and objects. *)
(*                                                                         *)
(* Type correctness needs nothing.  Exclusion, finality and the bound on   *)
(* attempts need that all workers call one object: the inductive invariant *)
(* says that at most one worker is inside a method, and that what its      *)
(* SELECT saw is still true when its UPDATE runs.                          *)
(***************************************************************************)
EXTENDS LeaseQueue, FiniteSetTheorems, TLAPS

USE ItemsAssumption, InstancesAssumption, PriorityAssumption, BoundsAssumption

-----------------------------------------------------------------------------
\* Every variable keeps its type under every method, lapse and crash.
THEOREM TypeCorrect == Spec => []TypeOK
<1>1. Init => TypeOK
  BY DEF Init, TypeOK, Row, Status, Lease, Null
<1>2. TypeOK /\ [Next]_vars => TypeOK'
  <2> SUFFICES ASSUME TypeOK, [Next]_vars PROVE TypeOK'
    OBVIOUS
  <2> USE DEF TypeOK, Row, Status, Lease, NoLease, Null
  <2>1. ASSUME NEW w \in Workers, NEW i \in Items, Enqueue(w, i) PROVE TypeOK'
    <3>1. Cardinality({j \in Items : rows[j].status # "absent"}) \in Nat
      BY FS_Subset, FS_CardinalityType
    <3> QED BY ZenonT(60), <2>1, <3>1 DEF Enqueue
  <2>2. ASSUME NEW w \in Workers, NEW i \in Items, LeaseSelect(w, i) PROVE TypeOK'
    BY <2>2 DEF LeaseSelect, LeaseCall
  <2>3. ASSUME NEW w \in Workers, LeaseUpdate(w) PROVE TypeOK'
    BY SMTT(60), <2>3 DEF LeaseUpdate, LeaseCall, SweepCall, Idle
  <2>4. ASSUME NEW w \in Workers, Renew(w) PROVE TypeOK'
    BY <2>4 DEF Renew, Matches
  <2>5. ASSUME NEW w \in Workers, NEW s \in {"done", "failed"}, Settle(w, s) PROVE TypeOK'
    BY SMTT(60), <2>5 DEF Settle, SetStatus
  <2>6. ASSUME NEW w \in Workers, Release(w) PROVE TypeOK'
    <3>1. held[w].item \in Items
      BY <2>6 DEF Release, Matches
    <3>2. rows' \in [Items -> Row]
      BY ZenonT(60), <2>6, <3>1 DEF Release, BackToPending
    <3>3. released' \in [Items -> Nat]
      BY <2>6, <3>1 DEF Release
    <3> QED BY <2>6, <3>2, <3>3 DEF Release
  <2>7. ASSUME NEW w \in Workers, SweepSelect(w) PROVE TypeOK'
    BY <2>7 DEF SweepSelect, SweepCall
  <2>8. ASSUME NEW w \in Workers, SweepUpdate(w) PROVE TypeOK'
    BY ZenonT(60), <2>8 DEF SweepUpdate, BackToPending
  <2>9. ASSUME NEW g \in valid, Lapse(g) PROVE TypeOK'
    BY <2>9 DEF Lapse
  <2>10. ASSUME NEW n \in Instances, Crash(n) PROVE TypeOK'
    BY <2>10 DEF Crash
  <2>11. CASE UNCHANGED vars
    BY <2>11 DEF vars
  <2> QED
    BY <2>1, <2>2, <2>3, <2>4, <2>5, <2>6, <2>7, <2>8, <2>9, <2>10, <2>11
    DEF Next, Complete, Fail
<1>3. QED
  BY <1>1, <1>2, PTL DEF Spec

-----------------------------------------------------------------------------
\* What the methods rely on between two of their statements.

\* The lock: two workers are never inside methods of the one object.
OneInside ==
  \A v, w \in Workers : call[v] # Idle /\ call[w] # Idle => v = w

\* What a SELECT saw still holds when the UPDATE runs.
SelectStillTrue ==
  \A w \in Workers :
    /\ call[w] \in LeaseCall => Claimable(call[w].item)
    /\ call[w] \in SweepCall =>
         /\ call[w].spent \subseteq call[w].over
         /\ \A i \in call[w].over :
              Expired(i) /\ (i \notin call[w].spent => rows[i].attempts < MaxAttempts)

\* A pending row has an attempt left, counting the releases.
PendingHasAttempts ==
  \A i \in Items :
    /\ rows[i].status = "absent" => rows[i].attempts = 0
    /\ rows[i].status = "pending" => rows[i].attempts < MaxAttempts + released[i]

IInv ==
  /\ OneInside
  /\ SelectStillTrue
  /\ UnexpiredLeaseHolds
  /\ PendingHasAttempts
  /\ AttemptsBounded

\* With one object, a worker that takes the lock finds nobody inside.
LEMMA LockedOut ==
  ASSUME SingleInstance, NEW w \in Workers, Unlocked(w)
  PROVE  \A v \in Workers : call[v] = Idle
BY DEF SingleInstance, Unlocked

\* No running term names a task that a SELECT found claimable.
LEMMA ClaimableIsFree ==
  ASSUME TypeOK, UnexpiredLeaseHolds, NEW i \in Items, Claimable(i)
  PROVE  \A g \in valid : g.item # i
BY DEF TypeOK, Lease, UnexpiredLeaseHolds, Claimable, Expired, LeaseOn

\* A leased row is the only row a worker that matches it can touch.
LEMMA HeldHasType ==
  ASSUME TypeOK, NEW w \in Workers, held[w] # NoLease
  PROVE  held[w] \in Lease /\ held[w].item \in Items
BY DEF TypeOK, Lease

LEMMA Inductive ==
  ASSUME SingleInstance, TypeOK, IInv, [Next]_vars
  PROVE  IInv'
<1> USE DEF IInv
<1>0. Idle \notin LeaseCall /\ Idle \notin SweepCall /\ LeaseCall \cap SweepCall = {}
  BY DEF Idle, LeaseCall, SweepCall
<1>1. ASSUME NEW w \in Workers, NEW i \in Items, Enqueue(w, i) PROVE IInv'
  <2>1. \A v \in Workers : call'[v] = Idle
    BY <1>1, LockedOut DEF Enqueue
  <2>2. OneInside' /\ SelectStillTrue'
    BY <1>0, <2>1 DEF OneInside, SelectStillTrue
  <2>3. /\ rows'[i].status = "pending" /\ rows'[i].attempts = rows[i].attempts
        /\ \A j \in Items \ {i} : rows'[j] = rows[j]
    BY <1>1 DEF Enqueue, TypeOK, Row
  <2>4. rows[i].attempts = 0
    BY <1>1 DEF Enqueue, PendingHasAttempts
  <2>5. UnexpiredLeaseHolds'
    BY <1>1, <2>3 DEF Enqueue, UnexpiredLeaseHolds, LeaseOn, TypeOK, Lease
  <2>6. PendingHasAttempts' /\ AttemptsBounded'
    BY <1>1, <2>3, <2>4 DEF Enqueue, PendingHasAttempts, AttemptsBounded, TypeOK, Row
  <2> QED BY <2>2, <2>5, <2>6
<1>2. ASSUME NEW w \in Workers, NEW i \in Items, LeaseSelect(w, i) PROVE IInv'
  <2>1. \A v \in Workers : v # w => call'[v] = Idle
    BY <1>2, LockedOut DEF LeaseSelect, TypeOK
  <2>2. call'[w] = [op |-> "lease", item |-> i] /\ Claimable(i)'
    BY <1>2 DEF LeaseSelect, TypeOK, Claimable, Expired, LeaseOn
  <2>3. OneInside' /\ SelectStillTrue'
    BY <1>0, <2>1, <2>2 DEF OneInside, SelectStillTrue, LeaseCall, SweepCall
  <2> QED BY <1>2, <2>3 DEF LeaseSelect, UnexpiredLeaseHolds, LeaseOn,
                            PendingHasAttempts, AttemptsBounded
<1>3. ASSUME NEW w \in Workers, LeaseUpdate(w) PROVE IInv'
  <2> DEFINE i == call[w].item
             g == [item |-> i, lease |-> issued + 1]
  <2>1. call[w] \in LeaseCall /\ i \in Items /\ Claimable(i)
    BY <1>3 DEF LeaseUpdate, TypeOK, LeaseCall, SweepCall, Idle, SelectStillTrue
  <2>2. \A v \in Workers : call'[v] = Idle
    BY <1>0, <1>3, <2>1 DEF LeaseUpdate, TypeOK, OneInside
  <2>3. OneInside' /\ SelectStillTrue'
    BY <1>0, <2>2 DEF OneInside, SelectStillTrue
  <2>4. /\ rows'[i].status = "leased" /\ rows'[i].lease = issued + 1
        /\ rows'[i].attempts = rows[i].attempts + 1
        /\ \A j \in Items \ {i} : rows'[j] = rows[j]
        /\ released' = released /\ valid' = valid \cup {g}
    BY <1>3, <2>1 DEF LeaseUpdate, TypeOK, Row
  <2>5. UnexpiredLeaseHolds'
    BY <2>1, <2>4, ClaimableIsFree DEF UnexpiredLeaseHolds, LeaseOn, TypeOK, Lease
  <2>6. rows[i].attempts + 1 <= MaxAttempts + released[i]
    BY <2>1 DEF Claimable, Expired, PendingHasAttempts, TypeOK, Row
  <2>7. PendingHasAttempts' /\ AttemptsBounded'
    BY <2>1, <2>4, <2>6 DEF PendingHasAttempts, AttemptsBounded
  <2> QED BY <2>3, <2>5, <2>7
<1>4. ASSUME NEW w \in Workers, Renew(w) PROVE IInv'
  <2>1. \A v \in Workers : call'[v] = Idle
    BY <1>4, LockedOut DEF Renew
  <2>2. OneInside' /\ SelectStillTrue'
    BY <1>0, <2>1 DEF OneInside, SelectStillTrue
  <2>3. held[w] \in Lease /\ LeaseOn(held[w].item) = held[w]
    BY <1>4, HeldHasType DEF Renew, Matches, LeaseOn, Lease
  <2>4. UnexpiredLeaseHolds'
    BY <1>4, <2>3 DEF Renew, UnexpiredLeaseHolds, LeaseOn
  <2> QED BY <1>4, <2>2, <2>4 DEF Renew, PendingHasAttempts, AttemptsBounded
<1>5. ASSUME NEW w \in Workers, NEW s \in {"done", "failed"}, Settle(w, s) PROVE IInv'
  <2>1. \A v \in Workers : call'[v] = Idle
    BY <1>5, LockedOut DEF Settle
  <2>2. OneInside' /\ SelectStillTrue'
    BY <1>0, <2>1 DEF OneInside, SelectStillTrue
  <2>3. held[w] \in Lease /\ held[w].item \in Items
    BY <1>5, HeldHasType DEF Settle
  <2>4. CASE Matches(w)
    <3> DEFINE i == held[w].item
    <3>1. /\ rows'[i].status = s /\ rows'[i].attempts = rows[i].attempts
          /\ \A j \in Items \ {i} : rows'[j] = rows[j]
      BY <1>5, <2>3, <2>4 DEF Settle, SetStatus, TypeOK, Row
    <3>2. LeaseOn(i) = held[w]
      BY <2>3, <2>4 DEF Matches, LeaseOn, Lease
    <3>3. UnexpiredLeaseHolds'
      BY <1>5, <3>1, <3>2 DEF Settle, UnexpiredLeaseHolds, LeaseOn, TypeOK, Lease
    <3>4. PendingHasAttempts' /\ AttemptsBounded'
      BY <1>5, <2>3, <3>1 DEF Settle, PendingHasAttempts, AttemptsBounded
    <3> QED BY <2>2, <3>3, <3>4
  <2>5. CASE ~Matches(w)
    BY <1>5, <2>2, <2>5 DEF Settle, UnexpiredLeaseHolds, LeaseOn,
                            PendingHasAttempts, AttemptsBounded
  <2> QED BY <2>4, <2>5
<1>6. ASSUME NEW w \in Workers, Release(w) PROVE IInv'
  <2> DEFINE i == held[w].item
  <2>1. \A v \in Workers : call'[v] = Idle
    BY <1>6, LockedOut DEF Release
  <2>2. OneInside' /\ SelectStillTrue'
    BY <1>0, <2>1 DEF OneInside, SelectStillTrue
  <2>3. held[w] \in Lease /\ i \in Items /\ LeaseOn(i) = held[w]
    BY <1>6, HeldHasType DEF Release, Matches, LeaseOn, Lease
  <2>4. /\ rows'[i].status = "pending" /\ rows'[i].attempts = rows[i].attempts
        /\ \A j \in Items \ {i} : rows'[j] = rows[j]
        /\ released'[i] = released[i] + 1
        /\ \A j \in Items \ {i} : released'[j] = released[j]
        /\ valid' = valid \ {held[w]}
    BY <1>6, <2>3 DEF Release, BackToPending, TypeOK, Row
  <2>5. UnexpiredLeaseHolds'
    BY <2>3, <2>4 DEF UnexpiredLeaseHolds, LeaseOn, TypeOK, Lease
  <2>6. PendingHasAttempts' /\ AttemptsBounded'
    BY <2>3, <2>4 DEF PendingHasAttempts, AttemptsBounded, TypeOK, Row
  <2> QED BY <2>2, <2>5, <2>6
<1>7. ASSUME NEW w \in Workers, SweepSelect(w) PROVE IInv'
  <2> DEFINE c == call'[w]
  <2>1. \A v \in Workers : v # w => call'[v] = Idle
    BY <1>7, LockedOut DEF SweepSelect, TypeOK
  <2>2. /\ c = [op |-> "sweep", over |-> {i \in Items : Expired(i)},
                spent |-> {i \in {k \in Items : Expired(k)} : rows[i].attempts >= MaxAttempts}]
        /\ rows' = rows /\ valid' = valid
    BY <1>7 DEF SweepSelect, TypeOK
  <2>3. c \notin LeaseCall
    BY <2>2 DEF LeaseCall
  <2>4. /\ c.spent \subseteq c.over
        /\ \A i \in c.over : Expired(i)' /\ (i \notin c.spent => rows'[i].attempts < MaxAttempts)
    BY <2>2 DEF Expired, LeaseOn, TypeOK, Row
  <2>5. OneInside' /\ SelectStillTrue'
    BY <1>0, <2>1, <2>3, <2>4 DEF OneInside, SelectStillTrue
  <2> QED BY <1>7, <2>5 DEF SweepSelect, UnexpiredLeaseHolds, LeaseOn,
                            PendingHasAttempts, AttemptsBounded
<1>8. ASSUME NEW w \in Workers, SweepUpdate(w) PROVE IInv'
  <2> DEFINE c == call[w]
  <2>1. c \in SweepCall
    BY <1>8 DEF SweepUpdate, TypeOK, LeaseCall, Idle
  <2>2. \A v \in Workers : call'[v] = Idle
    BY <1>0, <1>8, <2>1 DEF SweepUpdate, TypeOK, OneInside
  <2>3. OneInside' /\ SelectStillTrue'
    BY <1>0, <2>2 DEF OneInside, SelectStillTrue
  <2>4. /\ c.spent \subseteq c.over
        /\ \A i \in c.over : Expired(i) /\ (i \notin c.spent => rows[i].attempts < MaxAttempts)
    BY <2>1 DEF SelectStillTrue
  <2>5. /\ \A i \in Items : rows'[i].attempts = rows[i].attempts
        /\ \A i \in Items \ c.over : rows'[i] = rows[i]
        /\ \A i \in c.over \ c.spent : i \in Items => rows'[i].status = "pending"
        /\ \A i \in c.spent : i \in Items => rows'[i].status = "failed"
        /\ released' = released /\ valid' = valid
    BY <1>8, <2>4 DEF SweepUpdate, BackToPending, TypeOK, Row
  <2>6. \A g \in valid : g.item \in Items \ c.over
    BY <2>4 DEF UnexpiredLeaseHolds, Expired, TypeOK, Lease
  <2>7. UnexpiredLeaseHolds'
    BY <2>5, <2>6 DEF UnexpiredLeaseHolds, LeaseOn
  <2>8. PendingHasAttempts' /\ AttemptsBounded'
    BY <2>4, <2>5 DEF PendingHasAttempts, AttemptsBounded, TypeOK, Row
  <2> QED BY <2>3, <2>7, <2>8
<1>9. ASSUME NEW g \in valid, Lapse(g) PROVE IInv'
  <2>1. SelectStillTrue'
    BY <1>9 DEF Lapse, SelectStillTrue, Claimable, Expired, LeaseOn
  <2> QED BY <1>9, <2>1 DEF Lapse, OneInside, UnexpiredLeaseHolds, LeaseOn,
                            PendingHasAttempts, AttemptsBounded
<1>10. ASSUME NEW n \in Instances, Crash(n) PROVE IInv'
  <2>1. \A w \in Workers : call'[w] = Idle \/ call'[w] = call[w]
    BY <1>10 DEF Crash
  <2>2. OneInside'
    BY <2>1 DEF OneInside
  <2>3. SelectStillTrue'
    BY <1>0, <1>10, <2>1 DEF Crash, SelectStillTrue, Claimable, Expired, LeaseOn
  <2> QED BY <1>10, <2>2, <2>3 DEF Crash, UnexpiredLeaseHolds, LeaseOn,
                                   PendingHasAttempts, AttemptsBounded
<1>11. CASE UNCHANGED vars
  BY <1>11 DEF vars, OneInside, SelectStillTrue, Claimable, Expired, LeaseOn,
               UnexpiredLeaseHolds, PendingHasAttempts, AttemptsBounded
<1> QED
  BY <1>1, <1>2, <1>3, <1>4, <1>5, <1>6, <1>7, <1>8, <1>9, <1>10, <1>11
  DEF Next, Complete, Fail

LEMMA InvariantHolds ==
  ASSUME SingleInstance
  PROVE  Spec => []IInv
<1>1. Init => IInv
  BY DEF Init, IInv, OneInside, SelectStillTrue, UnexpiredLeaseHolds,
         PendingHasAttempts, AttemptsBounded, Idle, LeaseCall, SweepCall
<1>2. TypeOK /\ IInv /\ [Next]_vars => IInv'
  BY Inductive
<1>3. QED
  BY <1>1, <1>2, TypeCorrect, PTL DEF Spec

\* Through one object a running lease term is exclusive: the row stays leased
\* to it, so no other worker is handed the task (durable_lease_queue.py lease,
\* sweep_expired).
THEOREM Exclusion ==
  ASSUME SingleInstance
  PROVE  Spec => []UnexpiredLeaseHolds
BY InvariantHolds, PTL DEF IInv

\* Through one object a task is handed out at most max_attempts times plus
\* once per release.
THEOREM BoundedAttempts ==
  ASSUME SingleInstance
  PROVE  Spec => []AttemptsBounded
BY InvariantHolds, PTL DEF IInv

\* Through one object a done or failed task stays settled.
THEOREM Finality ==
  ASSUME SingleInstance
  PROVE  Spec => SettledStaysSettled
<1>1. TypeOK /\ IInv /\ [Next]_vars => [KeepsSettled]_vars
  <2> SUFFICES ASSUME TypeOK, IInv, Next PROVE KeepsSettled
    OBVIOUS
  <2> USE DEF KeepsSettled, Settled
  <2>1. ASSUME NEW w \in Workers, NEW i \in Items, Enqueue(w, i) PROVE KeepsSettled
    BY <2>1 DEF Enqueue, TypeOK, Row
  <2>2. ASSUME NEW w \in Workers, LeaseUpdate(w) PROVE KeepsSettled
    <3>1. call[w] \in LeaseCall /\ Claimable(call[w].item)
      BY <2>2 DEF LeaseUpdate, TypeOK, LeaseCall, SweepCall, Idle, IInv, SelectStillTrue
    <3>2. ~Settled(call[w].item)
      BY <3>1 DEF Claimable, Expired
    <3> QED BY <2>2, <3>2 DEF LeaseUpdate, TypeOK, Row
  <2>3. ASSUME NEW w \in Workers, NEW s \in {"done", "failed"}, Settle(w, s) PROVE KeepsSettled
    BY <2>3 DEF Settle, SetStatus, TypeOK, Row
  <2>4. ASSUME NEW w \in Workers, Release(w) PROVE KeepsSettled
    BY <2>4 DEF Release, BackToPending, TypeOK, Row
  <2>5. ASSUME NEW w \in Workers, SweepUpdate(w) PROVE KeepsSettled
    <3>1. call[w] \in SweepCall
      BY <2>5 DEF SweepUpdate, TypeOK, LeaseCall, Idle
    <3>2. call[w].spent \subseteq call[w].over /\ \A i \in call[w].over : ~Settled(i)
      BY <3>1 DEF IInv, SelectStillTrue, Expired
    <3> QED BY <2>5, <3>2 DEF SweepUpdate
  <2>6. ASSUME rows' = rows PROVE KeepsSettled
    BY <2>6
  <2> QED
    BY <2>1, <2>2, <2>3, <2>4, <2>5, <2>6
    DEF Next, Complete, Fail, LeaseSelect, Renew, SweepSelect, Lapse, Crash
<1>2. QED
  BY <1>1, InvariantHolds, TypeCorrect, PTL DEF Spec, SettledStaysSettled

-----------------------------------------------------------------------------
\* Of the identifiers a task was granted under, the one in its row is the last,
\* unless the row has none; and none is above the last one issued.
LatestInRow ==
  \A i \in Items : \A l \in grants[i] :
    l <= issued /\ (rows[i].lease # Null => l <= rows[i].lease)

\* Only a new lease adds a grant, and it replaces the identifier in the row.
LEMMA LatestInRowKept ==
  ASSUME TypeOK, LatestInRow, [Next]_vars
  PROVE  LatestInRow'
<1> USE DEF LatestInRow, TypeOK, Row, Null
<1>1. ASSUME NEW w \in Workers, LeaseUpdate(w) PROVE LatestInRow'
  <2>1. PICK i \in Items : i = call[w].item
    BY <1>1 DEF LeaseUpdate, LeaseCall, SweepCall, Idle
  <2>2. /\ rows'[i].lease = issued + 1 /\ grants'[i] = grants[i] \cup {issued + 1}
        /\ \A j \in Items \ {i} : rows'[j] = rows[j] /\ grants'[j] = grants[j]
        /\ issued' = issued + 1
    BY <1>1, <2>1 DEF LeaseUpdate
  <2>3. \A j \in Items : rows[j].lease \in Nat /\ \A l \in grants[j] : l \in Nat /\ l <= issued
    OBVIOUS
  <2>4. \A l \in grants'[i] : l <= issued' /\ l <= rows'[i].lease
    BY <2>2, <2>3
  <2>5. \A j \in Items \ {i} : \A l \in grants'[j] :
          l <= issued' /\ (rows'[j].lease # Null => l <= rows'[j].lease)
    BY <2>2, <2>3
  <2> QED BY <2>4, <2>5
<1>2. ASSUME UNCHANGED <<issued, grants>>,
             \A i \in Items : rows'[i].lease = rows[i].lease \/ rows'[i].lease = Null
      PROVE  LatestInRow'
  BY <1>2
<1>3. ASSUME NEW w \in Workers, NEW i \in Items, Enqueue(w, i) PROVE LatestInRow'
  BY <1>2, <1>3 DEF Enqueue
<1>4. ASSUME NEW w \in Workers, NEW s \in {"done", "failed"}, Settle(w, s) PROVE LatestInRow'
  BY <1>2, <1>4 DEF Settle, SetStatus
<1>5. ASSUME NEW w \in Workers, Release(w) PROVE LatestInRow'
  BY <1>2, <1>5 DEF Release, BackToPending
<1>6. ASSUME NEW w \in Workers, SweepUpdate(w) PROVE LatestInRow'
  BY <1>2, <1>6 DEF SweepUpdate, BackToPending
<1>7. ASSUME UNCHANGED <<rows, issued, grants>> PROVE LatestInRow'
  BY <1>7
<1> QED
  BY <1>1, <1>3, <1>4, <1>5, <1>6, <1>7
  DEF Next, Complete, Fail, LeaseSelect, Renew, SweepSelect, Lapse, Crash, vars

\* Whoever completes a task holds the last lease it was granted under: complete
\* compares the identifier in the row, so a worker that was overtaken after a
\* lapse changes nothing.  This holds for several objects on one file too.
THEOREM LatestHolderCompletes == Spec => OvertakenWorkerIsPowerless
<1>1. Init => LatestInRow
  BY DEF Init, LatestInRow
<1>2. TypeOK /\ LatestInRow /\ [Next]_vars => LatestInRow'
  BY LatestInRowKept
<1>3. TypeOK /\ LatestInRow /\ [Next]_vars => [LatestCompletes]_vars
  <2> SUFFICES ASSUME TypeOK, LatestInRow, Next,
                      NEW i \in Items, rows[i].status # "done", rows'[i].status = "done"
               PROVE  \E w \in Workers :
                        /\ held[w] # NoLease /\ held[w].item = i
                        /\ \A l \in grants[i] : l <= held[w].lease
    BY DEF LatestCompletes
  <2>1. ASSUME NEW w \in Workers, NEW s \in {"done", "failed"}, Settle(w, s)
        PROVE  held[w] # NoLease /\ held[w].item = i /\ rows[i].lease = held[w].lease
    BY <2>1 DEF Settle, SetStatus, Matches, TypeOK, Row
  <2>2. ASSUME NEW w \in Workers, NEW s \in {"done", "failed"}, Settle(w, s)
        PROVE  \A l \in grants[i] : l <= held[w].lease
    <3>1. held[w] \in Lease
      BY <2>1, <2>2, HeldHasType
    <3>2. rows[i].lease # Null
      BY <2>1, <2>2, <3>1 DEF Lease
    <3> QED BY <2>1, <2>2, <3>2 DEF LatestInRow
  <2>3. \E w \in Workers : \E s \in {"done", "failed"} : Settle(w, s)
    <3>1. ASSUME NEW w \in Workers, NEW j \in Items, Enqueue(w, j) PROVE FALSE
      BY <3>1 DEF Enqueue, TypeOK, Row
    <3>2. ASSUME NEW w \in Workers, LeaseUpdate(w) PROVE FALSE
      BY <3>2 DEF LeaseUpdate, TypeOK, Row
    <3>3. ASSUME NEW w \in Workers, Release(w) PROVE FALSE
      BY <3>3 DEF Release, BackToPending, TypeOK, Row
    <3>4. ASSUME NEW w \in Workers, SweepUpdate(w) PROVE FALSE
      BY <3>4 DEF SweepUpdate, BackToPending, TypeOK, Row
    <3>5. rows' # rows
      OBVIOUS
    <3> QED
      BY <3>1, <3>2, <3>3, <3>4, <3>5
      DEF Next, Complete, Fail, LeaseSelect, Renew, SweepSelect, Lapse, Crash
  <2> QED BY <2>1, <2>2, <2>3
<1>4. QED
  BY <1>1, <1>2, <1>3, TypeCorrect, PTL DEF Spec, OvertakenWorkerIsPowerless

-----------------------------------------------------------------------------
\* The promise: one object implements the ledger.

\* Identifiers are fresh: none in the table, in a running term or in a worker's
\* hand is above the last one issued.
IssuedOnly ==
  /\ \A i \in Items : rows[i].lease <= issued
  /\ \A g \in valid : g.lease <= issued
  /\ \A w \in Workers : held[w] # NoLease => held[w].lease <= issued

\* Nobody invents a lease identifier.
LEMMA IssuedOnlyKept ==
  ASSUME TypeOK, IssuedOnly, [Next]_vars
  PROVE  IssuedOnly'
<1> USE DEF IssuedOnly, TypeOK, Row, Lease, NoLease, Null
<1>1. ASSUME NEW w \in Workers, NEW i \in Items, Enqueue(w, i) PROVE IssuedOnly'
  BY <1>1 DEF Enqueue
<1>2. ASSUME NEW w \in Workers, LeaseUpdate(w) PROVE IssuedOnly'
  <2>1. call[w].item \in Items
    BY <1>2 DEF LeaseUpdate, LeaseCall, SweepCall, Idle
  <2> QED BY <1>2, <2>1 DEF LeaseUpdate
<1>3. ASSUME NEW w \in Workers, Renew(w) PROVE IssuedOnly'
  BY <1>3 DEF Renew, Matches
<1>4. ASSUME NEW w \in Workers, NEW s \in {"done", "failed"}, Settle(w, s) PROVE IssuedOnly'
  BY <1>4 DEF Settle, SetStatus
<1>5. ASSUME NEW w \in Workers, Release(w) PROVE IssuedOnly'
  BY <1>5 DEF Release, Matches, BackToPending
<1>6. ASSUME NEW w \in Workers, SweepUpdate(w) PROVE IssuedOnly'
  <2>1. \A i \in Items : rows'[i].lease = rows[i].lease \/ rows'[i].lease = Null
    BY <1>6 DEF SweepUpdate, BackToPending
  <2> QED BY <1>6, <2>1 DEF SweepUpdate
<1>7. ASSUME NEW n \in Instances, Crash(n) PROVE IssuedOnly'
  BY <1>7 DEF Crash
<1>8. ASSUME UNCHANGED <<rows, issued, held>>, valid' \subseteq valid PROVE IssuedOnly'
  BY <1>8
<1> QED
  BY <1>1, <1>2, <1>3, <1>4, <1>5, <1>6, <1>7, <1>8
  DEF Next, Complete, Fail, LeaseSelect, SweepSelect, Lapse, vars

\* Each step of the object is one of the ledger's, or none.
LEMMA StepMaps ==
  ASSUME SingleInstance, TypeOK, IInv, IssuedOnly, [Next]_vars
  PROVE  [Ledger!LedgerNext]_(Ledger!lvars)
<1> DEFINE Step == Ledger!LedgerNext
<1> USE DEF Ledger!Current
<1>1. ASSUME NEW w \in Workers, NEW i \in Items, Enqueue(w, i) PROVE Step
  <2>1. Ledger!Submit(i)
    BY <1>1 DEF Enqueue, Ledger!Submit, TypeOK, Row
  <2> QED BY <2>1 DEF Ledger!LedgerNext
<1>2. ASSUME NEW w \in Workers, LeaseUpdate(w) PROVE Step
  <2>1. call[w] \in LeaseCall /\ call[w].item \in Items /\ Claimable(call[w].item)
    BY <1>2 DEF LeaseUpdate, TypeOK, LeaseCall, SweepCall, Idle, IInv, SelectStillTrue
  <2>2. PICK i \in Items : i = call[w].item
    BY <2>1
  <2>3. PICK l \in Nat : l = issued + 1
    BY DEF TypeOK
  <2>4. /\ rows'[i].status = "leased" /\ rows'[i].lease = l
        /\ \A j \in Items \ {i} : rows'[j] = rows[j]
        /\ valid' = valid \cup {[item |-> i, lease |-> l]}
    BY <1>2, <2>2, <2>3 DEF LeaseUpdate, TypeOK, Row
  <2>5. \/ rows[i].status = "pending"
        \/ rows[i].status = "leased" /\ [item |-> i, lease |-> rows[i].lease] \notin valid
    BY <2>1, <2>2 DEF Claimable, Expired, LeaseOn
  <2>6. l # Null /\ l # rows[i].lease /\ \A g \in valid : g.lease # l
    BY <2>3 DEF IssuedOnly, TypeOK, Row, Lease, Null
  <2>7. [j \in Items |-> rows'[j].status] = [[j \in Items |-> rows[j].status] EXCEPT ![i] = "leased"]
    BY <2>4
  <2>8. [j \in Items |-> rows'[j].lease] = [[j \in Items |-> rows[j].lease] EXCEPT ![i] = l]
    BY <2>4
  <2>9. Ledger!Grant(i)
    BY <2>4, <2>5, <2>6, <2>7, <2>8 DEF Ledger!Grant
  <2> QED BY <2>9 DEF Ledger!LedgerNext
<1>3. ASSUME NEW w \in Workers, Renew(w) PROVE Step
  <2>1. held[w] \in Lease /\ LeaseOn(held[w].item) = held[w]
    BY <1>3, HeldHasType DEF Renew, Matches, LeaseOn, Lease
  <2>2. Ledger!Extend(held[w].item)
    BY <1>3, <2>1 DEF Renew, Ledger!Extend, LeaseOn, Lease
  <2> QED BY <2>1, <2>2 DEF Ledger!LedgerNext, Lease
<1>4. ASSUME NEW w \in Workers, NEW s \in {"done", "failed"}, Settle(w, s)
      PROVE  Step \/ UNCHANGED Ledger!lvars
  <2>1. held[w] \in Lease /\ held[w].item \in Items
    BY <1>4, HeldHasType DEF Settle
  <2>2. CASE Matches(w)
    <3> DEFINE i == held[w].item
    <3>1. LeaseOn(i) = held[w] /\ rows[i].lease # Null
      BY <2>1, <2>2 DEF Matches, LeaseOn, Lease
    <3>2. Ledger!Report(i, s)
      BY <1>4, <2>1, <2>2, <3>1 DEF Settle, SetStatus, Ledger!Report, LeaseOn, TypeOK, Row
    <3> QED BY <2>1, <3>2 DEF Ledger!LedgerNext
  <2>3. CASE ~Matches(w) /\ held[w] \in valid
    <3>1. Ledger!EndTerm(held[w])
      BY <1>4, <2>3 DEF Settle, Ledger!EndTerm
    <3> QED BY <2>3, <3>1 DEF Ledger!LedgerNext
  <2>4. CASE ~Matches(w) /\ held[w] \notin valid
    BY <1>4, <2>4 DEF Settle, Ledger!lvars
  <2> QED BY <2>2, <2>3, <2>4
<1>5. ASSUME NEW w \in Workers, Release(w) PROVE Step
  <2>1. held[w] \in Lease /\ LeaseOn(held[w].item) = held[w]
    BY <1>5, HeldHasType DEF Release, Matches, LeaseOn, Lease
  <2>2. PICK i \in Items : i = held[w].item
    BY <2>1 DEF Lease
  <2>3. Ledger!GiveBack(i)
    BY <1>5, <2>1, <2>2 DEF Release, BackToPending, Ledger!GiveBack, LeaseOn, TypeOK, Row
  <2> QED BY <2>3 DEF Ledger!LedgerNext
<1>6. ASSUME NEW w \in Workers, SweepUpdate(w) PROVE Step
  <2>1. call[w] \in SweepCall
    BY <1>6 DEF SweepUpdate, TypeOK, LeaseCall, Idle
  <2>2. PICK over \in SUBSET Items, spent \in SUBSET Items :
          over = call[w].over /\ spent = call[w].spent
    BY <2>1 DEF SweepCall
  <2>3. spent \subseteq over /\ \A i \in over : Expired(i)
    BY <2>1, <2>2 DEF IInv, SelectStillTrue
  <2>4. Ledger!Reclaim(over, spent)
    BY <1>6, <2>2, <2>3 DEF SweepUpdate, BackToPending, Ledger!Reclaim, Expired, LeaseOn, TypeOK, Row
  <2> QED BY <2>4 DEF Ledger!LedgerNext
<1>7. ASSUME NEW g \in valid, Lapse(g) PROVE Step
  <2>1. Ledger!EndTerm(g)
    BY <1>7 DEF Lapse, Ledger!EndTerm
  <2> QED BY <2>1 DEF Ledger!LedgerNext
<1>8. ASSUME UNCHANGED <<rows, valid>> PROVE UNCHANGED Ledger!lvars
  BY <1>8 DEF Ledger!lvars
<1> QED
  BY <1>1, <1>2, <1>3, <1>4, <1>5, <1>6, <1>7, <1>8
  DEF Next, Complete, Fail, LeaseSelect, SweepSelect, Crash, vars

\* Through one object the two-step lease and sweep_expired look atomic: what the
\* callers see is a behaviour of the ledger.
THEOREM LedgerKept ==
  ASSUME SingleInstance
  PROVE  Spec => ImplementsLedger
<1>1. Init => Ledger!LedgerInit
  BY DEF Init, Ledger!LedgerInit
<1>2. Init => IssuedOnly
  BY DEF Init, IssuedOnly, Null
<1>3. TypeOK /\ IssuedOnly /\ [Next]_vars => IssuedOnly'
  BY IssuedOnlyKept
<1>4. TypeOK /\ IInv /\ IssuedOnly /\ [Next]_vars => [Ledger!LedgerNext]_(Ledger!lvars)
  BY StepMaps
<1> QED
  BY <1>1, <1>2, <1>3, <1>4, InvariantHolds, TypeCorrect, PTL
  DEF Spec, ImplementsLedger, Ledger!LedgerSpec

=============================================================================

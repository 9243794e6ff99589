------------------------- MODULE Coordination_proofs -------------------------
(***************************************************************************)
(* Proofs about what coroutines, threads and processes coordinate through  *)
(* on one machine, composed as MCCoordination composes it, for any number  *)
(* of callers, users, tasks and processes and any limits: the breaker, the *)
(* limiter, the pool, the machine and the decision bus, and what blocks of *)
(* shared memory hold.  Stores_proofs is about the stores and look-ups of  *)
(* the same composition, and ends with what both modules lead to.          *)
(***************************************************************************)
EXTENDS MCCoordination, FiniteSetTheorems, WellFoundedInduction, TLAPS

-----------------------------------------------------------------------------
(* The circuit breaker.  Late answers are what makes its invariant more    *)
(* than its parts: a call admitted when the breaker was closed may fail or *)
(* succeed in any later state.                                             *)

\* TypeOK without the flag, so that no obligation mixes numbers and Booleans.
CountersOK ==
  /\ st \in {"closed", "open", "half_open"} /\ fails \in 0..MaxFailures
  /\ streak \in 0..MaxFailures
  /\ call \in [Callers -> {"idle", "closed", "half_open"}]

\* The counter is the failures in a row since the last success or reset,
\* whichever state they were reported in.
CounterIsStreak == fails = streak

BreakerInv == CountersOK /\ CounterIsStreak /\ Breaker!ClosedWhileFewFailures

\* The breaker starts closed, with nothing counted.
LEMMA BreakerStarts == Breaker!Init => BreakerInv
  BY BreakerAssumption
  DEF Breaker!Init, BreakerInv, CountersOK, CounterIsStreak, Breaker!ClosedWhileFewFailures

\* Every step of the breaker keeps the invariant.
LEMMA BreakerStep ==
  ASSUME BreakerInv, [Breaker!Next]_breakerVars
  PROVE  BreakerInv'
<1> USE BreakerAssumption DEF BreakerInv, CountersOK, CounterIsStreak, Breaker!ClosedWhileFewFailures
<1>1. CASE Breaker!ReadState
  BY <1>1 DEF Breaker!ReadState, Breaker!Seen
<1>2. CASE Breaker!Reset
  BY <1>2 DEF Breaker!Reset
<1>3. CASE Breaker!Cool
  BY <1>3 DEF Breaker!Cool
<1>4. ASSUME NEW c \in Callers, Breaker!Admit(c) PROVE BreakerInv'
  <2>1. Breaker!Seen \in {"closed", "half_open"}
    BY <1>4 DEF Breaker!Admit, Breaker!Seen
  <2>2. (Breaker!Seen = "closed") <=> (st = "closed")
    BY DEF Breaker!Seen
  <2> QED BY <1>4, <2>1, <2>2 DEF Breaker!Admit
<1>5. ASSUME NEW c \in Callers, Breaker!Succeed(c) PROVE BreakerInv'
  BY <1>5 DEF Breaker!Succeed, Breaker!Returns
<1>6. ASSUME NEW c \in Callers, Breaker!Fail(c) PROVE BreakerInv'
  <2>1. /\ fails' = fails + 1 /\ streak' = streak + 1 /\ fails < MaxFailures
        /\ st' = IF Breaker!Trips THEN "open" ELSE st
        /\ call' = [call EXCEPT ![c] = "idle"]
    BY <1>6 DEF Breaker!Fail, Breaker!Returns
  <2>2. CASE Breaker!Trips
    BY <2>1, <2>2 DEF Breaker!Trips
  <2>3. CASE ~Breaker!Trips
    BY <2>1, <2>3 DEF Breaker!Trips
  <2> QED BY <2>2, <2>3
<1>7. ASSUME NEW c \in Callers, Breaker!Uncounted(c) PROVE BreakerInv'
  BY <1>7 DEF Breaker!Uncounted, Breaker!Returns
<1>8. CASE UNCHANGED breakerVars
  BY <1>8 DEF breakerVars
<1> QED
  BY <1>1, <1>2, <1>3, <1>4, <1>5, <1>6, <1>7, <1>8 DEF Breaker!Next

-----------------------------------------------------------------------------
(* The rate limiter.  The stamps are the last grants, and every grant that *)
(* is no stamp any more has left the window; whoever sleeps, sleeps until  *)
(* the oldest stamp leaves a full window.                                  *)

\* A nonempty set of numbers has a least one.
LEMMA LeastNumber ==
  ASSUME NEW T \in SUBSET Nat, T # {}
  PROVE  \E m \in T : \A k \in T : m <= k
<1> DEFINE R == OpToRel(<, Nat)
<1>1. IsWellFoundedOn(R, Nat)
  BY NatLessThanWellFounded
<1>2. PICK m \in T : \A k \in T : <<k, m>> \notin R
  <2> HIDE DEF R
  <2> QED BY <1>1, WFMin
<1>3. \A k \in T : ~(k < m)
  BY <1>2 DEF OpToRel
<1> QED BY <1>3

Requests == [deadline: Nat]
LimiterTypes ==
  /\ now \in 0..MaxTime /\ wake \in Nat /\ calls \in 0..MaxCalls
  /\ stamps \in Seq(Nat) /\ Len(stamps) <= Rate /\ Len(stamps) <= Len(grants)
  /\ grants \in Seq(Nat) /\ queue \in Seq(Requests)
  /\ refusals \subseteq [deadline: Nat, after: Nat]

\* A sequence of stamps is the last grants, and the others are out of the window.
LastGrants(s) ==
  /\ s \in Seq(Nat) /\ Len(s) <= Rate /\ Len(s) <= Len(grants)
  /\ \A i \in 1..Len(s) : s[i] = grants[Len(grants) - Len(s) + i]
  /\ \A i \in 1..(Len(grants) - Len(s)) : grants[i] + Period <= now
PastGrants == \A i \in 1..Len(grants) : grants[i] <= now
Sleeping ==
  /\ queue # << >> /\ wake > now => Len(stamps) = Rate /\ wake = stamps[1] + Period
  /\ queue = << >> => wake <= now
Refused == RefusalIsEarned /\ \A r \in refusals : r.after <= Len(grants)
LimiterInv ==
  /\ LimiterTypes /\ LastGrants(stamps) /\ PastGrants /\ Sleeping
  /\ WindowRespected /\ Refused

\* popleft goes on until the window still holds the oldest stamp, or none is left.
LEMMA HeldStamps ==
  ASSUME stamps \in Seq(Nat), NEW time \in Nat
  PROVE  \E n \in 0..Len(stamps) :
           /\ \A i \in 1..n : stamps[i] + Period <= time
           /\ n < Len(stamps) => stamps[n + 1] + Period > time
           /\ HeldAt(time) = SubSeq(stamps, n + 1, Len(stamps))
<1> DEFINE Gone(n) == /\ \A i \in 1..n : stamps[i] + Period <= time
                      /\ n < Len(stamps) => stamps[n + 1] + Period > time
           T == {n \in 0..(Len(stamps) - 1) : stamps[n + 1] + Period > time}
<1> USE LimitsAssumption
<1>1. \E n \in 0..Len(stamps) : Gone(n)
  <2>1. T \in SUBSET Nat /\ Len(stamps) \in Nat
    OBVIOUS
  <2>2. ASSUME NEW i \in 1..Len(stamps), i - 1 \notin T
        PROVE  stamps[i] + Period <= time
    <3>1. i - 1 \in 0..(Len(stamps) - 1) /\ (i - 1) + 1 = i
      BY <2>1
    <3>2. ~(stamps[i] + Period > time)
      BY <2>2, <3>1
    <3>3. stamps[i] \in Nat
      OBVIOUS
    <3> QED BY <3>2, <3>3
  <2>3. CASE T = {}
    <3> HIDE DEF T
    <3> QED BY <2>1, <2>2, <2>3
  <2>4. CASE T # {}
    <3>1. PICK n \in T : \A k \in T : n <= k
      <4> HIDE DEF T
      <4> QED BY <2>1, <2>4, LeastNumber
    <3>2. n \in 0..Len(stamps) /\ stamps[n + 1] + Period > time /\ n \in Nat
      BY <2>1
    <3>3. ASSUME NEW i \in 1..n PROVE stamps[i] + Period <= time
      <4>1. i \in 1..Len(stamps) /\ i - 1 \in Int /\ i - 1 < n
        BY <2>1, <3>2
      <4>2. i - 1 \notin T
        <5> HIDE DEF T
        <5> QED BY <2>1, <3>1, <4>1
      <4> QED BY <2>2, <4>1, <4>2
    <3> QED BY <3>2, <3>3
  <2> QED BY <2>3, <2>4
<1> DEFINE gone == CHOOSE n \in 0..Len(stamps) : Gone(n)
<1>2. gone \in 0..Len(stamps) /\ Gone(gone)
  <2> HIDE DEF Gone
  <2> QED BY <1>1
<1>3. HeldAt(time) = SubSeq(stamps, gone + 1, Len(stamps))
  BY DEF HeldAt
<1> HIDE DEF gone
<1> QED BY <1>2, <1>3

\* What the window still holds are the last grants too; it is everything while
\* the oldest stamp is in the window.
LEMMA LiveStamps ==
  ASSUME LimiterInv
  PROVE  /\ LastGrants(Live) /\ Len(Live) <= Len(stamps)
         /\ Len(Live) > 0 => Live[1] + Period > now
         /\ Len(stamps) > 0 /\ stamps[1] + Period > now => Len(Live) = Len(stamps)
<1> USE LimitsAssumption
<1>1. /\ stamps \in Seq(Nat) /\ grants \in Seq(Nat) /\ now \in Nat
      /\ Len(stamps) \in Nat /\ Len(grants) \in Nat
      /\ Len(stamps) <= Rate /\ Len(stamps) <= Len(grants)
  BY DEF LimiterInv, LimiterTypes
<1>2. PICK n \in 0..Len(stamps) :
        /\ \A i \in 1..n : stamps[i] + Period <= now
        /\ n < Len(stamps) => stamps[n + 1] + Period > now
        /\ Live = SubSeq(stamps, n + 1, Len(stamps))
  BY <1>1, HeldStamps DEF Live
<1>3. /\ Live \in Seq(Nat) /\ Len(Live) = Len(stamps) - n
      /\ \A i \in 1..Len(Live) : Live[i] = stamps[n + i]
  BY SMTT(60), <1>1, <1>2
<1>4. ASSUME NEW i \in 1..Len(Live) PROVE Live[i] = grants[Len(grants) - Len(Live) + i]
  <2>1. Len(Live) = Len(stamps) - n /\ Len(Live) \in Nat /\ i \in Nat /\ n \in Nat
    BY <1>1, <1>3
  <2>3. /\ n + i \in 1..Len(stamps)
        /\ Len(grants) - Len(stamps) + (n + i) = Len(grants) - Len(Live) + i
    BY <1>1, <2>1
  <2>2. stamps[n + i] = grants[Len(grants) - Len(stamps) + (n + i)]
    BY <2>3 DEF LimiterInv, LastGrants
  <2> QED BY <1>3, <2>2, <2>3
<1>5. ASSUME NEW i \in 1..(Len(grants) - Len(Live)) PROVE grants[i] + Period <= now
  <2>1. CASE i \in 1..(Len(grants) - Len(stamps))
    BY <2>1 DEF LimiterInv, LastGrants
  <2>2. CASE i \notin 1..(Len(grants) - Len(stamps))
    <3> DEFINE j == i - (Len(grants) - Len(stamps))
    <3>1. j \in 1..n /\ j \in 1..Len(stamps) /\ Len(grants) - Len(stamps) + j = i
      BY <1>1, <1>3, <2>2
    <3> HIDE DEF j
    <3>2. stamps[j] = grants[i]
      BY <3>1 DEF LimiterInv, LastGrants
    <3> QED BY <1>2, <3>1, <3>2
  <2> QED BY <2>1, <2>2
<1>6. LastGrants(Live) /\ Len(Live) <= Len(stamps)
  BY <1>1, <1>3, <1>4, <1>5 DEF LastGrants
<1>7. ASSUME Len(Live) > 0 PROVE Live[1] + Period > now
  <2>1. n < Len(stamps) /\ 1 \in 1..Len(Live) /\ n + 1 \in Nat
    BY SMTT(60), <1>1, <1>3, <1>7
  <2> QED BY <1>2, <1>3, <2>1
<1>8. ASSUME Len(stamps) > 0, stamps[1] + Period > now PROVE Len(Live) = Len(stamps)
  <2>1. stamps[1] \in Nat
    BY <1>1, <1>8
  <2>2. 1 \notin 1..n
    BY <1>1, <1>2, <1>8, <2>1
  <2> QED BY <1>1, <1>3, <2>2
<1> QED BY <1>6, <1>7, <1>8

\* The limiter starts with an empty window.
LEMMA LimiterStarts == Init => LimiterInv
<1> SUFFICES ASSUME Init PROVE LimiterInv
  OBVIOUS
<1> USE LimitsAssumption DEF Init
<1>1. LimiterTypes
  BY DEF LimiterTypes
<1>2. LastGrants(stamps) /\ PastGrants /\ Sleeping
  BY DEF LastGrants, PastGrants, Sleeping
<1>3. WindowRespected /\ Refused
  BY DEF WindowRespected, Refused, RefusalIsEarned
<1> QED BY <1>1, <1>2, <1>3 DEF LimiterInv

\* A call that leaves the queue leaves the others in it.
LEMMA LeaveKeeps ==
  ASSUME LimiterInv, NEW i \in 1..Len(queue), Leave(i)
  PROVE  queue' \in Seq(Requests) /\ Len(queue') = Len(queue) - 1
<1>1. queue \in Seq(Requests)
  BY DEF LimiterInv, LimiterTypes
<1> DEFINE front == SubSeq(queue, 1, i - 1)
           back == SubSeq(queue, i + 1, Len(queue))
<1>2. front \in Seq(Requests) /\ Len(front) = i - 1
  BY <1>1
<1>3. back \in Seq(Requests) /\ Len(back) = Len(queue) - i
  BY <1>1
<1>4. queue' = front \o back
  BY DEF Leave
<1> HIDE DEF front, back
<1> QED BY <1>1, <1>2, <1>3, <1>4

\* A granted call stamps the window; the grant Rate before it has left the window.
LEMMA GrantKeeps ==
  ASSUME LimiterInv, Grant
  PROVE  LimiterInv'
<1> USE LimitsAssumption
<1>1. /\ now \in 0..MaxTime /\ wake \in Nat /\ calls \in 0..MaxCalls
      /\ stamps \in Seq(Nat) /\ grants \in Seq(Nat) /\ queue \in Seq(Requests)
      /\ now \in Nat /\ Len(grants) \in Nat
  BY DEF LimiterInv, LimiterTypes
<1>2. /\ queue # << >> /\ wake <= now /\ ~Full /\ Leave(1)
      /\ stamps' = Append(Live, now) /\ grants' = Append(grants, now)
      /\ now' = now /\ wake' = wake /\ refusals' = refusals /\ calls' = calls
  BY DEF Grant, Ready
<1>3. LastGrants(Live)
  BY LiveStamps
<1>4. Live \in Seq(Nat) /\ Len(Live) \in Nat /\ Len(Live) < Rate /\ Len(Live) <= Len(grants)
  BY <1>2, <1>3 DEF LastGrants, Full
<1>5. /\ stamps' \in Seq(Nat) /\ Len(stamps') = Len(Live) + 1
      /\ \A i \in 1..Len(Live) : stamps'[i] = Live[i]
      /\ stamps'[Len(Live) + 1] = now
  BY <1>1, <1>2, <1>4
<1>6. /\ grants' \in Seq(Nat) /\ Len(grants') = Len(grants) + 1
      /\ \A i \in 1..Len(grants) : grants'[i] = grants[i]
      /\ grants'[Len(grants) + 1] = now
  BY <1>1, <1>2
<1>sizes. /\ Len(grants) \in Nat /\ Len(Live) \in Nat /\ Rate \in Nat /\ Rate > 0
       /\ Len(Live) < Rate /\ Len(Live) <= Len(grants)
       /\ Len(stamps') = Len(Live) + 1 /\ Len(grants') = Len(grants) + 1
  BY <1>1, <1>4, <1>5, <1>6
<1>7. queue' \in Seq(Requests)
  <2>1. 1 \in 1..Len(queue)
    BY <1>1, <1>2
  <2> QED BY <1>2, <2>1, LeaveKeeps
<1>8. LimiterTypes'
  <2>1. Len(stamps') <= Rate /\ Len(stamps') <= Len(grants')
    BY <1>4, <1>5, <1>6
  <2>2. refusals \subseteq [deadline: Nat, after: Nat]
    BY DEF LimiterInv, LimiterTypes
  <2> QED BY <1>1, <1>2, <1>5, <1>6, <1>7, <2>1, <2>2 DEF LimiterTypes
<1>9. LastGrants(stamps)'
  <2>1. ASSUME NEW i \in 1..Len(stamps')
        PROVE  stamps'[i] = grants'[Len(grants') - Len(stamps') + i]
    <3>1. CASE i = Len(Live) + 1
      <4>1. Len(grants') - Len(stamps') + i = Len(grants) + 1
        BY <1>1, <1>4, <1>5, <1>6, <3>1
      <4> QED BY <1>5, <1>6, <3>1, <4>1
    <3>2. CASE i # Len(Live) + 1
      <4> DEFINE j == Len(grants) - Len(Live) + i
      <4>1. /\ i \in 1..Len(Live) /\ j \in 1..Len(grants)
            /\ Len(grants') - Len(stamps') + i = j
        BY <1>sizes, <3>2
      <4>2. Live[i] = grants[j]
        BY <1>3, <4>1 DEF LastGrants
      <4> HIDE DEF j
      <4> QED BY <1>5, <1>6, <4>1, <4>2
    <3> QED BY <3>1, <3>2
  <2>2. ASSUME NEW i \in 1..(Len(grants') - Len(stamps'))
        PROVE  grants'[i] + Period <= now'
    <3>1. i \in 1..(Len(grants) - Len(Live)) /\ i \in 1..Len(grants)
      BY <1>sizes
    <3>2. grants[i] + Period <= now
      BY <1>3, <3>1 DEF LastGrants
    <3> QED BY <1>2, <1>6, <3>1, <3>2
  <2>3. stamps' \in Seq(Nat) /\ Len(stamps') <= Rate /\ Len(stamps') <= Len(grants')
    BY <1>8 DEF LimiterTypes
  <2> QED BY <2>1, <2>2, <2>3 DEF LastGrants
<1>10. PastGrants'
  BY <1>1, <1>2, <1>6 DEF PastGrants, LimiterInv
<1>11. WindowRespected'
  <2> SUFFICES ASSUME NEW i \in 1..Len(grants'), i + Rate <= Len(grants')
               PROVE  grants'[i + Rate] >= grants'[i] + Period
    BY <1>6 DEF WindowRespected
  <2>1. CASE i + Rate <= Len(grants)
    <3>1. i \in 1..Len(grants) /\ i + Rate \in 1..Len(grants) /\ i \in DOMAIN grants
      BY <1>1, <2>1
    <3>2. grants[i + Rate] >= grants[i] + Period
      BY <2>1, <3>1 DEF LimiterInv, WindowRespected
    <3> QED BY <1>6, <3>1, <3>2
  <2>2. CASE ~(i + Rate <= Len(grants))
    <3>1. /\ i + Rate = Len(grants) + 1 /\ i \in 1..Len(grants)
          /\ i \in 1..(Len(grants) - Len(Live))
      BY <1>sizes, <2>2
    <3>2. grants[i] + Period <= now
      BY <1>3, <3>1 DEF LastGrants
    <3> QED BY <1>1, <1>6, <3>1, <3>2
  <2> QED BY <2>1, <2>2
<1>12. Refused'
  <2> SUFFICES ASSUME NEW r \in refusals
               PROVE  /\ r.after >= Rate /\ grants'[r.after - Rate + 1] + Period >= r.deadline
                      /\ r.after <= Len(grants')
    BY <1>2 DEF Refused, RefusalIsEarned
  <2>1. /\ r.after >= Rate /\ grants[r.after - Rate + 1] + Period >= r.deadline
        /\ r.after <= Len(grants)
    BY DEF LimiterInv, Refused, RefusalIsEarned
  <2>2. r.after \in Nat
    BY DEF LimiterInv, LimiterTypes
  <2>3. r.after - Rate + 1 \in 1..Len(grants) /\ r.after <= Len(grants')
    BY <1>sizes, <2>1, <2>2
  <2>4. grants'[r.after - Rate + 1] = grants[r.after - Rate + 1]
    BY <1>6, <2>3
  <2> QED BY <2>1, <2>3, <2>4
<1>13. Sleeping'
  <2>1. ~(wake' > now')
    BY <1>1, <1>2
  <2> QED BY <1>1, <1>2, <2>1 DEF Sleeping
<1> QED BY <1>8, <1>9, <1>10, <1>11, <1>12, <1>13 DEF LimiterInv

\* A refused call found the window full: its oldest stamp is the grant Rate ago.
LEMMA RefuseKeeps ==
  ASSUME LimiterInv, Refuse
  PROVE  LimiterInv'
<1> USE LimitsAssumption
<1>1. /\ now \in 0..MaxTime /\ wake \in Nat /\ calls \in 0..MaxCalls
      /\ grants \in Seq(Nat) /\ queue \in Seq(Requests) /\ Len(grants) \in Nat
      /\ refusals \subseteq [deadline: Nat, after: Nat]
  BY DEF LimiterInv, LimiterTypes
<1>2. /\ queue # << >> /\ wake <= now /\ Full /\ TooLate /\ Leave(1)
      /\ stamps' = Live /\ grants' = grants /\ now' = now /\ wake' = wake /\ calls' = calls
      /\ refusals' = refusals \cup {[deadline |-> queue[1].deadline, after |-> Len(grants)]}
  BY DEF Refuse, Ready
<1>3. LastGrants(Live)
  BY LiveStamps
<1>4. Live \in Seq(Nat) /\ Len(Live) \in Nat /\ Len(Live) = Rate /\ Len(Live) <= Len(grants)
  BY <1>2, <1>3 DEF LastGrants, Full
<1>5. queue' \in Seq(Requests) /\ queue[1].deadline \in Nat
  <2>1. 1 \in 1..Len(queue)
    BY <1>1, <1>2
  <2>2. queue[1] \in Requests
    BY <1>1, <2>1
  <2> QED BY <1>2, <2>1, <2>2, LeaveKeeps DEF Requests
<1>6. LimiterTypes'
  BY SMTT(60), <1>1, <1>2, <1>4, <1>5 DEF LimiterTypes
<1>7. LastGrants(stamps)'
  BY <1>2, <1>3 DEF LastGrants
<1>8. PastGrants' /\ WindowRespected'
  BY <1>2 DEF LimiterInv, PastGrants, WindowRespected
<1>9. Refused'
  <2>1. 1 \in 1..Len(Live) /\ Len(grants) - Len(Live) + 1 = Len(grants) - Rate + 1
    BY <1>4
  <2>2. Live[1] = grants[Len(grants) - Rate + 1]
    BY <1>3, <2>1 DEF LastGrants
  <2>3. grants[Len(grants) - Rate + 1] + Period >= queue[1].deadline
    BY <1>2, <2>2 DEF TooLate
  <2> SUFFICES ASSUME NEW r \in refusals'
               PROVE  /\ r.after >= Rate /\ grants[r.after - Rate + 1] + Period >= r.deadline
                      /\ r.after <= Len(grants)
    BY <1>2 DEF Refused, RefusalIsEarned
  <2>4. CASE r \in refusals
    BY <2>4 DEF LimiterInv, Refused, RefusalIsEarned
  <2>5. CASE r = [deadline |-> queue[1].deadline, after |-> Len(grants)]
    BY <1>4, <1>1, <2>3, <2>5
  <2> QED BY <1>2, <2>4, <2>5
<1>10. Sleeping'
  <2>1. ~(wake' > now')
    BY <1>1, <1>2
  <2> QED BY <1>1, <1>2, <2>1 DEF Sleeping
<1> QED BY <1>6, <1>7, <1>8, <1>9, <1>10 DEF LimiterInv

\* Whoever sleeps, sleeps until the oldest stamp of a full window leaves it.
LEMMA SleepKeeps ==
  ASSUME LimiterInv, Sleep
  PROVE  LimiterInv'
<1> USE LimitsAssumption
<1>1. /\ now \in 0..MaxTime /\ calls \in 0..MaxCalls /\ now \in Nat
      /\ grants \in Seq(Nat) /\ queue \in Seq(Requests) /\ Len(grants) \in Nat
      /\ refusals \subseteq [deadline: Nat, after: Nat]
  BY DEF LimiterInv, LimiterTypes
<1>2. /\ queue # << >> /\ Full
      /\ stamps' = Live /\ wake' = Live[1] + Period /\ grants' = grants /\ now' = now
      /\ calls' = calls /\ refusals' = refusals /\ queue' = queue
  BY DEF Sleep, Ready, Until
<1>3. LastGrants(Live)
  BY LiveStamps
<1>4. Live \in Seq(Nat) /\ Len(Live) \in Nat /\ Len(Live) = Rate /\ Len(Live) <= Len(grants)
  BY <1>2, <1>3 DEF LastGrants, Full
<1>5. 1 \in 1..Len(Live) /\ Live[1] \in Nat
  BY <1>4
<1>6. LimiterTypes'
  BY <1>1, <1>2, <1>4, <1>5 DEF LimiterTypes
<1>7. LastGrants(stamps)'
  BY <1>2, <1>3 DEF LastGrants
<1>8. PastGrants' /\ WindowRespected' /\ Refused'
  BY <1>2 DEF LimiterInv, PastGrants, WindowRespected, Refused, RefusalIsEarned
<1>9. Sleeping'
  BY <1>2, <1>4 DEF Sleeping
<1> QED BY <1>6, <1>7, <1>8, <1>9 DEF LimiterInv

\* Whoever is cancelled wakes no other too early: the next one looks at the
\* window itself.
LEMMA CancelKeeps ==
  ASSUME LimiterInv, Cancel
  PROVE  LimiterInv'
<1> USE LimitsAssumption
<1>1. PICK i \in DOMAIN queue : Leave(i) /\ wake' = IF i = 1 THEN 0 ELSE wake
  BY DEF Cancel
<1>2. /\ now' = now /\ stamps' = stamps /\ grants' = grants /\ refusals' = refusals /\ calls' = calls
  BY DEF Cancel
<1>3. /\ queue \in Seq(Requests) /\ i \in 1..Len(queue) /\ wake \in Nat /\ now \in Nat
  BY <1>1 DEF LimiterInv, LimiterTypes
<1>4. queue' \in Seq(Requests) /\ Len(queue') = Len(queue) - 1
  BY <1>1, <1>3, LeaveKeeps
<1>5. LimiterTypes'
  BY <1>1, <1>2, <1>3, <1>4 DEF LimiterInv, LimiterTypes
<1>6. LastGrants(stamps)'
  BY <1>2 DEF LimiterInv, LastGrants
<1>7. PastGrants' /\ WindowRespected' /\ Refused'
  BY <1>2 DEF LimiterInv, PastGrants, WindowRespected, Refused, RefusalIsEarned
<1>8. Sleeping'
  <2>1. CASE i = 1
    <3>1. wake' = 0 /\ ~(wake' > now') /\ wake' <= now'
      BY <1>1, <1>2, <1>3, <2>1
    <3> QED BY <3>1 DEF Sleeping
  <2>2. CASE i # 1
    <3>1. Len(queue') > 0 /\ queue' # << >> /\ queue # << >> /\ wake' = wake
      BY <1>1, <1>3, <1>4, <2>2
    <3> QED BY <1>2, <3>1 DEF LimiterInv, Sleeping
  <2> QED BY <2>1, <2>2
<1> QED BY <1>5, <1>6, <1>7, <1>8 DEF LimiterInv

\* Every step of the limiter keeps the invariant.
LEMMA LimiterStep ==
  ASSUME LimiterInv, [Next]_vars
  PROVE  LimiterInv'
<1> USE LimitsAssumption
<1>1. ASSUME Arrive PROVE LimiterInv'
  <2>1. PICK d \in {now + t : t \in Timeouts} \cup {Patient} :
          queue' = Append(queue, [deadline |-> d])
    BY <1>1 DEF Arrive
  <2>2. /\ now' = now /\ stamps' = stamps /\ wake' = wake /\ grants' = grants
        /\ refusals' = refusals /\ calls' = calls + 1 /\ calls < MaxCalls
    BY <1>1 DEF Arrive
  <2>3. queue \in Seq(Requests) /\ now \in Nat /\ wake \in Nat /\ calls \in 0..MaxCalls
    BY DEF LimiterInv, LimiterTypes
  <2>4. d \in Nat
    BY <2>1, <2>3
  <2>5. queue' \in Seq(Requests) /\ queue' # << >>
    BY <2>1, <2>3, <2>4 DEF Requests
  <2>6. LimiterTypes'
    BY <2>2, <2>3, <2>5 DEF LimiterInv, LimiterTypes
  <2>7. Sleeping'
    BY <2>2, <2>3, <2>5 DEF LimiterInv, Sleeping
  <2>8. LastGrants(stamps)' /\ PastGrants' /\ WindowRespected' /\ Refused'
    BY <2>2 DEF LimiterInv, LastGrants, PastGrants, WindowRespected, Refused, RefusalIsEarned
  <2> QED BY <2>6, <2>7, <2>8 DEF LimiterInv
<1>2. ASSUME Tick PROVE LimiterInv'
  <2>1. /\ now' = now + 1 /\ now < MaxTime /\ ~(queue # << >> /\ wake <= now)
        /\ stamps' = stamps /\ wake' = wake /\ grants' = grants
        /\ refusals' = refusals /\ calls' = calls /\ queue' = queue
    BY <1>2 DEF Tick, Ready
  <2>2. /\ now \in 0..MaxTime /\ wake \in Nat /\ grants \in Seq(Nat) /\ stamps \in Seq(Nat)
        /\ Len(grants) \in Nat /\ Len(stamps) \in Nat
    BY DEF LimiterInv, LimiterTypes
  <2>3. LimiterTypes'
    BY <2>1, <2>2 DEF LimiterInv, LimiterTypes
  <2>4. PastGrants'
    BY <2>1, <2>2 DEF LimiterInv, PastGrants
  <2>5. LastGrants(stamps)'
    <3>1. ASSUME NEW i \in 1..(Len(grants) - Len(stamps)) PROVE grants[i] + Period <= now'
      <4>1. grants[i] + Period <= now
        BY DEF LimiterInv, LastGrants
      <4>2. grants[i] \in Nat
        BY <2>2
      <4> QED BY <2>1, <2>2, <4>1, <4>2
    <3> QED BY <2>1, <3>1 DEF LimiterInv, LastGrants
  <2>6. Sleeping'
    <3>1. queue # << >> /\ wake' > now' => queue # << >> /\ wake > now
      BY <2>1, <2>2
    <3>2. queue = << >> => wake' <= now'
      BY <2>1, <2>2 DEF LimiterInv, Sleeping
    <3> QED BY <2>1, <3>1, <3>2 DEF LimiterInv, Sleeping
  <2>7. WindowRespected' /\ Refused'
    BY <2>1 DEF LimiterInv, WindowRespected, Refused, RefusalIsEarned
  <2> QED BY <2>3, <2>4, <2>5, <2>6, <2>7 DEF LimiterInv
<1>3. ASSUME UNCHANGED vars PROVE LimiterInv'
  BY <1>3 DEF vars, LimiterInv, LimiterTypes, LastGrants, PastGrants, Sleeping, WindowRespected,
     Refused, RefusalIsEarned
<1> QED
  BY <1>1, <1>2, <1>3, GrantKeeps, RefuseKeeps, SleepKeeps, CancelKeeps DEF Next

\* Whoever sleeps has a full window before it: its oldest stamp is still in it.
LEMMA LimiterKept ==
  ASSUME LimiterInv
  PROVE  LimiterKeepsTime
<1> USE LimitsAssumption
<1>1. RoomIsUsed
  <2> SUFFICES ASSUME queue # << >>, wake > now PROVE Len(Live) >= Rate
    BY DEF RoomIsUsed, Full
  <2>1. Len(stamps) = Rate /\ stamps[1] + Period > now
    BY DEF LimiterInv, Sleeping
  <2>2. Len(Live) = Len(stamps)
    BY <2>1, LiveStamps
  <2> QED BY <2>1, <2>2
<1> QED BY <1>1 DEF LimiterKeepsTime, LimiterInv, Refused

-----------------------------------------------------------------------------
(* The container pool.  A busy slot is held, or in one call in progress,   *)
(* because ids are never reused and a slot being started, or held, is busy *)
(* from its creation on.  No slot is ever idle in the sense acquire looks  *)
(* for, so that the pool only grows by creation: a creation under way will *)
(* be one more slot, which is what bounds how far overlapping calls go     *)
(* beyond the maximum.                                                     *)

Working == {"start", "remove", "closing one"}
Calls == [op: {"idle", "create", "close"}] \cup [op: Working, id: Containers]
PoolSlots == [id: Containers, busy: BOOLEAN, state: {"running", "missing"}]
PoolTypes ==
  /\ slots \subseteq PoolSlots /\ daemon \subseteq Containers /\ closing \subseteq Containers
  /\ task \in [Users -> Calls] /\ held \in [Users -> Containers \cup {NoContainer}]

OneSlotPerId == \A s, t \in slots : s.id = t.id => s = t
OneHolderPerId == \A u, v \in Users : held[u] # NoContainer /\ held[v] = held[u] => u = v
OneStartPerId ==
  \A u, v \in Users : task[u].op = "start" /\ task[v].op = "start" /\ task[u].id = task[v].id => u = v
StartsUnheld == \A u, v \in Users : task[u].op = "start" => held[v] # task[u].id
AcquiringHoldsNone == \A u \in Users : task[u].op \in {"create", "start"} => held[u] = NoContainer
UsedIsBusy ==
  \A s \in slots, u \in Users :
    held[u] = s.id \/ (task[u].op = "start" /\ task[u].id = s.id) => s.busy
PoolUses ==
  /\ OneSlotPerId /\ OneHolderPerId /\ OneStartPerId /\ StartsUnheld /\ AcquiringHoldsNone
  /\ UsedIsBusy /\ Pool!BusySlotsAreUsed

Creating == {u \in Users : task[u].op = "create"}
SlotsCounted ==
  /\ IsFiniteSet(slots)
  /\ Cardinality(slots) + Cardinality(Creating) <= MaxSize + Cardinality(Users) - 1
PoolInv == PoolTypes /\ PoolUses /\ SlotsCounted

\* What is assumed of the users and the size of the pool.
LEMMA PoolSizes ==
  /\ IsFiniteSet(Users) /\ Cardinality(Users) \in Nat /\ MaxSize \in Nat /\ MaxSize > 0
  /\ NoContainer \notin Containers
<1>1. MaxSize \in Nat \ {0} /\ NoContainer \notin Containers /\ IsFiniteSet(Users)
  BY InstanceAssumptions DEF Pool!PoolAssumption, Pool!IsFiniteSet, IsFiniteSet
<1>2. Cardinality(Users) \in Nat
  BY <1>1, FS_CardinalityType
<1> QED BY <1>1, <1>2

\* The pool counts as everybody does.
LEMMA PoolCounts == \A S : Pool!Cardinality(S) = Cardinality(S)
  BY DEF Pool!Cardinality, Cardinality

\* Slots that go, and creations that end, make room.
LEMMA CountShrinks ==
  ASSUME SlotsCounted, slots' \subseteq slots, Creating' \subseteq Creating
  PROVE  SlotsCounted'
<1>1. Creating \in SUBSET Users /\ IsFiniteSet(Creating)
  BY PoolSizes, FS_Subset DEF Creating
<1>2. IsFiniteSet(slots') /\ Cardinality(slots') <= Cardinality(slots)
  BY FS_Subset DEF SlotsCounted
<1>3. IsFiniteSet(Creating') /\ Cardinality(Creating') <= Cardinality(Creating)
  BY <1>1, FS_Subset
<1>4. /\ Cardinality(slots) \in Nat /\ Cardinality(slots') \in Nat
      /\ Cardinality(Creating) \in Nat /\ Cardinality(Creating') \in Nat
  BY <1>1, <1>2, <1>3, FS_CardinalityType DEF SlotsCounted
<1> QED BY <1>2, <1>3, <1>4, PoolSizes DEF SlotsCounted

\* Slots that only change are not more.
LEMMA CountOfChanged ==
  ASSUME SlotsCounted, UNCHANGED task, NEW f, slots' = {f[s] : s \in slots}, f \in [slots -> PoolSlots]
  PROVE  SlotsCounted'
<1> DEFINE after == {f[s] : s \in slots}
<1>1. f \in [slots -> after] /\ \A r \in after : \E s \in slots : f[s] = r
  OBVIOUS
<1>2. f \in Surjection(slots, after)
  BY <1>1 DEF Surjection
<1>3. IsFiniteSet(after) /\ Cardinality(after) <= Cardinality(slots)
  BY <1>2, FS_Surjection DEF SlotsCounted
<1>4. Creating' = Creating /\ slots' = after
  BY DEF Creating
<1>5. IsFiniteSet(Creating)
  BY PoolSizes, FS_Subset DEF Creating
<1>6. /\ Cardinality(slots) \in Nat /\ Cardinality(after) \in Nat /\ Cardinality(Creating) \in Nat
  BY <1>3, <1>5, FS_CardinalityType DEF SlotsCounted
<1> HIDE DEF after
<1>7. Cardinality(slots') = Cardinality(after) /\ Cardinality(Creating') = Cardinality(Creating)
  BY <1>4
<1>8. IsFiniteSet(slots')
  BY <1>3, <1>4
<1>9. Cardinality(slots') + Cardinality(Creating') <= MaxSize + Cardinality(Users) - 1
  BY <1>3, <1>6, <1>7, PoolSizes DEF SlotsCounted
<1> QED BY <1>8, <1>9 DEF SlotsCounted

\* The pool starts empty.
LEMMA PoolStarts == Pool!Init => PoolInv
<1> SUFFICES ASSUME Pool!Init PROVE PoolInv
  OBVIOUS
<1> USE DEF Pool!Init, Pool!Idle
<1>1. PoolTypes
  BY DEF PoolTypes, Calls
<1>2. PoolUses
  BY DEF PoolUses, OneSlotPerId, OneHolderPerId, OneStartPerId, StartsUnheld, AcquiringHoldsNone,
     UsedIsBusy, Pool!BusySlotsAreUsed
<1>3. SlotsCounted
  <2>1. Creating = {} /\ slots = {}
    BY DEF Creating
  <2> QED BY <2>1, PoolSizes, FS_EmptySet DEF SlotsCounted
<1> QED BY <1>1, <1>2, <1>3 DEF PoolInv

\* acquire: as no slot is idle, it creates one while there is room.
LEMMA PoolAcquire ==
  ASSUME PoolInv, NEW u \in Users, Pool!Acquire(u)
  PROVE  PoolInv'
<1>1. Pool!Reusable = {}
  BY DEF PoolInv, PoolTypes, PoolSlots, Pool!Reusable
<1>2. /\ UNCHANGED <<slots, daemon, held, closing>> /\ task[u] = Pool!Idle /\ held[u] = NoContainer
      /\ \/ Pool!HasRoom /\ task' = [task EXCEPT ![u] = [op |-> "create"]]
         \/ task' = task
  BY <1>1 DEF Pool!Acquire, Pool!Free, Pool!Goes
<1>3. CASE task' = task
  <2>1. PoolTypes' /\ SlotsCounted'
    BY <1>2, <1>3 DEF PoolInv, PoolTypes, SlotsCounted, Creating
  <2>2. OneSlotPerId' /\ OneHolderPerId' /\ OneStartPerId' /\ StartsUnheld' /\ AcquiringHoldsNone'
    BY <1>2, <1>3 DEF PoolInv, PoolUses, OneSlotPerId, OneHolderPerId, OneStartPerId, StartsUnheld,
       AcquiringHoldsNone
  <2>3. UsedIsBusy' /\ Pool!BusySlotsAreUsed'
    BY <1>2, <1>3 DEF PoolInv, PoolUses, UsedIsBusy, Pool!BusySlotsAreUsed
  <2> QED BY <2>1, <2>2, <2>3 DEF PoolInv, PoolUses
<1>4. ASSUME Pool!HasRoom, task' = [task EXCEPT ![u] = [op |-> "create"]] PROVE PoolInv'
  <2>1. task \in [Users -> Calls] /\ [op |-> "create"] \in Calls
    BY DEF PoolInv, PoolTypes, Calls
  <2>2. /\ task' \in [Users -> Calls] /\ task'[u].op = "create"
        /\ \A v \in Users : v # u => task'[v] = task[v]
    BY <1>4, <2>1
  <2>3. PoolTypes'
    BY <1>2, <2>2 DEF PoolInv, PoolTypes
  <2>4. PoolUses'
    <3>1. OneSlotPerId' /\ OneHolderPerId'
      BY <1>2 DEF PoolInv, PoolUses, OneSlotPerId, OneHolderPerId
    <3>2. OneStartPerId' /\ StartsUnheld'
      BY <1>2, <2>2 DEF PoolInv, PoolUses, OneStartPerId, StartsUnheld
    <3>3. AcquiringHoldsNone'
      BY <1>2, <2>2 DEF PoolInv, PoolUses, AcquiringHoldsNone
    <3>4. UsedIsBusy'
      BY <1>2, <2>2 DEF PoolInv, PoolUses, UsedIsBusy
    <3>5. task[u].op = "idle"
      BY <1>2 DEF Pool!Idle
    <3>6. Pool!BusySlotsAreUsed'
      <4> SUFFICES ASSUME NEW s \in slots, s.busy
                   PROVE  \/ \E v \in Users : held[v] = s.id
                          \/ \E v \in Users : task'[v].op \in Working /\ task'[v].id = s.id
        BY <1>2 DEF Pool!BusySlotsAreUsed, Working
      <4>1. \/ \E v \in Users : held[v] = s.id
            \/ \E v \in Users : task[v].op \in Working /\ task[v].id = s.id
        BY DEF PoolInv, PoolUses, Pool!BusySlotsAreUsed, Working
      <4>2. \A v \in Users : task[v].op \in Working => v # u
        BY <3>5 DEF Working
      <4> QED BY <2>2, <4>1, <4>2
    <3> QED BY <3>1, <3>2, <3>3, <3>4, <3>6 DEF PoolUses
  <2>5. SlotsCounted'
    <3>1. Creating' \in SUBSET Users
      BY DEF Creating
    <3>2. Cardinality(Creating') \in Nat /\ Cardinality(Creating') <= Cardinality(Users)
      BY <3>1, PoolSizes, FS_Subset, FS_CardinalityType
    <3>3. IsFiniteSet(slots) /\ Cardinality(slots) \in Nat /\ Cardinality(slots) < MaxSize
      BY <1>4, FS_CardinalityType, PoolCounts DEF Pool!HasRoom, PoolInv, SlotsCounted
    <3>4. Cardinality(slots) + Cardinality(Creating') <= MaxSize + Cardinality(Users) - 1
      BY <3>2, <3>3, PoolSizes
    <3> QED BY <1>2, <3>3, <3>4 DEF SlotsCounted
  <2> QED BY <2>3, <2>4, <2>5 DEF PoolInv
<1> QED BY <1>2, <1>3, <1>4

\* docker create answers: the new id means nothing to anybody yet.
LEMMA PoolCreated ==
  ASSUME PoolInv, NEW u \in Users, Pool!Created(u)
  PROVE  PoolInv'
<1>1. PICK c \in Containers \ Pool!Known :
        /\ daemon' = daemon \cup {c} /\ slots' = slots \cup {Pool!Slot(c)}
        /\ task' = [task EXCEPT ![u] = [op |-> "start", id |-> c]]
  BY DEF Pool!Created, Pool!Entered, Pool!Goes
<1>2. held' = held /\ closing' = closing /\ task[u].op = "create"
  BY DEF Pool!Created, Pool!In
<1>3. /\ \A s \in slots : s.id # c
      /\ \A v \in Users : held[v] # c
      /\ \A v \in Users : task[v].op \in Working => task[v].id # c
  BY <1>1 DEF Pool!Known, Pool!Pooled, Working
<1>4. /\ task \in [Users -> Calls] /\ [op |-> "start", id |-> c] \in Calls
      /\ Pool!Slot(c) \in PoolSlots /\ Pool!Slot(c).id = c /\ Pool!Slot(c).busy
  BY <1>1 DEF PoolInv, PoolTypes, Calls, Working, Pool!Slot, PoolSlots
<1>5. /\ task' \in [Users -> Calls] /\ task'[u].op = "start" /\ task'[u].id = c
      /\ \A v \in Users : v # u => task'[v] = task[v]
  BY <1>1, <1>4
<1>6. PoolTypes'
  BY <1>1, <1>2, <1>4, <1>5 DEF PoolInv, PoolTypes
<1>7. OneSlotPerId' /\ OneHolderPerId'
  BY <1>1, <1>2, <1>3, <1>4 DEF PoolInv, PoolUses, OneSlotPerId, OneHolderPerId
<1>8. OneStartPerId' /\ StartsUnheld' /\ AcquiringHoldsNone'
  <2>1. \A v \in Users : task[v].op = "start" => task[v].id # c
    BY <1>3 DEF Working
  <2>2. OneStartPerId'
    BY <1>5, <2>1 DEF PoolInv, PoolUses, OneStartPerId
  <2>3. StartsUnheld'
    <3> SUFFICES ASSUME NEW v \in Users, NEW w \in Users, task'[v].op = "start"
                 PROVE  held[w] # task'[v].id
      BY <1>2 DEF StartsUnheld
    <3>1. CASE v = u
      BY <1>3, <1>5, <3>1
    <3>2. CASE v # u
      BY <1>5, <3>2 DEF PoolInv, PoolUses, StartsUnheld
    <3> QED BY <3>1, <3>2
  <2>4. AcquiringHoldsNone'
    BY <1>2, <1>5 DEF PoolInv, PoolUses, AcquiringHoldsNone
  <2> QED BY <2>2, <2>3, <2>4
<1>9. UsedIsBusy'
  BY <1>1, <1>2, <1>3, <1>4, <1>5 DEF PoolInv, PoolUses, UsedIsBusy
<1>10. Pool!BusySlotsAreUsed'
  BY ZenonT(60), <1>1, <1>2, <1>4, <1>5 DEF PoolInv, PoolUses, Pool!BusySlotsAreUsed
<1>11. SlotsCounted'
  <2>1. Creating' = Creating \ {u} /\ u \in Creating /\ Creating \in SUBSET Users
    BY <1>2, <1>5 DEF Creating
  <2>2. IsFiniteSet(Creating) /\ IsFiniteSet(slots)
    BY <2>1, PoolSizes, FS_Subset DEF PoolInv, SlotsCounted
  <2>3. Cardinality(Creating') = Cardinality(Creating) - 1
    BY <2>1, <2>2, FS_RemoveElement
  <2>4. Pool!Slot(c) \notin slots
    BY <1>3, <1>4
  <2>5. IsFiniteSet(slots') /\ Cardinality(slots') = Cardinality(slots) + 1
    BY <1>1, <2>2, <2>4, FS_AddElement
  <2>6. Cardinality(slots) \in Nat /\ Cardinality(Creating) \in Nat
    BY <2>2, FS_CardinalityType
  <2> QED BY <2>3, <2>5, <2>6, PoolSizes DEF PoolInv, SlotsCounted
<1> QED BY <1>6, <1>7, <1>8, <1>9, <1>10, <1>11 DEF PoolInv, PoolUses

\* A call ends with its slot gone: failed starts, removals, and what close destroys.
LEMMA SlotGoes ==
  ASSUME PoolInv, NEW u \in Users, task[u].op \in Working, slots' = Pool!WithoutSlot(task[u].id),
         NEW r \in Calls, r.op \in {"idle", "close"}, task' = [task EXCEPT ![u] = r],
         held' = held, daemon' \subseteq Containers, closing' \subseteq Containers
  PROVE  PoolInv'
<1>1. task' \in [Users -> Calls] /\ task'[u] = r /\ \A v \in Users : v # u => task'[v] = task[v]
  BY DEF PoolInv, PoolTypes
<1>2. /\ slots' \subseteq slots
      /\ \A s \in slots' : s.id # task[u].id
  BY DEF Pool!WithoutSlot
<1>3. PoolTypes'
  BY <1>1, <1>2 DEF PoolInv, PoolTypes
<1>4. \A v \in Users : task'[v].op \in {"create", "start"} => v # u
  BY <1>1
<1>5. OneSlotPerId' /\ OneHolderPerId'
  BY <1>2 DEF PoolInv, PoolUses, OneSlotPerId, OneHolderPerId
<1>6. OneStartPerId'
  BY <1>1, <1>4 DEF PoolInv, PoolUses, OneStartPerId
<1>7. StartsUnheld' /\ AcquiringHoldsNone'
  BY <1>1, <1>4 DEF PoolInv, PoolUses, StartsUnheld, AcquiringHoldsNone
<1>8. UsedIsBusy'
  BY <1>1, <1>2, <1>4 DEF PoolInv, PoolUses, UsedIsBusy
<1>9. Pool!BusySlotsAreUsed'
  <2> SUFFICES ASSUME NEW s \in slots', s.busy
               PROVE  \/ \E v \in Users : held[v] = s.id
                      \/ \E v \in Users : task'[v].op \in Working /\ task'[v].id = s.id
    BY DEF Pool!BusySlotsAreUsed, Working
  <2>1. \/ \E v \in Users : held[v] = s.id
        \/ \E v \in Users : task[v].op \in Working /\ task[v].id = s.id
    BY <1>2 DEF PoolInv, PoolUses, Pool!BusySlotsAreUsed, Working
  <2> QED BY <1>1, <1>2, <2>1
<1>10. SlotsCounted'
  <2>1. Creating' \subseteq Creating
    BY <1>1, <1>4 DEF Creating
  <2> QED BY <1>2, <2>1, CountShrinks DEF PoolInv
<1> QED BY <1>3, <1>5, <1>6, <1>7, <1>8, <1>9, <1>10 DEF PoolInv, PoolUses

\* A call goes on or ends, and what it may do with its container is given up.
LEMMA CallMoves ==
  ASSUME PoolInv, NEW u \in Users, task[u].op \notin Working, slots' = slots,
         NEW r \in Calls, r.op \notin {"create", "start"}, task' = [task EXCEPT ![u] = r],
         held' \in [Users -> Containers \cup {NoContainer}],
         \A v \in Users : held'[v] # held[v] => v = u /\ held'[v] = NoContainer,
         held'[u] # held[u] => r.op \in Working /\ r.id = held[u],
         daemon' \subseteq Containers, closing' \subseteq Containers
  PROVE  PoolInv'
<1>1. task' \in [Users -> Calls] /\ task'[u] = r /\ \A v \in Users : v # u => task'[v] = task[v]
  BY DEF PoolInv, PoolTypes
<1>2. PoolTypes'
  BY <1>1 DEF PoolInv, PoolTypes
<1>3. \A v \in Users : task'[v].op \in {"create", "start"} => v # u
  BY <1>1
<1>4. \A s \in slots : s.id # NoContainer
  BY PoolSizes DEF PoolInv, PoolTypes, PoolSlots
<1>5. OneSlotPerId' /\ OneHolderPerId'
  BY DEF PoolInv, PoolUses, OneSlotPerId, OneHolderPerId
<1>6. OneStartPerId'
  BY <1>1, <1>3 DEF PoolInv, PoolUses, OneStartPerId
<1>7. StartsUnheld'
  <2> SUFFICES ASSUME NEW v \in Users, NEW w \in Users, task'[v].op = "start"
               PROVE  held'[w] # task'[v].id
    BY DEF StartsUnheld
  <2>1. task'[v] = task[v] /\ held[w] # task[v].id
    BY <1>1, <1>3 DEF PoolInv, PoolUses, StartsUnheld
  <2>2. task[v].id \in Containers
    BY <1>1, <2>1 DEF Calls
  <2> QED BY <2>1, <2>2, PoolSizes
<1>8. AcquiringHoldsNone'
  BY <1>1, <1>3 DEF PoolInv, PoolUses, AcquiringHoldsNone
<1>9. UsedIsBusy'
  BY <1>1, <1>3, <1>4 DEF PoolInv, PoolUses, UsedIsBusy
<1>10. Pool!BusySlotsAreUsed'
  <2> SUFFICES ASSUME NEW s \in slots, s.busy
               PROVE  \/ \E v \in Users : held'[v] = s.id
                      \/ \E v \in Users : task'[v].op \in Working /\ task'[v].id = s.id
    BY DEF Pool!BusySlotsAreUsed, Working
  <2>1. \/ \E v \in Users : held[v] = s.id
        \/ \E v \in Users : task[v].op \in Working /\ task[v].id = s.id
    BY DEF PoolInv, PoolUses, Pool!BusySlotsAreUsed, Working
  <2> QED BY <1>1, <2>1
<1>11. SlotsCounted'
  <2>1. Creating' \subseteq Creating
    BY <1>1, <1>3 DEF Creating
  <2> QED BY <2>1, CountShrinks DEF PoolInv
<1> QED BY <1>2, <1>5, <1>6, <1>7, <1>8, <1>9, <1>10, <1>11 DEF PoolInv, PoolUses

\* A started container passes from the call that started it to the user.
LEMMA PoolStarted ==
  ASSUME PoolInv, NEW u \in Users, Pool!Started(u)
  PROVE  PoolInv'
<1> DEFINE c == task[u].id
<1>1. /\ task[u].op = "start" /\ slots' = slots /\ daemon' = daemon /\ closing' = closing
      /\ task' = [task EXCEPT ![u] = Pool!Idle] /\ held' = [held EXCEPT ![u] = c]
  BY DEF Pool!Started, Pool!In, Pool!Goes
<1>2. /\ task \in [Users -> Calls] /\ held \in [Users -> Containers \cup {NoContainer}]
      /\ Pool!Idle \in Calls /\ Pool!Idle.op = "idle"
  BY DEF PoolInv, PoolTypes, Calls, Pool!Idle
<1>3. c \in Containers
  BY <1>1, <1>2 DEF Calls
<1>4. /\ \A v \in Users : held[v] # c
      /\ \A v \in Users : task[v].op = "start" /\ task[v].id = c => v = u
      /\ held[u] = NoContainer
  BY <1>1 DEF PoolInv, PoolUses, StartsUnheld, OneStartPerId, AcquiringHoldsNone
<1> HIDE DEF c
<1>5. /\ task' \in [Users -> Calls] /\ task'[u].op = "idle"
      /\ \A v \in Users : v # u => task'[v] = task[v]
  BY <1>1, <1>2
<1>6. /\ held' \in [Users -> Containers \cup {NoContainer}] /\ held'[u] = c
      /\ \A v \in Users : v # u => held'[v] = held[v]
  BY <1>1, <1>2, <1>3
<1>7. PoolTypes'
  BY <1>1, <1>5, <1>6 DEF PoolInv, PoolTypes
<1>8. OneSlotPerId' /\ OneHolderPerId'
  BY <1>1, <1>4, <1>6 DEF PoolInv, PoolUses, OneSlotPerId, OneHolderPerId
<1>9. OneStartPerId'
  BY <1>5 DEF PoolInv, PoolUses, OneStartPerId
<1>10. StartsUnheld'
  <2> SUFFICES ASSUME NEW v \in Users, NEW w \in Users, task'[v].op = "start"
               PROVE  held'[w] # task'[v].id
    BY DEF StartsUnheld
  <2>1. v # u /\ task'[v] = task[v] /\ held[w] # task[v].id /\ task[v].id # c
    BY <1>4, <1>5 DEF PoolInv, PoolUses, StartsUnheld
  <2> QED BY <1>6, <2>1
<1>11. AcquiringHoldsNone'
  BY <1>5, <1>6 DEF PoolInv, PoolUses, AcquiringHoldsNone
<1>12. UsedIsBusy'
  BY <1>1, <1>5, <1>6 DEF PoolInv, PoolUses, UsedIsBusy, c
<1>13. Pool!BusySlotsAreUsed'
  <2> SUFFICES ASSUME NEW s \in slots, s.busy
               PROVE  \/ \E v \in Users : held'[v] = s.id
                      \/ \E v \in Users : task'[v].op \in Working /\ task'[v].id = s.id
    BY <1>1 DEF Pool!BusySlotsAreUsed, Working
  <2>1. \/ \E v \in Users : held[v] = s.id
        \/ \E v \in Users : task[v].op \in Working /\ task[v].id = s.id
    BY DEF PoolInv, PoolUses, Pool!BusySlotsAreUsed, Working
  <2>2. s.id # NoContainer
    BY PoolSizes DEF PoolInv, PoolTypes, PoolSlots
  <2>3. CASE \E v \in Users : held[v] = s.id
    BY <1>4, <1>6, <2>2, <2>3
  <2>4. CASE \E v \in Users : task[v].op \in Working /\ task[v].id = s.id
    BY <1>5, <1>6, <2>4 DEF c
  <2> QED BY <2>1, <2>3, <2>4
<1>14. SlotsCounted'
  <2>1. Creating' \subseteq Creating
    BY <1>5 DEF Creating
  <2> QED BY <1>1, <2>1, CountShrinks DEF PoolInv
<1> QED BY <1>7, <1>8, <1>9, <1>10, <1>11, <1>12, <1>13, <1>14 DEF PoolInv, PoolUses

\* release: the slot is not busy any more, and the user has it no more.
LEMMA PoolRelease ==
  ASSUME PoolInv, NEW u \in Users, Pool!Release(u)
  PROVE  PoolInv'
<1> DEFINE c == held[u]
           f == [s \in slots |-> IF s.id = c THEN [s EXCEPT !.busy = FALSE] ELSE s]
<1>1. /\ task' = task /\ daemon' = daemon /\ closing' = closing
      /\ held' = [held EXCEPT ![u] = NoContainer]
      /\ slots' = {f[s] : s \in slots} /\ c \in {s.id : s \in slots}
  BY DEF Pool!Release, Pool!Released, Pool!Pooled
<1>2. slots \subseteq PoolSlots /\ held \in [Users -> Containers \cup {NoContainer}]
  BY DEF PoolInv, PoolTypes
<1>3. f \in [slots -> PoolSlots]
  BY ZenonT(60), <1>2 DEF PoolSlots
<1>4. \A s \in slots : f[s].id = s.id /\ (f[s].busy => s.busy /\ s.id # c)
  BY <1>2 DEF PoolSlots
<1>5. \A s \in slots : s.id # c => f[s] = s
  OBVIOUS
<1>6. c \in Containers /\ c # NoContainer
  BY <1>1, <1>2, PoolSizes DEF PoolSlots
<1> HIDE DEF f, c
<1>7. /\ held' \in [Users -> Containers \cup {NoContainer}] /\ held'[u] = NoContainer
      /\ \A v \in Users : v # u => held'[v] = held[v]
  BY <1>1, <1>2
<1>8. PoolTypes'
  BY <1>1, <1>3, <1>7 DEF PoolInv, PoolTypes
<1>9. OneSlotPerId' /\ OneHolderPerId'
  <2>1. OneSlotPerId'
    BY <1>1, <1>4 DEF PoolInv, PoolUses, OneSlotPerId
  <2> QED BY <1>7, <2>1 DEF PoolInv, PoolUses, OneHolderPerId
<1>10. OneStartPerId' /\ AcquiringHoldsNone'
  BY <1>1, <1>7 DEF PoolInv, PoolUses, OneStartPerId, AcquiringHoldsNone
<1>11. StartsUnheld'
  <2> SUFFICES ASSUME NEW v \in Users, NEW w \in Users, task[v].op = "start"
               PROVE  held'[w] # task[v].id
    BY <1>1 DEF StartsUnheld
  <2>1. held[w] # task[v].id
    BY DEF PoolInv, PoolUses, StartsUnheld
  <2>2. task[v].id \in Containers
    BY DEF PoolInv, PoolTypes, Calls
  <2> QED BY <1>7, <2>1, <2>2, PoolSizes
<1>12. UsedIsBusy'
  <2> SUFFICES ASSUME NEW s \in slots, NEW v \in Users,
                      held'[v] = s.id \/ (task[v].op = "start" /\ task[v].id = s.id)
               PROVE  f[s].busy
    BY <1>1, <1>4 DEF UsedIsBusy
  <2>1. s.id # NoContainer
    BY <1>2, PoolSizes DEF PoolSlots
  <2>2. s.id # c
    BY <1>7, <2>1 DEF PoolInv, PoolUses, OneHolderPerId, StartsUnheld, c
  <2>3. s.busy
    BY <1>7, <2>1 DEF PoolInv, PoolUses, UsedIsBusy
  <2> QED BY <1>5, <2>2, <2>3
<1>13. Pool!BusySlotsAreUsed'
  <2> SUFFICES ASSUME NEW r \in slots', r.busy
               PROVE  \/ \E v \in Users : held'[v] = r.id
                      \/ \E v \in Users : task[v].op \in Working /\ task[v].id = r.id
    BY <1>1 DEF Pool!BusySlotsAreUsed, Working
  <2>1. PICK s \in slots : r = f[s]
    BY <1>1
  <2>2. r.id = s.id /\ s.busy /\ s.id # c
    BY <1>4, <2>1
  <2>3. \/ \E v \in Users : held[v] = s.id
        \/ \E v \in Users : task[v].op \in Working /\ task[v].id = s.id
    BY <2>2 DEF PoolInv, PoolUses, Pool!BusySlotsAreUsed, Working
  <2> QED BY <1>7, <2>2, <2>3 DEF c
<1>14. SlotsCounted'
  BY <1>1, <1>3, CountOfChanged DEF PoolInv
<1> QED BY <1>8, <1>9, <1>10, <1>11, <1>12, <1>13, <1>14 DEF PoolInv, PoolUses

\* status marks slots as missing, and changes nothing else about them.
LEMMA PoolStatus ==
  ASSUME PoolInv, NEW u \in Users, Pool!Status(u)
  PROVE  PoolInv'
<1>1. PICK silent \in SUBSET daemon :
        slots' = {IF s.id \in daemon \ silent THEN s ELSE [s EXCEPT !.state = "missing"] : s \in slots}
  BY DEF Pool!Status
<1> DEFINE f == [s \in slots |->
                   IF s.id \in daemon \ silent THEN s ELSE [s EXCEPT !.state = "missing"]]
<1>2. slots' = {f[s] : s \in slots}
  BY <1>1
<1>3. task' = task /\ held' = held /\ daemon' = daemon /\ closing' = closing
  BY DEF Pool!Status
<1>4. slots \subseteq PoolSlots
  BY DEF PoolInv, PoolTypes
<1>5. f \in [slots -> PoolSlots]
  BY <1>4 DEF PoolSlots
<1>6. \A s \in slots : f[s].id = s.id /\ f[s].busy = s.busy
  BY <1>4 DEF PoolSlots
<1> HIDE DEF f
<1>7. PoolTypes'
  BY <1>2, <1>3, <1>5 DEF PoolInv, PoolTypes
<1>8. OneSlotPerId'
  BY <1>2, <1>6 DEF PoolInv, PoolUses, OneSlotPerId
<1>9. OneHolderPerId' /\ OneStartPerId' /\ StartsUnheld' /\ AcquiringHoldsNone'
  BY <1>3 DEF PoolInv, PoolUses, OneHolderPerId, OneStartPerId, StartsUnheld, AcquiringHoldsNone
<1>10. UsedIsBusy'
  <2> SUFFICES ASSUME NEW r \in slots', NEW v \in Users,
                      held[v] = r.id \/ (task[v].op = "start" /\ task[v].id = r.id)
               PROVE  r.busy
    BY <1>3 DEF UsedIsBusy
  <2>1. PICK s \in slots : r = f[s]
    BY <1>2
  <2>2. r.id = s.id /\ r.busy = s.busy
    BY <1>6, <2>1
  <2> QED BY <2>2 DEF PoolInv, PoolUses, UsedIsBusy
<1>11. Pool!BusySlotsAreUsed'
  <2> SUFFICES ASSUME NEW r \in slots', r.busy
               PROVE  \/ \E v \in Users : held[v] = r.id
                      \/ \E v \in Users : task[v].op \in Working /\ task[v].id = r.id
    BY <1>3 DEF Pool!BusySlotsAreUsed, Working
  <2>1. PICK s \in slots : r = f[s]
    BY <1>2
  <2>2. r.id = s.id /\ s.busy
    BY <1>6, <2>1
  <2> QED BY ZenonT(60), <2>2 DEF PoolInv, PoolUses, Pool!BusySlotsAreUsed, Working
<1>12. SlotsCounted'
  BY <1>2, <1>3, <1>5, CountOfChanged DEF PoolInv
<1> QED BY <1>7, <1>8, <1>9, <1>10, <1>11, <1>12 DEF PoolInv, PoolUses

\* Every step of the pool keeps the invariant.
LEMMA PoolStep ==
  ASSUME PoolInv, [Pool!Next]_poolVars
  PROVE  PoolInv'
<1> USE DEF Pool!In, Pool!Goes
<1>types. /\ daemon \subseteq Containers /\ closing \subseteq Containers
          /\ task \in [Users -> Calls] /\ held \in [Users -> Containers \cup {NoContainer}]
  BY DEF PoolInv, PoolTypes
<1>calls. Pool!Idle \in Calls /\ Pool!Idle.op = "idle" /\ [op |-> "close"] \in Calls
  BY DEF Calls, Pool!Idle
<1>1. ASSUME NEW u \in Users,
             Pool!StartFails(u) \/ Pool!Removed(u) \/ Pool!RemoveFails(u)
               \/ Pool!CloseOne(u) \/ Pool!CloseFails(u)
      PROVE  PoolInv'
  <2>1. /\ task[u].op \in Working /\ slots' = Pool!WithoutSlot(task[u].id) /\ held' = held
        /\ daemon' \subseteq Containers /\ closing' \subseteq Containers
        /\ \/ task' = [task EXCEPT ![u] = Pool!Idle]
           \/ task' = [task EXCEPT ![u] = [op |-> "close"]]
    BY <1>1, <1>types
    DEF Pool!StartFails, Pool!Removed, Pool!RemoveFails, Pool!CloseOne, Pool!CloseFails, Working
  <2> QED BY <1>calls, <2>1, SlotGoes
<1>2. ASSUME NEW u \in Users, Pool!CreateFails(u) \/ Pool!Close(u) \/ Pool!Closed(u) PROVE PoolInv'
  <2>1. Pool!Pooled \subseteq Containers
    BY DEF PoolInv, PoolTypes, PoolSlots, Pool!Pooled
  <2>2. /\ task[u].op \notin Working /\ slots' = slots /\ held' = held
        /\ daemon' \subseteq Containers /\ closing' \subseteq Containers
        /\ \/ task' = [task EXCEPT ![u] = Pool!Idle]
           \/ task' = [task EXCEPT ![u] = [op |-> "close"]]
    BY <1>2, <1>types, <1>calls, <2>1
    DEF Pool!CreateFails, Pool!Close, Pool!Closed, Pool!Free, Working
  <2> QED BY <1>types, <1>calls, <2>2, CallMoves
<1>3. ASSUME NEW u \in Users, Pool!CloseNext(u) PROVE PoolInv'
  <2>1. PICK c \in closing :
          task' = [task EXCEPT ![u] = IF c \in Pool!Pooled THEN [op |-> "closing one", id |-> c]
                                      ELSE Pool!Idle]
    BY <1>3 DEF Pool!CloseNext
  <2>2. /\ task[u].op \notin Working /\ slots' = slots /\ held' = held
        /\ daemon' \subseteq Containers /\ closing' \subseteq Containers
    BY <1>3, <1>types DEF Pool!CloseNext, Working
  <2>3. [op |-> "closing one", id |-> c] \in Calls
    BY <1>types DEF Calls, Working
  <2> QED BY <1>types, <1>calls, <2>1, <2>2, <2>3, CallMoves
<1>4. ASSUME NEW u \in Users, NEW c \in Containers, Pool!Destroy(u, c) PROVE PoolInv'
  <2>1. /\ task[u] = Pool!Idle /\ slots' = slots /\ daemon' = daemon /\ closing' = closing
        /\ task' = [task EXCEPT ![u] = [op |-> "remove", id |-> c]]
        /\ held' = [held EXCEPT ![u] = IF held[u] = c THEN NoContainer ELSE held[u]]
    BY <1>4 DEF Pool!Destroy, Pool!Free
  <2>2. [op |-> "remove", id |-> c] \in Calls /\ task[u].op \notin Working
    BY <1>calls, <2>1 DEF Calls, Working
  <2>3. /\ held' \in [Users -> Containers \cup {NoContainer}]
        /\ \A v \in Users : held'[v] # held[v] => v = u /\ held'[v] = NoContainer
        /\ held'[u] # held[u] => held[u] = c
    BY <1>types, <2>1
  <2> QED BY <1>types, <2>1, <2>2, <2>3, CallMoves DEF Working
<1>5. ASSUME NEW c \in Containers, Pool!Vanishes(c) PROVE PoolInv'
  <2>1. /\ slots' = slots /\ task' = task /\ held' = held /\ closing' = closing
        /\ daemon' \subseteq Containers
    BY <1>5, <1>types DEF Pool!Vanishes
  <2>2. PoolTypes' /\ SlotsCounted'
    BY <2>1 DEF PoolInv, PoolTypes, SlotsCounted, Creating
  <2>3. PoolUses'
    BY <2>1 DEF PoolInv, PoolUses, OneSlotPerId, OneHolderPerId, OneStartPerId, StartsUnheld,
       AcquiringHoldsNone, UsedIsBusy, Pool!BusySlotsAreUsed
  <2> QED BY <2>2, <2>3 DEF PoolInv
<1>6. ASSUME UNCHANGED poolVars PROVE PoolInv'
  <2>1. /\ slots' = slots /\ task' = task /\ held' = held /\ closing' = closing /\ daemon' = daemon
    BY <1>6 DEF poolVars
  <2>2. PoolTypes' /\ SlotsCounted'
    BY <2>1 DEF PoolInv, PoolTypes, SlotsCounted, Creating
  <2>3. PoolUses'
    BY <2>1 DEF PoolInv, PoolUses, OneSlotPerId, OneHolderPerId, OneStartPerId, StartsUnheld,
       AcquiringHoldsNone, UsedIsBusy, Pool!BusySlotsAreUsed
  <2> QED BY <2>2, <2>3 DEF PoolInv
<1> QED
  BY <1>1, <1>2, <1>3, <1>4, <1>5, <1>6, PoolAcquire, PoolCreated, PoolStarted, PoolRelease, PoolStatus
  DEF Pool!Next

\* A used slot is busy, a busy one is used, and the pool is at most so much too large.
LEMMA PoolKept ==
  ASSUME PoolInv
  PROVE  Pool!OneHolder /\ Pool!BusySlotsAreUsed /\ Pool!OverlapsOnlyOverfill
<1>1. Pool!OneHolder
  <2> SUFFICES ASSUME NEW u \in Users, held[u] # NoContainer, held[u] \in Pool!Pooled
               PROVE  Pool!SlotOf(held[u]).busy
    BY DEF Pool!OneHolder, PoolInv, PoolUses, OneHolderPerId
  <2>1. Pool!SlotOf(held[u]) \in slots /\ Pool!SlotOf(held[u]).id = held[u]
    BY DEF Pool!Pooled, Pool!SlotOf
  <2> QED BY <2>1 DEF PoolInv, PoolUses, UsedIsBusy
<1>2. Pool!OverlapsOnlyOverfill
  <2>1. IsFiniteSet(Creating) /\ IsFiniteSet(slots)
    BY PoolSizes, FS_Subset DEF Creating, PoolInv, SlotsCounted
  <2>2. Cardinality(Creating) \in Nat /\ Cardinality(slots) \in Nat
    BY <2>1, FS_CardinalityType
  <2>3. Cardinality(slots) <= MaxSize + Cardinality(Users) - 1
    BY <2>2, PoolSizes DEF PoolInv, SlotsCounted
  <2> QED BY <2>3, PoolCounts DEF Pool!OverlapsOnlyOverfill
<1> QED BY <1>1, <1>2 DEF PoolInv, PoolUses

-----------------------------------------------------------------------------
(* The GPU.  When callers hold the lock around ensure_available and their  *)
(* use, one call at a time is under way; its walk over the providers       *)
(* leaves nothing loaded behind it but the model it wants, so that there   *)
(* is one model at most, and only one that was measured to fit.            *)

Places == {"idle", "sweep", "unloading", "measured", "loading", "using"}
GpuCalls == [at: Places, model: Local!Models, next: Nat \ {0}, size: Nat, free: Nat]
GpuTypes ==
  /\ keys \in Seq(Local!Models) /\ gpu \in [Tasks -> GpuCalls] /\ holder \subseteq Tasks
LoadedFits ==
  /\ loaded \subseteq Local!Models /\ loaded \subseteq Local!ToSet(keys)
  /\ \A m \in loaded : Local!Size[m] <= Vram
  /\ \A m, n \in loaded : m = n
CallersHoldIt == \A t \in Tasks : gpu[t].at # "idle" => t \in holder
OneCall == \A t, u \in Tasks : gpu[t].at # "idle" /\ gpu[u].at # "idle" => t = u

\* What is loaded, as a call finds it where it is.
CallFits(c) ==
  /\ c.at \in {"sweep", "unloading"} =>
       /\ c.next <= Len(keys) + 1
       /\ \A i \in 1..(c.next - 1) : keys[i] \in loaded => keys[i] = c.model
  /\ c.at = "unloading" => c.next <= Len(keys)
  /\ c.at # "idle" => c.model \in Local!ToSet(keys)
  /\ c.at \in {"measured", "loading", "using"} => loaded \subseteq {c.model}
  /\ c.at = "measured" => c.free <= Vram
  /\ c.at = "loading" => loaded = {} /\ Local!Size[c.model] <= Vram
  /\ c.at = "using" => c.model \in loaded
CallsFit == \A t \in Tasks : CallFits(gpu[t])
GpuInv == polite => GpuTypes /\ LoadedFits /\ CallersHoldIt /\ OneCall /\ CallsFit

\* The models there are, and their sizes.
LEMMA ModelSizes ==
  /\ Local!Models = {"small", "other", "large"}
  /\ Local!Size["small"] = 1 /\ Local!Size["other"] = 1 /\ Local!Size["large"] = Vram + 1
  /\ \A m \in Local!Models : Local!Size[m] \in Nat
  BY MachineAssumption DEF Local!Models, Local!Size

\* One model at most is loaded, and it fits: so does what is used.
LEMMA UsedFits ==
  ASSUME LoadedFits
  PROVE  Local!Used \in Nat /\ Local!Used <= Vram
<1> USE MachineAssumption
<1>1. \A m \in Local!Models : Local!Takes(m) = IF m \in loaded THEN Local!Size[m] ELSE 0
  BY DEF Local!Takes
<1>2. CASE loaded = {}
  BY <1>1, <1>2, ModelSizes DEF Local!Used
<1>3. ASSUME NEW m \in loaded PROVE Local!Used \in Nat /\ Local!Used <= Vram
  <2>1. m \in Local!Models /\ Local!Size[m] \in Nat /\ Local!Size[m] <= Vram
    BY ModelSizes DEF LoadedFits
  <2>2. \A n \in Local!Models : Local!Takes(n) = IF n = m THEN Local!Size[m] ELSE 0
    BY <1>1 DEF LoadedFits
  <2>3. Local!Used = Local!Size[m]
    BY <2>1, <2>2, ModelSizes DEF Local!Used
  <2> QED BY <2>1, <2>3
<1> QED BY <1>2, <1>3

\* The GPU starts empty, whether or not its callers use the lock.
LEMMA GpuStarts == Local!Init => GpuInv
<1> SUFFICES ASSUME Local!Init PROVE GpuTypes /\ LoadedFits /\ CallersHoldIt /\ OneCall /\ CallsFit
  BY DEF GpuInv
<1>1. /\ keys = <<"small", "large">> /\ loaded = {} /\ holder = {}
      /\ gpu = [t \in Tasks |-> Local!Rest]
  BY DEF Local!Init
<1>2. Local!Rest \in GpuCalls /\ Local!Rest.at = "idle"
  BY ModelSizes DEF GpuCalls, Places, Local!Rest
<1>3. GpuTypes
  BY <1>1, <1>2, ModelSizes DEF GpuTypes
<1>4. \A t \in Tasks : gpu[t].at = "idle"
  BY <1>1, <1>2
<1> QED BY <1>1, <1>3, <1>4 DEF LoadedFits, CallersHoldIt, OneCall, CallsFit, CallFits

\* A step of the one call under way keeps the others idle.
LEMMA OneCallMoves ==
  ASSUME GpuTypes, NEW t \in Tasks, \A u \in Tasks : u # t => gpu[u].at = "idle",
         NEW r \in GpuCalls, gpu' = [gpu EXCEPT ![t] = r], keys' = keys,
         LoadedFits', holder' \subseteq Tasks, r.at # "idle" => t \in holder', CallFits(r)'
  PROVE  GpuInv'
<1>1. /\ gpu' \in [Tasks -> GpuCalls] /\ gpu'[t] = r
      /\ \A u \in Tasks : u # t => gpu'[u] = gpu[u]
  BY DEF GpuTypes
<1>2. \A u \in Tasks : u # t => gpu'[u].at = "idle"
  BY <1>1
<1>3. GpuTypes'
  BY <1>1 DEF GpuTypes
<1>4. CallersHoldIt' /\ OneCall'
  BY <1>1, <1>2 DEF CallersHoldIt, OneCall
<1>5. CallsFit'
  <2> SUFFICES ASSUME NEW u \in Tasks PROVE CallFits(gpu[u])'
    BY DEF CallsFit
  <2>1. CASE u = t
    BY <1>1, <2>1 DEF CallFits
  <2>2. CASE u # t
    BY <1>2, <2>2 DEF CallFits
  <2> QED BY <2>1, <2>2
<1> QED BY <1>3, <1>4, <1>5 DEF GpuInv

\* Where a call gets to, and what it keeps: its model, and what else did not change.
LEMMA CallGoesTo ==
  ASSUME NEW c \in GpuCalls, NEW p \in Places
  PROVE  \E r \in GpuCalls : r = [c EXCEPT !.at = p] /\ r.at = p /\ r.model = c.model /\ r.next = c.next
<1>1. [c EXCEPT !.at = p] \in GpuCalls
  BY DEF GpuCalls
<1>2. /\ [c EXCEPT !.at = p].at = p /\ [c EXCEPT !.at = p].model = c.model
      /\ [c EXCEPT !.at = p].next = c.next
  BY DEF GpuCalls
<1> QED BY <1>1, <1>2

\* The same for a call that starts, with the model it wants and the providers it counts.
LEMMA CallStarts ==
  ASSUME NEW c \in GpuCalls, NEW m \in Local!Models, NEW n \in Nat
  PROVE  \E r \in GpuCalls :
           /\ r = [c EXCEPT !.at = "sweep", !.model = m, !.size = n]
           /\ r.at = "sweep" /\ r.model = m /\ r.next = c.next
<1> DEFINE r == [c EXCEPT !.at = "sweep", !.model = m, !.size = n]
<1>1. r \in GpuCalls
  BY DEF GpuCalls, Places
<1>2. r.at = "sweep" /\ r.model = m /\ r.next = c.next
  BY DEF GpuCalls
<1> QED BY <1>1, <1>2

\* The same for a call that passes a provider.
LEMMA CallPasses ==
  ASSUME NEW c \in GpuCalls, NEW n \in Nat \ {0}
  PROVE  \E r \in GpuCalls : r = [c EXCEPT !.next = n] /\ r.at = c.at /\ r.model = c.model /\ r.next = n
<1>1. [c EXCEPT !.next = n] \in GpuCalls
  BY DEF GpuCalls
<1>2. /\ [c EXCEPT !.next = n].at = c.at /\ [c EXCEPT !.next = n].model = c.model
      /\ [c EXCEPT !.next = n].next = n
  BY DEF GpuCalls
<1> QED BY <1>1, <1>2

\* The same for a call that walks on after it unloaded one.
LEMMA CallWalksOn ==
  ASSUME NEW c \in GpuCalls, NEW n \in Nat \ {0}
  PROVE  \E r \in GpuCalls :
           /\ r = [c EXCEPT !.at = "sweep", !.next = n]
           /\ r.at = "sweep" /\ r.model = c.model /\ r.next = n
<1>1. [c EXCEPT !.at = "sweep", !.next = n] \in GpuCalls
  BY DEF GpuCalls, Places
<1>2. /\ [c EXCEPT !.at = "sweep", !.next = n].at = "sweep"
      /\ [c EXCEPT !.at = "sweep", !.next = n].model = c.model
      /\ [c EXCEPT !.at = "sweep", !.next = n].next = n
  BY DEF GpuCalls
<1> QED BY <1>1, <1>2

\* The same for a call that measured what is free.
LEMMA CallMeasures ==
  ASSUME NEW c \in GpuCalls, NEW f \in Nat
  PROVE  \E r \in GpuCalls :
           r = [c EXCEPT !.at = "measured", !.free = f] /\ r.at = "measured" /\ r.model = c.model /\ r.free = f
<1>1. [c EXCEPT !.at = "measured", !.free = f] \in GpuCalls
  BY DEF GpuCalls, Places
<1>2. /\ [c EXCEPT !.at = "measured", !.free = f].at = "measured"
      /\ [c EXCEPT !.at = "measured", !.free = f].model = c.model
      /\ [c EXCEPT !.at = "measured", !.free = f].free = f
  BY DEF GpuCalls
<1> QED BY <1>1, <1>2

\* Every step of the GPU's callers keeps the invariant.
LEMMA GpuStep ==
  ASSUME GpuInv, Local!GpuNext
  PROVE  GpuInv'
<1> USE MachineAssumption
<1>polite. polite' = polite
  BY DEF Local!GpuNext, Local!Register, Local!Acquire, Local!Pass, Local!Unload, Local!Unloaded,
     Local!WalkFails, Local!Measure, Local!Refuse, Local!LoadModel, Local!Loaded, Local!Release
<1> SUFFICES ASSUME polite PROVE GpuInv'
  BY <1>polite DEF GpuInv
<1>inv. GpuTypes /\ LoadedFits /\ CallersHoldIt /\ OneCall /\ CallsFit
  BY DEF GpuInv
<1>types. /\ keys \in Seq(Local!Models) /\ Len(keys) \in Nat /\ gpu \in [Tasks -> GpuCalls]
          /\ holder \subseteq Tasks
  BY <1>inv DEF GpuTypes
<1>rest. Local!Rest \in GpuCalls /\ Local!Rest.at = "idle" /\ CallFits(Local!Rest)'
  BY ModelSizes DEF GpuCalls, Places, Local!Rest, CallFits
<1>alone. \A t, u \in Tasks : gpu[t].at # "idle" /\ u # t => gpu[u].at = "idle"
  BY <1>inv DEF OneCall
<1>holds. \A t \in Tasks : gpu[t].at # "idle" => t \in holder
  BY <1>inv DEF CallersHoldIt
<1>fits. \A t \in Tasks : CallFits(gpu[t])
  BY <1>inv DEF CallsFit
<1>known. \A t \in Tasks : gpu[t].at # "idle" => gpu[t].model \in Local!ToSet(keys)
  BY <1>fits DEF CallFits
<1>1. ASSUME Local!Register PROVE GpuInv'
  <2>1. /\ keys' = Append(keys, "other") /\ loaded' = loaded /\ holder' = holder /\ gpu' = gpu
    BY <1>1 DEF Local!Register
  <2>2. /\ keys' \in Seq(Local!Models) /\ Len(keys') = Len(keys) + 1
        /\ \A i \in 1..Len(keys) : keys'[i] = keys[i]
    BY <1>types, <2>1, ModelSizes
  <2>3. Local!ToSet(keys) \subseteq Local!ToSet(keys')
    BY <1>types, <2>2 DEF Local!ToSet
  <2>4. LoadedFits' /\ GpuTypes' /\ CallersHoldIt' /\ OneCall'
    BY <1>inv, <2>1, <2>2, <2>3 DEF LoadedFits, GpuTypes, CallersHoldIt, OneCall
  <2>5. ASSUME NEW t \in Tasks PROVE CallFits(gpu[t])'
    <3>1. gpu[t] \in GpuCalls /\ gpu[t].next \in Nat /\ gpu[t].next > 0
      BY <1>types DEF GpuCalls
    <3>2. ASSUME gpu[t].at \in {"sweep", "unloading"}
          PROVE  /\ gpu[t].next <= Len(keys') + 1
                 /\ \A i \in 1..(gpu[t].next - 1) : keys'[i] \in loaded => keys'[i] = gpu[t].model
      <4>1. /\ gpu[t].next <= Len(keys) + 1
            /\ \A i \in 1..(gpu[t].next - 1) : keys[i] \in loaded => keys[i] = gpu[t].model
        BY <1>fits, <3>2 DEF CallFits
      <4>2. gpu[t].next <= Len(keys') + 1
        BY <1>types, <2>2, <3>1, <4>1
      <4>3. \A i \in 1..(gpu[t].next - 1) : i \in 1..Len(keys)
        BY <1>types, <3>1, <4>1
      <4> QED BY <2>2, <4>1, <4>2, <4>3
    <3>3. gpu[t].at = "unloading" => gpu[t].next <= Len(keys')
      BY <1>fits, <1>types, <2>2, <3>1 DEF CallFits
    <3>4. gpu[t].at # "idle" => gpu[t].model \in Local!ToSet(keys')
      BY <1>known, <2>3
    <3>5. CallFits(gpu[t])
      BY <1>fits
    <3> QED BY <2>1, <3>2, <3>3, <3>4, <3>5 DEF CallFits
  <2> QED BY <2>4, <2>5 DEF GpuInv, CallsFit
<1>2. ASSUME NEW t \in Tasks, NEW m \in Local!Models, Local!Acquire(t, m) PROVE GpuInv'
  <2>1. /\ holder = {} /\ holder' = {t} /\ m \in Local!ToSet(keys)
        /\ gpu' = [gpu EXCEPT ![t] = [Local!Rest EXCEPT !.at = "sweep", !.model = m, !.size = Len(keys)]]
        /\ keys' = keys /\ loaded' = loaded
    BY <1>2 DEF Local!Acquire
  <2>2. \A u \in Tasks : gpu[u].at = "idle"
    BY <1>holds, <2>1
  <2>3. PICK r \in GpuCalls :
          /\ r = [Local!Rest EXCEPT !.at = "sweep", !.model = m, !.size = Len(keys)]
          /\ r.at = "sweep" /\ r.model = m /\ r.next = 1
    <3>1. Local!Rest.next = 1
      BY DEF Local!Rest
    <3>2. PICK n \in Nat : n = Len(keys)
      BY <1>types
    <3>3. \E r \in GpuCalls :
            /\ r = [Local!Rest EXCEPT !.at = "sweep", !.model = m, !.size = n]
            /\ r.at = "sweep" /\ r.model = m /\ r.next = Local!Rest.next
      BY ZenonT(60), <1>rest, CallStarts
    <3> QED BY <3>1, <3>2, <3>3
  <2>4. LoadedFits'
    BY <1>inv, <2>1 DEF LoadedFits
  <2>5. CallFits(r)'
    BY <1>known, <1>types, <2>1, <2>3 DEF CallFits
  <2> QED BY <1>inv, <2>1, <2>2, <2>3, <2>4, <2>5, OneCallMoves
<1>3. ASSUME NEW t \in Tasks, Local!WalkFails(t) \/ Local!Refuse(t) \/ Local!Release(t) PROVE GpuInv'
  <2>1. /\ gpu[t].at # "idle" /\ gpu' = [gpu EXCEPT ![t] = Local!Rest] /\ holder' = holder \ {t}
        /\ keys' = keys /\ loaded' = loaded
    BY <1>3 DEF Local!WalkFails, Local!Refuse, Local!Release
  <2>2. LoadedFits' /\ holder' \subseteq Tasks
    BY <1>inv, <1>types, <2>1 DEF LoadedFits
  <2> QED BY <1>inv, <1>rest, <1>alone, <2>1, <2>2, OneCallMoves
<1> DEFINE Moves(t, r) ==
      /\ gpu[t].at # "idle" /\ gpu' = [gpu EXCEPT ![t] = r] /\ holder' = holder /\ keys' = keys
<1>4. ASSUME NEW t \in Tasks, NEW r \in GpuCalls, Moves(t, r), LoadedFits', CallFits(r)' PROVE GpuInv'
  BY <1>4, <1>inv, <1>types, <1>alone, <1>holds, OneCallMoves
<1>5. ASSUME NEW t \in Tasks, Local!Pass(t) PROVE GpuInv'
  <2>1. /\ gpu[t].at = "sweep" /\ gpu[t].next <= Len(keys) /\ loaded' = loaded /\ keys' = keys
        /\ holder' = holder /\ gpu' = [gpu EXCEPT ![t] = [gpu[t] EXCEPT !.next = gpu[t].next + 1]]
        /\ keys[gpu[t].next] \in loaded => keys[gpu[t].next] = gpu[t].model
    BY <1>5, <1>types DEF Local!Pass, Local!Walking, Local!Keeps
  <2>2. gpu[t] \in GpuCalls /\ gpu[t].next \in Nat /\ gpu[t].next > 0 /\ gpu[t].next + 1 \in Nat \ {0}
    BY <1>types DEF GpuCalls
  <2>3. PICK r \in GpuCalls :
          /\ r = [gpu[t] EXCEPT !.next = gpu[t].next + 1]
          /\ r.at = "sweep" /\ r.next = gpu[t].next + 1 /\ r.model = gpu[t].model
    <3>1. PICK n \in Nat \ {0} : n = gpu[t].next + 1
      BY <2>2
    <3>2. \E r \in GpuCalls :
            /\ r = [gpu[t] EXCEPT !.next = n]
            /\ r.at = "sweep" /\ r.next = n /\ r.model = gpu[t].model
      BY SMTT(60), <2>1, <2>2, CallPasses
    <3> QED BY <3>1, <3>2
  <2>4. \A i \in 1..(gpu[t].next - 1) : keys[i] \in loaded => keys[i] = gpu[t].model
    BY <1>fits, <2>1 DEF CallFits
  <2>5. \A i \in 1..(r.next - 1) : keys[i] \in loaded => keys[i] = r.model
    BY SMTT(60), <2>1, <2>2, <2>3, <2>4
  <2>6. r.next <= Len(keys) + 1
    BY <1>types, <2>1, <2>2, <2>3
  <2>7. CallFits(r)'
    BY <1>known, <2>1, <2>3, <2>5, <2>6 DEF CallFits
  <2>8. LoadedFits'
    BY <1>inv, <2>1 DEF LoadedFits
  <2> QED BY <1>4, <2>1, <2>3, <2>7, <2>8
<1>6. ASSUME NEW t \in Tasks, Local!Unload(t) PROVE GpuInv'
  <2>1. /\ gpu[t].at = "sweep" /\ gpu[t].next <= Len(keys) /\ loaded' = loaded /\ keys' = keys
        /\ holder' = holder /\ gpu' = [gpu EXCEPT ![t] = [gpu[t] EXCEPT !.at = "unloading"]]
    BY <1>6, <1>types DEF Local!Unload, Local!Walking
  <2>2. gpu[t] \in GpuCalls
    BY <1>types
  <2>3. PICK r \in GpuCalls :
          /\ r = [gpu[t] EXCEPT !.at = "unloading"]
          /\ r.at = "unloading" /\ r.next = gpu[t].next /\ r.model = gpu[t].model
    BY ZenonT(60), <2>2, CallGoesTo DEF Places
  <2>4. CallFits(r)'
    BY <1>known, <1>fits, <2>1, <2>3 DEF CallFits
  <2>5. LoadedFits'
    BY <1>inv, <2>1 DEF LoadedFits
  <2> QED BY <1>4, <2>1, <2>3, <2>4, <2>5
<1>7. ASSUME NEW t \in Tasks, Local!Unloaded(t) PROVE GpuInv'
  <2>1. /\ gpu[t].at = "unloading" /\ loaded' = loaded \ {keys[gpu[t].next]} /\ keys' = keys
        /\ holder' = holder /\ gpu' = [gpu EXCEPT ![t] = [gpu[t] EXCEPT !.at = "sweep", !.next = gpu[t].next + 1]]
    BY <1>7, <1>types DEF Local!Unloaded
  <2>2. gpu[t] \in GpuCalls /\ gpu[t].next \in Nat /\ gpu[t].next > 0 /\ gpu[t].next + 1 \in Nat \ {0}
    BY <1>types DEF GpuCalls
  <2>3. PICK r \in GpuCalls :
          /\ r = [gpu[t] EXCEPT !.at = "sweep", !.next = gpu[t].next + 1]
          /\ r.at = "sweep" /\ r.next = gpu[t].next + 1 /\ r.model = gpu[t].model
    <3>1. PICK n \in Nat \ {0} : n = gpu[t].next + 1
      BY <2>2
    <3>2. \E r \in GpuCalls :
            /\ r = [gpu[t] EXCEPT !.at = "sweep", !.next = n]
            /\ r.at = "sweep" /\ r.next = n /\ r.model = gpu[t].model
      BY ZenonT(60), <2>2, CallWalksOn
    <3> QED BY <3>1, <3>2
  <2>4. /\ \A i \in 1..(gpu[t].next - 1) : keys[i] \in loaded => keys[i] = gpu[t].model
        /\ gpu[t].next <= Len(keys)
    BY <1>fits, <2>1 DEF CallFits
  <2>5. \A i \in 1..(r.next - 1) : keys[i] \in loaded' => keys[i] = r.model
    BY SMTT(60), <2>1, <2>2, <2>3, <2>4
  <2>6. r.next <= Len(keys) + 1
    BY <1>types, <2>2, <2>3, <2>4
  <2>7. CallFits(r)'
    BY <1>known, <2>1, <2>3, <2>5, <2>6 DEF CallFits
  <2>8. LoadedFits'
    BY <1>inv, <2>1 DEF LoadedFits
  <2> QED BY <1>4, <2>1, <2>3, <2>7, <2>8
<1>8. ASSUME NEW t \in Tasks, Local!Measure(t) PROVE GpuInv'
  <2>1. PICK f \in Local!FreeVram :
          gpu' = [gpu EXCEPT ![t] = [gpu[t] EXCEPT !.at = "measured", !.free = f]]
    BY <1>8, <1>types DEF Local!Measure
  <2>2. /\ gpu[t].at = "sweep" /\ gpu[t].next > Len(keys)
        /\ loaded' = loaded /\ keys' = keys /\ holder' = holder
    BY <1>8 DEF Local!Measure
  <2>3. f \in Nat /\ f <= Vram
    BY <1>inv, <2>1, UsedFits DEF Local!FreeVram
  <2>4. gpu[t] \in GpuCalls /\ gpu[t].next \in Nat
    BY <1>types DEF GpuCalls
  <2>5. PICK r \in GpuCalls :
          /\ r = [gpu[t] EXCEPT !.at = "measured", !.free = f]
          /\ r.at = "measured" /\ r.free = f /\ r.model = gpu[t].model
    BY ZenonT(60), <2>3, <2>4, CallMeasures
  <2>6. gpu' = [gpu EXCEPT ![t] = r]
    BY <2>1, <2>5
  <2>7. \A i \in 1..Len(keys) : keys[i] \in loaded => keys[i] = gpu[t].model
    <3>1. \A i \in 1..(gpu[t].next - 1) : keys[i] \in loaded => keys[i] = gpu[t].model
      BY <1>fits, <2>2 DEF CallFits
    <3>2. \A i \in 1..Len(keys) : i \in 1..(gpu[t].next - 1)
      BY <1>types, <2>2, <2>4
    <3> QED BY <3>1, <3>2
  <2>8. loaded \subseteq {r.model}
    BY <1>inv, <1>types, <2>5, <2>7 DEF LoadedFits, Local!ToSet
  <2>9. CallFits(r)'
    BY <1>known, <2>2, <2>3, <2>5, <2>8 DEF CallFits
  <2>10. LoadedFits'
    BY <1>inv, <2>2 DEF LoadedFits
  <2> QED BY <1>4, <2>2, <2>5, <2>6, <2>9, <2>10
<1>9. ASSUME NEW t \in Tasks, Local!LoadModel(t) PROVE GpuInv'
  <2> DEFINE place == IF gpu[t].model \in loaded THEN "using" ELSE "loading"
  <2>1. /\ gpu[t].at = "measured" /\ gpu[t].free >= Local!Size[gpu[t].model] /\ loaded' = loaded
        /\ keys' = keys /\ holder' = holder /\ gpu' = [gpu EXCEPT ![t] = [gpu[t] EXCEPT !.at = place]]
    BY <1>9, <1>types DEF Local!LoadModel, Local!Enough
  <2>2. gpu[t] \in GpuCalls /\ gpu[t].free \in Nat /\ gpu[t].model \in Local!Models
    BY <1>types DEF GpuCalls
  <2>3. PICK r \in GpuCalls : r = [gpu[t] EXCEPT !.at = place] /\ r.model = gpu[t].model /\ r.at = place
    <3>1. place \in Places
      BY DEF Places
    <3> HIDE DEF place
    <3> QED BY <2>2, <3>1, CallGoesTo
  <2>4. gpu[t].free <= Vram /\ loaded \subseteq {gpu[t].model}
    BY <1>fits, <2>1 DEF CallFits
  <2>5. Local!Size[r.model] <= Vram
    BY <2>1, <2>2, <2>3, <2>4, ModelSizes
  <2>6. /\ r.at \in {"using", "loading"}
        /\ r.at = "loading" => loaded = {}
        /\ r.at = "using" => r.model \in loaded
    BY <2>3, <2>4
  <2>7. CallFits(r)'
    BY <1>known, <2>1, <2>3, <2>4, <2>5, <2>6 DEF CallFits
  <2>8. LoadedFits'
    BY <1>inv, <2>1 DEF LoadedFits
  <2> QED BY <1>4, <2>1, <2>3, <2>7, <2>8
<1>10. ASSUME NEW t \in Tasks, Local!Loaded(t) PROVE GpuInv'
  <2>1. /\ gpu[t].at = "loading" /\ loaded' = loaded \cup {gpu[t].model}
        /\ keys' = keys /\ holder' = holder /\ gpu' = [gpu EXCEPT ![t] = [gpu[t] EXCEPT !.at = "using"]]
    BY <1>10, <1>types DEF Local!Loaded
  <2>2. gpu[t] \in GpuCalls /\ gpu[t].model \in Local!Models
    BY <1>types DEF GpuCalls
  <2>3. PICK r \in GpuCalls :
          r = [gpu[t] EXCEPT !.at = "using"] /\ r.model = gpu[t].model /\ r.at = "using"
    BY <2>2, CallGoesTo DEF Places
  <2>4. loaded = {} /\ Local!Size[gpu[t].model] <= Vram
    BY <1>fits, <2>1 DEF CallFits
  <2>5. loaded' = {r.model}
    BY <2>1, <2>3, <2>4
  <2>6. r.model \in Local!ToSet(keys)
    BY <1>known, <2>1, <2>3
  <2>7. CallFits(r)'
    BY <2>1, <2>3, <2>5, <2>6 DEF CallFits
  <2>8. LoadedFits'
    BY <2>1, <2>2, <2>3, <2>4, <2>5, <2>6 DEF LoadedFits
  <2> QED BY <1>4, <2>1, <2>3, <2>7, <2>8
<1> QED
  BY <1>1, <1>2, <1>3, <1>5, <1>6, <1>7, <1>8, <1>9, <1>10 DEF Local!GpuNext

-----------------------------------------------------------------------------
(* Blocks of shared memory, and the browser.  A name that an allocator     *)
(* made is tracked by whoever made it, until it is freed and the name is   *)
(* gone.  As long as starts do not overlap with starts, nor closes with    *)
(* closes, a browser is launched only while none is known and nobody       *)
(* closes one, and a close ends the very browser that is known.            *)

BlockInv ==
  /\ named \in Nat /\ tracked \in [Processes -> Nat] /\ DOMAIN blocks = 1..MaxBlocks
  /\ Local!BlocksCanBeFreed

TabPlaces == {"idle", "launching", "page", "tidying", "closing"}
TabTypes == tab \in [Tasks -> [at: TabPlaces, on: Nat]] /\ browser \in Nat /\ launches \in Nat
LaunchesAlone ==
  \A t, u \in Tasks : tab[t].at = "launching" => browser = 0 /\ (tab[u].at = "launching" => t = u)
ClosesAlone ==
  \A t, u \in Tasks :
    tab[t].at = "closing" => browser # 0 /\ tab[t].on = browser /\ (tab[u].at = "closing" => t = u)
KnownLives == live = {browser} \ {0}
BrowserInv == TabTypes /\ (raced \/ (LaunchesAlone /\ ClosesAlone /\ KnownLives))

\* Nothing is named, tracked or open at first.
LEMMA BlocksStart == Local!Init => BlockInv
<1> SUFFICES ASSUME Local!Init PROVE BlockInv
  OBVIOUS
<1>1. /\ named = 0 /\ tracked = [p \in Processes |-> 0]
      /\ blocks = [b \in 1..MaxBlocks |-> << >>]
  BY DEF Local!Init
<1> QED BY <1>1 DEF BlockInv, Local!BlocksCanBeFreed

\* A block that is made takes the name, and its number is not that of no block.
LEMMA BlockNamed ==
  ASSUME BlockInv, NEW size, Local!Block(size)
  PROVE  named' \in Nat /\ DOMAIN blocks' = 1..MaxBlocks /\ named' # 0
<1> USE MachineAssumption
<1>1. CASE named # 0
  BY <1>1 DEF Local!Block, BlockInv
<1>2. CASE named = 0
  <2>1. IsFiniteSet(1..MaxBlocks) /\ Local!Made \in SUBSET (1..MaxBlocks)
    BY FS_Interval DEF BlockInv, Local!Made
  <2>2. Cardinality(Local!Made) \in Nat
    BY <2>1, FS_Subset, FS_CardinalityType
  <2>3. \A S : Local!Cardinality(S) = Cardinality(S)
    BY DEF Local!Cardinality, Cardinality
  <2>4. named' = Local!Cardinality(Local!Made) + 1 /\ DOMAIN blocks' = DOMAIN blocks
    BY <1>2 DEF Local!Block
  <2> QED BY <2>2, <2>3, <2>4 DEF BlockInv
<1> QED BY <1>1, <1>2

\* Every step of the block's users keeps the invariant.
LEMMA BlockStep ==
  ASSUME BlockInv, Local!BlockNext
  PROVE  BlockInv'
<1>types. named \in Nat /\ tracked \in [Processes -> Nat] /\ DOMAIN blocks = 1..MaxBlocks
  BY DEF BlockInv
<1>freed. named # 0 => cached \/ \E p \in Processes : tracked[p] # 0
  BY DEF BlockInv, Local!BlocksCanBeFreed
<1>1. ASSUME Local!Unlink PROVE BlockInv'
  <2>1. named' = 0 /\ tracked' = tracked /\ blocks' = blocks
    BY <1>1 DEF Local!Unlink
  <2> QED BY <1>types, <2>1 DEF BlockInv, Local!BlocksCanBeFreed
<1>2. ASSUME NEW p \in Processes, NEW n \in 1..2, Local!Allocate(p, n) PROVE BlockInv'
  <2>1. named' \in Nat /\ DOMAIN blocks' = 1..MaxBlocks /\ named' # 0
    BY <1>2, BlockNamed DEF Local!Allocate
  <2>2. tracked' = [tracked EXCEPT ![p] = named']
    BY <1>2 DEF Local!Allocate
  <2>3. tracked' \in [Processes -> Nat] /\ tracked'[p] # 0
    BY <1>types, <2>1, <2>2
  <2> QED BY <2>1, <2>3 DEF BlockInv, Local!BlocksCanBeFreed
<1>3. ASSUME NEW p \in Processes, NEW n \in 1..2, Local!AllocateBuffer(p, n) PROVE BlockInv'
  <2>1. named' \in Nat /\ DOMAIN blocks' = 1..MaxBlocks /\ named' # 0
    BY <1>3, BlockNamed DEF Local!AllocateBuffer
  <2>2. tracked' = tracked /\ cached' = (cached \/ named = 0)
    BY <1>3 DEF Local!AllocateBuffer
  <2>3. Local!BlocksCanBeFreed'
    BY <1>freed, <2>2 DEF Local!BlocksCanBeFreed
  <2> QED BY <1>types, <2>1, <2>2, <2>3 DEF BlockInv
<1>4. ASSUME NEW p \in Processes, Local!Free(p) PROVE BlockInv'
  <2>1. named' = 0 /\ tracked' = [tracked EXCEPT ![p] = 0] /\ blocks' = blocks
    BY <1>4 DEF Local!Free
  <2> QED BY <1>types, <2>1 DEF BlockInv, Local!BlocksCanBeFreed
<1>5. ASSUME NEW p \in Processes, NEW n \in 1..2,
             Local!WriteBegins(p, n) \/ Local!CloseBuffer(p) \/ Local!WriteEnds(p)
      PROVE  BlockInv'
  <2>1. named' = named /\ tracked' = tracked /\ cached' = cached /\ DOMAIN blocks' = DOMAIN blocks
    BY <1>5 DEF Local!WriteBegins, Local!CloseBuffer, Local!WriteEnds
  <2> QED BY <1>types, <1>freed, <2>1 DEF BlockInv, Local!BlocksCanBeFreed
<1> QED BY <1>1, <1>2, <1>3, <1>4, <1>5 DEF Local!BlockNext

\* No browser runs at first.
LEMMA BrowserStarts == Local!Init => BrowserInv
<1> SUFFICES ASSUME Local!Init PROVE BrowserInv
  OBVIOUS
<1>1. /\ browser = 0 /\ live = {} /\ tab = [t \in Tasks |-> [at |-> "idle", on |-> 0]] /\ launches = 0
  BY DEF Local!Init
<1>2. TabTypes /\ \A t \in Tasks : tab[t].at = "idle"
  BY <1>1 DEF TabTypes, TabPlaces
<1> QED BY <1>1, <1>2 DEF BrowserInv, LaunchesAlone, ClosesAlone, KnownLives

\* A task goes where it does nothing to the browser.
LEMMA TabLeaves ==
  ASSUME BrowserInv, NEW t \in Tasks, NEW place \in {"idle", "page", "tidying"}, NEW b \in Nat,
         Local!TabAt(t, place, b), UNCHANGED <<browser, live, launches, raced>>
  PROVE  BrowserInv'
<1>1. tab' = [tab EXCEPT ![t] = [at |-> place, on |-> b]] /\ tab \in [Tasks -> [at: TabPlaces, on: Nat]]
  BY DEF Local!TabAt, BrowserInv, TabTypes
<1>2. TabTypes'
  BY <1>1 DEF BrowserInv, TabTypes, TabPlaces
<1>3. \A u \in Tasks : tab'[u].at \in {"launching", "closing"} => tab'[u] = tab[u]
  BY <1>1
<1>4. LaunchesAlone => LaunchesAlone'
  BY <1>3 DEF LaunchesAlone
<1>5. ClosesAlone => ClosesAlone'
  BY <1>3 DEF ClosesAlone
<1>6. KnownLives => KnownLives'
  BY DEF KnownLives
<1> QED BY <1>2, <1>4, <1>5, <1>6 DEF BrowserInv

\* Every step of the runner's tasks keeps the invariant.
LEMMA BrowserStep ==
  ASSUME BrowserInv, Local!BrowserNext
  PROVE  BrowserInv'
<1>types. tab \in [Tasks -> [at: TabPlaces, on: Nat]] /\ browser \in Nat /\ launches \in Nat
  BY DEF BrowserInv, TabTypes
<1>1. ASSUME NEW t \in Tasks, Local!Start(t) PROVE BrowserInv'
  <2>1. /\ tab' = [tab EXCEPT ![t] = [at |-> "launching", on |-> 0]] /\ browser = 0
        /\ browser' = browser /\ live' = live /\ launches' = launches
        /\ raced' = (raced \/ Local!InState("launching") # {})
    BY <1>1 DEF Local!Start, Local!TabAt
  <2>2. TabTypes'
    BY <1>types, <2>1 DEF TabTypes, TabPlaces
  <2>3. CASE raced \/ Local!InState("launching") # {}
    BY <2>1, <2>2, <2>3 DEF BrowserInv
  <2>4. ASSUME ~raced, Local!InState("launching") = {} PROVE BrowserInv'
    <3>1. \A u \in Tasks : tab[u].at # "launching"
      BY <2>4 DEF Local!InState
    <3>2. /\ \A u \in Tasks : tab'[u].at = "launching" => u = t
          /\ \A u \in Tasks : tab'[u].at = "closing" => tab'[u] = tab[u]
      BY <1>types, <2>1, <3>1
    <3>3. LaunchesAlone' /\ ClosesAlone'
      BY <2>1, <2>4, <3>2 DEF BrowserInv, LaunchesAlone, ClosesAlone
    <3>4. KnownLives'
      BY <2>1, <2>4 DEF BrowserInv, KnownLives
    <3> QED BY <2>2, <3>3, <3>4 DEF BrowserInv
  <2> QED BY <2>3, <2>4
<1>2. ASSUME NEW t \in Tasks, NEW place \in {"idle", "page"}, Local!Launched(t, place) PROVE BrowserInv'
  <2>1. /\ tab[t].at = "launching" /\ tab' = [tab EXCEPT ![t] = [at |-> place, on |-> 0]]
        /\ launches' = launches + 1 /\ browser' = launches' /\ live' = live \cup {browser'}
        /\ raced' = raced
    BY <1>2 DEF Local!Launched, Local!TabAt
  <2>2. TabTypes'
    BY <1>types, <2>1 DEF TabTypes, TabPlaces
  <2>3. CASE raced
    BY <2>1, <2>2, <2>3 DEF BrowserInv
  <2>4. ASSUME ~raced PROVE BrowserInv'
    <3>1. browser = 0 /\ live = {} /\ \A u \in Tasks : tab[u].at = "launching" => u = t
      BY <2>1, <2>4 DEF BrowserInv, LaunchesAlone, KnownLives
    <3>2. \A u \in Tasks : tab[u].at # "closing"
      BY <2>4, <3>1 DEF BrowserInv, ClosesAlone
    <3>3. \A u \in Tasks : tab'[u].at # "launching" /\ tab'[u].at # "closing"
      BY <1>types, <2>1, <3>1, <3>2
    <3>4. LaunchesAlone' /\ ClosesAlone'
      BY <3>3 DEF LaunchesAlone, ClosesAlone
    <3>5. browser' # 0
      BY <1>types, <2>1
    <3>6. KnownLives'
      BY <2>1, <3>1, <3>5 DEF KnownLives
    <3> QED BY <2>2, <3>4, <3>6 DEF BrowserInv
  <2> QED BY <2>3, <2>4
<1>3. ASSUME NEW t \in Tasks,
             Local!LaunchFails(t) \/ Local!NewPage(t) \/ Local!PageMade(t) \/ Local!ClosePages(t)
      PROVE  BrowserInv'
  <2>1. /\ UNCHANGED <<browser, live, launches, raced>>
        /\ \E place \in {"idle", "page", "tidying"} : \E b \in Nat : Local!TabAt(t, place, b)
    BY <1>3, <1>types DEF Local!LaunchFails, Local!NewPage, Local!PageMade, Local!ClosePages
  <2> QED BY <2>1, TabLeaves
<1>4. ASSUME NEW t \in Tasks, Local!CloseBrowser(t) PROVE BrowserInv'
  <2>1. /\ tab' = [tab EXCEPT ![t] = [at |-> IF browser = 0 THEN "idle" ELSE "closing", on |-> browser]]
        /\ browser' = browser /\ live' = live /\ launches' = launches
        /\ raced' = (raced \/ Local!InState("closing") # {})
    BY <1>4 DEF Local!CloseBrowser, Local!TabAt
  <2>2. TabTypes'
    BY <1>types, <2>1 DEF TabTypes, TabPlaces
  <2>3. CASE raced \/ Local!InState("closing") # {}
    BY <2>1, <2>2, <2>3 DEF BrowserInv
  <2>4. ASSUME ~raced, Local!InState("closing") = {} PROVE BrowserInv'
    <3>1. \A u \in Tasks : tab[u].at # "closing"
      BY <2>4 DEF Local!InState
    <3>2. /\ \A u \in Tasks : tab'[u].at = "launching" => tab[u].at = "launching"
          /\ \A u \in Tasks : tab'[u].at = "closing" => u = t /\ browser # 0 /\ tab'[u].on = browser
      BY <1>types, <2>1, <3>1
    <3>3. LaunchesAlone' /\ ClosesAlone'
      BY <2>1, <2>4, <3>2 DEF BrowserInv, LaunchesAlone, ClosesAlone
    <3>4. KnownLives'
      BY <2>1, <2>4 DEF BrowserInv, KnownLives
    <3> QED BY <2>2, <3>3, <3>4 DEF BrowserInv
  <2> QED BY <2>3, <2>4
<1>5. ASSUME NEW t \in Tasks, Local!Closed(t) PROVE BrowserInv'
  <2>1. /\ tab[t].at = "closing" /\ tab' = [tab EXCEPT ![t] = [at |-> "idle", on |-> 0]]
        /\ live' = live \ {tab[t].on} /\ browser' = 0 /\ launches' = launches /\ raced' = raced
    BY <1>5 DEF Local!Closed, Local!TabAt
  <2>2. TabTypes'
    BY <1>types, <2>1 DEF TabTypes, TabPlaces
  <2>3. CASE raced
    BY <2>1, <2>2, <2>3 DEF BrowserInv
  <2>4. ASSUME ~raced PROVE BrowserInv'
    <3>1. /\ browser # 0 /\ tab[t].on = browser /\ live = {browser}
          /\ \A u \in Tasks : tab[u].at = "closing" => u = t
      BY <2>1, <2>4 DEF BrowserInv, ClosesAlone, KnownLives
    <3>2. \A u \in Tasks : tab[u].at # "launching"
      BY <2>4, <3>1 DEF BrowserInv, LaunchesAlone
    <3>3. \A u \in Tasks : tab'[u].at # "launching" /\ tab'[u].at # "closing"
      BY <1>types, <2>1, <3>1, <3>2
    <3>4. LaunchesAlone' /\ ClosesAlone'
      BY <3>3 DEF LaunchesAlone, ClosesAlone
    <3>5. KnownLives'
      BY <2>1, <3>1 DEF KnownLives
    <3> QED BY <2>2, <3>4, <3>5 DEF BrowserInv
  <2> QED BY <2>3, <2>4
<1> QED BY <1>1, <1>2, <1>3, <1>4, <1>5 DEF Local!BrowserNext

\* What the machine has once, together: one of the three moves at a time.
MachineInv == GpuInv /\ BlockInv /\ BrowserInv

\* Every step on the machine keeps all three invariants.
LEMMA MachineStep ==
  ASSUME MachineInv, Local!GpuNext \/ Local!BlockNext \/ Local!BrowserNext \/ UNCHANGED localVars
  PROVE  MachineInv'
<1>1. ASSUME UNCHANGED <<keys, loaded, polite, holder, gpu>> PROVE GpuInv'
  BY <1>1 DEF MachineInv, GpuInv, GpuTypes, LoadedFits, CallersHoldIt, OneCall, CallsFit, CallFits
<1>2. ASSUME UNCHANGED <<named, blocks, tracked, cached>> PROVE BlockInv'
  BY <1>2 DEF MachineInv, BlockInv, Local!BlocksCanBeFreed
<1>3. ASSUME UNCHANGED <<browser, live, tab, launches, raced>> PROVE BrowserInv'
  BY <1>3 DEF MachineInv, BrowserInv, TabTypes, LaunchesAlone, ClosesAlone, KnownLives
<1>4. CASE Local!GpuNext
  <2>1. UNCHANGED <<named, blocks, tracked, cached>> /\ UNCHANGED <<browser, live, tab, launches, raced>>
    BY <1>4 DEF Local!GpuNext, Local!blockVars, Local!browserVars
  <2> QED BY <1>2, <1>3, <1>4, <2>1, GpuStep DEF MachineInv
<1>5. CASE Local!BlockNext
  <2>1. UNCHANGED <<keys, loaded, polite, holder, gpu>> /\ UNCHANGED <<browser, live, tab, launches, raced>>
    BY <1>5 DEF Local!BlockNext, Local!gpuVars, Local!browserVars
  <2> QED BY <1>1, <1>3, <1>5, <2>1, BlockStep DEF MachineInv
<1>6. CASE Local!BrowserNext
  <2>1. UNCHANGED <<keys, loaded, polite, holder, gpu>> /\ UNCHANGED <<named, blocks, tracked, cached>>
    BY <1>6 DEF Local!BrowserNext, Local!gpuVars, Local!blockVars
  <2> QED BY <1>1, <1>2, <1>6, <2>1, BrowserStep DEF MachineInv
<1>7. CASE UNCHANGED localVars
  BY <1>1, <1>2, <1>3, <1>7 DEF localVars, MachineInv
<1> QED BY <1>4, <1>5, <1>6, <1>7

\* What the GPU holds, what can be freed, and which browser is known.
LEMMA MachineKept ==
  ASSUME MachineInv
  PROVE  Local!ModelsFit /\ Local!BlocksCanBeFreed /\ Local!BrowserIsKnown
<1>1. Local!ModelsFit
  <2> SUFFICES ASSUME polite
               PROVE  Local!Used <= Vram /\ \A t \in Tasks : gpu[t].at = "using" => gpu[t].model \in loaded
    BY DEF Local!ModelsFit
  <2>1. LoadedFits /\ \A t \in Tasks : CallFits(gpu[t])
    BY DEF MachineInv, GpuInv, CallsFit
  <2> QED BY <2>1, UsedFits DEF CallFits
<1>2. Local!BrowserIsKnown
  BY DEF MachineInv, BrowserInv, KnownLives, Local!BrowserIsKnown
<1> QED BY <1>1, <1>2 DEF MachineInv, BlockInv

-----------------------------------------------------------------------------
(* The decision bus on one event loop.  Nothing runs between a waiter's    *)
(* look at the request and its registration, nor between a decision and    *)
(* its signal: a waiter that registers registers for an undecided request. *)

BusStates == {"idle", "looked", "registering", "asleep", "woken", "done"}
BusTypes ==
  /\ current \in 0..MaxGenerations
  /\ outcome \in [1..MaxGenerations -> LoopBus!Decisions \cup {"none"}]
  /\ waiter \in [Waiters -> BusStates] /\ waits \in [Waiters -> 0..MaxGenerations]
  /\ decider \in [Deciders -> 0..MaxGenerations]
LookersWaitForADecision ==
  \A w \in Waiters :
    /\ waiter[w] # "idle" => waits[w] # 0
    /\ waiter[w] \in {"looked", "registering"} => outcome[waits[w]] = "none"
BusInv == BusTypes /\ LookersWaitForADecision /\ LoopBus!NoLostWakeup

\* Nobody waits at first.
LEMMA BusStarts == LoopBus!Init => BusInv
<1> SUFFICES ASSUME LoopBus!Init PROVE BusInv
  OBVIOUS
<1>1. MaxGenerations \in Nat
  BY InstanceAssumptions DEF ThreadBus!BoundsAssumption
<1>2. BusTypes
  BY <1>1 DEF LoopBus!Init, LoopBus!Generations, LoopBus!Decisions, BusTypes, BusStates
<1>3. \A w \in Waiters : waiter[w] = "idle"
  BY DEF LoopBus!Init
<1> QED BY <1>2, <1>3 DEF BusInv, LookersWaitForADecision, LoopBus!NoLostWakeup

\* A waiter that goes on keeps the others as they are.
LEMMA WaiterGoesOn ==
  ASSUME BusInv, NEW w \in Waiters, NEW s \in BusStates, waiter' = [waiter EXCEPT ![w] = s],
         UNCHANGED <<current, outcome, waits, decider>>,
         waits[w] # 0, s \in {"looked", "registering", "asleep"} => outcome[waits[w]] = "none"
  PROVE  BusInv'
<1>1. /\ waiter' \in [Waiters -> BusStates] /\ waiter'[w] = s
      /\ \A v \in Waiters : v # w => waiter'[v] = waiter[v]
  BY DEF BusInv, BusTypes
<1>2. BusTypes'
  BY <1>1 DEF BusInv, BusTypes
<1>3. LookersWaitForADecision'
  BY <1>1 DEF BusInv, LookersWaitForADecision
<1>4. LoopBus!NoLostWakeup'
  BY <1>1 DEF BusInv, LoopBus!NoLostWakeup
<1> QED BY <1>2, <1>3, <1>4 DEF BusInv

\* Every step on the loop keeps the invariant.
LEMMA BusStep ==
  ASSUME BusInv, [LoopBus!Next]_busVars
  PROVE  BusInv'
<1> USE DEF LoopBus!Answer
<1>types. /\ current \in 0..MaxGenerations /\ MaxGenerations \in Nat
          /\ outcome \in [1..MaxGenerations -> LoopBus!Decisions \cup {"none"}]
          /\ waiter \in [Waiters -> BusStates] /\ waits \in [Waiters -> 0..MaxGenerations]
          /\ decider \in [Deciders -> 0..MaxGenerations]
  <2>1. MaxGenerations \in Nat
    BY InstanceAssumptions DEF ThreadBus!BoundsAssumption
  <2> QED BY <2>1 DEF BusInv, BusTypes
<1>look. \A w \in Waiters :
           /\ waiter[w] # "idle" => waits[w] # 0
           /\ waiter[w] \in {"looked", "registering"} => outcome[waits[w]] = "none"
  BY DEF BusInv, LookersWaitForADecision
<1>1. ASSUME LoopBus!Request PROVE BusInv'
  <2>1. current' \in 0..MaxGenerations /\ UNCHANGED <<outcome, waiter, waits, decider>>
    BY <1>1, <1>types DEF LoopBus!Request
  <2> QED BY <2>1 DEF BusInv, BusTypes, LookersWaitForADecision, LoopBus!NoLostWakeup
<1>2. ASSUME NEW d \in Deciders, NEW o \in LoopBus!Decisions, LoopBus!Decide(d, o) PROVE BusInv'
  <2>1. /\ \A w \in Waiters : waiter[w] \notin {"looked", "registering"}
        /\ decider[d] = 0 /\ current # 0
        /\ outcome' = [outcome EXCEPT ![current] = o] /\ decider' = [decider EXCEPT ![d] = current]
        /\ current' = current /\ waiter' = waiter /\ waits' = waits
    BY <1>2 DEF LoopBus!Decide, LoopBus!LoopIsFree
  <2>2. current \in 1..MaxGenerations
    BY <1>types, <2>1
  <2>3. /\ decider'[d] = current /\ \A e \in Deciders : e # d => decider'[e] = decider[e]
        /\ decider' \in [Deciders -> 0..MaxGenerations]
    BY <1>types, <2>1
  <2>4. /\ \A g : g # current => outcome'[g] = outcome[g]
        /\ outcome' \in [1..MaxGenerations -> LoopBus!Decisions \cup {"none"}]
    BY <1>types, <2>1, <2>2
  <2>5. BusTypes'
    BY <1>types, <2>1, <2>3, <2>4 DEF BusTypes
  <2>6. LookersWaitForADecision'
    BY <1>look, <2>1 DEF LookersWaitForADecision
  <2>7. LoopBus!NoLostWakeup'
    <3> SUFFICES ASSUME NEW w \in Waiters, waiter[w] = "asleep", outcome'[waits[w]] # "none"
                 PROVE  \E e \in Deciders : decider'[e] = waits[w]
      BY <2>1 DEF LoopBus!NoLostWakeup
    <3>1. CASE waits[w] = current
      BY <2>3, <3>1
    <3>2. CASE waits[w] # current
      <4>1. PICK e \in Deciders : decider[e] = waits[w]
        BY <2>4, <3>2 DEF BusInv, LoopBus!NoLostWakeup
      <4>2. CASE e = d
        BY <1>look, <2>1, <4>1, <4>2
      <4>3. CASE e # d
        BY <2>3, <4>1, <4>3
      <4> QED BY <4>2, <4>3
    <3> QED BY <3>1, <3>2
  <2> QED BY <2>5, <2>6, <2>7 DEF BusInv
<1>3. ASSUME NEW d \in Deciders, LoopBus!SetFlag(d) PROVE BusInv'
  BY <1>3 DEF LoopBus!SetFlag, BusInv, BusTypes, LookersWaitForADecision, LoopBus!NoLostWakeup
<1>4. ASSUME NEW d \in Deciders, LoopBus!WakeAll(d) PROVE BusInv'
  <2>1. /\ waiter' = [w \in Waiters |->
                        IF waits[w] = decider[d] /\ waiter[w] = "asleep" THEN "woken" ELSE waiter[w]]
        /\ decider' = [decider EXCEPT ![d] = 0]
        /\ current' = current /\ outcome' = outcome /\ waits' = waits
    BY <1>4 DEF LoopBus!WakeAll, LoopBus!Woken
  <2>2. /\ decider' \in [Deciders -> 0..MaxGenerations]
        /\ \A e \in Deciders : e # d => decider'[e] = decider[e]
    BY <1>types, <2>1
  <2>3. waiter' \in [Waiters -> BusStates]
    BY <1>types, <2>1 DEF BusStates
  <2>4. BusTypes'
    BY <1>types, <2>1, <2>2, <2>3 DEF BusTypes
  <2>5. \A w \in Waiters : waiter'[w] = waiter[w] \/ (waiter'[w] = "woken" /\ waiter[w] = "asleep")
    BY <2>1
  <2>6. LookersWaitForADecision'
    BY <1>look, <2>1, <2>5 DEF LookersWaitForADecision
  <2>7. LoopBus!NoLostWakeup'
    <3> SUFFICES ASSUME NEW w \in Waiters, waiter'[w] = "asleep", outcome[waits[w]] # "none"
                 PROVE  \E e \in Deciders : decider'[e] = waits[w]
      BY <2>1 DEF LoopBus!NoLostWakeup
    <3>1. waiter[w] = "asleep" /\ waits[w] # decider[d]
      BY <2>1
    <3>2. PICK e \in Deciders : decider[e] = waits[w]
      BY <3>1 DEF BusInv, LoopBus!NoLostWakeup
    <3> QED BY <2>2, <3>1, <3>2
  <2> QED BY <2>4, <2>6, <2>7 DEF BusInv
<1>5. ASSUME NEW w \in Waiters, LoopBus!Look(w) PROVE BusInv'
  <2>1. /\ waiter[w] = "idle" /\ current # 0 /\ waits' = [waits EXCEPT ![w] = current]
        /\ current' = current /\ outcome' = outcome /\ decider' = decider
        /\ IF outcome[current] # "none" THEN waiter' = [waiter EXCEPT ![w] = "done"]
           ELSE waiter' = [waiter EXCEPT ![w] = "looked"]
    BY <1>5 DEF LoopBus!Look
  <2>2. /\ waits' \in [Waiters -> 0..MaxGenerations] /\ waits'[w] = current
        /\ \A v \in Waiters : v # w => waits'[v] = waits[v]
    BY <1>types, <2>1
  <2>3. /\ waiter' \in [Waiters -> BusStates]
        /\ \A v \in Waiters : v # w => waiter'[v] = waiter[v]
        /\ waiter'[w] = IF outcome[current] # "none" THEN "done" ELSE "looked"
    BY <1>types, <2>1 DEF BusStates
  <2>4. BusTypes'
    BY <1>types, <2>1, <2>2, <2>3 DEF BusTypes
  <2>5. LookersWaitForADecision'
    BY <1>look, <2>1, <2>2, <2>3 DEF LookersWaitForADecision
  <2>6. LoopBus!NoLostWakeup'
    BY <2>1, <2>2, <2>3 DEF BusInv, LoopBus!NoLostWakeup
  <2> QED BY <2>4, <2>5, <2>6 DEF BusInv
<1>6. ASSUME NEW w \in Waiters,
             LoopBus!CheckFlag(w) \/ LoopBus!Register(w) \/ LoopBus!Wake(w) \/ LoopBus!TimedOut(w)
      PROVE  BusInv'
  <2>1. /\ UNCHANGED <<current, outcome, waits, decider>> /\ waiter[w] # "idle"
        /\ \/ waiter' = [waiter EXCEPT ![w] = "done"]
           \/ waiter[w] = "looked" /\ waiter' = [waiter EXCEPT ![w] = "registering"]
           \/ waiter[w] = "registering" /\ waiter' = [waiter EXCEPT ![w] = "asleep"]
    BY <1>6 DEF LoopBus!CheckFlag, LoopBus!Register, LoopBus!Wake, LoopBus!TimedOut
  <2>2. {"done", "registering", "asleep"} \subseteq BusStates
    BY DEF BusStates
  <2>3. CASE waiter' = [waiter EXCEPT ![w] = "done"]
    BY <1>look, <2>1, <2>2, <2>3, WaiterGoesOn
  <2>4. CASE waiter[w] = "looked" /\ waiter' = [waiter EXCEPT ![w] = "registering"]
    BY <1>look, <2>1, <2>2, <2>4, WaiterGoesOn
  <2>5. CASE waiter[w] = "registering" /\ waiter' = [waiter EXCEPT ![w] = "asleep"]
    BY <1>look, <2>1, <2>2, <2>5, WaiterGoesOn
  <2> QED BY <2>1, <2>3, <2>4, <2>5
<1>7. ASSUME UNCHANGED busVars PROVE BusInv'
  BY <1>7 DEF busVars, BusInv, BusTypes, LookersWaitForADecision, LoopBus!NoLostWakeup
<1> QED BY <1>1, <1>2, <1>3, <1>4, <1>5, <1>6, <1>7 DEF LoopBus!Next

-----------------------------------------------------------------------------
(* Numbers for the elements of a finite set.                               *)

\* In a finite set some element has the least number.
LEMMA FiniteLeast ==
  ASSUME NEW S, IsFiniteSet(S), S # {}, NEW f \in [S -> Int]
  PROVE  \E x \in S : \A y \in S : f[x] <= f[y]
<1> DEFINE Below(x) == {y \in S : f[y] < f[x]}
           T == {Below(x) : x \in S}
           R == StrictSubsetOrdering(S)
<1>1. T \subseteq FiniteSubsetsOf(S) /\ T # {}
  <2>1. \A x \in S : Below(x) \in SUBSET S /\ IsFiniteSet(Below(x))
    BY FS_Subset
  <2>2. \A x \in S : Below(x) \in FiniteSubsetsOf(S)
    BY <2>1 DEF FiniteSubsetsOf
  <2> HIDE DEF Below
  <2> QED BY <2>2
<1>2. IsWellFoundedOn(R, FiniteSubsetsOf(S))
  BY FS_StrictSubsetOrderingWellFounded
<1> HIDE DEF T, R
<1>3. PICK B \in T : \A C \in T : <<C, B>> \notin R
  BY <1>1, <1>2, WFMin
<1>4. PICK x \in S : B = Below(x)
  BY <1>3 DEF T
<1>5. ASSUME NEW y \in S, f[y] < f[x] PROVE FALSE
  <2>1. Below(y) \subseteq Below(x) /\ y \in Below(x) /\ y \notin Below(y)
    BY <1>5
  <2>2. <<Below(y), Below(x)>> \in R
    <3>1. Below(y) \in SUBSET S /\ Below(x) \in SUBSET S /\ Below(y) # Below(x)
      BY <2>1
    <3> QED BY <2>1, <3>1 DEF R, StrictSubsetOrdering
  <2>3. Below(y) \in T
    BY DEF T
  <2> QED BY <1>3, <1>4, <2>2, <2>3
<1>6. \A y \in S : f[x] <= f[y]
  BY <1>5
<1> QED BY <1>6

\* And some has the greatest.
LEMMA FiniteGreatest ==
  ASSUME NEW S, IsFiniteSet(S), S # {}, NEW f \in [S -> Int]
  PROVE  \E x \in S : \A y \in S : f[x] >= f[y]
<1> DEFINE g == [x \in S |-> -f[x]]
<1>1. g \in [S -> Int]
  OBVIOUS
<1>2. PICK x \in S : \A y \in S : g[x] <= g[y]
  <2> HIDE DEF g
  <2> QED BY <1>1, FiniteLeast
<1>3. \A y \in S : f[x] >= f[y]
  BY <1>2
<1> QED BY <1>3
-----------------------------------------------------------------------------
(* What blocks of shared memory hold, while writes do not overlap: in      *)
(* front the latest text, whole unless its writer is still at it, behind   *)
(* it the rest of longer ones.  Whole(s, l, w, ts) says so of places s, the *)
(* latest text l and the text w that is half written, 0 if none.           *)
Whole(s, l, w, ts) ==
  /\ l.text \in 0..Len(ts) /\ \A i \in 1..Len(s) : s[i] <= Len(ts)
  /\ l.text = 0 => l.longest = 0 /\ w = 0 /\ \A i \in 1..Len(s) : s[i] = 0
  /\ l.text # 0 =>
       /\ ts[l.text] <= l.longest /\ l.longest <= Len(s) /\ s[1] = l.text /\ w \in {0, l.text}
       /\ \A i \in 2..Len(s) :
            /\ i > l.longest => s[i] = 0
            /\ i <= l.longest /\ i > ts[l.text] => s[i] # 0 /\ s[i] # l.text
            /\ w = 0 /\ i <= ts[l.text] => s[i] = l.text
Latest == [text : Nat, longest : Nat]

\* A longer list of texts changes nothing.
LEMMA WholeStays ==
  ASSUME NEW s \in Seq(Nat), NEW l \in Latest, NEW w \in Nat, NEW ts \in Seq(1..2), NEW len \in 1..2,
         Whole(s, l, w, ts)
  PROVE  Whole(s, l, w, Append(ts, len))
<1>1. PICK t \in Nat, g \in Nat : l.text = t /\ l.longest = g
  BY DEF Latest
<1> DEFINE us == Append(ts, len)
<1>2. us \in Seq(1..2) /\ Len(us) = Len(ts) + 1 /\ \A i \in 1..Len(ts) : us[i] = ts[i]
  OBVIOUS
<1> HIDE DEF us
<1>3. Whole(s, l, w, us)
  BY <1>1, <1>2 DEF Whole
<1> QED BY <1>3 DEF us

\* A write begins in a block that is whole.
LEMMA WholeBegins ==
  ASSUME NEW s \in Seq(Nat), NEW l \in Latest, NEW ts \in Seq(1..2), NEW len \in 1..2,
         len <= Len(s), Whole(s, l, 0, ts),
         NEW r \in Seq(Nat), Len(r) = Len(s), r[1] = Len(ts) + 1, \A i \in 2..Len(s) : r[i] = s[i],
         NEW k \in Latest, k.text = Len(ts) + 1, k.longest = IF l.longest >= len THEN l.longest ELSE len
  PROVE  Whole(r, k, Len(ts) + 1, Append(ts, len))
<1>1. PICK t \in Nat, g \in Nat : l.text = t /\ l.longest = g
  BY DEF Latest
<1>2. PICK h \in Nat : k.longest = h /\ h = IF g >= len THEN g ELSE len
  BY <1>1 DEF Latest
<1>3. PICK n \in Nat : n = Len(ts)
  OBVIOUS
<1>4. PICK m \in Nat : m = Len(s) /\ \A i \in 1..m : s[i] \in Nat /\ r[i] \in Nat
  BY SMTT(60)
<1> DEFINE us == Append(ts, len)
<1>5. us \in Seq(1..2) /\ Len(us) = n + 1 /\ us[n + 1] = len /\ \A i \in 1..n : us[i] = ts[i]
  BY <1>3
<1> HIDE DEF us
<1>6. t \in 0..n /\ (t # 0 => ts[t] \in 1..2 /\ ts[t] <= g /\ g <= m) /\ (t = 0 => g = 0)
  BY <1>1, <1>3, <1>4 DEF Whole
<1>7. \A i \in 2..m : r[i] = s[i] /\ s[i] <= n /\ (i > g => s[i] = 0) /\ (i <= g => s[i] # 0)
  BY SMTT(60), <1>1, <1>3, <1>4, <1>6 DEF Whole
<1>8. k.text = n + 1 /\ us[k.text] = len /\ len <= h /\ h <= m /\ r[1] = n + 1
  BY <1>2, <1>3, <1>4, <1>5, <1>6
<1>9. \A i \in 1..m : r[i] <= n + 1
  BY SMTT(60), <1>4, <1>7, <1>8
<1>10. \A i \in 2..m : /\ i > h => r[i] = 0
                       /\ i <= h /\ i > len => r[i] # 0 /\ r[i] # n + 1
  <2> SUFFICES ASSUME NEW i \in 2..m
               PROVE  /\ i > h => r[i] = 0
                      /\ i <= h /\ i > len => r[i] # 0 /\ r[i] # n + 1
    OBVIOUS
  <2>1. r[i] \in Nat /\ r[i] <= n /\ (i > g => r[i] = 0) /\ (i <= g => r[i] # 0)
    BY <1>4, <1>7
  <2>2. h = IF g >= len THEN g ELSE len
    BY <1>2
  <2>3. i > h => i > g
    BY <2>2
  <2>4. i <= h /\ i > len => i <= g
    BY <2>2
  <2> QED BY <1>3, <2>1, <2>3, <2>4
<1>11. Whole(r, k, n + 1, us)
  BY SMTT(60), <1>2, <1>4, <1>5, <1>8, <1>9, <1>10 DEF Whole
<1> QED BY <1>3, <1>11 DEF us

\* A write ends in a block where no other is under way.
LEMMA WholeEnds ==
  ASSUME NEW s \in Seq(Nat), NEW l \in Latest, NEW w \in Nat \ {0}, NEW ts \in Seq(1..2), Whole(s, l, w, ts),
         NEW r \in Seq(Nat), Len(r) = Len(s), \A i \in 1..Len(s) : r[i] = IF i \in 2..ts[w] THEN w ELSE s[i]
  PROVE  Whole(r, l, 0, ts)
<1>1. PICK t \in Nat, g \in Nat : l.text = t /\ l.longest = g
  BY DEF Latest
<1>2. PICK n \in Nat : n = Len(ts)
  OBVIOUS
<1>0. PICK m \in Nat : m = Len(s) /\ m = Len(r)
  OBVIOUS
<1>3. m = Len(s) /\ \A i \in 1..m : s[i] \in Nat /\ r[i] \in Nat
  <2>1. \A i \in 1..Len(s) : s[i] \in Nat
    OBVIOUS
  <2>2. \A i \in 1..Len(r) : r[i] \in Nat
    OBVIOUS
  <2> QED BY <1>0, <2>1, <2>2
<1>4. t # 0 /\ w = t /\ t \in 1..n
  BY <1>1, <1>2 DEF Whole
<1>5. PICK x \in 1..2 : x = ts[t]
  BY <1>2, <1>4
<1>6. x <= g /\ g <= m /\ s[1] = t
  BY <1>1, <1>3, <1>4, <1>5 DEF Whole
<1>7. \A i \in 1..m : s[i] <= n /\ r[i] = IF i \in 2..x THEN t ELSE s[i]
  BY <1>2, <1>3, <1>4, <1>5 DEF Whole
<1>8. \A i \in 2..m : (i > g => s[i] = 0) /\ (i <= g /\ i > x => s[i] # 0 /\ s[i] # t)
  BY <1>1, <1>3, <1>4, <1>5 DEF Whole
<1>9. r[1] = t /\ \A i \in 1..m : r[i] <= n
  BY SMTT(60), <1>3, <1>4, <1>6, <1>7
<1>10. \A i \in 2..m : (i > g => r[i] = 0) /\ (i <= g /\ i > x => r[i] # 0 /\ r[i] # t) /\ (i <= x => r[i] = t)
  BY SMTT(60), <1>3, <1>6, <1>7, <1>8
<1> QED BY <1>1, <1>2, <1>3, <1>4, <1>5, <1>6, <1>9, <1>10 DEF Whole

\* The greater of two numbers.
LEMMA GreaterOfTwo ==
  ASSUME NEW a \in Nat, NEW b \in Nat
  PROVE  Local!Max({a, b}) = IF a >= b THEN a ELSE b
<1>1. \E x \in {a, b} : \A y \in {a, b} : x >= y
  <2>1. CASE a >= b
    BY <2>1
  <2>2. CASE ~(a >= b)
    BY <2>2
  <2> QED BY <2>1, <2>2
<1>2. Local!Max({a, b}) \in {a, b} /\ \A y \in {a, b} : Local!Max({a, b}) >= y
  BY <1>1 DEF Local!Max
<1> QED BY <1>2

\* Reading a block in which no write is under way.
LEMMA WholeReads ==
  ASSUME NEW b, NEW n \in Nat, blocks[b] \in Seq(Nat), latest[b] \in Latest, texts \in Seq(1..2),
         Whole(blocks[b], latest[b], 0, texts)
  PROVE  Local!Read(b) = IF latest[b].text # 0 /\ texts[latest[b].text] = latest[b].longest THEN latest[b].text
      ELSE 0
<1>1. PICK t \in Nat, g \in Nat : latest[b].text = t /\ latest[b].longest = g
  BY DEF Latest
<1>2. PICK s \in Seq(Nat) : s = blocks[b]
  OBVIOUS
<1>3. PICK m \in Nat : m = Len(s) /\ DOMAIN s = 1..m /\ \A i \in 1..m : s[i] \in Nat
  BY SMTT(60)
<1>4. Local!Filled(b) = {i \in 1..m : s[i] # 0}
  BY <1>2, <1>3 DEF Local!Filled
<1>5. \A x \in DOMAIN texts : texts[x] \in 1..2
  OBVIOUS
<1>6. CASE t = 0
  <2>1. Local!Filled(b) = {}
    BY <1>1, <1>2, <1>3, <1>4, <1>6 DEF Whole
  <2>2. \A x \in DOMAIN texts : 1 \in 1..texts[x]
    <3> SUFFICES ASSUME NEW x \in DOMAIN texts PROVE 1 \in 1..texts[x]
      OBVIOUS
    <3>1. PICK y \in 1..2 : y = texts[x]
      BY <1>5
    <3>2. 1 \in 1..y
      OBVIOUS
    <3> QED BY <3>1, <3>2
  <2>3. ~ \E x \in DOMAIN texts : Local!Filled(b) = 1..texts[x] /\ \A i \in Local!Filled(b) : blocks[b][i] = x
    BY <2>1, <2>2
  <2> QED BY <1>1, <1>6, <2>3 DEF Local!Read
<1>7. CASE t # 0
  <2>1. t \in DOMAIN texts /\ t \in 1..Len(texts)
    BY <1>1, <1>7 DEF Whole
  <2>2. PICK x \in 1..2 : x = texts[t]
    BY <1>5, <2>1
  <2>3. x <= g /\ g <= m /\ s[1] = t
    BY <1>1, <1>2, <1>3, <1>7, <2>2 DEF Whole
  <2>4. \A i \in 2..m : (i > g => s[i] = 0) /\ (i <= g /\ i > x => s[i] # 0 /\ s[i] # t) /\ (i <= x => s[i] = t)
    BY <1>1, <1>2, <1>3, <1>7, <2>2 DEF Whole
  <2>5. Local!Filled(b) = 1..g
    <3>1. \A i \in 1..m : s[i] # 0 <=> i <= g
      BY <1>3, <1>7, <2>2, <2>3, <2>4
    <3> QED BY <1>4, <2>3, <3>1
  <2>6. CASE x = g
    <3>1. \A i \in 1..g : s[i] = t
      BY <1>3, <2>3, <2>4, <2>6
    <3>2. \E y \in DOMAIN texts : Local!Filled(b) = 1..texts[y] /\ \A i \in Local!Filled(b) : blocks[b][i] = y
      BY <1>2, <2>1, <2>2, <2>5, <2>6, <3>1
    <3> QED BY <1>1, <1>2, <1>7, <2>2, <2>3, <2>6, <3>2 DEF Local!Read
  <2>7. CASE x # g
    <3>1. g \in 2..m /\ s[g] # t /\ 1 \in Local!Filled(b) /\ g \in Local!Filled(b)
      BY <2>2, <2>3, <2>4, <2>5, <2>7
    <3>2. ~ \E y \in DOMAIN texts : Local!Filled(b) = 1..texts[y] /\ \A i \in Local!Filled(b) : blocks[b][i] = y
      BY <1>2, <2>3, <3>1
    <3> QED BY <1>1, <1>7, <2>2, <2>7, <3>2 DEF Local!Read
  <2> QED BY <2>6, <2>7
<1> QED BY <1>6, <1>7

\* Who writes to a block, and which blocks are made.
WritesTo(p, b) == writing[p] # 0 /\ mapped[p] = b
Made(b) == blocks[b] # << >>
MadeInOrder == \E k \in 0..MaxBlocks : \A b \in 1..MaxBlocks : Made(b) <=> b <= k
MadeIfUsed ==
  /\ named # 0 => Made(named)
  /\ \A p \in Processes : (mapped[p] # 0 => Made(mapped[p])) /\ (writing[p] # 0 => mapped[p] # 0)
ShmTyped ==
  /\ blocks \in [1..MaxBlocks -> Seq(Nat)] /\ texts \in Seq(1..2) /\ latest \in [1..MaxBlocks -> Latest]
  /\ writing \in [Processes -> Nat] /\ mapped \in [Processes -> 0..MaxBlocks] /\ named \in 0..MaxBlocks
  /\ MadeInOrder /\ MadeIfUsed
ShmWhole ==
  \A b \in (1..MaxBlocks) \ torn :
    /\ \A p, q \in Processes : WritesTo(p, b) /\ WritesTo(q, b) => p = q
    /\ (\A p \in Processes : ~WritesTo(p, b)) => Whole(blocks[b], latest[b], 0, texts)
    /\ \A p \in Processes : WritesTo(p, b) => Whole(blocks[b], latest[b], writing[p], texts)
ShmInv == ShmTyped /\ ShmWhole

\* No block is made at the start.
LEMMA ShmStarts == Local!Init => ShmInv
<1> USE MachineAssumption
<1> SUFFICES ASSUME Local!Init PROVE ShmInv
  OBVIOUS
<1>10. PICK zero : zero = [text |-> 0, longest |-> 0]
  OBVIOUS
<1>1. zero \in Latest /\ zero = [text |-> 0, longest |-> 0] /\ zero.text = 0 /\ zero.longest = 0
  BY <1>10 DEF Latest
<1>2. /\ named = 0 /\ blocks = [b \in 1..MaxBlocks |-> << >>] /\ texts = << >> /\ torn = {}
      /\ latest = [b \in 1..MaxBlocks |-> zero] /\ mapped = [p \in Processes |-> 0]
          /\ writing = [p \in Processes |-> 0]
  BY <1>1 DEF Local!Init
<1>3. << >> \in Seq(Nat) /\ << >> \in Seq(1..2) /\ Len(<< >>) = 0
  OBVIOUS
<1>4. \A b \in 1..MaxBlocks : ~Made(b)
  BY <1>2 DEF Made
<1>5. MadeInOrder
  <2>1. 0 \in 0..MaxBlocks /\ \A b \in 1..MaxBlocks : Made(b) <=> b <= 0
    BY <1>4
  <2> QED BY <2>1 DEF MadeInOrder
<1>11. MadeIfUsed
  BY <1>2 DEF MadeIfUsed
<1>12. /\ texts \in Seq(1..2) /\ named \in 0..MaxBlocks
       /\ writing \in [Processes -> Nat] /\ mapped \in [Processes -> 0..MaxBlocks]
  BY <1>2, <1>3
<1>6. blocks \in [1..MaxBlocks -> Seq(Nat)] /\ latest \in [1..MaxBlocks -> Latest]
  BY <1>1, <1>2, <1>3
<1>7. ShmTyped
  BY <1>5, <1>6, <1>11, <1>12 DEF ShmTyped
<1>8. Whole(<< >>, zero, 0, << >>)
  BY <1>1, <1>3 DEF Whole
<1>9. ShmWhole
  BY <1>2, <1>8 DEF ShmWhole, WritesTo
<1> QED BY <1>7, <1>9 DEF ShmInv

\* A block is made where none is, under the next number.
LEMMA BlockMade ==
  ASSUME ShmTyped, NEW size \in 1..2, Local!Block(size)
  PROVE  /\ blocks' \in [1..MaxBlocks -> Seq(Nat)] /\ named' \in 1..MaxBlocks /\ blocks'[named'] # << >>
         /\ MadeInOrder'
         /\ \A b \in 1..MaxBlocks : blocks[b] # << >> => blocks'[b] # << >>
         /\ \A b \in 1..MaxBlocks :
              \/ blocks'[b] = blocks[b]
              \/ ~Made(b) /\ \A i \in 1..Len(blocks'[b]) : blocks'[b][i] = 0
<1> USE MachineAssumption
<1>1. CASE named # 0
  <2>1. blocks' = blocks /\ named' = named
    BY <1>1 DEF Local!Block
  <2>2. blocks \in [1..MaxBlocks -> Seq(Nat)] /\ named \in 1..MaxBlocks /\ MadeInOrder /\ blocks[named] # << >>
    BY <1>1 DEF ShmTyped, MadeIfUsed, Made
  <2>3. MadeInOrder'
    BY <2>1, <2>2 DEF MadeInOrder, Made
  <2> QED BY <2>1, <2>2, <2>3
<1>2. CASE named = 0
  <2>1. PICK k \in 0..MaxBlocks : \A b \in 1..MaxBlocks : Made(b) <=> b <= k
    BY DEF ShmTyped, MadeInOrder
  <2>2. Local!Made = 1..k
    BY <2>1 DEF Local!Made, Made, ShmTyped
  <2>3. \A S : Local!Cardinality(S) = Cardinality(S)
    BY DEF Local!Cardinality, Cardinality
  <2>4. Cardinality(1..k) = k
    BY FS_Interval
  <2>5. Local!Cardinality(Local!Made) = k
    BY <2>2, <2>3, <2>4
  <2>6. k < MaxBlocks /\ named' = k + 1 /\ blocks' = [blocks EXCEPT ![k + 1] = [i \in 1..size |-> 0]]
    BY <1>2, <2>5 DEF Local!Block
  <2>7. PICK new \in Seq(Nat) : new = [i \in 1..size |-> 0] /\ Len(new) = size /\ new # << >>
            /\ \A i \in 1..size : new[i] = 0
    <3>1. [i \in 1..size |-> 0] \in Seq(Nat) /\ Len([i \in 1..size |-> 0]) = size
      OBVIOUS
    <3>2. [i \in 1..size |-> 0] # << >>
      BY <3>1
    <3> QED BY <3>1, <3>2
  <2>8. /\ blocks' \in [1..MaxBlocks -> Seq(Nat)] /\ blocks'[k + 1] = new
        /\ \A b \in 1..MaxBlocks : b # k + 1 => blocks'[b] = blocks[b]
    BY <2>6, <2>7 DEF ShmTyped
  <2>9. \A b \in 1..MaxBlocks : blocks'[b] # << >> <=> b <= k + 1
    <3> SUFFICES ASSUME NEW b \in 1..MaxBlocks PROVE blocks'[b] # << >> <=> b <= k + 1
      OBVIOUS
    <3>1. CASE b = k + 1
      BY <2>7, <2>8, <3>1
    <3>2. CASE b # k + 1
      <4>1. blocks[b] # << >> <=> b <= k
        BY <2>1 DEF Made
      <4>2. b <= k <=> b <= k + 1
        BY <3>2
      <4>3. blocks'[b] = blocks[b]
        BY <2>8, <3>2
      <4> QED BY <4>1, <4>2, <4>3
    <3> QED BY <3>1, <3>2
  <2>10. MadeInOrder'
    <3>1. PICK j \in 0..MaxBlocks : j = k + 1
      BY <2>6
    <3> QED BY <2>9, <3>1 DEF MadeInOrder, Made
  <2>11. named' \in 1..MaxBlocks /\ blocks'[named'] # << >>
    <3>1. named' = k + 1 /\ k + 1 \in 1..MaxBlocks
      BY <2>6
    <3> QED BY <2>7, <2>8, <3>1
  <2>12. ~Made(k + 1) /\ k + 1 \in 1..MaxBlocks
    BY <2>1, <2>6
  <2>13. \A b \in 1..MaxBlocks : blocks[b] # << >> => blocks'[b] # << >>
    BY <2>8, <2>12 DEF Made
  <2> QED BY <2>7, <2>8, <2>10, <2>11, <2>12, <2>13
<1> QED BY <1>1, <1>2

\* The blocks that are made stay so.
LEMMA StillMade ==
  ASSUME MadeInOrder, \A b \in 1..MaxBlocks : blocks'[b] # << >> <=> blocks[b] # << >>
  PROVE  MadeInOrder'
BY DEF MadeInOrder, Made

\* Steps that neither write nor take a writer's block away.
LEMMA NothingWritten ==
  ASSUME ShmInv, ShmTyped', UNCHANGED <<writing, texts, latest, torn>>,
         \A p \in Processes : writing[p] # 0 => mapped'[p] = mapped[p],
         \A b \in 1..MaxBlocks :
           \/ blocks'[b] = blocks[b]
           \/ ~Made(b) /\ \A i \in 1..Len(blocks'[b]) : blocks'[b][i] = 0
  PROVE  ShmInv'
<1>1. \A p \in Processes, b \in 1..MaxBlocks : WritesTo(p, b)' <=> WritesTo(p, b)
  BY DEF WritesTo
<1>2. ASSUME NEW b \in (1..MaxBlocks) \ torn
      PROVE  /\ \A p, q \in Processes : WritesTo(p, b)' /\ WritesTo(q, b)' => p = q
             /\ (\A p \in Processes : ~WritesTo(p, b)') => Whole(blocks'[b], latest'[b], 0, texts')
             /\ \A p \in Processes : WritesTo(p, b)' => Whole(blocks'[b], latest'[b], writing'[p], texts')
  <2>1. CASE blocks'[b] = blocks[b]
    BY <1>1, <2>1 DEF ShmInv, ShmWhole
  <2>2. CASE blocks'[b] # blocks[b]
    <3>1. ~Made(b) /\ \A i \in 1..Len(blocks'[b]) : blocks'[b][i] = 0
      BY <2>2
    <3>2. \A p \in Processes : ~WritesTo(p, b) /\ ~WritesTo(p, b)'
      BY <1>1, <3>1 DEF ShmInv, ShmTyped, MadeIfUsed, WritesTo
    <3>3. Whole(blocks[b], latest[b], 0, texts) /\ Len(blocks[b]) = 0
      BY <3>1, <3>2 DEF ShmInv, ShmWhole, Made
    <3>4. latest[b] \in Latest /\ texts \in Seq(1..2)
      BY DEF ShmInv, ShmTyped
    <3>5. PICK t \in Nat, g \in Nat : latest[b].text = t /\ latest[b].longest = g
      BY <3>4 DEF Latest
    <3>6. t = 0 /\ g = 0
      <4>1. ASSUME t # 0 PROVE FALSE
        <5>1. t \in 1..Len(texts) /\ texts[t] <= g /\ g <= 0
          BY <3>3, <3>5, <4>1 DEF Whole
        <5>2. texts[t] \in 1..2
          BY <3>4, <5>1
        <5> QED BY <5>1, <5>2
      <4> QED BY <3>3, <3>5, <4>1 DEF Whole
    <3>7. Whole(blocks'[b], latest[b], 0, texts)
      BY <3>1, <3>4, <3>5, <3>6 DEF Whole
    <3> QED BY <3>2, <3>7
  <2> QED BY <2>1, <2>2
<1>3. ShmWhole'
  BY <1>2 DEF ShmWhole
<1> QED BY <1>3 DEF ShmInv

\* A write begins.
LEMMA ShmWriteBegins ==
  ASSUME ShmInv, NEW p \in Processes, NEW len \in 1..2, Local!WriteBegins(p, len)
  PROVE  ShmInv'
<1> USE MachineAssumption
<1>0. ShmTyped /\ ShmWhole
  BY DEF ShmInv
<1>1. PICK b \in 1..MaxBlocks : b = mapped[p] /\ Made(b)
  BY <1>0 DEF Local!WriteBegins, ShmTyped, MadeIfUsed
<1>2. PICK n \in Nat : n = Len(texts)
  BY <1>0 DEF ShmTyped
<1>3. /\ texts' \in Seq(1..2) /\ texts' = Append(texts, len) /\ Len(texts') = n + 1
      /\ \A i \in 1..n : texts'[i] = texts[i]
  <2> DEFINE u == Append(texts, len)
  <2>1. u \in Seq(1..2) /\ Len(u) = n + 1 /\ \A i \in 1..n : u[i] = texts[i]
    BY <1>0, <1>2 DEF ShmTyped
  <2>2. texts' = u
    BY DEF Local!WriteBegins
  <2> HIDE DEF u
  <2>3. texts' \in Seq(1..2) /\ Len(texts') = n + 1 /\ \A i \in 1..n : texts'[i] = texts[i]
    BY <2>1, <2>2
  <2> QED BY <2>2, <2>3 DEF u
<1>4. writing[p] = 0 /\ writing' \in [Processes -> Nat] /\ writing'[p] = n + 1
          /\ \A q \in Processes \ {p} : writing'[q] = writing[q]
  BY <1>0, <1>3 DEF Local!WriteBegins, ShmTyped
<1>5. len <= Len(blocks[b]) /\ blocks[b] \in Seq(Nat)
  BY <1>0, <1>1 DEF Local!WriteBegins, ShmTyped
<1>6. /\ blocks' \in [1..MaxBlocks -> Seq(Nat)] /\ Len(blocks'[b]) = Len(blocks[b]) /\ blocks'[b][1] = n + 1
      /\ \A i \in 2..Len(blocks[b]) : blocks'[b][i] = blocks[b][i]
      /\ \A c \in 1..MaxBlocks : c # b => blocks'[c] = blocks[c]
  <2>1. blocks' = [blocks EXCEPT ![b] = [blocks[b] EXCEPT ![1] = n + 1]]
    BY <1>1, <1>3 DEF Local!WriteBegins
  <2>2. PICK r : r = [blocks[b] EXCEPT ![1] = n + 1]
    OBVIOUS
  <2>3. PICK s \in Seq(Nat) : s = blocks[b] /\ Len(s) >= 1
    BY <1>5
  <2>4. r \in Seq(Nat) /\ Len(r) = Len(s) /\ r[1] = n + 1 /\ \A i \in 2..Len(s) : r[i] = s[i]
    BY <2>2, <2>3
  <2>5. blocks' = [blocks EXCEPT ![b] = r]
    BY <2>1, <2>2
  <2> QED BY <1>0, <2>3, <2>4, <2>5 DEF ShmTyped
<1>7. latest[b] \in Latest
  BY <1>0 DEF ShmTyped
<1>8. PICK g \in Nat : g = latest[b].longest
  BY <1>7 DEF Latest
<1>18. PICK h \in Nat : h = IF g >= len THEN g ELSE len
  OBVIOUS
<1>19. PICK new : new = [text |-> n + 1, longest |-> h]
  OBVIOUS
<1>9. new \in Latest /\ new.text = n + 1 /\ new.longest = IF g >= len THEN g ELSE len
  BY <1>18, <1>19 DEF Latest
<1>10. /\ latest' \in [1..MaxBlocks -> Latest] /\ latest'[b] = new
       /\ \A c \in 1..MaxBlocks : c # b => latest'[c] = latest[c]
  <2>1. latest' = [latest EXCEPT ![b] = new]
    <3>1. h = Local!Max({g, len})
      BY <1>18, GreaterOfTwo
    <3>2. latest' = [latest EXCEPT ![b] = [text |-> n + 1, longest |-> Local!Max({latest[b].longest, len})]]
      BY <1>1, <1>3 DEF Local!WriteBegins
    <3> QED BY <1>8, <1>19, <3>1, <3>2
  <2> QED BY <1>0, <1>9, <2>1 DEF ShmTyped
<1>11. named' = named /\ mapped' = mapped
  BY DEF Local!WriteBegins
<1>12. \A c \in 1..MaxBlocks : blocks'[c] # << >> <=> blocks[c] # << >>
  <2>1. blocks[b] # << >> /\ blocks'[b] # << >>
    BY <1>5, <1>6
  <2> QED BY <1>6, <2>1
<1>13. ShmTyped'
  <2>1. MadeInOrder'
    BY <1>0, <1>12, StillMade DEF ShmTyped
  <2>2. MadeIfUsed'
    BY SMTT(60), <1>0, <1>1, <1>4, <1>11, <1>12 DEF ShmTyped, MadeIfUsed, Made
  <2> QED BY <1>0, <1>3, <1>4, <1>6, <1>10, <1>11, <2>1, <2>2 DEF ShmTyped
<1>14. \A c \in torn : c \in torn'
  BY DEF Local!WriteBegins
<1>15. b \notin torn' => \A q \in Processes : ~WritesTo(q, b)
  BY <1>0, <1>1 DEF Local!WriteBegins, WritesTo, ShmTyped, MadeIfUsed
<1>16. ASSUME NEW c \in (1..MaxBlocks) \ torn'
       PROVE  /\ \A q, r \in Processes : WritesTo(q, c)' /\ WritesTo(r, c)' => q = r
              /\ (\A q \in Processes : ~WritesTo(q, c)') => Whole(blocks'[c], latest'[c], 0, texts')
              /\ \A q \in Processes : WritesTo(q, c)' => Whole(blocks'[c], latest'[c], writing'[q], texts')
  <2>1. CASE c = b
    <3>1. \A q \in Processes : WritesTo(q, b)' <=> q = p
      BY <1>1, <1>4, <1>11, <1>15, <2>1 DEF WritesTo
    <3>2. Whole(blocks[b], latest[b], 0, texts)
      BY <1>0, <1>14, <1>15, <2>1 DEF ShmWhole
    <3>3. Whole(blocks'[b], latest'[b], n + 1, texts')
      <4>1. texts \in Seq(1..2) /\ blocks'[b] \in Seq(Nat)
        BY <1>0, <1>6 DEF ShmTyped
      <4>2. Whole(blocks'[b], latest'[b], Len(texts) + 1, Append(texts, len))
        BY <1>2, <1>5, <1>6, <1>7, <1>8, <1>9, <1>10, <3>2, <4>1, WholeBegins
      <4> QED BY <1>2, <1>3, <4>2
    <3> QED BY <1>4, <2>1, <3>1, <3>3
  <2>2. CASE c # b
    <3>1. \A q \in Processes : WritesTo(q, c)' <=> WritesTo(q, c)
      BY <1>1, <1>4, <1>11, <2>2 DEF WritesTo
    <3>2. \A q \in Processes : WritesTo(q, c) => writing'[q] = writing[q]
      BY <1>1, <1>4, <2>2 DEF WritesTo
    <3>3. blocks'[c] = blocks[c] /\ latest'[c] = latest[c] /\ blocks[c] \in Seq(Nat) /\ latest[c] \in Latest
              /\ texts \in Seq(1..2)
      BY <1>0, <1>6, <1>10, <2>2 DEF ShmTyped
    <3>4. \A w \in Nat : Whole(blocks[c], latest[c], w, texts) => Whole(blocks'[c], latest'[c], w, texts')
      BY <1>3, <3>3, WholeStays
    <3>5. c \in (1..MaxBlocks) \ torn
      BY <1>14
    <3>6. \A q \in Processes : writing[q] \in Nat
      BY <1>0 DEF ShmTyped
    <3> QED BY <1>0, <3>1, <3>2, <3>4, <3>5, <3>6 DEF ShmWhole
  <2> QED BY <2>1, <2>2
<1>17. ShmWhole'
  BY <1>16 DEF ShmWhole
<1> QED BY <1>13, <1>17 DEF ShmInv

\* A write ends.
LEMMA ShmWriteEnds ==
  ASSUME ShmInv, NEW p \in Processes, Local!WriteEnds(p)
  PROVE  ShmInv'
<1> USE MachineAssumption
<1>0. ShmTyped /\ ShmWhole
  BY DEF ShmInv
<1>1. PICK w \in Nat \ {0} : w = writing[p]
  BY <1>0 DEF Local!WriteEnds, ShmTyped
<1>2. PICK b \in 1..MaxBlocks : b = mapped[p] /\ Made(b)
  BY <1>0, <1>1 DEF ShmTyped, MadeIfUsed
<1>3. UNCHANGED <<named, mapped, texts, latest, torn>>
  BY DEF Local!WriteEnds
<1>4. writing' \in [Processes -> Nat] /\ writing'[p] = 0 /\ \A q \in Processes \ {p} : writing'[q] = writing[q]
  BY <1>0 DEF Local!WriteEnds, ShmTyped
<1>5. blocks[b] \in Seq(Nat)
  BY <1>0 DEF ShmTyped
<1>6. PICK m \in Nat : m = Len(blocks[b]) /\ DOMAIN blocks[b] = 1..m /\ m # 0
  BY <1>2, <1>5 DEF Made
<1>7. PICK r \in Seq(Nat) : /\ Len(r) = m /\ r # << >>
                            /\ \A i \in 1..m : r[i] = IF i \in 2..texts[w] THEN w ELSE blocks[b][i]
                            /\ blocks' = [blocks EXCEPT ![b] = r]
  <2> DEFINE r == [i \in 1..m |-> IF i \in 2..texts[w] THEN w ELSE blocks[b][i]]
  <2>1. \A i \in 1..m : blocks[b][i] \in Nat
    BY <1>5, <1>6
  <2>2. r \in Seq(Nat) /\ Len(r) = m /\ \A i \in 1..m : r[i] = IF i \in 2..texts[w] THEN w ELSE blocks[b][i]
    BY <2>1
  <2>3. blocks' = [blocks EXCEPT ![b] = r]
    BY <1>1, <1>2, <1>6 DEF Local!WriteEnds
  <2> HIDE DEF r
  <2>4. r # << >>
    BY <1>6, <2>2
  <2> QED BY <2>2, <2>3, <2>4
<1>8. blocks' \in [1..MaxBlocks -> Seq(Nat)] /\ blocks'[b] = r /\ \A c \in 1..MaxBlocks : c # b
          => blocks'[c] = blocks[c]
  BY <1>0, <1>7 DEF ShmTyped
<1>9. \A c \in 1..MaxBlocks : blocks'[c] # << >> <=> blocks[c] # << >>
  BY <1>2, <1>7, <1>8 DEF Made
<1>10. ShmTyped'
  <2>1. MadeInOrder'
    BY <1>0, <1>9, StillMade DEF ShmTyped
  <2>2. MadeIfUsed'
    <3>1. (\A q \in Processes : mapped[q] # 0 => mapped[q] \in 1..MaxBlocks)
              /\ (named # 0 => named \in 1..MaxBlocks)
      BY <1>0 DEF ShmTyped
    <3>2. \A q \in Processes : writing'[q] # 0 => writing[q] # 0
      BY <1>4
    <3> QED BY <1>0, <1>3, <1>9, <3>1, <3>2 DEF ShmTyped, MadeIfUsed, Made
  <2> QED BY <1>0, <1>3, <1>4, <1>8, <2>1, <2>2 DEF ShmTyped
<1>11. ASSUME NEW c \in (1..MaxBlocks) \ torn
       PROVE  /\ \A q, u \in Processes : WritesTo(q, c)' /\ WritesTo(u, c)' => q = u
              /\ (\A q \in Processes : ~WritesTo(q, c)') => Whole(blocks'[c], latest'[c], 0, texts')
              /\ \A q \in Processes : WritesTo(q, c)' => Whole(blocks'[c], latest'[c], writing'[q], texts')
  <2>1. CASE c = b
    <3>1. WritesTo(p, b)
      BY <1>1, <1>2 DEF WritesTo
    <3>2. \A q \in Processes : ~WritesTo(q, b)'
      BY <1>0, <1>3, <1>4, <2>1, <3>1 DEF ShmWhole, WritesTo
    <3>3. Whole(blocks[b], latest[b], w, texts)
      BY <1>0, <1>1, <2>1, <3>1 DEF ShmWhole
    <3>4. latest[b] \in Latest /\ texts \in Seq(1..2)
      BY <1>0 DEF ShmTyped
    <3>5. Whole(r, latest[b], 0, texts)
      BY <1>5, <1>6, <1>7, <3>3, <3>4, WholeEnds
    <3> QED BY <1>3, <1>8, <2>1, <3>2, <3>5
  <2>2. CASE c # b
    <3>1. \A q \in Processes : WritesTo(q, c)' <=> WritesTo(q, c)
      BY <1>2, <1>3, <1>4, <2>2 DEF WritesTo
    <3>2. \A q \in Processes : WritesTo(q, c) => writing'[q] = writing[q]
      BY <1>2, <1>4, <2>2 DEF WritesTo
    <3> QED BY <1>0, <1>3, <1>8, <2>2, <3>1, <3>2 DEF ShmWhole
  <2> QED BY <2>1, <2>2
<1>12. ShmWhole'
  BY <1>3, <1>11 DEF ShmWhole
<1> QED BY <1>10, <1>12 DEF ShmInv

\* Every step of the block's users keeps it.
LEMMA ShmStep ==
  ASSUME ShmInv, Local!BlockNext
  PROVE  ShmInv'
<1> USE MachineAssumption
<1>0. ShmTyped
  BY DEF ShmInv
<1>1. ASSUME NEW p \in Processes, NEW n \in 1..2, Local!Allocate(p, n) PROVE ShmInv'
  <2>1. Local!Block(n) /\ UNCHANGED <<mapped, writing, texts, latest, torn>>
    BY <1>1 DEF Local!Allocate
  <2>2. /\ blocks' \in [1..MaxBlocks -> Seq(Nat)] /\ named' \in 1..MaxBlocks /\ blocks'[named'] # << >>
        /\ MadeInOrder'
        /\ \A b \in 1..MaxBlocks : blocks[b] # << >> => blocks'[b] # << >>
        /\ \A b \in 1..MaxBlocks :
             \/ blocks'[b] = blocks[b]
             \/ ~Made(b) /\ \A i \in 1..Len(blocks'[b]) : blocks'[b][i] = 0
    BY <1>0, <2>1, BlockMade
  <2>3. MadeIfUsed'
    BY SMTT(60), <1>0, <2>1, <2>2 DEF ShmTyped, MadeIfUsed, Made
  <2>4. ShmTyped'
    BY <1>0, <2>1, <2>2, <2>3 DEF ShmTyped
  <2> QED BY <2>1, <2>2, <2>4, NothingWritten
<1>2. ASSUME NEW p \in Processes, NEW n \in 1..2, Local!AllocateBuffer(p, n) PROVE ShmInv'
  <2>1. Local!Block(n) /\ writing[p] = 0 /\ mapped' = [mapped EXCEPT ![p] = named']
            /\ UNCHANGED <<writing, texts, latest, torn>>
    BY <1>2 DEF Local!AllocateBuffer
  <2>2. /\ blocks' \in [1..MaxBlocks -> Seq(Nat)] /\ named' \in 1..MaxBlocks /\ blocks'[named'] # << >>
        /\ MadeInOrder'
        /\ \A b \in 1..MaxBlocks : blocks[b] # << >> => blocks'[b] # << >>
        /\ \A b \in 1..MaxBlocks :
             \/ blocks'[b] = blocks[b]
             \/ ~Made(b) /\ \A i \in 1..Len(blocks'[b]) : blocks'[b][i] = 0
    BY <1>0, <2>1, BlockMade
  <2>4. mapped' \in [Processes -> 0..MaxBlocks] /\ mapped'[p] = named'
            /\ \A q \in Processes \ {p} : mapped'[q] = mapped[q]
    BY <1>0, <2>1, <2>2 DEF ShmTyped
  <2>3. MadeIfUsed'
    BY <1>0, <2>1, <2>2, <2>4 DEF ShmTyped, MadeIfUsed, Made
  <2>5. ShmTyped'
    BY <1>0, <2>1, <2>2, <2>3, <2>4 DEF ShmTyped
  <2> QED BY <2>1, <2>2, <2>4, <2>5, NothingWritten
<1>3. ASSUME NEW p \in Processes, Local!Free(p) \/ Local!Unlink PROVE ShmInv'
  <2>1. named' = 0 /\ UNCHANGED <<blocks, mapped, writing, texts, latest, torn>>
    BY <1>3 DEF Local!Free, Local!Unlink
  <2>3. MadeInOrder' /\ MadeIfUsed'
    BY <1>0, <2>1 DEF ShmTyped, MadeInOrder, MadeIfUsed, Made
  <2>2. ShmTyped'
    BY <1>0, <2>1, <2>3 DEF ShmTyped
  <2> QED BY <2>1, <2>2, NothingWritten
<1>4. CASE Local!Unlink
  <2>1. named' = 0 /\ UNCHANGED <<blocks, mapped, writing, texts, latest, torn>>
    BY <1>4 DEF Local!Unlink
  <2>3. MadeInOrder' /\ MadeIfUsed'
    BY <1>0, <2>1 DEF ShmTyped, MadeInOrder, MadeIfUsed, Made
  <2>2. ShmTyped'
    BY <1>0, <2>1, <2>3 DEF ShmTyped
  <2> QED BY <2>1, <2>2, NothingWritten
<1>5. ASSUME NEW p \in Processes, Local!CloseBuffer(p) PROVE ShmInv'
  <2>1. writing[p] = 0 /\ mapped' = [mapped EXCEPT ![p] = 0]
            /\ UNCHANGED <<named, blocks, writing, texts, latest, torn>>
    BY <1>5 DEF Local!CloseBuffer
  <2>2. mapped' \in [Processes -> 0..MaxBlocks] /\ mapped'[p] = 0
            /\ \A q \in Processes \ {p} : mapped'[q] = mapped[q]
    BY <1>0, <2>1 DEF ShmTyped
  <2>3. ShmTyped'
    BY <1>0, <2>1, <2>2 DEF ShmTyped, MadeInOrder, MadeIfUsed, Made
  <2> QED BY <2>1, <2>2, <2>3, NothingWritten
<1> QED BY <1>1, <1>2, <1>3, <1>4, <1>5, ShmWriteBegins, ShmWriteEnds DEF Local!BlockNext

\* What is read is whole.
LEMMA ShmKept == ShmInv => Local!ReadsAreWhole
<1> SUFFICES ASSUME ShmInv PROVE Local!ReadsAreWhole
  OBVIOUS
<1>1. ASSUME NEW b \in Local!Made \ torn, \A p \in Processes : writing[p] = 0 \/ mapped[p] # b
      PROVE  Local!Read(b) = IF latest[b].text # 0 /\ texts[latest[b].text] = latest[b].longest
          THEN latest[b].text ELSE 0
  <2>1. b \in (1..MaxBlocks) \ torn
    BY DEF Local!Made, ShmInv, ShmTyped
  <2>2. Whole(blocks[b], latest[b], 0, texts)
    BY <1>1, <2>1 DEF ShmInv, ShmWhole, WritesTo
  <2>3. blocks[b] \in Seq(Nat) /\ latest[b] \in Latest /\ texts \in Seq(1..2)
    BY <2>1 DEF ShmInv, ShmTyped
  <2> QED BY <2>2, <2>3, WholeReads
<1> QED BY <1>1 DEF Local!ReadsAreWhole

-----------------------------------------------------------------------------
(* The types of the breaker, the limiter, the bus and the pool.            *)

\* Stamps and grants are times that were, and who sleeps does so at most a period
\* beyond them: the limiter's types follow from what it keeps.
LEMMA LimiterTyped ==
  ASSUME LimiterInv
  PROVE  TypeOK
<1> USE LimitsAssumption
<1>1. /\ now \in 0..MaxTime /\ wake \in Nat /\ calls \in 0..MaxCalls
      /\ stamps \in Seq(Nat) /\ grants \in Seq(Nat) /\ queue \in Seq(Requests)
      /\ Len(stamps) <= Rate /\ Len(stamps) \in Nat /\ Len(grants) \in Nat /\ Len(stamps) <= Len(grants)
  BY DEF LimiterInv, LimiterTypes
<1>2. \A i \in 1..Len(grants) : grants[i] \in 0..MaxTime
  BY <1>1 DEF LimiterInv, PastGrants
<1>3. \A i \in 1..Len(stamps) : stamps[i] \in 0..MaxTime
  <2> SUFFICES ASSUME NEW i \in 1..Len(stamps) PROVE stamps[i] \in 0..MaxTime
    OBVIOUS
  <2>1. Len(grants) - Len(stamps) + i \in 1..Len(grants)
    BY <1>1
  <2>2. stamps[i] = grants[Len(grants) - Len(stamps) + i]
    BY DEF LimiterInv, LastGrants
  <2> QED BY <1>2, <2>1, <2>2
<1>4. grants \in Seq(0..MaxTime) /\ stamps \in Seq(0..MaxTime)
  <2>1. ASSUME NEW s \in Seq(Nat), \A i \in 1..Len(s) : s[i] \in 0..MaxTime PROVE s \in Seq(0..MaxTime)
    <3>1. Len(s) \in Nat /\ s = [i \in 1..Len(s) |-> s[i]]
      BY <2>1
    <3>2. [i \in 1..Len(s) |-> s[i]] \in Seq(0..MaxTime)
      BY <2>1, <3>1
    <3> QED BY <3>1, <3>2
  <2> QED BY <1>1, <1>2, <1>3, <2>1
<1>5. wake \in 0..(MaxTime + Period)
  <2>1. CASE queue # << >> /\ wake > now
    <3>1. Len(stamps) = Rate /\ wake = stamps[1] + Period
      BY <2>1 DEF LimiterInv, Sleeping
    <3>2. 1 \in 1..Len(stamps)
      BY <1>1, <3>1
    <3> QED BY <1>1, <1>3, <3>1, <3>2
  <2>2. CASE ~(queue # << >> /\ wake > now)
    BY <1>1, <2>2 DEF LimiterInv, Sleeping
  <2> QED BY <2>1, <2>2
<1>6. \A i \in DOMAIN queue : queue[i].deadline \in Nat
  <2> SUFFICES ASSUME NEW i \in DOMAIN queue PROVE queue[i].deadline \in Nat
    OBVIOUS
  <2>1. queue[i] \in Requests
    BY <1>1
  <2> QED BY <2>1 DEF Requests
<1> QED BY <1>1, <1>4, <1>5, <1>6 DEF TypeOK

CooledOK == cooled \in BOOLEAN

\* Whether the breaker has cooled down is a Boolean.
LEMMA CooledTyped ==
  /\ Breaker!Init => CooledOK
  /\ CooledOK /\ [Breaker!Next]_breakerVars => CooledOK'
<1>1. ASSUME CooledOK, [Breaker!Next]_breakerVars PROVE CooledOK'
  BY <1>1, Zenon DEF CooledOK, breakerVars, Breaker!Next, Breaker!ReadState, Breaker!Reset, Breaker!Cool, Breaker!Admit,
     Breaker!Succeed, Breaker!Fail, Breaker!Uncounted
<1>2. Breaker!Init => CooledOK
  BY Zenon DEF Breaker!Init, CooledOK
<1> QED BY <1>1, <1>2

BusTyped == ThreadBus!TypeOK /\ \A w \in Waiters : waiter[w] # "idle" => waits[w] # 0

\* A step of the bus keeps its types, whether deciders are threads or not.
LEMMA BusKeepsTypes ==
  /\ LoopBus!Init => BusTyped
  /\ BusTyped /\ [LoopBus!Next]_busVars => BusTyped'
  /\ BusTyped /\ [ThreadBus!Next]_busVars => BusTyped'
<1>0. MaxGenerations \in Nat
  BY InstanceAssumptions DEF ThreadBus!BoundsAssumption
<1>1. LoopBus!Init => BusTyped
  BY <1>0 DEF BusTyped, LoopBus!Init, LoopBus!Generations, ThreadBus!TypeOK, ThreadBus!Generations, ThreadBus!Decisions
<1>2. ASSUME BusTyped, [ThreadBus!Next]_busVars PROVE BusTyped'
  <2> USE <1>0
  <2> DEFINE Replies == ThreadBus!Decisions \cup {"none", "timed_out"}
  <2>types. /\ current \in 0..MaxGenerations /\ flag \subseteq 1..MaxGenerations
            /\ outcome \in [1..MaxGenerations -> ThreadBus!Decisions \cup {"none"}]
            /\ waiter \in [Waiters -> BusStates] /\ waits \in [Waiters -> 0..MaxGenerations]
            /\ answer \in [Waiters -> Replies] /\ decider \in [Deciders -> 0..MaxGenerations]
            /\ \A w \in Waiters : waiter[w] # "idle" => waits[w] # 0
    BY <1>2 DEF BusTyped, ThreadBus!TypeOK, ThreadBus!Generations, BusStates
  <2>kept. ASSUME /\ current' \in 0..MaxGenerations /\ flag' \subseteq 1..MaxGenerations
                  /\ outcome' \in [1..MaxGenerations -> ThreadBus!Decisions \cup {"none"}]
                  /\ waiter' \in [Waiters -> BusStates] /\ waits' \in [Waiters -> 0..MaxGenerations]
                  /\ answer' \in [Waiters -> Replies] /\ decider' \in [Deciders -> 0..MaxGenerations]
                  /\ \A w \in Waiters : waiter'[w] # "idle" => waits'[w] # 0
           PROVE  BusTyped'
    BY <2>kept DEF BusTyped, ThreadBus!TypeOK, ThreadBus!Generations, BusStates
  <2>outcome. \A g \in 1..MaxGenerations : outcome[g] \in Replies
    BY <2>types
  <2> HIDE DEF Replies
  <2>goes. ASSUME NEW w \in Waiters, NEW s \in BusStates, waiter' = [waiter EXCEPT ![w] = s],
                  \/ waits' = waits /\ waits[w] # 0
                  \/ waits' = [waits EXCEPT ![w] = current] /\ current # 0
           PROVE  /\ waiter' \in [Waiters -> BusStates] /\ waits' \in [Waiters -> 0..MaxGenerations]
                  /\ \A v \in Waiters : waiter'[v] # "idle" => waits'[v] # 0
    BY <2>types, <2>goes
  <2>answers. ASSUME NEW w \in Waiters, NEW a \in Replies, ThreadBus!Answer(w, a)
              PROVE  answer' \in [Waiters -> Replies] /\ waiter' = [waiter EXCEPT ![w] = "done"]
    BY <2>types, <2>answers DEF ThreadBus!Answer
  <2>states. {"looked", "registering", "asleep", "woken", "done"} \subseteq BusStates
    BY DEF BusStates
  <2>1. ASSUME NEW d \in Deciders, NEW o \in ThreadBus!Decisions, ThreadBus!Decide(d, o) PROVE BusTyped'
    <3>1. /\ current \in 1..MaxGenerations /\ UNCHANGED <<current, flag, waiter, waits, answer>>
          /\ outcome' = [outcome EXCEPT ![current] = o] /\ decider' = [decider EXCEPT ![d] = current]
      BY <2>types, <2>1 DEF ThreadBus!Decide
    <3> QED BY <2>types, <2>kept, <3>1
  <2>2. ASSUME NEW d \in Deciders, ThreadBus!SetFlag(d) PROVE BusTyped'
    <3>1. /\ decider[d] \in 1..MaxGenerations /\ flag' = flag \cup {decider[d]}
          /\ UNCHANGED <<current, outcome, waiter, waits, answer, decider>>
      BY <2>types, <2>2 DEF ThreadBus!SetFlag
    <3> QED BY <2>types, <2>kept, <3>1
  <2>3. ASSUME NEW d \in Deciders, ThreadBus!WakeAll(d) PROVE BusTyped'
    <3>1. /\ decider' = [decider EXCEPT ![d] = 0] /\ UNCHANGED <<current, outcome, flag, waits, answer>>
          /\ waiter' = [w \in Waiters |-> IF w \in ThreadBus!Woken(decider[d]) THEN "woken" ELSE waiter[w]]
      BY <2>3 DEF ThreadBus!WakeAll
    <3>2. \A w \in ThreadBus!Woken(decider[d]) : waiter[w] # "idle"
      BY DEF ThreadBus!Woken
    <3>3. waiter' \in [Waiters -> BusStates] /\ \A w \in Waiters : waiter'[w] # "idle" => waits[w] # 0
      BY <2>types, <2>states, <3>1, <3>2
    <3> QED BY <2>types, <2>kept, <3>1, <3>3
  <2>4. ASSUME NEW w \in Waiters, ThreadBus!Look(w) PROVE BusTyped'
    <3>1. /\ current \in 1..MaxGenerations /\ waits' = [waits EXCEPT ![w] = current]
          /\ UNCHANGED <<current, outcome, flag, decider>>
      BY <2>types, <2>4 DEF ThreadBus!Look
    <3>2. CASE ThreadBus!Answer(w, outcome[current])
      BY <2>types, <2>kept, <2>states, <2>goes, <2>answers, <2>outcome, <3>1, <3>2
    <3>3. CASE waiter' = [waiter EXCEPT ![w] = "looked"] /\ answer' = answer
      BY <2>types, <2>kept, <2>states, <2>goes, <3>1, <3>3
    <3> QED BY <2>4, <3>2, <3>3 DEF ThreadBus!Look
  <2>5. ASSUME NEW w \in Waiters, \/ ThreadBus!CheckFlag(w) \/ ThreadBus!Register(w)
                                  \/ ThreadBus!Wake(w) \/ ThreadBus!TimedOut(w)
        PROVE  BusTyped'
    <3>1. waiter[w] # "idle" /\ UNCHANGED <<current, outcome, flag, waits, decider>>
      BY <2>5 DEF ThreadBus!CheckFlag, ThreadBus!Register, ThreadBus!Wake, ThreadBus!TimedOut
    <3>2. waits[w] \in 1..MaxGenerations
      BY <2>types, <3>1
    <3>3. CASE \E s \in BusStates : waiter' = [waiter EXCEPT ![w] = s] /\ answer' = answer
      <4>1. PICK s \in BusStates : waiter' = [waiter EXCEPT ![w] = s] /\ answer' = answer
        BY <3>3
      <4> QED BY <2>types, <2>kept, <2>goes, <3>1, <3>2, <4>1
    <3>4. CASE \E a \in Replies : ThreadBus!Answer(w, a)
      <4>1. answer' \in [Waiters -> Replies] /\ waiter' = [waiter EXCEPT ![w] = "done"]
        BY <2>answers, <3>4
      <4> QED BY <2>types, <2>kept, <2>states, <2>goes, <3>1, <3>2, <4>1
    <3>5. outcome[waits[w]] \in Replies /\ "timed_out" \in Replies
      BY <2>outcome, <3>2 DEF Replies
    <3> QED BY <2>5, <2>states, <3>3, <3>4, <3>5
        DEF ThreadBus!CheckFlag, ThreadBus!Register, ThreadBus!Wake, ThreadBus!TimedOut
  <2>6. ASSUME ThreadBus!Request PROVE BusTyped'
    <3>1. current' \in 0..MaxGenerations /\ UNCHANGED <<outcome, flag, waiter, waits, answer, decider>>
      BY <2>types, <2>6 DEF ThreadBus!Request
    <3> QED BY <2>types, <2>kept, <3>1
  <2>7. ASSUME UNCHANGED busVars PROVE BusTyped'
    <3>1. UNCHANGED <<current, outcome, flag, waiter, waits, answer, decider>>
      BY <2>7 DEF busVars
    <3> QED BY <2>types, <2>kept, <3>1
  <2> QED BY <1>2, <2>1, <2>2, <2>3, <2>4, <2>5, <2>6, <2>7 DEF ThreadBus!Next
<1>3. LoopBus!Next => ThreadBus!Next
  <2> USE DEF ThreadBus!LoopIsFree, LoopBus!LoopIsFree
  <2>1. LoopBus!Request => ThreadBus!Request
    BY DEF LoopBus!Request, ThreadBus!Request
  <2>2. ASSUME NEW d \in Deciders, NEW o, LoopBus!Decide(d, o) PROVE ThreadBus!Decide(d, o)
    BY <2>2 DEF LoopBus!Decide, ThreadBus!Decide, LoopBus!Undecided, ThreadBus!Undecided
  <2>3. ASSUME NEW d \in Deciders PROVE LoopBus!SetFlag(d) => ThreadBus!SetFlag(d)
    BY DEF LoopBus!SetFlag, ThreadBus!SetFlag
  <2>4. ASSUME NEW d \in Deciders PROVE LoopBus!WakeAll(d) => ThreadBus!WakeAll(d)
    BY DEF LoopBus!WakeAll, ThreadBus!WakeAll, LoopBus!Woken, ThreadBus!Woken
  <2>5. ASSUME NEW w \in Waiters
        PROVE  /\ LoopBus!Look(w) => ThreadBus!Look(w)
               /\ LoopBus!CheckFlag(w) => ThreadBus!CheckFlag(w)
               /\ LoopBus!Register(w) => ThreadBus!Register(w)
               /\ LoopBus!Wake(w) => ThreadBus!Wake(w)
               /\ ~LoopBus!TimedOut(w)
    BY DEF LoopBus!Look, ThreadBus!Look, LoopBus!CheckFlag, ThreadBus!CheckFlag, LoopBus!Register,
       ThreadBus!Register, LoopBus!Wake, ThreadBus!Wake, LoopBus!TimedOut, LoopBus!Answer, ThreadBus!Answer
  <2> QED BY <2>1, <2>2, <2>3, <2>4, <2>5
      DEF LoopBus!Next, ThreadBus!Next, LoopBus!Decisions, ThreadBus!Decisions
<1> QED BY <1>1, <1>2, <1>3

LostOK == lost \subseteq Containers

\* What the pool lost were containers.
LEMMA LostTyped ==
  /\ Pool!Init => LostOK
  /\ PoolInv /\ LostOK /\ [Pool!Next]_poolVars => LostOK'
<1>1. Pool!Init => LostOK
  BY DEF Pool!Init, LostOK
<1>2. ASSUME PoolInv, LostOK, [Pool!Next]_poolVars PROVE LostOK'
  <2>1. task \in [Users -> Calls] /\ daemon \subseteq Containers
    BY <1>2 DEF PoolInv, PoolTypes
  <2>2. \A u \in Users : task[u].op \in Working => task[u].id \in Containers
    BY <2>1 DEF Calls, Working
  <2>3. ASSUME NEW u \in Users,
               Pool!StartFails(u) \/ Pool!RemoveFails(u) \/ Pool!CloseFails(u)
        PROVE  lost' = lost \cup {task[u].id} /\ task[u].op \in Working
    BY <2>3 DEF Pool!StartFails, Pool!RemoveFails, Pool!CloseFails, Pool!In, Working
  <2>4. ASSUME NEW u \in Users,
               \/ Pool!Acquire(u) \/ Pool!Created(u) \/ Pool!CreateFails(u) \/ Pool!Started(u)
               \/ Pool!Release(u) \/ Pool!Status(u) \/ Pool!Removed(u)
               \/ (\E c \in Containers : Pool!Destroy(u, c))
               \/ Pool!Close(u) \/ Pool!CloseNext(u) \/ Pool!CloseOne(u) \/ Pool!Closed(u)
        PROVE  lost' = lost
    BY <2>4, Zenon DEF Pool!Acquire, Pool!Created, Pool!CreateFails, Pool!Started, Pool!Release, Pool!Status, Pool!Removed,
       Pool!Destroy, Pool!Close, Pool!CloseNext, Pool!CloseOne, Pool!Closed
  <2>5. ASSUME NEW c \in Containers, Pool!Vanishes(c) PROVE lost' = lost \cup {c}
    BY <2>5 DEF Pool!Vanishes
  <2>6. \/ lost' = lost \/ \E c \in Containers : lost' = lost \cup {c}
    <3>1. CASE UNCHANGED poolVars
      BY <3>1 DEF poolVars
    <3>2. CASE Pool!Next
      BY <2>2, <2>3, <2>4, <2>5, <3>2, Zenon DEF Pool!Next
    <3> QED BY <1>2, <3>1, <3>2
  <2> QED BY <1>2, <2>6 DEF LostOK
<1> QED BY <1>1, <1>2

\* The pool's types follow.
LEMMA PoolTyped ==
  ASSUME PoolInv, LostOK
  PROVE  Pool!TypeOK
<1>1. slots \subseteq PoolSlots /\ task \in [Users -> Calls] /\ held \in [Users -> Containers \cup {NoContainer}]
      /\ daemon \subseteq Containers /\ closing \subseteq Containers
  BY DEF PoolInv, PoolTypes
<1>2. \A u \in Users : task[u].op \in {"idle", "create", "start", "remove", "close", "closing one"}
  BY <1>1 DEF Calls, Working
<1>3. slots \subseteq [id: Containers, busy: BOOLEAN, state: {"idle", "running", "missing"}]
  BY <1>1 DEF PoolSlots
<1> QED BY <1>1, <1>2, <1>3 DEF LostOK, Pool!TypeOK

-----------------------------------------------------------------------------
(* The types of what the machine has once.                                 *)

\* With or without the lock, providers are models, and calls are at their places.
GpuTyped == GpuTypes /\ loaded \subseteq Local!Models /\ polite \in BOOLEAN

\* The GPU starts typed.
LEMMA GpuTypedStarts == Local!Init => GpuTyped
<1> SUFFICES ASSUME Local!Init PROVE GpuTyped
  OBVIOUS
<1>1. /\ keys = <<"small", "large">> /\ loaded = {} /\ holder = {} /\ polite \in BOOLEAN
      /\ gpu = [t \in Tasks |-> Local!Rest]
  BY DEF Local!Init
<1>2. Local!Rest \in GpuCalls
  BY ModelSizes DEF GpuCalls, Places, Local!Rest
<1> QED BY <1>1, <1>2, ModelSizes DEF GpuTyped, GpuTypes

\* Every step of the GPU's callers keeps the types.
LEMMA GpuTypedStep ==
  ASSUME GpuTyped, Local!GpuNext
  PROVE  GpuTyped'
<1> USE MachineAssumption
<1>types. /\ keys \in Seq(Local!Models) /\ Len(keys) \in Nat /\ gpu \in [Tasks -> GpuCalls]
          /\ holder \subseteq Tasks /\ loaded \subseteq Local!Models /\ polite \in BOOLEAN
  BY DEF GpuTyped, GpuTypes
<1>call. \A t \in Tasks :
           /\ gpu[t] \in GpuCalls /\ gpu[t].next \in Nat /\ gpu[t].next + 1 \in Nat \ {0}
           /\ gpu[t].model \in Local!Models
  BY <1>types DEF GpuCalls
<1>places. \A p \in {"sweep", "unloading", "measured", "loading", "using"} : p \in Places
  BY DEF Places
<1>rest. Local!Rest \in GpuCalls
  BY ModelSizes DEF GpuCalls, Places, Local!Rest
<1>goes. \A c \in GpuCalls, p \in Places : [c EXCEPT !.at = p] \in GpuCalls
  BY DEF GpuCalls
<1>1. ASSUME NEW t \in Tasks, NEW r \in GpuCalls, gpu' = [gpu EXCEPT ![t] = r],
             keys' = keys, loaded' \subseteq Local!Models, polite' = polite, holder' \subseteq Tasks
      PROVE  GpuTyped'
  BY <1>1, <1>types DEF GpuTyped, GpuTypes
<1>2. ASSUME Local!Register PROVE GpuTyped'
  <2>1. /\ keys' = Append(keys, "other") /\ loaded' = loaded /\ holder' = holder /\ gpu' = gpu
        /\ polite' = polite
    BY <1>2 DEF Local!Register
  <2>2. keys' \in Seq(Local!Models)
    BY <1>types, <2>1, ModelSizes
  <2> QED BY <1>types, <2>1, <2>2 DEF GpuTyped, GpuTypes
<1>3. ASSUME NEW t \in Tasks, NEW m \in Local!Models, Local!Acquire(t, m) PROVE GpuTyped'
  <2>1. /\ holder' = (IF polite THEN {t} ELSE {}) /\ keys' = keys /\ loaded' = loaded /\ polite' = polite
        /\ gpu' = [gpu EXCEPT ![t] = [Local!Rest EXCEPT !.at = "sweep", !.model = m, !.size = Len(keys)]]
    BY <1>3 DEF Local!Acquire
  <2>2. [Local!Rest EXCEPT !.at = "sweep", !.model = m, !.size = Len(keys)] \in GpuCalls
    BY <1>types, <1>rest, <1>places DEF GpuCalls
  <2> QED BY <1>1, <1>types, <2>1, <2>2
<1>4. ASSUME NEW t \in Tasks, Local!WalkFails(t) \/ Local!Refuse(t) \/ Local!Release(t) PROVE GpuTyped'
  <2>1. /\ gpu' = [gpu EXCEPT ![t] = Local!Rest] /\ holder' = holder \ {t}
        /\ keys' = keys /\ loaded' = loaded /\ polite' = polite
    BY <1>4 DEF Local!WalkFails, Local!Refuse, Local!Release
  <2> QED BY <1>1, <1>types, <1>rest, <2>1
<1>5. ASSUME NEW t \in Tasks, Local!Pass(t) PROVE GpuTyped'
  <2>1. /\ loaded' = loaded /\ keys' = keys /\ polite' = polite /\ holder' = holder
        /\ gpu' = [gpu EXCEPT ![t] = [gpu[t] EXCEPT !.next = gpu[t].next + 1]]
    BY <1>5, <1>types DEF Local!Pass
  <2>2. [gpu[t] EXCEPT !.next = gpu[t].next + 1] \in GpuCalls
    BY <1>call DEF GpuCalls
  <2> QED BY <1>1, <1>types, <2>1, <2>2
<1>6. ASSUME NEW t \in Tasks, Local!Unload(t) PROVE GpuTyped'
  <2>1. /\ loaded' = loaded /\ keys' = keys /\ polite' = polite /\ holder' = holder
        /\ gpu' = [gpu EXCEPT ![t] = [gpu[t] EXCEPT !.at = "unloading"]]
    BY <1>6, <1>types DEF Local!Unload
  <2>2. [gpu[t] EXCEPT !.at = "unloading"] \in GpuCalls
    BY <1>call, <1>goes, <1>places
  <2> QED BY <1>1, <1>types, <2>1, <2>2
<1>7. ASSUME NEW t \in Tasks, Local!Unloaded(t) PROVE GpuTyped'
  <2>1. /\ loaded' \subseteq loaded /\ keys' = keys /\ polite' = polite /\ holder' = holder
        /\ gpu' = [gpu EXCEPT ![t] = [gpu[t] EXCEPT !.at = "sweep", !.next = gpu[t].next + 1]]
    BY <1>7, <1>types DEF Local!Unloaded
  <2>2. [gpu[t] EXCEPT !.at = "sweep", !.next = gpu[t].next + 1] \in GpuCalls
    BY <1>call, <1>places DEF GpuCalls
  <2> QED BY <1>1, <1>types, <2>1, <2>2
<1>8. ASSUME NEW t \in Tasks, Local!Measure(t) PROVE GpuTyped'
  <2>1. PICK f \in Local!FreeVram :
          gpu' = [gpu EXCEPT ![t] = [gpu[t] EXCEPT !.at = "measured", !.free = f]]
    BY <1>8, <1>types DEF Local!Measure
  <2>2. loaded' = loaded /\ keys' = keys /\ polite' = polite /\ holder' = holder
    BY <1>8 DEF Local!Measure
  <2>3. Local!Used \in Nat
    BY <1>types, ModelSizes DEF Local!Used, Local!Takes
  <2>4. f \in Nat
    BY <2>1, <2>3 DEF Local!FreeVram
  <2>5. [gpu[t] EXCEPT !.at = "measured", !.free = f] \in GpuCalls
    BY <1>call, <1>places, <2>4 DEF GpuCalls
  <2> QED BY <1>1, <1>types, <2>1, <2>2, <2>5
<1>9. ASSUME NEW t \in Tasks, Local!LoadModel(t) PROVE GpuTyped'
  <2> DEFINE place == IF gpu[t].model \in loaded THEN "using" ELSE "loading"
  <2>1. /\ loaded' = loaded /\ keys' = keys /\ polite' = polite /\ holder' = holder
        /\ gpu' = [gpu EXCEPT ![t] = [gpu[t] EXCEPT !.at = place]]
    BY <1>9, <1>types DEF Local!LoadModel
  <2>2. place \in Places
    BY <1>places
  <2> HIDE DEF place
  <2>3. [gpu[t] EXCEPT !.at = place] \in GpuCalls
    BY <1>call, <1>goes, <2>2
  <2> QED BY <1>1, <1>types, <2>1, <2>3
<1>10. ASSUME NEW t \in Tasks, Local!Loaded(t) PROVE GpuTyped'
  <2>1. /\ loaded' = loaded \cup {gpu[t].model} /\ keys' = keys /\ polite' = polite /\ holder' = holder
        /\ gpu' = [gpu EXCEPT ![t] = [gpu[t] EXCEPT !.at = "using"]]
    BY <1>10, <1>types DEF Local!Loaded
  <2>2. [gpu[t] EXCEPT !.at = "using"] \in GpuCalls
    BY <1>call, <1>goes, <1>places
  <2> QED BY <1>1, <1>types, <1>call, <2>1, <2>2
<1> QED
  BY <1>2, <1>3, <1>4, <1>5, <1>6, <1>7, <1>8, <1>9, <1>10 DEF Local!GpuNext

\* Blocks, texts and who tracks them are within their bounds.
BlocksTyped ==
  /\ tracked \in [Processes -> 0..MaxBlocks] /\ cached \in BOOLEAN /\ torn \subseteq 1..MaxBlocks
  /\ writing \in [Processes -> 0..MaxTexts] /\ Len(texts) <= MaxTexts

\* A step of the block's users keeps them there: who writes has mapped a block.
LEMMA BlocksTypedStep ==
  ASSUME ShmInv, BlocksTyped, Local!BlockNext
  PROVE  BlocksTyped'
<1> USE MachineAssumption
<1>types. /\ ShmTyped /\ tracked \in [Processes -> 0..MaxBlocks] /\ cached \in BOOLEAN
          /\ torn \subseteq 1..MaxBlocks /\ writing \in [Processes -> 0..MaxTexts] /\ Len(texts) <= MaxTexts
  BY DEF ShmInv, BlocksTyped
<1>1. ASSUME NEW p \in Processes, NEW n \in 1..2, Local!Allocate(p, n) PROVE BlocksTyped'
  <2>1. /\ Local!Block(n) /\ tracked' = [tracked EXCEPT ![p] = named'] /\ cached' = (cached /\ named # 0)
        /\ UNCHANGED <<writing, texts, torn>>
    BY <1>1 DEF Local!Allocate
  <2>2. named' \in 1..MaxBlocks
    BY <1>types, <2>1, BlockMade
  <2>3. tracked' \in [Processes -> 0..MaxBlocks]
    BY <1>types, <2>1, <2>2
  <2>4. cached' \in BOOLEAN
    BY <2>1
  <2> QED BY <1>types, <2>1, <2>3, <2>4 DEF BlocksTyped
<1>2. ASSUME NEW p \in Processes, NEW n \in 1..2, Local!AllocateBuffer(p, n) PROVE BlocksTyped'
  <2>1. cached' = (cached \/ named = 0) /\ UNCHANGED <<tracked, writing, texts, torn>>
    BY <1>2 DEF Local!AllocateBuffer
  <2>2. cached' \in BOOLEAN
    BY <2>1
  <2> QED BY <1>types, <2>1, <2>2 DEF BlocksTyped
<1>3. ASSUME NEW p \in Processes, Local!Free(p) PROVE BlocksTyped'
  <2>1. tracked' = [tracked EXCEPT ![p] = 0] /\ UNCHANGED <<writing, texts, torn, cached>>
    BY <1>3 DEF Local!Free
  <2>2. tracked' \in [Processes -> 0..MaxBlocks]
    BY <1>types, <2>1
  <2> QED BY <1>types, <2>1, <2>2 DEF BlocksTyped
<1>4. ASSUME Local!Unlink \/ \E p \in Processes : Local!CloseBuffer(p) PROVE BlocksTyped'
  <2>1. UNCHANGED <<tracked, writing, texts, torn, cached>>
    BY <1>4 DEF Local!Unlink, Local!CloseBuffer
  <2> QED BY <1>types, <2>1 DEF BlocksTyped
<1>5. ASSUME NEW p \in Processes, NEW n \in 1..2, Local!WriteBegins(p, n) PROVE BlocksTyped'
  <2>1. /\ Len(texts) < MaxTexts /\ texts' = Append(texts, n) /\ UNCHANGED <<tracked, cached>>
        /\ writing' = [writing EXCEPT ![p] = Len(texts')]
        /\ torn' = torn \cup {mapped[q] : q \in {r \in Processes : writing[r] > 0 /\ mapped[r] = mapped[p]}}
    BY <1>5 DEF Local!WriteBegins
  <2>2. Len(texts) \in Nat /\ Len(texts') = Len(texts) + 1
    BY <1>types, <2>1 DEF ShmTyped
  <2>3. writing' \in [Processes -> 0..MaxTexts] /\ Len(texts') <= MaxTexts
    BY <1>types, <2>1, <2>2
  <2>4. \A q \in Processes : writing[q] > 0 => mapped[q] \in 1..MaxBlocks
    BY <1>types DEF ShmTyped, MadeIfUsed
  <2>5. torn' \subseteq 1..MaxBlocks
    BY <1>types, <2>1, <2>4
  <2> QED BY <1>types, <2>1, <2>3, <2>5 DEF BlocksTyped
<1>6. ASSUME NEW p \in Processes, Local!WriteEnds(p) PROVE BlocksTyped'
  <2>1. writing' = [writing EXCEPT ![p] = 0] /\ UNCHANGED <<tracked, texts, torn, cached>>
    BY <1>6 DEF Local!WriteEnds
  <2>2. writing' \in [Processes -> 0..MaxTexts]
    BY <1>types, <2>1
  <2> QED BY <1>types, <2>1, <2>2 DEF BlocksTyped
<1> QED BY <1>1, <1>2, <1>3, <1>4, <1>5, <1>6 DEF Local!BlockNext

\* A start counts on its browser before it is there: browsers and starts under way
\* are within the bound.
Launching == {t \in Tasks : tab[t].at = "launching"}
BrowsersCounted ==
  /\ launches \in Nat /\ IsFiniteSet(Launching) /\ launches + Cardinality(Launching) <= MaxBlocks
  /\ browser \in 0..launches /\ live \subseteq 1..launches /\ raced \in BOOLEAN

\* None was launched at first.
LEMMA BrowsersStart == Local!Init => BrowsersCounted
<1> SUFFICES ASSUME Local!Init PROVE BrowsersCounted
  OBVIOUS
<1>1. browser = 0 /\ live = {} /\ launches = 0 /\ raced = FALSE /\ \A t \in Tasks : tab[t].at = "idle"
  BY DEF Local!Init
<1>2. Launching = {}
  BY <1>1 DEF Launching
<1>3. IsFiniteSet(Launching) /\ Cardinality(Launching) = 0
  BY <1>2, FS_EmptySet
<1>4. MaxBlocks \in Nat
  BY MachineAssumption
<1>5. browser \in 0..launches /\ live \subseteq 1..launches /\ raced \in BOOLEAN
  <2>1. 0 \in 0..0 /\ {} \subseteq 1..0 /\ FALSE \in BOOLEAN
    OBVIOUS
  <2> QED BY <1>1, <2>1, Zenon
<1>6. launches \in Nat /\ launches + Cardinality(Launching) <= MaxBlocks
  BY <1>1, <1>3, <1>4
<1> QED BY <1>3, <1>5, <1>6 DEF BrowsersCounted

\* A task that goes where it launches nothing leaves no more starts than there were.
LEMMA FewerStarts ==
  ASSUME BrowsersCounted, Launching' \subseteq Launching
  PROVE  /\ IsFiniteSet(Launching') /\ launches + Cardinality(Launching') <= MaxBlocks
         /\ Cardinality(Launching) \in Nat /\ Cardinality(Launching') \in Nat
<1>1. IsFiniteSet(Launching') /\ Cardinality(Launching') <= Cardinality(Launching)
  BY FS_Subset DEF BrowsersCounted
<1>2. Cardinality(Launching) \in Nat /\ Cardinality(Launching') \in Nat
  BY <1>1, FS_CardinalityType DEF BrowsersCounted
<1> QED BY <1>1, <1>2, MachineAssumption DEF BrowsersCounted

\* Every step of the runner's tasks keeps the count.
LEMMA BrowsersStep ==
  ASSUME BrowserInv, BrowsersCounted, Local!BrowserNext
  PROVE  BrowsersCounted'
<1> USE MachineAssumption
<1>types. /\ tab \in [Tasks -> [at: TabPlaces, on: Nat]] /\ launches \in Nat /\ browser \in 0..launches
          /\ live \subseteq 1..launches /\ raced \in BOOLEAN
          /\ IsFiniteSet(Launching) /\ Cardinality(Launching) \in Nat
          /\ launches + Cardinality(Launching) <= MaxBlocks
  BY FS_CardinalityType DEF BrowserInv, TabTypes, BrowsersCounted
<1>1. ASSUME NEW t \in Tasks, Local!Start(t) PROVE BrowsersCounted'
  <2>1. /\ tab[t].at = "idle" /\ tab' = [tab EXCEPT ![t] = [at |-> "launching", on |-> 0]]
        /\ launches + Local!Cardinality(Launching) < MaxBlocks
        /\ raced' = (raced \/ Local!InState("launching") # {}) /\ UNCHANGED <<browser, live, launches>>
    BY <1>1 DEF Local!Start, Local!TabAt, Local!InState, Launching
  <2>2. Launching' = Launching \cup {t} /\ t \notin Launching
    BY <1>types, <2>1 DEF Launching
  <2>3. IsFiniteSet(Launching') /\ Cardinality(Launching') = Cardinality(Launching) + 1
    BY <1>types, <2>2, FS_AddElement
  <2>4. Local!Cardinality(Launching) = Cardinality(Launching)
    BY DEF Local!Cardinality, Cardinality
  <2>5. launches + Cardinality(Launching') <= MaxBlocks
    BY <1>types, <2>1, <2>3, <2>4
  <2>6. raced' \in BOOLEAN
    BY <2>1
  <2> QED BY <1>types, <2>1, <2>3, <2>5, <2>6 DEF BrowsersCounted
<1>2. ASSUME NEW t \in Tasks, NEW place \in {"idle", "page"}, Local!Launched(t, place) PROVE BrowsersCounted'
  <2>1. /\ tab[t].at = "launching" /\ tab' = [tab EXCEPT ![t] = [at |-> place, on |-> 0]]
        /\ launches' = launches + 1 /\ browser' = launches' /\ live' = live \cup {browser'}
        /\ raced' = raced
    BY <1>2 DEF Local!Launched, Local!TabAt
  <2>2. Launching' = Launching \ {t} /\ t \in Launching
    BY <1>types, <2>1 DEF Launching
  <2>3. IsFiniteSet(Launching') /\ Cardinality(Launching') = Cardinality(Launching) - 1
    BY <1>types, <2>2, FS_RemoveElement
  <2>4. launches' \in Nat /\ browser' \in 0..launches' /\ live' \subseteq 1..launches'
    BY <1>types, <2>1
  <2>5. launches' + Cardinality(Launching') <= MaxBlocks
    BY <1>types, <2>1, <2>3
  <2> QED BY <1>types, <2>1, <2>3, <2>4, <2>5 DEF BrowsersCounted
<1>3. ASSUME NEW t \in Tasks, NEW place \in {"idle", "page", "tidying", "closing"}, NEW b, Local!TabAt(t, place, b)
      PROVE  Launching' \subseteq Launching
  BY <1>3, <1>types DEF Local!TabAt, Launching
<1>4. ASSUME NEW t \in Tasks,
             Local!LaunchFails(t) \/ Local!NewPage(t) \/ Local!PageMade(t) \/ Local!ClosePages(t)
      PROVE  BrowsersCounted'
  <2>1. /\ UNCHANGED <<browser, live, launches, raced>>
        /\ \E place \in {"idle", "page", "tidying", "closing"}, b \in {0, browser} : Local!TabAt(t, place, b)
    BY <1>4 DEF Local!LaunchFails, Local!NewPage, Local!PageMade, Local!ClosePages
  <2> QED BY <1>types, <1>3, <2>1, FewerStarts DEF BrowsersCounted
<1>5. ASSUME NEW t \in Tasks, Local!CloseBrowser(t) PROVE BrowsersCounted'
  <2>1. /\ raced' = (raced \/ Local!InState("closing") # {}) /\ UNCHANGED <<browser, live, launches>>
        /\ Local!TabAt(t, IF browser = 0 THEN "idle" ELSE "closing", browser)
    BY <1>5 DEF Local!CloseBrowser
  <2>2. Launching' \subseteq Launching
    BY <1>3, <2>1
  <2>3. raced' \in BOOLEAN
    BY <2>1
  <2> QED BY <1>types, <2>1, <2>2, <2>3, FewerStarts DEF BrowsersCounted
<1>6. ASSUME NEW t \in Tasks, Local!Closed(t) PROVE BrowsersCounted'
  <2>1. /\ live' = live \ {tab[t].on} /\ browser' = 0 /\ UNCHANGED <<launches, raced>>
        /\ Local!TabAt(t, "idle", 0)
    BY <1>6 DEF Local!Closed
  <2>2. Launching' \subseteq Launching
    BY <1>3, <2>1
  <2>3. browser' \in 0..launches'
    BY <1>types, <2>1
  <2>4. live' \subseteq 1..launches'
    <3>1. launches' = launches /\ live \subseteq 1..launches /\ live' \subseteq live
      BY <1>types, <2>1
    <3> QED BY <3>1
  <2> QED BY <1>types, <2>1, <2>2, <2>3, <2>4, FewerStarts DEF BrowsersCounted
<1> QED BY <1>1, <1>2, <1>4, <1>5, <1>6 DEF Local!BrowserNext

\* Together, what the machine has once keeps its types.
MachineTyped == GpuTyped /\ BlocksTyped /\ BrowsersCounted

\* It starts with them.
LEMMA MachineTypedStarts == Local!Init => MachineTyped
<1> SUFFICES ASSUME Local!Init PROVE MachineTyped
  OBVIOUS
<1>1. /\ tracked = [p \in Processes |-> 0] /\ writing = [p \in Processes |-> 0]
      /\ texts = << >> /\ torn = {} /\ cached = FALSE
  BY DEF Local!Init
<1>2. BlocksTyped
  <2>1. MaxTexts \in Nat /\ MaxBlocks \in Nat
    BY MachineAssumption
  <2>2. tracked \in [Processes -> 0..MaxBlocks] /\ writing \in [Processes -> 0..MaxTexts]
    BY <1>1, <2>1
  <2>3. Len(texts) <= MaxTexts
    BY <1>1, <2>1
  <2> QED BY <1>1, <2>2, <2>3 DEF BlocksTyped
<1> QED BY <1>2, GpuTypedStarts, BrowsersStart DEF MachineTyped

\* And every step keeps them.
LEMMA MachineTypedStep ==
  ASSUME MachineInv, ShmInv, MachineTyped,
         Local!GpuNext \/ Local!BlockNext \/ Local!BrowserNext \/ UNCHANGED localVars
  PROVE  MachineTyped'
<1>1. ASSUME UNCHANGED <<keys, loaded, polite, holder, gpu>> PROVE GpuTyped'
  BY <1>1 DEF MachineTyped, GpuTyped, GpuTypes
<1>2. ASSUME UNCHANGED <<tracked, writing, texts, torn, cached>> PROVE BlocksTyped'
  BY <1>2 DEF MachineTyped, BlocksTyped
<1>3. ASSUME UNCHANGED <<browser, live, tab, launches, raced>> PROVE BrowsersCounted'
  <2>1. Launching' = Launching
    BY <1>3 DEF Launching
  <2> QED BY <1>3, <2>1 DEF MachineTyped, BrowsersCounted
<1>4. CASE Local!GpuNext
  <2>1. /\ UNCHANGED <<tracked, writing, texts, torn, cached>>
        /\ UNCHANGED <<browser, live, tab, launches, raced>>
    BY <1>4 DEF Local!GpuNext, Local!blockVars, Local!browserVars
  <2> QED BY <1>2, <1>3, <1>4, <2>1, GpuTypedStep DEF MachineTyped
<1>5. CASE Local!BlockNext
  <2>1. UNCHANGED <<keys, loaded, polite, holder, gpu>> /\ UNCHANGED <<browser, live, tab, launches, raced>>
    BY <1>5 DEF Local!BlockNext, Local!gpuVars, Local!browserVars
  <2> QED BY <1>1, <1>3, <1>5, <2>1, BlocksTypedStep DEF MachineTyped
<1>6. CASE Local!BrowserNext
  <2>1. /\ UNCHANGED <<keys, loaded, polite, holder, gpu>>
        /\ UNCHANGED <<tracked, writing, texts, torn, cached>>
    BY <1>6 DEF Local!BrowserNext, Local!gpuVars, Local!blockVars
  <2> QED BY <1>1, <1>2, <1>6, <2>1, BrowsersStep DEF MachineTyped, MachineInv
<1>7. CASE UNCHANGED localVars
  <2>1. /\ UNCHANGED <<keys, loaded, polite, holder, gpu>>
        /\ UNCHANGED <<tracked, writing, texts, torn, cached>>
        /\ UNCHANGED <<browser, live, tab, launches, raced>>
    BY <1>7 DEF localVars
  <2> QED BY <1>1, <1>2, <1>3, <2>1 DEF MachineTyped
<1> QED BY <1>4, <1>5, <1>6, <1>7

\* The machine's types follow.
LEMMA MachineTypesKept ==
  ASSUME MachineInv, ShmInv, MachineTyped
  PROVE  Local!TypeOK
<1>1. /\ keys \in Seq(Local!Models) /\ loaded \subseteq Local!Models /\ polite \in BOOLEAN
      /\ holder \subseteq Tasks /\ gpu \in [Tasks -> GpuCalls]
  BY DEF MachineTyped, GpuTyped, GpuTypes
<1>2. Local!ToSet(keys) \subseteq Local!Models
  BY <1>1 DEF Local!ToSet
<1>3. tab \in [Tasks -> [at: TabPlaces, on: Nat]]
  BY DEF MachineInv, BrowserInv, TabTypes
<1>4. \A t \in Tasks :
        /\ gpu[t].at \in {"idle", "sweep", "unloading", "measured", "loading", "using"}
        /\ tab[t].at \in {"idle", "launching", "page", "tidying", "closing"}
  BY <1>1, <1>3 DEF GpuCalls, Places, TabPlaces
<1>5. /\ named \in 0..MaxBlocks /\ mapped \in [Processes -> 0..MaxBlocks]
      /\ tracked \in [Processes -> 0..MaxBlocks] /\ cached \in BOOLEAN /\ torn \subseteq 1..MaxBlocks
      /\ writing \in [Processes -> 0..MaxTexts] /\ Len(texts) <= MaxTexts
  BY DEF ShmInv, ShmTyped, MachineTyped, BlocksTyped
<1>6. launches \in Nat /\ launches <= MaxBlocks
  <2>1. Cardinality(Launching) \in Nat
    BY FS_CardinalityType DEF MachineTyped, BrowsersCounted
  <2> QED BY <2>1, MachineAssumption DEF MachineTyped, BrowsersCounted
<1>7. browser \in 0..MaxBlocks /\ live \subseteq 1..MaxBlocks /\ launches \in 0..MaxBlocks /\ raced \in BOOLEAN
  BY <1>6, MachineAssumption DEF MachineTyped, BrowsersCounted
<1> QED BY <1>1, <1>2, <1>4, <1>5, <1>7 DEF Local!TypeOK

-----------------------------------------------------------------------------
(* The composition. *)

\* With threads that decide, the bus is another: only that on one loop is sound.
OnOneLoop == scenario = "loop bus" => BusInv
CoordinationInv == LimiterInv /\ BreakerInv /\ PoolInv /\ MachineInv /\ OnOneLoop
Composed ==
  <<scenario, vars, breakerVars, busVars, poolVars, localVars, storeVars, archiveVars, lookupVars>>

\* Everything starts as its component says.
LEMMA CoordinationStarts == CoordinationInit => CoordinationInv
  BY LimiterStarts, BreakerStarts, PoolStarts, GpuStarts, BlocksStart, BrowserStarts, BusStarts
  DEF CoordinationInit, CoordinationInv, MachineInv, OnOneLoop

\* A step of one component leaves the others as they are.
LEMMA CoordinationStep ==
  ASSUME CoordinationInv, [CoordinationNext]_Composed
  PROVE  CoordinationInv'
<1>1. [Next]_vars
  BY DEF CoordinationNext, Composed
<1>2. [Breaker!Next]_breakerVars
  BY DEF CoordinationNext, Composed
<1>3. [Pool!Next]_poolVars
  BY DEF CoordinationNext, Composed
<1>4. Local!GpuNext \/ Local!BlockNext \/ Local!BrowserNext \/ UNCHANGED localVars
  BY DEF CoordinationNext, Composed, OnTheMachine
<1>5. scenario' = "loop bus" => scenario = "loop bus" /\ [LoopBus!Next]_busVars
  BY DEF CoordinationNext, Composed, Deciding
<1>6. OnOneLoop'
  BY <1>5, BusStep DEF OnOneLoop, CoordinationInv
<1>7. LimiterInv' /\ BreakerInv' /\ PoolInv' /\ MachineInv'
  BY <1>1, <1>2, <1>3, <1>4, LimiterStep, BreakerStep, PoolStep, MachineStep DEF CoordinationInv
<1> QED BY <1>6, <1>7 DEF CoordinationInv

\* The invariant holds in every behaviour.
LEMMA CoordinationKept == CoordinationSpec => []CoordinationInv
<1>1. CoordinationInv /\ [CoordinationNext]_Composed => CoordinationInv'
  BY CoordinationStep
<1> QED BY <1>1, CoordinationStarts, PTL DEF CoordinationSpec, Composed

\* The limiter (obase.rate_limit.RateLimiter.acquire) starts no more than rate
\* calls within any period, refuses only what the full window cannot admit before
\* its deadline, and lets nobody sleep on while there is room.
THEOREM LimiterIsExact == CoordinationSpec => []LimiterKeepsTime
<1>1. CoordinationInv => LimiterKeepsTime
  BY LimiterKept DEF CoordinationInv
<1> QED BY <1>1, CoordinationKept, PTL

\* The breaker (obase.circuit_breaker.CircuitBreaker) is closed exactly while
\* fewer than failure_threshold failures came since the last success or reset,
\* however late the answers of calls admitted before are.
THEOREM BreakerCounts == CoordinationSpec => []ClosedWhileFewFailures
<1>1. CoordinationInv => ClosedWhileFewFailures
  BY DEF CoordinationInv, BreakerInv, ClosedWhileFewFailures
<1> QED BY <1>1, CoordinationKept, PTL

\* A container of the pool has one user at most, a busy slot has a user or a call
\* in progress, and overlapping acquires overfill the pool by one slot each at
\* most; the GPU holds what fits and what is in use; blocks can be freed; the
\* runner knows its browser (docker_pool, gpu, posix_shm_allocator,
\* kv_cache_shared_memory, browser_runner).
THEOREM UsersHaveResources == CoordinationSpec => []ResourcesHaveUsers
<1>1. CoordinationInv => ResourcesHaveUsers
  BY PoolKept, MachineKept DEF CoordinationInv, ResourcesHaveUsers
<1> QED BY <1>1, CoordinationKept, PTL

\* On one event loop nobody sleeps through a decision: the safety half of
\* DecisionDelivered (hitl_signal_bus.HitlSignalBus.wait_for_decision, _decide).
NobodyMissesADecision == scenario = "loop bus" => LoopBus!NoLostWakeup
THEOREM LoopWakesWaiters == CoordinationSpec => []NobodyMissesADecision
<1>1. CoordinationInv => NobodyMissesADecision
  BY DEF CoordinationInv, OnOneLoop, BusInv, NobodyMissesADecision
<1> QED BY <1>1, CoordinationKept, PTL

=============================================================================

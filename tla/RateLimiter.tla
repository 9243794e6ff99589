---------------------------- MODULE RateLimiter ----------------------------
(***************************************************************************)
(* obase.rate_limit.RateLimiter: a sliding window of grant times behind an *)
(* asyncio lock.  Whoever holds the lock sleeps while holding it, so the   *)
(* others queue in order of arrival without looking at their deadlines.    *)
(*                                                                         *)
(* Time is discrete and passes only when no coroutine is ready to run; the *)
(* extra 1e-4 of the sleep only decides ties.                              *)
(*                                                                         *)
(* A definition named X_Slip is X with a slip a programmer could make; the *)
(* properties are checked to notice it.  Nothing else uses it.             *)
(***************************************************************************)
EXTENDS Naturals, Sequences

CONSTANTS
  Rate, Period,   \* at most Rate grants in any Period
  Timeouts,       \* the timeouts callers use
  Patient,        \* the deadline of a call without timeout
  MaxCalls,       \* bound: calls of acquire
  MaxTime         \* bound: the clock

ASSUME LimitsAssumption ==
  /\ Rate \in Nat \ {0} /\ Period \in Nat \ {0}
  /\ MaxCalls \in Nat /\ MaxTime \in Nat
  /\ Timeouts \subseteq Nat /\ Patient \in Nat /\ Patient > MaxTime + Period

VARIABLES
  now,
  stamps,    \* _timestamps, oldest first
  queue,     \* calls inside acquire; the first holds the lock
  wake,      \* until when the first one sleeps
  grants,    \* history: times of all grants
  refusals,  \* history: what was refused, after how many grants
  calls

vars == <<now, stamps, queue, wake, grants, refusals, calls>>

Init ==
  /\ now = 0 /\ stamps = <<>> /\ queue = <<>> /\ wake = 0
  /\ grants = <<>> /\ refusals = {} /\ calls = 0

\* The stamps the window still holds: the oldest go, as long as they are out of it.
HeldAt(time) ==
  LET gone == CHOOSE n \in 0..Len(stamps) :
                /\ \A i \in 1..n : stamps[i] + Period <= time
                /\ n < Len(stamps) => stamps[n + 1] + Period > time
  IN  SubSeq(stamps, gone + 1, Len(stamps))
Live_Early == HeldAt(now + 1)
Live == HeldAt(now)
Ready == queue # <<>> /\ wake <= now
Full == Len(Live) >= Rate
Leave(i) == queue' = SubSeq(queue, 1, i - 1) \o SubSeq(queue, i + 1, Len(queue))

\* acquire is called; the deadline is fixed before the lock is awaited.
Arrive ==
  /\ calls < MaxCalls /\ calls' = calls + 1
  /\ \E d \in {now + t : t \in Timeouts} \cup {Patient} :
       queue' = Append(queue, [deadline |-> d])
  /\ UNCHANGED <<now, stamps, wake, grants, refusals>>

Grant ==
  /\ Ready /\ ~Full
  /\ stamps' = Append(Live, now) /\ grants' = Append(grants, now)
  /\ Leave(1)
  /\ UNCHANGED <<now, wake, refusals, calls>>

\* The oldest stamp leaves the window at or after the deadline.
TooLate == Live[1] + Period >= queue[1].deadline
Refuse ==
  /\ Ready /\ Full /\ TooLate
  /\ stamps' = Live
  /\ refusals' = refusals \cup {[deadline |-> queue[1].deadline, after |-> Len(grants)]}
  /\ Leave(1)
  /\ UNCHANGED <<now, wake, grants, calls>>

Until == Live[1] + Period
Sleep ==
  /\ Ready /\ Full /\ ~TooLate
  /\ stamps' = Live /\ wake' = Until
  /\ UNCHANGED <<now, queue, grants, refusals, calls>>

\* A waiting coroutine is cancelled; the lock passes on.
Cancel ==
  /\ \E i \in DOMAIN queue : Leave(i) /\ wake' = IF i = 1 THEN 0 ELSE wake
  /\ UNCHANGED <<now, stamps, grants, refusals, calls>>

Tick ==
  /\ ~Ready /\ now < MaxTime /\ now' = now + 1
  /\ UNCHANGED <<stamps, queue, wake, grants, refusals, calls>>

Next == Arrive \/ Grant \/ Refuse \/ Sleep \/ Cancel \/ Tick

Spec == Init /\ [][Next]_vars

-----------------------------------------------------------------------------
\* Every variable has its type; the window never holds more than Rate stamps.
TypeOK ==
  /\ now \in 0..MaxTime /\ wake \in 0..(MaxTime + Period)
  /\ stamps \in Seq(0..MaxTime) /\ Len(stamps) <= Rate
  /\ grants \in Seq(0..MaxTime)
  /\ \A i \in DOMAIN queue : queue[i].deadline \in Nat
  /\ calls \in 0..MaxCalls

\* Any Period of time sees at most Rate grants.
WindowRespected ==
  \A i \in DOMAIN grants : i + Rate <= Len(grants) => grants[i + Rate] >= grants[i] + Period

\* A call is refused only when the window stays full up to its deadline.
RefusalIsEarned ==
  \A r \in refusals : r.after >= Rate /\ grants[r.after - Rate + 1] + Period >= r.deadline

\* Nobody sleeps on while the window has room: a slot that frees up is used
\* at once, whatever happened to the calls ahead.
RoomIsUsed == queue # <<>> /\ wake > now => Full

=============================================================================

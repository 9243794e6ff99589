----------------------------- MODULE Collection -----------------------------
(***************************************************************************)
(* The data loops of obase: BaseExternalCollector (collector_base) fetches *)
(* and writes on a schedule, BaseEnvironProcessor (environ_processor_base) *)
(* loads what was collected, computes and writes, and ts_writer stores a   *)
(* computation as rows of several tables in one transaction.               *)
(*                                                                         *)
(* External: fetch, write, load_external, compute_environ, write_environ,  *)
(* the diagnostic writer and the session, each of which may answer, answer *)
(* nothing, or raise.  Data are abstracted to "there is some"; the         *)
(* diagnostic counters, written after the fact, are left out.              *)
(***************************************************************************)
EXTENDS Naturals

CONSTANTS
  MaxRetries,   \* _MAX_RETRIES
  Rows          \* the rows a computation becomes, all tables together

VARIABLES
  collector,    \* the step of its loop
  attempt,      \* the fetch attempt of this cycle, from 0
  collected,    \* write has stored something
  processor,    \* the step of its loop
  session,      \* ts_writer: "closed" or "open"
  pendingRows,  \* rows executed in the open transaction
  table         \* rows committed of the latest computation

collectorVars == <<collector, attempt, collected>>
writerVars == <<session, pendingRows, table>>
vars == <<collectorVars, processor, writerVars>>

Init ==
  /\ collector = "fetch" /\ attempt = 0 /\ collected = FALSE
  /\ processor = "delay"
  /\ session = "closed" /\ pendingRows = {} /\ table = {}

-----------------------------------------------------------------------------
\* run_once of the collector: fetch() up to MaxRetries times, and one write().
\* What a failure leads to is the diagnostic counter and the sleep.
Collector(from, to) ==
  collector = from /\ collector' = to /\ UNCHANGED <<processor, writerVars>>
Fetched == Collector("fetch", "write") /\ UNCHANGED <<attempt, collected>>
FetchedNothing == Collector("fetch", "sleep") /\ UNCHANGED <<attempt, collected>>

LastAttempt == attempt = MaxRetries - 1
NextAttempt == attempt + 1
FetchRaised ==
  \/ LastAttempt /\ Collector("fetch", "count") /\ UNCHANGED <<attempt, collected>>
  \/ ~LastAttempt /\ Collector("fetch", "backoff") /\ attempt' = NextAttempt /\ UNCHANGED collected
BackedOff == Collector("backoff", "fetch") /\ UNCHANGED <<attempt, collected>>

Wrote(ok) ==
  Collector("write", "count") /\ collected' = (collected \/ ok) /\ UNCHANGED attempt
Counted == Collector("count", "sleep") /\ UNCHANGED <<attempt, collected>>

\* run: the next cycle, after the interval.
NextCycle == Collector("sleep", "fetch") /\ attempt' = 0 /\ UNCHANGED collected

\* Cancellation goes through every await; run lets it pass.
StopCollector ==
  collector # "stopped" /\ Collector(collector, "stopped") /\ UNCHANGED <<attempt, collected>>

-----------------------------------------------------------------------------
\* The processor: an empty answer, or an exception, ends its cycle.
Processor(from, to) ==
  processor = from /\ processor' = to /\ UNCHANGED <<collectorVars, writerVars>>
Started == Processor("delay", "load")
Loaded == collected /\ Processor("load", "compute")
Computed == Processor("compute", "write")
Written == Processor("write", "count")
Skipped == \E s \in {"load", "compute"} : Processor(s, "sleep")
Failed == \E s \in {"load", "compute", "write"} : Processor(s, "count")
Diagnosed == Processor("count", "sleep")
Again == Processor("sleep", "load")
StopProcessor == processor # "stopped" /\ Processor(processor, "stopped")

-----------------------------------------------------------------------------
\* ts_writer: one INSERT after the other and one commit; whatever is raised
\* closes the session without it and is logged.
Writer == UNCHANGED <<collectorVars, processor>>
OpenSession ==
  Writer /\ session = "closed" /\ session' = "open" /\ pendingRows' = {} /\ table' = {}
Execute(r) ==
  /\ Writer /\ session = "open" /\ r \notin pendingRows
  /\ pendingRows' = pendingRows \cup {r} /\ UNCHANGED <<session, table>>
Commit ==
  /\ Writer /\ session = "open" /\ pendingRows = Rows
  /\ table' = pendingRows /\ session' = "closed" /\ UNCHANGED pendingRows
Raised == Writer /\ session = "open" /\ session' = "closed" /\ UNCHANGED <<pendingRows, table>>

\* The event loop resumes what was awaited.
CollectorStep ==
  Fetched \/ FetchedNothing \/ FetchRaised \/ BackedOff \/ Counted \/ \E ok \in BOOLEAN : Wrote(ok)
ProcessorStep == Started \/ Loaded \/ Computed \/ Written \/ Skipped \/ Failed \/ Diagnosed

Next ==
  \/ CollectorStep \/ NextCycle \/ StopCollector
  \/ ProcessorStep \/ Again \/ StopProcessor
  \/ OpenSession \/ (\E r \in Rows : Execute(r)) \/ Commit \/ Raised

Spec == Init /\ [][Next]_vars
Fairness == WF_vars(CollectorStep) /\ WF_vars(ProcessorStep)

-----------------------------------------------------------------------------
\* Every variable has its type; a computation is stored whole or not at all.
TypeOK ==
  /\ collector \in {"fetch", "backoff", "write", "count", "sleep", "stopped"}
  /\ attempt \in 0..(MaxRetries - 1) /\ collected \in BOOLEAN
  /\ processor \in {"delay", "load", "compute", "write", "count", "sleep", "stopped"}
  /\ session \in {"closed", "open"} /\ pendingRows \subseteq Rows
  /\ table \in {{}, Rows}

\* No failure of what it calls keeps a loop from its next cycle: each comes to
\* the sleep between two, unless it is cancelled.
LoopsGoOn ==
  /\ collector \in {"fetch", "backoff", "write", "count"} ~> collector \in {"sleep", "stopped"}
  /\ processor \in {"load", "compute", "write", "count"} ~> processor \in {"sleep", "stopped"}

=============================================================================

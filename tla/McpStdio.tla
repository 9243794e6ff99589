------------------------------ MODULE McpStdio ------------------------------
(***************************************************************************)
(* obase.mcp_stdio.StdioMcpClient: coroutines share one client of a server *)
(* process, which is spawned, crashes, is closed and is spawned again.     *)
(* Requests are written under a lock; a read loop matches the responses,   *)
(* which come in any order, by their identifier.                           *)
(*                                                                         *)
(* Abstracted: a request is the number of the call that made it, and what  *)
(* a response says is that number.  The owner of the client closes it      *)
(* before starting it again.                                               *)
(*                                                                         *)
(* A definition named X_Slip is X with a slip a programmer could make; the *)
(* properties are checked to notice it.  Nothing else uses it.             *)
(***************************************************************************)
EXTENDS Naturals, FiniteSets

CONSTANTS
  Callers,       \* coroutines that call list_tools and call_tool
  Starter,       \* the coroutine that calls start and close
  NoCaller,      \* nobody
  MaxRequests,   \* bound: requests written
  MaxSpawns      \* bound: processes spawned

VARIABLES
  proc,        \* "none", "alive" or "dead"
  started,     \* _started
  loop,        \* the read loop: "off", "on" or "cancelled"
  leftover,    \* _buf holds a frame a dead process left unfinished
  lock,        \* the writer that holds _lock
  pending,     \* _pending: identifiers with a future
  stdin,       \* what the process has to answer: <<identifier, call>>
  stdout,      \* what it has answered
  calls,       \* requests written so far
  pc,          \* per coroutine, how far its request is
  rid, mine,   \* per coroutine, the identifier and the number of its request
  answer,      \* per coroutine, the number its answer is about, 0 for an error
  spawns, shut \* ghosts: processes spawned, close was called on this one

vars == <<proc, started, loop, leftover, lock, pending, stdin, stdout, calls,
          pc, rid, mine, answer, spawns, shut>>

Coroutines == Callers \cup {Starter}

Init ==
  /\ proc = "none" /\ started = FALSE /\ loop = "off" /\ leftover = FALSE /\ lock = NoCaller
  /\ pending = {} /\ stdin = {} /\ stdout = {} /\ calls = 0
  /\ pc = [c \in Coroutines |-> "idle"]
  /\ rid = [c \in Coroutines |-> 0] /\ mine = [c \in Coroutines |-> 0]
  /\ answer = [c \in Coroutines |-> 0]
  /\ spawns = 0 /\ shut = FALSE

At(c, p) == pc' = [pc EXCEPT ![c] = p]

\* start(): a process, its read loop, and the initialize request.
Start ==
  /\ ~started /\ proc # "alive" /\ loop = "off" /\ spawns < MaxSpawns
  /\ pc[Starter] = "idle" /\ At(Starter, "locking")
  /\ proc' = "alive" /\ loop' = "on" /\ stdin' = {} /\ stdout' = {}
  /\ spawns' = spawns + 1 /\ shut' = FALSE
  /\ UNCHANGED <<started, leftover, lock, pending, calls, rid, mine, answer>>

\* _request: refused when the process has ended, else it waits for the lock.
Call(c) ==
  /\ c # Starter /\ pc[c] = "idle" /\ proc = "alive"
  /\ At(c, "locking")
  /\ UNCHANGED <<proc, started, loop, leftover, lock, pending, stdin, stdout, calls, rid, mine, answer, spawns, shut>>

RequestId == calls + 1
Write(c) ==
  /\ pc[c] = "locking" /\ lock = NoCaller /\ calls < MaxRequests
  /\ lock' = c /\ At(c, "draining")
  /\ calls' = calls + 1
  /\ pending' = pending \cup {RequestId}
  /\ rid' = [rid EXCEPT ![c] = RequestId] /\ mine' = [mine EXCEPT ![c] = calls']
  /\ stdin' = IF proc = "alive" THEN stdin \cup {<<RequestId, calls'>>} ELSE stdin
  /\ answer' = [answer EXCEPT ![c] = 0]
  /\ UNCHANGED <<proc, started, loop, leftover, stdout, spawns, shut>>

\* drain() raises once the pipe is broken; the future stays in _pending.  A
\* future that was settled meanwhile answers at once.
Drained(c) ==
  /\ pc[c] = "draining" /\ lock' = NoCaller
  /\ At(c, IF proc = "dead" THEN "failed" ELSE "waiting")
  /\ UNCHANGED <<proc, started, loop, leftover, pending, stdin, stdout, calls, rid, mine, answer, spawns, shut>>

\* The caller resumes with the result or the error its future holds.
Settled(c) == rid[c] \notin pending
Return(c) ==
  /\ pc[c] = "waiting" /\ Settled(c)
  /\ At(c, IF answer[c] = 0 THEN "failed" ELSE "answered")
  /\ started' = (started \/ (c = Starter /\ answer[c] # 0))
  /\ UNCHANGED <<proc, loop, leftover, lock, pending, stdin, stdout, calls, rid, mine, answer, spawns, shut>>

TimedOut(c) ==
  /\ pc[c] = "waiting" /\ ~Settled(c) /\ At(c, "failed")
  /\ UNCHANGED <<proc, started, loop, leftover, lock, pending, stdin, stdout, calls, rid, mine, answer, spawns, shut>>

Again(c) ==
  /\ pc[c] \in {"answered", "failed"} /\ At(c, "idle")
  /\ UNCHANGED <<proc, started, loop, leftover, lock, pending, stdin, stdout, calls, rid, mine, answer, spawns, shut>>

-----------------------------------------------------------------------------
\* The process answers in any order, and may end in the middle of an answer.
Respond(r) ==
  /\ proc = "alive" /\ r \in stdin
  /\ stdin' = stdin \ {r} /\ stdout' = stdout \cup {r}
  /\ UNCHANGED <<proc, started, loop, leftover, lock, pending, calls, pc, rid, mine, answer, spawns, shut>>

Exit ==
  /\ proc = "alive" /\ proc' = "dead" /\ stdin' = {}
  /\ leftover' \in {leftover, leftover \/ stdin # {}}
  /\ UNCHANGED <<started, loop, lock, pending, stdout, calls, pc, rid, mine, answer, spawns, shut>>

\* _dispatch: the future of the identifier, if it is still waited for.
\* Behind an unfinished frame the next ones are read as its body, and after it
\* as nonsense, unless their bytes happen to end it.
Answered(r) == {c \in Coroutines : pc[c] \in {"draining", "waiting"} /\ rid[c] = r[1]}
Dispatch(r) ==
  /\ loop = "on" /\ r \in stdout
  /\ stdout' = stdout \ {r}
  /\ IF leftover
     THEN leftover' \in BOOLEAN /\ UNCHANGED <<pending, answer>>
     ELSE /\ pending' = pending \ {r[1]}
          /\ answer' = [c \in Coroutines |->
               IF r[1] \in pending /\ c \in Answered(r) THEN r[2] ELSE answer[c]]
          /\ UNCHANGED leftover
  /\ UNCHANGED <<proc, started, loop, lock, stdin, calls, pc, rid, mine, spawns, shut>>

\* The loop ends at the end of the stream or when it is cancelled: it fails
\* every pending future and forgets them.
FailPending_Slip == pending' = pending
FailPending == pending' = {}
EndLoop ==
  /\ loop = "cancelled" \/ (loop = "on" /\ proc = "dead" /\ stdout = {})
  /\ loop' = "off" /\ FailPending
  /\ UNCHANGED <<proc, started, leftover, lock, stdin, stdout, calls, pc, rid, mine, answer, spawns, shut>>

\* close(): the loop is cancelled, the process ends soon.
Close ==
  /\ pc[Starter] = "idle" /\ proc # "none" /\ ~shut
  /\ loop' = IF loop = "on" THEN "cancelled" ELSE loop
  /\ started' = FALSE /\ shut' = TRUE
  /\ UNCHANGED <<proc, leftover, lock, pending, stdin, stdout, calls, pc, rid, mine, answer, spawns>>

Next ==
  \/ Start \/ Close \/ Exit \/ EndLoop
  \/ \E c \in Coroutines :
       Call(c) \/ Write(c) \/ Drained(c) \/ Return(c) \/ TimedOut(c) \/ Again(c)
  \/ \E r \in stdin : Respond(r)
  \/ \E r \in stdout : Dispatch(r)

Spec == Init /\ [][Next]_vars

-----------------------------------------------------------------------------
\* Every variable has its type.
TypeOK ==
  /\ proc \in {"none", "alive", "dead"} /\ loop \in {"off", "on", "cancelled"}
  /\ {started, leftover, shut} \subseteq BOOLEAN
  /\ lock \in Coroutines \cup {NoCaller}
  /\ pending \subseteq 1..MaxRequests
  /\ stdin \cup stdout \subseteq (1..MaxRequests) \X (1..MaxRequests)
  /\ pc \in [Coroutines -> {"idle", "locking", "draining", "waiting", "answered", "failed"}]
  /\ {rid, mine, answer} \subseteq [Coroutines -> 0..MaxRequests]
  /\ calls \in 0..MaxRequests /\ spawns \in 0..MaxSpawns

\* A coroutine is answered with the response to the request it made, though
\* requests that timed out are answered late and the process is replaced.
ResponsesMatch ==
  \A c \in Coroutines : pc[c] = "answered" => answer[c] = mine[c]

\* When the process has died under its callers and the loop has seen the end of
\* its output, no caller is left to wait for its timeout.
NobodyWaitsOnADeadServer ==
  loop = "off" /\ ~shut => \A c \in Coroutines : pc[c] = "waiting" => Settled(c)

=============================================================================

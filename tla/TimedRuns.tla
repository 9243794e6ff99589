----------------------------- MODULE TimedRuns -----------------------------
(***************************************************************************)
(* Calls that run something in a child and wait for it with a deadline:    *)
(* the six operations of SymPyRuntime (a forked worker and a queue), the   *)
(* local and the Docker runner of sandbox_runner, ZeroEgressSandbox,       *)
(* ffmpeg, the Lean and CrossHair adapters, and LocalSandboxPool.          *)
(*                                                                         *)
(* A behaviour is one call of one of them (runner).  What a child computes *)
(* is only whether it ended well; whether and when it ends is open.  What  *)
(* the caller is told is how (returned or raised) and what.                *)
(*                                                                         *)
(* External: the child processes, Docker.  A kill ends the process that    *)
(* was started; processes it started itself are not in the model.          *)
(*                                                                         *)
(* A definition named X_Slip is X with a slip a programmer could make; the *)
(* properties are checked to notice it.  Nothing else uses it.             *)
(***************************************************************************)
EXTENDS Naturals

CONSTANTS MaxLength, MaxDepth  \* max_string_length, max_expression_depth

VARIABLES
  runner,   \* what was called
  present,  \* the program, library or image it needs is there
  code,     \* what it was given
  phase,    \* where the call is
  child,    \* the child: none, running, well or badly (its end), killed
  queued,   \* the result in the worker's queue (SymPyRuntime)
  overdue,  \* the deadline has passed
  temp,     \* there is a temporary file
  box,      \* the container: none, created, started
  told      \* how the call ended and what it said

vars == <<runner, present, code, phase, child, queued, overdue, temp, box, told>>

\* Each of these loads sympy, validates its expression, has a worker compute on
\* it, and answers the result or the error.
Solving == {"solve", "diff"}
Integrating == {"integrate", "simplify"}
Printing == {"latex"}
Sympy == {"evaluate"} \cup Solving \cup Integrating \cup Printing
Awaiting == {"local", "egress", "ffmpeg"}        \* asyncio subprocesses
Blocking == {"lean", "file", "source", "pool"}   \* subprocess.run
Runners == Sympy \cup Awaiting \cup Blocking \cup {"docker"}
WithTemp == {"lean", "source"}

-----------------------------------------------------------------------------
\* An expression: how long and deep it is, whether it parses and is a
\* statement, and what it is made of.
Nodes == {"sum", "import sympy", "import os", "name open", "attribute _x", "call eval", "lambda", "for"}
Codes == [length: 1..MaxLength + 1, depth: 1..MaxDepth + 1, parses: BOOLEAN, statement: BOOLEAN,
          node: Nodes]
Plain == [length |-> 1, depth |-> 1, parses |-> TRUE, statement |-> FALSE, node |-> "sum"]

\* _SafeVisitor sees every node; importing an allowed module passes it.
Forbidden == Nodes \ {"sum", "import sympy"}
Visited(c) == c.depth <= MaxDepth /\ c.node \notin Forbidden
\* _validate_ast: the visitor comes between parsing statements and parsing an
\* expression.
Validate(c) ==
  CASE c.length > MaxLength -> "restricted"
    [] c.length <= MaxLength /\ ~c.parses -> "syntax"
    [] c.length <= MaxLength /\ c.parses /\ ~Visited(c) -> "restricted"
    [] OTHER -> IF c.statement THEN "syntax" ELSE "fine"

Returned(what) == [how |-> "returned", what |-> what]
Raised(what) == [how |-> "raised", what |-> what]
Untold == [how |-> "not", what |-> "yet"]
Tell(t) == told' = t /\ phase' = "over"

\* Statements that import or loop are no expressions; others may be.
Init ==
  /\ runner \in Runners /\ present \in BOOLEAN
  /\ code \in IF runner \in Sympy
              THEN {c \in Codes : c.node \in {"import sympy", "import os", "for"} => c.statement}
              ELSE {Plain}
  /\ phase = "called" /\ child = "none" /\ queued = "nothing" /\ overdue = FALSE
  /\ temp = FALSE /\ box = "none" /\ told = Untold

-----------------------------------------------------------------------------
\* Before a child is started.  evaluate parses first and answers a syntax error;
\* the others load sympy first and raise it.
RefuseExpression ==
  /\ phase = "called" /\ runner \in Sympy /\ (~present \/ Validate(code) # "fine")
  /\ CASE runner = "evaluate" /\ Validate(code) = "syntax" -> Tell(Returned("bad"))
       [] runner = "evaluate" /\ Validate(code) = "restricted" -> Tell(Raised("refused"))
       [] runner # "evaluate" /\ present -> Tell(Raised("refused"))
       [] OTHER -> Tell(Raised("missing"))
  /\ UNCHANGED <<runner, present, code, child, queued, overdue, temp, box>>
\* Empty commands are refused, and so are those the command check knows.
RefuseCommand ==
  /\ phase = "called" /\ runner \in {"egress", "lean"} /\ ~temp
  /\ Tell(Raised("refused")) \/ (runner = "egress" /\ Tell(Returned("refused")))
  /\ UNCHANGED <<runner, present, code, child, queued, overdue, temp, box>>

MakeTemp ==
  /\ phase = "called" /\ runner \in WithTemp /\ ~temp /\ temp' = TRUE
  /\ UNCHANGED <<runner, present, code, phase, child, queued, overdue, box, told>>
Ready ==
  /\ phase = "called" /\ (runner \in WithTemp => temp)
  /\ runner \in Sympy => present /\ Validate(code) = "fine"

\* The temporary file is removed however the call ends.
End(t) == Tell(t) /\ temp' = FALSE
NotStarted(r) ==
  IF r \in {"lean", "file", "source"} THEN Returned("missing") ELSE Raised("missing")
StartFails ==
  /\ Ready /\ ~present /\ runner \notin Sympy /\ End(NotStarted(runner))
  /\ box' \in IF runner = "docker" THEN {"none", "created"} ELSE {box}
  /\ UNCHANGED <<runner, present, code, child, queued, overdue>>
Start ==
  /\ Ready /\ present /\ phase' = "waiting" /\ child' = "running"
  /\ box' = IF runner = "docker" THEN "started" ELSE box
  /\ UNCHANGED <<runner, present, code, queued, overdue, temp, told>>

\* The child ends by itself, a worker after putting its result, or without.
WorkerPuts ==
  /\ child = "running" /\ runner \in Sympy /\ queued = "nothing"
  /\ phase \in {"waiting", "empty", "verdict"}
  /\ queued' \in {"well", "badly"}
  /\ UNCHANGED <<runner, present, code, phase, child, overdue, temp, box, told>>
ChildEnds ==
  /\ child = "running" /\ phase # "over"
  /\ IF queued # "nothing" THEN child' = queued ELSE child' \in {"well", "badly"}
  /\ runner \in Sympy /\ queued = "nothing" => child' = "badly"
  /\ UNCHANGED <<runner, present, code, phase, queued, overdue, temp, box, told>>
DeadlinePasses ==
  /\ phase \in {"waiting", "empty"} /\ ~overdue /\ overdue' = TRUE
  /\ UNCHANGED <<runner, present, code, phase, child, queued, temp, box, told>>

-----------------------------------------------------------------------------
\* _run_with_timeout: poll the queue; when it was empty, see whether the worker
\* is alive, and give up when it is not, or when the deadline has passed.
PollTakes ==
  /\ runner \in Sympy /\ phase = "waiting" /\ queued # "nothing" /\ phase' = "taken"
  /\ UNCHANGED <<runner, present, code, child, queued, overdue, temp, box, told>>
PollEmpty ==
  /\ runner \in Sympy /\ phase = "waiting" /\ (queued = "nothing" \/ overdue)
  /\ phase' = IF overdue THEN "verdict" ELSE "empty"
  /\ UNCHANGED <<runner, present, code, child, queued, overdue, temp, box, told>>
AskAlive ==
  /\ phase = "empty" /\ phase' = IF child = "running" THEN "waiting" ELSE "verdict"
  /\ UNCHANGED <<runner, present, code, child, queued, overdue, temp, box, told>>
Verdict_Slip ==
  /\ phase = "verdict" /\ Tell(Raised("timeout"))
  /\ child' = IF child = "running" THEN "killed" ELSE child
  /\ UNCHANGED <<runner, present, code, queued, overdue, temp, box>>
Verdict ==
  /\ phase = "verdict"
  /\ IF child = "running" THEN child' = "killed" /\ Tell(Raised("timeout"))
                          ELSE Tell(Raised("lost")) /\ UNCHANGED child
  /\ UNCHANGED <<runner, present, code, queued, overdue, temp, box>>
\* With a result in hand: join, terminate what is still there, and answer;
\* evaluate simplifies first, here and without a deadline.
Join ==
  /\ phase = "taken"
  /\ child' = IF child = "running" THEN "killed" ELSE child
  /\ \/ queued = "badly" /\ Tell(Returned("bad"))
     \/ queued = "well" /\ Tell(Returned("good"))
     \/ queued = "well" /\ runner = "evaluate" /\ phase' = "simplifying" /\ UNCHANGED told
  /\ UNCHANGED <<runner, present, code, queued, overdue, temp, box>>
Simplify ==
  /\ phase = "simplifying" /\ (Tell(Returned("good")) \/ Tell(Returned("bad")))
  /\ UNCHANGED <<runner, present, code, child, queued, overdue, temp, box>>

-----------------------------------------------------------------------------
\* The others await the end of the process.  Of what it ended badly, ffmpeg
\* raises; ffmpeg also raises when its output is not there.
Bad(r) == IF r = "ffmpeg" THEN Raised("bad") ELSE Returned("bad")
Ended ==
  /\ runner \notin Sympy \cup {"docker"} /\ phase = "waiting" /\ child \in {"well", "badly"}
  /\ \/ child = "well" /\ End(Returned("good"))
     \/ (child = "badly" \/ runner = "ffmpeg") /\ End(Bad(runner))
  /\ UNCHANGED <<runner, present, code, child, queued, overdue, box>>
Expired ==
  /\ runner \notin Sympy \cup {"docker"} /\ phase = "waiting" /\ overdue
  /\ child' = IF child = "running" THEN "killed" ELSE child
  /\ End(IF runner = "ffmpeg" THEN Raised("timeout") ELSE Returned("timeout"))
  /\ UNCHANGED <<runner, present, code, queued, overdue, box>>
\* The coroutine is cancelled where it awaits; nothing kills the child.
Cancelled ==
  /\ runner \in Awaiting /\ phase = "waiting" /\ Tell(Raised("cancelled"))
  /\ UNCHANGED <<runner, present, code, child, queued, overdue, temp, box>>

\* DockerSandboxRunner: whatever makes wait fail is a timeout, killing what has
\* ended is an error, and the container is removed in the end, unless that fails.
Remove == box' \in {"none", box}
DockerEnded ==
  /\ runner = "docker" /\ phase = "waiting" /\ child \in {"well", "badly"} /\ Remove
  /\ Tell(Returned(IF child = "well" THEN "good" ELSE "bad"))
  /\ UNCHANGED <<runner, present, code, child, queued, overdue, temp>>
DockerWaitFails ==
  /\ runner = "docker" /\ phase = "waiting"
  /\ child' = IF child = "running" THEN "killed" ELSE child
  /\ Remove
  /\ Tell(Returned("timeout")) \/ (child # "running" /\ Tell(Raised("bad")))
  /\ UNCHANGED <<runner, present, code, queued, overdue, temp>>

CallerNext ==
  \/ RefuseExpression \/ RefuseCommand \/ MakeTemp \/ Start \/ StartFails
  \/ PollTakes \/ PollEmpty \/ AskAlive \/ Verdict \/ Join \/ Ended \/ Expired
  \/ DockerEnded \/ DockerWaitFails
Next == CallerNext \/ Simplify \/ Cancelled \/ WorkerPuts \/ ChildEnds \/ DeadlinePasses

\* The caller runs and time passes; nothing says that a child ends.
Fairness == WF_vars(CallerNext) /\ WF_vars(DeadlinePasses)
Spec == Init /\ [][Next]_vars /\ Fairness

-----------------------------------------------------------------------------
\* Every variable has its type.
TypeOK ==
  /\ runner \in Runners /\ present \in BOOLEAN /\ code \in Codes
  /\ phase \in {"called", "waiting", "empty", "verdict", "taken", "simplifying", "over"}
  /\ child \in {"none", "running", "well", "badly", "killed"}
  /\ queued \in {"nothing", "well", "badly"} /\ overdue \in BOOLEAN /\ temp \in BOOLEAN
  /\ box \in {"none", "created", "started"}
  /\ told \in [how: {"not", "returned", "raised"},
               what: {"yet", "good", "bad", "refused", "missing", "timeout", "lost", "cancelled"}]

\* A call that is over, and was not cancelled, has left no child running and no
\* temporary file, whichever way it ended.
NothingLeft ==
  phase = "over" /\ told.what # "cancelled" => child # "running" /\ ~temp

\* What a call says of its child happened: good when it ended well, a timeout
\* only after the deadline (Docker: whenever waiting failed), nothing at all
\* of a child that was never started.
TrulyTold ==
  /\ told.what = "good" => child = "well" \/ (runner \in Sympy /\ queued = "well")
  /\ told.what = "timeout" => overdue \/ runner = "docker"
  /\ told.what \in {"refused", "missing"} => child = "none"
  /\ child # "none" /\ runner \in Sympy => Validate(code) = "fine"

\* Every call ends, also when its child never does; only evaluate's own
\* simplification has no deadline.
CallsEnd == (phase = "called") ~> (phase \in {"over", "simplifying"})

=============================================================================

----------------------------- MODULE DockerOps -----------------------------
(***************************************************************************)
(* obase.docker: operations on containers, images, networks and volumes by *)
(* way of the Docker SDK, and on compose projects by way of the CLI.  An   *)
(* operation on a container looks it up, acts on what it found, and some   *)
(* look again to report; other callers act in between.  Each answers, or   *)
(* maps the daemon's errors to an error of its own; what it does not catch *)
(* reaches its caller raw.                                                 *)
(*                                                                         *)
(* External: the daemon.  It keeps containers by id, whatever their names; *)
(* every container here uses the one image, network and volume.  A call    *)
(* to it may be refused, or be done and its reply lost.                    *)
(***************************************************************************)
EXTENDS Naturals

CONSTANTS
  Names,     \* container names
  Clients,   \* threads that call an operation each
  MaxIds     \* bound: containers made

VARIABLES
  names,     \* the daemon's: name -> id, 0 for none
  state,     \* per id
  ids,       \* how many ids were given out
  things,    \* which of "image", "network", "volume" there are
  call       \* per client: op, the name and id it is about, step, said (its
             \* answer), and ghosts: done (it changed something), lost (a reply was)

vars == <<names, state, ids, things, call>>

Things == {"image", "network", "volume"}
Turns == {"start", "stop", "restart"}
OnContainer == Turns \cup {"inspect", "logs", "stats", "remove", "force remove", "rename", "exec"}
Compose == {"up", "down", "compose pull"}
Ops ==
  OnContainer \cup Compose \cup
  {"pull", "make network", "make volume", "drop image", "drop network", "drop volume", "create",
   "list containers", "list images", "list networks", "list volumes", "prune", "node info"}

Idle == [op |-> "none", name |-> "none", id |-> 0, step |-> "idle",
         done |-> FALSE, lost |-> FALSE, said |-> "nothing"]

Init ==
  /\ ids = 1 /\ LET one == CHOOSE n \in Names : TRUE IN names = [n \in Names |-> IF n = one THEN 1 ELSE 0]
  /\ state \in [1..MaxIds -> {"absent", "created", "running"}]
  /\ state[1] # "absent" /\ \A i \in 2..MaxIds : state[i] = "absent"
  /\ things \in {Things, {"network", "volume"}}
  /\ call = [c \in Clients |-> Idle]

Here(c, op) == call[c].op = op /\ call[c].step = "do"
Kept == UNCHANGED <<names, state, ids, things>>
Says(c, what, did) ==
  call' = [call EXCEPT ![c].step = "over", ![c].said = what, ![c].done = @ \/ did]
Goes(c, step, did) == call' = [call EXCEPT ![c].step = step, ![c].done = @ \/ did]
Refused(c) == Kept /\ Says(c, "connection", FALSE)
Existing == {i \in 1..ids : state[i] # "absent"}

-----------------------------------------------------------------------------
Call(c, op, n) ==
  /\ call[c].step = "idle"
  /\ call' = [call EXCEPT ![c].op = op, ![c].name = n,
                          ![c].step = IF op \in OnContainer THEN "get" ELSE "do"]
  /\ Kept
\* _make_client cannot connect, or the daemon refuses: node_info answers that it
\* is not reachable, the others raise a connection error.
Unreachable(c) ==
  /\ call[c].step \in {"get", "do"} /\ Kept
  /\ Says(c, IF call[c].op = "node info" THEN "unreachable" ELSE "connection", FALSE)
\* _get_container
GetContainer(c) ==
  /\ call[c].step = "get" /\ Kept
  /\ LET i == names[call[c].name] IN
     IF i = 0 THEN Says(c, "not found", FALSE)
     ELSE call' = [call EXCEPT ![c].id = i, ![c].step = "do"]

\* The reads; inspect reloads instead.
Read(c) == Kept /\ Says(c, IF state[call[c].id] = "absent" THEN "connection" ELSE "ok", FALSE)
Logs(c) == Here(c, "logs") /\ Read(c)
Stats(c) == Here(c, "stats") /\ Read(c)
Inspect(c) == Here(c, "inspect") /\ Kept /\ Goes(c, "reload", FALSE)
ListContainers(c) == Here(c, "list containers") /\ Kept /\ Says(c, "ok", FALSE)
ListImages(c) == Here(c, "list images") /\ Kept /\ Says(c, "ok", FALSE)
ListNetworks(c) == Here(c, "list networks") /\ Kept /\ Says(c, "ok", FALSE)
ListVolumes(c) == Here(c, "list volumes") /\ Kept /\ Says(c, "ok", FALSE)
NodeInfo(c) == Here(c, "node info") /\ Kept /\ Says(c, "ok", FALSE)

\* start, stop and restart of what was found; a container starts on its network.
Turned(op, s) ==
  CASE op = "stop" -> IF s = "running" THEN "exited" ELSE s
    [] OTHER -> "running"
Turn(c) ==
  /\ call[c].op \in Turns /\ call[c].step = "do"
  /\ LET i == call[c].id IN
     IF state[i] = "absent" \/ (call[c].op # "stop" /\ "network" \notin things)
     THEN Refused(c)
     ELSE /\ state' = [state EXCEPT ![i] = Turned(call[c].op, @)]
          /\ Goes(c, "reload", state' # state) /\ UNCHANGED <<names, ids, things>>
\* container.reload(), which no handler is around.
Reload(c) ==
  /\ call[c].step = "reload" /\ Kept
  /\ Says(c, IF state[call[c].id] = "absent" THEN "raw" ELSE "ok", FALSE)

\* docker_container_remove
Forget(is) ==
  /\ state' = [i \in DOMAIN state |-> IF i \in is THEN "absent" ELSE state[i]]
  /\ names' = [n \in Names |-> IF names[n] \in is THEN 0 ELSE names[n]]
Remove(c) ==
  /\ Here(c, "remove") \/ Here(c, "force remove")
  /\ LET i == call[c].id IN
     CASE state[i] = "absent" -> Refused(c)
       [] state[i] = "running" /\ call[c].op = "remove" -> Kept /\ Says(c, "invalid", FALSE)
       [] OTHER -> Forget({i}) /\ Says(c, "ok", TRUE) /\ UNCHANGED <<ids, things>>
Rename(c, n) ==
  /\ Here(c, "rename")
  /\ LET i == call[c].id IN
     CASE state[i] = "absent" -> Refused(c)
       [] state[i] # "absent" /\ names[n] # 0 -> Kept /\ Says(c, "invalid", FALSE)
       [] OTHER -> /\ names' = [m \in Names |->
                        CASE m = n -> i [] names[m] = i -> 0 [] OTHER -> names[m]]
                   /\ Says(c, "ok", TRUE) /\ UNCHANGED <<state, ids, things>>

\* docker_container_create: the image must be there; a name that is in use is
\* a connection error like any other, a port that is in use is not.
Create(c) ==
  /\ Here(c, "create") /\ ids < MaxIds
  /\ CASE "image" \notin things -> Kept /\ Says(c, "not found", FALSE)
       [] "image" \in things /\ names[call[c].name] # 0 -> Refused(c)
       [] OTHER -> \/ Kept /\ Says(c, "invalid", FALSE)
                   \/ /\ ids' = ids + 1 /\ state' = [state EXCEPT ![ids'] = "created"]
                      /\ names' = [names EXCEPT ![call[c].name] = ids']
                      /\ Says(c, "ok", TRUE) /\ UNCHANGED things

\* docker_container_exec: a thread runs the command, for as long as it takes;
\* the deadline is noticed, but leaving the executor waits for the thread.
Exec(c) ==
  /\ Here(c, "exec")
  /\ IF state[call[c].id] = "running" THEN Kept /\ Goes(c, "exec", TRUE) ELSE Refused(c)
ExecEnds(c) ==
  /\ call[c].step \in {"exec", "late"} /\ Kept
  /\ Says(c, IF call[c].step = "late" THEN "connection" ELSE "ok", FALSE)
ExecDue(c) == call[c].step = "exec" /\ Kept /\ Goes(c, "late", FALSE)

Puts(c, t) ==
  things' = things \cup {t} /\ Says(c, "ok", t \notin things) /\ UNCHANGED <<names, state, ids>>
PullImage(c) ==
  /\ Here(c, "pull")
  /\ Puts(c, "image") \/ (Kept /\ \E why \in {"not found", "auth"} : Says(c, why, FALSE))
MakeNetwork(c) ==
  /\ Here(c, "make network")
  /\ IF "network" \in things THEN Kept /\ Says(c, "invalid", FALSE) ELSE Puts(c, "network")
\* A volume that exists is answered, or refused when its options differ.
MakeVolume(c) ==
  /\ Here(c, "make volume")
  /\ Puts(c, "volume") \/ ("volume" \in things /\ Kept /\ Says(c, "invalid", FALSE))

\* The daemon keeps an image or a volume while a container has it, a network
\* while one on it runs.
Drop(c, t, used, refusal) ==
  CASE t \notin things -> Kept /\ Says(c, "not found", FALSE)
    [] t \in things /\ used -> Kept /\ Says(c, refusal, FALSE)
    [] OTHER -> things' = things \ {t} /\ Says(c, "ok", TRUE) /\ UNCHANGED <<names, state, ids>>
DropImage(c) == Here(c, "drop image") /\ Drop(c, "image", Existing # {}, "connection")
DropVolume(c) == Here(c, "drop volume") /\ Drop(c, "volume", Existing # {}, "connection")
DropNetwork(c) ==
  /\ Here(c, "drop network")
  /\ Drop(c, "network", \E i \in Existing : state[i] = "running", "invalid")

\* docker_system_prune: first the containers, then images and volumes.
Prune(c) ==
  /\ Here(c, "prune") /\ Goes(c, "prune more", \E i \in Existing : state[i] # "running")
  /\ Forget({i \in Existing : state[i] # "running"}) /\ UNCHANGED <<ids, things>>
PruneMore(c) ==
  /\ call[c].step = "prune more"
  /\ \/ Refused(c)
     \/ /\ things' \in {things} \cup (IF Existing = {} THEN {things \ {"volume"}} ELSE {})
        /\ Says(c, "ok", things' # things) /\ UNCHANGED <<names, state, ids>>

\* compose_up, compose_down, docker_compose_pull: without the file nothing is
\* tried; a command that fails may have done its work in part.
ComposeRun(c) ==
  /\ call[c].op \in Compose /\ call[c].step = "do"
  /\ \/ Kept /\ Says(c, "not found", FALSE)
     \/ \E is \in SUBSET Existing : \E said \in {"ok", "connection"} :
          /\ said = "ok" => is = Existing
          /\ CASE call[c].op = "up" ->
                    /\ is # {} => "network" \in things
                    /\ state' = [i \in DOMAIN state |-> IF i \in is THEN "running" ELSE state[i]]
                    /\ UNCHANGED <<names, things>>
               [] call[c].op = "down" -> Forget(is) /\ UNCHANGED things
               [] OTHER -> /\ things' = IF said = "ok" THEN things \cup {"image"} ELSE things
                           /\ UNCHANGED <<names, state>>
          /\ Says(c, said, <<state, things>>' # <<state, things>>) /\ UNCHANGED ids

\* The daemon does what was asked and its reply does not come: an error of the
\* transport, which is none of the SDK's.
ReplyLost(c) ==
  /\ call[c].op \in Turns /\ call[c].step = "reload" /\ Kept
  /\ call' = [call EXCEPT ![c].step = "over", ![c].said = "raw", ![c].lost = TRUE]

Step(c) ==
  \/ Unreachable(c) \/ GetContainer(c) \/ Logs(c) \/ Stats(c) \/ Inspect(c) \/ ListContainers(c) \/ ListImages(c)
  \/ ListNetworks(c) \/ ListVolumes(c) \/ NodeInfo(c) \/ Turn(c) \/ Reload(c)
  \/ Remove(c) \/ Create(c) \/ Exec(c) \/ ExecEnds(c) \/ ExecDue(c) \/ PullImage(c)
  \/ MakeNetwork(c) \/ MakeVolume(c) \/ DropImage(c) \/ DropVolume(c) \/ DropNetwork(c)
  \/ Prune(c) \/ PruneMore(c) \/ ComposeRun(c) \/ ReplyLost(c)
  \/ \E n \in Names : Rename(c, n)
Next ==
  \E c \in Clients :
    \/ Step(c) \/ \E op \in OnContainer \cup {"create"} : \E n \in Names : Call(c, op, n)
    \/ \E op \in Ops \ (OnContainer \cup {"create"}) : Call(c, op, "none")

Spec == Init /\ [][Next]_vars

-----------------------------------------------------------------------------
\* Every variable has its type.
States == {"absent", "created", "running", "exited"}
TypeOK ==
  /\ names \in [Names -> 0..MaxIds] /\ state \in [1..MaxIds -> States]
  /\ ids \in 1..MaxIds /\ things \subseteq Things
  /\ \A c \in Clients :
       /\ call[c].op \in Ops \cup {"none"}
       /\ call[c].step \in {"idle", "get", "do", "reload", "exec", "late", "prune more", "over"}
       /\ call[c].said \in {"nothing", "ok", "not found", "invalid", "auth", "connection", "raw", "unreachable"}

\* A call that answers that nothing was found or that it may not be done has
\* changed nothing, and neither has one that could not reach the daemon, unless
\* it does several things; only a container that another caller removed, or a
\* lost reply, makes a raw error of a call that was done.
ErrorsTellWhatHappened ==
  \A c \in Clients :
    /\ call[c].said \in {"not found", "invalid", "auth", "unreachable"} => ~call[c].done
    /\ call[c].said = "connection" /\ call[c].done =>
         call[c].op \in {"exec", "prune"} \cup Compose
    /\ call[c].said = "raw" => call[c].lost \/ state[call[c].id] = "absent"

\* Names and containers stay one to one.
NamesAreExact ==
  /\ \A n \in Names : names[n] # 0 => state[names[n]] # "absent"
  /\ \A i \in Existing : \E n \in Names :
       names[n] = i /\ \A m \in Names \ {n} : names[m] # i

=============================================================================

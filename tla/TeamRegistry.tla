---------------------------- MODULE TeamRegistry ----------------------------
(***************************************************************************)
(* obase.team_registry.TeamRegistry: agents, each a process, share a       *)
(* directory of JSON documents and an inbox.  A document is read whole,    *)
(* changed and written whole; write_text first empties the file; nothing   *)
(* is locked.                                                              *)
(*                                                                         *)
(* Abstracted: the team is one, config.json holds its members (a name and  *)
(* an agent_id, a number) and the lead's id, 0 for none; tasks.json maps   *)
(* tasks to the agent that locked them.  A message is a file of its own in *)
(* the one inbox modelled; a broadcast is a send to each member.           *)
(*                                                                         *)
(* A definition named X_Slip is X with a slip a programmer could make; the *)
(* properties are checked to notice it.  Nothing else uses it.             *)
(***************************************************************************)
EXTENDS Naturals, FiniteSets

CONSTANTS
  Agents, Tasks, Messages,
  Nobody,      \* the locked_by of a task that is not locked
  Absent, Torn,\* a document that is not there, or does not parse
  Limit,       \* the limit receive_messages is called with
  MaxMembers   \* bound: members added

VARIABLES
  tasksFile,   \* tasks.json: Absent, Torn, or its tasks and their lockers
  agent,       \* per agent, how far its call is
  draft,       \* per agent, what it will write
  added,       \* ghost: tasks whose add_task has returned
  config,      \* config.json: Absent, Torn, or the team
  roster,      \* per agent, the team it will write
  stray,       \* agents whose open file has lost its name
  ids,         \* members added so far
  enrolled,    \* ghost: the members, were each call of one piece
  left,        \* ghost: the ids of removed members
  met,         \* ghost: calls on the team overlapped, or one was cut off
  mail,        \* per message: "unsent", "emptied", "there" or "gone"
  hand,        \* per agent, the message whose file it writes or consumes
  listing,     \* per agent, the inbox files receive_messages still goes over
  batch,       \* per agent, the messages it has read
  received,    \* per agent, the messages its calls returned
  misread      \* ghost: messages whose file was opened while it was empty

taskVars == <<tasksFile, draft, added>>
teamVars == <<config, roster, stray, ids, enrolled, left, met>>
mailVars == <<mail, hand, listing, batch, received, misread>>
vars == <<taskVars, teamVars, agent, mailVars>>

\* A file that is not there, or does not parse, is no team.
DocumentsAssumption ==
  /\ Absent # Torn
  /\ \A d \in {Absent, Torn} : d \notin [lead : Nat, members : SUBSET [name : Agents, id : Nat]]

NoTasks == [t \in {} |-> Nobody]
NoMembers == [lead |-> 0, members |-> {}]

Init ==
  /\ tasksFile = Absent /\ added = {}
  /\ agent = [a \in Agents |-> "idle"] /\ draft = [a \in Agents |-> NoTasks]
  /\ mail = [m \in Messages |-> "unsent"] /\ hand = [a \in Agents |-> {}]
  /\ listing = [a \in Agents |-> {}] /\ batch = [a \in Agents |-> {}]
  /\ received = [a \in Agents |-> {}] /\ misread = {}
  /\ config = Absent /\ roster = [a \in Agents |-> NoMembers] /\ stray = {}
  /\ ids = 0 /\ enrolled = {} /\ left = {} /\ met = FALSE

Goes(a, from, to) == agent[a] = from /\ agent' = [agent EXCEPT ![a] = to]

\* _load_json answers None for whatever it cannot read, and callers take
\* that for an empty list.
LoadTasks == IF tasksFile \in {Absent, Torn} THEN NoTasks ELSE tasksFile

\* add_task and lock_task (update_task), up to the write.
AddTask(a, t) ==
  /\ Goes(a, "idle", "saving") /\ t \notin added
  /\ \A b \in Agents : agent[b] \in {"saving", "writing"} => t \notin DOMAIN draft[b]
  /\ draft' = [draft EXCEPT ![a] =
       [u \in DOMAIN LoadTasks \cup {t} |-> IF u = t THEN Nobody ELSE LoadTasks[u]]]
  /\ UNCHANGED <<tasksFile, added, teamVars, mailVars>>
LockTask(a, t) ==
  /\ t \in DOMAIN LoadTasks /\ Goes(a, "idle", "saving")
  /\ draft' = [draft EXCEPT ![a] = [LoadTasks EXCEPT ![t] = a]]
  /\ UNCHANGED <<tasksFile, added, teamVars, mailVars>>

\* _save_json: the file is emptied, then written.  Two writers that emptied it
\* both write from its start, and a longer document leaves its end behind.
EmptyTasks(a) ==
  /\ Goes(a, "saving", "writing") /\ tasksFile' = Torn
  /\ UNCHANGED <<draft, added, teamVars, mailVars>>
WriteTasks(a) ==
  /\ Goes(a, "writing", "idle")
  /\ IF a \in stray THEN UNCHANGED tasksFile
     ELSE tasksFile' \in {draft[a]} \cup (IF tasksFile = Torn THEN {} ELSE {Torn})
  /\ added' = added \cup DOMAIN draft[a] /\ draft' = [draft EXCEPT ![a] = NoTasks]
  /\ stray' = stray \ {a}
  /\ UNCHANGED <<config, roster, ids, enrolled, left, met, mailVars>>

\* A process may die in the middle of a call.
Crash(a) ==
  /\ agent[a] \notin {"idle", "dead"} /\ agent' = [agent EXCEPT ![a] = "dead"]
  /\ draft' = [draft EXCEPT ![a] = NoTasks] /\ roster' = [roster EXCEPT ![a] = NoMembers]
  /\ met' = TRUE /\ stray' = stray \ {a}
  /\ UNCHANGED <<tasksFile, added, config, ids, enrolled, left, mailVars>>

-----------------------------------------------------------------------------
\* get_team answers None for a config.json that does not parse, too.
HasTeam == config \notin {Absent, Torn}

\* create_team, add_member and remove_member, up to the write; as they read
\* config.json a call of another agent may be at it.
Rewrites(a, team) ==
  /\ Goes(a, "idle", "enrolling") /\ roster' = [roster EXCEPT ![a] = team]
  /\ met' = (met \/ \E b \in Agents \ {a} : agent[b] # "idle")
  /\ UNCHANGED <<taskVars, config, stray, mailVars>>
CreateTeam(a) == config = Absent /\ Rewrites(a, NoMembers) /\ UNCHANGED <<ids, enrolled, left>>
AddMember(a, n) ==
  LET member == [name |-> n, id |-> ids + 1] IN
  /\ HasTeam /\ ids < MaxMembers /\ ids' = ids + 1
  /\ Rewrites(a, [lead |-> IF config.lead = 0 THEN member.id ELSE config.lead,
                  members |-> config.members \cup {member}])
  /\ enrolled' = enrolled \cup {member} /\ UNCHANGED left
Others(members, n) == {m \in members : m.name # n}
RemoveMember(a, n) ==
  /\ HasTeam /\ Rewrites(a, [config EXCEPT !.members = Others(@, n)])
  /\ enrolled' = Others(enrolled, n)
  /\ left' = left \cup {m.id : m \in config.members \ Others(config.members, n)}
  /\ UNCHANGED ids

EmptyConfig(a) ==
  /\ Goes(a, "enrolling", "renewing") /\ config' = Torn
  /\ UNCHANGED <<taskVars, roster, stray, ids, enrolled, left, met, mailVars>>
WriteConfig(a) ==
  /\ Goes(a, "renewing", "idle")
  /\ IF a \in stray THEN UNCHANGED config
     ELSE config' \in {roster[a]} \cup (IF config = Torn THEN {} ELSE {Torn})
  /\ roster' = [roster EXCEPT ![a] = NoMembers] /\ stray' = stray \ {a}
  /\ UNCHANGED <<taskVars, ids, enrolled, left, met, mailVars>>

\* cleanup deletes the directory; who has a file of it open writes to no name.
CleanUp(a) ==
  /\ agent[a] = "idle"
  /\ config' = Absent /\ tasksFile' = Absent
  /\ mail' = [m \in Messages |-> IF mail[m] \in {"emptied", "there"} THEN "gone" ELSE mail[m]]
  /\ stray' = {b \in Agents : agent[b] \in {"writing", "renewing"}}
  /\ met' = (met \/ \E b \in Agents : agent[b] # "idle") /\ enrolled' = {}
  /\ UNCHANGED <<draft, added, agent, roster, ids, left, hand, listing, batch, received, misread>>

-----------------------------------------------------------------------------
\* send_message writes a file named after the request.
Send(a, m) ==
  /\ Goes(a, "idle", "sending") /\ mail[m] = "unsent"
  /\ mail' = [mail EXCEPT ![m] = "emptied"] /\ hand' = [hand EXCEPT ![a] = {m}]
  /\ UNCHANGED <<taskVars, teamVars, listing, batch, received, misread>>
\* A file that was consumed meanwhile is written to no name.
Sent(a) ==
  /\ Goes(a, "sending", "idle")
  /\ mail' = [m \in Messages |->
       IF m \in hand[a] /\ mail[m] = "emptied" THEN "there" ELSE mail[m]]
  /\ hand' = [hand EXCEPT ![a] = {}]
  /\ UNCHANGED <<taskVars, teamVars, listing, batch, received, misread>>

InInbox == {m \in Messages : mail[m] \in {"emptied", "there"}}

\* receive_messages: list the inbox; for each file, read it, unlink it, stop
\* at the limit.
List(a) ==
  /\ Goes(a, "idle", "reading") /\ InInbox # {}
  /\ listing' = [listing EXCEPT ![a] = InInbox]
  /\ UNCHANGED <<taskVars, teamVars, mail, hand, batch, received, misread>>

Taken_Slip(a, m) ==
  IF mail[m] = "there" /\ Cardinality(batch[a]) + 1 < Limit THEN batch[a] \cup {m} ELSE batch[a]
Taken(a, m) == IF mail[m] = "there" THEN batch[a] \cup {m} ELSE batch[a]
Read(a, m) ==
  /\ m \in listing[a] /\ Goes(a, "reading", "consuming")
  /\ batch' = [batch EXCEPT ![a] = Taken(a, m)]
  /\ misread' = IF mail[m] = "emptied" THEN misread \cup {m} ELSE misread
  /\ hand' = [hand EXCEPT ![a] = {m}] /\ listing' = [listing EXCEPT ![a] = @ \ {m}]
  /\ UNCHANGED <<taskVars, teamVars, mail, received>>

Consume(a) ==
  /\ agent[a] = "consuming"
  /\ mail' = [m \in Messages |-> IF m \in hand[a] THEN "gone" ELSE mail[m]]
  /\ hand' = [hand EXCEPT ![a] = {}]
  /\ IF listing[a] = {} \/ Cardinality(batch[a]) >= Limit
     THEN /\ agent' = [agent EXCEPT ![a] = "idle"]
          /\ received' = [received EXCEPT ![a] = @ \cup batch[a]]
          /\ batch' = [batch EXCEPT ![a] = {}] /\ listing' = [listing EXCEPT ![a] = {}]
     ELSE agent' = [agent EXCEPT ![a] = "reading"] /\ UNCHANGED <<received, batch, listing>>
  /\ UNCHANGED <<taskVars, teamVars, misread>>

\* The team, its tasks and its mail are in files of their own; they share the
\* agents, and cleanup deletes them all.
TaskNext ==
  \E a \in Agents :
    \/ \E t \in Tasks : AddTask(a, t) \/ LockTask(a, t)
    \/ EmptyTasks(a) \/ WriteTasks(a) \/ Crash(a)
MailNext ==
  \E a \in Agents :
    \/ \E m \in Messages : Send(a, m) \/ Read(a, m)
    \/ Sent(a) \/ List(a) \/ Consume(a) \/ Crash(a)
TeamNext ==
  \E a \in Agents :
    \/ \E n \in Agents : AddMember(a, n) \/ RemoveMember(a, n)
    \/ CreateTeam(a) \/ EmptyConfig(a) \/ WriteConfig(a) \/ CleanUp(a) \/ Crash(a)
Next == TaskNext \/ MailNext \/ TeamNext

Spec == Init /\ [][Next]_vars

-----------------------------------------------------------------------------
\* Every variable has its type.
TypeOK ==
  /\ tasksFile \in {Absent, Torn} \/ DOMAIN tasksFile \subseteq Tasks
  /\ agent \in [Agents -> {"idle", "saving", "writing", "enrolling", "renewing", "sending",
                           "reading", "consuming", "dead"}]
  /\ LET Team == [lead : 0..MaxMembers, members : SUBSET [name : Agents, id : 1..MaxMembers]]
     IN  config \in {Absent, Torn} \/ config \in Team
  /\ stray \subseteq Agents /\ ids \in 0..MaxMembers /\ left \subseteq 1..MaxMembers
  /\ added \subseteq Tasks
  /\ mail \in [Messages -> {"unsent", "emptied", "there", "gone"}]
  /\ {hand, listing, batch, received} \subseteq [Agents -> SUBSET Messages]
  /\ misread \subseteq Messages

\* However many agents send to an inbox and read it, a message that nobody
\* opened before it was written is in the inbox, in the batch of a reader (who
\* may die with it), or has been returned by receive_messages.
WrittenMailArrives ==
  \A m \in Messages \ misread :
    mail[m] = "gone" => \E a \in Agents : m \in batch[a] \cup received[a]

\* Whoever overlaps, dies or cleans up: the lead of a team is a member of it, or
\* was one that remove_member took out (it leaves lead_agent_id as it was), and
\* only a team that never had members has no lead.  Calls that did not overlap
\* leave exactly the members they were to leave.
TeamIsWhole ==
  HasTeam =>
    /\ config.lead \in {m.id : m \in config.members} \cup left \cup {0}
    /\ config.lead = 0 => config.members = {}
    /\ ~met /\ (\A a \in Agents : agent[a] = "idle") => config.members = enrolled

\* A task that add_task has put into the file stays in it, whoever writes next.
TasksKept ==
  (\A a \in Agents : agent[a] \notin {"saving", "writing", "dead"})
    => \/ added = {}
       \/ /\ tasksFile \notin {Absent, Torn}
          /\ added \subseteq DOMAIN tasksFile

=============================================================================

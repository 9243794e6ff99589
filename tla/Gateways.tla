------------------------------- MODULE Gateways -------------------------------
(***************************************************************************)
(* What obase speaks other programs' protocols through: sessions with an   *)
(* agent (acp_adapter: AcpNext), tasks given to a remote agent             *)
(* (a2a_adapter: A2aNext), chat channels (channel_adapter: ChannelNext), a *)
(* client of an MCP server over HTTP (mcp_http: HttpNext), the skills of   *)
(* such a server (mcp_client: SkillNext); and the research workspace they  *)
(* write to (alice_workspace: WorkNext).                                   *)
(*                                                                         *)
(* External: the agents and servers, which may answer, refuse or not       *)
(* answer; Telegram, which forgets updates below the offset it is asked    *)
(* for; Slack, whose page is of the newest or the oldest messages in       *)
(* range; the file system.  Callers are coroutines or processes.           *)
(*                                                                         *)
(* A definition named X_Slip is X with a slip a programmer could make; the *)
(* properties are checked to notice it.  Nothing else uses it.             *)
(***************************************************************************)
EXTENDS Naturals, SequencesExt, FiniteSetsExt

CONSTANTS
  Callers,
  Limit,        \* messages a poll takes
  MaxMessages   \* bound: messages in a channel, HTTP clients, documents saved

LimitAssumption == Limit \in Nat

Sessions == {"s", "t"}
Channels == {"telegram", "slack"}
Tools == {"skill_list", "skill_a", "other"}

VARIABLES
  session,     \* ACPAgentAdapter._sessions: none, its status, or closed
  marked,      \* _cancelled
  asked,       \* per caller: the request it awaits
  raced,       \* ghost: sessions whose latest cancel met a resume, or was cut off
  via,         \* what an A2AAgentAdapter was made with: http or transport
  remote,      \* the agent's own word for a task
  local,       \* A2AAgentAdapter._tasks
  calling,     \* per caller: the call it awaits, and the answer on its way
  posted,      \* messages in a channel so far
  confirmed,   \* updates Telegram has forgotten
  position,    \* _offset, as the last message before it
  poll,        \* per caller: the channel, and the messages on their way
  handed,      \* ghost, per channel: messages that were given to a caller
  skipped,     \* ghost: messages Slack left out of a page
  started, http,   \* StreamableHttpMcpClient: _started, and _client or 0
  opens,       \* HTTP clients that were made and not closed
  made,        \* ghost: how many were made
  exchange,    \* per caller: what it awaits, and with which client
  spoilt,      \* ghost: a start failed, or overlapped a start or a close
  handle,      \* an McpClientHandle: what it declares, lists and answers
  title,       \* workspace.json: the workspace's id, "" for none
  named,       \* ghost: two callers initialized at once
  document,    \* the document, as the number of the call that saved it
  records,     \* artifacts.jsonl: numbers of calls, 0 for a line cut off
  saving,      \* per caller: what it is doing to the workspace
  saves,       \* ghost: documents saved
  loose        \* ghost: the latest saves overlapped, or one died

acpVars == <<session, marked, asked, raced>>
a2aVars == <<via, remote, local, calling>>
channelVars == <<posted, confirmed, position, poll, handed, skipped>>
httpVars == <<started, http, opens, made, exchange, spoilt>>
workVars == <<title, named, document, records, saving, saves, loose>>
vars == <<acpVars, a2aVars, channelVars, httpVars, handle, workVars>>

NoCall == [op |-> "none", on |-> "s"]
NoAnswer == [op |-> "none", on |-> "s", word |-> ""]
NoPoll == [on |-> "none", got |-> {}]
NoExchange == [at |-> "none", with |-> 0]
NoSave == [at |-> "none", id |-> "", text |-> 0]
Handles ==
  [declares : BOOLEAN, lists : BOOLEAN, tools : SUBSET Tools,
   listed : {"skills", "junk"}, metadata : {"own", "named", "bare", "none"}]
Plain == [declares |-> FALSE, lists |-> TRUE, tools |-> {}, listed |-> "junk", metadata |-> "none"]
Init ==
  /\ session = [s \in Sessions |-> "none"] /\ marked = {} /\ raced = {}
  /\ asked = [c \in Callers |-> NoCall]
  /\ via \in {"http", "transport"} /\ remote = [s \in Sessions |-> "working"]
  /\ local = [s \in Sessions |-> "none"] /\ calling = [c \in Callers |-> NoAnswer]
  /\ posted = 0 /\ confirmed = 0 /\ position = [h \in Channels |-> 0]
  /\ poll = [c \in Callers |-> NoPoll] /\ handed = [h \in Channels |-> {}] /\ skipped = {}
  /\ started = FALSE /\ http = 0 /\ opens = {} /\ made = 0
  /\ exchange = [c \in Callers |-> NoExchange] /\ spoilt = FALSE
  /\ handle = Plain
  /\ title = "" /\ named = FALSE /\ document = 0 /\ records = << >>
  /\ saving = [c \in Callers |-> NoSave] /\ saves = 0 /\ loose = FALSE

-----------------------------------------------------------------------------
\* ACPAgentAdapter.  A session that is closed is not known any more.
Known(s) == session[s] \in {"active", "cancelled"}
Ask(c, op, s) == asked[c].op = "none" /\ asked' = [asked EXCEPT ![c] = [op |-> op, on |-> s]]
Answered(c, op) == asked[c].op = op /\ asked' = [asked EXCEPT ![c] = NoCall]
NewSession(s) ==
  /\ session[s] = "none" /\ session' = [session EXCEPT ![s] = "active"] /\ UNCHANGED <<marked, asked, raced>>
\* turn answers "cancelled" itself for a session that is marked.
TurnBegins(c, s) == Known(s) /\ s \notin marked /\ Ask(c, "turn", s) /\ UNCHANGED <<session, marked, raced>>
TurnEnds(c) == Answered(c, "turn") /\ UNCHANGED <<session, marked, raced>>
\* cancel marks, sends, and notes it in the session, if that is still there; an
\* error of the protocol counts as an answer.
CancelBegins(c, s) ==
  /\ Known(s) /\ Ask(c, "cancel", s) /\ marked' = marked \cup {s} /\ UNCHANGED <<session, raced>>
CancelEnds(c) ==
  /\ Answered(c, "cancel") /\ UNCHANGED <<marked, raced>>
  /\ session' = IF Known(asked[c].on) THEN [session EXCEPT ![asked[c].on] = "cancelled"] ELSE session
Resume(c, s, prompt) ==
  /\ asked[c].op = "none" /\ Known(s)
  /\ marked' = marked \ {s} /\ session' = [session EXCEPT ![s] = "active"]
  /\ raced' = (IF \E d \in Callers : asked[d] = [op |-> "cancel", on |-> s] THEN raced \cup {s} ELSE raced \ {s})
  /\ IF prompt THEN Ask(c, "turn", s) ELSE UNCHANGED asked
CloseBegins(c, s) == Known(s) /\ Ask(c, "close", s) /\ UNCHANGED <<session, marked, raced>>
CloseEnds(c) ==
  /\ Answered(c, "close") /\ session' = [session EXCEPT ![asked[c].on] = "closed"]
  /\ marked' = marked \ {asked[c].on} /\ UNCHANGED raced
\* The transport raises something of its own: the call ends there.
TransportRaises(c) ==
  /\ asked[c].op # "none" /\ asked' = [asked EXCEPT ![c] = NoCall] /\ UNCHANGED <<session, marked>>
  /\ raced' = IF asked[c].op = "cancel" THEN raced \cup {asked[c].on} ELSE raced
AcpNext ==
  /\ UNCHANGED <<a2aVars, channelVars, httpVars, handle, workVars>>
  /\ \/ \E s \in Sessions : NewSession(s)
     \/ \E c \in Callers :
          \/ TurnEnds(c) \/ CancelEnds(c) \/ CloseEnds(c) \/ TransportRaises(c)
          \/ \E s \in Sessions :
               TurnBegins(c, s) \/ CancelBegins(c, s) \/ CloseBegins(c, s)
               \/ \E prompt \in BOOLEAN : Resume(c, s, prompt)

-----------------------------------------------------------------------------
\* normalize_a2a_result: "" is an answer without a state, "junk" no answer of
\* the protocol, "refused" one with an error.
Normalized(word) ==
  CASE word \in {"completed", ""} -> "ok"
    [] word = "canceled" -> "cancelled"
    [] word \in {"failed", "junk", "refused"} -> "error"
    [] OTHER -> "working"
\* _rpc raises on an error over HTTP; an injected transport's is passed on.
Raised(word) == via = "http" /\ word = "refused"
Call(c, op, t, word) ==
  calling[c].op = "none" /\ calling' = [calling EXCEPT ![c] = [op |-> op, on |-> t, word |-> word]]
Invoke(c, t) ==
  /\ \E word \in {remote[t], "", "junk", "refused"} : Call(c, "invoke", t, word)
  /\ UNCHANGED <<via, remote, local>>
InvokeEnds(c) ==
  /\ calling[c].op = "invoke" /\ calling' = [calling EXCEPT ![c] = NoAnswer]
  /\ local' = (IF Raised(calling[c].word) THEN local
               ELSE [local EXCEPT ![calling[c].on] = Normalized(calling[c].word)])
  /\ UNCHANGED <<via, remote>>
\* The agent cancels a task it works on, or refuses.
CancelTask(c, t) ==
  /\ local[t] # "none" /\ UNCHANGED <<via, local>>
  /\ \/ remote[t] = "working" /\ remote' = [remote EXCEPT ![t] = "canceled"] /\ Call(c, "cancel", t, "canceled")
     \/ UNCHANGED remote /\ Call(c, "cancel", t, "refused")
CancelTaskEnds_Slip(c) ==
  /\ calling[c].op = "cancel" /\ calling' = [calling EXCEPT ![c] = NoAnswer]
  /\ local' = [local EXCEPT ![calling[c].on] = "cancelled"] /\ UNCHANGED <<via, remote>>
CancelTaskEnds(c) ==
  /\ calling[c].op = "cancel" /\ calling' = [calling EXCEPT ![c] = NoAnswer]
  /\ local' = (IF Raised(calling[c].word) THEN local ELSE [local EXCEPT ![calling[c].on] = "cancelled"])
  /\ UNCHANGED <<via, remote>>
CallFails(c) ==
  /\ calling[c].op # "none" /\ calling' = [calling EXCEPT ![c] = NoAnswer] /\ UNCHANGED <<via, remote, local>>
\* The agent gets on with a task.
RemoteEnds(t) ==
  /\ remote[t] = "working" /\ UNCHANGED <<via, local, calling>>
  /\ \E word \in {"completed", "failed"} : remote' = [remote EXCEPT ![t] = word]
\* status: what the agent says, or what is noted if it does not answer.
StatusTold(t) == IF local[t] = "none" THEN {"unknown"} ELSE {Normalized(remote[t]), local[t]}
A2aNext ==
  /\ UNCHANGED <<acpVars, channelVars, httpVars, handle, workVars>>
  /\ \/ \E t \in Sessions : RemoteEnds(t)
     \/ \E c \in Callers :
          \/ InvokeEnds(c) \/ CancelTaskEnds(c) \/ CallFails(c)
          \/ \E t \in Sessions : Invoke(c, t) \/ CancelTask(c, t)

-----------------------------------------------------------------------------
Oldest(S) == {i \in S : Cardinality({j \in S : j < i}) < Limit}
Newest(S) == {i \in S : Cardinality({j \in S : j > i}) < Limit}
Post ==
  posted < MaxMessages /\ posted' = posted + 1 /\ UNCHANGED <<confirmed, position, poll, handed, skipped>>
\* receive: the request, and the answer, which moves the cursor.
PollTelegram(c) ==
  /\ poll[c].on = "none" /\ confirmed' = Max({confirmed, position["telegram"]})
  /\ poll' = [poll EXCEPT ![c] = [on |-> "telegram", got |-> Oldest(confirmed' + 1..posted)]]
  /\ UNCHANGED <<posted, position, handed, skipped>>
PollSlack(c) ==
  /\ poll[c].on = "none" /\ UNCHANGED <<posted, confirmed, position, handed>>
  /\ LET range == position["slack"] + 1..posted
     IN \E got \in (IF position["slack"] = 0 THEN {Newest(range)} ELSE {Oldest(range), Newest(range)}) :
          /\ poll' = [poll EXCEPT ![c] = [on |-> "slack", got |-> got]]
          /\ skipped' = skipped \cup {i \in range \ got : got # {} /\ i < Max(got)}
Moved(got) == Max(got)
PollEnds(c) ==
  /\ poll[c].on # "none" /\ poll' = [poll EXCEPT ![c] = NoPoll]
  /\ handed' = [handed EXCEPT ![poll[c].on] = @ \cup poll[c].got]
  /\ position' = (IF poll[c].got = {} THEN position ELSE [position EXCEPT ![poll[c].on] = Moved(poll[c].got)])
  /\ UNCHANGED <<posted, confirmed, skipped>>
PollLost(c) ==
  /\ poll[c].on # "none" /\ poll' = [poll EXCEPT ![c] = NoPoll]
  /\ UNCHANGED <<posted, confirmed, position, handed, skipped>>
\* ack: Telegram's cursor moves forward only.
Ack(h, i) ==
  /\ i \in handed[h] /\ UNCHANGED <<posted, confirmed, poll, handed, skipped>>
  /\ position' = [position EXCEPT ![h] = IF h = "telegram" THEN Max({@, i}) ELSE i]
\* The cursor is in memory only.
AdapterRestarts ==
  /\ position' = [h \in Channels |-> 0] /\ poll' = [c \in Callers |-> NoPoll]
  /\ UNCHANGED <<posted, confirmed, handed, skipped>>
ChannelNext ==
  /\ UNCHANGED <<acpVars, a2aVars, httpVars, handle, workVars>>
  /\ \/ Post \/ AdapterRestarts
     \/ \E c \in Callers : PollTelegram(c) \/ PollSlack(c) \/ PollEnds(c) \/ PollLost(c)
     \/ \E h \in Channels : \E i \in handed[h] : Ack(h, i)

-----------------------------------------------------------------------------
\* StreamableHttpMcpClient.  A request starts the client when nobody did.
Await(c, place, with) == exchange' = [exchange EXCEPT ![c] = [at |-> place, with |-> with]]
Awaits(c, place) == exchange[c].at = place
StartBegins(c) ==
  /\ Awaits(c, "none") /\ ~started /\ made < MaxMessages
  /\ made' = made + 1 /\ http' = made' /\ opens' = opens \cup {made'} /\ Await(c, "start", made')
  /\ spoilt' = (spoilt \/ \E d \in Callers : exchange[d].at \in {"start", "close"}) /\ UNCHANGED started
StartFails(c) ==
  /\ Awaits(c, "start") /\ Await(c, "none", 0) /\ spoilt' = TRUE /\ UNCHANGED <<started, http, opens, made>>
\* Answered, it posts what it was asked for, if there is a client still.
StartEnds(c) ==
  /\ Awaits(c, "start") /\ started' = TRUE
  /\ IF http = 0 THEN Await(c, "none", 0) ELSE Await(c, "post", http)
  /\ UNCHANGED <<http, opens, made, spoilt>>
RequestBegins(c) ==
  /\ Awaits(c, "none") /\ started /\ http # 0 /\ Await(c, "post", http) /\ UNCHANGED <<started, http, opens, made, spoilt>>
RequestEnds(c) ==
  /\ Awaits(c, "post") /\ Await(c, "none", 0) /\ UNCHANGED <<started, http, opens, made, spoilt>>
\* close awaits aclose, and forgets whatever client there is then.
CloseClient(c) ==
  /\ Awaits(c, "none") /\ UNCHANGED made
  /\ spoilt' = (spoilt \/ \E d \in Callers : Awaits(d, "start"))
  /\ IF http = 0 THEN started' = FALSE /\ UNCHANGED <<http, opens, exchange>>
     ELSE opens' = opens \ {http} /\ Await(c, "close", http) /\ UNCHANGED <<started, http>>
ClientClosed(c) ==
  Awaits(c, "close") /\ Await(c, "none", 0) /\ http' = 0 /\ started' = FALSE /\ UNCHANGED <<opens, made, spoilt>>
HttpNext ==
  /\ UNCHANGED <<acpVars, a2aVars, channelVars, handle, workVars>>
  /\ \E c \in Callers :
       \/ StartBegins(c) \/ StartFails(c) \/ StartEnds(c) \/ RequestBegins(c) \/ RequestEnds(c)
       \/ CloseClient(c) \/ ClientClosed(c)

-----------------------------------------------------------------------------
\* A handle answers calls of the tools it has; "fails" is SkillsExtensionError.
SkillTools == handle.tools \cap {"skill_list", "skill_a"}
Negotiate ==
  IF handle.declares THEN "yes" ELSE IF ~handle.lists THEN "fails"
  ELSE IF SkillTools # {} THEN "yes" ELSE "no"
ListAnswers == "skill_list" \in handle.tools /\ handle.listed = "skills"
DiscoverFails == ~ListAnswers /\ ~handle.lists
Discover == IF ListAnswers THEN {"skill_a"} ELSE SkillTools
\* get_skill_metadata of "skill_a" takes an answer with that name, or with a name
\* and a description.
Metadata ==
  CASE handle.metadata = "own" -> "skill_a"
    [] handle.metadata = "named" -> "another"
    [] OTHER -> IF handle.lists /\ "skill_a" \in handle.tools THEN "skill_a" ELSE "fails"
Connect == handle' \in Handles
SkillNext == Connect /\ UNCHANGED <<acpVars, a2aVars, channelVars, httpVars, workVars>>

-----------------------------------------------------------------------------
\* ResearchWorkspace.initialize looks for the metadata and writes it; saving a
\* document puts it in place, then appends the record.
Doing(c, place, id, text) == saving' = [saving EXCEPT ![c] = [at |-> place, id |-> id, text |-> text]]
InitializeBegins(c, id) ==
  /\ saving[c].at = "none" /\ title = "" /\ Doing(c, "naming", id, 0)
  /\ named' = (named \/ \E d \in Callers : saving[d].at = "naming")
  /\ UNCHANGED <<title, document, records, saves, loose>>
InitializeEnds(c) ==
  /\ saving[c].at = "naming" /\ title' = saving[c].id /\ Doing(c, "none", "", 0)
  /\ UNCHANGED <<named, document, records, saves, loose>>
SaveDocument(c) ==
  /\ saving[c].at = "none" /\ title # "" /\ saves < MaxMessages
  /\ saves' = saves + 1 /\ document' = saves' /\ Doing(c, "saved", title, saves')
  /\ loose' = (\E d \in Callers : saving[d].at = "saved") /\ UNCHANGED <<title, named, records>>
\* A line that was cut off takes the next record with it.
Cut == records # << >> /\ Last(records) = 0
AppendRecord(c) ==
  /\ saving[c].at = "saved" /\ Doing(c, "none", "", 0)
  /\ records' = (IF Cut THEN records ELSE Append(records, saving[c].text))
  /\ UNCHANGED <<title, named, document, saves, loose>>
SaverDies(c) ==
  /\ saving[c].at # "none" /\ Doing(c, "none", "", 0) /\ UNCHANGED <<title, named, document, saves>>
  /\ \/ UNCHANGED records
     \/ saving[c].at = "saved" /\ records' = IF Cut THEN records ELSE Append(records, 0)
  /\ loose' = (loose \/ saving[c].at = "saved")
ListFails == \E i \in DOMAIN records : records[i] = 0
WorkNext ==
  /\ UNCHANGED <<acpVars, a2aVars, channelVars, httpVars, handle>>
  /\ \E c \in Callers :
       \/ InitializeEnds(c) \/ SaveDocument(c) \/ AppendRecord(c) \/ SaverDies(c)
       \/ \E id \in {"x", "y"} : InitializeBegins(c, id)

Next == AcpNext \/ A2aNext \/ ChannelNext \/ HttpNext \/ SkillNext \/ WorkNext
Spec == Init /\ [][Next]_vars

-----------------------------------------------------------------------------
\* Every variable has its type.
TypeOK ==
  /\ \A s \in Sessions : session[s] \in {"none", "active", "cancelled", "closed"}
                         /\ local[s] \in {"none", "ok", "cancelled", "error", "working"}
  /\ marked \subseteq Sessions /\ raced \subseteq Sessions /\ confirmed \in 0..MaxMessages
  /\ \A h \in Channels : position[h] \in 0..MaxMessages /\ handed[h] \subseteq 1..MaxMessages
  /\ started \in BOOLEAN /\ http \in 0..MaxMessages /\ opens \subseteq 1..MaxMessages
  /\ handle \in Handles /\ title \in {"", "x", "y"} /\ \A i \in DOMAIN records : records[i] \in 0..MaxMessages

\* A session says it is cancelled exactly while its turns are refused, unless its
\* latest cancel met a resume or was cut off; a mark does not outlive its session.
SessionsTell ==
  /\ \A s \in marked : Known(s)
  /\ \A s \in Sessions \ raced :
       Known(s) /\ (\A c \in Callers : asked[c] # [op |-> "cancel", on |-> s])
       => (session[s] = "cancelled" <=> s \in marked)

\* Over HTTP, no task is called cancelled, by status or by what is noted, that
\* the agent did not cancel.
CancelledIsTrue ==
  via = "http" => \A t \in Sessions : "cancelled" \in StatusTold(t) => remote[t] = "canceled"

\* Telegram forgets no update that no caller was given, and Slack's cursor passes
\* only messages that were given or left out of a page, whichever polls overlap,
\* are lost or repeated after a restart.
MessagesAreHanded ==
  /\ 1..confirmed \subseteq handed["telegram"]
  /\ 1..position["slack"] \subseteq handed["slack"] \cup skipped

\* If starts succeed and overlap nothing, the client that is open is the one in
\* use, and there is one exactly while the handle counts as started.
OneClientIsOpen ==
  ~spoilt /\ (\A c \in Callers : ~Awaits(c, "start") /\ ~Awaits(c, "close")) =>
    (started <=> http # 0) /\ opens = (IF http = 0 THEN {} ELSE {http})

\* A server that is said not to support skills has none to discover, and one that
\* is said to is not asked in vain: it lists its tools, or it declared the skills.
SkillsAgree ==
  /\ Negotiate = "no" => ~DiscoverFails /\ Discover = {}
  /\ Negotiate = "yes" => handle.declares \/ (~DiscoverFails /\ SkillTools # {})
  /\ Metadata = "another" => handle.metadata = "named"

\* Saves that do not overlap and do not die leave a last record that tells the
\* document, the list is readable until a record was cut off, and a workspace
\* that callers initialize in turn keeps its id.
RecordsTellTheDocument ==
  /\ ~loose /\ ~ListFails /\ records # << >> /\ (\A c \in Callers : saving[c].at # "saved") =>
       Last(records) = document
  /\ ~named => \A c \in Callers : saving[c].at = "saved" => saving[c].id = title

=============================================================================

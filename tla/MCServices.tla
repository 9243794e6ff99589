----------------------------- MODULE MCServices -----------------------------
(***************************************************************************)
(* What agents share and call, for TLC: MCP servers, the team registry,    *)
(* workflows, locks, queues and buses, budgets, capabilities and sessions, *)
(* registries and plugins, providers, market symbols, the adapters of      *)
(* other agents and of channels, and the tables of the commerce schema.    *)
(* They share no state, so a behaviour exercises one of them (scenario)    *)
(* and leaves the others as they are at their start.                       *)
(***************************************************************************)
EXTENDS McpStdio

CONSTANTS
  Nobody, Absent, Torn, Limit, Agents, Tasks, Messages, MaxMembers,     \* Team
  Nodes, Cyclic, Clients, NoToken,                                      \* Flow, Rights
  Msgs, Consumers, Listeners, MaxDrops, Costs, MaxSpent, MaxFailures,   \* Mail, Money
  Nonces, Leeway, MaxClock, MaxSessions, MaxRestarts,                   \* Rights
  Handlers, MaxHistory, MaxPublished,                                   \* Buses
  PageSize, MaxPosted,                                                  \* Gates
  Threads      \* processes or coroutines of those components that have no other kind

VARIABLES
  scenario,
  tasksFile, agent, draft, added, config, roster, stray, ids, enrolled, left, met, mail, hand, listing, batch, received, misread,
  edges, onError, layers, layer, state, upstream, outputs, verdict,
  key, client, lapsed,
  open, queue, unacked, work, published, handled, drops, listening, inbox, seen, sent,
  budget, spent, paused, step, log, excused, failures, strict, table, total, priced, used, lost, warned,
  clock, expiry, revoked, lines, revoker, settled, spoilt, sessions, ended, refresher, restarts,
  made, indexes, at, part, failed,
  stores, generic, abilities, specs, roles, tools, rules, discovery,
  installed, shelf, torn, market, writer, promised, crossed, writes, hook, finders, loader, overlapped,
  text, from, read, phase,
  llms, vlms, defaults, keys, preset, talk, request, record, balance, answers, recorded, attempt, told, waited,
  session, marked, asked, raced, via, remote, local, calling,
  posted, confirmed, position, poll, handed, skipped,
  httpStarted, http, opens, httpMade, exchange, httpSpoilt, handle,
  title, named, document, records, saving, saves, loose,
  subs, history, publisher, events, due, got, handles, line, signal, waiter, early,
  kept, timer, stored, updates, unarmed, waits, priority, order, resolved
teamVars ==
  <<tasksFile, agent, draft, added, config, roster, stray, ids, enrolled, left, met,
    mail, hand, listing, batch, received, misread>>
flowVars == <<edges, onError, layers, layer, state, upstream, outputs, verdict>>
lockVars == <<key, client, lapsed>>
mailVars == <<open, queue, unacked, work, published, handled, drops, listening, inbox, seen, sent>>
budgetVars ==
  <<budget, spent, paused, step, log, excused, failures, strict, table, total, priced, used, lost, warned>>
rightVars == <<clock, expiry, revoked, lines, revoker, settled, spoilt, sessions, ended, refresher, restarts>>
schemaVars == <<made, indexes, at, part, failed>>
registryVars ==
  <<stores, generic, abilities, specs, roles, tools, rules, discovery, installed, shelf, torn, market,
    writer, promised, crossed, writes, hook, finders, loader, overlapped>>
symbolVars == <<text, from, read, phase>>
providerVars ==
  <<llms, vlms, defaults, keys, preset, talk, request, record, balance, answers, recorded, attempt, told, waited>>
gatewayVars ==
  <<session, marked, asked, raced, via, remote, local, calling, posted, confirmed, position, poll, handed,
    skipped, httpStarted, http, opens, httpMade, exchange, httpSpoilt, handle,
    title, named, document, records, saving, saves, loose>>
deliveryVars ==
  <<subs, history, publisher, events, due, got, handles, line, signal, waiter, early,
    kept, timer, stored, updates, unarmed, waits, priority, order, resolved>>

Team == INSTANCE TeamRegistry
Flow == INSTANCE WorkflowEngine
Mail == INSTANCE Messaging
Money == INSTANCE Budgets
Rights == INSTANCE Capabilities
Schema == INSTANCE CommerceSchema WITH Starters <- Threads
Registry == INSTANCE Registries WITH
  Names <- {"default", "x"}, Processes <- Threads, Loaders <- Threads, MaxWrites <- 3
Markets == INSTANCE Symbols WITH
  Bases <- {<<"BTC">>, <<"BTC", "B">>, <<"B">>, <<"WIDE">>, <<"FD">>, <<"BTC", "FD">>}
Models == INSTANCE Providers WITH
  Window <- 2, MinBalance <- 1, MaxRetries <- 3, MaxEvents <- 3, sent <- request, seen <- recorded
Gates == INSTANCE Gateways WITH
  Callers <- Threads, Limit <- PageSize, MaxMessages <- MaxPosted,
  started <- httpStarted, made <- httpMade, spoilt <- httpSpoilt
Buses == INSTANCE Delivery WITH
  Publishers <- Threads, MaxEvents <- MaxPublished, Agents <- {"a", "b", "c"}, pending <- kept

ASSUME MoneyAssumption == Money!CostsAssumption
ASSUME GatesAssumption == Gates!LimitAssumption
ASSUME RightsAssumption == Rights!BoundsAssumption
ASSUME LockAssumption == Rights!TokenAssumption
ASSUME TeamAssumption == Team!DocumentsAssumption

\* The scenarios of the components that have several.
Teaming == {"team", "tasks", "mail"}
Queues == {"queue", "bus"}
Budgeting == {"quota", "costs"}
Granting == {"tokens", "sessions"}
Registering == {"registry", "roles", "plugins", "loads"}
Asking == {"defaults", "conversation", "live state", "retries"}
Adapting == {"acp", "a2a", "channels", "http", "skills", "workspace"}
Delivering == {"events", "daemon bus", "barrier", "memory", "graph"}

\* Scenarios whose components start in several states fix them in the others.
ServicesInit ==
  /\ scenario \in {"mcp", "workflow", "lock", "schema", "symbols"} \cup Teaming \cup Queues
       \cup Budgeting \cup Granting \cup Registering \cup Asking \cup Adapting \cup Delivering
  /\ Init /\ Team!Init /\ Flow!Init /\ Rights!LockInit /\ Mail!Init /\ Money!Init
  /\ Rights!Init /\ Registry!Init /\ Models!Init /\ Gates!Init
  /\ scenario # "workflow" => edges = {} /\ onError = "rollback"
  /\ scenario # "quota" => budget = 1
  /\ scenario # "costs" => strict
  /\ scenario # "a2a" => via = "http"
  /\ IF scenario = "schema" THEN Schema!Init
     ELSE made = {} /\ indexes = {} /\ at = << >> /\ part = << >> /\ failed = << >>
  /\ IF scenario = "symbols" THEN Markets!Init
     ELSE text = "" /\ from = "" /\ read = "" /\ phase = "given"
  /\ Buses!Init /\ (scenario # "graph" => priority = [a \in {"a", "b", "c"} |-> 0] /\ order = <<"a", "b", "c">>)
ServicesNext ==
  /\ UNCHANGED scenario
  /\ \/ scenario = "mcp" /\ Next
     \/ scenario = "team" /\ Team!TeamNext
     \/ scenario = "tasks" /\ Team!TaskNext
     \/ scenario = "mail" /\ Team!MailNext
     \/ scenario = "workflow" /\ Flow!Next
     \/ scenario = "lock" /\ Rights!LockNext
     \/ scenario = "queue" /\ Mail!QueueNext
     \/ scenario = "bus" /\ Mail!BusNext
     \/ scenario = "quota" /\ Money!QuotaNext
     \/ scenario = "costs" /\ Money!CostNext
     \/ scenario = "tokens" /\ Rights!TokenNext
     \/ scenario = "sessions" /\ Rights!SessionNext
     \/ scenario = "schema" /\ Schema!Next
     \/ scenario = "registry" /\ Registry!RegistryNext
     \/ scenario = "roles" /\ Registry!RoleNext
     \/ scenario = "plugins" /\ Registry!PluginNext
     \/ scenario = "loads" /\ Registry!LoadNext
     \/ scenario = "symbols" /\ Markets!Next
     \/ scenario = "defaults" /\ Models!DefaultsNext
     \/ scenario = "conversation" /\ Models!ConversationNext
     \/ scenario = "live state" /\ Models!LiveNext
     \/ scenario = "retries" /\ Models!RetryNext
     \/ scenario = "acp" /\ Gates!AcpNext
     \/ scenario = "a2a" /\ Gates!A2aNext
     \/ scenario = "channels" /\ Gates!ChannelNext
     \/ scenario = "http" /\ Gates!HttpNext
     \/ scenario = "skills" /\ Gates!SkillNext
     \/ scenario = "workspace" /\ Gates!WorkNext
     \/ scenario = "events" /\ Buses!BusNext
     \/ scenario = "daemon bus" /\ Buses!DaemonNext
     \/ scenario = "barrier" /\ Buses!BarrierNext
     \/ scenario = "memory" /\ Buses!MemoryNext
     \/ scenario = "graph" /\ Buses!GraphNext
  /\ scenario # "mcp" => UNCHANGED vars
  /\ scenario \notin Teaming => UNCHANGED teamVars
  /\ scenario # "workflow" => UNCHANGED flowVars
  /\ scenario # "lock" => UNCHANGED lockVars
  /\ scenario \notin Queues => UNCHANGED mailVars
  /\ scenario \notin Budgeting => UNCHANGED budgetVars
  /\ scenario \notin Granting => UNCHANGED rightVars
  /\ scenario # "schema" => UNCHANGED schemaVars
  /\ scenario \notin Registering => UNCHANGED registryVars
  /\ scenario # "symbols" => UNCHANGED symbolVars
  /\ scenario \notin Asking => UNCHANGED providerVars
  /\ scenario \notin Adapting => UNCHANGED gatewayVars
  /\ scenario \notin Delivering => UNCHANGED deliveryVars

allVars ==
  <<scenario, vars, teamVars, flowVars, lockVars, mailVars, budgetVars, rightVars, schemaVars,
    registryVars, symbolVars, providerVars, gatewayVars, deliveryVars>>
ServicesSpec == ServicesInit /\ [][ServicesNext]_allVars

\* All keep their types.
TypesOK ==
  /\ scenario = "mcp" => TypeOK
  /\ scenario \in Teaming => Team!TypeOK
  /\ scenario = "workflow" => Flow!TypeOK
  /\ scenario = "lock" => Rights!LockTyped
  /\ scenario \in Queues => Mail!TypeOK
  /\ scenario \in Budgeting => Money!TypeOK
  /\ scenario \in Granting => Rights!TypeOK
  /\ scenario = "schema" => Schema!TypeOK
  /\ scenario \in Registering => Registry!TypeOK
  /\ scenario = "symbols" => Markets!TypeOK
  /\ scenario \in Asking => Models!TypeOK
  /\ scenario \in Adapting => Gates!TypeOK
  /\ scenario \in Delivering => Buses!TypeOK
\* Over stdio, an answer is the one to its request, and nobody waits for the
\* answer of a server whose end was noticed; over HTTP, the client in use is the
\* open one.
RequestsAnswered ==
  /\ scenario = "mcp" => ResponsesMatch /\ NobodyWaitsOnADeadServer
  /\ scenario = "http" => Gates!OneClientIsOpen
\* A message written before anybody opened its file is not lost by the readers;
\* a channel's is not passed over by the cursor before a caller was given it.
WrittenMailArrives ==
  /\ scenario = "mail" => Team!WrittenMailArrives
  /\ scenario = "channels" => Gates!MessagesAreHanded
\* What is put in order, or taken out of a sequence, comes as it should: a node
\* after those it depends on, and exactly the cyclic graphs are refused; tables
\* after those they refer to; victims are deadlocked; the default is the first
\* model that has a key; a conversation is sent whole; an exchange's name of a
\* symbol is read back.
SequencesAgree ==
  /\ scenario = "workflow" => Flow!DependenciesFirst
  /\ scenario = "schema" => Schema!SchemaComes
  /\ scenario = "graph" => Buses!VictimsAreDeadlocked
  /\ scenario = "defaults" => Models!DefaultsAreFirst
  /\ scenario = "conversation" => Models!ConversationIsWhole
  /\ scenario = "symbols" => Markets!ReadIsCanonical /\ Markets!WrittenIsRead
\* Nobody takes the key from a client whose key has not lapsed.
HolderHolds == scenario = "lock" => Rights!HolderHolds
\* A published message waits, is held or was handled; a listener is given all
\* events of its time, once each; a signal wakes all, an update will be written.
NothingDropped ==
  /\ scenario \in Queues => Mail!NothingDropped
  /\ scenario \in Delivering => Buses!EachOnce /\ Buses!SignalSeen /\ Buses!UpdatesHaveATimer
\* A goal over its budget is paused unless it was resumed, and an overrun is told.
BudgetsKept == scenario \in Budgeting => Money!BudgetsKept
\* A revoked token is refused from then on, in later processes too; a line of
\* sessions that is over stays so; grants run out, and match by a common name.
RightsStep ==
  scenario \in Granting =>
    Rights!RevokedStaysRevoked' /\ Rights!LineStep /\ Rights!MatchIsOverlap /\ Rights!GrantsRunOut
RightsEnd == [][RightsStep]_allVars
\* What registries say is there can be called: providers, plugins, imports; and
\* a team has its lead and its members.
RegistriesAgree ==
  /\ scenario = "team" => Team!TeamIsWhole
  /\ scenario \in Registering =>
       Registry!HasAgrees /\ Registry!DiscoveryIsWhole /\ Registry!PluginsStay /\ Registry!ImportsRestored
\* What adapters and callers of models tell is what happened on the other side.
GatewaysAgree ==
  /\ scenario \in Adapting =>
       Gates!SessionsTell /\ Gates!CancelledIsTrue /\ Gates!SkillsAgree /\ Gates!RecordsTellTheDocument
  /\ scenario \in Asking => Models!HealthIsRecent /\ Models!RetriesEnd
\* Every task that was added stays in tasks.json ("file locking for multi-agent
\* safety").
TasksKept == Team!TasksKept

=============================================================================

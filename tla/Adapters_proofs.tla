-------------------------- MODULE Adapters_proofs --------------------------
(***************************************************************************)
(* Proofs about what names the others' code and speaks their protocols,    *)
(* composed as MCServices composes it: the team, registries and plugins,   *)
(* providers, and the adapters of agents, of MCP servers and of the        *)
(* research workspace; for any agents, threads and bounds.                 *)
(***************************************************************************)
EXTENDS MCServices, SequenceTheorems, TLAPS

-----------------------------------------------------------------------------
(* The team.  Whatever is written is sound, and while no two calls met and *)
(* none was cut off, what an agent is about to write is what is wanted.    *)
Teams == [lead : Nat, members : SUBSET [name : Agents, id : Nat]]
Sound(team) ==
  /\ team.lead \in {m.id : m \in team.members} \cup left \cup {0}
  /\ team.lead = 0 => team.members = {}
TeamTyped ==
  /\ config \in {Absent, Torn} \cup Teams /\ roster \in [Agents -> Teams]
  /\ agent \in [Agents -> {"idle", "enrolling", "renewing", "dead"}]
  /\ ids \in Nat /\ met \in BOOLEAN
TeamsSound == (Team!HasTeam => Sound(config)) /\ \A a \in Agents : Sound(roster[a])
Wanted ==
  /\ stray = {} /\ (config = Absent => enrolled = {})
  /\ \A a, b \in Agents : agent[a] # "idle" /\ agent[b] # "idle" => a = b
  /\ \A a \in Agents : agent[a] # "idle" => agent[a] # "dead" /\ roster[a].members = enrolled
  /\ (\A a \in Agents : agent[a] = "idle") => (Team!HasTeam => config.members = enrolled)
TeamInv == TeamTyped /\ TeamsSound /\ (~met => Wanted)

\* At the start there is no team.
LEMMA TeamStart == Team!Init => TeamInv
<1> SUFFICES ASSUME Team!Init PROVE TeamInv
  OBVIOUS
<1>1. [lead |-> 0, members |-> {}] \in Teams
  BY DEF Teams
<1>2. TeamTyped
  BY <1>1 DEF Team!Init, Team!NoMembers, TeamTyped
<1>3. TeamsSound
  BY DEF Team!Init, Team!NoMembers, Team!HasTeam, TeamsSound, Sound
<1>4. Wanted
  BY DEF Team!Init, Team!HasTeam, Wanted
<1> QED BY <1>2, <1>3, <1>4 DEF TeamInv

\* A call reads the team and decides what it will write.
LEMMA TeamRewritten ==
  ASSUME TeamInv, NEW a \in Agents, NEW team \in Teams, Team!Rewrites(a, team),
         ids' \in Nat, left \subseteq left',
         team.lead \in {m.id : m \in team.members} \cup left' \cup {0}, team.lead = 0 => team.members = {},
         ~met' => team.members = enrolled', config = Absent => enrolled' = enrolled
  PROVE  TeamInv'
<1>1. /\ agent[a] = "idle" /\ agent' = [agent EXCEPT ![a] = "enrolling"]
      /\ roster' = [roster EXCEPT ![a] = team] /\ met' = (met \/ \E b \in Agents \ {a} : agent[b] # "idle")
      /\ config' = config /\ stray' = stray
  BY DEF Team!Rewrites, Team!Goes
<1>2. TeamTyped
  BY DEF TeamInv
<1>3. met' \in BOOLEAN
  BY <1>1, <1>2 DEF TeamTyped
<1>4. TeamTyped'
  BY <1>1, <1>2, <1>3 DEF TeamTyped, Teams
<1>5. TeamsSound'
  BY <1>1, <1>2 DEF TeamInv, TeamsSound, TeamTyped, Team!HasTeam, Sound
<1>6. ASSUME ~met' PROVE Wanted'
  <2>1. Wanted /\ \A b \in Agents \ {a} : agent[b] = "idle"
    BY <1>1, <1>6 DEF TeamInv
  <2>2. \A b \in Agents \ {a} : agent'[b] = "idle"
    BY <1>1, <1>2, <2>1 DEF TeamTyped
  <2>3. agent'[a] = "enrolling" /\ roster'[a] = team
    BY <1>1, <1>2 DEF TeamTyped
  <2>4. team.members = enrolled'
    BY <1>1, <1>6
  <2> QED BY <1>1, <2>1, <2>2, <2>3, <2>4 DEF Wanted
<1> QED BY <1>4, <1>5, <1>6 DEF TeamInv

\* Creating and changing a team, cleaning up and dying keep the invariant.
LEMMA TeamStep ==
  ASSUME TeamInv, Team!TeamNext
  PROVE  TeamInv'
<1>0. TeamTyped /\ TeamsSound /\ (~met => Wanted)
  BY DEF TeamInv
<1>1. ASSUME NEW a \in Agents, Team!CreateTeam(a) PROVE TeamInv'
  <2>1. Team!NoMembers \in Teams /\ Team!NoMembers.members = {} /\ Team!NoMembers.lead = 0
    BY DEF Team!NoMembers, Teams
  <2>2. config = Absent /\ Team!Rewrites(a, Team!NoMembers) /\ UNCHANGED <<ids, enrolled, left>>
    BY <1>1 DEF Team!CreateTeam
  <2>3. ~met' => enrolled = {}
    BY <1>0, <2>2 DEF Wanted, Team!Rewrites
  <2> HIDE DEF Teams
  <2> QED BY <1>0, <2>1, <2>2, <2>3, TeamRewritten DEF TeamTyped
<1>2. ASSUME NEW a \in Agents, NEW n \in Agents, Team!AddMember(a, n) PROVE TeamInv'
  <2> DEFINE member == [name |-> n, id |-> ids + 1]
             team == [lead |-> IF config.lead = 0 THEN member.id ELSE config.lead,
                      members |-> config.members \cup {member}]
  <2>1. /\ Team!HasTeam /\ ids' = ids + 1 /\ enrolled' = enrolled \cup {member} /\ left' = left
        /\ Team!Rewrites(a, team)
    BY <1>2 DEF Team!AddMember
  <2>2. config \in Teams /\ config # Absent /\ Sound(config)
    BY <1>0, <2>1 DEF TeamTyped, TeamsSound, Team!HasTeam
  <2>3. ids + 1 \in Nat /\ ids + 1 # 0
    BY <1>0 DEF TeamTyped
  <2>4. member \in [name : Agents, id : Nat] /\ member.id = ids + 1
    BY <2>3
  <2>5. config.lead \in Nat /\ config.members \in SUBSET [name : Agents, id : Nat]
    BY <2>2 DEF Teams
  <2> HIDE DEF member
  <2>6. team \in Teams
    BY <2>3, <2>4, <2>5 DEF Teams
  <2>7. team.lead # 0 /\ team.members = config.members \cup {member}
    BY <2>3, <2>4
  <2>8. team.lead \in {m.id : m \in team.members} \cup left
    <3>1. CASE config.lead = 0
      BY <2>7, <3>1
    <3>2. CASE config.lead # 0
      <4>1. config.lead \in {m.id : m \in config.members} \cup left
        BY <2>2, <3>2 DEF Sound
      <4> QED BY <2>7, <3>2, <4>1
    <3> QED BY <3>1, <3>2
  <2>9. ~met' => team.members = enrolled'
    <3>1. agent[a] = "idle" /\ (~met' => \A b \in Agents \ {a} : agent[b] = "idle")
      BY <2>1 DEF Team!Rewrites, Team!Goes
    <3>2. ~met' => ~met /\ \A b \in Agents : agent[b] = "idle"
      BY <2>1, <3>1 DEF Team!Rewrites
    <3> QED BY <1>0, <2>1, <2>7, <3>2 DEF Wanted
  <2> HIDE DEF team, Teams
  <2> QED BY <1>0, <2>1, <2>2, <2>3, <2>6, <2>7, <2>8, <2>9, TeamRewritten
<1>3. ASSUME NEW a \in Agents, NEW n \in Agents, Team!RemoveMember(a, n) PROVE TeamInv'
  <2> DEFINE team == [config EXCEPT !.members = Team!Others(@, n)]
  <2>1. /\ Team!HasTeam /\ ids' = ids /\ enrolled' = Team!Others(enrolled, n) /\ Team!Rewrites(a, team)
        /\ left' = left \cup {m.id : m \in config.members \ Team!Others(config.members, n)}
    BY <1>3 DEF Team!RemoveMember
  <2>2. config \in Teams /\ config # Absent /\ Sound(config)
    BY <1>0, <2>1 DEF TeamTyped, TeamsSound, Team!HasTeam
  <2>3. config.lead \in Nat /\ config.members \in SUBSET [name : Agents, id : Nat]
    BY <2>2 DEF Teams
  <2>4. Team!Others(config.members, n) \subseteq config.members
    BY DEF Team!Others
  <2>5. team = [lead |-> config.lead, members |-> Team!Others(config.members, n)]
    BY <2>2 DEF Teams
  <2>6. team \in Teams
    BY <2>3, <2>4, <2>5 DEF Teams
  <2>7. team.lead = config.lead /\ team.members = Team!Others(config.members, n)
    BY <2>5
  <2> HIDE DEF team
  <2>8. team.lead \in {m.id : m \in team.members} \cup left' \cup {0}
    BY <2>1, <2>2, <2>7 DEF Sound
  <2>9. team.lead = 0 => team.members = {}
    BY <2>2, <2>4, <2>7 DEF Sound
  <2>10. ~met' => team.members = enrolled'
    <3>1. agent[a] = "idle" /\ (~met' => \A b \in Agents \ {a} : agent[b] = "idle")
      BY <2>1 DEF Team!Rewrites, Team!Goes
    <3>2. ~met' => ~met /\ \A b \in Agents : agent[b] = "idle"
      BY <2>1, <3>1 DEF Team!Rewrites
    <3> QED BY <1>0, <2>1, <2>7, <3>2 DEF Wanted
  <2>11. ids' \in Nat /\ left \subseteq left'
    BY <1>0, <2>1 DEF TeamTyped
  <2> HIDE DEF Teams
  <2> QED BY <2>1, <2>2, <2>6, <2>8, <2>9, <2>10, <2>11, TeamRewritten
<1>4. ASSUME NEW a \in Agents, Team!EmptyConfig(a) PROVE TeamInv'
  <2>1. /\ agent[a] = "enrolling" /\ agent' = [agent EXCEPT ![a] = "renewing"] /\ config' = Torn
        /\ UNCHANGED <<roster, stray, ids, enrolled, left, met>>
    BY <1>4 DEF Team!EmptyConfig, Team!Goes
  <2>2. TeamTyped'
    BY <1>0, <2>1 DEF TeamTyped
  <2>3. TeamsSound'
    BY <1>0, <2>1 DEF TeamsSound, Team!HasTeam, Sound
  <2>4. \A b \in Agents : agent'[b] = "idle" <=> agent[b] = "idle"
    BY <1>0, <2>1 DEF TeamTyped
  <2>5. \A b \in Agents : agent'[b] = "dead" => agent[b] = "dead"
    BY <1>0, <2>1 DEF TeamTyped
  <2>6. Wanted => Wanted'
    BY <2>1, <2>4, <2>5, TeamAssumption DEF Wanted, Team!HasTeam, Team!DocumentsAssumption
  <2> QED BY <1>0, <2>1, <2>2, <2>3, <2>6 DEF TeamInv
<1>5. ASSUME NEW a \in Agents, Team!WriteConfig(a) PROVE TeamInv'
  <2>1. /\ agent[a] = "renewing" /\ agent' = [agent EXCEPT ![a] = "idle"]
        /\ roster' = [roster EXCEPT ![a] = Team!NoMembers] /\ stray' = stray \ {a}
        /\ UNCHANGED <<ids, enrolled, left, met>>
    BY <1>5 DEF Team!WriteConfig, Team!Goes
  <2>2. config' = config \/ (a \notin stray /\ (config' = roster[a] \/ config' = Torn))
    BY <1>5 DEF Team!WriteConfig
  <2>3. a \notin stray => config' = roster[a] \/ config' = Torn
    BY <1>5 DEF Team!WriteConfig
  <2>4. Team!NoMembers \in Teams /\ Team!NoMembers.members = {} /\ Team!NoMembers.lead = 0
    BY DEF Team!NoMembers, Teams
  <2>5. roster[a] \in Teams /\ roster[a] \notin {Absent, Torn} /\ Absent # Torn
    BY <1>0, TeamAssumption DEF TeamTyped, Team!DocumentsAssumption, Teams
  <2>6. TeamTyped'
    BY <1>0, <2>1, <2>2, <2>4, <2>5 DEF TeamTyped
  <2>7. TeamsSound'
    <3>1. \A b \in Agents : Sound(roster[b])'
      BY <1>0, <2>1, <2>4 DEF TeamTyped, TeamsSound, Sound
    <3>2. (Team!HasTeam => Sound(config))'
      <4>1. CASE config' = config
        BY <1>0, <2>1, <4>1 DEF TeamsSound, Sound, Team!HasTeam
      <4>2. CASE config' = roster[a]
        BY <1>0, <2>1, <4>2 DEF TeamsSound, Sound
      <4>3. CASE config' = Torn
        BY <4>3 DEF Team!HasTeam
      <4> QED BY <2>2, <4>1, <4>2, <4>3
    <3> QED BY <3>1, <3>2 DEF TeamsSound
  <2>8. ASSUME Wanted PROVE Wanted'
    <3>1. stray' = {} /\ (config' = roster[a] \/ config' = Torn)
      BY <2>1, <2>3, <2>8 DEF Wanted
    <3>2. roster[a].members = enrolled /\ \A b \in Agents \ {a} : agent[b] = "idle"
      BY <2>1, <2>8 DEF Wanted
    <3>3. \A b \in Agents : agent'[b] = "idle"
      BY <1>0, <2>1, <3>2 DEF TeamTyped
    <3>4. config' # Absent
      BY <2>5, <3>1
    <3>5. Team!HasTeam' => config'.members = enrolled'
      BY <2>1, <3>1, <3>2 DEF Team!HasTeam
    <3> QED BY <3>1, <3>3, <3>4, <3>5 DEF Wanted
  <2> QED BY <1>0, <2>1, <2>6, <2>7, <2>8 DEF TeamInv
<1>6. ASSUME NEW a \in Agents, Team!CleanUp(a) PROVE TeamInv'
  <2>1. /\ agent[a] = "idle" /\ config' = Absent /\ enrolled' = {}
        /\ stray' = {b \in Agents : agent[b] \in {"writing", "renewing"}}
        /\ met' = (met \/ \E b \in Agents : agent[b] # "idle") /\ UNCHANGED <<agent, roster, ids, left>>
    BY <1>6 DEF Team!CleanUp
  <2>2. met' \in BOOLEAN
    BY <1>0, <2>1 DEF TeamTyped
  <2>3. TeamTyped' /\ TeamsSound'
    BY <1>0, <2>1, <2>2 DEF TeamTyped, TeamsSound, Team!HasTeam, Sound
  <2>4. ASSUME ~met' PROVE Wanted'
    <3>1. \A b \in Agents : agent[b] = "idle"
      BY <2>1, <2>4
    <3> QED BY <2>1, <3>1 DEF Wanted, Team!HasTeam
  <2> QED BY <2>3, <2>4 DEF TeamInv
<1>7. ASSUME NEW a \in Agents, Team!Crash(a) PROVE TeamInv'
  <2>1. /\ agent' = [agent EXCEPT ![a] = "dead"] /\ roster' = [roster EXCEPT ![a] = Team!NoMembers]
        /\ UNCHANGED <<config, ids, enrolled, left>>
    BY <1>7 DEF Team!Crash
  <2>2. Team!NoMembers \in Teams /\ Team!NoMembers.members = {} /\ Team!NoMembers.lead = 0
    BY DEF Team!NoMembers, Teams
  <2>3. met' = TRUE
    BY <1>7 DEF Team!Crash
  <2>4. TeamTyped'
    BY <1>0, <2>1, <2>2, <2>3 DEF TeamTyped
  <2>5. TeamsSound'
    BY <1>0, <2>1, <2>2 DEF TeamTyped, TeamsSound, Team!HasTeam, Sound
  <2> QED BY <2>3, <2>4, <2>5 DEF TeamInv
<1> QED BY <1>1, <1>2, <1>3, <1>4, <1>5, <1>6, <1>7 DEF Team!TeamNext

\* What the team promises follows.
LEMMA TeamPromise == TeamInv => Team!TeamIsWhole
  BY DEF TeamInv, TeamsSound, Sound, Wanted, Team!TeamIsWhole

-----------------------------------------------------------------------------
(* The registries: after a discovery that returned, what it found is there.*)
RegistryNames == {"default", "x"}
RegistryInv ==
  /\ stores \in [Registry!Builtin -> [RegistryNames -> Nat]]
  /\ generic \in [Registry!Categories -> [RegistryNames -> Nat]]
  /\ discovery = "done" => stores["llm"]["default"] # 0 /\ generic["video"]["default"] # 0

\* At the start no name is registered.
LEMMA RegistryStart == Registry!Init => RegistryInv
  BY DEF Registry!Init, Registry!Empty, RegistryInv, RegistryNames

\* Registering and clearing names keep it, and so does a discovery.
LEMMA RegistryStep ==
  ASSUME RegistryInv, Registry!RegistryNext \/ Registry!RoleNext
  PROVE  RegistryInv'
<1>0. /\ "llm" \in Registry!Builtin /\ "vlm" \in Registry!Builtin /\ "image_gen" \in Registry!Builtin
      /\ "llm" \in Registry!Categories /\ "video" \in Registry!Categories /\ "default" \in RegistryNames
      /\ Registry!Categories = Registry!Builtin \cup {"video"} /\ "video" \notin Registry!Builtin
  BY DEF Registry!Builtin, Registry!Categories, RegistryNames
<1>1. ASSUME NEW c \in Registry!Builtin, NEW n \in RegistryNames, NEW v \in 1..2,
             stores' = [stores EXCEPT ![c][n] = v], UNCHANGED <<generic, discovery>>
      PROVE  RegistryInv'
  <2>1. stores' = [stores EXCEPT ![c] = [stores[c] EXCEPT ![n] = v]] /\ v \in Nat /\ v # 0
    BY <1>1
  <2>2. stores' \in [Registry!Builtin -> [RegistryNames -> Nat]]
    BY <2>1 DEF RegistryInv
  <2>3. stores["llm"]["default"] # 0 => stores'["llm"]["default"] # 0
    BY <1>0, <2>1 DEF RegistryInv
  <2> QED BY <1>1, <2>2, <2>3 DEF RegistryInv
<1>2. ASSUME NEW c \in Registry!Categories, NEW n \in RegistryNames, NEW v \in 1..2,
             generic' = [generic EXCEPT ![c][n] = v], UNCHANGED <<stores, discovery>>
      PROVE  RegistryInv'
  <2>1. generic' = [generic EXCEPT ![c] = [generic[c] EXCEPT ![n] = v]] /\ v \in Nat /\ v # 0
    BY <1>2
  <2>2. generic' \in [Registry!Categories -> [RegistryNames -> Nat]]
    BY <2>1 DEF RegistryInv
  <2>3. generic["video"]["default"] # 0 => generic'["video"]["default"] # 0
    BY <1>0, <2>1 DEF RegistryInv
  <2> QED BY <1>2, <2>2, <2>3 DEF RegistryInv
<1>3. ASSUME NEW n \in RegistryNames, NEW v \in 1..2, NEW r \in BOOLEAN,
             \/ Registry!RegisterLlm(n, v, r) \/ Registry!RegisterVlm(n, v, r)
             \/ Registry!RegisterImageGen(n, v, r) \/ Registry!RegisterWithCapability(n, v)
      PROVE  RegistryInv'
  BY <1>0, <1>1, <1>3 DEF Registry!RegisterLlm, Registry!RegisterVlm, Registry!RegisterImageGen, Registry!RegisterWithCapability
<1>4. ASSUME NEW c \in Registry!Categories, NEW n \in RegistryNames, NEW v \in 1..2, NEW r \in BOOLEAN,
             Registry!RegisterGeneric(c, n, v, r)
      PROVE  RegistryInv'
  BY <1>2, <1>4 DEF Registry!RegisterGeneric
<1>5. CASE Registry!Clear
  BY <1>0, <1>5 DEF Registry!Clear, Registry!Empty, RegistryInv, RegistryNames
<1>6. ASSUME NEW broken \in Nat, Registry!AutoDiscover(broken) PROVE RegistryInv'
  <2> DEFINE E == Registry!EntryPoints
             Stops(i) == E[i].cat # "malformed" /\ (i = broken \/ ~Registry!Fits(E[i]))
             Stopping == \E i \in DOMAIN E : Stops(i)
             stop == IF Stopping
                     THEN CHOOSE i \in DOMAIN E : Stops(i) /\ \A j \in 1..i - 1 : ~Stops(j)
                     ELSE Len(E) + 1
             Fresh(c, n) == \E i \in 1..stop - 1 : E[i].cat = c /\ E[i].name = n
  <2>1. DOMAIN E = 1..3 /\ Len(E) = 3 /\ E[1] = [cat |-> "llm", name |-> "default"]
        /\ E[3] = [cat |-> "video", name |-> "default"]
    BY DEF Registry!EntryPoints
  <2>2. /\ stores' = [c \in Registry!Builtin |-> [n \in RegistryNames |-> IF Fresh(c, n) THEN 1 ELSE stores[c][n]]]
        /\ generic' = [c \in Registry!Categories |-> [n \in RegistryNames |->
             IF c \notin Registry!Builtin /\ Fresh(c, n) THEN 1 ELSE generic[c][n]]]
        /\ discovery' = IF stop > Len(E) THEN "done" ELSE IF stop = broken THEN "failed" ELSE "conflict"
    BY <1>6 DEF Registry!AutoDiscover, RegistryNames
  <2>3. Stopping => stop \in 1..3
    <3> HIDE DEF Stops, E
    <3> SUFFICES ASSUME Stopping PROVE \E i \in DOMAIN E : Stops(i) /\ \A j \in 1..i - 1 : ~Stops(j)
      BY <2>1
    <3>1. PICK i \in 1..3 : Stops(i)
      BY <2>1
    <3>2. CASE Stops(1)
      <4>1. \A j \in 1..1 - 1 : ~Stops(j)
        OBVIOUS
      <4> QED BY <2>1, <3>2, <4>1
    <3>3. CASE ~Stops(1) /\ Stops(2)
      <4>1. \A j \in 1..2 - 1 : ~Stops(j)
        BY <3>3
      <4> QED BY <2>1, <3>3, <4>1
    <3>4. CASE ~Stops(1) /\ ~Stops(2)
      <4>1. i = 3
        BY <3>1, <3>4
      <4>2. \A j \in 1..3 - 1 : ~Stops(j)
        BY <3>4
      <4> QED BY <2>1, <3>1, <4>1, <4>2
    <3> QED BY <3>2, <3>3, <3>4
  <2>4. ~Stopping => stop = 4
    <3> HIDE DEF Stopping, E
    <3> QED BY <2>1
  <2> HIDE DEF Stopping, stop, E
  <2>5. ~Stopping => Fresh("llm", "default") /\ Fresh("video", "default")
    <3>1. stop = 4 => 1 \in 1..stop - 1 /\ 3 \in 1..stop - 1
      OBVIOUS
    <3> QED BY <2>1, <2>4, <3>1
  <2>6. discovery' = "done" => ~Stopping
    BY <2>1, <2>2, <2>3
  <2> HIDE DEF Fresh
  <2>7. stores' \in [Registry!Builtin -> [RegistryNames -> Nat]]
        /\ generic' \in [Registry!Categories -> [RegistryNames -> Nat]]
    BY <2>2 DEF RegistryInv
  <2>8. ~Stopping => stores'["llm"]["default"] # 0 /\ generic'["video"]["default"] # 0
    BY <1>0, <2>2, <2>5
  <2> QED BY <2>6, <2>7, <2>8 DEF RegistryInv
<1>7. CASE UNCHANGED <<stores, generic, discovery>>
  BY <1>7 DEF RegistryInv
<1>8. CASE Registry!RegistryNext
  <2>1. \A broken \in 0..Len(Registry!EntryPoints) : broken \in Nat
    BY DEF Registry!EntryPoints
  <2>2. "default" \in RegistryNames /\ 1 \in 1..2
    BY DEF RegistryNames
  <2> QED
    BY <1>0, <1>3, <1>4, <1>5, <1>6, <1>8, <2>1, <2>2 DEF Registry!RegistryNext, RegistryNames
<1>9. CASE Registry!RoleNext
  BY <1>5, <1>7, <1>9 DEF Registry!RoleNext, Registry!ClearTools, Registry!ResetRoles, Registry!RegisterTool,
     Registry!RegisterRule, Registry!RemoveRule, Registry!RegisterSpec, Registry!RegisterRuntime
<1> QED BY <1>8, <1>9

\* What a discovery found is there for who asks.
LEMMA DiscoveryFinds == RegistryInv => Registry!DiscoveryIsWhole
<1> SUFFICES ASSUME RegistryInv, discovery = "done", NEW i \in 1..3,
                    Registry!EntryPoints[i].cat # "malformed"
             PROVE  Registry!Found(Registry!EntryPoints[i].cat, Registry!EntryPoints[i].name) # 0
  BY DEF Registry!DiscoveryIsWhole, Registry!EntryPoints
<1>1. \/ Registry!EntryPoints[i] = [cat |-> "llm", name |-> "default"]
      \/ Registry!EntryPoints[i] = [cat |-> "video", name |-> "default"]
  BY DEF Registry!EntryPoints
<1>2. Registry!Found("llm", "default") = stores["llm"]["default"]
  BY DEF Registry!Found, Registry!Llm, Registry!Lookup
<1>3. Registry!Found("video", "default") = generic["video"]["default"]
  BY DEF Registry!Found, Registry!Generic, Registry!Lookup
<1> QED BY <1>1, <1>2, <1>3 DEF RegistryInv

\* What has says, the lists say, and the look-ups too.
LEMMA HasAgreesAlways == Registry!HasAgrees
<1>0. Registry!Categories = Registry!Builtin \cup {"video"} /\ "video" \notin Registry!Builtin
  BY DEF Registry!Builtin, Registry!Categories
<1>1. ASSUME NEW c \in Registry!Categories, NEW n \in RegistryNames
      PROVE  <<c, n>> \in Registry!ListProviders <=>
               (c \in Registry!Builtin /\ stores[c][n] # 0) \/ generic[c][n] # 0
  BY DEF Registry!ListProviders, RegistryNames
<1>2. \A c \in Registry!Builtin : stores[c] = Registry!Empty => \A n \in RegistryNames : stores[c][n] = 0
  BY DEF Registry!Empty, RegistryNames
<1>3. \A c \in Registry!Categories : generic[c] = Registry!Empty => \A n \in RegistryNames : generic[c][n] = 0
  BY DEF Registry!Empty, RegistryNames
<1>4. ASSUME NEW c \in Registry!Categories, NEW n \in RegistryNames, Registry!Has(c, n)
      PROVE  <<c, n>> \in Registry!ListProviders
  BY <1>1, <1>4 DEF Registry!Has
<1>5. ASSUME \A c \in Registry!Builtin : generic[c] = Registry!Empty,
             NEW c \in Registry!Categories, NEW n \in RegistryNames, <<c, n>> \in Registry!ListProviders
      PROVE  Registry!Has(c, n) /\ Registry!Found(c, n) # 0
  <2>1. CASE c \in Registry!Builtin
    <3>1. stores[c][n] # 0 /\ stores[c] # Registry!Empty
      BY <1>0, <1>1, <1>2, <1>3, <1>5, <2>1
    <3>2. Registry!Found(c, n) = stores[c][n]
      BY <2>1, <3>1 DEF Registry!Builtin, Registry!Found, Registry!Lookup, Registry!Llm, Registry!Vlm, Registry!ImageGen
    <3> QED BY <2>1, <3>1, <3>2 DEF Registry!Has
  <2>2. CASE c = "video"
    <3>1. generic[c][n] # 0
      BY <1>0, <1>1, <1>5, <2>2
    <3>2. Registry!Found(c, n) = generic[c][n]
      BY <2>2, <3>1 DEF Registry!Found, Registry!Lookup, Registry!Generic
    <3> QED BY <1>0, <2>2, <3>1, <3>2 DEF Registry!Has
  <2> QED BY <1>0, <2>1, <2>2
<1> QED BY <1>4, <1>5 DEF Registry!HasAgrees, RegistryNames

-----------------------------------------------------------------------------
(* The plugins, while no process crossed another: one writes at a time,    *)
(* the file is torn exactly between its two steps, and what was promised   *)
(* is in the file or in what is being written.                             *)
PluginTyped ==
  /\ installed \in [Threads -> SUBSET RegistryNames] /\ shelf \in SUBSET RegistryNames /\ torn \in BOOLEAN /\ crossed \in BOOLEAN
  /\ writer \in [Threads -> {"none", "opening", "writing"}]
OneWrites ==
  /\ \A p, q \in Threads : writer[p] # "none" /\ writer[q] # "none" => p = q
  /\ torn <=> \E p \in Threads : writer[p] = "writing"
  /\ \A p \in Threads : writer[p] # "none" => promised \subseteq installed[p]
  /\ (\A p \in Threads : writer[p] = "none") => promised \subseteq shelf
PluginInv == PluginTyped /\ (~crossed => OneWrites)

\* At the start nothing is installed.
LEMMA PluginStart == Registry!Init => PluginInv
<1> SUFFICES ASSUME Registry!Init PROVE PluginInv
  OBVIOUS
<1>1. PluginTyped
  BY DEF Registry!Init, PluginTyped
<1>2. OneWrites
  BY DEF Registry!Init, OneWrites
<1> QED BY <1>1, <1>2 DEF PluginInv

\* Changing, saving and reading the plugins keep the invariant.
LEMMA PluginStep ==
  ASSUME PluginInv, Registry!PluginNext
  PROVE  PluginInv'
<1>0. PluginTyped /\ (~crossed => OneWrites)
  BY DEF PluginInv
<1>1. ASSUME NEW p \in Threads, NEW now \in SUBSET RegistryNames, Registry!Begin(p, now),
             ~crossed' => promised' \subseteq now
      PROVE  PluginInv'
  <2>1. /\ writer[p] = "none" /\ installed' = [installed EXCEPT ![p] = now]
        /\ crossed' = (crossed \/ torn \/ installed[p] # shelf \/ \E q \in Threads : writer[q] # "none")
        /\ writer' = [writer EXCEPT ![p] = "opening"] /\ UNCHANGED <<shelf, torn>>
    BY <1>1 DEF Registry!Begin
  <2>2. crossed' \in BOOLEAN
    BY <1>0, <2>1 DEF PluginTyped
  <2>3. PluginTyped'
    BY <1>0, <2>1, <2>2 DEF PluginTyped
  <2>4. ASSUME ~crossed' PROVE OneWrites'
    <3>1. OneWrites /\ ~torn /\ \A q \in Threads : writer[q] = "none"
      BY <1>0, <2>1, <2>4
    <3>2. writer'[p] = "opening" /\ installed'[p] = now /\ \A q \in Threads \ {p} : writer'[q] = "none"
      BY <1>0, <2>1, <3>1 DEF PluginTyped
    <3> QED BY <1>1, <2>1, <2>4, <3>1, <3>2 DEF OneWrites
  <2> QED BY <2>3, <2>4 DEF PluginInv
<1>2. ASSUME NEW p \in Threads, NEW now \in SUBSET RegistryNames, Registry!Begin(p, now), ~crossed'
      PROVE  promised \subseteq installed[p]
  BY <1>0, <1>2 DEF Registry!Begin, OneWrites
<1>3. \A p \in Threads : installed[p] \in SUBSET RegistryNames
  BY <1>0 DEF PluginTyped
<1>4. ASSUME NEW p \in Threads, NEW n \in RegistryNames, Registry!Install(p, n) PROVE PluginInv'
  <2>1. installed[p] \cup {n} \in SUBSET RegistryNames
    BY <1>3
  <2>2. Registry!Begin(p, installed[p] \cup {n}) /\ promised' = promised
    BY <1>4 DEF Registry!Install
  <2> QED BY <1>1, <1>2, <2>1, <2>2
<1>5. ASSUME NEW p \in Threads, NEW n \in RegistryNames, Registry!Uninstall(p, n) PROVE PluginInv'
  <2>1. installed[p] \ {n} \in SUBSET RegistryNames
    BY <1>3
  <2>2. Registry!Begin(p, installed[p] \ {n}) /\ promised' = promised \ {n}
    BY <1>5 DEF Registry!Uninstall
  <2> QED BY <1>1, <1>2, <2>1, <2>2
<1>6. ASSUME NEW p \in Threads, NEW n \in RegistryNames, Registry!Configure(p, n) PROVE PluginInv'
  BY <1>1, <1>2, <1>3, <1>6 DEF Registry!Configure
<1>7. ASSUME NEW p \in Threads, Registry!SaveOpen(p) PROVE PluginInv'
  <2>1. /\ writer[p] = "opening" /\ torn' = TRUE /\ writer' = [writer EXCEPT ![p] = "writing"]
        /\ crossed' = (crossed \/ torn) /\ UNCHANGED <<installed, shelf, promised>>
    BY <1>7 DEF Registry!SaveOpen
  <2>2. crossed' \in BOOLEAN
    BY <1>0, <2>1 DEF PluginTyped
  <2>3. PluginTyped'
    BY <1>0, <2>1, <2>2 DEF PluginTyped
  <2>4. \A q \in Threads : writer'[q] # "none" <=> writer[q] # "none"
    BY <1>0, <2>1 DEF PluginTyped
  <2>5. writer'[p] = "writing"
    BY <1>0, <2>1 DEF PluginTyped
  <2>6. ASSUME ~crossed' PROVE OneWrites'
    BY <1>0, <2>1, <2>4, <2>5, <2>6 DEF OneWrites
  <2> QED BY <2>3, <2>6 DEF PluginInv
<1>8. ASSUME NEW p \in Threads, Registry!SaveWrite(p) PROVE PluginInv'
  <2>1. /\ writer[p] = "writing" /\ shelf' = installed[p] /\ torn' = FALSE
        /\ writer' = [writer EXCEPT ![p] = "none"] /\ promised' = promised \cup installed[p]
        /\ UNCHANGED <<installed, crossed>>
    BY <1>8 DEF Registry!SaveWrite
  <2>2. PluginTyped'
    BY <1>0, <2>1 DEF PluginTyped
  <2>3. ASSUME OneWrites PROVE OneWrites'
    <3>1. promised \subseteq installed[p] /\ \A q \in Threads \ {p} : writer[q] = "none"
      BY <2>1, <2>3 DEF OneWrites
    <3>2. \A q \in Threads : writer'[q] = "none"
      BY <1>0, <2>1, <3>1 DEF PluginTyped
    <3> QED BY <2>1, <3>1, <3>2 DEF OneWrites
  <2> QED BY <1>0, <2>1, <2>2, <2>3 DEF PluginInv
<1>9. ASSUME NEW p \in Threads, Registry!Reopen(p) PROVE PluginInv'
  <2>1. /\ installed' = [installed EXCEPT ![p] = Registry!Known] /\ writer' = [writer EXCEPT ![p] = "none"]
        /\ crossed' = (crossed \/ writer[p] # "none" \/ torn) /\ UNCHANGED <<shelf, torn, promised>>
    BY <1>9 DEF Registry!Reopen, Registry!Load
  <2>2. crossed' \in BOOLEAN
    BY <1>0, <2>1 DEF PluginTyped
  <2>3. PluginTyped'
    BY <1>0, <2>1, <2>2 DEF PluginTyped, Registry!Known
  <2>4. ASSUME ~crossed' PROVE OneWrites'
    <3>1. OneWrites /\ writer[p] = "none" /\ ~torn
      BY <1>0, <2>1, <2>4
    <3>2. writer' = writer /\ \A q \in Threads \ {p} : installed'[q] = installed[q]
      BY <1>0, <2>1, <3>1 DEF PluginTyped
    <3> QED BY <2>1, <3>1, <3>2 DEF OneWrites
  <2> QED BY <2>3, <2>4 DEF PluginInv
<1>10. ASSUME NEW p \in Threads, NEW n \in RegistryNames, Registry!Publish(p, n) PROVE PluginInv'
  <2>1. UNCHANGED <<installed, shelf, torn, writer, promised, crossed>>
    BY <1>10 DEF Registry!Publish
  <2>2. PluginTyped' /\ (OneWrites => OneWrites')
    BY <1>0, <2>1 DEF PluginTyped, OneWrites
  <2> QED BY <1>0, <2>1, <2>2 DEF PluginInv
<1> QED
  BY <1>4, <1>5, <1>6, <1>7, <1>8, <1>9, <1>10 DEF Registry!PluginNext, RegistryNames

-----------------------------------------------------------------------------
(* Loading plugins, while no two loads overlapped: the guard is that of    *)
(* the plugin that runs, which found the real import function.             *)
LoadPlaces == {"idle", "finder", "running", "restored", "done"}
LoadTyped ==
  /\ loader \in [Threads -> [at : LoadPlaces, found : Threads \cup {"real"}]]
  /\ hook \in Threads \cup {"real"} /\ overlapped \in BOOLEAN /\ finders = Registry!Loading
OneLoads ==
  /\ \A t, u \in Registry!Loading : t = u
  /\ \A t \in Threads : loader[t].at = "running" => hook = t /\ loader[t].found = "real"
  /\ (\A t \in Threads : loader[t].at # "running") => hook = "real"
LoadInv == LoadTyped /\ (~overlapped => OneLoads)

\* At the start nothing is loaded.
LEMMA LoadStart == Registry!Init => LoadInv
<1> SUFFICES ASSUME Registry!Init PROVE LoadInv
  OBVIOUS
<1>1. Registry!Loading = {}
  BY DEF Registry!Init, Registry!Loading
<1>2. LoadTyped
  BY <1>1 DEF Registry!Init, LoadTyped, LoadPlaces
<1>3. OneLoads
  BY <1>1 DEF Registry!Init, OneLoads
<1> QED BY <1>2, <1>3 DEF LoadInv

\* Each step of a load keeps the invariant.
LEMMA LoadStep ==
  ASSUME LoadInv, Registry!LoadNext
  PROVE  LoadInv'
<1>0. LoadTyped /\ (~overlapped => OneLoads)
  BY DEF LoadInv
<1>1. ASSUME NEW t \in Threads, NEW place \in LoadPlaces, NEW f \in Threads \cup {"real"},
             loader' = [loader EXCEPT ![t] = [at |-> place, found |-> f]]
      PROVE  /\ loader' \in [Threads -> [at : LoadPlaces, found : Threads \cup {"real"}]]
             /\ loader'[t].at = place /\ loader'[t].found = f
             /\ \A u \in Threads \ {t} : loader'[u] = loader[u]
             /\ Registry!Loading' = IF place \in {"idle", "done"} THEN Registry!Loading \ {t} ELSE Registry!Loading \cup {t}
  <2>1. /\ loader' \in [Threads -> [at : LoadPlaces, found : Threads \cup {"real"}]]
        /\ loader'[t] = [at |-> place, found |-> f] /\ \A u \in Threads \ {t} : loader'[u] = loader[u]
    BY <1>0, <1>1 DEF LoadTyped
  <2> QED BY <2>1 DEF Registry!Loading
<1>2. \A t \in Threads : loader[t].found \in Threads \cup {"real"}
  BY <1>0 DEF LoadTyped
<1>3. ASSUME NEW t \in Threads, Registry!InstallFinder(t) PROVE LoadInv'
  <2>1. /\ loader[t].at = "idle" /\ loader' = [loader EXCEPT ![t] = [at |-> "finder", found |-> loader[t].found]]
        /\ finders' = finders \cup {t} /\ overlapped' = (overlapped \/ Registry!Loading # {}) /\ hook' = hook
    BY <1>3 DEF Registry!InstallFinder, Registry!At
  <2>0. "finder" \in LoadPlaces /\ loader[t].found \in Threads \cup {"real"}
    BY <1>2 DEF LoadPlaces
  <2>2. /\ loader' \in [Threads -> [at : LoadPlaces, found : Threads \cup {"real"}]] /\ loader'[t].at = "finder"
        /\ (\A u \in Threads \ {t} : loader'[u] = loader[u]) /\ Registry!Loading' = Registry!Loading \cup {t}
    BY <1>1, <2>0, <2>1
  <2>3. overlapped' \in BOOLEAN
    BY <1>0, <2>1 DEF LoadTyped
  <2>4. ASSUME ~overlapped' PROVE OneLoads'
    <3>1. OneLoads /\ Registry!Loading = {}
      BY <1>0, <2>1, <2>4
    <3>2. \A u \in Threads : loader[u].at # "running" /\ loader'[u].at # "running"
      BY <2>2, <3>1 DEF Registry!Loading
    <3> QED BY <2>1, <2>2, <3>1, <3>2 DEF OneLoads
  <2> QED BY <1>0, <2>1, <2>2, <2>3, <2>4 DEF LoadInv, LoadTyped
<1>4. ASSUME NEW t \in Threads, Registry!InstallGuard(t) PROVE LoadInv'
  <2>1. /\ loader[t].at = "finder" /\ hook' = t /\ loader' = [loader EXCEPT ![t] = [at |-> "running", found |-> hook]]
        /\ UNCHANGED <<finders, overlapped>>
    BY <1>4 DEF Registry!InstallGuard
  <2>0. "running" \in LoadPlaces /\ hook \in Threads \cup {"real"}
    BY <1>0 DEF LoadPlaces, LoadTyped
  <2>2. /\ loader' \in [Threads -> [at : LoadPlaces, found : Threads \cup {"real"}]] /\ loader'[t].at = "running"
        /\ loader'[t].found = hook
        /\ (\A u \in Threads \ {t} : loader'[u] = loader[u]) /\ Registry!Loading' = Registry!Loading \cup {t}
    BY <1>1, <2>0, <2>1
  <2>3. t \in Registry!Loading
    BY <2>1 DEF Registry!Loading
  <2>4. ASSUME OneLoads PROVE OneLoads'
    <3>1. \A u \in Threads \ {t} : loader[u].at # "running"
      BY <2>3, <2>4 DEF OneLoads, Registry!Loading
    <3>2. hook = "real"
      BY <2>1, <2>4, <3>1 DEF OneLoads
    <3> QED BY <2>1, <2>2, <2>3, <2>4, <3>1, <3>2 DEF OneLoads
  <2> QED BY <1>0, <2>1, <2>2, <2>3, <2>4 DEF LoadInv, LoadTyped
<1>5. ASSUME NEW t \in Threads, Registry!PutBack(t) PROVE LoadInv'
  <2>1. /\ loader[t].at = "running" /\ hook' = loader[t].found
        /\ loader' = [loader EXCEPT ![t] = [at |-> "restored", found |-> loader[t].found]]
        /\ UNCHANGED <<finders, overlapped>>
    BY <1>5 DEF Registry!PutBack, Registry!At
  <2>0. "restored" \in LoadPlaces /\ loader[t].found \in Threads \cup {"real"}
    BY <1>2 DEF LoadPlaces
  <2>2. /\ loader' \in [Threads -> [at : LoadPlaces, found : Threads \cup {"real"}]] /\ loader'[t].at = "restored"
        /\ (\A u \in Threads \ {t} : loader'[u] = loader[u]) /\ Registry!Loading' = Registry!Loading \cup {t}
    BY <1>1, <2>0, <2>1
  <2>3. t \in Registry!Loading
    BY <2>1 DEF Registry!Loading
  <2>4. ASSUME OneLoads PROVE OneLoads'
    <3>1. \A u \in Threads : loader'[u].at # "running"
      BY <2>2, <2>3, <2>4 DEF OneLoads, Registry!Loading
    <3> QED BY <2>1, <2>2, <2>3, <2>4, <3>1 DEF OneLoads
  <2> QED BY <1>0, <1>2, <2>1, <2>2, <2>3, <2>4 DEF LoadInv, LoadTyped
<1>6. ASSUME NEW t \in Threads, Registry!RemoveFinder(t) PROVE LoadInv'
  <2>1. /\ loader[t].at = "restored" /\ finders' = finders \ {t}
        /\ loader' = [loader EXCEPT ![t] = [at |-> "done", found |-> loader[t].found]]
        /\ UNCHANGED <<hook, overlapped>>
    BY <1>6 DEF Registry!RemoveFinder, Registry!At
  <2>0. "done" \in LoadPlaces /\ loader[t].found \in Threads \cup {"real"}
    BY <1>2 DEF LoadPlaces
  <2>2. /\ loader' \in [Threads -> [at : LoadPlaces, found : Threads \cup {"real"}]] /\ loader'[t].at = "done"
        /\ (\A u \in Threads \ {t} : loader'[u] = loader[u]) /\ Registry!Loading' = Registry!Loading \ {t}
    BY <1>1, <2>0, <2>1
  <2>3. OneLoads => OneLoads'
    BY <2>1, <2>2 DEF OneLoads
  <2> QED BY <1>0, <2>1, <2>2, <2>3 DEF LoadInv, LoadTyped
<1>7. ASSUME NEW t \in Threads, Registry!Again(t) PROVE LoadInv'
  <2>1. /\ loader[t].at = "done" /\ loader' = [loader EXCEPT ![t] = [at |-> "idle", found |-> loader[t].found]]
        /\ UNCHANGED <<hook, finders, overlapped>>
    BY <1>7 DEF Registry!Again, Registry!At
  <2>0. "idle" \in LoadPlaces /\ loader[t].found \in Threads \cup {"real"}
    BY <1>2 DEF LoadPlaces
  <2>2. /\ loader' \in [Threads -> [at : LoadPlaces, found : Threads \cup {"real"}]] /\ loader'[t].at = "idle"
        /\ (\A u \in Threads \ {t} : loader'[u] = loader[u]) /\ Registry!Loading' = Registry!Loading \ {t}
    BY <1>1, <2>0, <2>1
  <2>3. t \notin Registry!Loading
    BY <2>1 DEF Registry!Loading
  <2>4. OneLoads => OneLoads'
    BY <2>1, <2>2 DEF OneLoads
  <2> QED BY <1>0, <2>1, <2>2, <2>3, <2>4 DEF LoadInv, LoadTyped
<1> QED BY <1>3, <1>4, <1>5, <1>6, <1>7 DEF Registry!LoadNext

\* A file nobody writes is whole, so what was promised is read back.
LEMMA PluginsStayAlways == PluginInv => Registry!PluginsStay
  BY DEF PluginInv, PluginTyped, OneWrites, Registry!PluginsStay, Registry!Load, Registry!Known

\* The import function is that of the plugin that runs, or the real one.
LEMMA ImportsRestoredAlways == LoadInv => Registry!ImportsRestored
  BY DEF LoadInv, LoadTyped, OneLoads, Registry!ImportsRestored

-----------------------------------------------------------------------------
(* ACP sessions.  A session none of whose cancels met a resume or was cut  *)
(* off is marked exactly if a cancel of it is in progress or was answered. *)
Pending(s) == \E c \in Threads : asked[c] = [op |-> "cancel", on |-> s]
AcpTyped ==
  /\ session \in [Gates!Sessions -> {"none", "active", "cancelled", "closed"}]
  /\ asked \in [Threads -> [op : {"none", "turn", "cancel", "close"}, on : Gates!Sessions]]
  /\ marked \in SUBSET Gates!Sessions
MarksTell ==
  /\ \A s \in marked : Gates!Known(s)
  /\ \A s \in Gates!Sessions : Pending(s) => session[s] # "none"
  /\ \A s \in Gates!Sessions \ raced :
       Gates!Known(s) => (s \in marked <=> Pending(s) \/ session[s] = "cancelled")
AcpInv == AcpTyped /\ MarksTell

\* At the start there is no session.
LEMMA AcpStart == Gates!Init => AcpInv
<1> SUFFICES ASSUME Gates!Init PROVE AcpInv
  OBVIOUS
<1>1. "s" \in Gates!Sessions
  BY DEF Gates!Sessions
<1>2. AcpTyped
  BY <1>1 DEF Gates!Init, Gates!NoCall, AcpTyped
<1>3. \A s \in Gates!Sessions : ~Pending(s) /\ ~Gates!Known(s)
  BY DEF Gates!Init, Gates!NoCall, Pending, Gates!Known
<1> QED BY <1>2, <1>3 DEF Gates!Init, AcpInv, MarksTell

\* A caller but c has a cancel of the session in progress.
Elsewhere(c, s) == \E d \in Threads \ {c} : asked[d] = [op |-> "cancel", on |-> s]

\* Which cancels are in progress before and after a request or an answer of c.
LEMMA PendingElsewhere ==
  ASSUME AcpTyped, NEW c \in Threads, NEW p \in {"none", "turn", "cancel", "close"}, NEW s \in Gates!Sessions,
         asked' = [asked EXCEPT ![c] = [op |-> p, on |-> s]]
  PROVE  /\ asked' \in [Threads -> [op : {"none", "turn", "cancel", "close"}, on : Gates!Sessions]]
         /\ \A r : Pending(r) <=> Elsewhere(c, r) \/ asked[c] = [op |-> "cancel", on |-> r]
         /\ \A r : Pending(r)' <=> Elsewhere(c, r) \/ (p = "cancel" /\ r = s)
<1>1. /\ asked' \in [Threads -> [op : {"none", "turn", "cancel", "close"}, on : Gates!Sessions]]
      /\ asked'[c] = [op |-> p, on |-> s] /\ \A d \in Threads \ {c} : asked'[d] = asked[d]
  BY DEF AcpTyped
<1>2. ASSUME NEW r PROVE Pending(r) <=> Elsewhere(c, r) \/ asked[c] = [op |-> "cancel", on |-> r]
  BY DEF Pending, Elsewhere
<1>3. ASSUME NEW r PROVE Pending(r)' <=> Elsewhere(c, r) \/ (p = "cancel" /\ r = s)
  <2>1. Pending(r)' <=> Elsewhere(c, r) \/ asked'[c] = [op |-> "cancel", on |-> r]
    BY <1>1 DEF Pending, Elsewhere
  <2>2. [op |-> p, on |-> s] = [op |-> "cancel", on |-> r] <=> p = "cancel" /\ r = s
    OBVIOUS
  <2> QED BY <1>1, <2>1, <2>2
<1> QED BY <1>1, <1>2, <1>3

\* A session that is not touched, and of which no cancel starts or ends.
AsBefore(s) ==
  /\ session'[s] = session[s] /\ (s \in marked' <=> s \in marked)
  /\ (s \in raced' <=> s \in raced) /\ (Pending(s)' <=> Pending(s))

\* Requests, answers, resumes and failures keep the invariant.
LEMMA AcpStep ==
  ASSUME AcpInv, Gates!AcpNext
  PROVE  AcpInv'
<1>0. AcpTyped /\ MarksTell
  BY DEF AcpInv
<1>1. ASSUME NEW s \in Gates!Sessions, AcpTyped', \A r \in Gates!Sessions \ {s} : AsBefore(r),
             s \in marked' => Gates!Known(s)', Pending(s)' => session'[s] # "none",
             s \notin raced' /\ Gates!Known(s)' => (s \in marked' <=> Pending(s)' \/ session'[s] = "cancelled")
      PROVE  AcpInv'
  <2>1. \A r \in Gates!Sessions \ {s} : Gates!Known(r)' <=> Gates!Known(r)
    BY <1>1 DEF Gates!Known, AsBefore
  <2>2. \A r \in marked' : Gates!Known(r)'
    BY <1>0, <1>1, <2>1 DEF AcpTyped, MarksTell, AsBefore
  <2>3. \A r \in Gates!Sessions : Pending(r)' => session'[r] # "none"
    BY <1>0, <1>1 DEF MarksTell, AsBefore
  <2>4. \A r \in Gates!Sessions \ raced' :
          Gates!Known(r)' => (r \in marked' <=> Pending(r)' \/ session'[r] = "cancelled")
    BY <1>0, <1>1, <2>1 DEF MarksTell, AsBefore
  <2> QED BY <1>1, <2>2, <2>3, <2>4 DEF AcpInv, MarksTell
<1>2. ASSUME AcpTyped', \A r \in Gates!Sessions : AsBefore(r) PROVE AcpInv'
  <2>1. "s" \in Gates!Sessions
    BY DEF Gates!Sessions
  <2>2. Gates!Known("s")' <=> Gates!Known("s")
    BY <1>2, <2>1 DEF Gates!Known, AsBefore
  <2> QED BY <1>0, <1>1, <1>2, <2>1, <2>2 DEF MarksTell, AsBefore
<1>3. ASSUME NEW s \in Gates!Sessions, Gates!NewSession(s) PROVE AcpInv'
  <2>1. /\ session[s] = "none" /\ session' = [session EXCEPT ![s] = "active"] /\ UNCHANGED <<marked, asked, raced>>
    BY <1>3 DEF Gates!NewSession
  <2>2. AcpTyped' /\ session'[s] = "active" /\ \A r \in Gates!Sessions \ {s} : session'[r] = session[r]
    BY <1>0, <2>1 DEF AcpTyped
  <2>3. ~Pending(s) /\ s \notin marked
    BY <1>0, <2>1 DEF MarksTell, Gates!Known
  <2>4. \A r : Pending(r)' <=> Pending(r)
    BY <2>1 DEF Pending
  <2>5. \A r \in Gates!Sessions \ {s} : AsBefore(r)
    BY <2>1, <2>2, <2>4 DEF AsBefore
  <2> QED BY <1>1, <2>1, <2>2, <2>3, <2>4, <2>5
<1>4. ASSUME NEW c \in Threads, NEW p \in {"none", "turn", "close"}, NEW s \in Gates!Sessions,
             asked[c].op # "cancel", asked' = [asked EXCEPT ![c] = [op |-> p, on |-> s]]
      PROVE  /\ asked' \in [Threads -> [op : {"none", "turn", "cancel", "close"}, on : Gates!Sessions]]
             /\ \A r : Pending(r)' <=> Pending(r)
  <2>1. \A r : asked[c] # [op |-> "cancel", on |-> r]
    BY <1>4
  <2> QED BY <1>0, <1>4, <2>1, PendingElsewhere
<1>5. "s" \in Gates!Sessions /\ Gates!NoCall = [op |-> "none", on |-> "s"]
  BY DEF Gates!Sessions, Gates!NoCall
<1>6. ASSUME NEW c \in Threads,
             Gates!TurnEnds(c) \/ \E s \in Gates!Sessions : Gates!TurnBegins(c, s) \/ Gates!CloseBegins(c, s)
      PROVE  AcpInv'
  <2>1. /\ UNCHANGED <<session, marked, raced>> /\ asked[c].op # "cancel"
        /\ \E p \in {"none", "turn", "close"}, s \in Gates!Sessions : asked' = [asked EXCEPT ![c] = [op |-> p, on |-> s]]
    BY <1>5, <1>6 DEF Gates!TurnEnds, Gates!TurnBegins, Gates!CloseBegins, Gates!Ask, Gates!Answered
  <2>2. AcpTyped' /\ \A r : Pending(r)' <=> Pending(r)
    BY <1>0, <1>4, <2>1 DEF AcpTyped
  <2>3. \A r \in Gates!Sessions : AsBefore(r)
    BY <2>1, <2>2 DEF AsBefore
  <2> QED BY <1>2, <2>2, <2>3
<1>7. ASSUME NEW c \in Threads, NEW s \in Gates!Sessions, Gates!CancelBegins(c, s) PROVE AcpInv'
  <2>1. /\ Gates!Known(s) /\ asked[c].op = "none" /\ asked' = [asked EXCEPT ![c] = [op |-> "cancel", on |-> s]]
        /\ marked' = marked \cup {s} /\ UNCHANGED <<session, raced>>
    BY <1>7 DEF Gates!CancelBegins, Gates!Ask
  <2>2. \A r : asked[c] # [op |-> "cancel", on |-> r]
    BY <2>1
  <2>3. asked' \in [Threads -> [op : {"none", "turn", "cancel", "close"}, on : Gates!Sessions]]
        /\ \A r : Pending(r)' <=> Pending(r) \/ r = s
    BY <1>0, <2>1, <2>2, PendingElsewhere
  <2>4. AcpTyped'
    BY <1>0, <2>1, <2>3 DEF AcpTyped
  <2>5. \A r \in Gates!Sessions \ {s} : AsBefore(r)
    BY <2>1, <2>3 DEF AsBefore
  <2>6. Gates!Known(s)' /\ session'[s] # "none"
    BY <2>1 DEF Gates!Known
  <2> QED BY <1>1, <2>1, <2>3, <2>4, <2>5, <2>6
<1>8. ASSUME NEW c \in Threads, Gates!CancelEnds(c) PROVE AcpInv'
  <2> DEFINE s == asked[c].on
  <2>1. /\ asked[c].op = "cancel" /\ asked' = [asked EXCEPT ![c] = [op |-> "none", on |-> "s"]]
        /\ UNCHANGED <<marked, raced>>
        /\ session' = IF Gates!Known(s) THEN [session EXCEPT ![s] = "cancelled"] ELSE session
    BY <1>5, <1>8 DEF Gates!CancelEnds, Gates!Answered
  <2>2. s \in Gates!Sessions /\ asked[c] = [op |-> "cancel", on |-> s]
    BY <1>0, <2>1 DEF AcpTyped
  <2>3. PICK r \in Gates!Sessions : r = s
    BY <2>2
  <2>4. Pending(r) /\ asked' \in [Threads -> [op : {"none", "turn", "cancel", "close"}, on : Gates!Sessions]]
        /\ \A q \in Gates!Sessions \ {r} : Pending(q)' <=> Pending(q)
    <3>1. \A q : asked[c] = [op |-> "cancel", on |-> q] <=> q = r
      BY <2>2, <2>3
    <3> QED BY <1>0, <1>5, <2>1, <3>1, PendingElsewhere
  <2>5. AcpTyped' /\ (\A q \in Gates!Sessions \ {r} : session'[q] = session[q])
        /\ (Gates!Known(r) => session'[r] = "cancelled") /\ (~Gates!Known(r) => session'[r] = session[r])
    BY <1>0, <2>1, <2>3, <2>4 DEF AcpTyped
  <2>6. Gates!Known(r)' <=> Gates!Known(r)
    BY <2>5 DEF Gates!Known
  <2>7. \A q \in Gates!Sessions \ {r} : AsBefore(q)
    BY <2>1, <2>4, <2>5 DEF AsBefore
  <2>8. session'[r] # "none"
    BY <1>0, <2>4, <2>5 DEF MarksTell
  <2>9. r \in marked' => Gates!Known(r)'
    BY <1>0, <2>1, <2>6 DEF MarksTell
  <2>10. r \notin raced' /\ Gates!Known(r)' => r \in marked' /\ session'[r] = "cancelled"
    BY <1>0, <2>1, <2>4, <2>5, <2>6 DEF MarksTell
  <2> QED BY <1>1, <2>5, <2>7, <2>8, <2>9, <2>10
<1>9. ASSUME NEW c \in Threads, NEW s \in Gates!Sessions, NEW prompt \in BOOLEAN, Gates!Resume(c, s, prompt)
      PROVE  AcpInv'
  <2>1. /\ asked[c].op = "none" /\ marked' = marked \ {s} /\ session' = [session EXCEPT ![s] = "active"]
        /\ raced' = (IF Pending(s) THEN raced \cup {s} ELSE raced \ {s})
        /\ asked' = asked \/ asked' = [asked EXCEPT ![c] = [op |-> "turn", on |-> s]]
    BY <1>9 DEF Gates!Resume, Gates!Ask, Pending
  <2>2. AcpTyped' /\ session'[s] = "active" /\ (\A r \in Gates!Sessions \ {s} : session'[r] = session[r])
        /\ \A r : Pending(r)' <=> Pending(r)
    <3>1. asked' = asked => \A r : Pending(r)' <=> Pending(r)
      BY DEF Pending
    <3>2. asked' = [asked EXCEPT ![c] = [op |-> "turn", on |-> s]] =>
            /\ asked' \in [Threads -> [op : {"none", "turn", "cancel", "close"}, on : Gates!Sessions]]
            /\ \A r : Pending(r)' <=> Pending(r)
      BY <1>4, <2>1
    <3>3. asked' \in [Threads -> [op : {"none", "turn", "cancel", "close"}, on : Gates!Sessions]]
      BY <1>0, <2>1, <3>2 DEF AcpTyped
    <3> QED BY <1>0, <2>1, <3>1, <3>2, <3>3 DEF AcpTyped
  <2>3. \A r \in Gates!Sessions \ {s} : AsBefore(r)
    BY <2>1, <2>2 DEF AsBefore
  <2>4. s \notin marked' /\ (s \notin raced' => ~Pending(s)')
    BY <2>1, <2>2
  <2> QED BY <1>1, <2>2, <2>3, <2>4
<1>10. ASSUME NEW c \in Threads, Gates!CloseEnds(c) PROVE AcpInv'
  <2>1. PICK s \in Gates!Sessions : s = asked[c].on
    BY <1>0 DEF AcpTyped
  <2>2. /\ asked[c].op = "close" /\ asked' = [asked EXCEPT ![c] = [op |-> "none", on |-> "s"]]
        /\ session' = [session EXCEPT ![s] = "closed"] /\ marked' = marked \ {s} /\ raced' = raced
    BY <1>5, <1>10, <2>1 DEF Gates!CloseEnds, Gates!Answered
  <2>3. asked' \in [Threads -> [op : {"none", "turn", "cancel", "close"}, on : Gates!Sessions]]
        /\ \A r : Pending(r)' <=> Pending(r)
    BY <1>4, <1>5, <2>2
  <2>4. AcpTyped' /\ session'[s] = "closed" /\ \A r \in Gates!Sessions \ {s} : session'[r] = session[r]
    BY <1>0, <2>2, <2>3 DEF AcpTyped
  <2>5. \A r \in Gates!Sessions \ {s} : AsBefore(r)
    BY <2>2, <2>3, <2>4 DEF AsBefore
  <2>6. ~Gates!Known(s)' /\ s \notin marked'
    BY <2>2, <2>4 DEF Gates!Known
  <2> QED BY <1>1, <2>4, <2>5, <2>6
<1>11. ASSUME NEW c \in Threads, Gates!TransportRaises(c) PROVE AcpInv'
  <2>1. PICK s \in Gates!Sessions : s = asked[c].on
    BY <1>0 DEF AcpTyped
  <2>2. /\ asked' = [asked EXCEPT ![c] = [op |-> "none", on |-> "s"]] /\ UNCHANGED <<session, marked>>
        /\ raced' = IF asked[c].op = "cancel" THEN raced \cup {s} ELSE raced
    BY <1>5, <1>11, <2>1 DEF Gates!TransportRaises
  <2>3. CASE asked[c].op # "cancel"
    <3>1. asked' \in [Threads -> [op : {"none", "turn", "cancel", "close"}, on : Gates!Sessions]]
          /\ \A r : Pending(r)' <=> Pending(r)
      BY <1>4, <1>5, <2>2, <2>3
    <3>2. AcpTyped' /\ \A r \in Gates!Sessions : AsBefore(r)
      BY <1>0, <2>2, <2>3, <3>1 DEF AcpTyped, AsBefore
    <3> QED BY <1>2, <3>2
  <2>4. CASE asked[c].op = "cancel"
    <3>1. \A q : asked[c] = [op |-> "cancel", on |-> q] <=> q = s
      BY <1>0, <2>1, <2>4 DEF AcpTyped
    <3>2. Pending(s) /\ asked' \in [Threads -> [op : {"none", "turn", "cancel", "close"}, on : Gates!Sessions]]
          /\ \A q \in Gates!Sessions \ {s} : Pending(q)' <=> Pending(q)
      BY <1>0, <1>5, <2>2, <3>1, PendingElsewhere
    <3>3. AcpTyped' /\ \A r \in Gates!Sessions \ {s} : AsBefore(r)
      BY <1>0, <2>2, <2>4, <3>2 DEF AcpTyped, AsBefore
    <3>4. s \in raced' /\ session'[s] # "none" /\ (Gates!Known(s)' <=> Gates!Known(s)) /\ marked' = marked
      BY <1>0, <2>2, <2>4, <3>2 DEF MarksTell, Gates!Known
    <3>5. s \in marked => Gates!Known(s)
      BY <1>0 DEF MarksTell
    <3> QED BY <1>1, <3>3, <3>4, <3>5
  <2> QED BY <2>3, <2>4
<1> QED
  BY <1>3, <1>6, <1>7, <1>8, <1>9, <1>10, <1>11 DEF Gates!AcpNext

\* What a session tells of itself follows.
LEMMA SessionsTellIt == AcpInv => Gates!SessionsTell
  BY DEF AcpInv, MarksTell, Pending, Gates!SessionsTell

-----------------------------------------------------------------------------
(* A2A over HTTP.  What is noted as cancelled, and what is on its way to   *)
(* be noted so, is cancelled at the agent, where it stays so.              *)
Tells(call) ==
  (call.op = "invoke" /\ call.word = "canceled") \/ (call.op = "cancel" /\ call.word # "refused")
A2aInv ==
  /\ remote \in [Gates!Sessions -> {"working", "canceled", "completed", "failed"}]
  /\ local \in [Gates!Sessions -> {"none", "ok", "cancelled", "error", "working"}]
  /\ calling \in [Threads -> [op : {"none", "invoke", "cancel"}, on : Gates!Sessions,
                              word : {"", "working", "canceled", "completed", "failed", "junk", "refused"}]]
  /\ via = "http" =>
       /\ \A t \in Gates!Sessions : local[t] = "cancelled" => remote[t] = "canceled"
       /\ \A c \in Threads : Tells(calling[c]) => remote[calling[c].on] = "canceled"

\* At the start no task was given.
LEMMA A2aStart == Gates!Init => A2aInv
<1> SUFFICES ASSUME Gates!Init PROVE A2aInv
  OBVIOUS
<1>1. "s" \in Gates!Sessions
  BY DEF Gates!Sessions
<1> QED BY <1>1 DEF Gates!Init, Gates!NoAnswer, A2aInv, Tells

\* Calls, their answers, and what the agent does keep the invariant.
LEMMA A2aStep ==
  ASSUME A2aInv, Gates!A2aNext
  PROVE  A2aInv'
<1> DEFINE Words == {"", "working", "canceled", "completed", "failed", "junk", "refused"}
           Calls == [op : {"none", "invoke", "cancel"}, on : Gates!Sessions, word : Words]
<1>0. /\ Gates!NoAnswer \in Calls /\ ~Tells(Gates!NoAnswer)
      /\ \A w : Gates!Normalized(w) \in {"ok", "cancelled", "error", "working"}
      /\ \A w : Gates!Normalized(w) = "cancelled" => w = "canceled"
  BY DEF Gates!NoAnswer, Gates!Sessions, Tells, Gates!Normalized
<1>1. ASSUME NEW c \in Threads, NEW call \in Calls, calling' = [calling EXCEPT ![c] = call],
             remote' \in [Gates!Sessions -> {"working", "canceled", "completed", "failed"}],
             local' \in [Gates!Sessions -> {"none", "ok", "cancelled", "error", "working"}], via' = via,
             \A t \in Gates!Sessions : remote[t] = "canceled" => remote'[t] = "canceled",
             via = "http" => \A t \in Gates!Sessions : local'[t] = "cancelled" => remote'[t] = "canceled",
             via = "http" /\ Tells(call) => remote'[call.on] = "canceled"
      PROVE  A2aInv'
  <2>0. calling \in [Threads -> Calls]
    BY DEF A2aInv
  <2> HIDE DEF Calls
  <2>1. calling' \in [Threads -> Calls] /\ calling'[c] = call /\ \A d \in Threads \ {c} : calling'[d] = calling[d]
    BY <1>1, <2>0
  <2>2. \A d \in Threads : calling[d].on \in Gates!Sessions
    BY <2>0 DEF Calls
  <2>3. ASSUME via = "http", NEW d \in Threads, Tells(calling'[d]) PROVE remote'[calling'[d].on] = "canceled"
    <3>1. CASE d = c
      <4>1. calling'[d] = call /\ Tells(call)
        BY <2>1, <2>3, <3>1
      <4> QED BY <1>1, <2>3, <4>1, Zenon
    <3>2. CASE d # c
      <4>1. calling'[d] = calling[d] /\ Tells(calling[d])
        BY <2>1, <2>3, <3>2
      <4>2. remote[calling[d].on] = "canceled"
        BY <2>3, <4>1 DEF A2aInv
      <4> QED BY <1>1, <2>2, <4>1, <4>2
    <3> QED BY <3>1, <3>2
  <2> QED BY <1>1, <2>1, <2>3 DEF A2aInv, Calls
<1>2. ASSUME NEW c \in Threads, NEW t \in Gates!Sessions, Gates!Invoke(c, t) PROVE A2aInv'
  <2>1. PICK word \in {remote[t], "", "junk", "refused"} :
          calling' = [calling EXCEPT ![c] = [op |-> "invoke", on |-> t, word |-> word]]
    BY <1>2 DEF Gates!Invoke, Gates!Call
  <2>2. word \in Words /\ [op |-> "invoke", on |-> t, word |-> word] \in Calls
    BY DEF A2aInv
  <2>3. Tells([op |-> "invoke", on |-> t, word |-> word]) => remote[t] = "canceled"
    BY DEF Tells
  <2> QED BY <1>1, <1>2, <2>1, <2>2, <2>3 DEF Gates!Invoke, A2aInv
<1>3. ASSUME NEW c \in Threads, NEW t \in Gates!Sessions, Gates!CancelTask(c, t) PROVE A2aInv'
  <2>1. CASE remote' = [remote EXCEPT ![t] = "canceled"] /\ calling' = [calling EXCEPT ![c] = [op |-> "cancel", on |-> t, word |-> "canceled"]]
    <3>1. [op |-> "cancel", on |-> t, word |-> "canceled"] \in Calls
      OBVIOUS
    <3>2. /\ remote' \in [Gates!Sessions -> {"working", "canceled", "completed", "failed"}] /\ remote'[t] = "canceled"
          /\ \A u \in Gates!Sessions : remote[u] = "canceled" => remote'[u] = "canceled"
      BY <2>1 DEF A2aInv
    <3> QED BY <1>1, <1>3, <2>1, <3>1, <3>2 DEF Gates!CancelTask, A2aInv
  <2>2. CASE remote' = remote /\ calling' = [calling EXCEPT ![c] = [op |-> "cancel", on |-> t, word |-> "refused"]]
    <3>1. [op |-> "cancel", on |-> t, word |-> "refused"] \in Calls /\ ~Tells([op |-> "cancel", on |-> t, word |-> "refused"])
      BY DEF Tells
    <3> QED BY <1>1, <1>3, <2>2, <3>1 DEF Gates!CancelTask, A2aInv
  <2> QED BY <1>3, <2>1, <2>2 DEF Gates!CancelTask, Gates!Call
<1>4. ASSUME NEW c \in Threads, Gates!InvokeEnds(c) \/ Gates!CancelTaskEnds(c) \/ Gates!CallFails(c)
      PROVE  A2aInv'
  <2>1. PICK t \in Gates!Sessions : t = calling[c].on
    BY DEF A2aInv
  <2>2. calling' = [calling EXCEPT ![c] = Gates!NoAnswer] /\ via' = via /\ remote' = remote
    BY <1>4 DEF Gates!InvokeEnds, Gates!CancelTaskEnds, Gates!CallFails
  <2>3. \/ local' = local
        \/ /\ calling[c].op = "invoke" /\ local' = [local EXCEPT ![t] = Gates!Normalized(calling[c].word)]
        \/ /\ calling[c].op = "cancel" /\ ~Gates!Raised(calling[c].word) /\ local' = [local EXCEPT ![t] = "cancelled"]
    BY <1>4, <2>1 DEF Gates!InvokeEnds, Gates!CancelTaskEnds, Gates!CallFails
  <2>4. local' \in [Gates!Sessions -> {"none", "ok", "cancelled", "error", "working"}]
        /\ (\A u \in Gates!Sessions \ {t} : local'[u] = local[u])
    <3>1. PICK w \in {"ok", "cancelled", "error", "working"} : local' = local \/ local' = [local EXCEPT ![t] = w]
      BY <1>0, <2>3
    <3>2. local \in [Gates!Sessions -> {"none", "ok", "cancelled", "error", "working"}]
      BY DEF A2aInv
    <3>3. CASE local' = local
      BY <3>2, <3>3
    <3>4. CASE local' = [local EXCEPT ![t] = w]
      BY <3>2, <3>4
    <3> QED BY <3>1, <3>3, <3>4
  <2>5. via = "http" => (local'[t] = "cancelled" => remote[t] = "canceled")
    <3>1. CASE local' = local
      BY <3>1 DEF A2aInv
    <3>2. CASE calling[c].op = "invoke" /\ local' = [local EXCEPT ![t] = Gates!Normalized(calling[c].word)]
      <4>1. local'[t] = Gates!Normalized(calling[c].word)
        BY <3>2 DEF A2aInv
      <4>2. local'[t] = "cancelled" => Tells(calling[c])
        BY <1>0, <3>2, <4>1 DEF Tells
      <4> QED BY <2>1, <4>2 DEF A2aInv
    <3>3. CASE calling[c].op = "cancel" /\ ~Gates!Raised(calling[c].word)
      <4>1. via = "http" => Tells(calling[c])
        BY <3>3 DEF Tells, Gates!Raised
      <4> QED BY <2>1, <4>1 DEF A2aInv
    <3> QED BY <2>3, <3>1, <3>2, <3>3
  <2>6. via = "http" => \A u \in Gates!Sessions : local'[u] = "cancelled" => remote'[u] = "canceled"
    BY <2>2, <2>4, <2>5 DEF A2aInv
  <2> QED BY <1>0, <1>1, <2>2, <2>4, <2>6 DEF A2aInv
<1>5. ASSUME NEW t \in Gates!Sessions, Gates!RemoteEnds(t) PROVE A2aInv'
  <2>1. PICK word \in {"completed", "failed"} : remote' = [remote EXCEPT ![t] = word]
    BY <1>5 DEF Gates!RemoteEnds
  <2>2. remote[t] = "working" /\ UNCHANGED <<via, local, calling>>
    BY <1>5 DEF Gates!RemoteEnds
  <2>3. /\ remote' \in [Gates!Sessions -> {"working", "canceled", "completed", "failed"}]
        /\ \A u \in Gates!Sessions : remote[u] = "canceled" => remote'[u] = "canceled"
    BY <2>1, <2>2 DEF A2aInv
  <2>4. \A d \in Threads : calling[d].on \in Gates!Sessions
    BY DEF A2aInv
  <2> QED BY <2>2, <2>3, <2>4 DEF A2aInv, Tells
<1> QED BY <1>2, <1>3, <1>4, <1>5 DEF Gates!A2aNext

\* What the adapter calls cancelled is.
LEMMA CancelledTells == A2aInv => Gates!CancelledIsTrue
<1>1. \A w : Gates!Normalized(w) = "cancelled" => w = "canceled"
  BY DEF Gates!Normalized
<1> QED BY <1>1 DEF A2aInv, Gates!CancelledIsTrue, Gates!StatusTold

\* What is told of a server's skills agrees, whatever the server says.
LEMMA SkillsAgreeAlways == Gates!SkillsAgree
<1>1. Gates!Negotiate = "no" => handle.declares # TRUE /\ handle.lists /\ Gates!SkillTools = {}
  BY DEF Gates!Negotiate
<1>2. Gates!ListAnswers => Gates!SkillTools # {}
  BY DEF Gates!ListAnswers, Gates!SkillTools
<1>3. Gates!Negotiate = "no" => ~Gates!DiscoverFails /\ Gates!Discover = {}
  BY <1>1, <1>2 DEF Gates!DiscoverFails, Gates!Discover
<1>4. Gates!Negotiate = "yes" => handle.declares \/ (~Gates!DiscoverFails /\ Gates!SkillTools # {})
  BY DEF Gates!Negotiate, Gates!DiscoverFails
<1>5. Gates!Metadata = "another" => handle.metadata = "named"
  BY DEF Gates!Metadata
<1> QED BY <1>3, <1>4, <1>5 DEF Gates!SkillsAgree

-----------------------------------------------------------------------------
(* The workspace.  While saves did not overlap, who is to append a record  *)
(* appends that of the document; while callers initialized in turn, no     *)
(* document was saved before the workspace had its id.                     *)
Savings == [at : {"none", "naming", "saved"}, id : {"", "x", "y"}, text : Nat]
WorkTyped ==
  /\ title \in {"", "x", "y"} /\ records \in Seq(Nat) /\ saves \in Nat /\ document = saves
  /\ named \in BOOLEAN /\ loose \in BOOLEAN
  /\ saving \in [Threads -> Savings]
SavesInTurn ==
  /\ \A c, d \in Threads : saving[c].at = "saved" /\ saving[d].at = "saved" => c = d
  /\ \A c \in Threads : saving[c].at = "saved" => saving[c].text = document
  /\ (\A c \in Threads : saving[c].at # "saved") /\ ~Gates!ListFails /\ records # << >> =>
       records[Len(records)] = document
NamedInTurn ==
  /\ \A c, d \in Threads : saving[c].at = "naming" /\ saving[d].at = "naming" => c = d
  /\ \A c \in Threads : saving[c].at = "naming" => title = ""
  /\ \A c \in Threads : saving[c].at = "saved" => saving[c].id = title
WorkInv ==
  /\ WorkTyped /\ (~loose => SavesInTurn) /\ (~named => NamedInTurn)
  /\ \A c \in Threads : /\ saving[c].at = "saved" => title # ""
                        /\ saving[c].at = "naming" => saving[c].id # ""

\* At the start the workspace is empty.
LEMMA WorkStart == Gates!Init => WorkInv
<1> SUFFICES ASSUME Gates!Init PROVE WorkInv
  OBVIOUS
<1>1. << >> \in Seq(Nat)
  OBVIOUS
<1>2. WorkTyped
  BY <1>1 DEF Gates!Init, Gates!NoSave, WorkTyped, Savings
<1> QED BY <1>2 DEF Gates!Init, Gates!NoSave, WorkInv, SavesInTurn, NamedInTurn

\* One caller does something else to the workspace.
LEMMA SavingThen ==
  ASSUME WorkTyped, NEW c \in Threads, NEW place \in {"none", "naming", "saved"}, NEW i \in {"", "x", "y"},
         NEW n \in Nat, saving' = [saving EXCEPT ![c] = [at |-> place, id |-> i, text |-> n]]
  PROVE  /\ saving' \in [Threads -> Savings]
         /\ saving'[c].at = place /\ saving'[c].id = i /\ saving'[c].text = n
         /\ \A d \in Threads \ {c} : saving'[d] = saving[d]
<1>1. /\ saving' \in [Threads -> Savings]
      /\ saving'[c] = [at |-> place, id |-> i, text |-> n] /\ \A d \in Threads \ {c} : saving'[d] = saving[d]
  BY DEF WorkTyped, Savings
<1> QED BY <1>1

\* Naming the workspace, saving, recording and dying keep the invariant.
LEMMA WorkStep ==
  ASSUME WorkInv, Gates!WorkNext
  PROVE  WorkInv'
<1>0. WorkTyped /\ (~loose => SavesInTurn) /\ (~named => NamedInTurn)
  BY DEF WorkInv
<1>1. ASSUME NEW c \in Threads, NEW i \in {"x", "y"}, Gates!InitializeBegins(c, i) PROVE WorkInv'
  <2>1. /\ saving[c].at = "none" /\ title = "" /\ named' = (named \/ \E d \in Threads : saving[d].at = "naming")
        /\ saving' = [saving EXCEPT ![c] = [at |-> "naming", id |-> i, text |-> 0]]
        /\ UNCHANGED <<title, document, records, saves, loose>>
    BY <1>1 DEF Gates!InitializeBegins, Gates!Doing
  <2>2. /\ saving' \in [Threads -> Savings]
        /\ saving'[c].at = "naming" /\ saving'[c].id = i /\ \A d \in Threads \ {c} : saving'[d] = saving[d]
    BY <1>0, <2>1, SavingThen
  <2>3. named' \in BOOLEAN
    BY <1>0, <2>1 DEF WorkTyped
  <2>4. WorkTyped'
    BY <1>0, <2>1, <2>2, <2>3 DEF WorkTyped
  <2>5. \A d \in Threads : saving[d].at # "saved" /\ saving'[d].at # "saved"
    BY <2>1, <2>2 DEF WorkInv
  <2>6. SavesInTurn => SavesInTurn'
    BY <2>1, <2>5 DEF SavesInTurn, Gates!ListFails
  <2>7. ASSUME ~named' PROVE NamedInTurn'
    <3>1. title' = "" /\ \A d \in Threads : saving[d].at # "naming"
      BY <2>1, <2>7, Zenon
    <3>2. \A d \in Threads : saving'[d].at = "naming" => d = c
      BY <2>2, <3>1
    <3> QED BY <2>5, <3>1, <3>2 DEF NamedInTurn
  <2>8. \A d \in Threads : saving'[d].at = "naming" => saving'[d].id # ""
    BY <2>2 DEF WorkInv
  <2> QED BY <1>0, <2>1, <2>4, <2>5, <2>6, <2>7, <2>8 DEF WorkInv
<1>2. ASSUME NEW c \in Threads, Gates!InitializeEnds(c) PROVE WorkInv'
  <2>1. /\ saving[c].at = "naming" /\ title' = saving[c].id
        /\ saving' = [saving EXCEPT ![c] = [at |-> "none", id |-> "", text |-> 0]]
        /\ UNCHANGED <<named, document, records, saves, loose>>
    BY <1>2 DEF Gates!InitializeEnds, Gates!Doing
  <2>2. /\ saving' \in [Threads -> Savings]
        /\ saving'[c].at = "none" /\ \A d \in Threads \ {c} : saving'[d] = saving[d]
    BY <1>0, <2>1, SavingThen
  <2>3. title' \in {"x", "y"}
    BY <1>0, <2>1 DEF WorkTyped, WorkInv, Savings
  <2>4. WorkTyped'
    BY <1>0, <2>1, <2>2, <2>3 DEF WorkTyped
  <2>5. \A d \in Threads : saving'[d].at = "saved" <=> saving[d].at = "saved"
    BY <2>1, <2>2
  <2>6. \A d \in Threads : saving'[d].at = "saved" => saving'[d] = saving[d]
    BY <2>2
  <2>7. SavesInTurn => SavesInTurn'
    BY <2>1, <2>5, <2>6 DEF SavesInTurn, Gates!ListFails
  <2>8. ASSUME ~named PROVE NamedInTurn'
    <3>1. (\A d \in Threads \ {c} : saving[d].at # "naming") /\ \A d \in Threads : saving[d].at # "saved"
      BY <1>0, <2>1, <2>8 DEF NamedInTurn, WorkInv
    <3> QED BY <2>2, <2>5, <3>1 DEF NamedInTurn
  <2>9. \A d \in Threads : saving'[d].at = "naming" => saving'[d].id # ""
    BY <2>2 DEF WorkInv
  <2> QED BY <1>0, <2>1, <2>3, <2>4, <2>7, <2>8, <2>9 DEF WorkInv
<1>3. ASSUME NEW c \in Threads, Gates!SaveDocument(c) PROVE WorkInv'
  <2>1. /\ saving[c].at = "none" /\ title # "" /\ saves' = saves + 1 /\ document' = saves'
        /\ saving' = [saving EXCEPT ![c] = [at |-> "saved", id |-> title, text |-> saves']]
        /\ loose' = (\E d \in Threads : saving[d].at = "saved") /\ UNCHANGED <<title, named, records>>
    BY <1>3 DEF Gates!SaveDocument, Gates!Doing
  <2>2. saves' \in Nat
    <3>1. saves \in Nat
      BY <1>0 DEF WorkTyped
    <3>2. saves' = saves + 1
      BY <2>1
    <3> QED BY <3>1, <3>2
  <2>3. title \in {"", "x", "y"}
    BY <1>0 DEF WorkTyped
  <2>4. PICK n \in Nat : n = saves'
    BY <2>2
  <2>5. /\ saving' \in [Threads -> Savings]
        /\ saving'[c].at = "saved" /\ saving'[c].id = title /\ saving'[c].text = saves'
        /\ \A d \in Threads \ {c} : saving'[d] = saving[d]
    <3>1. saving' = [saving EXCEPT ![c] = [at |-> "saved", id |-> title, text |-> n]]
      BY <2>1, <2>4
    <3> QED BY <1>0, <2>3, <2>4, <3>1, SavingThen
  <2>6. loose' \in BOOLEAN
    BY <2>1
  <2>7. WorkTyped'
    BY <1>0, <2>1, <2>2, <2>5, <2>6 DEF WorkTyped
  <2>8. ASSUME ~loose' PROVE SavesInTurn'
    <3>1. document' = saves' /\ \A d \in Threads : saving[d].at # "saved"
      BY <2>1, <2>8, Zenon
    <3>2. \A d \in Threads : saving'[d].at = "saved" => d = c
      BY <2>5, <3>1
    <3> QED BY <2>5, <3>1, <3>2 DEF SavesInTurn
  <2>9. ASSUME ~named PROVE NamedInTurn'
    <3>1. \A d \in Threads : saving[d].at # "naming" /\ saving'[d].at # "naming"
      BY <1>0, <2>1, <2>5, <2>9 DEF NamedInTurn
    <3> QED BY <1>0, <2>1, <2>5, <2>9, <3>1 DEF NamedInTurn
  <2>10. \A d \in Threads : saving'[d].at = "naming" => saving'[d].id # ""
    BY <2>5 DEF WorkInv
  <2> QED BY <2>1, <2>7, <2>8, <2>9, <2>10 DEF WorkInv
<1>4. ASSUME NEW c \in Threads, saving' = [saving EXCEPT ![c] = [at |-> "none", id |-> "", text |-> 0]],
             records' \in Seq(Nat), loose' \in BOOLEAN, UNCHANGED <<title, named, document, saves>>,
             ~loose' => SavesInTurn'
      PROVE  WorkInv'
  <2>1. /\ saving' \in [Threads -> Savings]
        /\ saving'[c].at = "none" /\ \A d \in Threads \ {c} : saving'[d] = saving[d]
    BY <1>0, <1>4, SavingThen
  <2>2. WorkTyped'
    BY <1>0, <1>4, <2>1 DEF WorkTyped
  <2>3. ASSUME NamedInTurn PROVE NamedInTurn'
    <3>0. title' = title
      BY <1>4
    <3>1. \A d \in Threads : saving'[d].at \in {"naming", "saved"} => saving'[d] = saving[d]
      BY <2>1
    <3>2. \A d, e \in Threads : saving'[d].at = "naming" /\ saving'[e].at = "naming" => d = e
      BY <2>3, <3>1 DEF NamedInTurn
    <3>3. \A d \in Threads : saving'[d].at = "naming" => title' = ""
      BY <2>3, <3>0, <3>1 DEF NamedInTurn
    <3>4. \A d \in Threads : saving'[d].at = "saved" => saving'[d].id = title'
      BY <2>3, <3>0, <3>1 DEF NamedInTurn
    <3> QED BY <3>2, <3>3, <3>4 DEF NamedInTurn
  <2>4. \A d \in Threads : /\ saving'[d].at = "saved" => title # ""
                           /\ saving'[d].at = "naming" => saving'[d].id # ""
    BY <2>1 DEF WorkInv
  <2> QED BY <1>0, <1>4, <2>2, <2>3, <2>4 DEF WorkInv
<1>5. ASSUME NEW c \in Threads, Gates!AppendRecord(c) PROVE WorkInv'
  <2>1. /\ saving[c].at = "saved" /\ saving' = [saving EXCEPT ![c] = [at |-> "none", id |-> "", text |-> 0]]
        /\ records' = (IF Gates!Cut THEN records ELSE Append(records, saving[c].text))
        /\ UNCHANGED <<title, named, document, saves, loose>>
    BY <1>5 DEF Gates!AppendRecord, Gates!Doing
  <2>2. saving[c].text \in Nat /\ records \in Seq(Nat) /\ document \in Nat
    BY <1>0 DEF WorkTyped, Savings
  <2>3. records' \in Seq(Nat)
    <3>1. Append(records, saving[c].text) \in Seq(Nat)
      BY <2>2
    <3>2. records' = records \/ records' = Append(records, saving[c].text)
      BY <2>1
    <3> QED BY <2>2, <3>1, <3>2
  <2>4. ASSUME ~loose PROVE SavesInTurn'
    <3>1. SavesInTurn /\ saving[c].text = document /\ \A d \in Threads \ {c} : saving[d].at # "saved"
      BY <1>0, <2>1, <2>4 DEF SavesInTurn
    <3>2. \A d \in Threads : saving'[d].at # "saved"
      BY <1>0, <2>1, <3>1, SavingThen
    <3>3. CASE Gates!Cut
      <4>1. records # << >> /\ records[Len(records)] = 0 /\ Len(records) \in DOMAIN records
        BY <2>2, <3>3 DEF Gates!Cut, Gates!Last
      <4>2. Gates!ListFails'
        BY <2>1, <3>3, <4>1 DEF Gates!ListFails
      <4> QED BY <3>2, <4>2 DEF SavesInTurn
    <3>4. CASE ~Gates!Cut
      <4>1. records' = Append(records, document)
        BY <2>1, <3>1, <3>4
      <4>2. records'[Len(records')] = document /\ document' = document
        <5>1. PICK r \in Seq(Nat) : r = records
          BY <2>2
        <5>2. PICK n \in Nat : n = document
          BY <2>2
        <5>3. Len(Append(r, n)) = Len(r) + 1 /\ Append(r, n)[Len(r) + 1] = n
          OBVIOUS
        <5>4. records' = Append(r, n) /\ document' = document
          BY <2>1, <4>1, <5>1, <5>2
        <5> QED BY <5>2, <5>3, <5>4
      <4> QED BY <3>2, <4>2 DEF SavesInTurn
    <3> QED BY <3>3, <3>4
  <2> QED BY <1>0, <1>4, <2>1, <2>3, <2>4 DEF WorkTyped
<1>6. ASSUME NEW c \in Threads, Gates!SaverDies(c) PROVE WorkInv'
  <2>1. /\ saving[c].at # "none" /\ saving' = [saving EXCEPT ![c] = [at |-> "none", id |-> "", text |-> 0]]
        /\ UNCHANGED <<title, named, document, saves>> /\ loose' = (loose \/ saving[c].at = "saved")
        /\ records' = records \/ (saving[c].at = "saved" /\ records' = Append(records, 0))
    BY <1>6 DEF Gates!SaverDies, Gates!Doing
  <2>2. records' \in Seq(Nat)
    <3>1. records \in Seq(Nat)
      BY <1>0 DEF WorkTyped
    <3>2. Append(records, 0) \in Seq(Nat)
      BY <3>1
    <3>3. records' = records \/ records' = Append(records, 0)
      BY <2>1
    <3> QED BY <3>1, <3>2, <3>3
  <2>3. loose' \in BOOLEAN
    BY <1>0, <2>1 DEF WorkTyped
  <2>4. ASSUME ~loose' PROVE SavesInTurn'
    <3>1. SavesInTurn /\ saving[c].at # "saved" /\ records' = records /\ document' = document
      BY <1>0, <2>1, <2>4
    <3>2. saving'[c].at # "saved" /\ \A d \in Threads \ {c} : saving'[d] = saving[d]
      BY <1>0, <2>1, SavingThen
    <3> QED BY <3>1, <3>2 DEF SavesInTurn, Gates!ListFails
  <2> QED BY <1>4, <2>1, <2>2, <2>3, <2>4
<1> QED BY <1>1, <1>2, <1>3, <1>5, <1>6 DEF Gates!WorkNext

\* What the records tell of the document follows.
LEMMA RecordsTell == WorkInv => Gates!RecordsTellTheDocument
  BY DEF WorkInv, SavesInTurn, NamedInTurn, Gates!RecordsTellTheDocument, Gates!Last

-----------------------------------------------------------------------------
(* Providers: what is known of their health, and retried calls.            *)
Recent(s) == SubSeq(s, IF Len(s) > 2 THEN Len(s) - 1 ELSE 1, Len(s))
HealthInv ==
  /\ recorded \in Seq(BOOLEAN) /\ answers = Recent(recorded)
  /\ balance \in 0..2 /\ record.balance \in 0..2 \cup {Models!Unknown}
  /\ record.health \in {"unknown", "good", "bad"}

\* At the start nothing is known.
LEMMA HealthStart == Models!Init => HealthInv
<1>1. << >> \in Seq(BOOLEAN) /\ Recent(<< >>) = << >>
  BY DEF Recent
<1> QED BY <1>1 DEF Models!Init, HealthInv

\* Sequences of a length that agree everywhere are one.
LEMMA SameSequence ==
  ASSUME NEW r \in Seq(BOOLEAN), NEW s \in Seq(BOOLEAN), Len(r) = Len(s), \A i \in 1..Len(r) : r[i] = s[i]
  PROVE  r = s
  OBVIOUS

\* What is left after the first, and what is added at the end.
LEMMA TailIs ==
  ASSUME NEW r \in Seq(BOOLEAN), Len(r) = 2
  PROVE  Tail(r) \in Seq(BOOLEAN) /\ Len(Tail(r)) = 1 /\ Tail(r)[1] = r[2]
<1>1. r # << >>
  OBVIOUS
<1>2. Tail(r) \in Seq(BOOLEAN) /\ Len(Tail(r)) = 1
  BY <1>1
<1> QED BY <1>1, <1>2

\* What appending does to a sequence of answers.
LEMMA Appended ==
  ASSUME NEW S, NEW r \in Seq(S), NEW e \in S
  PROVE  /\ Append(r, e) \in Seq(S) /\ Len(Append(r, e)) = Len(r) + 1 /\ Append(r, e)[Len(r) + 1] = e
         /\ \A i \in 1..Len(r) : Append(r, e)[i] = r[i]
  BY AppendProperties

\* What is added to one answer is the second.
LEMMA AppendIs ==
  ASSUME NEW r \in Seq(BOOLEAN), Len(r) = 1, NEW e \in BOOLEAN
  PROVE  Append(r, e) \in Seq(BOOLEAN) /\ Len(Append(r, e)) = 2 /\ Append(r, e)[1] = r[1] /\ Append(r, e)[2] = e
<1>0. PICK S : S = BOOLEAN
  OBVIOUS
<1>a. r \in Seq(S) /\ e \in S
  BY <1>0, Zenon
<1>b. /\ Append(r, e) \in Seq(S) /\ Len(Append(r, e)) = Len(r) + 1 /\ Append(r, e)[Len(r) + 1] = e
      /\ \A i \in 1..Len(r) : Append(r, e)[i] = r[i]
  BY <1>a, Appended, SMTT(20)
<1>1. /\ Append(r, e) \in Seq(BOOLEAN) /\ Len(Append(r, e)) = Len(r) + 1 /\ Append(r, e)[Len(r) + 1] = e
      /\ \A i \in 1..Len(r) : Append(r, e)[i] = r[i]
  BY <1>0, <1>b, Zenon
<1>2. 1 + 1 = 2 /\ 1 \in 1..1
  OBVIOUS
<1> QED BY <1>1, <1>2, Zenon

\* The window moves along.
LEMMA WindowMoves ==
  ASSUME NEW s \in Seq(BOOLEAN), NEW e \in BOOLEAN
  PROVE  Recent(Append(s, e)) = (IF Len(Recent(s)) = 2 THEN Append(Tail(Recent(s)), e) ELSE Append(Recent(s), e))
<1> DEFINE u == Append(s, e)
<1>0. PICK S : S = BOOLEAN
  OBVIOUS
<1>a. s \in Seq(S) /\ e \in S
  BY <1>0, Zenon
<1>b. u \in Seq(S) /\ Len(u) = Len(s) + 1 /\ u[Len(s) + 1] = e /\ \A i \in 1..Len(s) : u[i] = s[i]
  BY <1>a, Appended
<1>1. u \in Seq(BOOLEAN) /\ Len(u) = Len(s) + 1 /\ u[Len(s) + 1] = e /\ \A i \in 1..Len(s) : u[i] = s[i]
  BY <1>0, <1>b, Zenon
<1> HIDE DEF u
<1>2. CASE Len(s) < 2
  <2>1. Recent(s) = s
    <3>1. SubSeq(s, 1, Len(s)) \in Seq(BOOLEAN) /\ Len(SubSeq(s, 1, Len(s))) = Len(s)
          /\ \A i \in 1..Len(s) : SubSeq(s, 1, Len(s))[i] = s[i]
      OBVIOUS
    <3>2. SubSeq(s, 1, Len(s)) = s
      BY <3>1, SameSequence
    <3>3. ~(Len(s) > 2)
      BY <1>2
    <3> QED BY <3>2, <3>3 DEF Recent
  <2>2. Recent(u) = u
    <3>1. SubSeq(u, 1, Len(u)) \in Seq(BOOLEAN) /\ Len(SubSeq(u, 1, Len(u))) = Len(u)
          /\ \A i \in 1..Len(u) : SubSeq(u, 1, Len(u))[i] = u[i]
      BY <1>1
    <3>2. SubSeq(u, 1, Len(u)) = u
      BY <1>1, <3>1, SameSequence
    <3>3. ~(Len(u) > 2)
      BY <1>1, <1>2
    <3> QED BY <3>2, <3>3 DEF Recent
  <2> QED BY <1>2, <2>1, <2>2 DEF u
<1>3. CASE Len(s) >= 2
  <2>1. PICK n \in Nat : n = Len(s) /\ n >= 2
    BY <1>3
  <2> DEFINE r == SubSeq(s, n - 1, n)
             v == SubSeq(u, n, n + 1)
             w == Append(Tail(r), e)
  <2>2. r \in Seq(BOOLEAN) /\ Len(r) = 2 /\ r[2] = s[n]
    BY <2>1
  <2>3. v \in Seq(BOOLEAN) /\ Len(v) = 2 /\ v[1] = u[n] /\ v[2] = u[n + 1]
    BY <1>1, <2>1
  <2>4. Recent(s) = r /\ Recent(u) = v
    <3>1. n > 2 => Len(u) > 2 /\ Len(u) - 1 = n /\ Len(u) = n + 1
      BY <1>1, <2>1
    <3>2. n = 2 => n - 1 = 1 /\ Len(u) > 2 /\ Len(u) - 1 = n /\ Len(u) = n + 1
      BY <1>1, <2>1
    <3>3. Recent(u) = v
      <4>1. Len(u) > 2 /\ Len(u) - 1 = n /\ Len(u) = n + 1
        BY <2>1, <3>1, <3>2
      <4>2. Recent(u) = SubSeq(u, Len(u) - 1, Len(u))
        BY <4>1 DEF Recent
      <4> QED BY <4>1, <4>2
    <3>4. CASE n > 2
      BY <2>1, <3>3, <3>4 DEF Recent
    <3>5. CASE n = 2
      <4>1. Recent(s) = SubSeq(s, 1, n)
        BY <2>1, <3>5 DEF Recent
      <4>2. 1 = n - 1
        BY <3>5
      <4> QED BY <3>3, <4>1, <4>2
    <3> QED BY <2>1, <3>4, <3>5
  <2> HIDE DEF r, v
  <2>5. Tail(r) \in Seq(BOOLEAN) /\ Len(Tail(r)) = 1 /\ Tail(r)[1] = r[2]
    BY <2>2, TailIs
  <2>6. w \in Seq(BOOLEAN) /\ Len(w) = 2 /\ w[1] = Tail(r)[1] /\ w[2] = e
    BY <2>5, AppendIs
  <2> HIDE DEF w
  <2>7. v[1] = w[1] /\ v[2] = w[2]
    <3>1. u[n] = s[n] /\ u[n + 1] = e
      BY <1>1, <2>1
    <3> QED BY <3>1, <2>2, <2>3, <2>5, <2>6
  <2>8. v = w
    <3>1. \A i \in 1..Len(v) : v[i] = w[i]
      BY <2>3, <2>7
    <3> QED BY <3>1, <2>3, <2>6, <2>7, SameSequence
  <2> QED BY <2>2, <2>4, <2>8 DEF u, w
<1> QED BY <1>2, <1>3

\* A call to the provider, a probe and what is spent keep the invariant.
LEMMA HealthStep ==
  ASSUME HealthInv, Models!LiveNext
  PROVE  HealthInv'
<1>1. ASSUME NEW e \in BOOLEAN, Models!Record(e) PROVE HealthInv'
  <2>1. recorded' = Append(recorded, e) /\ UNCHANGED <<record, balance>>
        /\ answers' = (IF Len(answers) = 2 THEN Append(Tail(answers), e) ELSE Append(answers, e))
    BY <1>1 DEF Models!Record
  <2>2. PICK s \in Seq(BOOLEAN) : s = recorded
    BY DEF HealthInv
  <2>3. recorded' = Append(s, e) /\ Append(s, e) \in Seq(BOOLEAN)
    BY <2>1, <2>2
  <2>4. answers = Recent(s)
    BY <2>2 DEF HealthInv
  <2>5. answers' = Recent(Append(s, e))
    BY <2>1, <2>4, WindowMoves
  <2>6. answers' = Recent(recorded')
    BY <2>3, <2>5
  <2> QED BY <2>1, <2>3, <2>6 DEF HealthInv, Recent
<1>2. ASSUME Models!UpdateBalance PROVE HealthInv'
  <2>1. record' = [record EXCEPT !.balance = balance] /\ UNCHANGED <<balance, answers, recorded>>
    BY <1>2 DEF Models!UpdateBalance
  <2> QED BY <2>1 DEF HealthInv, Recent
<1>3. ASSUME Models!UpdateHealth PROVE HealthInv'
  BY <1>3 DEF Models!UpdateHealth, HealthInv, Recent
<1>4. ASSUME NEW b \in 0..1, Models!Spend(b) PROVE HealthInv'
  BY <1>4 DEF Models!Spend, HealthInv, Recent
<1> QED BY <1>1, <1>2, <1>3, <1>4 DEF Models!LiveNext

\* What is told of an account agrees with the rate and the least balance.
LEMMA HealthTold == HealthInv => Models!HealthIsRecent
<1> SUFFICES ASSUME HealthInv PROVE Models!HealthIsRecent
  OBVIOUS
<1>1. PICK s \in Seq(BOOLEAN) : s = recorded
  BY DEF HealthInv
<1>2. Len(s) \in Nat /\ Len(s) - 2 + 1 = Len(s) - 1
  BY <1>1
<1>3. answers = SubSeq(recorded, IF Len(recorded) > 2 THEN Len(recorded) - 2 + 1 ELSE 1, Len(recorded))
  BY <1>1, <1>2 DEF HealthInv, Recent
<1>4. PICK b \in 0..2 \cup {Models!Unknown} : b = record.balance
  BY DEF HealthInv
<1> QED BY <1>3, <1>4 DEF Models!HealthIsRecent, Models!Healthy, Models!Poor, Models!ProbeOk

\* A call is retried after transient failures only, less often than allowed,
\* and it waits longer each time.
Lapse(i) == IF i = 1 THEN 1 ELSE IF i = 2 THEN 2 ELSE 4
RetryInv ==
  /\ attempt \in Seq({"value", "transient", "fatal"}) /\ waited \in Seq({1, 2, 4})
  /\ told \in {"pending", "value", "error"} /\ Len(attempt) <= 4
  /\ told = "pending" => Len(attempt) < 4 /\ \A i \in 1..Len(attempt) : attempt[i] = "transient"
  /\ told = "pending" => Len(waited) = Len(attempt)
  /\ \A i \in 1..Len(attempt) - 1 : attempt[i] = "transient"
  /\ \A i \in 1..Len(waited) : waited[i] = Lapse(i)
  /\ told = "error" => attempt # << >> /\ (attempt[Len(attempt)] = "fatal" \/ (attempt[Len(attempt)] = "transient" /\ Len(attempt) = 4))
  /\ told = "value" => attempt # << >> /\ attempt[Len(attempt)] = "value"
  /\ Len(waited) <= 3

\* At the start nothing was tried.
LEMMA RetryStart == Models!Init => RetryInv
<1>1. << >> \in Seq({"value", "transient", "fatal"}) /\ << >> \in Seq({1, 2, 4}) /\ Len(<< >>) = 0
  OBVIOUS
<1> QED BY <1>1 DEF Models!Init, RetryInv

\* Delays: 1, 2, 4.
LEMMA DelaysDouble == Models!Delay(0) = 1 /\ Models!Delay(1) = 2 /\ Models!Delay(2) = 4
  BY DEF Models!Delay

\* A try keeps the invariant.
LEMMA RetryStep ==
  ASSUME RetryInv, Models!RetryNext
  PROVE  RetryInv'
<1> DEFINE Outcomes == {"value", "transient", "fatal"}
<1>1. PICK outcome \in Outcomes : Models!Call(outcome)
  BY DEF Models!RetryNext
<1>2. PICK a \in Seq(Outcomes) : a = attempt
  BY DEF RetryInv
<1>3. PICK w \in Seq({1, 2, 4}) : w = waited
  BY DEF RetryInv
<1>4. told = "pending" /\ attempt' = Append(a, outcome)
  BY <1>1, <1>2 DEF Models!Call
<1>5. Len(a) \in {0, 1, 2, 3} /\ Len(w) = Len(a) /\ (\A i \in 1..Len(a) : a[i] = "transient")
      /\ \A i \in 1..Len(w) : w[i] = Lapse(i)
  BY <1>2, <1>3, <1>4 DEF RetryInv
<1> DEFINE b == Append(a, outcome)
<1>6. b \in Seq(Outcomes) /\ Len(b) = Len(a) + 1 /\ b[Len(a) + 1] = outcome /\ (\A i \in 1..Len(a) : b[i] = a[i])
      /\ b # << >>
  <2>1. b \in Seq(Outcomes) /\ Len(b) = Len(a) + 1
    OBVIOUS
  <2>2. b[Len(a) + 1] = outcome /\ \A i \in 1..Len(a) : b[i] = a[i]
    OBVIOUS
  <2>3. b # << >>
    OBVIOUS
  <2> QED BY <2>1, <2>2, <2>3
<1>7. Len(b) <= 4 /\ \A i \in 1..Len(b) - 1 : b[i] = "transient"
  BY <1>5, <1>6
<1> HIDE DEF b
<1>8. CASE outcome = "transient" /\ Len(a) < 3
  <2> DEFINE d == Models!Delay(Len(a))
             v == Append(w, d)
  <2>1. Models!More(Len(b))
    BY <1>5, <1>6, <1>8 DEF Models!More, Models!Tries
  <2>2. attempt' = b /\ waited' = v /\ told' = told
    BY <1>1, <1>2, <1>3, <1>4, <1>8, <2>1 DEF Models!Call, b
  <2>3. d = Lapse(Len(a) + 1) /\ d \in {1, 2, 4}
    BY <1>5, <1>8, DelaysDouble DEF Lapse
  <2> HIDE DEF d
  <2>4. v \in Seq({1, 2, 4}) /\ Len(v) = Len(w) + 1 /\ v[Len(w) + 1] = d /\ \A i \in 1..Len(w) : v[i] = w[i]
    BY <2>3
  <2> HIDE DEF v
  <2>5. \A i \in 1..Len(v) : v[i] = Lapse(i)
    <3> SUFFICES ASSUME NEW i \in 1..Len(v) PROVE v[i] = Lapse(i)
      OBVIOUS
    <3>1. CASE i \in 1..Len(w)
      BY <1>5, <2>4, <3>1
    <3>2. CASE i = Len(w) + 1
      BY <1>5, <2>3, <2>4, <3>2
    <3> QED BY <2>4, <3>1, <3>2
  <2>6. Len(b) < 4 /\ Len(v) = Len(b) /\ Len(v) <= 3 /\ \A i \in 1..Len(b) : b[i] = "transient"
    BY <1>5, <1>6, <1>8, <2>4
  <2> QED BY <1>4, <1>6, <1>7, <2>2, <2>4, <2>5, <2>6 DEF RetryInv, Lapse
<1>9. CASE ~(outcome = "transient" /\ Len(a) < 3)
  <2>1. ~(outcome = "transient" /\ Models!More(Len(b)))
    BY <1>5, <1>6, <1>9 DEF Models!More, Models!Tries
  <2>2. attempt' = b /\ waited' = w /\ told' = (IF outcome = "value" THEN "value" ELSE "error")
    BY <1>1, <1>2, <1>3, <1>4, <2>1 DEF Models!Call, b
  <2>3. b[Len(b)] = outcome /\ (outcome = "transient" => Len(b) = 4) /\ Len(w) <= 3
    BY <1>5, <1>6, <1>9
  <2> QED BY <1>5, <1>6, <1>7, <2>2, <2>3 DEF RetryInv, Lapse
<1> QED BY <1>8, <1>9

\* The promise about retries follows.
LEMMA RetriesAreTold == RetryInv => Models!RetriesEnd
<1> SUFFICES ASSUME RetryInv PROVE Models!RetriesEnd
  OBVIOUS
<1>1. \A i \in 2..Len(waited) : waited[i] \in {waited[i - 1], 2 * waited[i - 1]}
  <2> SUFFICES ASSUME NEW i \in 2..Len(waited) PROVE waited[i] \in {waited[i - 1], 2 * waited[i - 1]}
    OBVIOUS
  <2>1. Len(waited) \in Nat /\ Len(waited) <= 3
    BY DEF RetryInv
  <2>2. i - 1 \in 1..Len(waited) /\ i \in 1..Len(waited) /\ (i = 2 \/ i = 3)
    BY <2>1
  <2>3. waited[i] = Lapse(i) /\ waited[i - 1] = Lapse(i - 1)
    BY <2>2 DEF RetryInv
  <2> QED BY <2>2, <2>3 DEF Lapse
<1>2. Len(attempt) <= 4 /\ \A i \in 1..Len(attempt) - 1 : attempt[i] = "transient"
  BY DEF RetryInv
<1> QED BY <1>1, <1>2 DEF RetryInv, Models!RetriesEnd, Models!Tries, Models!Last

-----------------------------------------------------------------------------
(* The whole.                                                              *)
NamesInv == (scenario = "team" => TeamInv) /\ RegistryInv /\ PluginInv /\ LoadInv
OthersInv == AcpInv /\ A2aInv /\ WorkInv /\ HealthInv /\ RetryInv
AdaptersInv == NamesInv /\ OthersInv

\* It holds at the start.
LEMMA AdaptersStart == ServicesInit => AdaptersInv
<1>1. ServicesInit => Team!Init /\ Registry!Init /\ Gates!Init /\ Models!Init
  BY DEF ServicesInit
<1> QED
  BY <1>1, TeamStart, RegistryStart, PluginStart, LoadStart, AcpStart, A2aStart, WorkStart, HealthStart, RetryStart
  DEF AdaptersInv, NamesInv, OthersInv

\* The team, the registries, the plugins and the loads keep theirs.
LEMMA NamesKeep == NamesInv /\ [ServicesNext]_allVars => NamesInv'
<1> SUFFICES ASSUME NamesInv, [ServicesNext]_allVars PROVE NamesInv'
  OBVIOUS
<1>1. (scenario = "team" => TeamInv)'
  <2>1. scenario' = scenario /\ (scenario = "team" => Team!TeamNext \/ UNCHANGED teamVars)
    BY DEF ServicesNext, allVars
  <2>2. CASE UNCHANGED teamVars
    BY <2>1, <2>2 DEF NamesInv, TeamInv, TeamTyped, TeamsSound, Wanted, Sound, Team!HasTeam, teamVars
  <2> QED BY <2>1, <2>2, TeamStep DEF NamesInv
<1>2. \/ Registry!RegistryNext \/ Registry!RoleNext \/ Registry!PluginNext \/ Registry!LoadNext
      \/ UNCHANGED registryVars
  BY DEF ServicesNext, allVars, Registering
<1>3. RegistryInv'
  <2>1. CASE UNCHANGED <<stores, generic, discovery>>
    BY <2>1 DEF NamesInv, RegistryInv
  <2>2. Registry!PluginNext \/ Registry!LoadNext \/ UNCHANGED registryVars => UNCHANGED <<stores, generic, discovery>>
    BY DEF Registry!PluginNext, Registry!LoadNext, Registry!registryVars, registryVars
  <2> QED BY <1>2, <2>1, <2>2, RegistryStep DEF NamesInv
<1>4. PluginInv'
  <2>1. CASE UNCHANGED Registry!pluginVars
    BY <2>1 DEF NamesInv, PluginInv, PluginTyped, OneWrites, Registry!pluginVars
  <2>2. Registry!RegistryNext \/ Registry!RoleNext \/ Registry!LoadNext \/ UNCHANGED registryVars
        => UNCHANGED Registry!pluginVars
    BY DEF Registry!RegistryNext, Registry!RoleNext, Registry!LoadNext, Registry!pluginVars, registryVars
  <2> QED BY <1>2, <2>1, <2>2, PluginStep DEF NamesInv
<1>5. LoadInv'
  <2>1. CASE UNCHANGED Registry!loadVars
    <3>1. Registry!Loading' = Registry!Loading
      BY <2>1 DEF Registry!Loading, Registry!loadVars
    <3> QED BY <2>1, <3>1 DEF NamesInv, LoadInv, LoadTyped, OneLoads, Registry!loadVars
  <2>2. Registry!RegistryNext \/ Registry!RoleNext \/ Registry!PluginNext \/ UNCHANGED registryVars
        => UNCHANGED Registry!loadVars
    BY DEF Registry!RegistryNext, Registry!RoleNext, Registry!PluginNext, Registry!loadVars, registryVars
  <2> QED BY <1>2, <2>1, <2>2, LoadStep DEF NamesInv
<1> QED BY <1>1, <1>3, <1>4, <1>5 DEF NamesInv

\* What speaks for others, and what is told of providers, keep theirs.
LEMMA OthersKeep == OthersInv /\ [ServicesNext]_allVars => OthersInv'
<1> SUFFICES ASSUME OthersInv, [ServicesNext]_allVars PROVE OthersInv'
  OBVIOUS
<1>1. \/ Gates!AcpNext \/ Gates!A2aNext \/ Gates!WorkNext
      \/ UNCHANGED Gates!acpVars /\ UNCHANGED Gates!a2aVars /\ UNCHANGED Gates!workVars
  BY DEF ServicesNext, allVars, Adapting, gatewayVars, Gates!acpVars, Gates!a2aVars, Gates!workVars,
     Gates!ChannelNext, Gates!HttpNext, Gates!SkillNext
<1>2. AcpInv'
  <2>1. CASE UNCHANGED Gates!acpVars
    BY <2>1 DEF OthersInv, AcpInv, AcpTyped, MarksTell, Pending, Gates!Known, Gates!acpVars
  <2> QED BY <1>1, <2>1, AcpStep DEF OthersInv, Gates!A2aNext, Gates!WorkNext
<1>3. A2aInv'
  <2>1. CASE UNCHANGED Gates!a2aVars
    BY <2>1 DEF OthersInv, A2aInv, Tells, Gates!a2aVars
  <2> QED BY <1>1, <2>1, A2aStep DEF OthersInv, Gates!AcpNext, Gates!WorkNext
<1>4. WorkInv'
  <2>1. CASE UNCHANGED Gates!workVars
    BY <2>1 DEF OthersInv, WorkInv, WorkTyped, SavesInTurn, NamedInTurn, Gates!ListFails, Gates!workVars
  <2> QED BY <1>1, <2>1, WorkStep DEF OthersInv, Gates!AcpNext, Gates!A2aNext
<1>5. \/ Models!LiveNext \/ Models!RetryNext
      \/ UNCHANGED Models!liveVars /\ UNCHANGED Models!retryVars
  BY DEF ServicesNext, allVars, Asking, providerVars, Models!liveVars, Models!retryVars,
     Models!DefaultsNext, Models!ConversationNext
<1>6. HealthInv'
  <2>1. CASE UNCHANGED Models!liveVars
    BY <2>1 DEF OthersInv, HealthInv, Recent, Models!liveVars
  <2> QED BY <1>5, <2>1, HealthStep DEF OthersInv, Models!RetryNext
<1>7. RetryInv'
  <2>1. CASE UNCHANGED Models!retryVars
    BY <2>1 DEF OthersInv, RetryInv, Lapse, Models!retryVars
  <2> QED BY <1>5, <2>1, RetryStep DEF OthersInv, Models!LiveNext
<1> QED BY <1>2, <1>3, <1>4, <1>6, <1>7 DEF OthersInv

\* So it holds always.
LEMMA AdaptersInvariant == ServicesSpec => []AdaptersInv
<1>1. AdaptersInv /\ [ServicesNext]_allVars => AdaptersInv'
  BY NamesKeep, OthersKeep DEF AdaptersInv
<1> QED BY <1>1, AdaptersStart, PTL DEF ServicesSpec

-----------------------------------------------------------------------------
\* TeamRegistry, provider_registry, plugin_registry and plugin_loader: while no
\* two calls met, the team has exactly those who joined, and always its lead is
\* one of its members or left; has() and list() agree; a discovery left nothing
\* out; what was installed is in the file; and the import hook is put back
\* unless loads overlapped.
THEOREM RegistriesTell == ServicesSpec => []RegistriesAgree
<1>1. AdaptersInv => RegistriesAgree
  BY TeamPromise, HasAgreesAlways, DiscoveryFinds, PluginsStayAlways, ImportsRestoredAlways
  DEF AdaptersInv, NamesInv, RegistriesAgree
<1> QED BY <1>1, AdaptersInvariant, PTL

\* acp_adapter, a2a_adapter, mcp_skills, research_workspace, provider_live_state
\* and retry: a session is told cancelled exactly when it was, a task only when
\* its agent cancelled it; a server's skills are told alike by all who ask; the
\* last record is that of the document while saves took turns; the rate is that
\* of the latest answers; and a retried call ends as its last try did.
THEOREM GatewaysTell == ServicesSpec => []GatewaysAgree
<1>1. AdaptersInv => GatewaysAgree
  BY SessionsTellIt, CancelledTells, SkillsAgreeAlways, RecordsTell, HealthTold, RetriesAreTold
  DEF AdaptersInv, OthersInv, GatewaysAgree
<1> QED BY <1>1, AdaptersInvariant, PTL

=============================================================================

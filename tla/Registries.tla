----------------------------- MODULE Registries -----------------------------
(***************************************************************************)
(* Who can be called, by name: provider_registry with the agent, tool and  *)
(* rule registries beside it (RegistryNext), the plugins that are          *)
(* installed, in a file that processes share (PluginNext), and loading a   *)
(* plugin under an import guard, in threads (LoadNext).  The three share   *)
(* nothing, so each has a next-state relation of its own.                  *)
(*                                                                         *)
(* A caller, a spec or a rule is a number, 0 for none.  External: entry    *)
(* points, which load or not; the code of the plugins.                     *)
(*                                                                         *)
(* A definition named X_Slip is X with a slip a programmer could make; the *)
(* properties are checked to notice it.  Nothing else uses it.             *)
(***************************************************************************)
EXTENDS Naturals, Sequences

CONSTANTS
  Names,      \* "default" and others
  Processes,  \* processes with a PluginRegistry
  Loaders,    \* threads that load a plugin
  MaxWrites   \* bound

Values == 0..2
Builtin == {"llm", "vlm", "image_gen"}
Categories == Builtin \cup {"video"}
EntryPoints == <<[cat |-> "llm", name |-> "default"], [cat |-> "malformed", name |-> "x"],
                 [cat |-> "video", name |-> "default"]>>

VARIABLES
  stores,      \* _llms, _vlms, _images: category -> name -> caller
  generic,     \* _generic: category -> name -> caller
  abilities,   \* _capabilities
  specs,       \* _specs
  roles,       \* AgentRegistry's runtime entries: the spec referred to, or "none"
  tools,       \* ToolRegistry._tools
  rules,       \* SkillsRegistry._rules
  discovery,   \* the latest auto_discover: not, done, failed, conflict
  installed,   \* per process: PluginRegistry._installed
  shelf,       \* installed.json: the plugins in it
  torn,        \* it is emptied, or half written
  market,      \* marketplace.json
  writer,      \* per process: what it is about to write; "none"
  promised,    \* ghost: plugins whose latest operation returned that they are in
  crossed,     \* ghost: a process wrote without what another wrote, two wrote at once, or one died writing
  writes,
  hook,        \* builtins.__import__: "real" or whose guard
  finders,     \* sys.meta_path's finders
  loader,      \* per thread: where its load is, and the hook it found
  overlapped   \* ghost: two loads ran at once

registryVars == <<stores, generic, abilities, specs, roles, tools, rules, discovery>>
pluginVars == <<installed, shelf, torn, market, writer, promised, crossed, writes>>
loadVars == <<hook, finders, loader, overlapped>>
vars == <<registryVars, pluginVars, loadVars>>

Empty == [n \in Names |-> 0]
Init ==
  /\ stores = [c \in Builtin |-> Empty] /\ generic = [c \in Categories |-> Empty]
  /\ abilities = Empty /\ specs = Empty /\ roles = [n \in Names |-> "none"]
  /\ tools = Empty /\ rules = Empty /\ discovery = "not"
  /\ installed = [p \in Processes |-> {}] /\ shelf = {} /\ torn = FALSE /\ market = {}
  /\ writer = [p \in Processes |-> "none"] /\ promised = {} /\ crossed = FALSE /\ writes = 0
  /\ hook = "real" /\ finders = {} /\ overlapped = FALSE
  /\ loader = [t \in Loaders |-> [at |-> "idle", found |-> "real"]]

-----------------------------------------------------------------------------
\* register_llm, register_vlm, register_image_gen, register_generic: a conflict
\* unless the name is new or is to be replaced.
Free(store, n, replace) == replace \/ store[n] = 0
RegisterLlm(n, v, replace) ==
  /\ Free(stores["llm"], n, replace) /\ stores' = [stores EXCEPT !["llm"][n] = v]
  /\ UNCHANGED <<generic, abilities, specs, roles, tools, rules, discovery>>
RegisterVlm(n, v, replace) ==
  /\ Free(stores["vlm"], n, replace) /\ stores' = [stores EXCEPT !["vlm"][n] = v]
  /\ UNCHANGED <<generic, abilities, specs, roles, tools, rules, discovery>>
RegisterImageGen(n, v, replace) ==
  /\ Free(stores["image_gen"], n, replace) /\ stores' = [stores EXCEPT !["image_gen"][n] = v]
  /\ UNCHANGED <<generic, abilities, specs, roles, tools, rules, discovery>>
\* Nothing keeps a generic category from having a built-in one's name.
RegisterGeneric(c, n, v, replace) ==
  /\ Free(generic[c], n, replace) /\ generic' = [generic EXCEPT ![c][n] = v]
  /\ UNCHANGED <<stores, abilities, specs, roles, tools, rules, discovery>>

\* register_with_capability replaces without being asked to.
RegisterWithCapability(n, v) ==
  /\ stores' = [stores EXCEPT !["llm"][n] = v] /\ abilities' = [abilities EXCEPT ![n] = v]
  /\ UNCHANGED <<generic, specs, roles, tools, rules, discovery>>
RegisterSpec(n, v, replace) ==
  /\ Free(specs, n, replace) /\ specs' = [specs EXCEPT ![n] = v]
  /\ UNCHANGED <<stores, generic, abilities, roles, tools, rules, discovery>>

\* auto_discover: the entries in order, malformed names skipped; it ends at the
\* first that does not load (fails) or is registered already.
Fits(e) == IF e.cat \in Builtin THEN stores[e.cat][e.name] = 0 ELSE generic[e.cat][e.name] = 0
AutoDiscover(broken) ==
  LET Stops(i) == EntryPoints[i].cat # "malformed" /\ (i = broken \/ ~Fits(EntryPoints[i]))
      stop == IF \E i \in DOMAIN EntryPoints : Stops(i)
              THEN CHOOSE i \in DOMAIN EntryPoints : Stops(i) /\ \A j \in 1..i - 1 : ~Stops(j)
              ELSE Len(EntryPoints) + 1
      New(c, n) == \E i \in 1..stop - 1 : EntryPoints[i].cat = c /\ EntryPoints[i].name = n
  IN /\ stores' = [c \in Builtin |-> [n \in Names |-> IF New(c, n) THEN 1 ELSE stores[c][n]]]
     /\ generic' = [c \in Categories |->
          [n \in Names |-> IF c \notin Builtin /\ New(c, n) THEN 1 ELSE generic[c][n]]]
     /\ discovery' = IF stop > Len(EntryPoints) THEN "done"
                     ELSE IF stop = broken THEN "failed" ELSE "conflict"
     /\ UNCHANGED <<abilities, specs, roles, tools, rules>>

\* clear, of this and of the tool registry.
Clear ==
  /\ stores' = [c \in Builtin |-> Empty] /\ generic' = [c \in Categories |-> Empty]
  /\ abilities' = Empty /\ specs' = Empty /\ discovery' = "not"
  /\ UNCHANGED <<roles, tools, rules>>
ClearTools == tools' = Empty /\ UNCHANGED <<stores, generic, abilities, specs, roles, rules, discovery>>

\* The lookups: the name, or the default.
Lookup(store, n) == IF store[n] # 0 THEN store[n] ELSE store["default"]
Llm(n) == Lookup(stores["llm"], n)
Vlm(n) == Lookup(stores["vlm"], n)
ImageGen(n) == Lookup(stores["image_gen"], n)
Generic(c, n) == Lookup(generic[c], n)
Found(c, n) ==
  CASE c = "llm" -> Llm(n) [] c = "vlm" -> Vlm(n) [] c = "image_gen" -> ImageGen(n) [] OTHER -> Generic(c, n)
\* has: an empty store counts as none.
Has_Slip(c, n) == IF c \in Builtin THEN Found(c, n) # 0 ELSE generic[c][n] # 0
Has(c, n) ==
  IF c \in Builtin /\ stores[c] # Empty THEN stores[c][n] # 0 ELSE generic[c][n] # 0
ListProviders ==
  {x \in Builtin \X Names : stores[x[1]][x[2]] # 0} \cup {x \in Categories \X Names : generic[x[1]][x[2]] # 0}

\* AgentRegistry.register_runtime, runtime_descriptor and reset.
RegisterRuntime(n, ref) ==
  /\ roles[n] = "none" /\ roles' = [roles EXCEPT ![n] = ref]
  /\ UNCHANGED <<stores, generic, abilities, specs, tools, rules, discovery>>
ResetRoles == roles' = [n \in Names |-> "none"] /\ UNCHANGED <<stores, generic, abilities, specs, tools, rules, discovery>>

\* ToolRegistry.register; SkillsRegistry.register_rule and remove_rule.
RegisterTool(n, v) ==
  /\ tools[n] = 0 /\ tools' = [tools EXCEPT ![n] = v]
  /\ UNCHANGED <<stores, generic, abilities, specs, roles, rules, discovery>>
RegisterRule(n, v) == rules' = [rules EXCEPT ![n] = v] /\ UNCHANGED <<stores, generic, abilities, specs, roles, tools, discovery>>
RemoveRule(n) ==
  /\ rules[n] # 0 /\ rules' = [rules EXCEPT ![n] = 0]
  /\ UNCHANGED <<stores, generic, abilities, specs, roles, tools, discovery>>

\* The provider registry and its specs; the rest are dictionaries of their own.
RegistryNext ==
  /\ UNCHANGED <<pluginVars, loadVars>>
  /\ \/ \E n \in Names : \E v \in 1..2 :
          \/ \E r \in BOOLEAN :
               \/ RegisterLlm(n, v, r)
               \/ RegisterGeneric("llm", n, v, r)
          \/ RegisterWithCapability(n, v)
     \/ \E r \in BOOLEAN :
          \/ RegisterVlm("default", 1, r) \/ RegisterImageGen("default", 1, r)
          \/ RegisterGeneric("video", "default", 1, r)
     \/ \E broken \in 0..Len(EntryPoints) : AutoDiscover(broken)
     \/ Clear
RoleNext ==
  /\ UNCHANGED <<pluginVars, loadVars>>
  /\ \/ Clear \/ ClearTools \/ ResetRoles
     \/ \E n \in Names : \E v \in 1..2 :
          \/ RegisterTool(n, v) \/ RegisterRule(n, v) \/ RemoveRule(n)
          \/ \E r \in BOOLEAN : RegisterSpec(n, v, r)
          \/ \E ref \in Names : RegisterRuntime(n, ref)

-----------------------------------------------------------------------------
\* PluginRegistry: each operation changes what its process knows and writes all
\* of that over the file, which is empty in between.
Known == IF torn THEN {} ELSE shelf
Begin(p, now) ==
  /\ writer[p] = "none" /\ writes < MaxWrites /\ writes' = writes + 1
  /\ installed' = [installed EXCEPT ![p] = now]
  /\ crossed' = (crossed \/ torn \/ installed[p] # shelf \/ \E q \in Processes : writer[q] # "none")
  /\ writer' = [writer EXCEPT ![p] = "opening"]
  /\ UNCHANGED <<shelf, torn, market>>
Install(p, n) == n \notin installed[p] /\ Begin(p, installed[p] \cup {n}) /\ UNCHANGED promised
Uninstall(p, n) ==
  n \in installed[p] /\ Begin(p, installed[p] \ {n}) /\ promised' = promised \ {n}
\* configure and toggle keep what is installed.
Configure(p, n) == n \in installed[p] /\ Begin(p, installed[p]) /\ UNCHANGED promised
SaveOpen(p) ==
  /\ writer[p] = "opening" /\ torn' = TRUE /\ writer' = [writer EXCEPT ![p] = "writing"]
  /\ crossed' = (crossed \/ torn)
  /\ UNCHANGED <<installed, shelf, market, promised, writes>>
SaveWrite(p) ==
  /\ writer[p] = "writing" /\ shelf' = installed[p] /\ torn' = FALSE
  /\ writer' = [writer EXCEPT ![p] = "none"]
  /\ promised' = promised \cup installed[p]
  /\ UNCHANGED <<installed, market, crossed, writes>>
\* publish_to_marketplace reads and rewrites the other file.
Publish(p, n) ==
  /\ writer[p] = "none" /\ n \in installed[p] /\ market' = market \cup {n}
  /\ UNCHANGED <<installed, shelf, torn, writer, promised, crossed, writes>>
\* A process ends, in a save or not, and starts again: _load.
Load == Known
Reopen(p) ==
  /\ installed' = [installed EXCEPT ![p] = Load] /\ writer' = [writer EXCEPT ![p] = "none"]
  /\ crossed' = (crossed \/ writer[p] # "none" \/ torn)
  /\ UNCHANGED <<shelf, torn, market, promised, writes>>
PluginNext ==
  /\ UNCHANGED <<registryVars, loadVars>>
  /\ \E p \in Processes :
       \/ SaveOpen(p) \/ SaveWrite(p) \/ Reopen(p)
       \/ \E n \in Names : Install(p, n) \/ Uninstall(p, n) \/ Configure(p, n) \/ Publish(p, n)

-----------------------------------------------------------------------------
\* load_python_plugin: the finder goes in front of sys.meta_path, the guard
\* replaces the import function that is there, the plugin runs, and that
\* function is put back, however the plugin ended.
At(t, place) == loader' = [loader EXCEPT ![t] = [at |-> place, found |-> loader[t].found]]
Loading == {t \in Loaders : loader[t].at \notin {"idle", "done"}}
InstallFinder(t) ==
  /\ loader[t].at = "idle" /\ At(t, "finder") /\ finders' = finders \cup {t}
  /\ overlapped' = (overlapped \/ Loading # {}) /\ UNCHANGED hook
InstallGuard(t) ==
  /\ loader[t].at = "finder" /\ hook' = t
  /\ loader' = [loader EXCEPT ![t] = [at |-> "running", found |-> hook]]
  /\ UNCHANGED <<finders, overlapped>>
PutBack(t) ==
  /\ loader[t].at = "running" /\ hook' = loader[t].found /\ At(t, "restored")
  /\ UNCHANGED <<finders, overlapped>>
RemoveFinder(t) ==
  /\ loader[t].at = "restored" /\ finders' = finders \ {t} /\ At(t, "done")
  /\ UNCHANGED <<hook, overlapped>>
Again(t) == loader[t].at = "done" /\ At(t, "idle") /\ UNCHANGED <<hook, finders, overlapped>>
LoadNext ==
  /\ UNCHANGED <<registryVars, pluginVars>>
  /\ \E t \in Loaders :
       InstallFinder(t) \/ InstallGuard(t) \/ PutBack(t) \/ RemoveFinder(t) \/ Again(t)

Next == RegistryNext \/ RoleNext \/ PluginNext \/ LoadNext
Spec == Init /\ [][Next]_vars

-----------------------------------------------------------------------------
\* Every variable has its type.
TypeOK ==
  /\ stores \in [Builtin -> [Names -> Values]] /\ generic \in [Categories -> [Names -> Values]]
  /\ abilities \in [Names -> Values] /\ specs \in [Names -> Values]
  /\ roles \in [Names -> Names \cup {"none"}] /\ tools \in [Names -> Values] /\ rules \in [Names -> Values]
  /\ discovery \in {"not", "done", "failed", "conflict"}
  /\ installed \in [Processes -> SUBSET Names] /\ market \subseteq Names /\ promised \subseteq Names
  /\ shelf \subseteq Names /\ torn \in BOOLEAN
  /\ writer \in [Processes -> {"none", "opening", "writing"}] /\ crossed \in BOOLEAN
  /\ writes \in 0..MaxWrites /\ hook \in Loaders \cup {"real"} /\ finders \subseteq Loaders
  /\ \A t \in Loaders : loader[t].found \in Loaders \cup {"real"}

\* What has says is there is listed, and a lookup of it answers something; unless
\* a generic category has a built-in one's name, has knows all that is listed
\* and never takes the default for the name.
HasAgrees ==
  /\ \A c \in Categories : \A n \in Names : Has(c, n) => <<c, n>> \in ListProviders
  /\ (\A c \in Builtin : generic[c] = Empty) =>
       \A c \in Categories : \A n \in Names :
         (Has(c, n) <=> <<c, n>> \in ListProviders) /\ (Has(c, n) => Found(c, n) # 0)

\* A discovery that returned found room for every entry: they can all be called.
DiscoveryIsWhole ==
  discovery = "done" =>
    \A i \in DOMAIN EntryPoints :
      EntryPoints[i].cat # "malformed" => Found(EntryPoints[i].cat, EntryPoints[i].name) # 0

\* A plugin whose installation returned is in the file that a new process reads,
\* unless a process wrote without knowing what another wrote, two wrote at once,
\* or one ended while it wrote.
PluginsStay == crossed \/ (\E p \in Processes : writer[p] # "none") \/ promised \subseteq Load

\* The finders are those of the loads in progress; when no two loads overlap, the
\* guard is in force while a plugin runs and gone when none does.
ImportsRestored ==
  /\ finders = Loading
  /\ ~overlapped =>
       /\ \A t \in Loaders : loader[t].at = "running" => hook = t
       /\ (\A t \in Loaders : loader[t].at # "running") => hook = "real"

=============================================================================

--------------------------- MODULE LocalResources ---------------------------
(***************************************************************************)
(* What one machine has once and several callers want: the memory of the   *)
(* GPU (gpu: GpuNext), a named block of shared memory                      *)
(* (posix_shm_allocator and kv_cache_shared_memory: BlockNext) and the     *)
(* browser of a runner (browser_runner: BrowserNext).                      *)
(*                                                                         *)
(* Callers of the GPU and of the browser are tasks of one event loop: a    *)
(* step goes from one await to the next.  Users of the block are           *)
(* processes.  External: a model provider, which loads and unloads when it *)
(* is awaited; what else is on the GPU; the operating system's blocks,     *)
(* which live on without their name while they are mapped; Playwright.     *)
(* A text is known by the number of its write and by its length.           *)
(***************************************************************************)
EXTENDS Naturals, SequencesExt, FiniteSetsExt

CONSTANTS
  Tasks,      \* tasks that call the GPU scheduler or the browser runner
  Users,      \* processes that use the block
  Vram,       \* what the GPU has
  MaxBlocks,  \* bound: blocks and browsers
  MaxTexts    \* bound: texts written

Size == [small |-> 1, other |-> 1, large |-> Vram + 1]
Models == DOMAIN Size

VARIABLES
  keys,      \* ModelRegistry._providers, in the order of their registration
  loaded,    \* models with is_loaded
  polite,    \* callers hold acquire's lock around ensure_available and its use
  holder,    \* who holds _vram_lock: {} or one task
  gpu,       \* per task: its ensure_available
  named,     \* the block that has the name; 0 none
  blocks,    \* per block: its places, each with the text it is of, 0 if none
  tracked,   \* per process: PosixShmAllocator._tracked_shms; 0 none
  mapped,    \* per process: KVCacheSharedMemory._shm; 0 none
  writing,   \* per process: the text it is half through; 0 none
  texts,     \* the texts' lengths, in places
  latest,    \* ghost, per block: the text written last, and the length of its longest
  torn,      \* ghost: blocks in which writes overlapped
  cached,    \* ghost: a KVCacheSharedMemory created the block that has the name
  browser,   \* BrowserRunner._browser; 0 none
  live,      \* the browsers that run
  tab,       \* per task: its start, new_page or close
  launches,
  raced      \* ghost: starts overlapped, or closes did

gpuVars == <<keys, loaded, polite, holder, gpu>>
blockVars == <<named, blocks, tracked, mapped, writing, texts, latest, torn, cached>>
browserVars == <<browser, live, tab, launches, raced>>
vars == <<gpuVars, blockVars, browserVars>>

Rest == [at |-> "idle", model |-> "small", next |-> 1, size |-> 0, free |-> 0]
Init ==
  /\ keys = <<"small", "large">> /\ loaded = {} /\ polite \in BOOLEAN /\ holder = {}
  /\ gpu = [t \in Tasks |-> Rest]
  /\ named = 0 /\ blocks = [b \in 1..MaxBlocks |-> << >>] /\ texts = << >> /\ cached = FALSE
  /\ latest = [b \in 1..MaxBlocks |-> [text |-> 0, longest |-> 0]] /\ torn = {}
  /\ tracked = [p \in Users |-> 0] /\ mapped = [p \in Users |-> 0] /\ writing = [p \in Users |-> 0]
  /\ browser = 0 /\ live = {} /\ tab = [t \in Tasks |-> [at |-> "idle", on |-> 0]]
  /\ launches = 0 /\ raced = FALSE

-----------------------------------------------------------------------------
\* ModelRegistry.register, of a model that is new to it.
Register ==
  /\ "other" \notin ToSet(keys) /\ keys' = Append(keys, "other")
  /\ UNCHANGED <<loaded, polite, holder, gpu>>

\* acquire, when it is used, and the start of ensure_available.
Acquire(t, m) ==
  /\ gpu[t].at = "idle" /\ m \in ToSet(keys)
  /\ polite => holder = {}
  /\ holder' = IF polite THEN {t} ELSE {}
  /\ gpu' = [gpu EXCEPT ![t] = [Rest EXCEPT !.at = "sweep", !.model = m, !.size = Len(keys)]]
  /\ UNCHANGED <<keys, loaded, polite>>

\* unload_all_except walks the providers; the walk fails when one was added to
\* them.
Walking(t) == gpu[t].at = "sweep" /\ gpu[t].size = Len(keys) /\ gpu[t].next <= Len(keys)
Keeps(t) == keys[gpu[t].next] = gpu[t].model \/ keys[gpu[t].next] \notin loaded
Pass(t) ==
  /\ Walking(t) /\ Keeps(t) /\ gpu' = [gpu EXCEPT ![t].next = @ + 1]
  /\ UNCHANGED <<keys, loaded, polite, holder>>
Unload(t) ==
  /\ Walking(t) /\ ~Keeps(t) /\ gpu' = [gpu EXCEPT ![t].at = "unloading"]
  /\ UNCHANGED <<keys, loaded, polite, holder>>
Unloaded(t) ==
  /\ gpu[t].at = "unloading" /\ loaded' = loaded \ {keys[gpu[t].next]}
  /\ gpu' = [gpu EXCEPT ![t].at = "sweep", ![t].next = @ + 1]
  /\ UNCHANGED <<keys, polite, holder>>
WalkFails(t) ==
  /\ gpu[t].at = "sweep" /\ gpu[t].size # Len(keys) /\ gpu' = [gpu EXCEPT ![t] = Rest]
  /\ holder' = holder \ {t} /\ UNCHANGED <<keys, loaded, polite>>

\* free_vram_mb: 0 when nothing can tell.
Takes(m) == IF m \in loaded THEN Size[m] ELSE 0
Used == Takes("small") + Takes("other") + Takes("large")
FreeVram == {0, IF Used > Vram THEN 0 ELSE Vram - Used}
Measure(t) ==
  /\ gpu[t].at = "sweep" /\ gpu[t].size = Len(keys) /\ gpu[t].next > Len(keys)
  /\ \E f \in FreeVram : gpu' = [gpu EXCEPT ![t].at = "measured", ![t].free = f]
  /\ UNCHANGED <<keys, loaded, polite, holder>>
Enough(t) == gpu[t].free >= Size[gpu[t].model]
Refuse(t) ==
  /\ gpu[t].at = "measured" /\ ~Enough(t) /\ gpu' = [gpu EXCEPT ![t] = Rest]
  /\ holder' = holder \ {t} /\ UNCHANGED <<keys, loaded, polite>>
LoadModel(t) ==
  /\ gpu[t].at = "measured" /\ Enough(t)
  /\ gpu' = [gpu EXCEPT ![t].at = IF gpu[t].model \in loaded THEN "using" ELSE "loading"]
  /\ UNCHANGED <<keys, loaded, polite, holder>>
Loaded(t) ==
  /\ gpu[t].at = "loading" /\ loaded' = loaded \cup {gpu[t].model}
  /\ gpu' = [gpu EXCEPT ![t].at = "using"] /\ UNCHANGED <<keys, polite, holder>>
\* The caller is done with the model, which stays loaded.
Release(t) ==
  /\ gpu[t].at = "using" /\ gpu' = [gpu EXCEPT ![t] = Rest] /\ holder' = holder \ {t}
  /\ UNCHANGED <<keys, loaded, polite>>

GpuNext ==
  /\ UNCHANGED <<blockVars, browserVars>>
  /\ \/ Register
     \/ \E t \in Tasks :
          \/ \E m \in Models : Acquire(t, m)
          \/ Pass(t) \/ Unload(t) \/ Unloaded(t) \/ WalkFails(t) \/ Measure(t)
          \/ Refuse(t) \/ LoadModel(t) \/ Loaded(t) \/ Release(t)

-----------------------------------------------------------------------------
\* A block is created under the name, or the one that has it is attached to.
Made == {b \in DOMAIN blocks : blocks[b] # << >>}
Block(size) ==
  IF named # 0 THEN UNCHANGED <<named, blocks>>
  ELSE /\ Cardinality(Made) < MaxBlocks /\ named' = Cardinality(Made) + 1
       /\ blocks' = [blocks EXCEPT ![named'] = [i \in 1..size |-> 0]]

\* PosixShmAllocator.allocate; attach leaves no trace.
Allocate(p, size) ==
  /\ Block(size) /\ tracked' = [tracked EXCEPT ![p] = named']
  /\ cached' = (cached /\ named # 0) /\ UNCHANGED <<mapped, writing, texts, latest, torn>>
\* free: a tracked block is unmapped, and the name goes whoever has it.
Free(p) ==
  /\ tracked[p] # 0 \/ named # 0
  /\ named' = 0 /\ tracked' = [tracked EXCEPT ![p] = 0]
  /\ UNCHANGED <<blocks, mapped, writing, texts, latest, torn, cached>>

\* KVCacheSharedMemory: allocate_buffer, close and unlink.
AllocateBuffer(p, size) ==
  /\ writing[p] = 0 /\ Block(size) /\ mapped' = [mapped EXCEPT ![p] = named']
  /\ cached' = (cached \/ named = 0) /\ UNCHANGED <<tracked, writing, texts, latest, torn>>
CloseBuffer(p) ==
  /\ writing[p] = 0 /\ mapped[p] # 0 /\ mapped' = [mapped EXCEPT ![p] = 0]
  /\ UNCHANGED <<named, blocks, tracked, writing, texts, latest, torn, cached>>
Unlink ==
  /\ named # 0 /\ named' = 0
  /\ UNCHANGED <<blocks, tracked, mapped, writing, texts, latest, torn, cached>>

\* write_latent_state puts a text over the first places of the block.  One that
\* is longer than the writer's own size is refused, one longer than the block
\* raises; neither changes anything.
WriteBegins(p, len) ==
  /\ mapped[p] # 0 /\ writing[p] = 0 /\ Len(texts) < MaxTexts /\ len <= Len(blocks[mapped[p]])
  /\ texts' = Append(texts, len) /\ writing' = [writing EXCEPT ![p] = Len(texts')]
  /\ blocks' = [blocks EXCEPT ![mapped[p]][1] = Len(texts')]
  /\ latest' = [latest EXCEPT ![mapped[p]] = [text |-> Len(texts'), longest |-> Max({@.longest, len})]]
  /\ torn' = torn \cup {mapped[q] : q \in {r \in Users : writing[r] > 0 /\ mapped[r] = mapped[p]}}
  /\ UNCHANGED <<named, tracked, mapped, cached>>
WriteEnds(p) ==
  /\ writing[p] > 0 /\ writing' = [writing EXCEPT ![p] = 0]
  /\ blocks' = [blocks EXCEPT ![mapped[p]] =
       [i \in DOMAIN @ |-> IF i \in 2..texts[writing[p]] THEN writing[p] ELSE @[i]]]
  /\ UNCHANGED <<named, tracked, mapped, texts, latest, torn, cached>>

\* read_latent_state: the zeros behind are left out; a text with the rest of a
\* longer one behind it is not JSON, and reads as nothing: 0.
Filled(b) == {i \in DOMAIN blocks[b] : blocks[b][i] # 0}
Read(b) ==
  IF \E x \in DOMAIN texts : Filled(b) = 1..texts[x] /\ \A i \in Filled(b) : blocks[b][i] = x
  THEN blocks[b][1] ELSE 0

BlockNext ==
  /\ UNCHANGED <<gpuVars, browserVars>>
  /\ \/ Unlink
     \/ \E p \in Users :
          \/ \E n \in 1..2 : Allocate(p, n) \/ AllocateBuffer(p, n) \/ WriteBegins(p, n)
          \/ Free(p) \/ CloseBuffer(p) \/ WriteEnds(p)

-----------------------------------------------------------------------------
\* start, alone or for new_page: nothing when there is a browser; else Playwright
\* starts and a browser is launched, each awaited.
TabAt(t, place, b) == tab' = [tab EXCEPT ![t] = [at |-> place, on |-> b]]
InState(place) == {t \in Tasks : tab[t].at = place}
Start(t) ==
  /\ tab[t].at = "idle" /\ browser = 0 /\ launches + Cardinality(InState("launching")) < MaxBlocks
  /\ TabAt(t, "launching", 0) /\ raced' = (raced \/ InState("launching") # {})
  /\ UNCHANGED <<browser, live, launches>>
Launched(t, place) ==
  /\ tab[t].at = "launching" /\ launches' = launches + 1 /\ browser' = launches'
  /\ live' = live \cup {browser'} /\ TabAt(t, place, 0) /\ UNCHANGED raced
LaunchFails(t) ==
  /\ tab[t].at = "launching" /\ TabAt(t, "idle", 0) /\ UNCHANGED <<browser, live, launches, raced>>
\* new_page awaits a context of the browser there is.
NewPage(t) ==
  /\ tab[t].at = "idle" /\ browser # 0 /\ TabAt(t, "page", browser)
  /\ UNCHANGED <<browser, live, launches, raced>>
PageMade(t) ==
  /\ tab[t].at = "page" /\ TabAt(t, "idle", 0) /\ UNCHANGED <<browser, live, launches, raced>>
\* close awaits each page, then the browser there is by then, and forgets the
\* browser however that ended.
ClosePages(t) ==
  /\ tab[t].at = "idle" /\ TabAt(t, "tidying", 0) /\ UNCHANGED <<browser, live, launches, raced>>
CloseBrowser(t) ==
  /\ tab[t].at = "tidying" /\ TabAt(t, IF browser = 0 THEN "idle" ELSE "closing", browser)
  /\ raced' = (raced \/ InState("closing") # {}) /\ UNCHANGED <<browser, live, launches>>
Closed(t) ==
  /\ tab[t].at = "closing" /\ live' = live \ {tab[t].on} /\ browser' = 0
  /\ TabAt(t, "idle", 0) /\ UNCHANGED <<launches, raced>>

BrowserNext ==
  /\ UNCHANGED <<gpuVars, blockVars>>
  /\ \E t \in Tasks :
       \/ Start(t) \/ LaunchFails(t) \/ NewPage(t) \/ PageMade(t)
       \/ ClosePages(t) \/ CloseBrowser(t) \/ Closed(t)
       \/ \E place \in {"idle", "page"} : Launched(t, place)

Next == GpuNext \/ BlockNext \/ BrowserNext
Spec == Init /\ [][Next]_vars

-----------------------------------------------------------------------------
\* Every variable has its type.
TypeOK ==
  /\ ToSet(keys) \subseteq Models /\ loaded \subseteq Models /\ polite \in BOOLEAN
  /\ holder \subseteq Tasks
  /\ \A t \in Tasks :
       /\ gpu[t].at \in {"idle", "sweep", "unloading", "measured", "loading", "using"}
       /\ tab[t].at \in {"idle", "launching", "page", "tidying", "closing"}
  /\ named \in 0..MaxBlocks /\ tracked \in [Users -> 0..MaxBlocks] /\ mapped \in [Users -> 0..MaxBlocks]
  /\ writing \in [Users -> 0..MaxTexts] /\ Len(texts) <= MaxTexts /\ cached \in BOOLEAN
  /\ torn \subseteq 1..MaxBlocks /\ browser \in 0..MaxBlocks /\ live \subseteq 1..MaxBlocks /\ launches \in 0..MaxBlocks /\ raced \in BOOLEAN

\* When the callers hold the lock around it, the GPU never has more than fits
\* and a model stays loaded while its caller uses it.
ModelsFit ==
  polite =>
    /\ Used <= Vram
    /\ \A t \in Tasks : gpu[t].at = "using" => gpu[t].model \in loaded

\* A block under the name is tracked by an allocator that can free it, unless a
\* cache created it.
BlocksCanBeFreed == named # 0 => cached \/ \E p \in Users : tracked[p] # 0

\* In a block where no writes overlapped and none is in progress, a reader gets
\* the latest text unless a longer one was there before, and then nothing.
ReadsAreWhole ==
  \A b \in Made \ torn :
    (\A p \in Users : writing[p] = 0 \/ mapped[p] # b) =>
      Read(b) = IF latest[b].text # 0 /\ texts[latest[b].text] = latest[b].longest
                THEN latest[b].text ELSE 0

\* A runner whose starts and closes do not overlap has one browser at most, and
\* knows it.
BrowserIsKnown == raced \/ live = {browser} \ {0}

=============================================================================

-------------------------------- MODULE Stores --------------------------------
(***************************************************************************)
(* The small stores of what agents know: memories in SQLite that take over *)
(* an older table (memory_bank: BankNext), chunks of text with vectors in  *)
(* either of two databases (cognitive_store: ChunkNext), pages of          *)
(* knowledge in files (knowledge_store: PageNext) and a key-value table    *)
(* (kv_store: KvNext).                                                     *)
(*                                                                         *)
(* External: SQLite, whose transactions are one step each, and PostgreSQL, *)
(* which takes no vector written as cognitive_store writes it.  Clients    *)
(* are processes or threads.  A text is the number of the call that wrote  *)
(* it; an older program wrote Old.                                         *)
(***************************************************************************)
EXTENDS Naturals, SequencesExt, FiniteSetsExt

CONSTANTS
  Names,     \* memory ids, chunk ids
  Clients,   \* connections, or writers of pages
  MaxTexts   \* bound: texts written, and times of rows taken over

Old == MaxTexts + 1
Texts == 0..Old             \* 0 is none
Rows == {"none", "good", "null", "bad"}   \* rows of the older table
Vectors == {"none", "vector", "short"}    \* a short one has the wrong dimension

VARIABLES
  count,      \* ghost: texts written so far
  older,      \* memory_items, per id
  memories,   \* experience_memories, per id: its text, and created_at as a number
  opened,     \* clients with a connection to them
  arrived,    \* ghost, per id: when it came, 0 if it is not there
  meant,      \* ghost, per id: the latest text added since it was deleted
  lite, pg,   \* chunks, per id, in SQLite and in PostgreSQL
  chunk,      \* ghost: the latest chunk that was accepted, per id
  page,       \* the file under the page's name: the number of an inode, or 0
  inodes,     \* what files hold: "" nothing, a document, "mixed" of two
  temp,       \* the file under the temporary name, or 0
  writer,     \* per client: idle, read (with what it read), open, written
  crossed,    \* ghost: two clients were at it at once
  last,       \* ghost: the latest document that was put in place
  pairs,      \* kv_store's rows: value and value_json
  put         \* ghost, per key: what was put last

bankVars == <<older, memories, opened, arrived, meant>>
chunkVars == <<lite, pg, chunk>>
pageVars == <<page, inodes, temp, writer, crossed, last>>
kvVars == <<pairs, put>>
vars == <<count, bankVars, chunkVars, pageVars, kvVars>>

Absent == [text |-> 0, made |-> 0]
NoDoc == [body |-> 0, stale |-> FALSE]
Away == [at |-> "idle", doc |-> NoDoc, file |-> 0]
\* Keys are sequences of letters; "_" is a letter too.
PairKeys == {<<"a", "x">>, <<"_", "x">>, <<"b">>}
Asked == {<< >>, <<"a">>, <<"_">>}
Unset == [value |-> 0, json |-> 0, row |-> FALSE]
OldRow == [value |-> Old, json |-> 0, row |-> TRUE]
Init ==
  /\ count = 0 /\ older \in [Names -> Rows] /\ memories = [n \in Names |-> Absent]
  /\ opened = {} /\ arrived = [n \in Names |-> 0] /\ meant = [n \in Names |-> 0]
  /\ lite = [n \in Names |-> [text |-> 0, vector |-> "none"]] /\ pg = lite /\ chunk = lite
  /\ page = 0 /\ inodes = << >> /\ temp = 0 /\ writer = [c \in Clients |-> Away]
  /\ crossed = FALSE /\ last = NoDoc
  /\ pairs \in [PairKeys -> {Unset, OldRow}] /\ put = [k \in PairKeys |-> pairs[k].value]

New == count < MaxTexts /\ count' = count + 1

-----------------------------------------------------------------------------
\* MemoryBank.__init__: what the older table has is inserted, unless there is a
\* row of that id, or it has a NULL, whenever a bank is opened.
Present == {n \in Names : memories[n].text # 0}
Stamp == 1 + Max({0} \cup {memories[n].made : n \in Names})
Coming == 1 + Max({0} \cup {arrived[n] : n \in Names})
TakenOver == {n \in Names : older[n] \in {"good", "bad"} /\ n \notin Present}
OpenBank(c) ==
  /\ c \notin opened /\ Stamp <= Old /\ opened' = opened \cup {c}
  /\ memories' = [n \in Names |-> IF n \in TakenOver THEN [text |-> Old, made |-> Stamp] ELSE memories[n]]
  /\ arrived' = [n \in Names |-> IF arrived[n] = 0 /\ n \in TakenOver THEN Coming ELSE arrived[n]]
  /\ UNCHANGED <<count, older, meant>>
CloseBank(c) == c \in opened /\ opened' = opened \ {c} /\ UNCHANGED <<count, older, memories, arrived, meant>>

\* add keeps created_at of the row it updates; delete.
AddMemory(c, n) ==
  /\ c \in opened /\ New /\ meant' = [meant EXCEPT ![n] = count']
  /\ memories' = [memories EXCEPT ![n] = [text |-> count', made |-> IF n \in Present THEN @.made ELSE Stamp]]
  /\ arrived' = (IF arrived[n] # 0 THEN arrived ELSE [arrived EXCEPT ![n] = Coming]) /\ UNCHANGED <<older, opened>>
DeleteMemory(c, n) ==
  /\ c \in opened /\ memories' = [memories EXCEPT ![n] = Absent] /\ meant' = [meant EXCEPT ![n] = 0]
  /\ arrived' = [arrived EXCEPT ![n] = 0] /\ UNCHANGED <<count, older, opened>>

\* list_all, and search_experience, which reads the same rows: a row of the older
\* table whose JSON cannot be read fails them all.
Before(n, m) == memories[n].made < memories[m].made
BankNext ==
  /\ UNCHANGED <<chunkVars, pageVars, kvVars>>
  /\ \E c \in Clients :
       \/ OpenBank(c) \/ CloseBank(c)
       \/ \E n \in Names : AddMemory(c, n) \/ DeleteMemory(c, n)

-----------------------------------------------------------------------------
\* upsert of either store refuses a vector of another dimension.  PostgreSQL
\* cannot parse the statement when there is a vector.
Accepts(vector) == vector # "short"
Parses(vector) == vector = "none"
Upsert(n, vector) ==
  /\ New /\ UNCHANGED <<bankVars, pageVars, kvVars>>
  /\ LET new == [text |-> count', vector |-> vector]
     IN /\ lite' = (IF Accepts(vector) THEN [lite EXCEPT ![n] = new] ELSE lite)
        /\ pg' = (IF Accepts(vector) /\ Parses(vector) THEN [pg EXCEPT ![n] = new] ELSE pg)
        /\ chunk' = (IF Accepts(vector) THEN [chunk EXCEPT ![n] = new] ELSE chunk)
DropChunk(n) ==
  /\ lite' = [lite EXCEPT ![n] = [text |-> 0, vector |-> "none"]] /\ pg' = [pg EXCEPT ![n] = lite'[n]]
  /\ chunk' = [chunk EXCEPT ![n] = lite'[n]] /\ UNCHANGED <<count, bankVars, pageVars, kvVars>>

\* search: SQLite's asks for rows with a vector.  The other takes rows without
\* one too, whose distance is no number, and fails.
Found == {n \in Names : lite[n].text # 0 /\ lite[n].vector # "none"}
SearchPgFails == \E n \in Names : pg[n].text # 0 /\ pg[n].vector = "none"
\* delete: SQLite's tells whether there was a row, the other's is always true.
LiteDeleted(n) == lite[n].text # 0
PgDeleted(n) == TRUE
ChunkNext == \E n \in Names : DropChunk(n) \/ \E v \in Vectors : Upsert(n, v)

-----------------------------------------------------------------------------
\* read, by mark_stale and mark_fresh: a page there is none of is not marked.
Busy(c) == \E d \in Clients \ {c} : writer[d].at # "idle"
At(c, place, doc, f) == writer' = [writer EXCEPT ![c] = [at |-> place, doc |-> doc, file |-> f]]
IsDoc(f) == f # 0 /\ inodes[f].kind = "doc"
Mark(c, stale) ==
  /\ writer[c].at = "idle" /\ IsDoc(page) /\ New
  /\ At(c, "read", [inodes[page].doc EXCEPT !.stale = stale], 0)
  /\ crossed' = (crossed \/ Busy(c)) /\ UNCHANGED <<page, inodes, temp, last>>
WritePage(c) ==
  /\ writer[c].at = "idle" /\ New /\ At(c, "read", [body |-> count', stale |-> FALSE], 0)
  /\ crossed' = (crossed \/ Busy(c)) /\ UNCHANGED <<page, inodes, temp, last>>

\* _atomic_write: the temporary file, which is the same for all, is emptied or
\* made, written, and put in the page's place.
OpenTemp(c) ==
  /\ writer[c].at = "read" /\ UNCHANGED <<count, page, crossed, last>>
  /\ LET f == IF temp # 0 THEN temp ELSE Len(inodes) + 1
         empty == [kind |-> "empty", doc |-> NoDoc]
     IN /\ temp' = f /\ At(c, "open", writer[c].doc, f)
        /\ inodes' = IF temp # 0 THEN [inodes EXCEPT ![f] = empty] ELSE Append(inodes, empty)
WriteTemp(c) ==
  /\ writer[c].at = "open" /\ At(c, "written", writer[c].doc, writer[c].file)
  /\ \E kind \in (IF inodes[writer[c].file].kind = "empty" THEN {"doc"} ELSE {"doc", "mixed"}) :
       inodes' = [inodes EXCEPT ![writer[c].file] =
                    [kind |-> kind, doc |-> IF kind = "doc" THEN writer[c].doc ELSE NoDoc]]
  /\ UNCHANGED <<count, page, temp, crossed, last>>
ReplacePage(c) ==
  /\ writer[c].at = "written" /\ At(c, "idle", NoDoc, 0)
  /\ IF temp = 0 THEN UNCHANGED <<page, temp, last>>
     ELSE page' = temp /\ temp' = 0 /\ last' = writer[c].doc
  /\ UNCHANGED <<count, inodes, crossed>>
\* The process dies: what it had open stays.
WriterDies(c) ==
  /\ writer[c].at # "idle" /\ At(c, "idle", NoDoc, 0) /\ UNCHANGED <<count, page, inodes, temp, crossed, last>>
DeletePage ==
  /\ page # 0 /\ page' = 0 /\ last' = NoDoc /\ crossed' = (crossed \/ \E c \in Clients : writer[c].at # "idle")
  /\ UNCHANGED <<count, inodes, temp, writer>>
PageNext ==
  /\ UNCHANGED <<bankVars, chunkVars, kvVars>>
  /\ \/ DeletePage
     \/ \E c \in Clients :
          \/ WritePage(c) \/ OpenTemp(c) \/ WriteTemp(c) \/ ReplacePage(c) \/ WriterDies(c)
          \/ \E stale \in BOOLEAN : Mark(c, stale)

-----------------------------------------------------------------------------
\* SQLiteKVStore.__init__ fills either column from the other; put writes both.
OpenKv ==
  /\ pairs' = [k \in PairKeys |-> [pairs[k] EXCEPT !.value = IF @ # 0 THEN @ ELSE pairs[k].json,
                                                !.json = IF @ # 0 THEN @ ELSE pairs[k].value]]
  /\ UNCHANGED <<count, put>>
Put(k) ==
  /\ New /\ pairs' = [pairs EXCEPT ![k] = [value |-> count', json |-> count', row |-> TRUE]]
  /\ put' = [put EXCEPT ![k] = count']
DeleteKey(k) == pairs' = [pairs EXCEPT ![k] = Unset] /\ put' = [put EXCEPT ![k] = 0] /\ UNCHANGED count
Get(k) == IF pairs[k].json # 0 THEN pairs[k].json ELSE pairs[k].value
\* list_prefix: LIKE takes a "_" in the prefix for any letter.
Like(prefix, k) == Len(prefix) <= Len(k) /\ \A i \in DOMAIN prefix : prefix[i] \in {k[i], "_"}
ListPrefix(prefix) == {k \in PairKeys : pairs[k].row /\ Like(prefix, k)}
KvNext ==
  /\ UNCHANGED <<bankVars, chunkVars, pageVars>>
  /\ OpenKv \/ \E k \in PairKeys : Put(k) \/ DeleteKey(k)

Next == BankNext \/ ChunkNext \/ PageNext \/ KvNext
Spec == Init /\ [][Next]_vars

-----------------------------------------------------------------------------
\* Every variable has its type.
TypeOK ==
  /\ count \in 0..MaxTexts /\ opened \subseteq Clients /\ crossed \in BOOLEAN
  /\ \A n \in Names : memories[n].text \in Texts /\ lite[n].text \in Texts /\ pg[n].vector \in Vectors
  /\ page \in 0..Len(inodes) /\ temp \in 0..Len(inodes)
  /\ \A c \in Clients : writer[c].at \in {"idle", "read", "open", "written"}
  /\ \A k \in PairKeys : pairs[k].value \in Texts /\ pairs[k].json \in Texts

\* A memory is what was added last, by whichever client, and after its deletion
\* nothing but what the older table has; an update does not move it in the list.
MemoriesAreTheLatest ==
  /\ \A n \in Names :
       IF meant[n] # 0 THEN memories[n].text = meant[n]
       ELSE memories[n].text \in {0, IF older[n] \in {"good", "bad"} THEN Old ELSE 0}
  /\ {n \in Names : arrived[n] # 0} = Present
  /\ \A n, m \in Present : Before(n, m) => arrived[n] < arrived[m]

\* SQLite finds the chunks whose latest accepted text has a vector; PostgreSQL
\* holds each of the other chunks, unless a later text of it had a vector, and
\* its search answers only while it holds none.
ChunksAreFound ==
  /\ lite = chunk /\ Found = {n \in Names : chunk[n].vector = "vector"}
  /\ \A n \in Names : pg[n].vector = "none" /\ (chunk[n].vector = "none" => pg[n] = chunk[n])
  /\ ~SearchPgFails => \A n \in Names : chunk[n].text # 0 => chunk[n].vector = "vector"
  /\ \A n \in Names : LiteDeleted(n) => PgDeleted(n)

\* Clients that take turns leave the page whole, as it was last put in place,
\* whenever one of them dies; what a dead one wrote is not mixed in.
PagesAreWhole ==
  ~crossed => IF page = 0 THEN last = NoDoc ELSE IsDoc(page) /\ inodes[page].doc = last

\* A key has what was put last, or what an older program left, and is listed
\* under each of its prefixes; a key is listed under another one only if that
\* has a "_".
KvIsLatest ==
  /\ \A k \in PairKeys : Get(k) = put[k] /\ (pairs[k].row <=> put[k] # 0)
  /\ \A prefix \in Asked :
       LET listed == ListPrefix(prefix)
           own == {k \in PairKeys : put[k] # 0 /\ IsPrefix(prefix, k)}
       IN own \subseteq listed /\ ("_" \in ToSet(prefix) \/ listed = own)

=============================================================================

----------------------------- MODULE EventStore -----------------------------
(***************************************************************************)
(* obase.loop_event_store.AppendOnlyEventStore: a JSONL event log shared   *)
(* by several store objects, in one process or in many.  Every operation   *)
(* opens the path, waits for the flock of the file it opened, works on     *)
(* whatever file the path names by then, and unlocks.  migrate replaces    *)
(* the file, so a lock may outlive the file the path names.                *)
(*                                                                         *)
(* A row's hash covers its prev_hash, seq, id and payload; the row's       *)
(* identity stands for it.  verify and replay read the log in one step.    *)
(* Migrations are from a schema version to itself: rows keep their payload.*)
(*                                                                         *)
(* A definition named X_Slip is X with a slip a programmer could make; the *)
(* properties are checked to notice it.  Nothing else uses it.             *)
(***************************************************************************)
EXTENDS Naturals, Sequences

CONSTANTS
  Stores,         \* store objects, each used by one thread at a time (_lock)
  Ids, NoId,      \* dedupe identifiers, and the append without one
  Free,           \* a lock nobody holds
  MaxRows,        \* bound: append calls per behaviour
  MaxMigrations,  \* bound: migrate calls per behaviour
  MaxCrashes      \* bound: crashes of a store's process

ASSUME NamesAssumption == NoId \notin Ids /\ Free \notin Stores
ASSUME BoundsAssumption ==
  MaxRows \in Nat /\ MaxMigrations \in Nat /\ MaxCrashes \in Nat

VARIABLES
  lines,    \* per file, its lines
  path,     \* the file the path names
  holder,   \* per file, the store that holds its flock
  proc,     \* per store, the operation in progress
  cache,    \* per store, dedupe id -> row number, or NoCache
  acked,    \* history: row numbers whose append returned
  rows, migrations, crashes  \* calls begun, and crashes

vars == <<lines, path, holder, proc, cache, acked, rows, migrations, crashes>>

Files == 1..(MaxMigrations + 1)
Numbers == 1..MaxRows
Row(n, s, p, d) == [st |-> "row", num |-> n, seq |-> s, prev |-> p, did |-> d]
\* Half a line without its newline, and a malformed line with one.
Torn == [st |-> "torn", num |-> 0, seq |-> 0, prev |-> 0, did |-> NoId]
Bad == [st |-> "bad", num |-> 0, seq |-> 0, prev |-> 0, did |-> NoId]
Idle == [pc |-> "idle"]
NoCache == [d \in {} |-> 0]
Log == lines[path]

\* _read_head: the last line, if it parses; genesis otherwise.
Genesis == [num |-> 0, seq |-> 0]
ReadHead(ls) ==
  IF ls = <<>> \/ ls[Len(ls)].st # "row" THEN Genesis
  ELSE [num |-> ls[Len(ls)].num, seq |-> ls[Len(ls)].seq]

\* Writing at the end of the file: after half a line, the two make one bad line.
Written(ls, l) ==
  IF ls # <<>> /\ ls[Len(ls)].st = "torn"
  THEN [ls EXCEPT ![Len(ls)] = IF l = Torn THEN Torn ELSE Bad]
  ELSE Append(ls, l)

\* _find_dedupe: scan the file once per store object, then trust the cache.
Scanned_Nothing(s) == IF cache[s] # NoCache THEN cache[s] ELSE [d \in Ids |-> 0]
Scanned(s) ==
  IF cache[s] # NoCache THEN cache[s]
  ELSE LET at(d) == {i \in DOMAIN Log : Log[i].did = d}
       IN [d \in Ids |-> IF at(d) = {} THEN 0
                         ELSE Log[CHOOSE i \in at(d) : \A j \in at(d) : j <= i].num]

Unlock(s) == holder' = [holder EXCEPT ![proc[s].file] = Free]
Return(s) == Unlock(s) /\ proc' = [proc EXCEPT ![s] = Idle]

-----------------------------------------------------------------------------
Init ==
  /\ lines = [f \in Files |-> <<>>] /\ path = 1
  /\ holder = [f \in Files |-> Free]
  /\ proc = [s \in Stores |-> Idle]
  /\ cache = [s \in Stores |-> NoCache]
  /\ acked = {} /\ rows = 0 /\ migrations = 0 /\ crashes = 0

\* append opens the path and queues for the flock.  The number names its row.
BeginAppend(s, d) ==
  /\ proc[s] = Idle /\ rows < MaxRows
  /\ rows' = rows + 1
  /\ proc' = [proc EXCEPT ![s] = [pc |-> "wait", op |-> "append", did |-> d,
                                  num |-> rows + 1, file |-> path]]
  /\ UNCHANGED <<lines, path, holder, cache, acked, migrations, crashes>>

BeginMigrate(s) ==
  /\ proc[s] = Idle /\ migrations < MaxMigrations
  /\ migrations' = migrations + 1
  /\ proc' = [proc EXCEPT ![s] = [pc |-> "wait", op |-> "migrate", file |-> path]]
  /\ UNCHANGED <<lines, path, holder, cache, acked, rows, crashes>>

Lock(s) ==
  /\ proc[s].pc = "wait" /\ holder[proc[s].file] = Free
  /\ holder' = [holder EXCEPT ![proc[s].file] = s]
  /\ proc' = [proc EXCEPT ![s].pc = "locked"]
  /\ UNCHANGED <<lines, path, cache, acked, rows, migrations, crashes>>

\* append: the dedupe id is known, the row it stands for is returned.
AppendKnown_NoCheck(s) ==
  LET p == proc[s] IN
  /\ p.pc = "locked" /\ p.op = "append" /\ p.did # NoId
  /\ cache' = [cache EXCEPT ![s] = Scanned(s)]
  /\ acked' = acked \cup {Scanned(s)[p.did]}
  /\ Return(s)
  /\ UNCHANGED <<lines, path, rows, migrations, crashes>>
AppendKnown(s) ==
  LET p == proc[s] IN
  /\ p.pc = "locked" /\ p.op = "append" /\ p.did # NoId
  /\ Scanned(s)[p.did] # 0
  /\ cache' = [cache EXCEPT ![s] = Scanned(s)]
  /\ acked' = acked \cup {Scanned(s)[p.did]}
  /\ Return(s)
  /\ UNCHANGED <<lines, path, rows, migrations, crashes>>

\* append: build the row on the head of the file the path names now.
AppendHead(s) ==
  LET p == proc[s]  head == ReadHead(Log) IN
  /\ p.pc = "locked" /\ p.op = "append"
  /\ p.did # NoId => Scanned(s)[p.did] = 0
  /\ cache' = [cache EXCEPT ![s] = IF p.did = NoId THEN @ ELSE Scanned(s)]
  /\ proc' = [proc EXCEPT ![s] = [pc |-> "write", file |-> p.file,
                row |-> Row(p.num, head.seq + 1, head.num, p.did)]]
  /\ UNCHANGED <<lines, path, holder, acked, rows, migrations, crashes>>

AppendWrite_KeepsLock(s) ==
  LET p == proc[s] IN
  /\ p.pc = "write"
  /\ lines' = [lines EXCEPT ![path] = Written(@, p.row)]
  /\ cache' = IF cache[s] # NoCache /\ p.row.did # NoId
              THEN [cache EXCEPT ![s][p.row.did] = p.row.num] ELSE cache
  /\ acked' = acked \cup {p.row.num}
  /\ proc' = [proc EXCEPT ![s] = Idle]
  /\ UNCHANGED <<holder, path, rows, migrations, crashes>>
AppendWrite(s) ==
  LET p == proc[s] IN
  /\ p.pc = "write"
  /\ lines' = [lines EXCEPT ![path] = Written(@, p.row)]
  /\ cache' = IF cache[s] # NoCache /\ p.row.did # NoId
              THEN [cache EXCEPT ![s][p.row.did] = p.row.num] ELSE cache
  /\ acked' = acked \cup {p.row.num}
  /\ Return(s)
  /\ UNCHANGED <<path, rows, migrations, crashes>>

\* migrate: a malformed line raises; otherwise the rows are chained anew.
MigrateRefused(s) ==
  /\ proc[s].pc = "locked" /\ proc[s].op = "migrate"
  /\ \E i \in DOMAIN Log : Log[i].st # "row"
  /\ Return(s)
  /\ UNCHANGED <<lines, path, cache, acked, rows, migrations, crashes>>

Rechained(ls) ==
  [i \in DOMAIN ls |-> [ls[i] EXCEPT !.prev = IF i = 1 THEN 0 ELSE ls[i - 1].num]]

MigrateRead(s) ==
  /\ proc[s].pc = "locked" /\ proc[s].op = "migrate"
  /\ \A i \in DOMAIN Log : Log[i].st = "row"
  /\ proc' = [proc EXCEPT ![s] = [pc |-> "replace", file |-> @.file, rows |-> Rechained(Log)]]
  /\ UNCHANGED <<lines, path, holder, cache, acked, rows, migrations, crashes>>

\* migrate: a new file takes the path; the lock was on the old one.
MigrateReplace(s) ==
  /\ proc[s].pc = "replace"
  /\ path' = path + 1
  /\ lines' = [lines EXCEPT ![path + 1] = proc[s].rows]
  /\ cache' = [cache EXCEPT ![s] = NoCache]
  /\ Return(s)
  /\ UNCHANGED <<acked, rows, migrations, crashes>>

\* The store's process dies (the kernel drops its locks) and starts again.  A
\* write under way reached the file not at all, in part, or whole.
Crash_Swallowed(s) ==
  /\ proc[s] # Idle /\ crashes < MaxCrashes
  /\ acked' = IF proc[s].pc = "write" THEN acked \cup {proc[s].row.num} ELSE acked
  /\ holder' = [f \in Files |-> IF holder[f] = s THEN Free ELSE holder[f]]
  /\ proc' = [proc EXCEPT ![s] = Idle]
  /\ cache' = [cache EXCEPT ![s] = NoCache]
  /\ crashes' = crashes + 1
  /\ UNCHANGED <<lines, path, rows, migrations>>
Crash(s) ==
  /\ proc[s] # Idle /\ crashes < MaxCrashes
  /\ \/ UNCHANGED lines
     \/ /\ proc[s].pc = "write"
        /\ \E l \in {proc[s].row, Torn} : lines' = [lines EXCEPT ![path] = Written(@, l)]
  /\ holder' = [f \in Files |-> IF holder[f] = s THEN Free ELSE holder[f]]
  /\ proc' = [proc EXCEPT ![s] = Idle]
  /\ cache' = [cache EXCEPT ![s] = NoCache]
  /\ crashes' = crashes + 1
  /\ UNCHANGED <<path, acked, rows, migrations>>

Work(s) ==
  \/ AppendKnown(s) \/ AppendHead(s) \/ AppendWrite(s)
  \/ MigrateRefused(s) \/ MigrateRead(s) \/ MigrateReplace(s)

Step(s) ==
  \/ \E d \in Ids \cup {NoId} : BeginAppend(s, d)
  \/ BeginMigrate(s) \/ Lock(s) \/ Work(s) \/ Crash(s)

Next == \E s \in Stores : Step(s)

Spec == Init /\ [][Next]_vars

\* A store that holds its lock works on; the kernel serves every waiter.
Fairness == \A s \in Stores : WF_vars(Work(s)) /\ SF_vars(Lock(s))

-----------------------------------------------------------------------------
\* _verify_rows: no malformed line, seq counts the lines, every row on the one before.
Verify(ls) ==
  \A i \in DOMAIN ls :
    /\ ls[i].st = "row" /\ ls[i].seq = i
    /\ ls[i].prev = IF i = 1 THEN 0 ELSE ls[i - 1].num

Nums(ls) == {ls[i].num : i \in DOMAIN ls}
Distinct(ls) == \A i, j \in DOMAIN ls : ls[i].did # NoId /\ ls[i].did = ls[j].did => i = j

\* Every variable has its type.
Lines == [st: {"row", "torn", "bad"}, num: 0..MaxRows, seq: Nat, prev: 0..MaxRows,
          did: Ids \cup {NoId}]
TypeOK ==
  /\ lines \in [Files -> Seq(Lines)] /\ path \in Files
  /\ holder \in [Files -> Stores \cup {Free}]
  /\ \A s \in Stores : proc[s] = Idle \/ proc[s].file \in Files
  /\ \A s \in Stores : cache[s] = NoCache \/ cache[s] \in [Ids -> 0..MaxRows]
  /\ acked \subseteq Numbers
  /\ rows \in 0..MaxRows /\ migrations \in 0..MaxMigrations /\ crashes \in 0..MaxCrashes

\* At most one store is between locking and unlocking ("writes are exclusive").
OneWriter ==
  \A s, t \in Stores :
    proc[s].pc \in {"locked", "write", "replace"} /\ proc[t].pc \in {"locked", "write", "replace"}
      => s = t

=============================================================================

--------------------------- MODULE Ledgers_proofs ---------------------------
(***************************************************************************)
(* What obase keeps on disk, for any number of processes, rows, documents, *)
(* crashes and migrations: the event log, the document store, the evidence *)
(* ledger and the data loops, each with its inductive invariant, and the   *)
(* composition that is checked.                                            *)
(***************************************************************************)
EXTENDS MCLedgers, FiniteSets, WellFoundedInduction, FiniteSetTheorems, TLAPS

-----------------------------------------------------------------------------
\* A nonempty set of numbers has a least one.
LEMMA LeastNumber ==
  ASSUME NEW T \in SUBSET Nat, T # {}
  PROVE  \E m \in T : \A k \in T : m <= k
<1> DEFINE R == OpToRel(<, Nat)
<1>1. IsWellFoundedOn(R, Nat)
  BY NatLessThanWellFounded
<1>2. PICK m \in T : \A k \in T : <<k, m>> \notin R
  <2> HIDE DEF R
  <2> QED BY <1>1, WFMin
<1>3. \A k \in T : ~(k < m)
  BY <1>2 DEF OpToRel
<1> QED BY <1>3

\* The same of positions, read from the end.
LEMMA LastPosition ==
  ASSUME NEW n \in Nat, NEW S \in SUBSET (1..n), S # {}
  PROVE  \E i \in S : \A j \in S : j <= i
<1> DEFINE T == {n - i : i \in S}
<1>1. T \in SUBSET Nat /\ T # {}
  <2>1. \A i \in S : i \in 1..n /\ n - i \in Nat
    OBVIOUS
  <2> QED BY <2>1
<1>2. \E m \in T : \A k \in T : m <= k
  <2> HIDE DEF T
  <2> QED BY <1>1, LeastNumber
<1>3. PICK i \in S : \A k \in T : n - i <= k
  BY <1>2
<1>4. ASSUME NEW j \in S PROVE j <= i
  <2>1. n - i <= n - j /\ i \in 1..n /\ j \in 1..n
    BY <1>3
  <2> QED BY <2>1
<1> QED BY <1>4

-----------------------------------------------------------------------------
\* The event store.  A row that parses has the number of the append that wrote it.
GoodRows == {l \in Lines : l.st = "row" /\ l.num \in Numbers}
Rowish == GoodRows \cup {Torn, Bad}

\* What a store may be in the middle of.
Calls ==
  {Idle}
    \cup [pc: {"wait", "locked"}, op: {"append"}, did: Ids \cup {NoId}, num: Numbers, file: Files]
    \cup [pc: {"wait", "locked"}, op: {"migrate"}, file: Files]
    \cup [pc: {"write"}, file: Files, row: GoodRows]
    \cup [pc: {"replace"}, file: Files, rows: Seq(GoodRows)]

\* Every migration that was begun replaces the file at most once.
Migrates(p) == p.pc = "replace" \/ (p.pc \in {"wait", "locked"} /\ p.op = "migrate")
Migrating == {s \in Stores : Migrates(proc[s])}

Replacements == IsFiniteSet(Migrating) /\ path + Cardinality(Migrating) <= migrations + 1

StoreInv ==
  /\ lines \in [Files -> Seq(Rowish)] /\ path \in Files
  /\ holder \in [Files -> Stores \cup {Free}]
  /\ proc \in [Stores -> Calls]
  /\ cache \in [Stores -> {NoCache} \cup [Ids -> 0..MaxRows]]
  /\ acked \subseteq Numbers
  /\ rows \in 0..MaxRows /\ migrations \in 0..MaxMigrations /\ crashes \in 0..MaxCrashes
  /\ Replacements

\* A line goes to the end, or spoils the half line that is there.
LEMMA WrittenLine ==
  ASSUME NEW ls \in Seq(Rowish), NEW l \in GoodRows \cup {Torn}
  PROVE  /\ Written(ls, l) \in Seq(Rowish)
         /\ \/ Written(ls, l) = Append(ls, l)
            \/ /\ ls # <<>> /\ ls[Len(ls)].st = "torn"
               /\ Written(ls, l) = [ls EXCEPT ![Len(ls)] = IF l = Torn THEN Torn ELSE Bad]
<1>1. Torn \in Rowish /\ Bad \in Rowish
  BY DEF Rowish
<1>2. Append(ls, l) \in Seq(Rowish)
  BY <1>1 DEF Rowish
<1>3. ASSUME NEW x \in Rowish PROVE [ls EXCEPT ![Len(ls)] = x] \in Seq(Rowish)
  <2>1. ls \in [1..Len(ls) -> Rowish] /\ Len(ls) \in Nat
    OBVIOUS
  <2>2. [ls EXCEPT ![Len(ls)] = x] \in [1..Len(ls) -> Rowish]
    BY <2>1
  <2> QED BY <2>1, <2>2
<1> QED BY <1>1, <1>2, <1>3 DEF Written

\* The identifier's row that the scan of the file finds is one of its rows, and the
\* scan finds nothing only when the file has no such row.
LEMMA ScanFinds ==
  ASSUME StoreInv, NEW s \in Stores
  PROVE  /\ Scanned(s) \in [Ids -> 0..MaxRows]
         /\ cache[s] = NoCache => \A d \in Ids :
              /\ Scanned(s)[d] = 0 => \A i \in DOMAIN Log : Log[i].did # d
              /\ Scanned(s)[d] # 0 => Scanned(s)[d] \in Nums(Log)
<1> USE BoundsAssumption, NamesAssumption
<1>1. Log \in Seq(Rowish)
  BY DEF StoreInv, Log
<1>2. CASE cache[s] # NoCache
  BY <1>2 DEF Scanned, StoreInv
<1>3. CASE cache[s] = NoCache
  <2> DEFINE at(d) == {i \in DOMAIN Log : Log[i].did = d}
             n(d) == Log[CHOOSE i \in at(d) : \A j \in at(d) : j <= i].num
  <2>1. Scanned(s) = [d \in Ids |-> IF at(d) = {} THEN 0 ELSE n(d)]
    BY <1>3 DEF Scanned
  <2>2. ASSUME NEW d \in Ids, at(d) # {} PROVE n(d) \in Nums(Log) /\ n(d) \in Numbers
    <3> DEFINE S == at(d)
    <3>1. S \in SUBSET (1..Len(Log)) /\ S # {} /\ Len(Log) \in Nat /\ DOMAIN Log = 1..Len(Log)
      BY <1>1, <2>2
    <3>2. \E i \in S : \A j \in S : j <= i
      <4> HIDE DEF S
      <4> QED BY <3>1, LastPosition
    <3>3. (CHOOSE i \in S : \A j \in S : j <= i) \in S
      <4> HIDE DEF S
      <4> QED BY <3>2
    <3>4. PICK i \in DOMAIN Log : Log[i].did = d /\ n(d) = Log[i].num
      BY <3>3
    <3>5. Log[i] \in GoodRows
      BY SMTT(60), <1>1, <3>1, <3>4 DEF Rowish, Torn, Bad
    <3> QED BY <3>4, <3>5 DEF Nums, GoodRows
  <2> HIDE DEF n
  <2>3. Scanned(s) \in [Ids -> 0..MaxRows]
    BY <2>1, <2>2 DEF Numbers
  <2>4. ASSUME NEW d \in Ids
        PROVE  /\ Scanned(s)[d] = 0 => \A i \in DOMAIN Log : Log[i].did # d
               /\ Scanned(s)[d] # 0 => Scanned(s)[d] \in Nums(Log)
    BY <2>1, <2>2 DEF Numbers
  <2> QED BY <2>3, <2>4
<1> QED BY <1>2, <1>3

\* A migrated file has the rows of the old one.
LEMMA RechainedRows ==
  ASSUME NEW ls \in Seq(Rowish), \A i \in DOMAIN ls : ls[i].st = "row"
  PROVE  /\ Rechained(ls) \in Seq(GoodRows) /\ DOMAIN Rechained(ls) = DOMAIN ls
         /\ \A i \in DOMAIN ls :
              /\ Rechained(ls)[i].num = ls[i].num /\ Rechained(ls)[i].did = ls[i].did
              /\ Rechained(ls)[i].st = "row"
<1> DEFINE r(i) == [ls[i] EXCEPT !.prev = IF i = 1 THEN 0 ELSE ls[i - 1].num]
<1>1. DOMAIN ls = 1..Len(ls) /\ Len(ls) \in Nat
  OBVIOUS
<1>2. ASSUME NEW i \in 1..Len(ls)
      PROVE  r(i) \in GoodRows /\ r(i).num = ls[i].num /\ r(i).did = ls[i].did /\ r(i).st = "row"
  <2>1. \A j \in 1..Len(ls) : ls[j] \in GoodRows
    BY <1>1 DEF Rowish, Torn, Bad
  <2>2. (IF i = 1 THEN 0 ELSE ls[i - 1].num) \in 0..MaxRows
    <3>1. CASE i = 1
      BY <3>1, BoundsAssumption
    <3>2. CASE i # 1
      <4>1. i - 1 \in 1..Len(ls)
        BY <1>1, <3>2
      <4> QED BY <2>1, <3>2, <4>1 DEF GoodRows, Lines
    <3> QED BY <3>1, <3>2
  <2> QED BY <2>1, <2>2 DEF GoodRows, Lines
<1> HIDE DEF r
<1>3. Rechained(ls) = [i \in 1..Len(ls) |-> r(i)]
  BY <1>1 DEF Rechained, r
<1>4. [i \in 1..Len(ls) |-> r(i)] \in Seq(GoodRows)
  BY <1>1, <1>2
<1> QED BY <1>1, <1>2, <1>3, <1>4

\* A call of one store that begins, goes on or ends.
Weight(p) == IF Migrates(p) THEN 1 ELSE 0
LEMMA CallChanges ==
  ASSUME StoreInv, NEW s \in Stores, NEW p \in Calls, proc' = [proc EXCEPT ![s] = p]
  PROVE  /\ proc' \in [Stores -> Calls]
         /\ \/ path' = path /\ migrations' = migrations /\ Weight(p) = Weight(proc[s])
            \/ path' = path /\ migrations' = migrations /\ p = Idle
            \/ path' = path /\ migrations' = migrations + 1 /\ Weight(proc[s]) = 0
            \/ path' = path + 1 /\ migrations' = migrations /\ p = Idle /\ Weight(proc[s]) = 1
            => Replacements'
         /\ path + Weight(proc[s]) <= migrations + 1
<1>1. /\ IsFiniteSet(Migrating) /\ Cardinality(Migrating) \in Nat /\ proc \in [Stores -> Calls]
      /\ path \in Nat /\ migrations \in Nat /\ path + Cardinality(Migrating) <= migrations + 1
      /\ Weight(p) \in {0, 1} /\ Weight(proc[s]) \in {0, 1}
  BY FS_CardinalityType, BoundsAssumption DEF StoreInv, Replacements, Files, Weight
<1>2. proc' \in [Stores -> Calls]
  BY <1>1
<1>3. Migrating' = IF Migrates(p) THEN Migrating \cup {s} ELSE Migrating \ {s}
  BY <1>1 DEF Migrating
<1>4. s \in Migrating <=> Migrates(proc[s])
  BY DEF Migrating
<1>5. /\ IsFiniteSet(Migrating') /\ Cardinality(Migrating') \in Nat
      /\ Cardinality(Migrating') = Cardinality(Migrating) - Weight(proc[s]) + Weight(p)
  <2>1. CASE Migrates(p)
    BY <1>1, <1>3, <1>4, <2>1, FS_AddElement, FS_CardinalityType DEF Weight
  <2>2. CASE ~Migrates(p)
    BY <1>1, <1>3, <1>4, <2>2, FS_RemoveElement, FS_CardinalityType DEF Weight
  <2> QED BY <2>1, <2>2
<1>6. Cardinality(Migrating) >= Weight(proc[s])
  <2>1. CASE Migrating = {}
    BY <1>1, <1>4, <2>1 DEF Weight
  <2>2. CASE Migrating # {}
    BY <1>1, <2>2, FS_EmptySet
  <2> QED BY <2>1, <2>2
<1>7. p = Idle => Weight(p) = 0
  BY DEF Weight, Migrates, Idle
<1> QED BY <1>1, <1>2, <1>5, <1>6, <1>7 DEF Replacements

\* At the start the files are empty and no call is in progress.
LEMMA StoreStarts == Init => StoreInv
<1> SUFFICES ASSUME Init PROVE StoreInv
  OBVIOUS
<1>1. Migrating = {}
  BY DEF Init, Migrating, Migrates, Idle
<1> QED
  BY <1>1, FS_EmptySet, BoundsAssumption DEF Init, StoreInv, Replacements, Calls, Files

\* What append and migrate do keeps the types, and a migration that replaces the
\* file is one of those that were begun.
LEMMA StoreStep ==
  ASSUME StoreInv, [Next]_vars
  PROVE  StoreInv'
<1> USE BoundsAssumption, NamesAssumption
<1>0. /\ Log \in Seq(Rowish) /\ Idle \in Calls /\ Weight(Idle) = 0
      /\ \A s \in Stores : proc[s] \in Calls /\ Weight(proc[s]) \in {0, 1}
      /\ path \in Nat /\ migrations \in Nat
  BY DEF StoreInv, Log, Calls, Weight, Migrates, Idle, Files
<1>1. ASSUME NEW s \in Stores, NEW d \in Ids \cup {NoId}, BeginAppend(s, d) PROVE StoreInv'
  <2> DEFINE p == [pc |-> "wait", op |-> "append", did |-> d, num |-> rows + 1, file |-> path]
  <2>1. p \in Calls /\ Weight(p) = 0 /\ Weight(proc[s]) = 0
    BY <1>0, <1>1 DEF BeginAppend, StoreInv, Calls, Weight, Migrates, Idle, Numbers
  <2>2. proc' = [proc EXCEPT ![s] = p]
    BY <1>1 DEF BeginAppend
  <2> HIDE DEF p
  <2>3. proc' \in [Stores -> Calls] /\ Replacements'
    BY <1>1, <2>1, <2>2, CallChanges DEF BeginAppend
  <2> QED
    BY <1>1, <2>1, <2>3 DEF BeginAppend, StoreInv
<1>2. ASSUME NEW s \in Stores, BeginMigrate(s) PROVE StoreInv'
  <2> DEFINE p == [pc |-> "wait", op |-> "migrate", file |-> path]
  <2>1. p \in Calls /\ Weight(p) = 1 /\ Weight(proc[s]) = 0
    BY <1>0, <1>2 DEF BeginMigrate, StoreInv, Calls, Weight, Migrates, Idle
  <2>2. proc' = [proc EXCEPT ![s] = p]
    BY <1>2 DEF BeginMigrate
  <2> HIDE DEF p
  <2>3. proc' \in [Stores -> Calls] /\ Replacements'
    BY <1>2, <2>1, <2>2, CallChanges DEF BeginMigrate
  <2> QED
    BY <1>2, <2>1, <2>3 DEF BeginMigrate, StoreInv
<1>3. ASSUME NEW s \in Stores, Lock(s) PROVE StoreInv'
  <2> DEFINE p == [proc[s] EXCEPT !.pc = "locked"]
  <2>1. p \in Calls /\ Weight(p) = Weight(proc[s]) /\ proc[s].file \in Files
    BY <1>0, <1>3 DEF Lock, Calls, Weight, Migrates, Idle
  <2>2. proc' = [proc EXCEPT ![s] = p]
    BY <1>3 DEF Lock
  <2> HIDE DEF p
  <2>3. proc' \in [Stores -> Calls] /\ Replacements'
    BY <1>3, <2>1, <2>2, CallChanges DEF Lock
  <2> QED
    BY <1>3, <2>1, <2>3 DEF Lock, StoreInv
\* A call that returns: whatever it did to the rest, its own part is typed.
<1>4. ASSUME NEW s \in Stores, Return(s) \/ proc' = [proc EXCEPT ![s] = Idle]
      PROVE  /\ proc' \in [Stores -> Calls]
             /\ path' = path /\ migrations' = migrations => Replacements'
             /\ Weight(proc[s]) = 1 =>
                  /\ path <= migrations
                  /\ path' = path + 1 /\ migrations' = migrations => Replacements'
             /\ Return(s) => holder' \in [Files -> Stores \cup {Free}]
  <2>1. proc' = [proc EXCEPT ![s] = Idle]
    BY <1>4 DEF Return
  <2>2. /\ proc' \in [Stores -> Calls]
        /\ path' = path /\ migrations' = migrations => Replacements'
        /\ path' = path + 1 /\ migrations' = migrations /\ Weight(proc[s]) = 1 => Replacements'
    BY <1>0, <2>1, CallChanges
  <2>3. path + Weight(proc[s]) <= migrations + 1
    BY <1>0, <2>1, CallChanges
  <2>4. Return(s) => holder' \in [Files -> Stores \cup {Free}]
    BY DEF Return, Unlock, StoreInv
  <2> QED
    BY <1>0, <2>2, <2>3, <2>4
<1>5. ASSUME NEW s \in Stores, AppendKnown(s) PROVE StoreInv'
  <2>1. proc[s].did \in Ids /\ Weight(proc[s]) = 0
    BY <1>0, <1>5 DEF AppendKnown, Calls, Idle, Weight, Migrates
  <2>2. Scanned(s) \in [Ids -> 0..MaxRows]
    BY ScanFinds
  <2>3. Scanned(s)[proc[s].did] \in Numbers
    BY <1>5, <2>1, <2>2 DEF AppendKnown, Numbers
  <2>4. /\ cache' = [cache EXCEPT ![s] = Scanned(s)]
        /\ acked' = acked \cup {Scanned(s)[proc[s].did]}
        /\ Return(s) /\ UNCHANGED <<lines, path, rows, migrations, crashes>>
    BY <1>5 DEF AppendKnown
  <2> QED
    BY <1>0, <1>4, <2>1, <2>2, <2>3, <2>4 DEF StoreInv
<1>6. ASSUME NEW s \in Stores, AppendHead(s) PROVE StoreInv'
  <2> DEFINE head == ReadHead(Log)
             r == Row(proc[s].num, head.seq + 1, head.num, proc[s].did)
             p == [pc |-> "write", file |-> proc[s].file, row |-> r]
  <2>1. /\ proc[s].file \in Files /\ proc[s].num \in Numbers /\ Weight(proc[s]) = 0
        /\ proc[s].did \in Ids \cup {NoId}
    BY <1>0, <1>6 DEF AppendHead, Calls, Idle, Weight, Migrates
  <2>2. head.num \in 0..MaxRows /\ head.seq \in Nat
    <3>1. CASE Log = <<>> \/ Log[Len(Log)].st # "row"
      BY <3>1 DEF ReadHead, Genesis
    <3>2. CASE Log # <<>> /\ Log[Len(Log)].st = "row"
      <4>1. Log[Len(Log)] \in Rowish
        BY <1>0, <3>2
      <4> QED BY <3>2, <4>1 DEF ReadHead, Rowish, GoodRows, Lines, Torn, Bad
    <3> QED BY <3>1, <3>2
  <2> HIDE DEF head
  <2>3. r \in GoodRows
    BY <2>1, <2>2 DEF Row, GoodRows, Lines, Numbers
  <2> HIDE DEF r
  <2>4. p \in Calls /\ Weight(p) = 0
    BY <2>1, <2>3 DEF Calls, Weight, Migrates
  <2>5. proc' = [proc EXCEPT ![s] = p]
    BY <1>6 DEF AppendHead, head, r
  <2> HIDE DEF p
  <2>6. Scanned(s) \in [Ids -> 0..MaxRows]
    BY ScanFinds
  <2>7. cache' \in [Stores -> {NoCache} \cup [Ids -> 0..MaxRows]]
    BY <1>6, <2>6 DEF AppendHead, StoreInv
  <2>8. proc' \in [Stores -> Calls] /\ Replacements'
    BY <1>6, <2>1, <2>4, <2>5, CallChanges DEF AppendHead
  <2> QED
    BY <1>6, <2>7, <2>8 DEF AppendHead, StoreInv
\* The line that is written, by an append that ends or dies.
<1>7. ASSUME NEW s \in Stores, proc[s].pc = "write"
      PROVE  /\ proc[s].row \in GoodRows /\ Weight(proc[s]) = 0
             /\ \A l \in {proc[s].row, Torn} :
                  lines' = [lines EXCEPT ![path] = Written(@, l)] => lines' \in [Files -> Seq(Rowish)]
  <2>1. proc[s].row \in GoodRows /\ Weight(proc[s]) = 0
    BY <1>0, <1>7 DEF Calls, Idle, Weight, Migrates
  <2>2. ASSUME NEW l \in {proc[s].row, Torn} PROVE Written(Log, l) \in Seq(Rowish)
    BY <1>0, <2>1, WrittenLine
  <2> QED
    BY <2>1, <2>2 DEF StoreInv, Log
<1>8. ASSUME NEW s \in Stores, AppendWrite(s) PROVE StoreInv'
  <2>1. /\ proc[s].row \in GoodRows /\ Weight(proc[s]) = 0
        /\ lines' \in [Files -> Seq(Rowish)] /\ Return(s)
        /\ UNCHANGED <<path, rows, migrations, crashes>>
    BY <1>7, <1>8 DEF AppendWrite
  <2>2. acked' \subseteq Numbers
    BY <1>8, <2>1 DEF AppendWrite, StoreInv, GoodRows
  <2>3. cache' \in [Stores -> {NoCache} \cup [Ids -> 0..MaxRows]]
    <3>1. proc[s].row.num \in 0..MaxRows
      BY <2>1 DEF GoodRows, Numbers
    <3> QED BY <1>8, <3>1 DEF AppendWrite, StoreInv
  <2> QED
    BY <1>0, <1>4, <2>1, <2>2, <2>3 DEF StoreInv
<1>9. ASSUME NEW s \in Stores, MigrateRefused(s) PROVE StoreInv'
  BY <1>0, <1>4, <1>9 DEF MigrateRefused, StoreInv
<1>10. ASSUME NEW s \in Stores, MigrateRead(s) PROVE StoreInv'
  <2> DEFINE p == [pc |-> "replace", file |-> proc[s].file, rows |-> Rechained(Log)]
  <2>1. Rechained(Log) \in Seq(GoodRows)
    BY <1>0, <1>10, RechainedRows DEF MigrateRead
  <2>2. p \in Calls /\ Weight(p) = 1 /\ Weight(proc[s]) = 1
    BY <1>0, <1>10, <2>1 DEF MigrateRead, Calls, Weight, Migrates, Idle
  <2>3. proc' = [proc EXCEPT ![s] = p]
    BY <1>10 DEF MigrateRead
  <2> HIDE DEF p
  <2>4. proc' \in [Stores -> Calls] /\ Replacements'
    BY <1>10, <2>2, <2>3, CallChanges DEF MigrateRead
  <2> QED
    BY <1>10, <2>4 DEF MigrateRead, StoreInv
<1>11. ASSUME NEW s \in Stores, MigrateReplace(s) PROVE StoreInv'
  <2>1. Weight(proc[s]) = 1 /\ proc[s].rows \in Seq(GoodRows)
    BY <1>0, <1>11 DEF MigrateReplace, Calls, Weight, Migrates, Idle
  <2>2. proc[s].rows \in Seq(Rowish)
    BY <2>1 DEF Rowish
  <2>3. Return(s) /\ path' = path + 1 /\ lines' = [lines EXCEPT ![path + 1] = proc[s].rows]
    BY <1>11 DEF MigrateReplace
  <2>4. path' \in Files
    <3>1. path <= migrations /\ migrations \in 0..MaxMigrations /\ path \in 1..(MaxMigrations + 1)
      BY <1>4, <2>1, <2>3 DEF StoreInv, Files
    <3> QED BY <2>3, <3>1 DEF Files
  <2>5. /\ proc' \in [Stores -> Calls] /\ Replacements'
        /\ holder' \in [Files -> Stores \cup {Free}]
        /\ cache' = [cache EXCEPT ![s] = NoCache] /\ UNCHANGED <<acked, rows, migrations, crashes>>
    BY <1>4, <1>11, <2>1, <2>3 DEF MigrateReplace
  <2>6. lines' \in [Files -> Seq(Rowish)]
    BY <2>2, <2>3 DEF StoreInv
  <2> QED
    BY <2>4, <2>5, <2>6 DEF StoreInv
<1>12. ASSUME NEW s \in Stores, Crash(s) PROVE StoreInv'
  <2>1. proc' = [proc EXCEPT ![s] = Idle]
    BY <1>12 DEF Crash
  <2>2. lines' \in [Files -> Seq(Rowish)]
    BY <1>7, <1>12 DEF Crash, StoreInv
  <2>3. holder' \in [Files -> Stores \cup {Free}]
    BY <1>12 DEF Crash, StoreInv
  <2>4. proc' \in [Stores -> Calls] /\ Replacements'
    BY <1>4, <1>12, <2>1 DEF Crash
  <2>5. crashes' \in 0..MaxCrashes /\ cache' \in [Stores -> {NoCache} \cup [Ids -> 0..MaxRows]]
    BY <1>12 DEF Crash, StoreInv
  <2> QED
    BY <1>12, <2>2, <2>3, <2>4, <2>5 DEF Crash, StoreInv
<1>13. CASE UNCHANGED vars
  BY <1>13 DEF vars, StoreInv, Replacements, Migrating
<1> QED
  BY <1>1, <1>2, <1>3, <1>5, <1>6, <1>8, <1>9, <1>10, <1>11, <1>12, <1>13 DEF Next, Step, Work

\* A half line that was written on stays, so nobody misses what it swallowed.
Lost == \E i \in DOMAIN Log : Log[i].st = "bad"

\* What a write under way makes of the log.
LEMMA LogWritten ==
  ASSUME StoreInv, NEW s \in Stores, proc[s].pc = "write", NEW l \in {proc[s].row, Torn},
         path' = path, lines' = [lines EXCEPT ![path] = Written(@, l)]
  PROVE  /\ proc[s].row \in GoodRows
         /\ \/ Log' = Append(Log, l)
            \/ Log' = Log /\ l = Torn
            \/ /\ Lost' /\ DOMAIN Log' = DOMAIN Log
               /\ \A i \in DOMAIN Log : Log'[i] \in {Log[i], Bad}
<1>1. Log \in Seq(Rowish) /\ Log' = Written(Log, l)
  BY DEF StoreInv, Log
<1>2. proc[s].row \in GoodRows
  BY SMTT(60) DEF StoreInv, Calls, Idle
<1>3. CASE Log # <<>> /\ Log[Len(Log)].st = "torn" /\ l = Torn
  <2>1. Len(Log) \in 1..Len(Log) /\ Log[Len(Log)] = Torn
    BY <1>1, <1>3 DEF Rowish, GoodRows, Bad
  <2>2. [Log EXCEPT ![Len(Log)] = Torn] = Log
    BY <1>1, <2>1
  <2> QED BY <1>1, <1>2, <1>3, <2>2 DEF Written
<1>4. CASE Log # <<>> /\ Log[Len(Log)].st = "torn" /\ l # Torn
  <2>1. Log' = [Log EXCEPT ![Len(Log)] = Bad] /\ Len(Log) \in DOMAIN Log
    BY <1>1, <1>4 DEF Written
  <2> QED BY <1>1, <1>2, <2>1 DEF Lost, Bad
<1>5. CASE ~(Log # <<>> /\ Log[Len(Log)].st = "torn")
  BY <1>1, <1>2, <1>5 DEF Written
<1> QED BY <1>3, <1>4, <1>5

\* One store has the file to itself.  No identifier is in it twice, what the store
\* remembers of the file is true, and an acknowledged row is there unless a bad line
\* tells of its loss.
Remembered(c) ==
  /\ \A d \in Ids : c[d] = 0 => \A i \in DOMAIN Log : Log[i].did # d
  /\ Lost \/ \A d \in Ids : c[d] # 0 => c[d] \in Nums(Log)
OneInv ==
  /\ \A s \in Stores \ {Lone} : proc[s] = Idle
  /\ Distinct(Log)
  /\ Lost \/ acked \subseteq Nums(Log)
  /\ cache[Lone] # NoCache => Remembered(cache[Lone])
  /\ proc[Lone].pc = "write" /\ proc[Lone].row.did # NoId =>
       \A i \in DOMAIN Log : Log[i].did # proc[Lone].row.did
  /\ proc[Lone].pc = "replace" =>
       proc[Lone].rows = Rechained(Log) /\ \A i \in DOMAIN Log : Log[i].st = "row"

\* Two stores share the file and it was never replaced: the flock keeps their
\* writes apart, and a row in the making fits the end of the log.
TwoInv ==
  migrations = 0 =>
    /\ path = 1 /\ Verify(Log)
    /\ \A s \in Stores :
         proc[s] # Idle =>
           /\ proc[s].file = 1 /\ ~Migrates(proc[s])
           /\ proc[s].pc \in {"locked", "write"} => holder[1] = s
           /\ proc[s].pc = "write" =>
                /\ proc[s].row.seq = Len(Log) + 1
                /\ proc[s].row.prev = IF Log = <<>> THEN 0 ELSE Log[Len(Log)].num

\* Another line at the end of a log.
LEMMA AppendedLine ==
  ASSUME NEW ls \in Seq(Rowish), NEW l \in Rowish
  PROVE  /\ DOMAIN Append(ls, l) = DOMAIN ls \cup {Len(ls) + 1}
         /\ Append(ls, l)[Len(ls) + 1] = l
         /\ \A i \in DOMAIN ls : Append(ls, l)[i] = ls[i]
         /\ Nums(Append(ls, l)) = Nums(ls) \cup {l.num}
         /\ Distinct(ls) /\ (l.did # NoId => \A i \in DOMAIN ls : ls[i].did # l.did)
              => Distinct(Append(ls, l))
<1> DEFINE t == Append(ls, l)
<1>1. /\ DOMAIN ls = 1..Len(ls) /\ Len(ls) \in Nat /\ DOMAIN t = 1..(Len(ls) + 1)
      /\ t[Len(ls) + 1] = l /\ \A i \in 1..Len(ls) : t[i] = ls[i]
  OBVIOUS
<1> HIDE DEF t
<1>2. DOMAIN t = DOMAIN ls \cup {Len(ls) + 1}
  BY <1>1
<1>3. Nums(t) = Nums(ls) \cup {l.num}
  BY <1>1, <1>2 DEF Nums
<1>4. ASSUME Distinct(ls), l.did # NoId => \A i \in DOMAIN ls : ls[i].did # l.did
      PROVE  Distinct(t)
  BY <1>1, <1>2, <1>4 DEF Distinct
<1> QED BY <1>1, <1>2, <1>3, <1>4 DEF t

\* What the store remembers after a look at the file is true.
LEMMA ScanRemembered ==
  ASSUME StoreInv, OneInv
  PROVE  Scanned(Lone) \in [Ids -> 0..MaxRows] /\ Remembered(Scanned(Lone))
<1>1. CASE cache[Lone] # NoCache
  BY <1>1, LoneAssumption, ScanFinds DEF OneInv, Scanned
<1>2. CASE cache[Lone] = NoCache
  BY <1>2, LoneAssumption, ScanFinds DEF Remembered
<1> QED BY <1>1, <1>2

\* The lone store's steps, crashes in the middle of a write and retries included.
LEMMA OneStep ==
  ASSUME StoreInv, OneInv, Step(Lone)
  PROVE  OneInv'
<1> USE LoneAssumption, NamesAssumption
<1>0. /\ Log \in Seq(Rowish) /\ proc \in [Stores -> Calls]
      /\ cache \in [Stores -> {NoCache} \cup [Ids -> 0..MaxRows]]
  BY DEF StoreInv, Log
\* A step that leaves the file alone, and the store outside a write.
<1>1. ASSUME UNCHANGED <<lines, path>>, NEW p, proc' = [proc EXCEPT ![Lone] = p],
             p.pc \notin {"write", "replace"},
             Lost \/ acked' \subseteq Nums(Log),
             cache'[Lone] = NoCache \/ Remembered(cache'[Lone])
      PROVE  OneInv'
  <2>1. Log' = Log
    BY <1>1 DEF Log
  <2>2. proc'[Lone] = p /\ \A s \in Stores \ {Lone} : proc'[s] = Idle
    BY <1>0, <1>1 DEF OneInv
  <2> QED
    BY <1>1, <2>1, <2>2 DEF OneInv, Remembered, Lost
<1>2. ASSUME NEW d \in Ids \cup {NoId}, BeginAppend(Lone, d) PROVE OneInv'
  BY <1>1, <1>2 DEF BeginAppend, OneInv
<1>3. CASE BeginMigrate(Lone)
  BY <1>1, <1>3 DEF BeginMigrate, OneInv
<1>4. CASE Lock(Lone)
  <2>1. proc' = [proc EXCEPT ![Lone] = [proc[Lone] EXCEPT !.pc = "locked"]]
    BY <1>4 DEF Lock
  <2>2. [proc[Lone] EXCEPT !.pc = "locked"].pc = "locked"
    BY <1>0, <1>4 DEF Lock, Calls, Idle
  <2> QED BY <1>1, <1>4, <2>1, <2>2 DEF Lock, OneInv
<1>5. CASE AppendKnown(Lone)
  <2>1. proc[Lone].did \in Ids
    BY <1>0, <1>5 DEF AppendKnown, Calls, Idle
  <2>2. Remembered(Scanned(Lone))
    BY ScanRemembered
  <2>3. Lost \/ acked' \subseteq Nums(Log)
    BY <1>5, <2>1, <2>2 DEF AppendKnown, OneInv, Remembered
  <2>4. cache'[Lone] = Scanned(Lone) /\ proc' = [proc EXCEPT ![Lone] = Idle]
    BY <1>0, <1>5 DEF AppendKnown, Return
  <2> QED
    BY <1>1, <1>5, <2>2, <2>3, <2>4 DEF AppendKnown, Idle
<1>6. CASE AppendHead(Lone)
  <2>1. Log' = Log /\ acked' = acked /\ \A s \in Stores \ {Lone} : proc'[s] = Idle
    BY <1>6 DEF AppendHead, Log, OneInv
  <2>2. cache'[Lone] = NoCache \/ Remembered(cache'[Lone])
    BY <1>0, <1>6, ScanRemembered DEF AppendHead, OneInv
  <2>3. proc'[Lone].pc = "write" /\ proc'[Lone].row.did = proc[Lone].did
    BY <1>0, <1>6 DEF AppendHead, Row
  <2>4. proc[Lone].did # NoId => \A i \in DOMAIN Log : Log[i].did # proc[Lone].did
    <3>1. proc[Lone].did \in Ids \cup {NoId}
      BY <1>0, <1>6 DEF AppendHead, Calls, Idle
    <3> QED BY <1>6, <3>1, ScanRemembered DEF AppendHead, Remembered
  <2> QED
    BY <2>1, <2>2, <2>3, <2>4 DEF OneInv, Remembered, Lost
\* A write that is done, or cut off by a crash that makes the store forget.
<1>7. ASSUME proc[Lone].pc = "write", NEW l \in {proc[Lone].row, Torn}, path' = path,
             lines' = [lines EXCEPT ![path] = Written(@, l)], proc' = [proc EXCEPT ![Lone] = Idle],
             acked' = acked \/ (acked' = acked \cup {proc[Lone].row.num} /\ l = proc[Lone].row),
             \/ cache'[Lone] = NoCache
             \/ cache'[Lone] = cache[Lone] /\ proc[Lone].row.did = NoId /\ l = proc[Lone].row
             \/ /\ cache[Lone] # NoCache /\ l = proc[Lone].row /\ l.did # NoId
                /\ cache'[Lone] = [cache[Lone] EXCEPT ![l.did] = l.num]
      PROVE  OneInv'
  <2> DEFINE row == proc[Lone].row
  <2>1. /\ row \in GoodRows /\ row.st = "row" /\ row.num \in Numbers /\ row.did \in Ids \cup {NoId}
        /\ l \in Rowish /\ (l.did = NoId \/ l = row) /\ l.did \in Ids \cup {NoId}
    <3>1. row \in GoodRows
      BY <1>7, LogWritten
    <3> QED BY <1>7, <3>1 DEF GoodRows, Lines, Rowish, Torn
  <2>2. l.did # NoId => \A i \in DOMAIN Log : Log[i].did # l.did
    BY <1>7, <2>1 DEF OneInv
  <2>3. /\ \A s \in Stores \ {Lone} : proc'[s] = Idle
        /\ proc'[Lone] = Idle /\ Idle.pc = "idle"
    BY <1>0, <1>7 DEF OneInv, Idle
  <2>4. CASE Log' = Append(Log, l)
    <3>1. /\ DOMAIN Log' = DOMAIN Log \cup {Len(Log) + 1} /\ Log'[Len(Log) + 1] = l
          /\ \A i \in DOMAIN Log : Log'[i] = Log[i]
          /\ Nums(Log') = Nums(Log) \cup {l.num} /\ Distinct(Log')
      BY <1>0, <2>1, <2>2, <2>4, AppendedLine DEF OneInv
    <3>2. Lost => Lost'
      BY <3>1 DEF Lost
    <3>3. (Lost \/ acked' \subseteq Nums(Log'))
      BY <1>7, <3>1 DEF OneInv
    <3>4. ASSUME cache'[Lone] # NoCache
          PROVE  /\ \A d \in Ids : cache'[Lone][d] = 0 => \A i \in DOMAIN Log' : Log'[i].did # d
                 /\ Lost \/ \A d \in Ids : cache'[Lone][d] # 0 => cache'[Lone][d] \in Nums(Log')
      <4>1. cache[Lone] # NoCache /\ cache[Lone] \in [Ids -> 0..MaxRows] /\ l = row
        BY <1>0, <1>7, <3>4
      <4>2. \A d \in Ids : \/ d # l.did /\ cache'[Lone][d] = cache[Lone][d]
                           \/ d = l.did /\ cache'[Lone][d] = l.num /\ l.num # 0
        <5>1. l.num # 0
          BY <2>1, <4>1 DEF Numbers
        <5>2. CASE cache'[Lone] = cache[Lone] /\ row.did = NoId
          BY <4>1, <5>2
        <5>3. CASE cache'[Lone] = [cache[Lone] EXCEPT ![l.did] = l.num]
          BY <4>1, <5>1, <5>3
        <5> QED BY <1>7, <3>4, <5>2, <5>3
      <4> QED BY <3>1, <4>1, <4>2 DEF OneInv, Remembered
    <3> QED
      BY <2>3, <3>1, <3>2, <3>3, <3>4 DEF OneInv, Remembered
  <2>5. CASE Log' = Log /\ l = Torn
    <3>1. l # row
      BY <2>1, <2>5 DEF Torn
    <3> QED BY <1>7, <2>3, <2>5, <3>1 DEF OneInv, Remembered, Lost
  <2>6. CASE Lost' /\ DOMAIN Log' = DOMAIN Log /\ \A i \in DOMAIN Log : Log'[i] \in {Log[i], Bad}
    <3>1. \A i \in DOMAIN Log' : Log'[i].did \in {Log[i].did, NoId}
      BY <2>6 DEF Bad
    <3>2. Distinct(Log')
      BY <2>6, <3>1 DEF OneInv, Distinct
    <3>3. ASSUME cache'[Lone] # NoCache, NEW d \in Ids, cache'[Lone][d] = 0
          PROVE  \A i \in DOMAIN Log' : Log'[i].did # d
      <4>1. cache[Lone] # NoCache /\ cache[Lone] \in [Ids -> 0..MaxRows] /\ l = row
        BY <1>0, <1>7, <3>3
      <4>2. cache[Lone][d] = 0
        BY <1>7, <2>1, <3>3, <4>1 DEF Numbers
      <4> QED BY <2>6, <3>1, <4>1, <4>2 DEF OneInv, Remembered
    <3> QED BY <2>3, <2>6, <3>2, <3>3 DEF OneInv, Remembered
  <2> QED
    BY <1>7, <2>4, <2>5, <2>6, LogWritten
<1>8. CASE AppendWrite(Lone)
  <2>1. cache'[Lone] = IF cache[Lone] # NoCache /\ proc[Lone].row.did # NoId
                       THEN [cache[Lone] EXCEPT ![proc[Lone].row.did] = proc[Lone].row.num] ELSE cache[Lone]
    BY <1>0, <1>8 DEF AppendWrite
  <2> QED
    BY <1>7, <1>8, <2>1 DEF AppendWrite, Return
<1>9. CASE MigrateRefused(Lone)
  BY <1>1, <1>9 DEF MigrateRefused, Return, Idle, OneInv
<1>10. CASE MigrateRead(Lone)
  <2>1. Log' = Log /\ UNCHANGED <<acked, cache>> /\ \A s \in Stores \ {Lone} : proc'[s] = Idle
    BY <1>10 DEF MigrateRead, Log, OneInv
  <2>2. /\ proc'[Lone].pc = "replace" /\ proc'[Lone].rows = Rechained(Log)
        /\ \A i \in DOMAIN Log : Log[i].st = "row"
    BY <1>0, <1>10 DEF MigrateRead
  <2> QED
    BY <2>1, <2>2 DEF OneInv, Remembered, Lost
<1>11. CASE MigrateReplace(Lone)
  <2>1. proc[Lone].rows = Rechained(Log) /\ \A i \in DOMAIN Log : Log[i].st = "row"
    BY <1>11 DEF MigrateReplace, OneInv
  <2>2. path' = path + 1 /\ lines' = [lines EXCEPT ![path'] = Rechained(Log)]
    BY <1>11, <2>1 DEF MigrateReplace
  <2>3. path' \in Files /\ lines \in [Files -> Seq(Rowish)]
    <3>1. Next
      BY DEF Next
    <3> QED BY <3>1, StoreStep DEF StoreInv
  <2>4. Log' = Rechained(Log)
    BY <2>2, <2>3 DEF Log
  <2>5. /\ DOMAIN Log' = DOMAIN Log
        /\ \A i \in DOMAIN Log : Log'[i].num = Log[i].num /\ Log'[i].did = Log[i].did
    BY <1>0, <2>1, <2>4, RechainedRows
  <2>6. ~Lost /\ Nums(Log') = Nums(Log) /\ Distinct(Log')
    BY <2>1, <2>5 DEF Lost, Nums, Distinct, OneInv
  <2>7. /\ cache'[Lone] = NoCache /\ acked' = acked /\ proc'[Lone] = Idle
        /\ \A s \in Stores \ {Lone} : proc'[s] = Idle
    BY <1>0, <1>11 DEF MigrateReplace, Return, OneInv
  <2> QED
    BY <2>6, <2>7 DEF OneInv, Idle
<1>12. CASE Crash(Lone)
  <2>1. cache'[Lone] = NoCache /\ proc' = [proc EXCEPT ![Lone] = Idle] /\ acked' = acked /\ path' = path
    BY <1>0, <1>12 DEF Crash
  <2>2. CASE UNCHANGED lines
    BY <1>1, <2>1, <2>2 DEF Idle, OneInv
  <2>3. CASE proc[Lone].pc = "write" /\ \E l \in {proc[Lone].row, Torn} :
               lines' = [lines EXCEPT ![path] = Written(@, l)]
    BY <1>7, <2>1, <2>3
  <2> QED
    BY <1>12, <2>2, <2>3 DEF Crash
<1> QED
  BY <1>2, <1>3, <1>4, <1>5, <1>6, <1>8, <1>9, <1>10, <1>11, <1>12 DEF Step, Work

\* As long as nobody migrates, two stores write one after the other.
LEMMA TwoStep ==
  ASSUME StoreInv, TwoInv, SharedStep
  PROVE  TwoInv'
<1> USE NamesAssumption
<1>0. /\ Log \in Seq(Rowish) /\ proc \in [Stores -> Calls] /\ holder \in [Files -> Stores \cup {Free}]
      /\ migrations \in Nat /\ path \in Files /\ 1 \in Files /\ Idle \in Calls
      /\ lines \in [Files -> Seq(Rowish)]
  BY BoundsAssumption DEF StoreInv, Log, Files, Calls
<1>1. SUFFICES ASSUME migrations' = 0 PROVE TwoInv'
  BY DEF TwoInv
<1>2. PICK s \in Stores : Step(s)
  BY DEF SharedStep, Next
<1>3. \/ \E d \in Ids \cup {NoId} : BeginAppend(s, d)
      \/ Lock(s) \/ AppendKnown(s) \/ AppendHead(s) \/ AppendWrite(s) \/ Crash(s)
  <2>1. ~BeginMigrate(s)
    BY <1>0, <1>1 DEF BeginMigrate
  <2>2. migrations = 0
    <3>1. CASE BeginMigrate(s)
      BY <2>1, <3>1
    <3>2. CASE ~BeginMigrate(s)
      BY <1>1, <1>2, <3>2 DEF Step, Work, BeginAppend, Lock, AppendKnown, AppendHead, AppendWrite,
         MigrateRefused, MigrateRead, MigrateReplace, Crash
    <3> QED BY <3>1, <3>2
  <2>3. ~Migrates(proc[s])
    BY <1>0, <2>2 DEF TwoInv, Migrates, Idle
  <2>4. ~MigrateRefused(s) /\ ~MigrateRead(s) /\ ~MigrateReplace(s)
    BY <2>3 DEF Migrates, MigrateRefused, MigrateRead, MigrateReplace
  <2> QED BY <1>2, <2>1, <2>4 DEF Step, Work
<1>4. migrations = 0 /\ path = 1 /\ path' = 1
  BY <1>1, <1>3 DEF TwoInv, BeginAppend, Lock, AppendKnown, AppendHead, AppendWrite, Crash
\* A call that goes on without writing, or ends.
<1>5. ASSUME lines' = lines, NEW p \in Calls, proc' = [proc EXCEPT ![s] = p], holder' \in [Files -> Stores \cup {Free}],
             p # Idle =>
               /\ p.file = 1 /\ ~Migrates(p) /\ (p.pc \in {"locked", "write"} => holder'[1] = s)
               /\ p.pc = "write" =>
                    /\ p.row.seq = Len(Log) + 1
                    /\ p.row.prev = IF Log = <<>> THEN 0 ELSE Log[Len(Log)].num,
             \A r \in Stores \ {s} : proc[r] # Idle /\ proc[r].pc \in {"locked", "write"} => holder'[1] = r
      PROVE  TwoInv'
  <2>1. Log' = Log /\ Log = lines[1]
    BY <1>4, <1>5 DEF Log
  <2>2. \A r \in Stores : proc'[r] = IF r = s THEN p ELSE proc[r]
    BY <1>0, <1>5
  <2> QED
    BY <1>4, <1>5, <2>1, <2>2 DEF TwoInv
\* Who unlocks, or dies, takes nobody else's lock.
<1>6. ASSUME NEW f \in Files, proc[s] # Idle, proc[s].file = f,
             holder' = [holder EXCEPT ![f] = Free] \/ holder' = [g \in Files |-> IF holder[g] = s THEN Free ELSE holder[g]],
             holder' = [holder EXCEPT ![f] = Free] => proc[s].pc \in {"locked", "write"}
      PROVE  /\ holder' \in [Files -> Stores \cup {Free}]
             /\ \A r \in Stores \ {s} : proc[r] # Idle /\ proc[r].pc \in {"locked", "write"} => holder'[1] = r
  BY <1>0, <1>4, <1>6 DEF TwoInv
<1>7. ASSUME NEW d \in Ids \cup {NoId}, BeginAppend(s, d) PROVE TwoInv'
  <2> DEFINE p == [pc |-> "wait", op |-> "append", did |-> d, num |-> rows + 1, file |-> path]
  <2>1. p \in Calls
    BY <1>0, <1>7, BoundsAssumption DEF BeginAppend, StoreInv, Calls, Numbers
  <2>2. p.pc = "wait" /\ p.file = 1 /\ ~Migrates(p)
    BY <1>4 DEF Migrates
  <2>3. lines' = lines /\ proc' = [proc EXCEPT ![s] = p] /\ holder' = holder
    BY <1>7 DEF BeginAppend
  <2> HIDE DEF p
  <2> QED
    BY <1>0, <1>4, <1>5, <2>1, <2>2, <2>3 DEF TwoInv
<1>8. CASE Lock(s)
  <2> DEFINE p == [proc[s] EXCEPT !.pc = "locked"]
  <2>1. proc[s] # Idle /\ proc[s].pc = "wait" /\ proc[s].file = 1 /\ ~Migrates(proc[s])
    BY <1>4, <1>8 DEF Lock, TwoInv, Idle
  <2>2. p \in Calls /\ p.pc = "locked" /\ p.file = 1 /\ ~Migrates(p)
    BY <1>0, <2>1 DEF Calls, Idle, Migrates
  <2>3. /\ lines' = lines /\ proc' = [proc EXCEPT ![s] = p]
        /\ holder[1] = Free /\ holder' = [holder EXCEPT ![1] = s]
    BY <1>8, <2>1 DEF Lock
  <2> HIDE DEF p
  <2>4. \A r \in Stores \ {s} : proc[r] # Idle => proc[r].pc \notin {"locked", "write"}
    BY <1>4, <2>3 DEF TwoInv
  <2> QED
    BY <1>0, <1>5, <2>2, <2>3, <2>4
<1>9. CASE AppendKnown(s)
  <2>1. proc[s] # Idle /\ proc[s].file = 1 /\ proc[s].pc = "locked"
    BY <1>4, <1>9 DEF AppendKnown, TwoInv, Idle
  <2> QED
    BY <1>0, <1>5, <1>6, <1>9, <2>1 DEF AppendKnown, Return, Unlock
<1>10. CASE AppendHead(s)
  <2> DEFINE head == ReadHead(Log)
             p == [pc |-> "write", file |-> proc[s].file, row |-> Row(proc[s].num, head.seq + 1, head.num, proc[s].did)]
  <2>1. proc[s] # Idle /\ proc[s].file = 1 /\ proc[s].pc = "locked" /\ holder[1] = s
    BY <1>4, <1>10 DEF AppendHead, TwoInv, Idle
  <2>2. proc' = [proc EXCEPT ![s] = p] /\ lines' = lines /\ holder' = holder
    BY <1>10 DEF AppendHead
  <2>3. head.seq = Len(Log) /\ head.num = IF Log = <<>> THEN 0 ELSE Log[Len(Log)].num
    <3>1. CASE Log = <<>>
      BY <3>1 DEF ReadHead, Genesis
    <3>2. CASE Log # <<>>
      <4>1. Len(Log) \in DOMAIN Log
        BY <1>0, <3>2
      <4>2. Log[Len(Log)].st = "row" /\ Log[Len(Log)].seq = Len(Log)
        BY <1>4, <4>1 DEF TwoInv, Verify
      <4> QED BY <3>2, <4>2 DEF ReadHead
    <3> QED BY <3>1, <3>2
  <2>4. /\ p.pc = "write" /\ p.file = 1 /\ ~Migrates(p) /\ p.row.seq = Len(Log) + 1
        /\ p.row.prev = IF Log = <<>> THEN 0 ELSE Log[Len(Log)].num
    BY <2>1, <2>3 DEF Row, Migrates
  <2>5. p \in Calls
    <3>1. proc' \in [Stores -> Calls] /\ proc'[s] = p
      BY <1>0, <2>2, StoreStep DEF SharedStep, StoreInv
    <3> QED BY <3>1
  <2> HIDE DEF p
  <2> QED
    BY <1>0, <1>4, <1>5, <2>1, <2>2, <2>4, <2>5 DEF TwoInv
\* The row is written behind the last one; nobody else has a row in the making.
<1>11. ASSUME proc[s].pc = "write", proc' = [proc EXCEPT ![s] = Idle],
              lines' = [lines EXCEPT ![path] = Written(@, proc[s].row)],
              holder' \in [Files -> Stores \cup {Free}],
              \A r \in Stores \ {s} : proc[r] # Idle /\ proc[r].pc \in {"locked", "write"} => holder'[1] = r
       PROVE  TwoInv'
  <2> DEFINE row == proc[s].row
  <2>1. /\ proc[s] # Idle /\ holder[1] = s /\ row.seq = Len(Log) + 1
        /\ row.prev = IF Log = <<>> THEN 0 ELSE Log[Len(Log)].num
    BY <1>4, <1>11 DEF TwoInv, Idle
  <2>2. Log' = Append(Log, row) /\ row \in GoodRows
    <3>1. row \in GoodRows
      BY SMTT(60), <1>0, <1>11 DEF Calls, Idle
    <3>2. Log' = Written(Log, row)
      BY <1>0, <1>4, <1>11 DEF Log
    <3>3. ~(Log # <<>> /\ Log[Len(Log)].st = "torn")
      <4>1. Log # <<>> => Len(Log) \in DOMAIN Log
        BY <1>0
      <4> QED BY <1>4, <4>1 DEF TwoInv, Verify
    <3> QED BY <3>1, <3>2, <3>3 DEF Written
  <2>3. /\ DOMAIN Log = 1..Len(Log) /\ Len(Log) \in Nat /\ DOMAIN Log' = 1..(Len(Log) + 1)
        /\ Log'[Len(Log) + 1] = row /\ \A i \in 1..Len(Log) : Log'[i] = Log[i]
    BY <1>0, <2>2
  <2>4. Verify(Log')
    <3>1. SUFFICES ASSUME NEW i \in DOMAIN Log'
                   PROVE  /\ Log'[i].st = "row" /\ Log'[i].seq = i
                          /\ Log'[i].prev = IF i = 1 THEN 0 ELSE Log'[i - 1].num
      BY DEF Verify
    <3>2. CASE i = Len(Log) + 1
      <4>1. row.st = "row"
        BY <2>2 DEF GoodRows
      <4>2. CASE Log = <<>>
        BY <2>1, <2>3, <3>2, <4>1, <4>2
      <4>3. CASE Log # <<>>
        <5>1. Len(Log) \in 1..Len(Log) /\ i # 1 /\ i - 1 = Len(Log)
          BY <1>0, <2>3, <3>2, <4>3
        <5> QED BY <2>1, <2>3, <3>2, <4>1, <4>3, <5>1
      <4> QED BY <4>2, <4>3
    <3>3. CASE i # Len(Log) + 1
      <4>1. i \in DOMAIN Log /\ (i # 1 => i - 1 \in 1..Len(Log))
        BY <2>3, <3>1, <3>3
      <4> QED BY <1>4, <2>3, <4>1 DEF TwoInv, Verify
    <3> QED BY <3>2, <3>3
  <2>5. \A r \in Stores \ {s} : proc[r] # Idle => proc[r].pc # "write"
    BY <1>4, <2>1 DEF TwoInv
  <2>6. \A r \in Stores : proc'[r] = IF r = s THEN Idle ELSE proc[r]
    BY <1>0, <1>11
  <2> QED
    BY <1>4, <1>11, <2>4, <2>5, <2>6 DEF TwoInv
<1>12. CASE AppendWrite(s)
  <2>1. proc[s] # Idle /\ proc[s].file = 1 /\ proc[s].pc = "write"
    BY <1>4, <1>12 DEF AppendWrite, TwoInv, Idle
  <2> QED
    BY <1>0, <1>6, <1>11, <1>12, <2>1 DEF AppendWrite, Return, Unlock
<1>13. CASE Crash(s)
  <2>1. proc[s] # Idle /\ proc[s].file \in Files /\ proc' = [proc EXCEPT ![s] = Idle]
    BY <1>0, <1>4, <1>13 DEF Crash, TwoInv
  <2>2. /\ holder' \in [Files -> Stores \cup {Free}]
        /\ \A r \in Stores \ {s} : proc[r] # Idle /\ proc[r].pc \in {"locked", "write"} => holder'[1] = r
    BY <1>0, <1>4, <1>13 DEF Crash, TwoInv
  <2>3. CASE lines' = lines
    BY <1>0, <1>5, <2>1, <2>2, <2>3
  <2>4. CASE proc[s].pc = "write" /\ lines' = [lines EXCEPT ![path] = Written(@, proc[s].row)]
    BY <1>11, <2>1, <2>2, <2>4
  <2>5. CASE lines' = [lines EXCEPT ![path] = Written(@, Torn)]
    <3>1. Log' = Written(Log, Torn) /\ Log' = lines'[1]
      BY <1>0, <1>4, <2>5 DEF Log
    <3>2. Log # <<>> => Len(Log) \in DOMAIN Log /\ Log[Len(Log)].st = "row"
      <4>1. Log # <<>> => Len(Log) \in DOMAIN Log
        BY <1>0
      <4> QED BY <1>4, <4>1 DEF TwoInv, Verify
    <3>3. Log' = Append(Log, Torn)
      BY <3>1, <3>2 DEF Written
    <3>4. Len(Log) + 1 \in DOMAIN Log' /\ Log'[Len(Log) + 1] = Torn
      BY <1>0, <3>3
    <3> QED BY <1>0, <3>1, <3>4 DEF SharedStep, WholeLines, Torn
  <2> QED
    BY <1>13, <2>3, <2>4, <2>5 DEF Crash
<1> QED
  BY <1>3, <1>7, <1>8, <1>9, <1>10, <1>12, <1>13

\* What the invariants say of the types and of the properties that are checked.
LEMMA StoreConsequences ==
  /\ StoreInv => TypeOK
  /\ StoreInv /\ OneInv => Distinct(Log) /\ (acked \subseteq Nums(Log) \/ ~Verify(Log))
  /\ TwoInv => (migrations = 0 => Verify(Log))
<1>1. ASSUME StoreInv PROVE TypeOK
  <2>1. Rowish \subseteq Lines
    BY BoundsAssumption DEF Rowish, GoodRows, Lines, Torn, Bad
  <2>2. lines \in [Files -> Seq(Lines)]
    BY <1>1, <2>1 DEF StoreInv
  <2>3. \A s \in Stores : proc[s] = Idle \/ proc[s].file \in Files
    BY <1>1 DEF StoreInv, Calls
  <2> QED BY <1>1, <2>2, <2>3 DEF StoreInv, TypeOK
<1>2. Lost => ~Verify(Log)
  BY DEF Lost, Verify
<1> QED BY <1>1, <1>2 DEF OneInv, TwoInv

-----------------------------------------------------------------------------
\* The document store.  What a save has done so far is there: its document is the
\* current one, then in the log, then in its directory, then in the index, each
\* unless the line was lost behind one that a crash cut.
SaveProgress ==
  /\ saving \in {"replaced", "logged", "copied", "indexed"} =>
       rev \in DOMAIN saved /\ current = saved[rev]
  /\ saving \in {"logged", "copied", "indexed"} => rev \in logged \cup spoilt
  /\ saving \in {"copied", "indexed"} => rev \in DOMAIN dirs /\ dirs[rev] = saved[rev]
  /\ saving = "indexed" => rev \in index \cup spoilt \cup deleted
  /\ saving = "removed" => rev \in deleted

DocumentsInv ==
  /\ Documents!TypeOK
  /\ saved \in [DOMAIN saved -> Docs] /\ dirs \in [DOMAIN dirs -> Docs \cup {NoDoc}]
  /\ \A f \in {"events", "index"} : cut[f] # 0 => cut[f] \in spoilt
  /\ SaveProgress
  /\ Documents!RevisionsFaithful

\* The revision of a save is a new one.
LEMMA NewRevision ==
  ASSUME DOMAIN saved \subseteq Documents!Revs, DOMAIN saved # Documents!Revs
  PROVE  Documents!NewRev \in Documents!Revs \ DOMAIN saved
<1> DEFINE T == Documents!Revs \ DOMAIN saved
<1>1. T \in SUBSET Nat /\ T # {}
  <2>1. T # {}
    OBVIOUS
  <2>2. Documents!Revs \subseteq Nat
    BY DEF Documents!Revs
  <2> QED BY <2>1, <2>2
<1>2. PICK m \in T : \A k \in T : m <= k
  <2> HIDE DEF T
  <2> QED BY <1>1, LeastNumber
<1>3. \A q \in Documents!Revs : q < m => q \in DOMAIN saved
  <2>1. m \in Nat
    BY <1>1
  <2>2. ASSUME NEW q \in Documents!Revs, q < m, q \notin DOMAIN saved PROVE FALSE
    <3>1. q \in T /\ q \in Nat
      BY <2>2 DEF Documents!Revs
    <3> QED BY <1>2, <2>1, <2>2, <3>1
  <2> QED BY <2>2
<1> QED
  BY <1>2, <1>3 DEF Documents!NewRev

\* At the start nothing was saved.
LEMMA DocumentsStart == Documents!Init => DocumentsInv
  BY DocumentsAssumption
  DEF Documents!Init, DocumentsInv, Documents!TypeOK, SaveProgress, Documents!RevisionsFaithful

\* Saves, rollbacks, deletes, and a crash between any two writes or within one.
LEMMA DocumentsStep ==
  ASSUME DocumentsInv, [Documents!Next]_(Documents!vars)
  PROVE  DocumentsInv'
<1> USE DocumentsAssumption
    DEF DocumentsInv, Documents!TypeOK, SaveProgress, Documents!RevisionsFaithful, Documents!Revs
<1>0. Documents!SnapshotOrder = [logged |-> "copied", copied |-> "indexed", indexed |-> "done"]
  BY DEF Documents!SnapshotOrder
<1>1. ASSUME NEW d \in Docs, Documents!Save(d) PROVE DocumentsInv'
  <2> DEFINE r == Documents!NewRev
  <2>1. r \in Documents!Revs /\ r \notin DOMAIN saved
    BY <1>1, NewRevision DEF Documents!Save
  <2>2. /\ saving' = "replaced" /\ rev' = r /\ doc' = d /\ current' = d
        /\ saved' = [q \in DOMAIN saved \cup {r} |-> IF q = r THEN d ELSE saved[q]]
        /\ UNCHANGED <<logged, dirs, index, cut, returned, spoilt, deleted, dead>>
    BY <1>1 DEF Documents!Save, Documents!With
  <2> HIDE DEF r
  <2> QED
    BY <2>1, <2>2
<1>2. ASSUME NEW r \in Documents!Revs, Documents!Rollback(r) PROVE DocumentsInv'
  <2>1. dirs[r] \in Docs
    BY <1>2 DEF Documents!Rollback, Documents!Loadable
  <2> QED
    BY <1>1, <1>2, <2>1 DEF Documents!Rollback
<1>3. ASSUME NEW r \in Documents!Revs, Documents!RemoveDir(r) PROVE DocumentsInv'
  BY <1>3 DEF Documents!RemoveDir
\* A line at the end of a file that is whole, or behind one that is not.
<1>4. ASSUME NEW f \in {"events", "index"}, NEW ls, NEW ns, ns = Documents!Listed(f, ls), Documents!AppendLine(f)
      PROVE  /\ rev \in ns \cup spoilt' /\ ns \subseteq ls \cup {rev} /\ ls \subseteq ns \cup spoilt'
             /\ spoilt \subseteq spoilt' /\ spoilt' \subseteq spoilt \cup {rev}
             /\ cut' \in [{"events", "index"} -> 0..MaxRevs]
             /\ \A g \in {"events", "index"} : cut'[g] # 0 => cut'[g] \in spoilt'
  BY <1>4 DEF Documents!Listed, Documents!AppendLine
<1>5. CASE Documents!Log
  BY <1>4, <1>5 DEF Documents!Log
<1>6. CASE Documents!MakeDir
  BY <1>6 DEF Documents!MakeDir, Documents!With
<1>7. CASE Documents!Copy
  BY <1>0, <1>7 DEF Documents!Copy
<1>8. CASE Documents!AppendIndex
  <2>1. saving = "copied"
    BY <1>0, <1>8 DEF Documents!AppendIndex
  <2> QED
    BY <1>4, <1>8, <2>1 DEF Documents!AppendIndex
<1>9. CASE Documents!Return
  <2>1. saving = "indexed"
    BY <1>0, <1>9 DEF Documents!Return
  <2> QED
    BY <1>9, <2>1 DEF Documents!Return, Documents!Leave
<1>10. CASE Documents!RewriteIndex
  BY <1>10 DEF Documents!RewriteIndex, Documents!Leave
<1>11. CASE Documents!Crash
  BY <1>11 DEF Documents!Crash, Documents!Leave, Documents!CutLine, Documents!Listed
<1>12. CASE UNCHANGED Documents!vars
  BY <1>12 DEF Documents!vars
<1> QED
  BY <1>1, <1>2, <1>3, <1>5, <1>6, <1>7, <1>8, <1>9, <1>10, <1>11, <1>12 DEF Documents!Next

-----------------------------------------------------------------------------
\* The evidence ledger.  What its lines can be.
Line == Records \cup {Malformed}

\* The types, as far as the proof needs them.
EvidenceTyped ==
  /\ file \in Seq(Line)
  /\ record \in [Appenders -> Records] /\ accepted \subseteq Records
  /\ appender \in [Appenders -> {"idle", "scan", "write"}] /\ unended \in BOOLEAN
  /\ flock \in Appenders \cup {Unheld} /\ deaths \in 0..MaxDeaths

\* Who is inside an append holds the flock.
InsideIsLocked == \A a \in Appenders : appender[a] # "idle" => flock = a

\* What the scan found still holds when the line is written.
ScanStillTrue ==
  \A a \in Appenders :
    appender[a] = "write" => Evidence!Verifies /\ record[a] \notin Evidence!Range(file)

EvidenceInv == EvidenceTyped /\ InsideIsLocked /\ ScanStillTrue /\ Evidence!EvidenceFailsClosed

\* A line behind another changes nothing before it.
LEMMA AppendedRecord ==
  ASSUME NEW s \in Seq(Line), NEW x \in Line
  PROVE  /\ s \o <<x>> \in Seq(Line)
         /\ Evidence!Range(s \o <<x>>) = Evidence!Range(s) \cup {x}
         /\ x \notin Evidence!Range(s) /\ (\A i, j \in DOMAIN s : s[i] = s[j] => i = j)
              => \A i, j \in DOMAIN (s \o <<x>>) : (s \o <<x>>)[i] = (s \o <<x>>)[j] => i = j
<1> DEFINE t == s \o <<x>>
<1>1. /\ t \in Seq(Line) /\ DOMAIN t = 1..(Len(s) + 1) /\ DOMAIN s = 1..Len(s)
      /\ Len(s) \in Nat
      /\ \A i \in 1..Len(s) : t[i] = s[i]
      /\ t[Len(s) + 1] = x
  OBVIOUS
<1>2. Evidence!Range(t) = Evidence!Range(s) \cup {x}
  <2>1. ASSUME NEW y \in Evidence!Range(t) PROVE y \in Evidence!Range(s) \cup {x}
    <3>1. PICK i \in 1..(Len(s) + 1) : y = t[i]
      BY <1>1 DEF Evidence!Range
    <3>2. CASE i \in 1..Len(s)
      BY <1>1, <3>1, <3>2 DEF Evidence!Range
    <3>3. CASE i = Len(s) + 1
      BY <1>1, <3>1, <3>3
    <3> QED BY <1>1, <3>2, <3>3
  <2>2. ASSUME NEW y \in Evidence!Range(s) PROVE y \in Evidence!Range(t)
    BY <1>1, <2>2 DEF Evidence!Range
  <2>3. x \in Evidence!Range(t)
    BY <1>1 DEF Evidence!Range
  <2> QED BY <2>1, <2>2, <2>3
<1>3. ASSUME x \notin Evidence!Range(s), \A i, j \in DOMAIN s : s[i] = s[j] => i = j,
             NEW i \in DOMAIN t, NEW j \in DOMAIN t, t[i] = t[j]
      PROVE  i = j
  <2>1. \A k \in 1..Len(s) : t[k] # x
    BY <1>1, <1>3 DEF Evidence!Range
  <2> QED BY <1>1, <1>3, <2>1
<1> HIDE DEF t
<1> QED BY <1>1, <1>2, <1>3 DEF t

\* Writing a record gives a file that does not verify, or one that has it too.
LEMMA WrittenRecord ==
  ASSUME EvidenceTyped, NEW e \in Records, NEW f, f = Evidence!Written(e),
         e \notin Evidence!Range(file)
  PROVE  /\ f \in Seq(Line)
         /\ Malformed \notin Evidence!Range(f) =>
              /\ Evidence!Range(f) = Evidence!Range(file) \cup {e}
              /\ (\A i, j \in DOMAIN file : file[i] = file[j] => i = j)
                   => \A i, j \in DOMAIN f : f[i] = f[j] => i = j
<1>1. CASE unended
  <2>1. Evidence!Front(file) \in Seq(Line)
    BY DEF Evidence!Front, EvidenceTyped
  <2>2. f = Evidence!Front(file) \o <<Malformed>>
    BY <1>1 DEF Evidence!Written
  <2> QED BY <2>1, <2>2, AppendedRecord DEF Line
<1>2. CASE ~unended
  BY <1>2, AppendedRecord DEF Evidence!Written, EvidenceTyped, Line
<1> QED BY <1>1, <1>2

\* Half a line always spoils the file.
LEMMA WrittenMalformed ==
  ASSUME EvidenceTyped, NEW f, f = Evidence!Written(Malformed)
  PROVE  f \in Seq(Line) /\ Malformed \in Evidence!Range(f)
<1>1. Evidence!Front(file) \in Seq(Line)
  BY DEF Evidence!Front, EvidenceTyped
<1>2. PICK s \in Seq(Line) : f = s \o <<Malformed>>
  BY <1>1 DEF Evidence!Written, EvidenceTyped
<1>3. Malformed \in Line
  BY DEF Line
<1> QED BY <1>2, <1>3, AppendedRecord

\* At the start the file is empty.
LEMMA EvidenceStarts == Evidence!Init => EvidenceInv
<1> SUFFICES ASSUME Evidence!Init PROVE EvidenceInv
  OBVIOUS
<1>1. (CHOOSE e \in Records : TRUE) \in Records
  BY EvidenceAssumption
<1>2. EvidenceTyped
  <2>1. record \in [Appenders -> Records]
    BY <1>1, Zenon DEF Evidence!Init
  <2>2. file \in Seq(Line) /\ deaths \in 0..MaxDeaths
    BY EvidenceAssumption DEF Evidence!Init
  <2> QED BY <2>1, <2>2 DEF Evidence!Init, EvidenceTyped
<1>3. InsideIsLocked /\ ScanStillTrue
  BY DEF Evidence!Init, InsideIsLocked, ScanStillTrue
<1>4. Evidence!EvidenceFailsClosed
  BY DEF Evidence!Init, Evidence!EvidenceFailsClosed
<1> QED
  BY <1>2, <1>3, <1>4 DEF EvidenceInv

\* Every step of an append, and every death, keeps the invariant.
LEMMA EvidenceStep ==
  ASSUME EvidenceInv, [Evidence!Next]_(Evidence!vars)
  PROVE  EvidenceInv'
<1> USE EvidenceAssumption DEF Evidence!NamesAssumption, EvidenceInv, EvidenceTyped, InsideIsLocked, ScanStillTrue
<1>1. ASSUME NEW a \in Appenders, NEW e \in Records, Evidence!Lock(a, e) PROVE EvidenceInv'
  <2>1. \A b \in Appenders : appender[b] = "idle"
    BY <1>1 DEF Evidence!Lock, Evidence!NamesAssumption
  <2> QED BY <1>1, <2>1 DEF Evidence!Lock, Evidence!Step, Evidence!EvidenceFailsClosed, Evidence!Verifies
<1>2. ASSUME NEW a \in Appenders, Evidence!Refuse(a) PROVE EvidenceInv'
  BY <1>2 DEF Evidence!Refuse, Evidence!Unlock, Evidence!Step, Evidence!EvidenceFailsClosed, Evidence!Verifies
<1>3. ASSUME NEW a \in Appenders, Evidence!Known(a) PROVE EvidenceInv'
  BY <1>3 DEF Evidence!Known, Evidence!Unlock, Evidence!Step, Evidence!EvidenceFailsClosed, Evidence!Verifies
<1>4. ASSUME NEW a \in Appenders, Evidence!New(a) PROVE EvidenceInv'
  BY <1>4 DEF Evidence!New, Evidence!Step, Evidence!EvidenceFailsClosed, Evidence!Verifies
<1>5. ASSUME NEW a \in Appenders, appender[a] = "write", file' = Evidence!Written(record[a]),
             accepted' \in {accepted, accepted \cup {record[a]}}
      PROVE  file' \in Seq(Line) /\ accepted' \subseteq Records /\ Evidence!EvidenceFailsClosed'
  <2>1. record[a] \in Records /\ record[a] \notin Evidence!Range(file)
    BY <1>5
  <2>2. file' \in Seq(Line)
    BY <1>5, <2>1, WrittenRecord
  <2>3. ASSUME Malformed \notin Evidence!Range(file')
        PROVE  /\ accepted' \subseteq Evidence!Range(file')
               /\ \A i, j \in DOMAIN file' : file'[i] = file'[j] => i = j
    BY <1>5, <2>1, <2>3, WrittenRecord DEF Evidence!EvidenceFailsClosed, Evidence!Verifies
  <2> QED BY <1>5, <2>1, <2>2, <2>3 DEF Evidence!EvidenceFailsClosed, Evidence!Verifies
<1>6. ASSUME NEW a \in Appenders, appender' = [appender EXCEPT ![a] = "idle"],
             record' = record, appender[a] # "idle"
      PROVE  InsideIsLocked' /\ ScanStillTrue'
  BY <1>6 DEF Evidence!Verifies
<1>7. ASSUME NEW a \in Appenders, Evidence!Write(a) PROVE EvidenceInv'
  BY <1>5, <1>6, <1>7 DEF Evidence!Write, Evidence!Unlock, Evidence!Step
<1>8. ASSUME NEW a \in Appenders, Evidence!Die(a) PROVE EvidenceInv'
  <2>1. /\ appender' = [appender EXCEPT ![a] = "idle"]
        /\ record' = record /\ accepted' = accepted
        /\ flock' = Unheld /\ unended' \in BOOLEAN /\ deaths' \in 0..MaxDeaths
    <3>1. deaths' \in 0..MaxDeaths
      BY <1>8 DEF Evidence!Die
    <3>2. unended' = unended \/ unended' = TRUE
      BY <1>8 DEF Evidence!Die
    <3> QED BY <1>8, <3>1, <3>2 DEF Evidence!Die, Evidence!Unlock, Evidence!Step
  <2>2. InsideIsLocked' /\ ScanStillTrue'
    BY <1>6, <1>8, <2>1 DEF Evidence!Die
  <2>3. CASE UNCHANGED <<file, unended>>
    <3>1. Evidence!EvidenceFailsClosed'
      BY <2>1, <2>3 DEF Evidence!EvidenceFailsClosed, Evidence!Verifies
    <3>2. EvidenceTyped'
      BY <2>1, <2>3
    <3> QED BY <2>2, <3>1, <3>2
  <2>4. CASE appender[a] = "write" /\ file' = Evidence!Written(record[a])
    BY <1>5, <2>1, <2>2, <2>4
  <2>5. CASE file' = Evidence!Written(Malformed)
    BY <2>1, <2>2, <2>5, WrittenMalformed DEF Evidence!EvidenceFailsClosed, Evidence!Verifies
  <2> QED BY <1>8, <2>3, <2>4, <2>5 DEF Evidence!Die
<1>9. CASE UNCHANGED Evidence!vars
  BY <1>9 DEF Evidence!vars, Evidence!EvidenceFailsClosed, Evidence!Verifies
<1> QED
  BY <1>1, <1>2, <1>3, <1>4, <1>7, <1>8, <1>9 DEF Evidence!Next

-----------------------------------------------------------------------------
\* The data loops count their attempts below the limit, and a table gets all rows of
\* a computation or none.
LEMMA LoopsStep ==
  ASSUME Loops!TypeOK, [Loops!Next]_(Loops!vars)
  PROVE  Loops!TypeOK'
<1> USE LoopsAssumption DEF Loops!TypeOK, Loops!collectorVars, Loops!writerVars
<1>1. CASE Loops!CollectorStep \/ Loops!NextCycle \/ Loops!StopCollector
  <2>1. UNCHANGED <<processor, Loops!writerVars>>
    BY <1>1 DEF Loops!CollectorStep, Loops!Fetched, Loops!FetchedNothing, Loops!FetchRaised, Loops!BackedOff,
       Loops!Wrote, Loops!Counted, Loops!NextCycle, Loops!StopCollector, Loops!Collector
  <2>2. attempt' \in 0..(MaxRetries - 1)
    BY <1>1 DEF Loops!CollectorStep, Loops!Fetched, Loops!FetchedNothing, Loops!FetchRaised, Loops!BackedOff,
       Loops!Wrote, Loops!Counted, Loops!NextCycle, Loops!StopCollector, Loops!LastAttempt, Loops!NextAttempt
  <2>3. collector' \in {"fetch", "backoff", "write", "count", "sleep", "stopped"}
    BY <1>1 DEF Loops!CollectorStep, Loops!Fetched, Loops!FetchedNothing, Loops!FetchRaised, Loops!BackedOff,
       Loops!Wrote, Loops!Counted, Loops!NextCycle, Loops!StopCollector, Loops!Collector
  <2>4. collected' \in BOOLEAN
    BY <1>1 DEF Loops!CollectorStep, Loops!Fetched, Loops!FetchedNothing, Loops!FetchRaised, Loops!BackedOff,
       Loops!Wrote, Loops!Counted, Loops!NextCycle, Loops!StopCollector
  <2> QED BY <2>1, <2>2, <2>3, <2>4
<1>2. CASE Loops!ProcessorStep \/ Loops!Again \/ Loops!StopProcessor
  BY <1>2 DEF Loops!ProcessorStep, Loops!Started, Loops!Loaded, Loops!Computed, Loops!Written, Loops!Skipped,
     Loops!Failed, Loops!Diagnosed, Loops!Again, Loops!StopProcessor, Loops!Processor
<1>3. CASE Loops!OpenSession \/ (\E r \in Rows : Loops!Execute(r)) \/ Loops!Commit \/ Loops!Raised
  BY <1>3 DEF Loops!OpenSession, Loops!Execute, Loops!Commit, Loops!Raised, Loops!Writer
<1>4. CASE UNCHANGED Loops!vars
  BY <1>4 DEF Loops!vars
<1> QED
  BY <1>1, <1>2, <1>3, <1>4 DEF Loops!Next

-----------------------------------------------------------------------------
\* The five side by side, as they are checked.
LedgersInv ==
  /\ StoreInv
  /\ scenario = "one" => OneInv
  /\ scenario = "two" => TwoInv
  /\ DocumentsInv /\ EvidenceInv /\ Loops!TypeOK
everything == <<scenario, vars, documentVars, evidenceVars, loopVars>>

\* Everything starts empty.
LEMMA LedgersStart == LedgersInit => LedgersInv
<1> SUFFICES ASSUME LedgersInit PROVE LedgersInv
  OBVIOUS
<1>1. StoreInv /\ DocumentsInv /\ EvidenceInv
  BY StoreStarts, DocumentsStart, EvidenceStarts DEF LedgersInit
<1>2. /\ Log = <<>> /\ path = 1 /\ acked = {}
      /\ \A s \in Stores : proc[s] = Idle /\ cache[s] = NoCache
  <2>1. 1 \in Files
    BY BoundsAssumption DEF Files
  <2> QED BY <2>1 DEF LedgersInit, Init, Log
<1>3. OneInv
  BY <1>2, LoneAssumption DEF OneInv, Distinct, Idle
<1>4. TwoInv
  BY <1>2 DEF TwoInv, Verify
<1>5. Loops!TypeOK
  <2>1. 0 \in 0..(MaxRetries - 1)
    BY LoopsAssumption
  <2> QED BY <2>1 DEF LedgersInit, Loops!Init, Loops!TypeOK
<1> QED
  BY <1>1, <1>3, <1>4, <1>5 DEF LedgersInv

\* A step of the scenario's component, and none of the others.
LEMMA LedgersStep ==
  ASSUME LedgersInv, [LedgersNext]_everything
  PROVE  LedgersInv'
<1> USE DEF LedgersInv
<1>1. (UNCHANGED documentVars => DocumentsInv') /\ (UNCHANGED evidenceVars => EvidenceInv')
      /\ (UNCHANGED loopVars => Loops!TypeOK')
  BY DocumentsStep, EvidenceStep, LoopsStep
  DEF documentVars, evidenceVars, loopVars, Documents!vars, Evidence!vars, Loops!vars,
      Loops!collectorVars, Loops!writerVars
<1>2. ASSUME UNCHANGED vars PROVE StoreInv' /\ (OneInv => OneInv') /\ (TwoInv => TwoInv')
  BY <1>2, StoreStep DEF vars, OneInv, TwoInv, Log, Lost, Remembered
<1>3. CASE scenario = "two" /\ SharedStep /\ UNCHANGED <<scenario, documentVars, evidenceVars, loopVars>>
  BY <1>1, <1>3, StoreStep, TwoStep DEF SharedStep
<1>4. CASE scenario = "one" /\ Step(Lone) /\ UNCHANGED <<scenario, documentVars, evidenceVars, loopVars>>
  <2>1. Next
    BY <1>4, LoneAssumption DEF Next
  <2> QED BY <1>1, <1>4, <2>1, StoreStep, OneStep
<1>5. CASE Documents!Next /\ UNCHANGED <<scenario, vars, evidenceVars, loopVars>>
  BY <1>1, <1>2, <1>5, DocumentsStep
<1>6. CASE Evidence!Next /\ UNCHANGED <<scenario, vars, documentVars, loopVars>>
  BY <1>1, <1>2, <1>6, EvidenceStep
<1>7. CASE Loops!Next /\ UNCHANGED <<scenario, vars, documentVars, evidenceVars>>
  BY <1>1, <1>2, <1>7, LoopsStep
<1>8. CASE UNCHANGED everything
  BY <1>1, <1>2, <1>8 DEF everything
<1> QED
  BY <1>3, <1>4, <1>5, <1>6, <1>7, <1>8 DEF LedgersNext

\* The invariant holds of every behaviour.
LEMMA LedgersInvariant == LedgersSpec => []LedgersInv
  BY LedgersStart, LedgersStep, PTL DEF LedgersSpec, everything

\* The event log (append, migrate), for any number of rows, crashes and migrations:
\* stores that share a file which nobody migrates keep its chain whole, and one store
\* writes no dedupe identifier twice, retried after a torn write or not.
THEOREM LogsSound == LedgersSpec => []LogIsSound
<1>1. LedgersInv => LogIsSound
  BY StoreConsequences DEF LedgersInv, LogIsSound
<1> QED BY <1>1, LedgersInvariant, PTL

\* A log that verifies has every row whose append returned, however often the process
\* died in the middle of a line: what is lost is found (verify).
THEOREM VerifiedLogsComplete == LedgersSpec => []VerifiedIsComplete
<1>1. LedgersInv => VerifiedIsComplete
  BY StoreConsequences DEF LedgersInv, VerifiedIsComplete
<1> QED BY <1>1, LedgersInvariant, PTL

\* The document store (save, rollback, delete): a listed revision has the document
\* that its save was given, and a revision that was returned is listed, unless a line
\* of it was cut by a crash.
THEOREM RevisionsKept == LedgersSpec => []RevisionsFaithful
<1>1. LedgersInv => RevisionsFaithful
  BY DEF LedgersInv, DocumentsInv, RevisionsFaithful
<1> QED BY <1>1, LedgersInvariant, PTL

\* The evidence ledger has every record it acknowledged, and none twice, or it refuses
\* to be read, however many processes append and die.
THEOREM FailsClosed == LedgersSpec => []EvidenceFailsClosed
<1>1. LedgersInv => EvidenceFailsClosed
  BY DEF LedgersInv, EvidenceInv, EvidenceFailsClosed
<1> QED BY <1>1, LedgersInvariant, PTL

\* Every variable keeps its type; a migration that replaces the file is one that was
\* begun, and a computation is in the tables whole or not at all.
THEOREM TypesCorrect == LedgersSpec => []TypesOK
<1>1. EvidenceInv => Evidence!TypeOK
  <2>1. ASSUME NEW f \in Seq(Line) PROVE Evidence!Range(f) \subseteq Line
    BY DEF Evidence!Range
  <2> QED BY <2>1 DEF EvidenceInv, EvidenceTyped, Evidence!TypeOK, Line
<1>2. LedgersInv => TypesOK
  BY <1>1, StoreConsequences DEF LedgersInv, DocumentsInv, TypesOK
<1> QED BY <1>2, LedgersInvariant, PTL

=============================================================================

---------------------------- MODULE Stores_proofs ----------------------------
(***************************************************************************)
(* Proofs about the stores and look-ups of MCCoordination, for any clients,*)
(* names, keys, limits, words and answers: each has an invariant of its    *)
(* own, and what they answer was stored, whole, last and in range.         *)
(***************************************************************************)
EXTENDS Coordination_proofs

-----------------------------------------------------------------------------
(* The small stores.  A memory that was added is there until it is         *)
(* deleted, and one that came later has a later time.                      *)
BankTyped ==
  /\ memories \in [Names -> [text : Nat, made : Nat]] /\ arrived \in [Names -> Nat]
  /\ meant \in [Names -> Nat] /\ older \in [Names -> {"none", "good", "null", "bad"}]
BankInv ==
  /\ BankTyped
  /\ \A n \in Names : IF meant[n] # 0 THEN memories[n].text = meant[n]
                    ELSE memories[n].text \in {0, IF older[n] \in {"good", "bad"} THEN Store!Old ELSE 0}
  /\ \A n \in Names : arrived[n] # 0 <=> memories[n].text # 0
  /\ \A n, m \in Names : arrived[n] # 0 /\ arrived[m] # 0 /\ memories[n].made < memories[m].made
      => arrived[n] < arrived[m]

\* What is greater than all of a number for each memory.
LEMMA NextNumber ==
  ASSUME NEW f \in [Names -> Nat]
  PROVE  /\ 1 + Store!Max({0} \cup {f[n] : n \in Names}) \in Nat \ {0}
         /\ \A n \in Names : f[n] < 1 + Store!Max({0} \cup {f[i] : i \in Names})
<1> DEFINE S == {0} \cup {f[n] : n \in Names}
<1>1. 0 \in S /\ (\A n \in Names : f[n] \in S) /\ (\A y \in S : y = 0 \/ \E n \in Names : y = f[n])
  OBVIOUS
<1>2. \E x \in S : \A y \in S : x >= y
  <2>1. CASE Names = {}
    <3>1. \A y \in S : y = 0
      BY <1>1, <2>1
    <3> QED BY <1>1, <3>1
  <2>2. CASE Names # {}
    <3>1. PICK n \in Names : \A m \in Names : f[n] >= f[m]
      BY <2>2, FiniteGreatest, StoresAssumption
    <3>2. f[n] \in S /\ \A y \in S : f[n] >= y
      <4> HIDE DEF S
      <4> QED BY <1>1, <3>1
    <3> QED BY <3>2
  <2> QED BY <2>1, <2>2
<1>3. Store!Max(S) \in S /\ \A y \in S : Store!Max(S) >= y
  BY <1>2 DEF Store!Max
<1> HIDE DEF S
<1>4. PICK x : x = Store!Max(S)
  OBVIOUS
<1>5. x \in Nat /\ \A n \in Names : x >= f[n]
  BY <1>1, <1>3, <1>4 DEF S
<1>6. 1 + x \in Nat \ {0} /\ \A n \in Names : f[n] < 1 + x
  BY <1>5
<1> QED BY <1>4, <1>6 DEF S

\* At the start there are the rows of the older table at most.
LEMMA BankStart == Store!Init => BankInv
<1> SUFFICES ASSUME Store!Init PROVE BankInv
  OBVIOUS
<1>1. /\ memories = [n \in Names |-> [text |-> 0, made |-> 0]] /\ arrived = [n \in Names |-> 0]
      /\ meant = [n \in Names |-> 0] /\ older \in [Names -> {"none", "good", "null", "bad"}]
  BY DEF Store!Init, Store!Absent, Store!Rows
<1>2. \A n \in Names : memories[n] = [text |-> 0, made |-> 0] /\ arrived[n] = 0 /\ meant[n] = 0
  BY <1>1
<1>3. memories \in [Names -> [text : Nat, made : Nat]] /\ arrived \in [Names -> Nat] /\ meant \in [Names -> Nat]
  BY <1>1
<1> QED BY <1>1, <1>2, <1>3 DEF BankInv, BankTyped

\* Opening, closing, adding and deleting keep the invariant.
LEMMA BankStep ==
  ASSUME BankInv, Store!BankNext, count \in 0..MaxTexts
  PROVE  BankInv'
<1> USE MachineAssumption
<1>0. BankTyped
  BY DEF BankInv
<1>1. /\ Store!Stamp \in Nat \ {0} /\ \A n \in Names : memories[n].made < Store!Stamp
  <2> DEFINE f == [n \in Names |-> memories[n].made]
  <2>1. f \in [Names -> Nat]
    BY <1>0 DEF BankTyped
  <2>2. {f[n] : n \in Names} = {memories[n].made : n \in Names} /\ \A n \in Names : f[n] = memories[n].made
    OBVIOUS
  <2> HIDE DEF f
  <2> QED BY <2>1, <2>2, NextNumber DEF Store!Stamp
<1>2. /\ Store!Coming \in Nat \ {0} /\ \A n \in Names : arrived[n] < Store!Coming
  BY <1>0, NextNumber DEF BankTyped, Store!Coming
<1>3. Store!Old \in Nat \ {0}
  BY DEF Store!Old
<1>4. PICK made \in Nat \ {0} : made = Store!Stamp
  BY <1>1
<1>5. PICK next \in Nat \ {0} : next = Store!Coming
  BY <1>2
<1>6. ASSUME NEW c \in Processes, Store!OpenBank(c) PROVE BankInv'
  <2>1. /\ memories' = [n \in Names |-> IF n \in Store!TakenOver THEN [text |-> Store!Old, made |-> made]
            ELSE memories[n]]
        /\ arrived' = [n \in Names |-> IF arrived[n] = 0 /\ n \in Store!TakenOver THEN next ELSE arrived[n]]
        /\ UNCHANGED <<count, older, meant>>
    BY <1>4, <1>5, <1>6 DEF Store!OpenBank
  <2>2. \A n \in Names : n \in Store!TakenOver <=> older[n] \in {"good", "bad"} /\ memories[n].text = 0
    BY DEF Store!TakenOver, Store!Present
  <2>3. BankTyped'
    BY <1>0, <1>3, <2>1 DEF BankTyped
  <2>4. \A n \in Names : n \in Store!TakenOver => meant[n] = 0 /\ arrived[n] = 0
    BY <2>2 DEF BankInv
  <2>5. \A n \in Names : IF n \in Store!TakenOver
                       THEN memories'[n].text = Store!Old /\ memories'[n].made = made /\ arrived'[n] = next
                       ELSE memories'[n] = memories[n] /\ arrived'[n] = arrived[n]
    BY <2>1, <2>4
  <2>6. \A n \in Names : memories[n].made \in Nat /\ memories[n].made < made /\ arrived[n] \in Nat
            /\ arrived[n] < next
    BY <1>0, <1>1, <1>2, <1>4, <1>5 DEF BankTyped
  <2>7. \A n, m \in Names : arrived'[n] # 0 /\ arrived'[m] # 0 /\ memories'[n].made < memories'[m].made
                          => arrived'[n] < arrived'[m]
    <3> SUFFICES ASSUME NEW n \in Names, NEW m \in Names, arrived'[n] # 0, arrived'[m] # 0,
                        memories'[n].made < memories'[m].made
                 PROVE  arrived'[n] < arrived'[m]
      OBVIOUS
    <3>1. CASE n \in Store!TakenOver
      BY <2>5, <2>6, <3>1
    <3>2. CASE n \notin Store!TakenOver /\ m \in Store!TakenOver
      BY <2>5, <2>6, <3>2
    <3>3. CASE n \notin Store!TakenOver /\ m \notin Store!TakenOver
      BY <2>5, <3>3 DEF BankInv
    <3> QED BY <3>1, <3>2, <3>3
  <2>8. \A n \in Names : IF meant'[n] # 0 THEN memories'[n].text = meant'[n]
                       ELSE memories'[n].text \in {0, IF older'[n] \in {"good", "bad"} THEN Store!Old ELSE 0}
    BY <2>1, <2>2, <2>4, <2>5 DEF BankInv
  <2>9. \A n \in Names : arrived'[n] # 0 <=> memories'[n].text # 0
    BY <1>3, <2>5 DEF BankInv
  <2> QED BY <2>3, <2>7, <2>8, <2>9 DEF BankInv, Store!Old
<1>7. ASSUME NEW c \in Processes, Store!CloseBank(c) PROVE BankInv'
  <2>1. UNCHANGED <<count, older, memories, arrived, meant>>
    BY <1>7 DEF Store!CloseBank
  <2> QED BY <2>1 DEF BankInv, BankTyped, Store!Old
<1>8. ASSUME NEW c \in Processes, NEW n \in Names, Store!AddMemory(c, n) PROVE BankInv'
  <2>1. /\ count' = count + 1 /\ count < MaxTexts /\ older' = older /\ meant' = [meant EXCEPT ![n] = count']
        /\ memories' = [memories EXCEPT ![n] = [text |-> count', made |-> IF n \in Store!Present
            THEN memories[n].made ELSE made]]
        /\ arrived' = (IF arrived[n] # 0 THEN arrived ELSE [arrived EXCEPT ![n] = next])
    BY <1>0, <1>4, <1>5, <1>8 DEF Store!AddMemory, Store!New, BankTyped
  <2>2. count' \in 0..MaxTexts /\ count' \in Nat \ {0}
    BY <1>0, <2>1 DEF BankTyped
  <2>3. PICK k \in Nat \ {0} : k = count'
    BY <2>2
  <2>4. PICK d \in Nat : d = IF n \in Store!Present THEN memories[n].made ELSE made
    BY <1>0, <1>4 DEF BankTyped
  <2>5. memories' = [memories EXCEPT ![n] = [text |-> k, made |-> d]] /\ meant' = [meant EXCEPT ![n] = k]
    BY <2>1, <2>3, <2>4
  <2>6. /\ memories' \in [Names -> [text : Nat, made : Nat]] /\ memories'[n].text = k /\ memories'[n].made = d
        /\ \A m \in Names \ {n} : memories'[m] = memories[m]
    BY <1>0, <2>5 DEF BankTyped
  <2>7. meant' \in [Names -> Nat] /\ meant'[n] = k /\ \A m \in Names \ {n} : meant'[m] = meant[m]
    BY <1>0, <2>5 DEF BankTyped
  <2>8. /\ arrived' \in [Names -> Nat] /\ arrived'[n] = (IF arrived[n] # 0 THEN arrived[n] ELSE next)
        /\ \A m \in Names \ {n} : arrived'[m] = arrived[m]
    BY <1>0, <2>1 DEF BankTyped
  <2>9. BankTyped'
    BY <1>0, <2>1, <2>2, <2>6, <2>7, <2>8 DEF BankTyped
  <2>10. arrived[n] # 0 => d = memories[n].made
    BY <2>4 DEF BankInv, Store!Present
  <2>11. arrived[n] = 0 => d = made
    BY <2>4 DEF BankInv, Store!Present
  <2>12. \A m \in Names : memories[m].made \in Nat /\ memories[m].made < made /\ arrived[m] \in Nat
             /\ arrived[m] < next
    BY <1>0, <1>1, <1>2, <1>4, <1>5 DEF BankTyped
  <2>13. \A i, j \in Names : arrived'[i] # 0 /\ arrived'[j] # 0 /\ memories'[i].made < memories'[j].made
                           => arrived'[i] < arrived'[j]
    <3> SUFFICES ASSUME NEW i \in Names, NEW j \in Names, arrived'[i] # 0, arrived'[j] # 0,
                        memories'[i].made < memories'[j].made
                 PROVE  arrived'[i] < arrived'[j]
      OBVIOUS
    <3>1. CASE arrived[n] # 0
      <4>1. \A m \in Names : arrived'[m] = arrived[m] /\ memories'[m].made = memories[m].made
        BY <2>6, <2>8, <2>10, <3>1
      <4> QED BY <4>1 DEF BankInv
    <3>2. CASE arrived[n] = 0
      <4>1. CASE i = n
        BY <2>6, <2>8, <2>11, <2>12, <3>2, <4>1
      <4>2. CASE i # n /\ j = n
        BY <2>6, <2>8, <2>11, <2>12, <3>2, <4>2
      <4>3. CASE i # n /\ j # n
        BY <2>6, <2>8, <4>3 DEF BankInv
      <4> QED BY <4>1, <4>2, <4>3
    <3> QED BY <3>1, <3>2
  <2>14. \A m \in Names : IF meant'[m] # 0 THEN memories'[m].text = meant'[m]
                        ELSE memories'[m].text \in {0, IF older'[m] \in {"good", "bad"} THEN Store!Old ELSE 0}
    BY <2>1, <2>6, <2>7 DEF BankInv
  <2>15. \A m \in Names : arrived'[m] # 0 <=> memories'[m].text # 0
    BY <2>6, <2>8 DEF BankInv
  <2> QED BY <2>9, <2>13, <2>14, <2>15 DEF BankInv, Store!Old
<1>9. ASSUME NEW c \in Processes, NEW n \in Names, Store!DeleteMemory(c, n) PROVE BankInv'
  <2>1. /\ memories' = [memories EXCEPT ![n] = [text |-> 0, made |-> 0]] /\ meant' = [meant EXCEPT ![n] = 0]
        /\ arrived' = [arrived EXCEPT ![n] = 0] /\ UNCHANGED <<count, older>>
    BY <1>9 DEF Store!DeleteMemory, Store!Absent
  <2>2. /\ memories' \in [Names -> [text : Nat, made : Nat]] /\ memories'[n].text = 0
        /\ meant' \in [Names -> Nat] /\ meant'[n] = 0 /\ arrived' \in [Names -> Nat] /\ arrived'[n] = 0
        /\ \A m \in Names \ {n} : memories'[m] = memories[m] /\ meant'[m] = meant[m] /\ arrived'[m] = arrived[m]
    BY <1>0, <2>1 DEF BankTyped
  <2>3. BankTyped'
    BY <1>0, <2>1, <2>2 DEF BankTyped
  <2> QED BY <2>1, <2>2, <2>3 DEF BankInv, Store!Old
<1> QED BY <1>6, <1>7, <1>8, <1>9 DEF Store!BankNext

\* What the bank promises follows.
LEMMA BankKept == BankInv => Store!MemoriesAreTheLatest
<1> SUFFICES ASSUME BankInv PROVE Store!MemoriesAreTheLatest
  OBVIOUS
<1>1. Store!Present = {n \in Names : memories[n].text # 0}
  BY DEF Store!Present
<1>2. {n \in Names : arrived[n] # 0} = Store!Present
  BY <1>1 DEF BankInv
<1> QED BY <1>1, <1>2 DEF BankInv, Store!MemoriesAreTheLatest, Store!Before

-----------------------------------------------------------------------------
(* Chunks in two databases: SQLite has what was accepted last, PostgreSQL  *)
(* what was accepted last without a vector.                                *)
Chunks == [text : Nat, vector : {"none", "vector"}]
ChunkInv ==
  /\ lite \in [Names -> Chunks] /\ pg \in [Names -> Chunks] /\ chunk = lite
  /\ \A n \in Names : /\ lite[n].vector = "vector" => lite[n].text # 0
                    /\ pg[n].vector = "none" /\ (lite[n].vector = "none" => pg[n] = lite[n])

\* There is no chunk at the start.
LEMMA ChunksStart == Store!Init => ChunkInv
<1> SUFFICES ASSUME Store!Init PROVE ChunkInv
  OBVIOUS
<1>1. lite = [n \in Names |-> [text |-> 0, vector |-> "none"]] /\ pg = lite /\ chunk = lite
  BY DEF Store!Init
<1>2. [text |-> 0, vector |-> "none"] \in Chunks
  BY DEF Chunks
<1> QED BY <1>1, <1>2 DEF ChunkInv

\* Writing and dropping a chunk keep the invariant.
LEMMA ChunkStep ==
  ASSUME ChunkInv, Store!ChunkNext, count \in 0..MaxTexts
  PROVE  ChunkInv'
<1> USE MachineAssumption
<1>1. ASSUME NEW n \in Names, Store!DropChunk(n) PROVE ChunkInv'
  <2>1. PICK new \in Chunks : new = [text |-> 0, vector |-> "none"]
    BY DEF Chunks
  <2>2. lite' = [lite EXCEPT ![n] = new]
    BY <1>1, <2>1 DEF Store!DropChunk
  <2>3. lite'[n] = new
    BY <2>2 DEF ChunkInv
  <2>4. pg' = [pg EXCEPT ![n] = new] /\ chunk' = [chunk EXCEPT ![n] = new]
    BY <1>1, <2>3 DEF Store!DropChunk
  <2> QED BY <2>1, <2>2, <2>4 DEF ChunkInv
<1>2. ASSUME NEW n \in Names, NEW v \in {"none", "vector", "short"}, Store!Upsert(n, v) PROVE ChunkInv'
  <2>1. count' \in Nat \ {0}
    BY <1>2 DEF Store!Upsert, Store!New
  <2>2. CASE v = "short"
    <3>1. lite' = lite /\ pg' = pg /\ chunk' = chunk
      BY <1>2, <2>2 DEF Store!Upsert, Store!Accepts
    <3> QED BY <3>1 DEF ChunkInv
  <2>3. CASE v # "short"
    <3>0. PICK new : new = [text |-> count', vector |-> v]
      OBVIOUS
    <3>1. new \in Chunks /\ new = [text |-> count', vector |-> v] /\ new.text # 0 /\ new.vector = v
      BY <2>1, <2>3, <3>0 DEF Chunks
    <3>2. lite' = [lite EXCEPT ![n] = new] /\ chunk' = [chunk EXCEPT ![n] = new]
      BY <1>2, <2>3, <3>1 DEF Store!Upsert, Store!Accepts
    <3>3. pg' = IF v = "none" THEN [pg EXCEPT ![n] = new] ELSE pg
      BY <1>2, <2>3, <3>1 DEF Store!Upsert, Store!Accepts, Store!Parses
    <3> QED BY <3>1, <3>2, <3>3 DEF ChunkInv
  <2> QED BY <2>2, <2>3
<1> QED BY <1>1, <1>2 DEF Store!ChunkNext, Store!Vectors

\* Each database finds what it should.
LEMMA ChunksKept == ChunkInv => Store!ChunksAreFound
<1> SUFFICES ASSUME ChunkInv PROVE Store!ChunksAreFound
  OBVIOUS
<1>1. Store!Found = {n \in Names : chunk[n].vector = "vector"}
  <2>1. \A n \in Names : lite[n].text # 0 /\ lite[n].vector # "none" <=> chunk[n].vector = "vector"
    BY DEF ChunkInv, Chunks
  <2> QED BY <2>1 DEF Store!Found
<1>2. \A n \in Names : pg[n].vector = "none" /\ (chunk[n].vector = "none" => pg[n] = chunk[n])
  BY DEF ChunkInv
<1>3. ~Store!SearchPgFails => \A n \in Names : chunk[n].text # 0 => chunk[n].vector = "vector"
  BY DEF ChunkInv, Chunks, Store!SearchPgFails
<1>4. lite = chunk /\ \A n \in Names : Store!LiteDeleted(n) => Store!PgDeleted(n)
  BY DEF ChunkInv, Store!PgDeleted
<1> QED BY <1>1, <1>2, <1>3, <1>4 DEF Store!ChunksAreFound

-----------------------------------------------------------------------------
(* The key-value table: the two columns agree as far as both are there.    *)
Rows == [value : Nat, json : Nat, row : BOOLEAN]
KvInv ==
  /\ pairs \in [Store!PairKeys -> Rows] /\ put \in [Store!PairKeys -> Nat]
  /\ \A k \in Store!PairKeys : Store!Get(k) = put[k] /\ (pairs[k].row <=> put[k] # 0)

\* At the start there are rows of an older program at most.
LEMMA KvStarts == Store!Init => KvInv
<1> SUFFICES ASSUME Store!Init PROVE KvInv
  OBVIOUS
<1> USE MachineAssumption
<1>1. Store!Unset \in Rows /\ Store!OldRow \in Rows /\ Store!Old \in Nat \ {0}
  BY DEF Store!Unset, Store!OldRow, Store!Old, Rows
<1>2. pairs \in [Store!PairKeys -> {Store!Unset, Store!OldRow}] /\ put = [k \in Store!PairKeys |-> pairs[k].value]
  BY DEF Store!Init
<1>3. pairs \in [Store!PairKeys -> Rows]
  BY <1>1, <1>2
<1>4. \A k \in Store!PairKeys : put[k] = pairs[k].value /\ put[k] \in Nat
  BY <1>1, <1>2, <1>3 DEF Rows
<1>5. put \in [Store!PairKeys -> Nat]
  BY <1>2, <1>4
<1>6. \A k \in Store!PairKeys : pairs[k].json = 0 /\ (pairs[k].row <=> pairs[k].value # 0)
  BY <1>1, <1>2 DEF Store!Unset, Store!OldRow
<1> QED BY <1>3, <1>4, <1>5, <1>6 DEF KvInv, Store!Get

\* Opening, putting and deleting keep the invariant.
LEMMA KvStep ==
  ASSUME KvInv, Store!KvNext, count \in 0..MaxTexts
  PROVE  KvInv'
<1> USE MachineAssumption
<1>1. CASE Store!OpenKv
  <2>1. put' = put
    BY <1>1 DEF Store!OpenKv
  <2>2. ASSUME NEW k \in Store!PairKeys
        PROVE  /\ pairs'[k] \in Rows /\ pairs'[k].row = pairs[k].row
               /\ pairs'[k].json = (IF pairs[k].json # 0 THEN pairs[k].json ELSE pairs[k].value)
               /\ pairs'[k].value = (IF pairs[k].value # 0 THEN pairs[k].value ELSE pairs[k].json)
    <3>1. PICK v \in Nat, j \in Nat, r \in BOOLEAN : pairs[k] = [value |-> v, json |-> j, row |-> r]
      BY DEF KvInv, Rows
    <3>2. PICK w \in Nat : w = IF v # 0 THEN v ELSE j
      BY <3>1
    <3>3. PICK i \in Nat : i = IF j # 0 THEN j ELSE v
      BY <3>1
    <3>4. pairs'[k] = [pairs[k] EXCEPT !.value = IF @ # 0 THEN @ ELSE pairs[k].json,
                                       !.json = IF @ # 0 THEN @ ELSE pairs[k].value]
      BY <1>1 DEF Store!OpenKv
    <3>5. pairs'[k] = [value |-> w, json |-> i, row |-> r]
      <4>1. PICK o : o = pairs[k]
        OBVIOUS
      <4>2. o.value = v /\ o.json = j /\ o.row = r /\ o = [value |-> v, json |-> j, row |-> r]
        BY <3>1, <4>1
      <4>3. pairs'[k] = [o EXCEPT !.value = IF o.value # 0 THEN o.value ELSE o.json,
                                  !.json = IF o.json # 0 THEN o.json ELSE o.value]
        BY <3>4, <4>1
      <4>4. pairs'[k] = [o EXCEPT !.value = w, !.json = i]
        BY <3>2, <3>3, <4>2, <4>3
      <4> QED BY <4>2, <4>4
    <3> QED BY <3>1, <3>2, <3>3, <3>5 DEF Rows
  <2>3. pairs' \in [Store!PairKeys -> Rows]
    <3>1. pairs' = [k \in Store!PairKeys |-> pairs'[k]]
      BY <1>1 DEF Store!OpenKv
    <3> QED BY <2>2, <3>1
  <2>4. \A k \in Store!PairKeys : pairs[k].json \in Nat /\ pairs[k].value \in Nat
    BY DEF KvInv, Rows
  <2> QED BY <2>1, <2>2, <2>3, <2>4 DEF KvInv, Store!Get
<1>2. ASSUME NEW k \in Store!PairKeys, Store!Put(k) PROVE KvInv'
  <2>1. PICK c \in Nat \ {0} : c = count'
    BY <1>2 DEF Store!Put, Store!New
  <2>2. PICK new \in Rows : new = [value |-> c, json |-> c, row |-> TRUE]
    BY DEF Rows
  <2>3. pairs' = [pairs EXCEPT ![k] = new] /\ put' = [put EXCEPT ![k] = c]
    BY <1>2, <2>1, <2>2 DEF Store!Put
  <2> QED BY <2>2, <2>3 DEF KvInv, Store!Get
<1>3. ASSUME NEW k \in Store!PairKeys, Store!DeleteKey(k) PROVE KvInv'
  <2>1. PICK new \in Rows : new = [value |-> 0, json |-> 0, row |-> FALSE]
    BY DEF Rows
  <2>2. pairs' = [pairs EXCEPT ![k] = new] /\ put' = [put EXCEPT ![k] = 0]
    BY <1>3, <2>1 DEF Store!DeleteKey, Store!Unset
  <2> QED BY <2>1, <2>2 DEF KvInv, Store!Get
<1> QED BY <1>1, <1>2, <1>3 DEF Store!KvNext

Letters == {"a", "b", "x", "_"}
\* Two sequences of letters with the same first one.
LEMMA SameFirst ==
  ASSUME NEW s \in Seq(Letters), NEW t \in Seq(Letters), Len(s) >= 1, Len(t) >= 1
  PROVE  SubSeq(s, 1, 1) = SubSeq(t, 1, 1) <=> s[1] = t[1]
<1> DEFINE a == SubSeq(s, 1, 1)
           b == SubSeq(t, 1, 1)
<1>1. a \in Seq(Letters) /\ Len(a) = 1 /\ a[1] = s[1]
  OBVIOUS
<1>2. b \in Seq(Letters) /\ Len(b) = 1 /\ b[1] = t[1]
  OBVIOUS
<1> HIDE DEF a, b
<1>3. (\A i \in 1..1 : a[i] = b[i]) => a = b
  BY <1>1, <1>2
<1>4. s[1] = t[1] => a = b
  BY <1>1, <1>2, <1>3
<1>5. a = b => s[1] = t[1]
  BY <1>1, <1>2
<1> QED BY <1>4, <1>5 DEF a, b

\* A word of one letter.
LEMMA OneLetter ==
  ASSUME NEW x \in Letters, NEW s, s = <<x>>
  PROVE  s \in Seq(Letters) /\ Len(s) = 1 /\ s[1] = x /\ DOMAIN s = {1}
<1>1. s \in Seq(Letters) /\ Len(s) = 1
  OBVIOUS
<1>2. s[1] = x
  OBVIOUS
<1> QED BY <1>1, <1>2

\* What LIKE finds under each of the prefixes asked for, and what begins with it.
LEMMA LikeFinds ==
  ASSUME NEW prefix \in Store!Asked, NEW k \in Store!PairKeys
  PROVE  /\ Store!IsPrefix(prefix, k) => Store!Like(prefix, k)
         /\ "_" \in Store!ToSet(prefix) \/ (Store!Like(prefix, k) => Store!IsPrefix(prefix, k))
<1>1. prefix = << >> \/ prefix = <<"a">> \/ prefix = <<"_">>
  BY DEF Store!Asked
<1>2. k = <<"a", "x">> \/ k = <<"_", "x">> \/ k = <<"b">>
  BY DEF Store!PairKeys
<1>3. k \in Seq(Letters)
  <2>1. <<"a", "x">> \in Seq(Letters) /\ <<"_", "x">> \in Seq(Letters) /\ <<"b">> \in Seq(Letters)
    BY DEF Letters
  <2> QED BY <1>2, <2>1
<1>4. Len(k) \in Nat /\ Len(k) >= 1
  <2>1. CASE k = <<"a", "x">>
    <3>1. Len(k) = 2
      BY <2>1
    <3> QED BY <3>1
  <2>2. CASE k = <<"_", "x">>
    <3>1. Len(k) = 2
      BY <2>2
    <3> QED BY <3>1
  <2>3. CASE k = <<"b">>
    <3>1. Len(k) = 1
      BY <2>3
    <3> QED BY <3>1
  <2> QED BY <1>2, <2>1, <2>2, <2>3
<1>5. CASE prefix = << >>
  <2>1. Len(prefix) = 0 /\ SubSeq(prefix, 1, 0) = << >> /\ DOMAIN prefix = {}
    BY <1>5
  <2>2. SubSeq(k, 1, 0) = << >>
    BY <1>3
  <2>3. Store!IsPrefix(prefix, k)
    BY <1>4, <2>1, <2>2 DEF Store!IsPrefix
  <2>4. Store!Like(prefix, k)
    BY <1>4, <2>1 DEF Store!Like
  <2> QED BY <2>3, <2>4
<1>6. CASE prefix = <<"a">>
  <2>1. prefix \in Seq(Letters)
    BY <1>6 DEF Letters
  <2>2. Len(prefix) = 1 /\ prefix[1] = "a"
    <3>1. Len(prefix) = 1
      BY <1>6
    <3>2. prefix[1] = "a"
      BY <1>6
    <3> QED BY <3>1, <3>2
  <2>3. DOMAIN prefix = {1}
    BY <2>1, <2>2
  <2>4. SubSeq(prefix, 1, 1) = SubSeq(k, 1, 1) <=> k[1] = "a"
    BY <1>3, <1>4, <2>1, <2>2, SameFirst
  <2>5. Store!IsPrefix(prefix, k) <=> k[1] = "a"
    BY <1>4, <2>2, <2>4 DEF Store!IsPrefix
  <2>6. Store!Like(prefix, k) <=> k[1] = "a"
    BY <1>4, <2>2, <2>3 DEF Store!Like
  <2> QED BY <2>5, <2>6
<1>7. CASE prefix = <<"_">>
  <2>1. "_" \in Letters
    BY DEF Letters
  <2>2. Len(prefix) = 1 /\ prefix[1] = "_"
    BY <1>7, <2>1, OneLetter
  <2>3. DOMAIN prefix = {1}
    BY <1>7, <2>1, OneLetter
  <2>4. "_" \in Store!ToSet(prefix)
    BY <2>2, <2>3 DEF Store!ToSet
  <2>5. Store!Like(prefix, k)
    BY <1>4, <2>2, <2>3 DEF Store!Like
  <2> QED BY <2>4, <2>5
<1> QED BY <1>1, <1>5, <1>6, <1>7

\* A key has what was put last and is listed where it should.
LEMMA KvKept == KvInv => Store!KvIsLatest
<1> SUFFICES ASSUME KvInv PROVE Store!KvIsLatest
  OBVIOUS
<1>1. \A k \in Store!PairKeys : pairs[k].row <=> put[k] # 0
  BY DEF KvInv
<1>2. ASSUME NEW prefix \in Store!Asked
      PROVE  /\ {k \in Store!PairKeys : put[k] # 0 /\ Store!IsPrefix(prefix, k)} \subseteq Store!ListPrefix(prefix)
             /\ \/ "_" \in Store!ToSet(prefix)
                \/ Store!ListPrefix(prefix) = {k \in Store!PairKeys : put[k] # 0 /\ Store!IsPrefix(prefix, k)}
  BY <1>1, LikeFinds DEF Store!ListPrefix
<1> QED BY <1>2 DEF KvInv, Store!KvIsLatest

-----------------------------------------------------------------------------
(* Pages in files.  While clients take turns, who is at a page is alone,   *)
(* the file it has open is the one under the temporary name, and that is   *)
(* not the page's.                                                         *)
Docs == [body : Nat, stale : BOOLEAN]
Files == [kind : {"empty", "doc", "mixed"}, doc : Docs]
PageTyped ==
  /\ inodes \in Seq(Files) /\ page \in 0..Len(inodes) /\ temp \in 0..Len(inodes) /\ last \in Docs
  /\ writer \in [Processes -> [at : {"idle", "read", "open", "written"}, doc : Docs, file : Nat]]
OneAtIt == \A c, d \in Processes : writer[c].at # "idle" /\ writer[d].at # "idle" => c = d
PageWhole == IF page = 0 THEN last = Store!NoDoc ELSE inodes[page].kind = "doc" /\ inodes[page].doc = last
HandsHold ==
  \A c \in Processes :
    /\ writer[c].at = "open" => temp # 0 /\ writer[c].file = temp /\ inodes[temp].kind = "empty"
    /\ writer[c].at = "written" => temp # 0 /\ inodes[temp].kind = "doc" /\ inodes[temp].doc = writer[c].doc
PageInv ==
  /\ PageTyped
  /\ ~crossed => OneAtIt /\ PageWhole /\ HandsHold /\ (page = temp => page = 0)

\* There is no page at the start.
LEMMA PagesStart == Store!Init => PageInv
<1> SUFFICES ASSUME Store!Init PROVE PageInv
  OBVIOUS
<1>1. Store!NoDoc \in Docs
  BY DEF Store!NoDoc, Docs
<1>2. PICK away : away = Store!Away
  OBVIOUS
<1>7. away \in [at : {"idle", "read", "open", "written"}, doc : Docs, file : Nat] /\ away.at = "idle"
  BY <1>1, <1>2 DEF Store!Away
<1>3. writer = [c \in Processes |-> away] /\ page = 0 /\ temp = 0 /\ inodes = << >> /\ last = Store!NoDoc
  BY <1>2 DEF Store!Init
<1>4. inodes \in Seq(Files) /\ Len(inodes) = 0
  BY <1>3
<1>5. PageTyped
  BY <1>1, <1>3, <1>4, <1>7 DEF PageTyped
<1>6. \A c \in Processes : writer[c].at = "idle"
  BY <1>3, <1>7
<1> QED BY <1>3, <1>5, <1>6 DEF PageInv, OneAtIt, PageWhole, HandsHold

\* One client goes to another place of its call.
LEMMA HandMoves ==
  ASSUME PageTyped, NEW c \in Processes, NEW place \in {"idle", "read", "open", "written"}, NEW doc \in Docs,
         NEW f \in Nat, Store!At(c, place, doc, f)
  PROVE  /\ writer' \in [Processes -> [at : {"idle", "read", "open", "written"}, doc : Docs, file : Nat]]
         /\ writer'[c].at = place /\ writer'[c].doc = doc /\ writer'[c].file = f
         /\ \A d \in Processes \ {c} : writer'[d] = writer[d]
<1>1. PICK new : new = [at |-> place, doc |-> doc, file |-> f]
  OBVIOUS
<1>2. /\ new \in [at : {"idle", "read", "open", "written"}, doc : Docs, file : Nat]
      /\ new.at = place /\ new.doc = doc /\ new.file = f
  BY <1>1
<1>3. writer' = [writer EXCEPT ![c] = new]
  BY <1>1 DEF Store!At
<1> QED BY <1>2, <1>3 DEF PageTyped

\* A call begins: it is alone, or it crosses another.
LEMMA PageCallBegins ==
  ASSUME PageInv, NEW c \in Processes, NEW doc \in Docs, writer[c].at = "idle", Store!At(c, "read", doc, 0),
         crossed' = (crossed \/ Store!Busy(c)), UNCHANGED <<page, inodes, temp, last>>
  PROVE  PageInv'
<1>0. PageTyped
  BY DEF PageInv
<1>1. /\ writer' \in [Processes -> [at : {"idle", "read", "open", "written"}, doc : Docs, file : Nat]]
      /\ writer'[c].at = "read" /\ \A d \in Processes \ {c} : writer'[d] = writer[d]
  BY <1>0, HandMoves
<1>2. PageTyped'
  BY <1>0, <1>1 DEF PageTyped
<1>3. ASSUME ~crossed' PROVE OneAtIt' /\ PageWhole' /\ HandsHold' /\ (page' = temp' => page' = 0)
  <2>1. ~crossed /\ \A d \in Processes \ {c} : writer[d].at = "idle"
    BY <1>3 DEF Store!Busy
  <2>2. OneAtIt'
    BY <1>1, <2>1 DEF OneAtIt
  <2>3. HandsHold'
    BY <1>1, <2>1 DEF HandsHold
  <2>4. PageWhole' /\ (page' = temp' => page' = 0)
    BY <2>1 DEF PageWhole, PageInv
  <2> QED BY <2>2, <2>3, <2>4
<1> QED BY <1>2, <1>3 DEF PageInv

\* A client that is at a page is alone with it, if none crossed.
LEMMA AloneAtIt ==
  ASSUME PageInv, ~crossed, NEW c \in Processes, writer[c].at # "idle"
  PROVE  \A d \in Processes \ {c} : writer[d].at = "idle"
BY DEF PageInv, OneAtIt

\* The temporary file is opened, which is another than the page.
LEMMA TempOpens ==
  ASSUME PageInv, NEW c \in Processes, Store!OpenTemp(c)
  PROVE  PageInv'
<1>0. PageTyped /\ writer[c].at = "read" /\ writer[c].doc \in Docs
  BY DEF PageInv, PageTyped, Store!OpenTemp
<1>1. PICK f \in Nat : f = IF temp # 0 THEN temp ELSE Len(inodes) + 1
  BY <1>0 DEF PageTyped
<1>8. PICK empty : empty = [kind |-> "empty", doc |-> Store!NoDoc]
  OBVIOUS
<1>2. empty \in Files /\ empty.kind = "empty"
  BY <1>8 DEF Files, Docs, Store!NoDoc
<1>3. /\ temp' = f /\ Store!At(c, "open", writer[c].doc, f) /\ UNCHANGED <<page, crossed, last>>
      /\ inodes' = IF temp # 0 THEN [inodes EXCEPT ![f] = empty] ELSE Append(inodes, empty)
  BY <1>1, <1>8 DEF Store!OpenTemp
<1>4. /\ inodes' \in Seq(Files) /\ Len(inodes) <= Len(inodes') /\ f \in 1..Len(inodes') /\ inodes'[f] = empty
      /\ \A i \in 1..Len(inodes) : i # f => inodes'[i] = inodes[i]
  <2>1. CASE temp # 0
    BY <1>0, <1>1, <1>2, <1>3, <2>1 DEF PageTyped
  <2>2. CASE temp = 0
    <3>1. inodes' = Append(inodes, empty) /\ f = Len(inodes) + 1
      BY <1>1, <1>3, <2>2
    <3>2. inodes \in Seq(Files) /\ Len(inodes) \in Nat
      BY <1>0 DEF PageTyped
    <3> DEFINE u == Append(inodes, empty)
    <3>3. u \in Seq(Files) /\ Len(u) = Len(inodes) + 1 /\ u[Len(inodes) + 1] = empty
          /\ \A i \in 1..Len(inodes) : u[i] = inodes[i]
      BY <1>2, <3>2
    <3> HIDE DEF u
    <3> QED BY <3>1, <3>2, <3>3 DEF u
  <2> QED BY <2>1, <2>2
<1>5. /\ writer' \in [Processes -> [at : {"idle", "read", "open", "written"}, doc : Docs, file : Nat]]
      /\ writer'[c].at = "open" /\ writer'[c].file = f /\ \A d \in Processes \ {c} : writer'[d] = writer[d]
  BY <1>0, <1>3, HandMoves
<1>6. PageTyped'
  BY <1>0, <1>3, <1>4, <1>5 DEF PageTyped
<1>7. ASSUME ~crossed' PROVE OneAtIt' /\ PageWhole' /\ HandsHold' /\ (page' = temp' => page' = 0)
  <2>1. ~crossed /\ \A d \in Processes \ {c} : writer[d].at = "idle"
    BY <1>0, <1>3, <1>7, AloneAtIt
  <2>2. f # 0 /\ f # page
    BY <1>0, <1>1, <2>1 DEF PageTyped, PageInv
  <2>3. OneAtIt'
    BY <1>5, <2>1 DEF OneAtIt
  <2>4. HandsHold'
    BY <1>2, <1>3, <1>4, <1>5, <2>1, <2>2 DEF HandsHold
  <2>5. PageWhole'
    <3>1. page # 0 => inodes'[page] = inodes[page]
      BY <1>0, <1>4, <2>2 DEF PageTyped
    <3> QED BY <1>3, <2>1, <3>1 DEF PageWhole, PageInv
  <2> QED BY <1>3, <2>2, <2>3, <2>4, <2>5
<1> QED BY <1>6, <1>7 DEF PageInv

\* It is written: the document, or a mix where another writes too.
LEMMA TempWritten ==
  ASSUME PageInv, NEW c \in Processes, Store!WriteTemp(c)
  PROVE  PageInv'
<1>0. PageTyped /\ writer[c].at = "open" /\ writer[c].doc \in Docs /\ writer[c].file \in Nat
  BY DEF PageInv, PageTyped, Store!WriteTemp
<1>1. PICK f \in Nat : f = writer[c].file
  BY <1>0
<1>2. PICK doc \in Docs : doc = writer[c].doc
  BY <1>0
<1>3. PICK kind \in {"doc", "mixed"} :
        /\ inodes[f].kind = "empty" => kind = "doc"
        /\ inodes' = [inodes EXCEPT ![f] = [kind |-> kind, doc |-> IF kind = "doc" THEN doc ELSE Store!NoDoc]]
  BY <1>1, <1>2 DEF Store!WriteTemp
<1>4. PICK new : new = [kind |-> kind, doc |-> IF kind = "doc" THEN doc ELSE Store!NoDoc]
  OBVIOUS
<1>10. new \in Files /\ (kind = "doc" => new.kind = "doc" /\ new.doc = doc)
  <2>1. CASE kind = "doc"
    BY <1>4, <2>1 DEF Files
  <2>2. CASE kind = "mixed"
    BY <1>4, <2>2 DEF Files, Docs, Store!NoDoc
  <2> QED BY <2>1, <2>2
<1>5. /\ inodes' \in Seq(Files) /\ Len(inodes') = Len(inodes) /\ \A i \in 1..Len(inodes) : i # f
          => inodes'[i] = inodes[i]
      /\ f \in 1..Len(inodes) => inodes'[f] = new
  <2>1. inodes' = [inodes EXCEPT ![f] = new]
    BY <1>3, <1>4
  <2>2. PICK s \in Seq(Files) : s = inodes
    BY <1>0 DEF PageTyped
  <2> DEFINE u == [s EXCEPT ![f] = new]
  <2>6. new \in Files
    BY <1>10
  <2>3. u \in Seq(Files) /\ Len(u) = Len(s)
    <3>1. DOMAIN u = 1..Len(s)
      OBVIOUS
    <3>2. \A i \in 1..Len(s) : u[i] \in Files
      BY <2>6
    <3>3. u = [i \in 1..Len(s) |-> u[i]]
      BY <3>1
    <3>4. u \in [1..Len(s) -> Files]
      BY <3>2, <3>3
    <3>5. Len(s) \in Nat
      OBVIOUS
    <3> HIDE DEF u
    <3>6. u \in Seq(Files)
      BY <3>4, <3>5
    <3> QED BY <3>1, <3>5, <3>6
  <2>4. \A i \in 1..Len(s) : u[i] = IF i = f THEN new ELSE s[i]
    OBVIOUS
  <2>5. inodes' = u
    BY <2>1, <2>2
  <2> HIDE DEF u
  <2> QED BY <2>2, <2>3, <2>4, <2>5
<1>6. /\ writer' \in [Processes -> [at : {"idle", "read", "open", "written"}, doc : Docs, file : Nat]]
      /\ writer'[c].at = "written" /\ writer'[c].doc = doc /\ \A d \in Processes \ {c} : writer'[d] = writer[d]
  BY <1>0, <1>1, <1>2, HandMoves DEF Store!WriteTemp
<1>7. UNCHANGED <<page, temp, crossed, last>>
  BY DEF Store!WriteTemp
<1>8. PageTyped'
  BY <1>0, <1>5, <1>6, <1>7 DEF PageTyped
<1>9. ASSUME ~crossed' PROVE OneAtIt' /\ PageWhole' /\ HandsHold' /\ (page' = temp' => page' = 0)
  <2>1. ~crossed /\ \A d \in Processes \ {c} : writer[d].at = "idle"
    BY <1>0, <1>7, <1>9, AloneAtIt
  <2>2. temp # 0 /\ f = temp /\ inodes[f].kind = "empty" /\ f # page /\ f \in 1..Len(inodes)
    BY <1>0, <1>1, <2>1 DEF PageInv, HandsHold, PageTyped
  <2>3. OneAtIt'
    BY <1>6, <2>1 DEF OneAtIt
  <2>4. HandsHold'
    BY <1>3, <1>5, <1>6, <1>7, <1>10, <2>1, <2>2 DEF HandsHold
  <2>5. PageWhole'
    <3>1. page # 0 => inodes'[page] = inodes[page]
      BY <1>0, <1>5, <2>2 DEF PageTyped
    <3> QED BY <1>7, <2>1, <3>1 DEF PageWhole, PageInv
  <2> QED BY <1>7, <2>1, <2>3, <2>4, <2>5 DEF PageInv
<1> QED BY <1>8, <1>9 DEF PageInv

\* Every step of the clients keeps the invariant.
LEMMA PageStep ==
  ASSUME PageInv, Store!PageNext, count \in 0..MaxTexts
  PROVE  PageInv'
<1> USE MachineAssumption
<1>0. PageTyped /\ Store!NoDoc \in Docs
  BY DEF PageInv, Docs, Store!NoDoc
<1>1. ASSUME NEW c \in Processes, NEW stale \in BOOLEAN, Store!Mark(c, stale) PROVE PageInv'
  <2>1. page \in 1..Len(inodes) /\ inodes[page].doc \in Docs
    <3>1. page # 0
      BY <1>1 DEF Store!Mark, Store!IsDoc
    <3>2. inodes \in Seq(Files) /\ page \in 0..Len(inodes) /\ Len(inodes) \in Nat
      BY <1>0 DEF PageTyped
    <3>3. page \in 1..Len(inodes)
      BY <3>1, <3>2
    <3>4. inodes[page] \in Files
      BY <3>2, <3>3
    <3> QED BY <3>3, <3>4 DEF Files
  <2>2. PICK doc : doc = [inodes[page].doc EXCEPT !.stale = stale]
    OBVIOUS
  <2>3. doc \in Docs
    BY <2>1, <2>2 DEF Docs
  <2> QED BY <1>1, <2>2, <2>3, PageCallBegins DEF Store!Mark
<1>2. ASSUME NEW c \in Processes, Store!WritePage(c) PROVE PageInv'
  <2>1. count' \in Nat
    BY <1>2 DEF Store!WritePage, Store!New
  <2>2. PICK doc \in Docs : doc = [body |-> count', stale |-> FALSE]
    BY <2>1 DEF Docs
  <2> QED BY <1>2, <2>2, PageCallBegins DEF Store!WritePage
<1>3. ASSUME NEW c \in Processes, Store!ReplacePage(c) PROVE PageInv'
  <2>1. /\ writer[c].at = "written" /\ Store!At(c, "idle", Store!NoDoc, 0) /\ UNCHANGED <<inodes, crossed>>
        /\ IF temp = 0 THEN UNCHANGED <<page, temp, last>>
           ELSE page' = temp /\ temp' = 0 /\ last' = writer[c].doc
    BY <1>3 DEF Store!ReplacePage
  <2>2. /\ writer' \in [Processes -> [at : {"idle", "read", "open", "written"}, doc : Docs, file : Nat]]
        /\ writer'[c].at = "idle" /\ \A d \in Processes \ {c} : writer'[d] = writer[d]
    BY <1>0, <2>1, HandMoves
  <2>3. writer[c].doc \in Docs
    BY <1>0 DEF PageTyped
  <2>4. PageTyped'
    BY <1>0, <2>1, <2>2, <2>3 DEF PageTyped
  <2>5. ASSUME ~crossed' PROVE OneAtIt' /\ PageWhole' /\ HandsHold' /\ (page' = temp' => page' = 0)
    <3>1. ~crossed /\ \A d \in Processes \ {c} : writer[d].at = "idle"
      BY <2>1, <2>5, AloneAtIt
    <3>2. \A d \in Processes : writer'[d].at = "idle"
      BY <2>2, <3>1
    <3>3. temp # 0 /\ inodes[temp].kind = "doc" /\ inodes[temp].doc = writer[c].doc
      BY <2>1, <3>1 DEF PageInv, HandsHold
    <3>4. page' = temp /\ temp' = 0 /\ last' = writer[c].doc /\ inodes' = inodes
      BY <2>1, <3>3
    <3>5. PageWhole'
      BY <3>3, <3>4 DEF PageWhole
    <3> QED BY <3>2, <3>3, <3>4, <3>5 DEF OneAtIt, HandsHold
  <2> QED BY <2>4, <2>5 DEF PageInv
<1>4. ASSUME NEW c \in Processes, Store!WriterDies(c) PROVE PageInv'
  <2>1. Store!At(c, "idle", Store!NoDoc, 0) /\ UNCHANGED <<page, inodes, temp, crossed, last>>
    BY <1>4 DEF Store!WriterDies
  <2>2. /\ writer' \in [Processes -> [at : {"idle", "read", "open", "written"}, doc : Docs, file : Nat]]
        /\ writer'[c].at = "idle" /\ \A d \in Processes \ {c} : writer'[d] = writer[d]
    BY <1>0, <2>1, HandMoves
  <2>3. PageTyped'
    BY <1>0, <2>1, <2>2 DEF PageTyped
  <2>4. ~crossed => OneAtIt' /\ PageWhole' /\ HandsHold'
    BY <2>1, <2>2 DEF PageInv, OneAtIt, PageWhole, HandsHold
  <2> QED BY <2>1, <2>3, <2>4 DEF PageInv
<1>5. CASE Store!DeletePage
  <2>1. /\ page' = 0 /\ last' = Store!NoDoc /\ UNCHANGED <<inodes, temp, writer>>
        /\ ~crossed' => ~crossed /\ \A c \in Processes : writer[c].at = "idle"
    BY <1>5 DEF Store!DeletePage
  <2>2. PageTyped'
    BY <1>0, <2>1 DEF PageTyped
  <2> QED BY <2>1, <2>2 DEF PageInv, OneAtIt, PageWhole, HandsHold
<1> QED BY <1>1, <1>2, <1>3, <1>4, <1>5, TempOpens, TempWritten DEF Store!PageNext

\* A page is whole while clients take turns.
LEMMA PagesKept == PageInv => Store!PagesAreWhole
BY DEF PageInv, PageTyped, PageWhole, Store!PagesAreWhole, Store!IsDoc

-----------------------------------------------------------------------------
(* Checkpoints.  A process about to commit has the database's lock, and no *)
(* row came since it found none.                                           *)
Saves == [at : {"idle", "insert", "update", "delete", "commit"}, key : Keys, text : Nat]
CheckpointTyped ==
  /\ saved \in [Keys -> Nat] /\ promised \in [Keys -> Nat] /\ saver \in [Processes -> Saves]
  /\ writes \in [by : Processes \cup {"nobody"}, key : Keys, text : Nat, hit : BOOLEAN]
CommitsHold ==
  \A p \in Processes : saver[p].at = "commit" => writes.by = p /\ (~writes.hit => saved[writes.key] = 0)
CheckpointInv == CheckpointTyped /\ CommitsHold /\ Archive!CheckpointsHold

\* There is a key.
LEMMA AnyKeyIsOne == Archive!AnyKey \in Keys
BY StoresAssumption DEF Archive!AnyKey

\* Nothing is saved at the start.
LEMMA CheckpointsStart == Archive!Init => CheckpointInv
<1> SUFFICES ASSUME Archive!Init PROVE CheckpointInv
  OBVIOUS
<1>1w. PICK idle : idle = Archive!Idle
  OBVIOUS
<1>1. idle \in Saves /\ idle = Archive!Idle /\ idle.at = "idle"
  BY <1>1w, AnyKeyIsOne DEF Saves, Archive!Idle
<1>2. /\ saver = [p \in Processes |-> idle] /\ saved = [k \in Keys |-> 0]
          /\ promised = [k \in Keys |-> 0]
      /\ writes = Archive!Unlocked
  BY <1>1 DEF Archive!Init
<1>3. writes \in [by : Processes \cup {"nobody"}, key : Keys, text : Nat, hit : BOOLEAN]
          /\ writes.by = "nobody"
  BY <1>2, AnyKeyIsOne DEF Archive!Unlocked
<1>4. \A p \in Processes : saver[p] = idle
  BY <1>2
<1>5. \A k \in Keys : saved[k] = promised[k]
  BY <1>2 
<1> QED BY <1>1, <1>2, <1>3, <1>4, <1>5 DEF CheckpointInv, CheckpointTyped, CommitsHold, Archive!CheckpointsHold

\* One process goes to another place of its call.
LEMMA SaverMoves ==
  ASSUME CheckpointTyped, NEW p \in Processes, NEW new \in Saves, saver' = [saver EXCEPT ![p] = new]
  PROVE  saver' \in [Processes -> Saves] /\ saver'[p] = new /\ \A q \in Processes \ {p} : saver'[q] = saver[q]
BY DEF CheckpointTyped

\* A call begins or ends, and neither the lock nor what is saved changes.
LEMMA SaverGoes ==
  ASSUME CheckpointInv, NEW p \in Processes, saver[p].at # "commit", NEW new \in Saves, new.at # "commit",
         saver' = [saver EXCEPT ![p] = new], UNCHANGED <<saved, writes, failed, promised, swept>>
  PROVE  CheckpointInv'
<1>1. saver' \in [Processes -> Saves] /\ saver'[p] = new /\ \A q \in Processes \ {p} : saver'[q] = saver[q]
  BY SaverMoves DEF CheckpointInv
<1>2. CheckpointTyped'
  BY <1>1 DEF CheckpointInv, CheckpointTyped
<1>3. CommitsHold'
  BY <1>1 DEF CheckpointInv, CommitsHold
<1>4. Archive!CheckpointsHold'
  <2>1. writes.by # "nobody" => saver'[writes.by].at = "commit" \/ writes.by \in failed
    <3>1. CASE writes.by = p
      BY <3>1 DEF CheckpointInv, Archive!CheckpointsHold
    <3>2. CASE writes.by # p
      BY <1>1, <3>2 DEF CheckpointInv, CheckpointTyped, Archive!CheckpointsHold
    <3> QED BY <3>1, <3>2
  <2> QED BY <2>1 DEF CheckpointInv, Archive!CheckpointsHold
<1> QED BY <1>2, <1>3, <1>4 DEF CheckpointInv

\* Every step of the processes keeps the invariant.
LEMMA CheckpointStep ==
  ASSUME CheckpointInv, Archive!CheckpointNext, stored \in Nat
  PROVE  CheckpointInv'
<1>0. CheckpointTyped /\ CommitsHold /\ Archive!CheckpointsHold
  BY DEF CheckpointInv
<1>iw. PICK idle : idle = Archive!Idle
  OBVIOUS
<1>i. idle \in Saves /\ idle = Archive!Idle /\ idle.at = "idle"
  BY <1>iw, AnyKeyIsOne DEF Saves, Archive!Idle
<1>uw. PICK unlocked : unlocked = Archive!Unlocked
  OBVIOUS
<1>u. /\ unlocked \in [by : Processes \cup {"nobody"}, key : Keys, text : Nat, hit : BOOLEAN]
      /\ unlocked = Archive!Unlocked /\ unlocked.by = "nobody"
  BY <1>uw, AnyKeyIsOne DEF Archive!Unlocked
<1>1. ASSUME NEW p \in Processes, NEW k \in Keys, Archive!SaveLooks(p, k) PROVE CheckpointInv'
  <2>1. stored' \in Nat
    BY <1>1 DEF Archive!SaveLooks, Archive!NewCall
  <2>2w. PICK new : new = [at |-> IF saved[k] = 0 THEN "insert" ELSE "update", key |-> k, text |-> stored']
    OBVIOUS
  <2>2. new \in Saves
            /\ new = [at |-> IF saved[k] = 0 THEN "insert" ELSE "update", key |-> k, text |-> stored']
              /\ new.at # "commit"
    BY <2>2w, <2>1 DEF Saves
  <2>3. /\ saver[p].at # "commit" /\ saver' = [saver EXCEPT ![p] = new]
        /\ UNCHANGED <<saved, writes, failed, promised, swept>>
    BY <1>1, <2>2 DEF Archive!SaveLooks
  <2> QED BY <2>2, <2>3, SaverGoes
<1>2. ASSUME NEW p \in Processes, NEW k \in Keys, Archive!Reset(p, k) PROVE CheckpointInv'
  <2>1w. PICK new : new = [at |-> "delete", key |-> k, text |-> 0]
    OBVIOUS
  <2>1. new \in Saves /\ new = [at |-> "delete", key |-> k, text |-> 0] /\ new.at # "commit"
    BY <2>1w DEF Saves
  <2>2. /\ saver[p].at # "commit" /\ saver' = [saver EXCEPT ![p] = new]
        /\ UNCHANGED <<saved, writes, failed, promised, swept>>
    BY <1>2, <2>1 DEF Archive!Reset
  <2> QED BY <2>1, <2>2, SaverGoes
<1>3. ASSUME NEW p \in Processes, Archive!LockRefused(p) PROVE CheckpointInv'
  <2>1. /\ saver[p].at # "commit" /\ saver' = [saver EXCEPT ![p] = idle]
        /\ UNCHANGED <<saved, writes, failed, promised, swept>>
    BY <1>3, <1>i DEF Archive!LockRefused
  <2> QED BY <1>i, <2>1, SaverGoes
<1>4. ASSUME NEW p \in Processes, Archive!SaveWrites(p) PROVE CheckpointInv'
  <2>1w. PICK s : s = saver[p]
    OBVIOUS
  <2>1. s \in Saves /\ s = saver[p] /\ s.at \in {"update", "delete", "insert"}
    BY <2>1w, <1>0, <1>4 DEF CheckpointTyped, Archive!SaveWrites
  <2>2. PICK key \in Keys, text \in Nat : s.key = key /\ s.text = text
    BY <2>1 DEF Saves
  <2>3w. PICK new : new = [saver[p] EXCEPT !.at = "commit"]
    OBVIOUS
  <2>3. new \in Saves /\ new = [saver[p] EXCEPT !.at = "commit"] /\ new.at = "commit"
    BY <2>3w, <2>1 DEF Saves
  <2>4. writes.by \in {"nobody", p} /\ saver' = [saver EXCEPT ![p] = new]
            /\ UNCHANGED <<saved, failed, promised, swept>>
    BY <1>4, <2>3 DEF Archive!SaveWrites, Archive!Locked
  <2>5. writes' = [by |-> p, key |-> key, text |-> text, hit |-> s.at = "insert" \/ saved[key] # 0]
    BY <1>4, <2>1, <2>2 DEF Archive!SaveWrites
  <2>6. /\ writes' \in [by : Processes \cup {"nobody"}, key : Keys, text : Nat, hit : BOOLEAN]
        /\ writes'.by = p /\ writes'.key = key /\ (~writes'.hit => saved[key] = 0)
    BY <2>5 
  <2>7. saver' \in [Processes -> Saves] /\ saver'[p] = new /\ \A q \in Processes \ {p} : saver'[q] = saver[q]
    BY <1>0, <2>3, <2>4, SaverMoves
  <2>8. CheckpointTyped'
    BY <1>0, <2>4, <2>6, <2>7 DEF CheckpointTyped
  <2>9. CommitsHold'
    BY <1>0, <2>1, <2>3, <2>4, <2>6, <2>7, StoresAssumption DEF CommitsHold
  <2>10. Archive!CheckpointsHold'
    BY <1>0, <2>3, <2>4, <2>6, <2>7 DEF Archive!CheckpointsHold
  <2> QED BY <2>8, <2>9, <2>10 DEF CheckpointInv
<1>5. ASSUME NEW p \in Processes, Archive!InsertRefused(p) PROVE CheckpointInv'
  <2>1. /\ saver[p].at = "insert" /\ writes.by \in {"nobody", p} /\ saver' = [saver EXCEPT ![p] = idle]
        /\ writes' = [unlocked EXCEPT !.by = p] /\ failed' = failed \cup {p}
            /\ UNCHANGED <<saved, promised, swept>>
    BY <1>5, <1>i, <1>u DEF Archive!InsertRefused, Archive!Locked
  <2>2. writes' \in [by : Processes \cup {"nobody"}, key : Keys, text : Nat, hit : BOOLEAN] /\ writes'.by = p
    <3>1. p \in Processes \cup {"nobody"}
      OBVIOUS
    <3>2. writes' = [unlocked EXCEPT !.by = p]
      BY <2>1
    <3> QED BY <1>u, <3>1, <3>2
  <2>3. saver' \in [Processes -> Saves] /\ saver'[p] = idle /\ \A q \in Processes \ {p} : saver'[q] = saver[q]
    BY <1>0, <1>i, <2>1, SaverMoves
  <2>4. CheckpointTyped'
    BY <1>0, <2>1, <2>2, <2>3 DEF CheckpointTyped
  <2>5. \A q \in Processes : saver[q].at # "commit"
    BY <1>0, <2>1, StoresAssumption DEF CommitsHold
  <2>6. CommitsHold'
    BY <1>i, <2>3, <2>5 DEF CommitsHold
  <2>7. Archive!CheckpointsHold'
    BY <1>0, <2>1, <2>2 DEF Archive!CheckpointsHold
  <2> QED BY <2>4, <2>6, <2>7 DEF CheckpointInv
<1>6. ASSUME NEW p \in Processes, Archive!Commits(p) PROVE CheckpointInv'
  <2>1. PICK key \in Keys, text \in Nat, hit \in BOOLEAN :
          writes.key = key /\ writes.text = text /\ writes.hit = hit
    BY <1>0 DEF CheckpointTyped
  <2>2. /\ saver[p].at = "commit" /\ saver' = [saver EXCEPT ![p] = idle] /\ failed' = failed \ {p}
        /\ saved' = (IF hit THEN [saved EXCEPT ![key] = text] ELSE saved)
        /\ promised' = [promised EXCEPT ![key] = text] /\ writes' = unlocked
        /\ swept' = (IF hit \/ text = 0 THEN swept \ {key} ELSE swept \cup {key})
    BY <1>6, <1>i, <1>u, <2>1 DEF Archive!Commits
  <2>3. writes.by = p /\ (~hit => saved[key] = 0)
    BY <1>0, <2>1, <2>2 DEF CommitsHold
  <2>4. saver' \in [Processes -> Saves] /\ saver'[p] = idle /\ \A q \in Processes \ {p} : saver'[q] = saver[q]
    BY <1>0, <1>i, <2>2, SaverMoves
  <2>5. saved' \in [Keys -> Nat] /\ promised' \in [Keys -> Nat]
    BY <1>0, <2>1, <2>2 DEF CheckpointTyped
  <2>6. CheckpointTyped'
    BY <1>0, <1>u, <2>2, <2>4, <2>5 DEF CheckpointTyped
  <2>7. \A q \in Processes : saver'[q].at # "commit"
    BY <1>0, <1>i, <2>3, <2>4 DEF CommitsHold
  <2>8. \A k \in Keys : saved'[k] = promised'[k] \/ k \in swept'
    <3> SUFFICES ASSUME NEW k \in Keys PROVE saved'[k] = promised'[k] \/ k \in swept'
      OBVIOUS
    <3>1. CASE k # key
      <4>1. saved'[k] = saved[k] /\ promised'[k] = promised[k]
        BY <1>0, <2>1, <2>2, <3>1 DEF CheckpointTyped
      <4>2. saved[k] = promised[k] \/ k \in swept
        BY <1>0 DEF Archive!CheckpointsHold
      <4>3. k \in swept => k \in swept'
        BY <2>2, <3>1
      <4> QED BY <4>1, <4>2, <4>3
    <3>2. CASE k = key
      <4>1. promised'[key] = text
        BY <1>0, <2>1, <2>2 DEF CheckpointTyped
      <4>2. CASE hit
        <5>1. saved'[key] = text
          BY <1>0, <2>1, <2>2, <4>2 DEF CheckpointTyped
        <5> QED BY <3>2, <4>1, <5>1
      <4>3. CASE ~hit
        <5>1. saved'[key] = 0
          BY <2>2, <2>3, <4>3
        <5>2. text = 0 \/ key \in swept'
          BY <2>2, <4>3
        <5> QED BY <3>2, <4>1, <5>1, <5>2
      <4> QED BY <4>2, <4>3
    <3> QED BY <3>1, <3>2
  <2>9. Archive!CheckpointsHold'
    BY <1>u, <2>2, <2>8 DEF Archive!CheckpointsHold
  <2> QED BY <2>6, <2>7, <2>9 DEF CheckpointInv, CommitsHold
<1>7. ASSUME NEW p \in Processes, Archive!SaverDies(p) PROVE CheckpointInv'
  <2>1. /\ saver' = [saver EXCEPT ![p] = idle] /\ failed' = failed \ {p}
        /\ writes' = (IF writes.by = p THEN unlocked ELSE writes) /\ UNCHANGED <<saved, promised, swept>>
    BY <1>7, <1>i, <1>u DEF Archive!SaverDies
  <2>2. saver' \in [Processes -> Saves] /\ saver'[p] = idle /\ \A q \in Processes \ {p} : saver'[q] = saver[q]
    BY <1>0, <1>i, <2>1, SaverMoves
  <2>3. CheckpointTyped'
    <3>1. writes' = writes \/ writes' = unlocked
      BY <2>1
    <3>2. writes' \in [by : Processes \cup {"nobody"}, key : Keys, text : Nat, hit : BOOLEAN]
      BY <1>0, <1>u, <3>1 DEF CheckpointTyped
    <3> QED BY <1>0, <2>1, <2>2, <3>2 DEF CheckpointTyped
  <2>4. CommitsHold'
    BY <1>0, <1>i, <2>1, <2>2 DEF CommitsHold
  <2>5. writes'.by # "nobody" => saver'[writes'.by].at = "commit" \/ writes'.by \in failed'
    <3>1. CASE writes.by = p
      BY <1>u, <2>1, <3>1
    <3>2. CASE writes.by # p
      BY <1>0, <2>1, <2>2, <3>2 DEF CheckpointTyped, Archive!CheckpointsHold
    <3> QED BY <3>1, <3>2
  <2>6. Archive!CheckpointsHold'
    BY <1>0, <2>1, <2>5 DEF Archive!CheckpointsHold
  <2> QED BY <2>3, <2>4, <2>6 DEF CheckpointInv
<1> QED BY <1>1, <1>2, <1>3, <1>4, <1>5, <1>6, <1>7
  DEF Archive!CheckpointNext

-----------------------------------------------------------------------------
(* Nodes as pages: what a page says is what was saved last, unless it is   *)
(* about to be deleted or a deletion was cut.                              *)
Ends == {"n", "n-"}
Pagers == [at : {"idle", "saving", "deleting"}, key : Ends, text : Nat]
NodeTyped ==
  /\ canon \in [Ends -> Nat] /\ legacy \in [Ends -> Nat] /\ node \in [Ends -> Nat]
  /\ pager \in [Processes -> Pagers] /\ \A p \in Processes : pager[p].at = "saving" => pager[p].text # 0
Deleting(n) == \E p \in Processes : pager[p].at = "deleting" /\ pager[p].key = n
NodeInv == NodeTyped /\ \A n \in Ends : Deleting(n) \/ n \in cut \/ Archive!GetNode(n) = node[n]

\* At the start there are the pages under the older names.
LEMMA NodesStart == Archive!Init => NodeInv
<1> SUFFICES ASSUME Archive!Init PROVE NodeInv
  OBVIOUS
<1>1w. PICK idle : idle = [Archive!Idle EXCEPT !.key = "n"]
  OBVIOUS
<1>1. idle \in Pagers /\ idle = [Archive!Idle EXCEPT !.key = "n"] /\ idle.at = "idle"
  BY <1>1w DEF Pagers, Archive!Idle, Ends
<1>2. /\ pager = [p \in Processes |-> idle] /\ canon = [n \in Ends |-> 0] /\ legacy = [n \in Ends |-> MaxStored + 1]
          /\ node = legacy
  BY <1>1 DEF Archive!Init, Archive!Nodes, Ends
<1>3. NodeTyped
  <2>1. PICK k \in Nat : k = MaxStored + 1
    BY StoresAssumption
  <2>2. legacy = [n \in Ends |-> k]
    BY <1>2, <2>1
  <2> QED BY <1>1, <1>2, <2>2 DEF NodeTyped
<1> QED BY <1>2, <1>3 DEF NodeInv, Archive!GetNode

\* One process goes to another place of its call.
LEMMA PagerMoves ==
  ASSUME NodeTyped, NEW p \in Processes, NEW place \in {"idle", "saving", "deleting"}, NEW n \in Ends,
    NEW text \in Nat,
         Archive!Page(p, place, n, text)
  PROVE  /\ pager' \in [Processes -> Pagers] /\ pager'[p].at = place /\ pager'[p].key = n /\ pager'[p].text = text
         /\ \A q \in Processes \ {p} : pager'[q] = pager[q]
<1>1w. PICK new : new = [at |-> place, key |-> n, text |-> text]
  OBVIOUS
<1>1. new \in Pagers /\ new = [at |-> place, key |-> n, text |-> text] /\ new.at = place /\ new.key = n
          /\ new.text = text
  BY <1>1w DEF Pagers
<1>2. pager' = [pager EXCEPT ![p] = new]
  BY <1>1 DEF Archive!Page
<1> QED BY <1>1, <1>2 DEF NodeTyped

\* Every step of the processes keeps the invariant.
LEMMA NodeStep ==
  ASSUME NodeInv, Archive!NodeNext, stored \in Nat
  PROVE  NodeInv'
<1>0. NodeTyped /\ "n" \in Ends
  BY DEF NodeInv, Ends
<1>1. ASSUME NEW p \in Processes, NEW n \in Ends, Archive!SaveNode(p, n) PROVE NodeInv'
  <2>1. stored' \in Nat \ {0} /\ pager[p].at = "idle" /\ UNCHANGED <<canon, legacy, node, cut>>
    BY <1>1 DEF Archive!SaveNode, Archive!NewCall
  <2>2. /\ pager' \in [Processes -> Pagers] /\ pager'[p].at = "saving" /\ pager'[p].text = stored'
        /\ \A q \in Processes \ {p} : pager'[q] = pager[q]
    BY <1>0, <1>1, <2>1, PagerMoves DEF Archive!SaveNode
  <2>3. NodeTyped'
    BY <1>0, <2>1, <2>2 DEF NodeTyped
  <2>4. \A m \in Ends : Deleting(m)' <=> Deleting(m)
    BY <2>1, <2>2 DEF Deleting
  <2> QED BY <2>1, <2>3, <2>4 DEF NodeInv, Archive!GetNode
<1>2. ASSUME NEW p \in Processes, Archive!PutNode(p) PROVE NodeInv'
  <2>1. PICK n \in Ends, text \in Nat \ {0} : n = pager[p].key /\ text = pager[p].text
    BY <1>0, <1>2 DEF NodeTyped, Pagers, Archive!PutNode
  <2>2. /\ pager[p].at = "saving" /\ canon' = [canon EXCEPT ![n] = text] /\ node' = [node EXCEPT ![n] = text]
        /\ cut' = cut \ {n} /\ legacy' = legacy
    BY <1>2, <2>1 DEF Archive!PutNode
  <2>3. pager' \in [Processes -> Pagers] /\ pager'[p].at = "idle" /\ \A q \in Processes \ {p} : pager'[q] = pager[q]
    BY <1>0, <1>2, PagerMoves DEF Archive!PutNode
  <2>4. canon' \in [Ends -> Nat] /\ node' \in [Ends -> Nat]
    BY <1>0, <2>1, <2>2 DEF NodeTyped
  <2>5. NodeTyped'
    BY <1>0, <2>2, <2>3, <2>4 DEF NodeTyped
  <2>6. \A m \in Ends : Deleting(m)' <=> Deleting(m)
    BY <2>2, <2>3 DEF Deleting
  <2>7. canon'[n] = text /\ node'[n] = text /\ \A m \in Ends \ {n} : canon'[m] = canon[m] /\ node'[m] = node[m]
    BY <1>0, <2>1, <2>2 DEF NodeTyped
  <2> QED BY <2>1, <2>2, <2>5, <2>6, <2>7 DEF NodeInv, Archive!GetNode
<1>3. ASSUME NEW p \in Processes, NEW n \in Ends, Archive!DeleteCanon(p, n) PROVE NodeInv'
  <2>1. pager[p].at = "idle" /\ canon' = [canon EXCEPT ![n] = 0] /\ UNCHANGED <<legacy, node, cut>>
    BY <1>3 DEF Archive!DeleteCanon
  <2>2. /\ pager' \in [Processes -> Pagers] /\ pager'[p].at = "deleting" /\ pager'[p].key = n
        /\ \A q \in Processes \ {p} : pager'[q] = pager[q]
    BY <1>0, <1>3, PagerMoves DEF Archive!DeleteCanon
  <2>3. canon' \in [Ends -> Nat] /\ \A m \in Ends \ {n} : canon'[m] = canon[m]
    BY <1>0, <2>1 DEF NodeTyped
  <2>4. NodeTyped'
    BY <1>0, <2>1, <2>2, <2>3 DEF NodeTyped
  <2>5. Deleting(n)' /\ \A m \in Ends : Deleting(m) => Deleting(m)'
    BY <2>1, <2>2 DEF Deleting
  <2> QED BY <2>1, <2>3, <2>4, <2>5 DEF NodeInv, Archive!GetNode
<1>4. ASSUME NEW p \in Processes, Archive!DeleteLegacy(p) PROVE NodeInv'
  <2>1w. PICK n : n = pager[p].key
    OBVIOUS
  <2>1. n \in Ends /\ n = pager[p].key
    BY <2>1w, <1>0 DEF NodeTyped, Pagers
  <2>2. /\ pager[p].at = "deleting" /\ legacy' = [legacy EXCEPT ![n] = 0]
            /\ node' = [node EXCEPT ![n] = canon[n]]
        /\ UNCHANGED <<canon, cut>>
    BY <1>4, <2>1 DEF Archive!DeleteLegacy
  <2>3. pager' \in [Processes -> Pagers] /\ pager'[p].at = "idle" /\ \A q \in Processes \ {p} : pager'[q] = pager[q]
    BY <1>0, <1>4, PagerMoves DEF Archive!DeleteLegacy
  <2>4. legacy' \in [Ends -> Nat] /\ node' \in [Ends -> Nat]
    BY <1>0, <2>2 DEF NodeTyped
  <2>5. NodeTyped'
    BY <1>0, <2>2, <2>3, <2>4 DEF NodeTyped
  <2>6. /\ legacy'[n] = 0 /\ node'[n] = canon[n]
        /\ \A m \in Ends \ {n} : legacy'[m] = legacy[m] /\ node'[m] = node[m] /\ (Deleting(m)' <=> Deleting(m))
    BY <1>0, <2>1, <2>2, <2>3 DEF NodeTyped, Deleting
  <2> QED BY <2>2, <2>5, <2>6 DEF NodeInv, Archive!GetNode
<1>5. ASSUME NEW p \in Processes, Archive!PagerDies(p) PROVE NodeInv'
  <2>1. /\ cut' = (IF pager[p].at = "deleting" THEN cut \cup {pager[p].key} ELSE cut)
        /\ UNCHANGED <<canon, legacy, node>>
    BY <1>5 DEF Archive!PagerDies
  <2>2. pager' \in [Processes -> Pagers] /\ pager'[p].at = "idle" /\ \A q \in Processes \ {p} : pager'[q] = pager[q]
    BY <1>0, <1>5, PagerMoves DEF Archive!PagerDies
  <2>3. NodeTyped'
    BY <1>0, <2>1, <2>2 DEF NodeTyped
  <2>4. \A m \in Ends : Deleting(m) => Deleting(m)' \/ m \in cut'
    BY <2>1, <2>2 DEF Deleting
  <2> QED BY <2>1, <2>3, <2>4 DEF NodeInv, Archive!GetNode
<1> QED BY <1>1, <1>2, <1>3, <1>4, <1>5 DEF Archive!NodeNext, Archive!Nodes, Ends

\* Both ways of reading a node agree.
LEMMA NodesKept == NodeInv => Archive!NodesAgree
<1> SUFFICES ASSUME NodeInv, NEW n \in Ends
             PROVE  /\ (\A p \in Processes : pager[p].at # "deleting" \/ pager[p].key # n) /\ n \notin cut
                       => Archive!GetNode(n) = node[n]
                    /\ Archive!LoadAll(n) # Archive!GetNode(n) => n = "n-" /\ legacy[n] # 0
  BY DEF Archive!NodesAgree, Archive!Nodes, Ends
<1>1. (\A p \in Processes : pager[p].at # "deleting" \/ pager[p].key # n) => ~Deleting(n)
  BY DEF Deleting
<1>2. Archive!LoadAll(n) # Archive!GetNode(n) => n = "n-" /\ legacy[n] # 0
  BY DEF Archive!LoadAll, Archive!GetNode
<1> QED BY <1>1, <1>2 DEF NodeInv

-----------------------------------------------------------------------------
(* A population within its limit.                                          *)

\* One sequence after another, and one more element.
LEMMA TwoInOne ==
  ASSUME NEW S, NEW a \in Seq(S), NEW b \in Seq(S)
  PROVE  /\ a \o b \in Seq(S) /\ Len(a \o b) = Len(a) + Len(b) /\ (\A j \in 1..Len(a) : (a \o b)[j] = a[j])
         /\ \A j \in Len(a) + 1..Len(a) + Len(b) : (a \o b)[j] = b[j - Len(a)]
<1>1. a \o b \in Seq(S)
  OBVIOUS
<1>2. Len(a \o b) = Len(a) + Len(b)
  OBVIOUS
<1>3. \A j \in 1..Len(a) : (a \o b)[j] = a[j]
  OBVIOUS
<1>4. \A j \in Len(a) + 1..Len(a) + Len(b) : (a \o b)[j] = b[j - Len(a)]
  OBVIOUS
<1> QED BY <1>1, <1>2, <1>3, <1>4
\* A sequence and one more element.
LEMMA OneMore ==
  ASSUME NEW S, NEW s \in Seq(S), NEW x \in S
  PROVE  /\ Append(s, x) \in Seq(S) /\ Len(Append(s, x)) = Len(s) + 1 /\ Append(s, x)[Len(s) + 1] = x
         /\ \A j \in 1..Len(s) : Append(s, x)[j] = s[j]
OBVIOUS

\* What is left of a sequence without one of its elements.
LEMMA Removed ==
  ASSUME NEW S, NEW s \in Seq(S), NEW i \in 1..Len(s)
  PROVE  /\ Archive!RemoveAt(s, i) \in Seq(S) /\ Len(Archive!RemoveAt(s, i)) = Len(s) - 1
         /\ \A j \in 1..Len(s) - 1 : Archive!RemoveAt(s, i)[j] = IF j < i THEN s[j] ELSE s[j + 1]
<1> DEFINE a == SubSeq(s, 1, i - 1)
           b == SubSeq(s, i + 1, Len(s))
           c == a \o b
<1>1. a \in Seq(S) /\ Len(a) = i - 1 /\ \A j \in 1..i - 1 : a[j] = s[j]
  OBVIOUS
<1>2. b \in Seq(S) /\ Len(b) = Len(s) - i /\ \A j \in 1..Len(s) - i : b[j] = s[j + i]
  OBVIOUS
<1> HIDE DEF a, b
<1>3. c \in Seq(S) /\ Len(c) = Len(a) + Len(b) /\ (\A j \in 1..Len(a) : c[j] = a[j])
      /\ \A j \in Len(a) + 1..Len(a) + Len(b) : c[j] = b[j - Len(a)]
  <2>1. a \in Seq(S) /\ b \in Seq(S)
    BY <1>1, <1>2
  <2> QED BY <2>1, TwoInOne
<1>4. c = Archive!RemoveAt(s, i)
  BY DEF a, b, Archive!RemoveAt
<1> HIDE DEF c
<1>5. \A j \in 1..Len(s) - 1 : c[j] = IF j < i THEN s[j] ELSE s[j + 1]
  <2> SUFFICES ASSUME NEW j \in 1..Len(s) - 1 PROVE c[j] = IF j < i THEN s[j] ELSE s[j + 1]
    OBVIOUS
  <2>1. CASE j < i
    BY <1>1, <1>3, <2>1
  <2>2. CASE ~(j < i)
    <3>1. j \in Len(a) + 1..Len(a) + Len(b) /\ j - Len(a) \in 1..Len(s) - i /\ (j - Len(a)) + i = j + 1
      BY <1>1, <1>2, <2>2
    <3> QED BY <1>2, <1>3, <2>2, <3>1
  <2> QED BY <2>1, <2>2
<1>6. c \in Seq(S) /\ Len(c) = Len(s) - 1
  BY <1>1, <1>2, <1>3
<1> QED BY <1>4, <1>5, <1>6

Genomes == [score : 0..2, active : BOOLEAN]
GenomeInv == pool \in Seq(Genomes) /\ dropped \in Genomes /\ Archive!GenomesAreKept

\* The population is empty at the start.
LEMMA GenomesStart == Archive!Init => GenomeInv
<1> SUFFICES ASSUME Archive!Init PROVE GenomeInv
  OBVIOUS
<1>1. pool = << >> /\ dropped = [score |-> 0, active |-> FALSE]
  BY DEF Archive!Init, Archive!NoDrop
<1>2. << >> \in Seq(Genomes) /\ Len(<< >>) = 0 /\ 0 <= Limit
  BY StoresAssumption
<1>3. dropped \in Genomes /\ ~dropped.active
  BY <1>1 DEF Genomes
<1> QED BY <1>1, <1>2, <1>3 DEF GenomeInv, Archive!GenomesAreKept

\* Of the numbers up to n that are chosen one is the least.
LEMMA LeastIndex ==
  ASSUME NEW n \in Nat, NEW T, T \subseteq 1..n, T # {}
  PROVE  \E i \in T : \A j \in 1..i - 1 : j \notin T
<1>1. IsFiniteSet(T)
  <2>1. IsFiniteSet(1..n)
    BY FS_Interval
  <2> QED BY <2>1, FS_Subset
<1> DEFINE f == [i \in T |-> i]
<1>2. f \in [T -> Int]
  OBVIOUS
<1>3. PICK i \in T : \A j \in T : f[i] <= f[j]
  <2> HIDE DEF f
  <2> QED BY <1>1, <1>2, FiniteLeast
<1>4. \A j \in T : i <= j
  BY <1>3
<1>5. \A j \in 1..i - 1 : j \notin T
  BY <1>4
<1> QED BY <1>5

\* Of some genomes an inactive one goes first, then one with the least score.
LEMMA VictimIsLeast ==
  ASSUME NEW all \in Seq(Genomes), Len(all) # 0
  PROVE  /\ Archive!Victim(all) \in 1..Len(all)
         /\ all[Archive!Victim(all)].active =>
              \A i \in 1..Len(all) : all[i].active /\ all[Archive!Victim(all)].score <= all[i].score
<1> DEFINE n == Len(all)
           v == Archive!Victim(all)
<1>1. n \in Nat \ {0} /\ DOMAIN all = 1..n /\ \A i \in 1..n : all[i] \in Genomes
  <2>1. n \in Nat \ {0} /\ DOMAIN all = 1..n
    OBVIOUS
  <2>2. \A i \in 1..n : all[i] \in Genomes
    OBVIOUS
  <2> QED BY <2>1, <2>2
<1>2. CASE \E i \in DOMAIN all : ~all[i].active
  <2> DEFINE P(i) == ~all[i].active /\ \A j \in 1..i - 1 : all[j].active
             T == {i \in 1..n : ~all[i].active}
  <2>1. \E i \in 1..n : P(i)
    <3>1. T \subseteq 1..n /\ T # {}
      BY <1>1, <1>2
    <3>2. PICK i \in T : \A j \in 1..i - 1 : j \notin T
      <4> HIDE DEF T, n
      <4> QED BY <1>1, <3>1, LeastIndex
    <3>3. i \in 1..n /\ ~all[i].active
      BY <3>2
    <3>4. \A j \in 1..i - 1 : j \in 1..n
      BY <1>1, <3>3
    <3> QED BY <3>2, <3>3, <3>4
  <2>2. v = CHOOSE i \in DOMAIN all : P(i)
    BY <1>2 DEF Archive!Victim
  <2> HIDE DEF v
  <2>3. v \in 1..n /\ P(v)
    BY <1>1, <2>1, <2>2
  <2> QED BY <2>3 DEF v
<1>3. CASE \A i \in DOMAIN all : all[i].active
  <2> DEFINE P(i) == /\ \A j \in DOMAIN all : all[i].score <= all[j].score
                     /\ \A j \in 1..i - 1 : all[i].score < all[j].score
             f == [i \in 1..n |-> all[i].score]
  <2>1. f \in [1..n -> Int] /\ \A i \in 1..n : f[i] = all[i].score /\ f[i] \in Int
    BY <1>1 DEF Genomes
  <2>2. PICK m \in 1..n : \A j \in 1..n : f[m] <= f[j]
    <3>1. IsFiniteSet(1..n) /\ 1..n # {}
      <4> HIDE DEF n
      <4>1. IsFiniteSet(1..n)
        BY <1>1, FS_Interval
      <4>2. 1 \in 1..n
        BY <1>1
      <4> QED BY <4>1, <4>2
    <3> HIDE DEF f, n
    <3> QED BY <2>1, <3>1, FiniteLeast
  <2> DEFINE T == {i \in 1..n : f[i] = f[m]}
  <2>3. PICK i \in T : \A j \in 1..i - 1 : j \notin T
    <3>1. T \subseteq 1..n /\ T # {}
      BY <2>2
    <3> HIDE DEF T, n
    <3> QED BY <1>1, <3>1, LeastIndex
  <2>4. i \in 1..n /\ f[i] = f[m]
    BY <2>3
  <2>5. \A j \in 1..i - 1 : j \in 1..n /\ f[j] # f[m]
    <3>1. \A j \in 1..i - 1 : j \in 1..n
      BY <1>1, <2>4
    <3> QED BY <2>3, <3>1
  <2>6. P(i)
    <3> HIDE DEF f
    <3>1. \A j \in DOMAIN all : all[i].score <= all[j].score
      BY <1>1, <2>1, <2>2, <2>4
    <3>2. \A j \in 1..i - 1 : all[i].score < all[j].score
      BY <2>1, <2>2, <2>4, <2>5
    <3> QED BY <3>1, <3>2
  <2>7. v = CHOOSE x \in DOMAIN all : P(x)
    BY <1>3 DEF Archive!Victim
  <2>8. \E x \in DOMAIN all : P(x)
    BY <1>1, <2>4, <2>6
  <2> HIDE DEF v
  <2>9. v \in 1..n /\ P(v)
    BY <1>1, <2>7, <2>8
  <2> QED BY <1>1, <1>3, <2>9 DEF v
<1> QED BY <1>2, <1>3

\* Every call keeps it.
LEMMA GenomeStep ==
  ASSUME GenomeInv, Archive!GenomeNext
  PROVE  GenomeInv'
<1>0. pool \in Seq(Genomes) /\ Len(pool) <= Limit /\ Limit \in Nat \ {0}
  BY StoresAssumption DEF GenomeInv, Archive!GenomesAreKept
<1>none. Archive!NoDrop \in Genomes /\ ~Archive!NoDrop.active
  BY DEF Archive!NoDrop, Genomes
<1>1. CASE Archive!AddGenome
  <2>1w. PICK g : g = [score |-> 1, active |-> TRUE]
    OBVIOUS
  <2>1. g \in Genomes /\ g = [score |-> 1, active |-> TRUE]
    BY <2>1w DEF Genomes
  <2>2. PICK all \in Seq(Genomes) : all = Append(pool, g) /\ Len(all) = Len(pool) + 1
    BY <1>0, <2>1, OneMore
  <2>3. IF Len(all) <= Limit THEN pool' = all /\ dropped' = Archive!NoDrop
        ELSE pool' = Archive!RemoveAt(all, Archive!Victim(all)) /\ dropped' = all[Archive!Victim(all)]
    BY <1>1, <2>1, <2>2 DEF Archive!AddGenome
  <2>4. CASE Len(all) <= Limit
    BY <1>none, <2>3, <2>4 DEF GenomeInv, Archive!GenomesAreKept
  <2>5. CASE ~(Len(all) <= Limit)
    <3>1. Len(all) = Limit + 1
      BY <1>0, <2>2, <2>5
    <3>2w. PICK v : v = Archive!Victim(all)
      OBVIOUS
    <3>2. v \in 1..Limit + 1 /\ v = Archive!Victim(all)
          /\ (all[v].active => \A i \in 1..Limit + 1 : all[i].active /\ all[v].score <= all[i].score)
      BY <1>0, <3>2w, <3>1, VictimIsLeast
    <3>3. pool' = Archive!RemoveAt(all, v) /\ dropped' = all[v]
      BY <2>3, <2>5, <3>2
    <3>4. /\ Archive!RemoveAt(all, v) \in Seq(Genomes) /\ Len(Archive!RemoveAt(all, v)) = Limit
          /\ \A j \in 1..Limit : Archive!RemoveAt(all, v)[j] = IF j < v THEN all[j] ELSE all[j + 1]
      <4>1. v \in 1..Len(all) /\ Len(all) - 1 = Limit
        BY <1>0, <3>1, <3>2
      <4>2. /\ Archive!RemoveAt(all, v) \in Seq(Genomes) /\ Len(Archive!RemoveAt(all, v)) = Len(all) - 1
            /\ \A j \in 1..Len(all) - 1 : Archive!RemoveAt(all, v)[j] = IF j < v THEN all[j] ELSE all[j + 1]
        BY <4>1, Removed
      <4> QED BY <4>1, <4>2
    <3>5. pool' \in Seq(Genomes) /\ Len(pool') = Limit /\ DOMAIN pool' = 1..Limit
              /\ \A j \in 1..Limit : \E i \in 1..Limit + 1 : pool'[j] = all[i]
      BY <3>3, <3>4
    <3>6. \A i \in 1..Limit + 1 : all[i] \in Genomes
      BY <3>1
    <3>9. dropped' \in Genomes
      BY <3>2, <3>3, <3>6
    <3>7. \A i \in 1..Limit + 1 : all[i].score \in 0..2
      BY <3>6 DEF Genomes
    <3>8. dropped'.active => \A j \in 1..Limit : pool'[j].active /\ pool'[j].score >= dropped'.score
      BY <3>2, <3>3, <3>5, <3>7
    <3> QED BY <3>5, <3>8, <3>9 DEF GenomeInv, Archive!GenomesAreKept
  <2> QED BY <2>4, <2>5
<1>2. ASSUME NEW i \in DOMAIN pool, NEW score \in 0..2, Archive!RecordReward(i, score) PROVE GenomeInv'
  <2>1w. PICK g : g = [pool[i] EXCEPT !.score = score]
    OBVIOUS
  <2>1. g \in Genomes /\ g = [pool[i] EXCEPT !.score = score]
    <3>1. pool[i] \in Genomes
      BY <1>0
    <3> QED BY <2>1w, <3>1 DEF Genomes
  <2>2. pool' = [pool EXCEPT ![i] = g] /\ dropped' = Archive!NoDrop
    BY <1>2, <2>1 DEF Archive!RecordReward
  <2>3. pool' \in Seq(Genomes) /\ Len(pool') = Len(pool)
    BY <1>0, <2>1, <2>2
  <2> QED BY <1>0, <1>none, <2>2, <2>3 DEF GenomeInv, Archive!GenomesAreKept
<1>3. ASSUME NEW i \in DOMAIN pool, Archive!Deactivate(i) PROVE GenomeInv'
  <2>1w. PICK g : g = [pool[i] EXCEPT !.active = FALSE]
    OBVIOUS
  <2>1. g \in Genomes /\ g = [pool[i] EXCEPT !.active = FALSE]
    <3>1. pool[i] \in Genomes
      BY <1>0
    <3> QED BY <2>1w, <3>1 DEF Genomes
  <2>2. pool' = [pool EXCEPT ![i] = g] /\ dropped' = Archive!NoDrop
    BY <1>3, <2>1 DEF Archive!Deactivate
  <2>3. pool' \in Seq(Genomes) /\ Len(pool') = Len(pool)
    BY <1>0, <2>1, <2>2
  <2> QED BY <1>0, <1>none, <2>2, <2>3 DEF GenomeInv, Archive!GenomesAreKept
<1>4. ASSUME NEW i \in DOMAIN pool, Archive!RemoveGenome(i) PROVE GenomeInv'
  <2>1. i \in 1..Len(pool)
    BY <1>0
  <2>2. pool' \in Seq(Genomes) /\ Len(pool') = Len(pool) - 1 /\ dropped' = Archive!NoDrop
    BY <1>0, <1>4, <2>1, Removed DEF Archive!RemoveGenome
  <2> QED BY <1>0, <1>none, <2>2 DEF GenomeInv, Archive!GenomesAreKept
<1> QED BY <1>1, <1>2, <1>3, <1>4 DEF Archive!GenomeNext

-----------------------------------------------------------------------------
(* A graph without a circle, whose edges join its nodes.                   *)
Vertices == {"a", "b", "c"}
CausalGraphs == [nodes : SUBSET Vertices, edges : SUBSET (Vertices \X Vertices)]
Joined(g) == g \in CausalGraphs /\ \A e \in g.edges : e[1] \in g.nodes /\ e[2] \in g.nodes
CausalInv ==
  /\ Joined(graph) /\ Joined(serialized) /\ structures \in Seq(CausalGraphs) /\ structures # << >>
  /\ Archive!Acyclic(graph) /\ Archive!Acyclic(serialized)
  /\ loose \/ Archive!Last(structures) = graph

\* The graph is empty at the start.
LEMMA CausalStarts == Archive!Init => CausalInv
<1> SUFFICES ASSUME Archive!Init PROVE CausalInv
  OBVIOUS
<1>1w. PICK g : g = [nodes |-> {}, edges |-> {}]
  OBVIOUS
<1>1. g \in CausalGraphs /\ g = [nodes |-> {}, edges |-> {}] /\ g.nodes = {} /\ g.edges = {}
  BY <1>1w DEF CausalGraphs
<1>2. graph = g /\ serialized = g /\ structures = <<g>>
  BY <1>1 DEF Archive!Init, Archive!EmptyGraph
<1>3. <<g>> \in Seq(CausalGraphs) /\ <<g>> # << >> /\ Len(<<g>>) = 1 /\ <<g>>[1] = g
  <2>1. <<g>> \in Seq(CausalGraphs)
    BY <1>1
  <2> QED BY <2>1
<1>4. Joined(g) /\ Archive!Acyclic(g)
  BY <1>1 DEF Joined, Archive!Acyclic
<1>5. Archive!Last(structures) = graph
  BY <1>2, <1>3 DEF Archive!Last
<1> QED BY <1>2, <1>3, <1>4, <1>5 DEF CausalInv

\* New nodes close no circle.
LEMMA NewNodesAreLoose ==
  ASSUME NEW g, NEW h, Joined(g), Archive!Acyclic(g), h \in CausalGraphs, h.edges = g.edges, g.nodes \subseteq h.nodes
  PROVE  Joined(h) /\ Archive!Acyclic(h)
<1>1. \A S : Archive!Followers(h, S) = Archive!Followers(g, S)
  BY DEF Archive!Followers
<1>2. \A n : Archive!Reach(h, n) = Archive!Reach(g, n)
  BY <1>1 DEF Archive!Reach
<1>3. ASSUME NEW n \in h.nodes PROVE n \notin Archive!Reach(h, n)
  <2>1. CASE n \in g.nodes
    BY <1>2, <2>1 DEF Archive!Acyclic
  <2>2. CASE n \notin g.nodes
    <3>1. Archive!Followers(g, {n}) = {} /\ Archive!Followers(g, {}) = {}
      BY <2>2 DEF Joined, Archive!Followers
    <3>2. Archive!Reach(g, n) = {}
      BY <3>1 DEF Archive!Reach
    <3> QED BY <1>2, <3>2
  <2> QED BY <2>1, <2>2
<1> QED BY <1>3 DEF Joined, Archive!Acyclic

\* A new version is what the graph is.
LEMMA GraphBumps ==
  ASSUME CausalInv, NEW g, Joined(g), Archive!Acyclic(g), Archive!Bump(g)
  PROVE  CausalInv'
<1>1. structures' = Append(structures, g) /\ graph' = g /\ serialized' = serialized
  BY DEF Archive!Bump
<1>2. structures \in Seq(CausalGraphs) /\ g \in CausalGraphs
  BY DEF CausalInv, Joined
<1> DEFINE u == Append(structures, g)
<1>3. u \in Seq(CausalGraphs) /\ Len(u) = Len(structures) + 1 /\ u[Len(structures) + 1] = g
  BY <1>2, OneMore
<1> HIDE DEF u
<1>4. Archive!Last(u) = g /\ u # << >>
  BY <1>2, <1>3 DEF Archive!Last
<1>5. structures' = u
  BY <1>1 DEF u
<1> QED BY <1>1, <1>3, <1>4, <1>5 DEF CausalInv

\* Every call keeps the invariant.
LEMMA CausalStep ==
  ASSUME CausalInv, Archive!CausalNext
  PROVE  CausalInv'
<1>0. Joined(graph) /\ Archive!Acyclic(graph) /\ graph \in CausalGraphs
  BY DEF CausalInv, Joined
<1>1. ASSUME NEW n \in Vertices, Archive!AddNode(n) PROVE CausalInv'
  <2>1w. PICK h : h = [graph EXCEPT !.nodes = graph.nodes \cup {n}]
    OBVIOUS
  <2>1. h \in CausalGraphs /\ h = [graph EXCEPT !.nodes = graph.nodes \cup {n}] /\ h.edges = graph.edges
            /\ h.nodes = graph.nodes \cup {n}
    BY <2>1w, <1>0 DEF CausalGraphs
  <2>2. Joined(h) /\ Archive!Acyclic(h)
    BY <1>0, <2>1, NewNodesAreLoose
  <2>3. Archive!Bump(h)
    BY <1>1, <2>1 DEF Archive!AddNode
  <2> QED BY <2>2, <2>3, GraphBumps
<1>2. ASSUME NEW u \in Vertices, NEW v \in Vertices, Archive!AddEdge(u, v) PROVE CausalInv'
  <2>1. CASE Archive!Acyclic(Archive!WithEdge(u, v))
    <3>1. Joined(Archive!WithEdge(u, v))
      BY <1>0 DEF Joined, CausalGraphs, Archive!WithEdge
    <3>2. Archive!Bump(Archive!WithEdge(u, v))
      BY <1>2, <2>1 DEF Archive!AddEdge
    <3> QED BY <2>1, <3>1, <3>2, GraphBumps
  <2>2. CASE ~Archive!Acyclic(Archive!WithEdge(u, v))
    <3>1w. PICK h : h = [graph EXCEPT !.nodes = graph.nodes \cup {u, v}]
      OBVIOUS
    <3>1. h \in CausalGraphs /\ h = [graph EXCEPT !.nodes = graph.nodes \cup {u, v}] /\ h.edges = graph.edges
              /\ h.nodes = graph.nodes \cup {u, v}
      BY <3>1w, <1>0 DEF CausalGraphs
    <3>2. Joined(h) /\ Archive!Acyclic(h)
      BY <1>0, <3>1, NewNodesAreLoose
    <3>3. graph' = h /\ loose' = (loose \/ graph' # graph) /\ UNCHANGED <<serialized, structures>>
      BY <1>2, <2>2, <3>1 DEF Archive!AddEdge
    <3> QED BY <3>2, <3>3 DEF CausalInv
  <2> QED BY <2>1, <2>2
<1>3. CASE Archive!Serialize
  <2>1. serialized' = graph /\ UNCHANGED <<graph, structures, loose>>
    BY <1>3 DEF Archive!Serialize
  <2> QED BY <2>1 DEF CausalInv
<1>4. CASE Archive!Deserialize
  <2>1. graph' = serialized /\ loose' = (loose \/ graph' # graph) /\ UNCHANGED <<serialized, structures>>
    BY <1>4 DEF Archive!Deserialize
  <2> QED BY <2>1 DEF CausalInv
<1> QED BY <1>1, <1>2, <1>3, <1>4 DEF Archive!CausalNext, Archive!Places, Vertices

-----------------------------------------------------------------------------
(* Versions of a state: a save that no other overlaps takes the next one.  *)
Snapshots == [version : Nat, state : Nat]
SnapshotInv ==
  /\ snapshots \in Seq(Snapshots) /\ snapper \in [Processes -> Nat]
  /\ \A i \in 1..Len(snapshots) : snapshots[i].state = i
  /\ overlapped \/ /\ \A i \in 1..Len(snapshots) : snapshots[i].version = i
                   /\ \A p \in Processes : snapper[p] # 0 => snapper[p] = Len(snapshots) + 1
                   /\ \A p, q \in Processes : snapper[p] # 0 /\ snapper[q] # 0 => p = q

\* There is none at the start, and none after a restart.
LEMMA SnapshotsStart ==
  ASSUME snapshots = << >>, snapper = [p \in Processes |-> 0]
  PROVE  SnapshotInv
<1>1. << >> \in Seq(Snapshots) /\ Len(<< >>) = 0
  OBVIOUS
<1> QED BY <1>1 DEF SnapshotInv

\* Every step keeps the invariant.
LEMMA SnapshotStep ==
  ASSUME SnapshotInv, Archive!SnapshotNext
  PROVE  SnapshotInv'
<1>0. PICK n \in Nat : n = Len(snapshots)
  BY DEF SnapshotInv
<1>1. ASSUME NEW p \in Processes, Archive!SnapshotBegins(p) PROVE SnapshotInv'
  <2>1. /\ snapper[p] = 0 /\ snapper' = [snapper EXCEPT ![p] = n + 1] /\ snapshots' = snapshots
        /\ overlapped' = (overlapped \/ \E q \in Processes : snapper[q] # 0)
    BY <1>0, <1>1 DEF Archive!SnapshotBegins
  <2>2. snapper' \in [Processes -> Nat] /\ snapper'[p] = n + 1 /\ \A q \in Processes \ {p} : snapper'[q] = snapper[q]
    BY <1>0, <2>1 DEF SnapshotInv
  <2> QED BY <1>0, <2>1, <2>2 DEF SnapshotInv
<1>2. ASSUME NEW p \in Processes, Archive!SnapshotEnds(p) PROVE SnapshotInv'
  <2>1. PICK v \in Nat : v = snapper[p] /\ v # 0
    BY <1>2 DEF SnapshotInv, Archive!SnapshotEnds
  <2>2w. PICK new : new = [version |-> v, state |-> n + 1]
    OBVIOUS
  <2>2. new \in Snapshots /\ new = [version |-> v, state |-> n + 1] /\ new.version = v /\ new.state = n + 1
    BY <2>2w, <1>0 DEF Snapshots
  <2>3. snapper' = [snapper EXCEPT ![p] = 0] /\ snapshots' = Append(snapshots, new) /\ overlapped' = overlapped
    BY <1>0, <1>2, <2>1, <2>2 DEF Archive!SnapshotEnds
  <2>4. /\ snapshots' \in Seq(Snapshots) /\ Len(snapshots') = n + 1 /\ snapshots'[n + 1] = new
        /\ \A i \in 1..n : snapshots'[i] = snapshots[i]
    <3>1. snapshots \in Seq(Snapshots)
      BY DEF SnapshotInv
    <3> DEFINE u == Append(snapshots, new)
    <3>2. u \in Seq(Snapshots) /\ Len(u) = n + 1 /\ u[n + 1] = new /\ \A i \in 1..n : u[i] = snapshots[i]
      BY <1>0, <2>2, <3>1, OneMore
    <3> HIDE DEF u
    <3>3. snapshots' = u
      BY <2>3 DEF u
    <3> QED BY <3>2, <3>3
  <2>5. snapper' \in [Processes -> Nat] /\ snapper'[p] = 0 /\ \A q \in Processes \ {p} : snapper'[q] = snapper[q]
    BY <2>3 DEF SnapshotInv
  <2>6. \A i \in 1..n + 1 : snapshots'[i].state = i
    BY <1>0, <2>2, <2>4 DEF SnapshotInv
  <2>7. CASE overlapped
    BY <1>0, <2>3, <2>4, <2>5, <2>6, <2>7 DEF SnapshotInv
  <2>8. CASE ~overlapped
    <3>1. v = n + 1 /\ \A q \in Processes \ {p} : snapper[q] = 0
      BY <1>0, <2>1, <2>8 DEF SnapshotInv
    <3>2. \A i \in 1..n + 1 : snapshots'[i].version = i
      BY <1>0, <2>2, <2>4, <2>8, <3>1 DEF SnapshotInv
    <3>3. \A q \in Processes : snapper'[q] = 0
      BY <2>5, <3>1
    <3> QED BY <2>4, <2>5, <2>6, <3>2, <3>3 DEF SnapshotInv
  <2> QED BY <2>7, <2>8
<1>3. CASE Archive!ForgetSnapshots
  <2>1. snapshots' = << >> /\ snapper' = [p \in Processes |-> 0]
    BY <1>3 DEF Archive!ForgetSnapshots
  <2>2. << >> \in Seq(Snapshots) /\ Len(<< >>) = 0
    OBVIOUS
  <2> QED BY <2>1, <2>2 DEF SnapshotInv
<1> QED BY <1>1, <1>2, <1>3 DEF Archive!SnapshotNext

\* The versions count up and are found.
LEMMA SnapshotsKept == SnapshotInv => Archive!VersionsCount
<1> SUFFICES ASSUME SnapshotInv, ~overlapped, NEW i \in DOMAIN snapshots
             PROVE  snapshots[i].version = i /\ Archive!LoadVersion(i) = i
  BY DEF Archive!VersionsCount
<1>1. DOMAIN snapshots = 1..Len(snapshots) /\ i \in 1..Len(snapshots)
  BY DEF SnapshotInv
<1>2. \A j \in 1..Len(snapshots) : snapshots[j].version = j /\ snapshots[j].state = j
  BY DEF SnapshotInv
<1>3. {j \in DOMAIN snapshots : snapshots[j].version = i} = {i}
  BY <1>1, <1>2
<1>4. (CHOOSE j \in {i} : \A k \in {i} : j <= k) = i
  <2>1. i <= i
    BY <1>1
  <2>2. \E j \in {i} : \A k \in {i} : j <= k
    BY <2>1
  <2>3. (CHOOSE j \in {i} : \A k \in {i} : j <= k) \in {i}
    BY <2>2
  <2> QED BY <2>3
<1>5. Archive!LoadVersion(i) = snapshots[i].state
  BY <1>3, <1>4 DEF Archive!LoadVersion
<1> QED BY <1>1, <1>2, <1>5

-----------------------------------------------------------------------------
(* Bars.  The newest of a later set come before the newest of an earlier   *)
(* one, so that pushing keeps the cache what reading would make of it.     *)
Bars == 1..MaxStored + 1
Later(A, B) == \A a \in A, b \in B : a < b
Above(S, x) == {y \in S : y > x}
Pick(S) == CHOOSE x \in S : TRUE
Picks == {Pick(S) : S \in SUBSET Bars}

\* There are finitely many bars.
LEMMA BarsAreFinite == \A S \in SUBSET Bars : IsFiniteSet(S) /\ Cardinality(S) \in Nat
<1>1. PICK a \in Int, b \in Int : a = 1 /\ b = MaxStored + 1
  BY StoresAssumption
<1>2. IsFiniteSet(a..b)
  BY FS_Interval
<1>3. IsFiniteSet(Bars)
  BY <1>1, <1>2 DEF Bars
<1> QED BY <1>3, FS_Subset, FS_CardinalityType

\* The newest of a set, as a sequence.
LEMMA NewestIsASequence ==
  ASSUME NEW S \in SUBSET Bars
  PROVE  /\ Archive!NewestFirst(S) \in Seq(Picks) /\ Len(Archive!NewestFirst(S)) = Cardinality(S)
         /\ Cardinality(S) \in Nat /\ IsFiniteSet(S)
         /\ \A i \in 1..Cardinality(S) : Archive!NewestFirst(S)[i] = Pick(Archive!At(S, i))
<1>2. IsFiniteSet(S) /\ Cardinality(S) \in Nat
  BY BarsAreFinite
<1>3. PICK n \in Nat : n = Cardinality(S)
  BY <1>2
<1>4. Archive!Cardinality(S) = n
  BY <1>3 DEF Archive!Cardinality, Cardinality
<1>5. \A i : Archive!At(S, i) \in SUBSET Bars
  BY DEF Archive!At
<1> DEFINE f(i) == Pick(Archive!At(S, i))
           s == [i \in 1..n |-> f(i)]
<1>6. \A i : f(i) \in Picks
  BY <1>5 DEF Picks
<1>7. Archive!NewestFirst(S) = s
  BY <1>4 DEF Archive!NewestFirst, Pick
<1> HIDE DEF f
<1>8. s \in Seq(Picks) /\ Len(s) = n /\ \A i \in 1..n : s[i] = f(i)
  BY <1>6
<1> HIDE DEF s
<1> QED BY <1>2, <1>3, <1>7, <1>8 DEF f

\* What is at a place of both sets together.
LEMMA PlacesOfBoth ==
  ASSUME NEW A \in SUBSET Bars, NEW B \in SUBSET Bars, Later(A, B)
  PROVE  /\ Cardinality(A \cup B) = Cardinality(B) + Cardinality(A)
         /\ \A i \in 1..Cardinality(B) : Archive!At(A \cup B, i) = Archive!At(B, i)
         /\ \A i \in 1..Cardinality(A) : Archive!At(A \cup B, Cardinality(B) + i) = Archive!At(A, i)
<1>1. \A S \in SUBSET Bars : IsFiniteSet(S) /\ Cardinality(S) \in Nat
  BY BarsAreFinite
<1>2. \A S : Archive!Cardinality(S) = Cardinality(S)
  BY DEF Archive!Cardinality, Cardinality
<1>3. A \cap B = {}
  BY DEF Later, Bars
<1>4. \A S, T \in SUBSET Bars : S \cap T = {} => Cardinality(S \cup T) = Cardinality(S) + Cardinality(T)
  <2> SUFFICES ASSUME NEW S \in SUBSET Bars, NEW T \in SUBSET Bars, S \cap T = {}
               PROVE  Cardinality(S \cup T) = Cardinality(S) + Cardinality(T)
    OBVIOUS
  <2>1. Cardinality(S \cup T) = Cardinality(S) + Cardinality(T) - Cardinality(S \cap T)
    BY <1>1, FS_Union
  <2>2. Cardinality(S \cap T) = 0
    BY FS_EmptySet
  <2> QED BY <1>1, <2>1, <2>2
<1>5. PICK m \in Nat, n \in Nat : m = Cardinality(B) /\ n = Cardinality(A)
  BY <1>1
<1>6. Cardinality(A \cup B) = m + n
  BY <1>3, <1>4, <1>5
<1> DEFINE above(S, x) == Cardinality(Above(S, x))
<1>7. \A S, i : Archive!At(S, i) = {x \in S : above(S, x) = i - 1}
  BY <1>2 DEF Archive!At, Above
<1>8. \A x \in B : above(A \cup B, x) = above(B, x) /\ above(B, x) \in Nat /\ above(B, x) < m
  <2> SUFFICES ASSUME NEW x \in B PROVE above(A \cup B, x) = above(B, x) /\ above(B, x) \in Nat
          /\ above(B, x) < m
    OBVIOUS
  <2>1. \A y \in A : y \in Bars /\ y < x
    BY DEF Later
  <2>2. x \in Bars
    OBVIOUS
  <2>3. \A y \in A : ~(y > x)
    BY <2>1, <2>2 DEF Bars
  <2>4. Above(A \cup B, x) = Above(B, x)
    BY <2>3 DEF Above
  <2>5. ~(x > x)
    BY <2>2 DEF Bars
  <2>6. Above(B, x) \subseteq B /\ Above(B, x) # B
    BY <2>5 DEF Above
  <2>7. Above(B, x) \in SUBSET Bars
    BY <2>6
  <2>8. Cardinality(Above(B, x)) \in Nat
    BY <1>1, <2>7
  <2>9. Cardinality(Above(B, x)) < Cardinality(B)
    BY <1>1, <2>6, FS_Subset
  <2> QED BY <1>5, <2>4, <2>8, <2>9
<1>9. \A x \in A : above(A \cup B, x) = m + above(A, x) /\ above(A, x) \in Nat
  <2> SUFFICES ASSUME NEW x \in A PROVE above(A \cup B, x) = m + above(A, x) /\ above(A, x) \in Nat
    OBVIOUS
  <2>1. Above(A \cup B, x) = Above(A, x) \cup B
    BY DEF Above, Later, Bars
  <2>2. Above(A, x) \in SUBSET Bars /\ Above(A, x) \cap B = {}
    BY <1>3 DEF Above
  <2>3. Cardinality(Above(A, x) \cup B) = Cardinality(Above(A, x)) + Cardinality(B)
    BY <1>4, <2>2
  <2>4. Cardinality(Above(A, x)) \in Nat
    BY <1>1, <2>2
  <2>5. Cardinality(Above(A, x)) + m = m + Cardinality(Above(A, x))
    BY <2>4
  <2> QED BY <1>5, <2>1, <2>3, <2>4, <2>5
<1> HIDE DEF above
<1>10. \A i \in 1..m : Archive!At(A \cup B, i) = Archive!At(B, i)
  <2> SUFFICES ASSUME NEW i \in 1..m PROVE Archive!At(A \cup B, i) = Archive!At(B, i)
    OBVIOUS
  <2>1. ASSUME NEW x \in A PROVE above(A \cup B, x) # i - 1
    <3>1. PICK a \in Nat : above(A \cup B, x) = m + a
      BY <1>9
    <3>2. m + a # i - 1
      OBVIOUS
    <3> QED BY <3>1, <3>2
  <2>2. \A x \in B : above(A \cup B, x) = i - 1 <=> above(B, x) = i - 1
    BY <1>8
  <2>3. {x \in A \cup B : above(A \cup B, x) = i - 1} = {x \in B : above(B, x) = i - 1}
    BY <2>1, <2>2
  <2> QED BY <1>7, <2>3
<1>11. \A i \in 1..n : Archive!At(A \cup B, m + i) = Archive!At(A, i)
  <2> SUFFICES ASSUME NEW i \in 1..n PROVE Archive!At(A \cup B, m + i) = Archive!At(A, i)
    OBVIOUS
  <2>0. PICK k \in Nat : k = m + i
    OBVIOUS
  <2>1. ASSUME NEW x \in B PROVE above(A \cup B, x) # k - 1
    <3>1. PICK b \in Nat : above(A \cup B, x) = b /\ b < m
      BY <1>8, <2>1
    <3>2. b # k - 1
      BY <2>0, <3>1
    <3> QED BY <3>1, <3>2
  <2>2. ASSUME NEW x \in A PROVE above(A \cup B, x) = k - 1 <=> above(A, x) = i - 1
    <3>1. PICK a \in Nat : above(A \cup B, x) = m + a /\ a = above(A, x)
      BY <1>9
    <3>2. m + a = k - 1 <=> a = i - 1
      BY <2>0
    <3> QED BY <3>1, <3>2
  <2>3. {x \in A \cup B : above(A \cup B, x) = k - 1} = {x \in A : above(A, x) = i - 1}
    BY <2>1, <2>2
  <2>4. Archive!At(A \cup B, k) = {x \in A \cup B : above(A \cup B, x) = k - 1}
    BY <1>7
  <2>5. Archive!At(A, i) = {x \in A : above(A, x) = i - 1}
    BY <1>7
  <2> QED BY <2>0, <2>3, <2>4, <2>5
<1> QED BY <1>5, <1>6, <1>10, <1>11

\* Two sequences of the same length and elements are one.
LEMMA SamePicks ==
  ASSUME NEW s \in Seq(Picks), NEW t \in Seq(Picks), Len(s) = Len(t), \A i \in 1..Len(s) : s[i] = t[i]
  PROVE  s = t
OBVIOUS

\* The newest of both sets are the newest of the later one, then of the other.
LEMMA NewestOfBoth ==
  ASSUME NEW A \in SUBSET Bars, NEW B \in SUBSET Bars, Later(A, B)
  PROVE  Archive!NewestFirst(A \cup B) = Archive!NewestFirst(B) \o Archive!NewestFirst(A)
<1>1. PICK m \in Nat, n \in Nat : m = Cardinality(B) /\ n = Cardinality(A)
  BY NewestIsASequence
<1>2. PICK s \in Seq(Picks) : /\ s = Archive!NewestFirst(B) /\ Len(s) = m
                              /\ \A i \in 1..m : s[i] = Pick(Archive!At(B, i))
  BY <1>1, NewestIsASequence
<1>3. PICK t \in Seq(Picks) : /\ t = Archive!NewestFirst(A) /\ Len(t) = n
                              /\ \A i \in 1..n : t[i] = Pick(Archive!At(A, i))
  BY <1>1, NewestIsASequence
<1>4. PICK u \in Seq(Picks) : /\ u = Archive!NewestFirst(A \cup B) /\ Len(u) = m + n
                              /\ \A i \in 1..m + n : u[i] = Pick(Archive!At(A \cup B, i))
  <2>1. A \cup B \in SUBSET Bars /\ Cardinality(A \cup B) = m + n
    BY <1>1, PlacesOfBoth
  <2> QED BY <2>1, NewestIsASequence
<1> DEFINE v == s \o t
<1>5. v \in Seq(Picks) /\ Len(v) = m + n /\ (\A i \in 1..m : v[i] = s[i])
          /\ \A i \in m + 1..m + n : v[i] = t[i - m]
  BY SMTT(60), <1>2, <1>3
<1> HIDE DEF v
<1>6. \A i \in 1..m : u[i] = v[i]
  <2> SUFFICES ASSUME NEW i \in 1..m PROVE u[i] = v[i]
    OBVIOUS
  <2>1. Archive!At(A \cup B, i) = Archive!At(B, i)
    BY <1>1, PlacesOfBoth
  <2>4. i \in 1..m + n
    OBVIOUS
  <2>2. u[i] = Pick(Archive!At(A \cup B, i))
    BY <1>4, <2>4
  <2>3. s[i] = Pick(Archive!At(B, i))
    BY <1>2
  <2> QED BY <1>5, <2>1, <2>2, <2>3
<1>7. \A i \in m + 1..m + n : u[i] = v[i]
  <2> SUFFICES ASSUME NEW i \in m + 1..m + n PROVE u[i] = v[i]
    OBVIOUS
  <2>1. PICK j \in 1..n : i = m + j /\ j = i - m
    OBVIOUS
  <2>2. Archive!At(A \cup B, m + j) = Archive!At(A, j)
    BY <1>1, PlacesOfBoth
  <2>5. i \in 1..m + n
    OBVIOUS
  <2>6. u[i] = Pick(Archive!At(A \cup B, i))
    BY <1>4, <2>5
  <2>3. u[i] = Pick(Archive!At(A \cup B, m + j))
    BY <2>1, <2>6
  <2>7. v[i] = t[j]
    BY <1>5, <2>1
  <2>4. t[j] = Pick(Archive!At(A, j))
    BY <1>3
  <2> QED BY <2>2, <2>3, <2>4, <2>7
<1>8. \A i \in 1..Len(u) : u[i] = v[i]
  <2>1. Len(u) = m + n
    BY <1>4
  <2>2. \A i \in 1..m + n : i \in 1..m \/ i \in m + 1..m + n
    OBVIOUS
  <2> QED BY <1>6, <1>7, <2>1, <2>2
<1>9. u = v
  BY <1>4, <1>5, <1>8, SamePicks
<1> QED BY <1>2, <1>3, <1>4, <1>9 DEF v

\* Cutting what comes behind first makes no difference.
LEMMA CutTwice ==
  ASSUME NEW s \in Seq(Picks), NEW t \in Seq(Picks)
  PROVE  Archive!Cut(s \o Archive!Cut(t)) = Archive!Cut(s \o t)
<1>0. Limit \in Nat \ {0}
  BY StoresAssumption
<1>cut. ASSUME NEW r \in Seq(Picks)
        PROVE  /\ Archive!Cut(r) \in Seq(Picks) /\ Len(Archive!Cut(r)) = (IF Len(r) > Limit THEN Limit ELSE Len(r))
               /\ \A i \in 1..Len(Archive!Cut(r)) : Archive!Cut(r)[i] = r[i]
  <2>1. CASE Len(r) > Limit
    <3>1. Archive!Cut(r) = SubSeq(r, 1, Limit)
      BY <2>1 DEF Archive!Cut
    <3>2. SubSeq(r, 1, Limit) \in Seq(Picks) /\ Len(SubSeq(r, 1, Limit)) = Limit
              /\ \A i \in 1..Limit : SubSeq(r, 1, Limit)[i] = r[i]
      BY <1>0, <2>1
    <3> QED BY <1>0, <2>1, <3>1, <3>2
  <2>2. CASE ~(Len(r) > Limit)
    BY <1>0, <2>2 DEF Archive!Cut
  <2> QED BY <2>1, <2>2
<1>1. PICK c \in Seq(Picks) : /\ c = Archive!Cut(t) /\ Len(c) = (IF Len(t) > Limit THEN Limit ELSE Len(t))
                              /\ \A i \in 1..Len(c) : c[i] = t[i]
  BY <1>cut
<1>2. PICK a \in Seq(Picks) : /\ a = s \o c /\ Len(a) = Len(s) + Len(c) /\ (\A i \in 1..Len(s) : a[i] = s[i])
                              /\ \A i \in Len(s) + 1..Len(s) + Len(c) : a[i] = c[i - Len(s)]
  <2>1. /\ s \o c \in Seq(Picks) /\ Len(s \o c) = Len(s) + Len(c) /\ (\A i \in 1..Len(s) : (s \o c)[i] = s[i])
        /\ \A i \in Len(s) + 1..Len(s) + Len(c) : (s \o c)[i] = c[i - Len(s)]
    OBVIOUS
  <2> QED BY <2>1
<1>3. PICK b \in Seq(Picks) : /\ b = s \o t /\ Len(b) = Len(s) + Len(t) /\ (\A i \in 1..Len(s) : b[i] = s[i])
                              /\ \A i \in Len(s) + 1..Len(s) + Len(t) : b[i] = t[i - Len(s)]
  <2>1. /\ s \o t \in Seq(Picks) /\ Len(s \o t) = Len(s) + Len(t) /\ (\A i \in 1..Len(s) : (s \o t)[i] = s[i])
        /\ \A i \in Len(s) + 1..Len(s) + Len(t) : (s \o t)[i] = t[i - Len(s)]
    OBVIOUS
  <2> QED BY <2>1
<1>4. PICK x \in Seq(Picks) : /\ x = Archive!Cut(a) /\ Len(x) = (IF Len(a) > Limit THEN Limit ELSE Len(a))
                              /\ \A i \in 1..Len(x) : x[i] = a[i]
  BY <1>cut
<1>5. PICK y \in Seq(Picks) : /\ y = Archive!Cut(b) /\ Len(y) = (IF Len(b) > Limit THEN Limit ELSE Len(b))
                              /\ \A i \in 1..Len(y) : y[i] = b[i]
  BY <1>cut
<1>6. PICK k \in Nat, m \in Nat, n \in Nat : k = Len(s) /\ m = Len(t) /\ n = Len(c) /\ n = (IF m > Limit THEN Limit
          ELSE m)
  BY <1>1
<1>7. Len(x) = Len(y) /\ Len(x) \in Nat /\ Len(x) <= Limit /\ Len(x) <= k + n
  <2>1. Len(a) = k + n /\ Len(b) = k + m
    BY <1>2, <1>3, <1>6
  <2>2. Len(x) = (IF k + n > Limit THEN Limit ELSE k + n) /\ Len(y) = IF k + m > Limit THEN Limit ELSE k + m
    BY <1>4, <1>5, <2>1
  <2> QED BY <1>0, <1>6, <2>2
<1>8. ASSUME NEW i \in 1..Len(x) PROVE x[i] = y[i]
  <2>1. x[i] = a[i] /\ y[i] = b[i]
    BY <1>4, <1>5, <1>7
  <2>2. CASE i <= k
    BY <1>2, <1>3, <1>6, <2>1, <2>2
  <2>3. CASE ~(i <= k)
    <3>1. i - k \in 1..n /\ n <= m /\ i \in k + 1..k + n /\ i \in k + 1..k + m
      BY <1>0, <1>6, <1>7, <2>3
    <3>2. a[i] = c[i - k] /\ b[i] = t[i - k] /\ c[i - k] = t[i - k]
      BY <1>1, <1>2, <1>3, <1>6, <3>1
    <3> QED BY <2>1, <3>2
  <2> QED BY <2>2, <2>3
<1>9. x = y
  BY <1>7, <1>8, SamePicks
<1> QED BY <1>1, <1>2, <1>3, <1>4, <1>5, <1>9

\* A batch whose least is above the greatest is later.
LEMMA LeastAndGreatest ==
  ASSUME NEW A \in SUBSET Bars, NEW B \in SUBSET Bars, B # {}, Archive!Min(B) > Archive!Max({0} \cup A)
  PROVE  Later(A, B)
<1>1. ASSUME NEW T \in SUBSET (0..MaxStored + 1), T # {}
      PROVE  (\E x \in T : \A y \in T : x >= y) /\ (\E x \in T : \A y \in T : x <= y)
  <2>1. IsFiniteSet(T)
    <3>1. PICK k \in Nat : k = MaxStored + 1
      BY StoresAssumption
    <3>2. IsFiniteSet(0..k)
      BY FS_Interval
    <3> QED BY <3>1, <3>2, FS_Subset
  <2> DEFINE f == [x \in T |-> x]
  <2>2. f \in [T -> Int] /\ \A x \in T : f[x] = x
    OBVIOUS
  <2> HIDE DEF f
  <2>3. PICK x \in T : \A y \in T : f[x] <= f[y]
    BY <1>1, <2>1, <2>2, FiniteLeast
  <2>4. PICK z \in T : \A y \in T : f[z] >= f[y]
    BY <1>1, <2>1, <2>2, FiniteGreatest
  <2> QED BY <2>2, <2>3, <2>4
<1>2. {0} \cup A \in SUBSET (0..MaxStored + 1) /\ {0} \cup A # {} /\ B \in SUBSET (0..MaxStored + 1)
  BY StoresAssumption DEF Bars
<1>3. Archive!Max({0} \cup A) \in {0} \cup A /\ \A y \in {0} \cup A : Archive!Max({0} \cup A) >= y
  <2>1. \E x \in {0} \cup A : \A y \in {0} \cup A : x >= y
    BY <1>1, <1>2
  <2> QED BY <2>1 DEF Archive!Max
<1>4. Archive!Min(B) \in B /\ \A y \in B : Archive!Min(B) <= y
  <2>1. \E x \in B : \A y \in B : x <= y
    BY <1>1, <1>2
  <2> QED BY <2>1 DEF Archive!Min
<1>5. PICK h \in Nat, l \in Nat : h = Archive!Max({0} \cup A) /\ l = Archive!Min(B)
  <2>1. \A T \in SUBSET (0..MaxStored + 1) : \A x \in T : x \in Nat
    OBVIOUS
  <2> QED BY <1>2, <1>3, <1>4, <2>1
<1> QED BY <1>3, <1>4, <1>5 DEF Later, Bars

Underway == UNION {pushing[p] : p \in Processes}
BarInv ==
  /\ bars \in SUBSET Bars /\ pushing \in [Processes -> SUBSET Bars]
  /\ orderly =>
       /\ \A p, q \in Processes : pushing[p] # {} /\ pushing[q] # {} => p = q
       /\ Underway \subseteq bars /\ Later(bars \ Underway, Underway)
       /\ barCache = Archive!Cut(Archive!NewestFirst(bars \ Underway))

\* There are none at the start.
LEMMA BarsStart ==
  ASSUME bars = {}, barCache = << >>, pushing = [p \in Processes |-> {}]
  PROVE  BarInv
<1>1. Underway = {} /\ bars \ Underway = {} /\ {} \in SUBSET Bars
  BY DEF Underway
<1>2. Archive!NewestFirst({}) \in Seq(Picks) /\ Len(Archive!NewestFirst({})) = 0
  BY <1>1, NewestIsASequence, FS_EmptySet
<1>3. Archive!NewestFirst({}) = << >>
  BY <1>2
<1>4. Archive!Cut(<< >>) = << >>
  <2>1. Len(<< >>) = 0
    OBVIOUS
  <2> QED BY <2>1 DEF Archive!Cut
<1> QED BY <1>1, <1>3, <1>4 DEF BarInv, Later

\* Writing and pushing keep the invariant.
LEMMA BarStep ==
  ASSUME BarInv, Archive!BarNext
  PROVE  BarInv'
<1>0. bars \in SUBSET Bars /\ pushing \in [Processes -> SUBSET Bars]
  BY DEF BarInv
<1>1. ASSUME NEW p \in Processes, Archive!CacheFails(p) PROVE BarInv'
  BY <1>0, <1>1 DEF Archive!CacheFails, BarInv
<1>2. ASSUME NEW p \in Processes, NEW batch \in SUBSET Bars, batch # {}, Archive!WriteBars(p, batch) PROVE BarInv'
  <2>1. /\ bars' = bars \cup batch /\ pushing' = [pushing EXCEPT ![p] = batch] /\ barCache' = barCache
        /\ orderly' => /\ orderly /\ \A q \in Processes : pushing[q] = {}
                       /\ Archive!Min(batch) > Archive!Max({0} \cup bars)
    BY <1>2 DEF Archive!WriteBars
  <2>2. bars' \in SUBSET Bars /\ pushing' \in [Processes -> SUBSET Bars]
    BY <1>0, <2>1
  <2>3. ASSUME orderly'
        PROVE  /\ \A q, r \in Processes : pushing'[q] # {} /\ pushing'[r] # {} => q = r
               /\ Underway' \subseteq bars' /\ Later(bars' \ Underway', Underway')
               /\ barCache' = Archive!Cut(Archive!NewestFirst(bars' \ Underway'))
    <3>1. Later(bars, batch)
      BY <1>0, <1>2, <2>1, <2>3, LeastAndGreatest
    <3>2. Underway = {} /\ Underway' = batch /\ \A q \in Processes : pushing'[q] = IF q = p THEN batch ELSE {}
      BY <1>0, <2>1, <2>3 DEF Underway
    <3>3. bars \cap batch = {}
      BY <1>0, <3>1 DEF Later, Bars
    <3>4. bars' \ Underway' = bars /\ bars \ Underway = bars
      BY <2>1, <3>2, <3>3
    <3>5. barCache' = Archive!Cut(Archive!NewestFirst(bars))
      BY <2>1, <2>3, <3>4 DEF BarInv
    <3> QED BY <2>1, <3>1, <3>2, <3>4, <3>5
  <2> QED BY <2>2, <2>3 DEF BarInv
<1>3. ASSUME NEW p \in Processes, Archive!PushCache(p) PROVE BarInv'
  <2>1. /\ bars' = bars /\ pushing' = [pushing EXCEPT ![p] = {}] /\ orderly' = orderly /\ pushing[p] # {}
        /\ barCache' = Archive!Cut(Archive!NewestFirst(pushing[p]) \o barCache)
    BY <1>3 DEF Archive!PushCache
  <2>2. bars' \in SUBSET Bars /\ pushing' \in [Processes -> SUBSET Bars]
    BY <1>0, <2>1
  <2>3. ASSUME orderly
        PROVE  /\ \A q, r \in Processes : pushing'[q] # {} /\ pushing'[r] # {} => q = r
               /\ Underway' \subseteq bars' /\ Later(bars' \ Underway', Underway')
               /\ barCache' = Archive!Cut(Archive!NewestFirst(bars' \ Underway'))
    <3>1. \A q \in Processes \ {p} : pushing[q] = {}
      BY <2>1, <2>3 DEF BarInv
    <3>2. PICK S \in SUBSET Bars : S = pushing[p] /\ S = Underway
      BY <1>0, <3>1 DEF Underway
    <3>3. PICK A \in SUBSET Bars : A = bars \ S
      BY <1>0
    <3>4. S \subseteq bars /\ Later(A, S) /\ barCache = Archive!Cut(Archive!NewestFirst(A))
      BY <2>3, <3>2, <3>3 DEF BarInv
    <3>5. A \cup S = bars
      BY <3>3, <3>4
    <3>6. Archive!NewestFirst(bars) = Archive!NewestFirst(S) \o Archive!NewestFirst(A)
      BY <3>4, <3>5, NewestOfBoth
    <3>7. Archive!NewestFirst(S) \in Seq(Picks) /\ Archive!NewestFirst(A) \in Seq(Picks)
      BY NewestIsASequence
    <3>8. Archive!Cut(Archive!NewestFirst(S) \o Archive!Cut(Archive!NewestFirst(A))) =
            Archive!Cut(Archive!NewestFirst(bars))
      BY <3>6, <3>7, CutTwice
    <3>9. barCache' = Archive!Cut(Archive!NewestFirst(bars))
      BY <2>1, <3>2, <3>4, <3>8
    <3>10. Underway' = {} /\ \A q \in Processes : pushing'[q] = {}
      BY <1>0, <2>1, <3>1 DEF Underway
    <3>11. bars' \ Underway' = bars
      BY <2>1, <3>10
    <3> QED BY <3>9, <3>10, <3>11 DEF Later
  <2> QED BY <2>1, <2>2, <2>3 DEF BarInv
<1>4. \A S \in {T \in SUBSET (1..MaxStored + 1) : Archive!Cardinality(T) \in {1, 2}} : S \in SUBSET Bars /\ S # {}
  <2>1. Archive!Cardinality({}) = 0
    BY FS_EmptySet DEF Archive!Cardinality, Cardinality
  <2>2. 1..MaxStored + 1 = Bars
    BY DEF Bars
  <2> SUFFICES ASSUME NEW S \in SUBSET (1..MaxStored + 1), Archive!Cardinality(S) \in {1, 2}
               PROVE  S \in SUBSET Bars /\ S # {}
    OBVIOUS
  <2>3. S # {}
    BY <2>1
  <2> QED BY <2>2, <2>3
<1> QED BY <1>1, <1>2, <1>3, <1>4 DEF Archive!BarNext

\* Bars are read newest first.
LEMMA BarsKept == BarInv => Archive!BarsAreNewest
<1> SUFFICES ASSUME BarInv, orderly, \A p \in Processes : pushing[p] = {}
             PROVE  Archive!ReadBars = Archive!Cut(Archive!NewestFirst(bars))
  BY DEF Archive!BarsAreNewest
<1>1. bars \ Underway = bars
  BY DEF Underway
<1>2. barCache = Archive!Cut(Archive!NewestFirst(bars))
  BY <1>1 DEF BarInv
<1> QED BY <1>2 DEF Archive!ReadBars

-----------------------------------------------------------------------------
(* Entries that go stale: one for each key at most.                        *)
Entries == [key : Keys, value : Nat, fresh : Nat, usable : Nat]
Once(s) == \A i, j \in DOMAIN s : s[i].key = s[j].key => i = j
TtlInv == entries \in Seq(Entries) /\ Once(entries) /\ clock \in Nat /\ Archive!LookupsAreFresh

\* The property, in the words of the invariant.
LEMMA OnceIsInjective ==
  ASSUME NEW s \in Seq(Entries)
  PROVE  Archive!IsInjective([i \in DOMAIN s |-> s[i].key]) <=> Once(s)
  BY DEF Archive!IsInjective, Once

\* The cache is empty at the start.
LEMMA TtlStarts == Archive!Init => TtlInv
<1> SUFFICES ASSUME Archive!Init PROVE TtlInv
  OBVIOUS
<1>1. entries = << >> /\ clock = 0 /\ ~given.hit /\ ~given.old
  BY DEF Archive!Init, Archive!NoAnswer
<1>2. << >> \in Seq(Entries) /\ Len(<< >>) = 0 /\ DOMAIN << >> = {}
  OBVIOUS
<1>3. Once(<< >>)
  BY <1>2 DEF Once
<1>4. entries \in Seq(Entries) /\ Len(entries) <= Limit /\ Once(entries)
  BY <1>1, <1>2, <1>3, StoresAssumption
<1>5. Archive!IsInjective([i \in DOMAIN entries |-> entries[i].key])
  BY <1>4, OnceIsInjective
<1> QED BY <1>1, <1>4, <1>5 DEF TtlInv, Archive!LookupsAreFresh

\* Without the entry of a key there is none of it, and one less if there was one.
LEMMA OthersHaveOtherKeys ==
  ASSUME entries \in Seq(Entries), Once(entries), NEW k \in Keys
  PROVE  /\ Archive!Others(k) \in Seq(Entries) /\ Once(Archive!Others(k))
         /\ \A i \in DOMAIN Archive!Others(k) : Archive!Others(k)[i].key # k
         /\ Len(Archive!Others(k)) <= Len(entries)
             /\ (Archive!Of(k) # {} => Len(Archive!Others(k)) < Len(entries))
<1>1. CASE Archive!Of(k) = {}
  BY <1>1 DEF Archive!Of, Archive!Others
<1>2. CASE Archive!Of(k) # {}
  <2>1. PICK i \in Archive!Of(k) : i = CHOOSE j \in Archive!Of(k) : TRUE
    BY <1>2
  <2>2. i \in 1..Len(entries) /\ entries[i].key = k
    BY <2>1 DEF Archive!Of
  <2>3. Archive!Others(k) = Archive!RemoveAt(entries, i)
    BY <1>2, <2>1 DEF Archive!Others
  <2> DEFINE r == Archive!RemoveAt(entries, i)
  <2>4. /\ r \in Seq(Entries) /\ Len(r) = Len(entries) - 1
        /\ \A j \in 1..Len(entries) - 1 : r[j] = IF j < i THEN entries[j] ELSE entries[j + 1]
    BY <2>2, Removed
  <2> HIDE DEF r
  <2>5. PICK n \in Nat : n = Len(entries)
    BY <2>2
  <2>6. DOMAIN r = 1..n - 1 /\ DOMAIN entries = 1..n
    BY <2>2, <2>4, <2>5
  <2>7. \A j \in DOMAIN r : \E l \in DOMAIN entries : r[j] = entries[l] /\ l # i /\ l = IF j < i THEN j
            ELSE j + 1
    <3> SUFFICES ASSUME NEW j \in 1..n - 1
                 PROVE  \E l \in 1..n : r[j] = entries[l] /\ l # i /\ l = IF j < i THEN j ELSE j + 1
      BY <2>6
    <3>1. CASE j < i
      BY <2>2, <2>4, <2>5, <3>1
    <3>2. CASE ~(j < i)
      <4>1. j + 1 \in 1..n /\ j + 1 # i
        BY <2>2, <2>5, <3>2
      <4> QED BY <2>4, <2>5, <3>2, <4>1
    <3> QED BY <3>1, <3>2
  <2>8. \A j \in DOMAIN r : r[j].key # k
    BY <2>2, <2>6, <2>7 DEF Once
  <2>9. Once(r)
    <3> SUFFICES ASSUME NEW a \in DOMAIN r, NEW b \in DOMAIN r, r[a].key = r[b].key PROVE a = b
      BY DEF Once
    <3>1. PICK l \in DOMAIN entries : r[a] = entries[l] /\ l = IF a < i THEN a ELSE a + 1
      BY <2>7
    <3>2. PICK m \in DOMAIN entries : r[b] = entries[m] /\ m # i /\ m = IF b < i THEN b ELSE b + 1
      BY <2>7
    <3>3. l = m
      BY <3>1, <3>2 DEF Once
    <3> QED BY <2>2, <2>6, <3>1, <3>2, <3>3
  <2> QED BY <2>3, <2>4, <2>5, <2>8, <2>9 DEF r
<1> QED BY <1>1, <1>2

\* An entry of a new key at the end.
LEMMA OneMoreEntry ==
  ASSUME NEW s \in Seq(Entries), Once(s), NEW e \in Entries, \A i \in DOMAIN s : s[i].key # e.key
  PROVE  /\ Append(s, e) \in Seq(Entries) /\ Len(Append(s, e)) = Len(s) + 1 /\ Append(s, e)[Len(s) + 1] = e
         /\ Once(Append(s, e))
<1> DEFINE u == Append(s, e)
<1>1. /\ u \in Seq(Entries) /\ Len(u) = Len(s) + 1 /\ u[Len(s) + 1] = e /\ DOMAIN u = 1..Len(s) + 1
      /\ \A i \in 1..Len(s) : u[i] = s[i]
  OBVIOUS
<1>2. PICK n \in Nat : n = Len(s)
  OBVIOUS
<1>3. DOMAIN s = 1..n
  BY <1>2
<1> HIDE DEF u
<1>4. Once(u)
  <2> SUFFICES ASSUME NEW i \in 1..n + 1, NEW j \in 1..n + 1, u[i].key = u[j].key PROVE i = j
    BY <1>1, <1>2 DEF Once
  <2>1. CASE i \in 1..n /\ j \in 1..n
    BY <1>1, <1>2, <1>3, <2>1 DEF Once
  <2>2. CASE i = n + 1 /\ j \in 1..n
    BY <1>1, <1>2, <1>3, <2>2
  <2>3. CASE j = n + 1 /\ i \in 1..n
    BY <1>1, <1>2, <1>3, <2>3
  <2> QED BY <2>1, <2>2, <2>3
<1> QED BY <1>1, <1>4 DEF u

\* Without the oldest.
LEMMA OneLessEntry ==
  ASSUME NEW s \in Seq(Entries), Once(s), s # << >>
  PROVE  Tail(s) \in Seq(Entries) /\ Len(Tail(s)) = Len(s) - 1 /\ Once(Tail(s))
<1> DEFINE u == Tail(s)
<1>1. u \in Seq(Entries) /\ Len(u) = Len(s) - 1 /\ DOMAIN u = 1..Len(s) - 1
          /\ \A i \in 1..Len(s) - 1 : u[i] = s[i + 1]
  OBVIOUS
<1>2. PICK n \in Nat : n = Len(s)
  OBVIOUS
<1>3. DOMAIN s = 1..n
  BY <1>2
<1> HIDE DEF u
<1>4. Once(u)
  <2> SUFFICES ASSUME NEW i \in 1..n - 1, NEW j \in 1..n - 1, u[i].key = u[j].key PROVE i = j
    BY <1>1, <1>2 DEF Once
  <2>1. i + 1 \in 1..n /\ j + 1 \in 1..n /\ s[i + 1].key = s[j + 1].key
    BY <1>1, <1>2
  <2>2. i + 1 = j + 1
    BY <1>3, <2>1 DEF Once
  <2> QED BY <2>2
<1> QED BY <1>1, <1>4 DEF u

\* A lookup, a store and the time keep the invariant.
LEMMA TtlStep ==
  ASSUME TtlInv, stored \in Nat, Archive!TtlNext
  PROVE  TtlInv'
<1>0. entries \in Seq(Entries) /\ Once(entries) /\ clock \in Nat /\ Len(entries) <= Limit /\ Limit \in Nat \ {0}
  BY StoresAssumption DEF TtlInv, Archive!LookupsAreFresh
<1>1. /\ ~Archive!NoAnswer.hit /\ ~Archive!NoAnswer.old
  BY DEF Archive!NoAnswer
<1>2. ASSUME entries' \in Seq(Entries), Once(entries'), clock' \in Nat, Len(entries') <= Limit,
        given' = Archive!NoAnswer
      PROVE  TtlInv'
  <2>1. Archive!IsInjective([i \in DOMAIN entries' |-> entries'[i].key])
    BY <1>2, OnceIsInjective
  <2> QED BY <1>1, <1>2, <2>1 DEF TtlInv, Archive!LookupsAreFresh
<1>3. ASSUME Archive!Tick PROVE TtlInv'
  BY <1>0, <1>2, <1>3 DEF Archive!Tick
<1>4. ASSUME NEW k \in Keys, NEW ttl \in 0..1, NEW stale \in 0..1, Archive!StoreEntry(k, ttl, stale)
          PROVE TtlInv'
  <2> DEFINE e == [key |-> k, value |-> stored', fresh |-> clock + ttl, usable |-> clock + ttl + stale]
             all == Append(Archive!Others(k), e)
  <2>1. /\ stored' = stored + 1 /\ entries' = (IF Len(all) > Limit THEN Tail(all) ELSE all)
            /\ given' = Archive!NoAnswer
        /\ clock' = clock
    BY <1>4 DEF Archive!StoreEntry, Archive!NewCall
  <2>2. stored + 1 \in Nat /\ clock + ttl \in Nat /\ clock + ttl + stale \in Nat
    BY <1>0
  <2>3. e \in Entries /\ e.key = k
    BY <2>1, <2>2 DEF Entries
  <2> HIDE DEF e
  <2>4. all \in Seq(Entries) /\ Len(all) = Len(Archive!Others(k)) + 1 /\ Once(all)
    BY <1>0, <2>3, OthersHaveOtherKeys, OneMoreEntry
  <2>5. Len(Archive!Others(k)) \in Nat /\ Len(Archive!Others(k)) <= Limit /\ Len(all) <= Limit + 1 /\ Len(all) \in Nat
            /\ Len(all) > 0
    BY <1>0, <2>4, OthersHaveOtherKeys
  <2> HIDE DEF all
  <2>6. CASE Len(all) > Limit
    <3>1. all # << >>
      BY <2>4, <2>5
    <3>2. Tail(all) \in Seq(Entries) /\ Len(Tail(all)) <= Limit /\ Once(Tail(all))
      BY <1>0, <2>4, <2>5, <3>1, OneLessEntry
    <3> QED BY <1>0, <1>2, <2>1, <2>6, <3>2
  <2>7. CASE ~(Len(all) > Limit)
    BY <1>0, <1>2, <2>1, <2>4, <2>5, <2>7
  <2> QED BY <2>6, <2>7
<1>5. ASSUME NEW k \in Keys, NEW allowed \in BOOLEAN, Archive!Lookup(k, allowed) PROVE TtlInv'
  <2>0. clock' = clock
    BY <1>5 DEF Archive!Lookup
  <2>1. CASE Archive!Of(k) = {}
    BY <1>0, <1>2, <1>5, <2>0, <2>1 DEF Archive!Lookup
  <2>2. CASE Archive!Of(k) # {}
    <3>1. PICK i \in Archive!Of(k) : i = CHOOSE j \in Archive!Of(k) : TRUE
      BY <2>2
    <3>6. PICK e : e = entries[i]
      OBVIOUS
    <3>7. i \in DOMAIN entries /\ entries[i].key = k
      BY <3>1 DEF Archive!Of
    <3>2. e \in Entries /\ e = entries[i] /\ e.key = k
      BY <1>0, <3>6, <3>7
    <3>3. e.fresh \in Nat /\ e.value \in Nat
      BY <3>2 DEF Entries
    <3>4. CASE Archive!Usable(e, allowed)
      <4>1. /\ entries' = Append(Archive!Others(k), e)
            /\ given' = [hit |-> TRUE, key |-> k, value |-> e.value, old |-> clock > e.fresh, allowed |-> allowed]
        BY <1>5, <2>2, <3>1, <3>2, <3>4 DEF Archive!Lookup
      <4>2. given'.old <=> clock > e.fresh
        BY <4>1
      <4>3. given'.old => given'.allowed
        BY <1>0, <3>3, <3>4, <4>1, <4>2 DEF Archive!Usable
      <4>4. /\ Archive!Others(k) \in Seq(Entries) /\ Once(Archive!Others(k))
                /\ Len(Archive!Others(k)) < Len(entries)
            /\ \A j \in DOMAIN Archive!Others(k) : Archive!Others(k)[j].key # e.key
        BY <1>0, <2>2, <3>2, OthersHaveOtherKeys
      <4>5. /\ entries' \in Seq(Entries) /\ Once(entries') /\ Len(entries') = Len(Archive!Others(k)) + 1
            /\ entries'[Len(entries')] = e
        BY <3>2, <4>1, <4>4, OneMoreEntry
      <4>6. Len(entries') <= Limit /\ Len(entries') \in DOMAIN entries'
        BY <1>0, <4>4, <4>5
      <4>7. \E j \in DOMAIN entries' : entries'[j].key = given'.key /\ entries'[j].value = given'.value
        BY <3>2, <4>1, <4>5, <4>6
      <4>8. Archive!IsInjective([j \in DOMAIN entries' |-> entries'[j].key])
        BY <4>5, OnceIsInjective
      <4> QED BY <1>0, <2>0, <4>3, <4>5, <4>6, <4>7, <4>8 DEF TtlInv, Archive!LookupsAreFresh
    <3>5. CASE ~Archive!Usable(e, allowed)
      <4>1. entries' = (IF clock > e.usable THEN Archive!Others(k) ELSE entries) /\ given' = Archive!NoAnswer
        BY <1>5, <2>2, <3>1, <3>2, <3>5 DEF Archive!Lookup
      <4>2. Archive!Others(k) \in Seq(Entries) /\ Once(Archive!Others(k))
                /\ Len(Archive!Others(k)) <= Len(entries)
        BY <1>0, OthersHaveOtherKeys
      <4>3. Len(Archive!Others(k)) <= Limit
        BY <1>0, <4>2
      <4> QED BY <1>0, <1>2, <2>0, <4>1, <4>2, <4>3
    <3> QED BY <3>4, <3>5
  <2> QED BY <2>1, <2>2
<1> QED BY <1>3, <1>4, <1>5 DEF Archive!TtlNext

\* A batch of prices answers as single calls do.
LEMMA BatchAnswers == Archive!BatchAgrees
<1> SUFFICES ASSUME NEW s \in Archive!Symbols
        PROVE Archive!PricesBatch(Archive!Symbols)[s] = Archive!LatestPrice(s)
  BY DEF Archive!BatchAgrees
<1>1. s \in Archive!Missing(Archive!Symbols) <=> ~Archive!InCache(s)
  BY DEF Archive!Missing
<1> QED BY <1>1 DEF Archive!PricesBatch, Archive!LatestPrice

-----------------------------------------------------------------------------
(* Candles behind a cache.  As long as no two fetches of a question         *)
(* overlapped, nobody was given a newer answer than the shelf has, nor than *)
(* the fetch that is under way will bring.                                  *)

\* The n elements with the greatest numbers.
Beyond(S, f, t) == {u \in S : f[u] > f[t]}
Top(S, f, n) == {t \in S : Cardinality(Beyond(S, f, t)) < n}
LEMMA TheGreatest ==
  ASSUME NEW S, IsFiniteSet(S), NEW f \in [S -> Int], \A x, y \in S : f[x] = f[y] => x = y, NEW n \in Nat \ {0}
  PROVE  /\ IsFiniteSet(Top(S, f, n)) /\ Cardinality(Top(S, f, n)) \in Nat /\ Cardinality(Top(S, f, n)) <= n
         /\ \A t \in S \ Top(S, f, n) : Cardinality(Top(S, f, n)) = n /\ \A c \in Top(S, f, n) : f[c] > f[t]
<1> DEFINE After(t) == {u \in S : f[u] > f[t]}
           A == {t \in S : Cardinality(After(t)) < n}
<1>0. A = Top(S, f, n)
  BY DEF Top, Beyond
<1>1. A \in SUBSET S /\ IsFiniteSet(A) /\ Cardinality(A) \in Nat
  BY FS_Subset, FS_CardinalityType
<1>2. \A t \in S : After(t) \in SUBSET S /\ IsFiniteSet(After(t)) /\ Cardinality(After(t)) \in Nat
  BY FS_Subset, FS_CardinalityType
<1>3. \A t \in S : f[t] \in Int
  OBVIOUS
<1>4. ASSUME NEW T \in SUBSET S, T # {}
      PROVE  (\E x \in T : \A y \in T : f[x] <= f[y]) /\ \E x \in T : \A y \in T : f[x] >= f[y]
  <2> DEFINE g == [t \in T |-> f[t]]
  <2>1. g \in [T -> Int] /\ \A t \in T : g[t] = f[t]
    BY <1>3
  <2>2. IsFiniteSet(T)
    BY FS_Subset
  <2> HIDE DEF g
  <2>3. PICK x \in T : \A y \in T : g[x] <= g[y]
    BY <1>4, <2>1, <2>2, FiniteLeast
  <2>4. PICK z \in T : \A y \in T : g[z] >= g[y]
    BY <1>4, <2>1, <2>2, FiniteGreatest
  <2> QED BY <2>1, <2>3, <2>4
<1>6. \A t \in S : t \in A <=> Cardinality(After(t)) < n
  OBVIOUS
<1>7. \A t, u \in S : u \in After(t) <=> f[u] > f[t]
  OBVIOUS
<1> HIDE DEF After, A
<1>8. Cardinality(A) <= n
  <2>1. CASE A = {}
    BY <1>1, <2>1, FS_EmptySet
  <2>2. CASE A # {}
    <3>1. PICK x \in A : \A y \in A : f[x] <= f[y]
      BY <1>1, <1>4, <2>2
    <3>2. A \ {x} \subseteq After(x)
      <4> SUFFICES ASSUME NEW y \in A, y # x PROVE y \in After(x)
        OBVIOUS
      <4>1. x \in S /\ y \in S /\ f[x] # f[y] /\ f[x] <= f[y]
        BY <1>1, <3>1
      <4> QED BY <1>3, <1>7, <4>1
    <3>3. x \in S /\ Cardinality(After(x)) < n
      BY <1>1, <1>6, <3>1
    <3>4. Cardinality(A \ {x}) = Cardinality(A) - 1 /\ Cardinality(A \ {x}) <= Cardinality(After(x))
      BY <1>1, <1>2, <3>1, <3>2, <3>3, FS_RemoveElement, FS_Subset
    <3> QED BY <1>1, <1>2, <3>3, <3>4
  <2> QED BY <2>1, <2>2
<1>9. ASSUME NEW t \in S \ A, NEW c \in A PROVE f[c] > f[t]
  <2> SUFFICES ASSUME ~(f[c] > f[t]) PROVE FALSE
    OBVIOUS
  <2>1. c \in S /\ f[c] <= f[t]
    BY <1>1, <1>3
  <2>2. After(t) \subseteq After(c)
    <3> SUFFICES ASSUME NEW u \in After(t) PROVE u \in After(c)
      OBVIOUS
    <3>1. u \in S /\ f[u] > f[t]
      BY <1>2, <1>7
    <3> QED BY <1>3, <1>7, <2>1, <3>1
  <2>3. Cardinality(After(t)) <= Cardinality(After(c))
    BY <1>2, <2>1, <2>2, FS_Subset
  <2> QED BY <1>2, <1>6, <2>1, <2>3
<1>10. ASSUME NEW t \in S \ A PROVE Cardinality(A) = n
  <2>1. S \ A \in SUBSET S /\ S \ A # {}
    OBVIOUS
  <2>2. PICK x \in S \ A : \A y \in S \ A : f[x] >= f[y]
    BY <1>4, <2>1
  <2>3. After(x) \subseteq A
    <3> SUFFICES ASSUME NEW u \in After(x), u \notin A PROVE FALSE
      OBVIOUS
    <3>1. u \in S /\ f[u] > f[x]
      BY <1>2, <1>7
    <3> QED BY <1>3, <2>2, <3>1
  <2>4. Cardinality(After(x)) <= Cardinality(A)
    BY <1>1, <2>3, FS_Subset
  <2> QED BY <1>1, <1>2, <1>6, <1>8, <2>2, <2>4
<1> QED BY <1>0, <1>1, <1>8, <1>9, <1>10

Questions == [start : Int, end : Int, limit : Nat \ {0}]
\* An answer has candles in the range, limit at most, and the newest of them.
Sound(q, got, candles) ==
  LET inRange == {t \in got : q.start <= t /\ t <= q.end} IN
  /\ candles \subseteq inRange /\ Lookup!Cardinality(candles) <= q.limit
  /\ \A t \in inRange \ candles : Lookup!Cardinality(candles) = q.limit /\ \A c \in candles : c > t
LEMMA CandlesAreSound ==
  ASSUME NEW q \in Questions, NEW got \in SUBSET Int, IsFiniteSet(got)
  PROVE  Sound(q, got, Lookup!Candles(q, got))
<1> DEFINE S == {t \in got : q.start <= t /\ t <= q.end}
           f == [t \in S |-> t]
           A == Top(S, f, q.limit)
           C == Lookup!Candles(q, got)
<1>1. \A T : Lookup!Cardinality(T) = Cardinality(T)
  BY DEF Lookup!Cardinality, Cardinality
<1>2. S \in SUBSET Int /\ IsFiniteSet(S)
  BY FS_Subset
<1>3. f \in [S -> Int] /\ (\A x \in S : f[x] = x) /\ q.limit \in Nat \ {0}
  BY <1>2 DEF Questions
<1>4. C = {t \in S : Lookup!Cardinality({u \in S : u > t}) < q.limit}
  BY DEF Lookup!Candles
<1> HIDE DEF f
<1>5. \A t \in S : Beyond(S, f, t) = {u \in S : u > t}
  BY <1>3 DEF Beyond
<1>6. C = A
  <2>1. \A t \in S : Lookup!Cardinality({u \in S : u > t}) = Cardinality(Beyond(S, f, t))
    BY <1>1, <1>5
  <2> QED BY <1>4, <2>1 DEF Top
<1>7. /\ Cardinality(A) <= q.limit
      /\ \A t \in S \ A : Cardinality(A) = q.limit /\ \A c \in A : f[c] > f[t]
  <2> HIDE DEF S
  <2>1. \A x, y \in S : f[x] = f[y] => x = y
    BY <1>3
  <2> QED BY <1>2, <1>3, <2>1, TheGreatest
<1>8. Sound(q, got, C) <=> /\ C \subseteq S /\ Cardinality(C) <= q.limit
                           /\ \A t \in S \ C : Cardinality(C) = q.limit /\ \A c \in C : c > t
  <2> HIDE DEF C
  <2> QED BY <1>1 DEF Sound
<1> HIDE DEF C
<1>9. A \subseteq S
  BY DEF Top
<1> HIDE DEF S, A
<1>10. \A t \in S \ A : \A c \in A : c > t
  BY <1>3, <1>7, <1>9
<1>11. Sound(q, got, C)
  BY <1>6, <1>7, <1>8, <1>9, <1>10
<1> QED BY <1>11 DEF C

Shelved(c) ==
  /\ c.q \in Questions /\ c.since \in Nat /\ c.since <= moment /\ Sound(c.q, c.rows, c.candles)
  /\ \A d \in shelf : d.q = c.q => d = c
  /\ c.q \notin met => \A r \in Processes : reader[r].asks /\ reader[r].q = c.q => c.since <= reader[r].since
Told(a) ==
  /\ a.since \in Nat /\ a.since <= moment
  /\ a.q \notin met =>
       /\ \A c \in shelf : c.q = a.q => a.since <= c.since
       /\ \A r \in Processes : reader[r].asks /\ reader[r].q = a.q => a.since <= reader[r].since
HistoryInv ==
  /\ moment \in Nat
  /\ reader \in [Processes -> [asks : BOOLEAN, q : Questions, since : Nat]]
  /\ \A r \in Processes : reader[r].since <= moment
  /\ \A r, s \in Processes : reader[r].asks /\ reader[s].asks /\ reader[r].q = reader[s].q => r = s
      \/ reader[r].q \in met
  /\ \A c \in shelf : Shelved(c)
  /\ \A a \in newest : Told(a)
  /\ Lookup!HistoryIsSound

\* Nobody asked anything at the start.
LEMMA HistoryStarts == Lookup!Init => HistoryInv
<1> SUFFICES ASSUME Lookup!Init PROVE HistoryInv
  OBVIOUS
<1>1. /\ moment = 0 /\ shelf = {} /\ newest = {} /\ reader = [r \in Processes |-> Lookup!NoFetch]
      /\ heard = Lookup!Unheard
  BY DEF Lookup!Init
<1>2. Lookup!NoQuestion \in Questions
  BY DEF Lookup!NoQuestion, Questions
<1>3. /\ Lookup!NoFetch \in [asks : BOOLEAN, q : Questions, since : Nat] /\ ~Lookup!NoFetch.asks
      /\ Lookup!NoFetch.since = 0
  BY <1>2 DEF Lookup!NoFetch
<1>4. \A T : Lookup!Cardinality(T) = Cardinality(T)
  BY DEF Lookup!Cardinality, Cardinality
<1>5. Lookup!Cardinality({}) = 0
  BY <1>4, FS_EmptySet
<1>6. heard.q.limit = 1 /\ heard.rows = {} /\ heard.candles = {} /\ heard.back = FALSE
  BY <1>1 DEF Lookup!Unheard, Lookup!NoQuestion
<1>7. Lookup!HistoryIsSound
  BY <1>5, <1>6 DEF Lookup!HistoryIsSound
<1> QED BY <1>1, <1>3, <1>7 DEF HistoryInv

\* What is heard is sound, and not older than what was heard before, but for
\* questions of which two fetches met.
LEMMA HearsSoundly ==
  ASSUME HistoryInv, NEW q \in Questions, NEW got, NEW candles, NEW since \in Nat, Sound(q, got, candles),
         q \notin met => \A a \in newest : a.q = q => a.since <= since,
         Lookup!Hear(q, got, candles, since), met' = met
  PROVE  /\ Lookup!HistoryIsSound'
         /\ \A a \in newest' : a \in newest \/ a = [q |-> q, since |-> since]
<1>1. heard'.q = q /\ heard'.rows = got /\ heard'.candles = candles
  BY DEF Lookup!Hear
<1>2. heard'.back <=> \E a \in {b \in newest : b.q = q} : a.since > since
  BY DEF Lookup!Hear
<1>3. \A a \in newest : a.since \in Nat
  BY DEF HistoryInv, Told
<1>4. heard'.back => q \in met'
  BY <1>2, <1>3
<1>5. Lookup!HistoryIsSound'
  BY <1>1, <1>4 DEF Lookup!HistoryIsSound, Sound
<1>6. newest' = (IF \E a \in {b \in newest : b.q = q} : a.since >= since THEN newest
                 ELSE (newest \ {b \in newest : b.q = q}) \cup {[q |-> q, since |-> since]})
  BY DEF Lookup!Hear
<1>7. \A a \in newest' : a \in newest \/ a = [q |-> q, since |-> since]
  BY <1>6
<1> QED BY <1>5, <1>7

\* A question without an end, or without a start, is put in terms of the time.
LEMMA QuestionsAreTyped ==
  ASSUME moment \in Nat, NEW start \in {Lookup!None} \cup Times, NEW end \in {Lookup!None, 0} \cup Times,
         NEW limit \in Limits
  PROVE  Lookup!Question(start, end, limit) \in Questions
<1>1. Lookup!None \in Int /\ limit \in Nat \ {0} /\ start \in Int /\ end \in Int
  BY LookupsAssumption DEF Lookup!None
<1>2. PICK e \in Int : e = IF end \in {Lookup!None, 0} THEN moment ELSE end
  BY <1>1
<1>3. PICK b \in Int : b = IF start = Lookup!None THEN e - limit ELSE start
  <2>1. e - limit \in Int /\ start \in Int
    BY <1>1
  <2> QED BY <2>1
<1>4. Lookup!Question(start, end, limit) = [start |-> b, end |-> e, limit |-> limit]
  BY <1>2, <1>3 DEF Lookup!Question
<1> QED BY <1>1, <1>4 DEF Questions

\* One thread's fetch begins or ends.
LEMMA ReaderMoves ==
  ASSUME HistoryInv, NEW p \in Processes, NEW v \in [asks : BOOLEAN, q : Questions, since : Nat],
         v.since <= moment, reader' = [reader EXCEPT ![p] = v]
  PROVE  /\ reader' \in [Processes -> [asks : BOOLEAN, q : Questions, since : Nat]]
         /\ reader'[p] = v /\ (\A r \in Processes \ {p} : reader'[r] = reader[r])
         /\ \A r \in Processes : reader'[r].since <= moment
<1>1. reader \in [Processes -> [asks : BOOLEAN, q : Questions, since : Nat]]
          /\ \A r \in Processes : reader[r].since <= moment
  BY DEF HistoryInv
<1>2. /\ reader' \in [Processes -> [asks : BOOLEAN, q : Questions, since : Nat]]
      /\ reader'[p] = v /\ (\A r \in Processes \ {p} : reader'[r] = reader[r])
  BY <1>1
<1> QED BY <1>1, <1>2

\* Asking, answers, failures and the time keep the invariant.
LEMMA HistoryStep ==
  ASSUME HistoryInv, Lookup!HistoryNext
  PROVE  HistoryInv'
<1>0. /\ moment \in Nat /\ reader \in [Processes -> [asks : BOOLEAN, q : Questions, since : Nat]]
      /\ \A r \in Processes : reader[r] \in [asks : BOOLEAN, q : Questions, since : Nat]
  BY DEF HistoryInv
<1>1. ASSUME moment' = moment + 1, UNCHANGED Lookup!historyVars PROVE HistoryInv'
  <2>1. UNCHANGED <<shelf, reader, heard, newest, met>>
    BY <1>1 DEF Lookup!historyVars
  <2>2. moment' \in Nat /\ moment <= moment' /\ \A n \in Nat : n <= moment => n <= moment'
    BY <1>0, <1>1
  <2>3. \A r \in Processes : reader'[r].since \in Nat /\ reader'[r].since <= moment'
    BY <1>0, <2>1, <2>2 DEF HistoryInv
  <2>4. \A c \in shelf' : Shelved(c)'
    BY <2>1, <2>2 DEF HistoryInv, Shelved
  <2>5. \A a \in newest' : Told(a)'
    BY <2>1, <2>2 DEF HistoryInv, Told
  <2>6. Lookup!HistoryIsSound'
    BY <2>1 DEF HistoryInv, Lookup!HistoryIsSound
  <2> QED BY <1>0, <2>1, <2>2, <2>3, <2>4, <2>5, <2>6 DEF HistoryInv
<1>2. ASSUME NEW q \in Questions, Lookup!HistoryCached(q), moment' = moment PROVE HistoryInv'
  <2>1. PICK c \in Lookup!Fresh(q) : Lookup!Hear(q, c.rows, c.candles, c.since)
            /\ UNCHANGED <<lookups, shelf, reader, met>>
    BY <1>2 DEF Lookup!HistoryCached
  <2>2. c \in shelf /\ c.q = q
    BY <2>1 DEF Lookup!Fresh, Lookup!Kept
  <2>3. Shelved(c)
    BY <2>2 DEF HistoryInv
  <2>4. c.since \in Nat /\ c.since <= moment /\ Sound(q, c.rows, c.candles) /\ \A d \in shelf : d.q = q => d = c
    BY <2>2, <2>3 DEF Shelved
  <2>5. q \notin met => \A a \in newest : a.q = q => a.since <= c.since
    BY <2>2 DEF HistoryInv, Told
  <2>6. /\ Lookup!HistoryIsSound'
        /\ \A a \in newest' : a \in newest \/ a = [q |-> q, since |-> c.since]
    BY <2>1, <2>4, <2>5, HearsSoundly
  <2>7. \A d \in shelf' : Shelved(d)'
    BY <1>2, <2>1 DEF HistoryInv, Shelved
  <2>8. ASSUME NEW a \in newest' PROVE Told(a)'
    <3>1. CASE a \in newest
      BY <1>2, <2>1, <3>1 DEF HistoryInv, Told
    <3>2. CASE a = [q |-> q, since |-> c.since]
      <4>1. a.q = q /\ a.since = c.since
        BY <3>2
      <4>2. \A d \in shelf' : d.q = q => c.since <= d.since
        BY <2>1, <2>4
      <4>3. q \notin met' => \A r \in Processes : reader'[r].asks /\ reader'[r].q = q
                => c.since <= reader'[r].since
        BY <2>1, <2>2, <2>3 DEF Shelved
      <4> QED BY <1>2, <2>4, <4>1, <4>2, <4>3 DEF Told
    <3> QED BY <2>6, <3>1, <3>2
  <2> QED BY <1>2, <2>1, <2>6, <2>7, <2>8 DEF HistoryInv
<1>3. ASSUME NEW q \in Questions, NEW p \in Processes, Lookup!HistoryAsks(p, q), moment' = moment
          PROVE HistoryInv'
  <2> DEFINE v == [asks |-> TRUE, q |-> q, since |-> moment]
  <2>1. /\ reader' = [reader EXCEPT ![p] = v] /\ UNCHANGED <<shelf, heard, newest>>
        /\ met' = IF \E r \in Processes : reader[r].asks /\ reader[r].q = q THEN met \cup {q} ELSE met
    BY <1>3 DEF Lookup!HistoryAsks
  <2>2. v \in [asks : BOOLEAN, q : Questions, since : Nat] /\ v.asks /\ v.q = q /\ v.since = moment
            /\ v.since <= moment
    BY <1>0
  <2> HIDE DEF v
  <2>3. /\ reader' \in [Processes -> [asks : BOOLEAN, q : Questions, since : Nat]]
        /\ reader'[p] = v /\ (\A r \in Processes \ {p} : reader'[r] = reader[r])
        /\ \A r \in Processes : reader'[r].since <= moment
    BY <2>1, <2>2, ReaderMoves
  <2>4. met \subseteq met'
    BY <2>1
  <2>5. ASSUME NEW r \in Processes, NEW s \in Processes, reader'[r].asks, reader'[s].asks, reader'[r].q = reader'[s].q
        PROVE  r = s \/ reader'[r].q \in met'
    <3>1. CASE r # p /\ s # p
      BY <2>3, <2>4, <2>5, <3>1 DEF HistoryInv
    <3>2. CASE r = p /\ s # p
      BY <2>1, <2>2, <2>3, <2>5, <3>2
    <3>3. CASE r # p /\ s = p
      BY <2>1, <2>2, <2>3, <2>5, <3>3
    <3> QED BY <3>1, <3>2, <3>3
  <2>6. ASSUME NEW c \in shelf' PROVE Shelved(c)'
    <3>1. Shelved(c) /\ c \in shelf
      BY <2>1, <2>6 DEF HistoryInv
    <3>2. ASSUME c.q \notin met', NEW r \in Processes, reader'[r].asks, reader'[r].q = c.q
          PROVE  c.since <= reader'[r].since
      <4>1. CASE r = p
        BY <2>2, <2>3, <3>1, <4>1 DEF Shelved
      <4>2. CASE r # p
        BY <2>3, <2>4, <3>1, <3>2, <4>2 DEF Shelved
      <4> QED BY <4>1, <4>2
    <3> QED BY <1>3, <2>1, <3>1, <3>2 DEF Shelved
  <2>7. ASSUME NEW a \in newest' PROVE Told(a)'
    <3>1. Told(a)
      BY <2>1, <2>7 DEF HistoryInv
    <3>2. ASSUME a.q \notin met', NEW r \in Processes, reader'[r].asks, reader'[r].q = a.q
          PROVE  a.since <= reader'[r].since
      <4>1. CASE r = p
        BY <2>2, <2>3, <3>1, <4>1 DEF Told
      <4>2. CASE r # p
        BY <2>3, <2>4, <3>1, <3>2, <4>2 DEF Told
      <4> QED BY <4>1, <4>2
    <3> QED BY <1>3, <2>1, <2>4, <3>1, <3>2 DEF Told
  <2>8. Lookup!HistoryIsSound'
    BY <2>1, <2>4 DEF HistoryInv, Lookup!HistoryIsSound
  <2> QED BY <1>0, <1>3, <2>3, <2>5, <2>6, <2>7, <2>8 DEF HistoryInv
<1>4. Lookup!NoFetch \in [asks : BOOLEAN, q : Questions, since : Nat] /\ ~Lookup!NoFetch.asks
          /\ Lookup!NoFetch.since = 0
  BY DEF Lookup!NoFetch, Lookup!NoQuestion, Questions
<1>5. ASSUME NEW p \in Processes, NEW got \in SUBSET Int, IsFiniteSet(got), Lookup!HistoryAnswered(p, got),
        moment' = moment
          PROVE HistoryInv'
  <2>1. PICK q \in Questions, since \in Nat : q = reader[p].q /\ since = reader[p].since
    BY <1>0
  <2> DEFINE candles == Lookup!Candles(q, got)
             d == [q |-> q, at |-> moment, rows |-> got, candles |-> candles, since |-> since]
  <2>2. /\ reader[p].asks /\ reader' = [reader EXCEPT ![p] = Lookup!NoFetch] /\ met' = met
        /\ shelf' = (shelf \ Lookup!Kept(q)) \cup {d} /\ Lookup!Hear(q, got, candles, since)
    BY <1>5, <2>1 DEF Lookup!HistoryAnswered
  <2>3. Sound(q, got, candles) /\ since <= moment
    BY <1>5, <2>1, CandlesAreSound DEF HistoryInv
  <2>4. d.q = q /\ d.since = since /\ d.rows = got /\ d.candles = candles
    OBVIOUS
  <2> HIDE DEF d, candles
  <2>5. q \notin met => \A a \in newest : a.q = q => a.since <= since
    BY <2>1, <2>2 DEF HistoryInv, Told
  <2>6. /\ Lookup!HistoryIsSound'
        /\ \A a \in newest' : a \in newest \/ a = [q |-> q, since |-> since]
    BY <2>2, <2>3, <2>5, HearsSoundly
  <2>7. /\ reader' \in [Processes -> [asks : BOOLEAN, q : Questions, since : Nat]]
        /\ reader'[p] = Lookup!NoFetch /\ (\A r \in Processes \ {p} : reader'[r] = reader[r])
        /\ \A r \in Processes : reader'[r].since <= moment
    <3>1. Lookup!NoFetch.since <= moment
      BY <1>0, <1>4
    <3> QED BY <1>4, <2>2, <3>1, ReaderMoves
  <2>8. \A r \in Processes : reader'[r].asks => reader'[r] = reader[r] /\ r # p
    BY <1>4, <2>7
  <2>9. q \notin met => \A r \in Processes : reader'[r].asks => reader'[r].q # q
    BY <2>1, <2>2, <2>8 DEF HistoryInv
  <2>10. \A c \in shelf' : c = d \/ (c \in shelf /\ c.q # q)
    BY <2>2 DEF Lookup!Kept
  <2>11. ASSUME NEW c \in shelf' PROVE Shelved(c)'
    <3>1. CASE c = d
      BY <1>5, <2>2, <2>3, <2>4, <2>9, <2>10, <3>1 DEF Shelved
    <3>2. CASE c \in shelf /\ c.q # q
      <4>1. Shelved(c)
        BY <3>2 DEF HistoryInv
      <4>2. \A e \in shelf' : e.q = c.q => e = c
        BY <2>4, <2>10, <3>2, <4>1 DEF Shelved
      <4> QED BY <1>5, <2>2, <2>8, <4>1, <4>2 DEF Shelved
    <3> QED BY <2>10, <3>1, <3>2
  <2>12. ASSUME NEW a \in newest' PROVE Told(a)'
    <3>1. CASE a \in newest
      <4>1. Told(a)
        BY <3>1 DEF HistoryInv
      <4>2. ASSUME a.q \notin met, NEW c \in shelf', c.q = a.q PROVE a.since <= c.since
        <5>1. CASE c = d
          BY <2>4, <2>5, <3>1, <4>2, <5>1
        <5>2. CASE c \in shelf
          BY <4>1, <4>2, <5>2 DEF Told
        <5> QED BY <2>10, <5>1, <5>2
      <4> QED BY <1>5, <2>2, <2>8, <4>1, <4>2 DEF Told
    <3>2. CASE a = [q |-> q, since |-> since]
      <4>1. a.q = q /\ a.since = since
        BY <3>2
      <4>2. \A c \in shelf' : c.q = q => since <= c.since
        BY <2>4, <2>10
      <4> QED BY <1>5, <2>2, <2>3, <2>9, <4>1, <4>2 DEF Told
    <3> QED BY <2>6, <3>1, <3>2
  <2>13. \A r, s \in Processes : reader'[r].asks /\ reader'[s].asks /\ reader'[r].q = reader'[s].q => r = s
             \/ reader'[r].q \in met'
    BY <2>2, <2>8 DEF HistoryInv
  <2> QED BY <1>0, <1>5, <2>6, <2>7, <2>11, <2>12, <2>13 DEF HistoryInv
<1>6. ASSUME NEW p \in Processes, Lookup!HistoryFails(p), moment' = moment PROVE HistoryInv'
  <2>1. reader' = [reader EXCEPT ![p] = Lookup!NoFetch] /\ UNCHANGED <<shelf, heard, newest, met>>
    BY <1>6 DEF Lookup!HistoryFails
  <2>2. /\ reader' \in [Processes -> [asks : BOOLEAN, q : Questions, since : Nat]]
        /\ reader'[p] = Lookup!NoFetch /\ (\A r \in Processes \ {p} : reader'[r] = reader[r])
        /\ \A r \in Processes : reader'[r].since <= moment
    <3>1. Lookup!NoFetch.since <= moment
      BY <1>0, <1>4
    <3> QED BY <1>4, <2>1, <3>1, ReaderMoves
  <2>3. \A r \in Processes : reader'[r].asks => reader'[r] = reader[r]
    BY <1>4, <2>2
  <2>4. \A r, s \in Processes : reader'[r].asks /\ reader'[s].asks /\ reader'[r].q = reader'[s].q => r = s
            \/ reader'[r].q \in met'
    BY <2>1, <2>3 DEF HistoryInv
  <2>5. \A c \in shelf' : Shelved(c)'
    BY <1>6, <2>1, <2>3 DEF HistoryInv, Shelved
  <2>6. \A a \in newest' : Told(a)'
    BY <1>6, <2>1, <2>3 DEF HistoryInv, Told
  <2>7. Lookup!HistoryIsSound'
    BY <2>1 DEF HistoryInv, Lookup!HistoryIsSound
  <2> QED BY <1>0, <1>6, <2>1, <2>2, <2>4, <2>5, <2>6, <2>7 DEF HistoryInv
<1>7. \A got \in Answers : got \in SUBSET Int /\ IsFiniteSet(got)
  BY LookupsAssumption
<1>8. \A start \in {Lookup!None} \cup Times, end \in {Lookup!None, 0} \cup Times, limit \in Limits :
        Lookup!Question(start, end, limit) \in Questions
  BY <1>0, QuestionsAreTyped
<1>9. CASE Lookup!Tick /\ UNCHANGED <<lookups, Lookup!historyVars>>
  BY <1>1, <1>9 DEF Lookup!Tick
<1>10. CASE /\ UNCHANGED moment
            /\ \/ \E start \in {Lookup!None} \cup Times, end \in {Lookup!None, 0} \cup Times, limit \in Limits :
                    LET q == Lookup!Question(start, end, limit)
                    IN  Lookup!HistoryCached(q) \/ \E p \in Processes : Lookup!HistoryAsks(p, q)
               \/ \E p \in Processes : Lookup!HistoryFails(p)
                   \/ \E got \in Answers : Lookup!HistoryAnswered(p, got)
  BY <1>2, <1>3, <1>5, <1>6, <1>7, <1>8, <1>10
<1> QED BY <1>9, <1>10 DEF Lookup!HistoryNext

-----------------------------------------------------------------------------
(* An option chain.  What a call has of a request, from the cache or not,   *)
(* was answered after the call began.                                       *)
PartNames == {"instruments", "summaries"}
PartStates == [at : {"over", "look", "asked", "done", "failed"}, tries : 0..MaxRetries + 1,
               got : SUBSET {"call"}, born : Nat]
Chains == [said : {"nothing", "error", "chain"}, options : SUBSET {"call"}, age : Int, failed : BOOLEAN]
StockTyped ==
  /\ stock \in [PartNames -> [until : Nat, got : SUBSET {"call"}, born : Nat]]
  /\ \A k \in PartNames : stock[k].until \in {0, stock[k].born + Ttl}
PartsTyped ==
  /\ moment \in Nat /\ part \in [Processes -> [PartNames -> PartStates]]
  /\ begun \in [Processes -> Int] /\ \A p \in Processes : begun[p] <= moment
SinceBegun == \A p \in Processes, k \in PartNames : part[p][k].at = "done" /\ begun[p] # -1
    => part[p][k].born + Ttl > begun[p]
ChainSound(c) ==
  /\ c.said = "chain" => c.options # {} /\ c.age < Ttl /\ ~c.failed
  /\ c.said = "error" => c.failed \/ c.options = {}
ChainsSound == chain \in [Processes -> Chains] /\ \A p \in Processes : ChainSound(chain[p])
OptionInv == StockTyped /\ PartsTyped /\ SinceBegun /\ ChainsSound

\* Nothing was asked for at the start.
LEMMA OptionsStart == Lookup!Init => OptionInv
<1> SUFFICES ASSUME Lookup!Init PROVE OptionInv
  OBVIOUS
<1>1. /\ moment = 0 /\ part = [p \in Processes |-> [k \in PartNames |-> Lookup!Unasked]]
      /\ stock = [k \in PartNames |-> [until |-> 0, got |-> {}, born |-> 0]]
      /\ begun = [p \in Processes |-> -1] /\ chain = [p \in Processes |-> Lookup!NoChain]
  BY DEF Lookup!Init, PartNames, Lookup!Parts, Lookup!None
<1>2. Lookup!Unasked \in PartStates /\ Lookup!Unasked.at = "over"
  BY LookupsAssumption DEF Lookup!Unasked, PartStates
<1>3. Lookup!NoChain \in Chains /\ Lookup!NoChain.said = "nothing"
  BY DEF Lookup!NoChain, Chains
<1>4. StockTyped
  BY <1>1 DEF StockTyped
<1>5. PartsTyped
  BY <1>1, <1>2 DEF PartsTyped
<1>6. SinceBegun
  BY <1>1 DEF SinceBegun
<1>7. ChainsSound
  BY <1>1, <1>3 DEF ChainsSound, ChainSound
<1> QED BY <1>4, <1>5, <1>6, <1>7 DEF OptionInv

\* What becomes of a request that is sent, or answered.
LEMMA PartChanges ==
  ASSUME NEW r \in PartStates, NEW tries \in 0..MaxRetries + 1, NEW answered \in SUBSET {"call"}, NEW when \in Nat
  PROVE  /\ [r EXCEPT !.at = "asked", !.tries = tries] \in PartStates
         /\ [r EXCEPT !.at = "asked", !.tries = tries].at = "asked"
         /\ [r EXCEPT !.at = "done", !.tries = tries, !.got = answered, !.born = when] \in PartStates
         /\ [r EXCEPT !.at = "done", !.tries = tries, !.got = answered, !.born = when].born = when
<1>1. [r EXCEPT !.at = "asked", !.tries = tries] \in PartStates
  BY DEF PartStates
<1>2. [r EXCEPT !.at = "asked", !.tries = tries].at = "asked"
  BY DEF PartStates
<1>3. [r EXCEPT !.at = "done", !.tries = tries, !.got = answered, !.born = when] \in PartStates
  BY DEF PartStates
<1>4. [r EXCEPT !.at = "done", !.tries = tries, !.got = answered, !.born = when].born = when
  BY DEF PartStates
<1> QED BY <1>1, <1>2, <1>3, <1>4

\* A request of one caller goes on.
LEMMA PartGoes ==
  ASSUME OptionInv, NEW p \in Processes, NEW k \in PartNames, NEW v \in PartStates,
         v.at = "done" => v.born + Ttl > begun[p], part' = [part EXCEPT ![p][k] = v],
         StockTyped', UNCHANGED <<begun, chain, moment>>
  PROVE  OptionInv'
<1>1. part \in [Processes -> [PartNames -> PartStates]]
  BY DEF OptionInv, PartsTyped
<1>2. part' = [part EXCEPT ![p] = [part[p] EXCEPT ![k] = v]]
  OBVIOUS
<1>3. PICK g \in [PartNames -> PartStates] : g = [part[p] EXCEPT ![k] = v]
  BY <1>1
<1>4. g[k] = v /\ \A j \in PartNames \ {k} : g[j] = part[p][j]
  BY <1>1, <1>3
<1>5. part' \in [Processes -> [PartNames -> PartStates]] /\ part'[p] = g
          /\ \A r \in Processes \ {p} : part'[r] = part[r]
  BY <1>1, <1>2, <1>3
<1>6. SinceBegun'
  BY <1>4, <1>5 DEF OptionInv, SinceBegun
<1>7. PartsTyped'
  BY <1>5 DEF OptionInv, PartsTyped
<1>8. ChainsSound'
  BY DEF OptionInv, ChainsSound
<1> QED BY <1>6, <1>7, <1>8 DEF OptionInv

\* A call ends: its chain is no older than the lifetime of the cache.
LEMMA CallEnds ==
  ASSUME OptionInv, NEW p \in Processes, NEW said \in {"error", "chain"}, NEW options \in SUBSET {"call"},
    NEW failure \in BOOLEAN,
         Lookup!Told(p, said, options, failure), moment' = moment,
         said = "chain" => options # {} /\ ~failure /\ \A k \in PartNames : part[p][k].at = "done",
         said = "error" => failure \/ options = {}
  PROVE  OptionInv'
<1>1. /\ part \in [Processes -> [PartNames -> PartStates]] /\ begun \in [Processes -> Int]
          /\ chain \in [Processes -> Chains]
      /\ moment \in Nat
  BY DEF OptionInv, PartsTyped, ChainsSound
<1> DEFINE S == {part[p][k].born : k \in PartNames}
           g == [k \in PartNames |-> IF part[p][k].at \in {"look", "asked"} THEN part[p][k] ELSE Lookup!Unasked]
<1>2. /\ begun[p] # -1 /\ begun' = [begun EXCEPT ![p] = -1] /\ stock' = stock /\ part' = [part EXCEPT ![p] = g]
      /\ chain' = [chain EXCEPT ![p] = [said |-> said, options |-> options, failed |-> failure,
                                        age |-> begun[p] - Lookup!Min(S)]]
  BY DEF Lookup!Told, Lookup!Parts, Lookup!None, PartNames
<1>3. PICK a \in Nat, b \in Nat : a = part[p]["instruments"].born /\ b = part[p]["summaries"].born
  BY <1>1 DEF PartStates, PartNames
<1>4. S = {a, b}
  BY <1>3 DEF PartNames
<1> HIDE DEF S
<1>5. Lookup!Min(S) \in S
  <2>1. \E x \in S : \A y \in S : x <= y
    BY <1>4
  <2> QED BY <2>1 DEF Lookup!Min
<1>6. PICK m \in Nat : m = Lookup!Min(S) /\ m \in {a, b}
  BY <1>4, <1>5
<1>7. said = "chain" => m + Ttl > begun[p]
  <2> SUFFICES ASSUME said = "chain" PROVE m + Ttl > begun[p]
    OBVIOUS
  <2>1. part[p]["instruments"].born + Ttl > begun[p] /\ part[p]["summaries"].born + Ttl > begun[p]
    BY <1>2 DEF OptionInv, SinceBegun, PartNames
  <2> QED BY <1>3, <1>6, <2>1
<1>8. PICK age \in Int : age = begun[p] - m
  BY <1>1
<1>9. said = "chain" => age < Ttl
  BY <1>1, <1>7, <1>8, LookupsAssumption
<1>10. PICK c \in Chains : c = [said |-> said, options |-> options, failed |-> failure, age |-> age]
  BY DEF Chains
<1>11. ChainSound(c)
  BY <1>9, <1>10 DEF ChainSound
<1>12. chain' = [chain EXCEPT ![p] = c]
  BY <1>2, <1>6, <1>8, <1>10
<1>13. ChainsSound'
  BY <1>1, <1>11, <1>12 DEF OptionInv, ChainsSound
<1>14. Lookup!Unasked \in PartStates /\ Lookup!Unasked.at = "over"
  BY LookupsAssumption DEF Lookup!Unasked, PartStates
<1>15. g \in [PartNames -> PartStates]
  BY <1>1, <1>14
<1> HIDE DEF g
<1>16. /\ part' \in [Processes -> [PartNames -> PartStates]] /\ (\A r \in Processes \ {p} : part'[r] = part[r])
       /\ begun' \in [Processes -> Int] /\ begun'[p] = -1 /\ \A r \in Processes \ {p} : begun'[r] = begun[r]
  BY <1>1, <1>2, <1>15
<1>17. SinceBegun'
  BY <1>16 DEF OptionInv, SinceBegun
<1>18. \A r \in Processes : begun'[r] <= moment'
  <2>1. -1 <= moment
    BY <1>1
  <2> QED BY <1>16, <2>1 DEF OptionInv, PartsTyped
<1>19. PartsTyped'
  BY <1>1, <1>16, <1>18 DEF PartsTyped
<1> QED BY <1>2, <1>13, <1>17, <1>19 DEF OptionInv, StockTyped

\* Asking, answers, refusals, retries and the time keep the invariant.
LEMMA OptionStep ==
  ASSUME OptionInv, Lookup!OptionNext
  PROVE  OptionInv'
<1>0. /\ moment \in Nat /\ part \in [Processes -> [PartNames -> PartStates]] /\ begun \in [Processes -> Int]
      /\ \A p \in Processes : begun[p] <= moment
  BY DEF OptionInv, PartsTyped
<1>1. ASSUME moment' = moment + 1, UNCHANGED Lookup!optionVars PROVE OptionInv'
  <2>1. UNCHANGED <<part, stock, begun, chain>>
    BY <1>1 DEF Lookup!optionVars
  <2>2. moment' \in Nat /\ \A p \in Processes : begun'[p] <= moment'
    BY <1>0, <1>1, <2>1
  <2> QED BY <2>1, <2>2 DEF OptionInv, StockTyped, PartsTyped, SinceBegun, ChainsSound
<1>2. Lookup!Unasked = [at |-> "over", tries |-> 0, got |-> {}, born |-> 0]
  BY DEF Lookup!Unasked
<1>3. ASSUME NEW p \in Processes, Lookup!OptionsBegin(p), moment' = moment PROVE OptionInv'
  <2>1. PICK v : v = [Lookup!Unasked EXCEPT !.at = "look"]
    OBVIOUS
  <2>2. v \in PartStates /\ v.at = "look"
    BY <1>2, <2>1, LookupsAssumption DEF PartStates
  <2>3. PICK g \in [PartNames -> PartStates] : g = [k \in PartNames |-> v]
    BY <2>2
  <2>4. /\ begun' = [begun EXCEPT ![p] = moment] /\ part' = [part EXCEPT ![p] = g] /\ stock' = stock
        /\ chain' = [chain EXCEPT ![p] = Lookup!NoChain]
    BY <1>3, <2>1, <2>3 DEF Lookup!OptionsBegin, Lookup!Parts, PartNames
  <2>5. /\ part' \in [Processes -> [PartNames -> PartStates]] /\ part'[p] = g
            /\ (\A r \in Processes \ {p} : part'[r] = part[r])
        /\ begun' \in [Processes -> Int] /\ begun'[p] = moment /\ \A r \in Processes \ {p} : begun'[r] = begun[r]
    BY <1>0, <2>4
  <2>6. \A k \in PartNames : g[k].at = "look"
    BY <2>2, <2>3
  <2>7. SinceBegun'
    BY <2>5, <2>6 DEF OptionInv, SinceBegun
  <2>8. PartsTyped'
    BY <1>0, <1>3, <2>5 DEF PartsTyped
  <2>9. Lookup!NoChain \in Chains /\ ChainSound(Lookup!NoChain)
    BY DEF Lookup!NoChain, Chains, ChainSound
  <2>10. ChainsSound'
    BY <2>4, <2>9 DEF OptionInv, ChainsSound
  <2> QED BY <2>4, <2>7, <2>8, <2>10 DEF OptionInv, StockTyped
<1>4. ASSUME NEW p \in Processes, Lookup!OptionsFail(p), moment' = moment PROVE OptionInv'
  <2>1. Lookup!Told(p, "error", {}, TRUE)
    BY <1>4 DEF Lookup!OptionsFail
  <2> QED BY <1>4, <2>1, CallEnds
<1>5. ASSUME NEW p \in Processes, Lookup!OptionsTold(p), moment' = moment PROVE OptionInv'
  <2>1. PICK options \in SUBSET {"call"} : options = Lookup!ChainOf(part[p])
    BY <1>0 DEF Lookup!ChainOf, PartStates, PartNames
  <2>2. PICK said \in {"error", "chain"} : said = IF options = {} THEN "error" ELSE "chain"
    OBVIOUS
  <2>3. Lookup!Told(p, said, options, FALSE) /\ \A k \in PartNames : part[p][k].at = "done"
    BY <1>5, <2>1, <2>2 DEF Lookup!OptionsTold, Lookup!Parts, PartNames
  <2> QED BY <1>5, <2>2, <2>3, CallEnds
<1>6. ASSUME NEW p \in Processes, NEW k \in PartNames, moment' = moment,
             Lookup!PartCached(p, k) \/ Lookup!PartAsks(p, k) \/ Lookup!PartRefused(p, k)
                 \/ Lookup!PartRetried(p, k)
             \/ \E options \in SUBSET {"call"} : Lookup!PartAnswered(p, k, options)
      PROVE  OptionInv'
  <2>0. part[p][k] \in PartStates
    BY <1>0
  <2>1. CASE Lookup!PartCached(p, k)
    <3>1. PICK v : v = [part[p][k] EXCEPT !.at = "done", !.got = stock[k].got, !.born = stock[k].born]
      OBVIOUS
    <3>2. UNCHANGED <<stock, begun, chain>> /\ part' = [part EXCEPT ![p][k] = v] /\ stock[k].until > moment
      BY <2>1, <3>1 DEF Lookup!PartCached
    <3>3. stock[k].got \in SUBSET {"call"} /\ stock[k].born \in Nat /\ stock[k].until \in {0, stock[k].born + Ttl}
      BY DEF OptionInv, StockTyped
    <3>4. v \in PartStates /\ v.born = stock[k].born
      BY <2>0, <3>1, <3>3 DEF PartStates
    <3>5. v.born + Ttl > begun[p]
      <4>1. PICK b \in Nat, d \in Nat \ {0} : b = stock[k].born /\ d = Ttl
        BY <3>3, LookupsAssumption
      <4>2. b + d > moment
        BY <1>0, <3>2, <3>3, <4>1
      <4>3. b + d > begun[p]
        BY <1>0, <4>1, <4>2
      <4> QED BY <3>4, <4>1, <4>3
    <3>6. StockTyped'
      BY <3>2 DEF OptionInv, StockTyped
    <3> QED BY <1>6, <3>2, <3>4, <3>5, <3>6, PartGoes
  <2>2. CASE Lookup!PartAsks(p, k)
    <3>1. PICK v : v = [part[p][k] EXCEPT !.at = "asked", !.tries = 1]
      OBVIOUS
    <3>2. UNCHANGED <<stock, begun, chain>> /\ part' = [part EXCEPT ![p][k] = v]
      BY <2>2, <3>1 DEF Lookup!PartAsks
    <3>3. v \in PartStates /\ v.at = "asked"
      <4>1. PICK t \in 0..MaxRetries + 1 : t = 1
        BY LookupsAssumption
      <4>2. v = [part[p][k] EXCEPT !.at = "asked", !.tries = t]
        BY <3>1, <4>1
      <4> QED BY <2>0, <4>2, PartChanges
    <3>4. StockTyped'
      BY <3>2 DEF OptionInv, StockTyped
    <3> QED BY <1>6, <3>2, <3>3, <3>4, PartGoes
  <2>3. PICK f : f = [Lookup!Unasked EXCEPT !.at = "failed"]
    OBVIOUS
  <2>4. f \in PartStates /\ f.at = "failed"
    BY <1>2, <2>3, LookupsAssumption DEF PartStates
  <2>5. CASE Lookup!PartRefused(p, k)
    <3>1. UNCHANGED <<stock, begun, chain>> /\ part' = [part EXCEPT ![p][k] = f]
      BY <2>3, <2>5 DEF Lookup!PartRefused
    <3>2. StockTyped'
      BY <3>1 DEF OptionInv, StockTyped
    <3> QED BY <1>6, <2>4, <3>1, <3>2, PartGoes
  <2>6. CASE Lookup!PartRetried(p, k)
    <3>1. PICK t \in 0..MaxRetries + 1 : t = part[p][k].tries
      BY <2>0 DEF PartStates
    <3>2. UNCHANGED <<stock, begun, chain>> /\ part[p][k].at = "asked"
      BY <2>6 DEF Lookup!PartRetried
    <3>3. PICK v \in PartStates : v.at # "done" /\ part' = [part EXCEPT ![p][k] = v]
      <4>1. CASE t <= MaxRetries
        <5>1. PICK v : v = [part[p][k] EXCEPT !.tries = t + 1]
          OBVIOUS
        <5>2. part[p][k].tries <= MaxRetries
          BY <3>1, <4>1
        <5>3. part' = [part EXCEPT ![p][k] = [part[p][k] EXCEPT !.tries = part[p][k].tries + 1]]
          BY <2>6, <5>2 DEF Lookup!PartRetried
        <5>4. part' = [part EXCEPT ![p][k] = v]
          BY <3>1, <5>1, <5>3
        <5>5. t + 1 \in 0..MaxRetries + 1
          BY <4>1, LookupsAssumption
        <5>6. v \in PartStates /\ v.at # "done"
          BY <2>0, <3>2, <5>1, <5>5 DEF PartStates
        <5> QED BY <5>4, <5>6
      <4>2. CASE ~(t <= MaxRetries)
        <5>1. ~(part[p][k].tries <= MaxRetries)
          BY <3>1, <4>2
        <5>2. part' = [part EXCEPT ![p][k] = f]
          BY <2>3, <2>6, <5>1 DEF Lookup!PartRetried
        <5> QED BY <2>4, <5>2
      <4> QED BY <4>1, <4>2
    <3>5. StockTyped'
      BY <3>2 DEF OptionInv, StockTyped
    <3> QED BY <1>6, <3>2, <3>3, <3>5, PartGoes
  <2>7. ASSUME NEW options \in SUBSET {"call"}, Lookup!PartAnswered(p, k, options) PROVE OptionInv'
    <3>1. PICK v : v = [part[p][k] EXCEPT !.at = "done", !.tries = 0, !.got = options, !.born = moment]
      OBVIOUS
    <3>2. PICK w : w = [until |-> moment + Ttl, got |-> options, born |-> moment]
      OBVIOUS
    <3>3. UNCHANGED <<begun, chain>> /\ part' = [part EXCEPT ![p][k] = v] /\ stock' = [stock EXCEPT ![k] = w]
      BY <2>7, <3>1, <3>2 DEF Lookup!PartAnswered
    <3>4. v \in PartStates /\ v.born = moment
      <4>1. PICK t \in 0..MaxRetries + 1 : t = 0
        BY LookupsAssumption
      <4>2. v = [part[p][k] EXCEPT !.at = "done", !.tries = t, !.got = options, !.born = moment]
        BY <3>1, <4>1
      <4>3. moment \in Nat
        BY <1>0
      <4>4. PICK m \in Nat, r \in PartStates : m = moment /\ r = part[p][k]
        BY <2>0, <4>3
      <4>5. v = [r EXCEPT !.at = "done", !.tries = t, !.got = options, !.born = m]
        BY <4>2, <4>4
      <4>6. v \in PartStates
        BY <4>5, PartChanges
      <4>7. v.born = m
        BY <4>4, <4>5 DEF PartStates
      <4> QED BY <4>4, <4>6, <4>7
    <3>5. w \in [until : Nat, got : SUBSET {"call"}, born : Nat] /\ w.until = w.born + Ttl
      BY <1>0, <3>2, LookupsAssumption
    <3>6. StockTyped'
      BY <3>3, <3>5 DEF OptionInv, StockTyped
    <3>7. v.born + Ttl > begun[p]
      BY <1>0, <3>4, LookupsAssumption
    <3> QED BY <1>6, <3>3, <3>4, <3>6, <3>7, PartGoes
  <2> QED BY <1>6, <2>1, <2>2, <2>5, <2>6, <2>7
<1>7. CASE Lookup!Tick /\ UNCHANGED <<lookups, Lookup!optionVars>>
  BY <1>1, <1>7 DEF Lookup!Tick
<1> QED BY <1>3, <1>4, <1>5, <1>6, <1>7
    DEF Lookup!OptionNext, PartNames, Lookup!Parts, Lookup!Options

\* Whoever gets a chain gets it fresh, and nobody tries more often than it may.
LEMMA OptionsKept == OptionInv => Lookup!OptionsAreSound
<1> SUFFICES ASSUME OptionInv PROVE Lookup!OptionsAreSound
  OBVIOUS
<1>1. \A p \in Processes, k \in PartNames : part[p][k].tries <= MaxRetries + 1
  BY DEF OptionInv, PartsTyped, PartStates
<1> QED BY <1>1 DEF OptionInv, ChainsSound, ChainSound, Lookup!OptionsAreSound, Lookup!Parts, PartNames

-----------------------------------------------------------------------------
(* Memories.  An id is never given twice, so none that is kept was deleted, *)
(* and a query sees the newest.                                             *)
Memories == [id : Nat, of : Collections, words : SUBSET Words]
MemoryKept ==
  /\ added \in Nat /\ memory \in SUBSET Memories /\ IsFiniteSet(memory)
  /\ \A r \in memory : r.id <= added /\ r.id \notin forgotten
  /\ \A r, s \in memory : r.id = s.id => r = s
  /\ \A i \in forgotten : i \in Nat /\ i <= added
RecallInv == MemoryKept /\ Lookup!RecallIsRelevant

\* Where no query was just answered, only what is kept matters.
LEMMA NothingRecalled ==
  ASSUME MemoryKept, recalled = Lookup!NoRecall
  PROVE  RecallInv
<1>1. recalled.words = {} /\ recalled.n = 1 /\ recalled.seen = {} /\ recalled.found = {}
  BY DEF Lookup!NoRecall
<1>2. Lookup!Cardinality({}) = 0
  BY FS_EmptySet DEF Lookup!Cardinality, Cardinality
<1>3. \A r \in memory : r.id \notin forgotten
  BY DEF MemoryKept
<1> QED BY <1>1, <1>2, <1>3 DEF RecallInv, Lookup!RecallIsRelevant

\* Nothing is remembered at the start.
LEMMA RecallStarts == Lookup!Init => RecallInv
<1> SUFFICES ASSUME Lookup!Init PROVE RecallInv
  OBVIOUS
<1>1. added = 0 /\ memory = {} /\ forgotten = {} /\ recalled = Lookup!NoRecall
  BY DEF Lookup!Init
<1>2. MemoryKept
  BY <1>1, FS_EmptySet DEF MemoryKept
<1> QED BY <1>1, <1>2, NothingRecalled

\* The newest of some memories are n at most.
LEMMA NewestAreFew ==
  ASSUME MemoryKept, NEW S \in SUBSET memory, NEW n \in Nat \ {0}
  PROVE  /\ Lookup!NewestOf(S, n) \in SUBSET S /\ IsFiniteSet(Lookup!NewestOf(S, n))
         /\ Cardinality(Lookup!NewestOf(S, n)) \in Nat /\ Cardinality(Lookup!NewestOf(S, n)) <= n
<1> DEFINE f == [r \in S |-> r.id]
<1>1. \A T : Lookup!Cardinality(T) = Cardinality(T)
  BY DEF Lookup!Cardinality, Cardinality
<1>2. \A r \in S : r.id \in Nat
  BY DEF MemoryKept, Memories
<1>3. f \in [S -> Int] /\ \A r \in S : f[r] = r.id
  BY <1>2
<1>4. \A r, s \in S : r.id = s.id => r = s
  BY DEF MemoryKept
<1> HIDE DEF f
<1>5. \A r, s \in S : f[r] = f[s] => r = s
  BY <1>3, <1>4
<1>6. IsFiniteSet(S)
  BY FS_Subset DEF MemoryKept
<1>7. Lookup!NewestOf(S, n) = {r \in S : Lookup!Cardinality({s \in S : s.id > r.id}) < n}
  BY DEF Lookup!NewestOf
<1>8. \A r \in S : Beyond(S, f, r) = {s \in S : s.id > r.id}
  BY <1>3 DEF Beyond
<1>9. \A r \in S : Lookup!Cardinality({s \in S : s.id > r.id}) = Cardinality(Beyond(S, f, r))
  BY <1>1, <1>8
<1>10. Lookup!NewestOf(S, n) = Top(S, f, n)
  BY <1>7, <1>9 DEF Top
<1>11. Top(S, f, n) \in SUBSET S
  BY DEF Top
<1>12. IsFiniteSet(Top(S, f, n)) /\ Cardinality(Top(S, f, n)) \in Nat /\ Cardinality(Top(S, f, n)) <= n
  BY <1>3, <1>5, <1>6, TheGreatest
<1> QED BY <1>10, <1>11, <1>12

\* What is picked of some rows is n of them at most.
LEMMA PickedAreFew ==
  ASSUME NEW S, IsFiniteSet(S), NEW n \in Nat, NEW found \in Lookup!kSubset(Lookup!Size(S, n), S)
  PROVE  found \in SUBSET S /\ Cardinality(found) <= n
<1>1. \A T : Lookup!Cardinality(T) = Cardinality(T)
  BY DEF Lookup!Cardinality, Cardinality
<1>2. found \in SUBSET S /\ Lookup!Cardinality(found) = Lookup!Size(S, n)
  BY DEF Lookup!kSubset
<1>3. PICK k \in Nat : k = Cardinality(S)
  BY FS_CardinalityType
<1>4. Lookup!Size(S, n) = IF k < n THEN k ELSE n
  BY <1>1, <1>3 DEF Lookup!Size
<1>5. (IF k < n THEN k ELSE n) <= n
  OBVIOUS
<1> QED BY <1>1, <1>2, <1>4, <1>5

\* What is found was seen, is not too much, and where the query's words are
\* said once each, has one of them, unless nothing seen has.
LEMMA FoundIsRelevant ==
  ASSUME MemoryKept, NEW seen \in SUBSET memory, NEW words, NEW double \in SUBSET words, NEW n \in Nat \ {0},
    NEW embeds \in BOOLEAN,
         NEW found \in Lookup!Found(seen, words, double, n, embeds)
  PROVE  /\ found \in SUBSET seen /\ Cardinality(found) <= n
         /\ ~embeds /\ double = {} /\ Lookup!Relevant(found, words) # found => Lookup!Relevant(seen, words) = {}
<1>0. IsFiniteSet(seen)
  BY FS_Subset DEF MemoryKept
<1>1. CASE embeds
  <2>1. found \in Lookup!kSubset(Lookup!Size(seen, n), seen)
    BY <1>1 DEF Lookup!Found
  <2> QED BY <1>0, <1>1, <2>1, PickedAreFew
<1>2. CASE ~embeds
  <2> DEFINE speaking == Lookup!Speaking(seen, words, double)
             perhaps == Lookup!Relevant(seen, speaking)
             surely == {r \in perhaps : Lookup!Shared(r, words) \subseteq speaking}
             Given(S) == IF S = {} THEN {Lookup!NewestOf(seen, n)} ELSE Lookup!kSubset(Lookup!Size(S, n), S)
  <2>1. found \in UNION {Given(surely \cup others) : others \in SUBSET (perhaps \ surely)}
    BY <1>2 DEF Lookup!Found
  <2> HIDE DEF Given
  <2>2. PICK others \in SUBSET (perhaps \ surely) : found \in Given(surely \cup others)
    BY <2>1
  <2>3. PICK S : S = surely \cup others
    OBVIOUS
  <2>4. S \in SUBSET perhaps /\ surely \subseteq S
    BY <2>3
  <2>5. perhaps \in SUBSET seen
    BY DEF Lookup!Relevant
  <2>6. IsFiniteSet(S)
    BY <1>0, <2>4, <2>5, FS_Subset
  <2>7. ASSUME double = {} PROVE S = Lookup!Relevant(seen, words)
    <3>1. speaking = words
      BY <2>7 DEF Lookup!Speaking
    <3>2. \A r : Lookup!Shared(r, words) \subseteq words
      BY DEF Lookup!Shared
    <3>3. surely = perhaps
      BY <3>1, <3>2
    <3> QED BY <2>4, <3>1, <3>3
  <2> HIDE DEF speaking, perhaps, surely
  <2>8. CASE S = {}
    <3>1. found = Lookup!NewestOf(seen, n)
      BY <2>2, <2>3, <2>8 DEF Given
    <3>2. found \in SUBSET seen /\ Cardinality(found) <= n
      BY <3>1, NewestAreFew
    <3> QED BY <2>7, <2>8, <3>2
  <2>9. CASE S # {}
    <3>1. found \in Lookup!kSubset(Lookup!Size(S, n), S)
      BY <2>2, <2>3, <2>9 DEF Given
    <3>2. found \in SUBSET S /\ Cardinality(found) <= n
      BY <2>6, <3>1, PickedAreFew
    <3>3. double = {} => Lookup!Relevant(found, words) = found
      BY <2>7, <3>2 DEF Lookup!Relevant
    <3> QED BY <2>4, <2>5, <3>2, <3>3
  <2> QED BY <2>8, <2>9
<1> QED BY <1>1, <1>2

\* Adding, deleting and asking keep the invariant.
LEMMA RecallStep ==
  ASSUME RecallInv, Lookup!RecallNext
  PROVE  RecallInv'
<1>0. MemoryKept /\ IsFiniteSet(memory)
  BY DEF RecallInv, MemoryKept
<1>5. Window \in Nat \ {0} /\ Limits \subseteq Nat \ {0}
  BY LookupsAssumption
<1>1. ASSUME NEW c \in Collections, NEW ws \in SUBSET Words, Lookup!Add(c, ws) PROVE RecallInv'
  <2>1. added \in Nat /\ added + 1 \in Nat
    BY <1>0, <1>1 DEF MemoryKept, Lookup!Add
  <2>2. PICK new : new = [id |-> added + 1, of |-> c, words |-> ws]
    OBVIOUS
  <2>3. new \in Memories /\ new.id = added + 1
    BY <2>1, <2>2 DEF Memories
  <2>4. added' = added + 1 /\ memory' = memory \cup {new} /\ forgotten' = forgotten
            /\ recalled' = Lookup!NoRecall
    BY <1>1, <2>2 DEF Lookup!Add
  <2>5. IsFiniteSet(memory')
    BY <1>0, <2>4, FS_AddElement
  <2>6. \A r \in memory : r.id \in Nat /\ r.id <= added
    BY <1>0 DEF MemoryKept, Memories
  <2>7. \A i \in forgotten : i \in Nat /\ i <= added
    BY <1>0 DEF MemoryKept
  <2>8. \A r \in memory' : r.id <= added' /\ r.id \notin forgotten'
    <3> SUFFICES ASSUME NEW r \in memory' PROVE r.id <= added' /\ r.id \notin forgotten'
      OBVIOUS
    <3>1. CASE r = new
      BY <2>1, <2>3, <2>4, <2>7, <3>1
    <3>2. CASE r # new
      BY <1>0, <2>1, <2>4, <2>6, <3>2 DEF MemoryKept
    <3> QED BY <3>1, <3>2
  <2>9. \A r, s \in memory' : r.id = s.id => r = s
    <3>1. \A r \in memory : r.id # new.id
      BY <2>1, <2>3, <2>6
    <3> QED BY <1>0, <2>4, <3>1 DEF MemoryKept
  <2>10. MemoryKept'
    <3>1. \A i \in forgotten' : i \in Nat /\ i <= added'
      BY <2>1, <2>4, <2>7
    <3> QED BY <1>0, <2>1, <2>3, <2>4, <2>5, <2>8, <2>9, <3>1 DEF MemoryKept
  <2>11. (MemoryKept /\ recalled = Lookup!NoRecall => RecallInv)'
    BY NothingRecalled, PTL
  <2> QED BY <2>4, <2>10, <2>11
<1>2. ASSUME NEW S \in SUBSET memory, Lookup!Delete(S) PROVE RecallInv'
  <2>1. /\ memory' = memory \ S /\ forgotten' = forgotten \cup {r.id : r \in S} /\ recalled' = Lookup!NoRecall
        /\ added' = added
    BY <1>2 DEF Lookup!Delete
  <2>2. IsFiniteSet(memory')
    BY <1>0, <2>1, FS_Subset
  <2>3. \A r \in memory' : r.id \notin forgotten'
    BY <1>0, <2>1 DEF MemoryKept
  <2>4. \A i \in forgotten' : i \in Nat /\ i <= added
    BY <1>0, <2>1 DEF MemoryKept, Memories
  <2>5. MemoryKept'
    BY <1>0, <2>1, <2>2, <2>3, <2>4 DEF MemoryKept
  <2>6. (MemoryKept /\ recalled = Lookup!NoRecall => RecallInv)'
    BY NothingRecalled, PTL
  <2> QED BY <2>1, <2>5, <2>6
<1>4. \A ws : \A e \in BOOLEAN : (IF e THEN {{}} ELSE SUBSET ws) \subseteq SUBSET ws
  OBVIOUS
<1> DEFINE Asks == \E c \in Collections \cup {""}, ws \in (SUBSET Words) \ {{}}, n \in Limits, e \in BOOLEAN :
                     \E double \in (IF e THEN {{}} ELSE SUBSET ws) : Lookup!Query(c, ws, double, n, e)
<1>3. CASE Asks
  <2>a. PICK c \in Collections \cup {""}, ws \in (SUBSET Words) \ {{}}, n \in Limits, embeds \in BOOLEAN :
          \E double \in (IF embeds THEN {{}} ELSE SUBSET ws) : Lookup!Query(c, ws, double, n, embeds)
    BY <1>3
  <2>b. PICK double \in (IF embeds THEN {{}} ELSE SUBSET ws) : Lookup!Query(c, ws, double, n, embeds)
    BY <2>a
  <2>c. double \in SUBSET ws
    BY <1>4, <2>b
  <2> DEFINE S == {r \in memory : c \in {"", r.of}}
             seen == Lookup!NewestOf(S, Window)
  <2>1. PICK found \in Lookup!Found(seen, ws, double, n, embeds) :
          recalled' = [words |-> IF embeds \/ double # {} THEN {} ELSE ws,
                       of |-> c, n |-> n, seen |-> seen, found |-> found]
    BY <2>b DEF Lookup!Query
  <2>2. UNCHANGED <<added, memory, forgotten>>
    BY <2>b DEF Lookup!Query
  <2>3. MemoryKept'
    BY <1>0, <2>2 DEF MemoryKept
  <2>4. S \in SUBSET memory /\ \A r \in S : c \in {"", r.of}
    OBVIOUS
  <2> HIDE DEF S
  <2>n. n \in Nat \ {0}
    BY <1>5
  <2>6. seen \in SUBSET S
    BY <1>0, <1>5, <2>4, NewestAreFew
  <2>7. /\ recalled'.words = (IF embeds \/ double # {} THEN {} ELSE ws) /\ recalled'.of = c /\ recalled'.n = n
        /\ recalled'.seen = seen /\ recalled'.found = found
    BY <2>1
  <2> HIDE DEF seen
  <2>8. seen \in SUBSET memory
    BY <2>4, <2>6
  <2>9. /\ found \in SUBSET seen /\ Cardinality(found) <= n
        /\ ~embeds /\ double = {} /\ Lookup!Relevant(found, ws) # found => Lookup!Relevant(seen, ws) = {}
    BY <1>0, <2>1, <2>n, <2>8, <2>c, FoundIsRelevant
  <2>10. Lookup!Cardinality(found) = Cardinality(found)
    BY DEF Lookup!Cardinality, Cardinality
  <2>11. recalled'.words # {} => recalled'.words = ws /\ ~embeds /\ double = {}
    BY <2>7
  <2>12. \A m \in found : c \in {"", m.of}
    BY <2>4, <2>6, <2>9
  <2>13. \A m \in memory' : m.id \notin forgotten'
    BY <2>3 DEF MemoryKept
  <2>14. recalled'.words # {} /\ Lookup!Relevant(recalled'.found, recalled'.words) # recalled'.found
         => Lookup!Relevant(recalled'.seen, recalled'.words) = {}
    BY <2>7, <2>9, <2>11
  <2>15. Lookup!RecallIsRelevant'
    BY <2>7, <2>9, <2>10, <2>12, <2>13, <2>14 DEF Lookup!RecallIsRelevant
  <2> QED BY <2>3, <2>15 DEF RecallInv
<1>11. \A c : {r \in memory : r.of = c} \in SUBSET memory
  OBVIOUS
<1>12. \A r \in memory : {r} \in SUBSET memory
  OBVIOUS
<1> DEFINE Adds == \E c \in Collections, ws \in SUBSET Words : Lookup!Add(c, ws)
           Deletes == \/ \E r \in memory : Lookup!Delete({r})
                      \/ \E c \in Collections : Lookup!Delete({r \in memory : r.of = c})
                      \/ Lookup!Delete(memory)
<1>7. Adds \/ Deletes \/ Asks
  BY DEF Lookup!RecallNext
<1>8. CASE Adds
  BY <1>1, <1>8
<1>9. CASE Deletes
  BY <1>2, <1>9, <1>11, <1>12
<1> HIDE DEF Adds, Deletes, Asks
<1> QED BY <1>3, <1>7, <1>8, <1>9

-----------------------------------------------------------------------------
(* Notes in layers.  Who writes a body found nothing later in the note, who  *)
(* writes a sidecar writes it of the body the note has.                      *)
LayerNames == {"L0", "L1", "L2"}
Leftover ==
  {<<"L2">>, <<"L2", "L0">>, <<"L2", "L1">>, <<"L2", "L0", "L1">>, <<"L0">>, <<"L1">>, <<"L0", "L1">>}
Notings == [at : {"going", "open"}, note : Notes, text : 1..MaxLookups, to : Leftover]
\* What p writes fits what its note has.
Fits(w, note) ==
  /\ Head(w.to) = "L2" => \A l \in LayerNames : note[l] # MaxLookups + 1 => note[l] <= w.text
  /\ Head(w.to) = "L2" /\ w.at = "open" => note["L2"] = MaxLookups + 1
  /\ Head(w.to) # "L2" => note["L2"] = w.text
Follows(note) ==
  \A l \in {"L0", "L1"} : note["L2"] # MaxLookups + 1 /\ note[l] # MaxLookups + 1 => note[l] <= note["L2"]
NoteInv(n) ==
  /\ \A p, q \in Processes :
       noting[p].at # "idle" /\ noting[p].note = n /\ noting[q].at # "idle" /\ noting[q].note = n => p = q
  /\ \A p \in Processes : noting[p].at # "idle" /\ noting[p].note = n => Fits(noting[p], layers[n])
  /\ Follows(layers[n])
WritingInv ==
  /\ lookups \in 0..MaxLookups /\ layers \in [Notes -> [LayerNames -> 0..MaxLookups + 1]]
  /\ \A n \in Notes, l \in LayerNames : layers[n][l] # MaxLookups + 1 => layers[n][l] <= lookups
  /\ noting \in [Processes -> Notings \cup {Lookup!NotNoting}]
  /\ \A p \in Processes : noting[p].at # "idle" => noting[p] \in Notings /\ noting[p].text <= lookups
  /\ \A n \in Notes \ twice : NoteInv(n)
SearchInv ==
  /\ \A s \in search.scored : s.layer = "L1" => s.abstract >= 1
  /\ search.given \subseteq search.scored
  /\ \A s \in search.given, t \in search.scored \ search.given : s.score >= t.score
LayerInv == WritingInv /\ SearchInv

\* How often something is looked up is bounded.
LEMMA LookupsAreCounted == MaxLookups \in Nat
BY LookupsAssumption

\* What is left to write begins with a layer and goes on with sidecars.
LEMMA Leftovers ==
  /\ \A s \in Leftover : Head(s) \in LayerNames /\ (Len(s) # 1 => Tail(s) \in Leftover /\ Head(Tail(s)) # "L2")
  /\ Lookup!Writes \subseteq Leftover /\ \A s \in Lookup!Writes : Head(s) = "L2"
  /\ \A l \in {"L0", "L1"} : <<l>> \in Leftover /\ Head(<<l>>) = l
<1>1. Head(<<"L2">>) = "L2" /\ Len(<<"L2">>) = 1
  OBVIOUS
<1>2. Head(<<"L2", "L0">>) = "L2" /\ Tail(<<"L2", "L0">>) = <<"L0">>
  OBVIOUS
<1>3. Head(<<"L2", "L1">>) = "L2" /\ Tail(<<"L2", "L1">>) = <<"L1">>
  OBVIOUS
<1>4. Head(<<"L2", "L0", "L1">>) = "L2" /\ Tail(<<"L2", "L0", "L1">>) = <<"L0", "L1">>
  OBVIOUS
<1>5. Head(<<"L0">>) = "L0" /\ Len(<<"L0">>) = 1 /\ Head(<<"L1">>) = "L1" /\ Len(<<"L1">>) = 1
  OBVIOUS
<1>6. Head(<<"L0", "L1">>) = "L0" /\ Tail(<<"L0", "L1">>) = <<"L1">>
  OBVIOUS
<1>7. \A s \in Leftover : Head(s) \in LayerNames /\ (Len(s) # 1 => Tail(s) \in Leftover /\ Head(Tail(s)) # "L2")
  <2> SUFFICES ASSUME NEW s \in Leftover
               PROVE  Head(s) \in LayerNames /\ (Len(s) # 1 => Tail(s) \in Leftover /\ Head(Tail(s)) # "L2")
    OBVIOUS
  <2>1. CASE s = <<"L2">>
    BY <1>1, <2>1, Zenon DEF LayerNames
  <2>2. CASE s = <<"L2", "L0">>
    BY <1>2, <1>5, <2>2, Zenon DEF LayerNames, Leftover
  <2>3. CASE s = <<"L2", "L1">>
    BY <1>3, <1>5, <2>3, Zenon DEF LayerNames, Leftover
  <2>4. CASE s = <<"L2", "L0", "L1">>
    BY <1>4, <1>6, <2>4, Zenon DEF LayerNames, Leftover
  <2>5. CASE s = <<"L0">>
    BY <1>5, <2>5, Zenon DEF LayerNames
  <2>6. CASE s = <<"L1">>
    BY <1>5, <2>6, Zenon DEF LayerNames
  <2>7. CASE s = <<"L0", "L1">>
    BY <1>5, <1>6, <2>7, Zenon DEF LayerNames, Leftover
  <2> QED BY <2>1, <2>2, <2>3, <2>4, <2>5, <2>6, <2>7, Zenon DEF Leftover
<1>8. Lookup!Writes \subseteq Leftover /\ \A s \in Lookup!Writes : Head(s) = "L2"
  BY <1>1, <1>2, <1>3, <1>4, Zenon DEF Lookup!Writes, Leftover
<1>9. \A l \in {"L0", "L1"} : <<l>> \in Leftover /\ Head(<<l>>) = l
  BY <1>5, Zenon DEF Leftover
<1> QED BY <1>7, <1>8, <1>9

\* There are no notes at the start.
LEMMA LayersStart == Lookup!Init => LayerInv
<1> SUFFICES ASSUME Lookup!Init PROVE LayerInv
  OBVIOUS
<1>1. /\ lookups = 0 /\ layers = [n \in Notes |-> [l \in LayerNames |-> 0]]
      /\ noting = [p \in Processes |-> Lookup!NotNoting]
      /\ twice = {} /\ search = [to |-> {}, scored |-> {}, given |-> {}]
  BY DEF Lookup!Init, Lookup!Layers, LayerNames
<1>2. layers \in [Notes -> [LayerNames -> 0..MaxLookups + 1]]
  BY <1>1, LookupsAreCounted
<1>3. \A n \in Notes, l \in LayerNames : layers[n][l] = 0
  BY <1>1
<1>4. \A p \in Processes : noting[p] = Lookup!NotNoting /\ noting[p].at = "idle"
  BY <1>1 DEF Lookup!NotNoting
<1>5. noting \in [Processes -> Notings \cup {Lookup!NotNoting}]
  BY <1>1
<1>6. \A n \in Notes : Follows(layers[n])
  BY <1>3 DEF Follows, LayerNames
<1>7. \A n \in Notes : NoteInv(n)
  BY <1>4, <1>6 DEF NoteInv
<1>8. WritingInv
  BY <1>1, <1>2, <1>3, <1>4, <1>5, <1>7, LookupsAreCounted DEF WritingInv
<1>9. SearchInv
  BY <1>1 DEF SearchInv
<1> QED BY <1>8, <1>9 DEF LayerInv

\* Who goes on or is over leaves the other notes as they are.
LEMMA LayerMoves ==
  ASSUME WritingInv, NEW p \in Processes, NEW w, w = noting[p], w.at # "idle", NEW v, NEW note,
         v = Lookup!NotNoting \/ (v \in Notings /\ v.note = w.note /\ v.text = w.text),
         noting' = [noting EXCEPT ![p] = v], note \in [LayerNames -> 0..MaxLookups + 1],
         layers' = [layers EXCEPT ![w.note] = note], lookups' = lookups, twice' = twice,
         \A l \in LayerNames : note[l] # MaxLookups + 1 => note[l] <= lookups,
         Fits(w, layers[w.note]) /\ Follows(layers[w.note]) => Follows(note) /\ (v.at # "idle" => Fits(v, note))
  PROVE  WritingInv'
<1>0. Lookup!NotNoting.at = "idle"
  BY DEF Lookup!NotNoting
<1>1. w \in Notings /\ w.text <= lookups /\ w.note \in Notes
  BY DEF WritingInv, Notings
<1>2. layers' \in [Notes -> [LayerNames -> 0..MaxLookups + 1]] /\ layers'[w.note] = note
      /\ \A n \in Notes : n # w.note => layers'[n] = layers[n]
  BY <1>1 DEF WritingInv
<1>3. noting' \in [Processes -> Notings \cup {Lookup!NotNoting}] /\ noting'[p] = v
      /\ \A q \in Processes : q # p => noting'[q] = noting[q]
  BY DEF WritingInv
<1>4. \A n \in Notes, l \in LayerNames : layers'[n][l] # MaxLookups + 1 => layers'[n][l] <= lookups'
  BY <1>2 DEF WritingInv
<1>5. \A q \in Processes : noting'[q].at # "idle" => noting'[q] \in Notings /\ noting'[q].text <= lookups'
  BY <1>0, <1>1, <1>3 DEF WritingInv
<1>6. ASSUME NEW n \in Notes \ twice' PROVE NoteInv(n)'
  <2>1. /\ \A q, r \in Processes :
             noting[q].at # "idle" /\ noting[q].note = n /\ noting[r].at # "idle" /\ noting[r].note = n => q = r
        /\ \A q \in Processes : noting[q].at # "idle" /\ noting[q].note = n => Fits(noting[q], layers[n])
        /\ Follows(layers[n])
    BY <1>6 DEF WritingInv, NoteInv
  <2>2. noting'[p].at # "idle" => noting'[p].note = w.note
    BY <1>0, <1>3
  <2>3. \A q \in Processes : noting'[q].at # "idle" => noting[q].at # "idle" /\ noting'[q].note = noting[q].note
    BY <1>3, <2>2
  <2>4. \A q, r \in Processes :
          noting'[q].at # "idle" /\ noting'[q].note = n /\ noting'[r].at # "idle" /\ noting'[r].note = n
              => q = r
    BY <2>1, <2>3
  <2>5. CASE n # w.note
    <3>1. layers'[n] = layers[n]
      BY <1>2, <2>5
    <3>2. \A q \in Processes : noting'[q].at # "idle" /\ noting'[q].note = n => noting'[q] = noting[q]
      BY <1>3, <2>2, <2>5
    <3>3. \A q \in Processes : noting'[q].at # "idle" /\ noting'[q].note = n => Fits(noting'[q], layers'[n])
      BY <2>1, <3>1, <3>2
    <3> QED BY <2>1, <2>4, <3>1, <3>3 DEF NoteInv
  <2>6. CASE n = w.note
    <3>1. Fits(w, layers[w.note]) /\ Follows(layers[w.note])
      BY <2>1, <2>6
    <3>2. Follows(note) /\ (v.at # "idle" => Fits(v, note))
      BY <3>1
    <3>3. \A q \in Processes : noting'[q].at # "idle" /\ noting'[q].note = n => q = p
      BY <2>1, <2>3, <2>6
    <3>4. \A q \in Processes : noting'[q].at # "idle" /\ noting'[q].note = n => Fits(noting'[q], layers'[n])
      BY <1>2, <1>3, <2>6, <3>2, <3>3
    <3>5. Follows(layers'[n])
      BY <1>2, <2>6, <3>2
    <3> QED BY <2>4, <3>4, <3>5 DEF NoteInv
  <2> QED BY <2>5, <2>6
<1>7. lookups' \in 0..MaxLookups
  BY DEF WritingInv
<1> QED BY <1>2, <1>3, <1>4, <1>5, <1>6, <1>7 DEF WritingInv

\* Who begins meets nobody at the note, or the note was written by two.
LEMMA WritingStarts ==
  ASSUME WritingInv, NEW p \in Processes, NEW n \in Notes, NEW text \in 1..MaxLookups, NEW to \in Leftover,
         Lookup!Starts(p, n, text, to), lookups' \in 0..MaxLookups, lookups <= lookups', text <= lookups',
         Head(to) = "L2" => lookups <= text, Head(to) # "L2" => layers[n]["L2"] = text
  PROVE  WritingInv' /\ search' = search
<1>1. PICK v : v = [at |-> "going", note |-> n, text |-> text, to |-> to]
  OBVIOUS
<1>2. v \in Notings /\ v.at = "going" /\ v.note = n /\ v.text = text /\ v.to = to
  BY <1>1 DEF Notings
<1>3. /\ noting[p].at = "idle" /\ noting' = [noting EXCEPT ![p] = v] /\ layers' = layers /\ search' = search
      /\ twice' = IF Lookup!WritersOf(n) = {} THEN twice ELSE twice \cup {n}
  BY <1>1 DEF Lookup!Starts
<1>4. noting' \in [Processes -> Notings \cup {Lookup!NotNoting}] /\ noting'[p] = v
      /\ \A q \in Processes : q # p => noting'[q] = noting[q]
  BY <1>2, <1>3 DEF WritingInv
<1>5. \A q \in Processes : noting'[q].at # "idle" => noting'[q] \in Notings /\ noting'[q].text <= lookups'
  <2> SUFFICES ASSUME NEW q \in Processes, noting'[q].at # "idle"
               PROVE  noting'[q] \in Notings /\ noting'[q].text <= lookups'
    OBVIOUS
  <2>1. CASE q = p
    BY <1>2, <1>4, <2>1
  <2>2. CASE q # p
    <3>1. noting[q] \in Notings /\ noting[q].text <= lookups /\ noting'[q] = noting[q]
              /\ noting[q].text \in 1..MaxLookups
      BY <1>4, <2>2 DEF WritingInv, Notings
    <3> QED BY <3>1 DEF WritingInv
  <2> QED BY <2>1, <2>2
<1>6. \A m \in Notes, l \in LayerNames : layers'[m][l] # MaxLookups + 1 => layers'[m][l] <= lookups'
  <2> SUFFICES ASSUME NEW m \in Notes, NEW l \in LayerNames, layers[m][l] # MaxLookups + 1
        PROVE layers[m][l] <= lookups'
    BY <1>3
  <2>1. layers[m][l] \in 0..MaxLookups + 1 /\ layers[m][l] <= lookups /\ lookups \in 0..MaxLookups
    BY DEF WritingInv
  <2> QED BY <2>1
<1>7. Fits(v, layers[n])
  <2>1. ASSUME Head(to) = "L2", NEW l \in LayerNames, layers[n][l] # MaxLookups + 1 PROVE layers[n][l] <= text
    <3>1. layers[n][l] \in 0..MaxLookups + 1 /\ layers[n][l] <= lookups /\ lookups \in 0..MaxLookups
      BY <2>1 DEF WritingInv
    <3> QED BY <2>1, <3>1
  <2> QED BY <1>2, <2>1 DEF Fits
<1>8. ASSUME NEW m \in Notes \ twice' PROVE NoteInv(m)'
  <2>0. m \notin twice /\ (m = n => Lookup!WritersOf(n) = {})
    BY <1>3, <1>8
  <2>1. /\ \A q, r \in Processes :
             noting[q].at # "idle" /\ noting[q].note = m /\ noting[r].at # "idle" /\ noting[r].note = m => q = r
        /\ \A q \in Processes : noting[q].at # "idle" /\ noting[q].note = m => Fits(noting[q], layers[m])
        /\ Follows(layers[m])
    BY <1>8, <2>0 DEF WritingInv, NoteInv
  <2>2. ASSUME NEW q \in Processes, q # p, noting'[q].at # "idle", noting'[q].note = m
        PROVE  m # n /\ noting[q].at # "idle" /\ noting[q].note = m /\ noting'[q] = noting[q]
    <3>1. noting[q].at # "idle" /\ noting[q].note = m /\ noting'[q] = noting[q]
      BY <1>4, <2>2
    <3>2. ASSUME m = n PROVE FALSE
      BY <2>0, <3>1, <3>2 DEF Lookup!WritersOf
    <3> QED BY <3>1, <3>2
  <2>3. \A q, r \in Processes :
          noting'[q].at # "idle" /\ noting'[q].note = m /\ noting'[r].at # "idle" /\ noting'[r].note = m
              => q = r
    BY <1>2, <1>4, <2>1, <2>2
  <2>4. ASSUME NEW q \in Processes, noting'[q].at # "idle", noting'[q].note = m PROVE Fits(noting'[q], layers'[m])
    BY <1>2, <1>3, <1>4, <1>7, <2>1, <2>2, <2>4
  <2> QED BY <1>3, <2>1, <2>3, <2>4 DEF NoteInv
<1>9. layers' \in [Notes -> [LayerNames -> 0..MaxLookups + 1]]
  BY <1>3 DEF WritingInv
<1> QED BY <1>3, <1>4, <1>5, <1>6, <1>8, <1>9 DEF WritingInv

\* retrieve gives the best of what it looked at.
LEMMA SearchStep ==
  ASSUME SearchInv,
         Lookup!RetrieveBegins \/ \E n \in Notes, l0, l1 \in 0..1 : Lookup!RetrieveLooks(n, l0, l1)
  PROVE  SearchInv'
<1>1. CASE Lookup!RetrieveBegins
  <2>1. search' = [to |-> Notes, scored |-> {}, given |-> {}]
    BY <1>1 DEF Lookup!RetrieveBegins
  <2> QED BY <2>1 DEF SearchInv
<1>2. CASE \E n \in Notes, l0, l1 \in 0..1 : Lookup!RetrieveLooks(n, l0, l1)
  <2>1. PICK n \in Notes, l0 \in 0..1, l1 \in 0..1 : Lookup!RetrieveLooks(n, l0, l1)
    BY <1>2
  <2>2. PICK more : more = Lookup!Scored(n, l0, l1)
    OBVIOUS
  <2>3. PICK scored : scored = search.scored \cup more
    OBVIOUS
  <2>4. PICK to : to = search.to \ {n}
    OBVIOUS
  <2>5. \E best \in (IF to = {} THEN Lookup!Best(scored) ELSE {{}}) :
          search' = [to |-> to, scored |-> scored, given |-> best]
    BY <2>1, <2>2, <2>3, <2>4 DEF Lookup!RetrieveLooks
  <2>6. PICK best : /\ best \in (IF to = {} THEN Lookup!Best(scored) ELSE {{}})
                     /\ search' = [to |-> to, scored |-> scored, given |-> best]
    BY <2>5
  <2>7. search'.scored = scored /\ search'.given = best
    BY <2>6
  <2>8. best = {} \/ (best \in SUBSET scored /\ \A s \in best, t \in scored \ best : s.score >= t.score)
    <3>1. CASE to = {}
      BY <2>6, <3>1 DEF Lookup!Best, Lookup!kSubset
    <3>2. CASE to # {}
      BY <2>6, <3>2
    <3> QED BY <3>1, <3>2
  <2>9. \A s \in more : s.layer = "L1" => s.abstract >= 1
    <3>1. PICK a : a = [note |-> n, layer |-> "L1", abstract |-> l0, score |-> l1]
      OBVIOUS
    <3>2. PICK b : b = [note |-> n, layer |-> "L0", abstract |-> l0, score |-> l0]
      OBVIOUS
    <3>3. a.abstract = l0 /\ b.layer = "L0"
      BY <3>1, <3>2
    <3>4. more = {} \/ more = {b} \/ (l0 >= 1 /\ more = {a})
      <4>1. CASE layers[n]["L0"] = 0
        BY <2>2, <4>1 DEF Lookup!Scored
      <4>2. CASE layers[n]["L0"] # 0 /\ l0 >= 1 /\ layers[n]["L1"] # 0
        BY <2>2, <3>1, <4>2, Zenon DEF Lookup!Scored, Lookup!EscalateThreshold
      <4>3. CASE layers[n]["L0"] # 0 /\ ~(l0 >= 1 /\ layers[n]["L1"] # 0)
        BY <2>2, <3>2, <4>3, Zenon DEF Lookup!Scored, Lookup!EscalateThreshold
      <4> QED BY <4>1, <4>2, <4>3
    <3>5. "L0" # "L1"
      OBVIOUS
    <3> QED BY <3>3, <3>4, <3>5
  <2>10. \A s \in scored : s.layer = "L1" => s.abstract >= 1
    BY <2>3, <2>9 DEF SearchInv
  <2> QED BY <2>7, <2>8, <2>10 DEF SearchInv
<1> QED BY <1>1, <1>2

\* Every step of writing keeps what the notes say of each other.
LEMMA WritingStep ==
  ASSUME WritingInv, NEW p \in Processes,
         \/ Lookup!LayerOpens(p) \/ Lookup!LayerWritten(p) \/ Lookup!LayerRefused(p) \/ Lookup!NoterDies(p)
         \/ \E n \in Notes : \E to \in Lookup!Writes : Lookup!WriteBegins(p, n, to)
         \/ \E n \in Notes, l \in {"L0", "L1"} : Lookup!SetBegins(p, n, l)
  PROVE  WritingInv' /\ search' = search
<1>0. Lookup!NotNoting.at = "idle"
  BY DEF Lookup!NotNoting
<1>1. PICK w : w = noting[p]
  OBVIOUS
<1>2. w.at # "idle" => w \in Notings /\ w.note \in Notes /\ w.text \in 1..MaxLookups /\ w.to \in Leftover
                       /\ w.at \in {"going", "open"} /\ w.text <= lookups
  BY <1>1 DEF WritingInv, Notings
<1>3. w.at # "idle" => layers[w.note] \in [LayerNames -> 0..MaxLookups + 1] /\ Head(w.to) \in LayerNames
  BY <1>2, Leftovers DEF WritingInv
<1>4. w.at # "idle" => \A l \in LayerNames : layers[w.note][l] # MaxLookups + 1 => layers[w.note][l] <= lookups
  BY <1>2 DEF WritingInv
<1>5. layers \in [Notes -> [LayerNames -> 0..MaxLookups + 1]] /\ lookups \in 0..MaxLookups
  BY DEF WritingInv
<1>6. CASE Lookup!LayerOpens(p)
  <2>1. w.at = "going"
    BY <1>1, <1>6 DEF Lookup!LayerOpens
  <2>2. PICK note : note = [layers[w.note] EXCEPT ![Head(w.to)] = MaxLookups + 1]
    OBVIOUS
  <2>3. PICK v : v = [w EXCEPT !.at = "open"]
    OBVIOUS
  <2>4. v \in Notings /\ v.at = "open" /\ v.note = w.note /\ v.text = w.text /\ v.to = w.to
    BY <1>2, <2>1, <2>3 DEF Notings
  <2>5. noting' = [noting EXCEPT ![p] = v]
    BY <1>1, <1>6, <2>3 DEF Lookup!LayerOpens
  <2>6. layers' = [layers EXCEPT ![w.note] = note]
    BY <1>1, <1>6, <2>2 DEF Lookup!LayerOpens, Lookup!Empty
  <2>7. lookups' = lookups /\ twice' = twice /\ search' = search
    BY <1>6 DEF Lookup!LayerOpens
  <2>8. note \in [LayerNames -> 0..MaxLookups + 1] /\ note[Head(w.to)] = MaxLookups + 1
        /\ \A l \in LayerNames : l # Head(w.to) => note[l] = layers[w.note][l]
    BY <1>3, <2>1, <2>2, LookupsAreCounted
  <2>9. \A l \in LayerNames : note[l] # MaxLookups + 1 => note[l] <= lookups
    BY <1>4, <2>1, <2>8
  <2>10. ASSUME Fits(w, layers[w.note]), Follows(layers[w.note]) PROVE Follows(note) /\ Fits(v, note)
    <3>1. Follows(note)
      BY <2>8, <2>10 DEF Follows, LayerNames
    <3>2. Fits(v, note)
      BY <2>4, <2>8, <2>10 DEF Fits, LayerNames
    <3> QED BY <3>1, <3>2
  <2>11. WritingInv'
    BY <1>1, <2>1, <2>4, <2>5, <2>6, <2>7, <2>8, <2>9, <2>10, LayerMoves
  <2> QED BY <2>7, <2>11
<1>7. CASE Lookup!LayerWritten(p)
  <2>1. w.at = "open"
    BY <1>1, <1>7 DEF Lookup!LayerWritten
  <2>2. PICK note : note = [layers[w.note] EXCEPT ![Head(w.to)] = w.text]
    OBVIOUS
  <2>3. PICK v : v = IF Len(w.to) = 1 THEN Lookup!NotNoting ELSE [w EXCEPT !.at = "going", !.to = Tail(w.to)]
    OBVIOUS
  <2>4. \/ v = Lookup!NotNoting
        \/ /\ v \in Notings /\ v.at = "going" /\ v.note = w.note /\ v.text = w.text
           /\ Head(v.to) # "L2"
    <3>1. CASE Len(w.to) = 1
      BY <2>3, <3>1
    <3>2. CASE Len(w.to) # 1
      <4>1. Tail(w.to) \in Leftover /\ Head(Tail(w.to)) # "L2"
        BY Zenon, <1>2, <2>1, <3>2, Leftovers
      <4>2. v = [w EXCEPT !.at = "going", !.to = Tail(w.to)]
        BY <2>3, <3>2
      <4>3. v \in Notings /\ v.at = "going" /\ v.note = w.note /\ v.text = w.text /\ v.to = Tail(w.to)
        BY <1>2, <2>1, <4>1, <4>2 DEF Notings
      <4> QED BY <4>1, <4>3
    <3> QED BY <3>1, <3>2
  <2>5. noting' = [noting EXCEPT ![p] = v]
    BY <1>1, <1>7, <2>3 DEF Lookup!LayerWritten
  <2>6. layers' = [layers EXCEPT ![w.note] = note]
    BY <1>1, <1>7, <2>2 DEF Lookup!LayerWritten
  <2>7. lookups' = lookups /\ twice' = twice /\ search' = search
    BY <1>7 DEF Lookup!LayerWritten
  <2>8. note \in [LayerNames -> 0..MaxLookups + 1] /\ note[Head(w.to)] = w.text
        /\ \A l \in LayerNames : l # Head(w.to) => note[l] = layers[w.note][l]
    BY <1>2, <1>3, <2>1, <2>2, LookupsAreCounted
  <2>9. \A l \in LayerNames : note[l] # MaxLookups + 1 => note[l] <= lookups
    BY <1>2, <1>4, <2>1, <2>8
  <2>10. ASSUME Fits(w, layers[w.note]), Follows(layers[w.note])
         PROVE  Follows(note) /\ (v.at # "idle" => Fits(v, note))
    <3>0. layers[w.note]["L0"] \in 0..MaxLookups + 1 /\ layers[w.note]["L1"] \in 0..MaxLookups + 1
            /\ w.text \in 1..MaxLookups
      BY <1>2, <1>3, <2>1 DEF LayerNames
    <3>1. CASE Head(w.to) = "L2"
      <4>1. note["L2"] = w.text /\ \A l \in {"L0", "L1"} : note[l] = layers[w.note][l]
        BY <2>8, <3>1 DEF LayerNames
      <4>2. \A l \in {"L0", "L1"} : layers[w.note][l] # MaxLookups + 1 => layers[w.note][l] <= w.text
        BY <2>10, <3>1 DEF Fits, LayerNames
      <4>3. Follows(note)
        BY <4>1, <4>2 DEF Follows
      <4>4. v.at # "idle" => Fits(v, note)
        BY <1>0, <2>4, <4>1 DEF Fits
      <4> QED BY <4>3, <4>4
    <3>2. CASE Head(w.to) # "L2"
      <4>1. layers[w.note]["L2"] = w.text /\ note["L2"] = w.text
        BY <2>8, <2>10, <3>2 DEF Fits, LayerNames
      <4>2. \A l \in {"L0", "L1"} : note[l] = layers[w.note][l] \/ note[l] = w.text
        BY <2>8 DEF LayerNames
      <4>3. Follows(note)
        BY <2>10, <3>0, <4>1, <4>2 DEF Follows
      <4>4. v.at # "idle" => Fits(v, note)
        BY <1>0, <2>4, <4>1 DEF Fits
      <4> QED BY <4>3, <4>4
    <3> QED BY <3>1, <3>2
  <2>11. w.at # "idle" /\ (v = Lookup!NotNoting \/ (v \in Notings /\ v.note = w.note /\ v.text = w.text))
    BY <2>1, <2>4
  <2>12. WritingInv'
    BY <1>1, <2>5, <2>6, <2>7, <2>8, <2>9, <2>10, <2>11, LayerMoves, Zenon
  <2> QED BY <2>7, <2>12
<1>8. CASE Lookup!LayerRefused(p) \/ Lookup!NoterDies(p)
  <2>1. /\ w.at # "idle" /\ noting' = [noting EXCEPT ![p] = Lookup!NotNoting]
        /\ lookups' = lookups /\ twice' = twice /\ search' = search /\ layers' = layers
    BY <1>1, <1>8 DEF Lookup!LayerRefused, Lookup!NoterDies
  <2>2. layers' = [layers EXCEPT ![w.note] = layers[w.note]]
    BY <1>2, <1>5, <2>1
  <2>3. PICK v : v = Lookup!NotNoting
    OBVIOUS
  <2>4. PICK note : note = layers[w.note]
    OBVIOUS
  <2>5. noting' = [noting EXCEPT ![p] = v] /\ layers' = [layers EXCEPT ![w.note] = note] /\ v.at = "idle"
    BY <1>0, <2>1, <2>2, <2>3, <2>4
  <2>6. note \in [LayerNames -> 0..MaxLookups + 1]
          /\ \A l \in LayerNames : note[l] # MaxLookups + 1 => note[l] <= lookups
    BY <1>3, <1>4, <2>1, <2>4
  <2>7. Fits(w, layers[w.note]) /\ Follows(layers[w.note]) => Follows(note) /\ (v.at # "idle" => Fits(v, note))
    BY <2>4, <2>5
  <2>8. w = noting[p] /\ w.at # "idle" /\ lookups' = lookups /\ twice' = twice
    BY <1>1, <2>1
  <2>9. v = Lookup!NotNoting \/ (v \in Notings /\ v.note = w.note /\ v.text = w.text)
    BY <2>3
  <2>10. WritingInv'
    BY <2>5, <2>6, <2>7, <2>8, <2>9, LayerMoves
  <2> QED BY <2>1, <2>10
<1>9. CASE \E n \in Notes : \E to \in Lookup!Writes : Lookup!WriteBegins(p, n, to)
  <2>1. PICK n \in Notes : \E to \in Lookup!Writes : Lookup!WriteBegins(p, n, to)
    BY <1>9
  <2>2. PICK to \in Lookup!Writes : Lookup!WriteBegins(p, n, to)
    BY <2>1
  <2>3. PICK text : text = lookups'
    OBVIOUS
  <2>4. lookups < MaxLookups /\ lookups' = lookups + 1 /\ Lookup!Starts(p, n, text, to)
    BY <2>2, <2>3 DEF Lookup!WriteBegins, Lookup!NewCall
  <2>5. text \in 1..MaxLookups /\ lookups' \in 0..MaxLookups /\ lookups <= lookups' /\ text <= lookups'
          /\ lookups <= text
    BY <1>5, <2>3, <2>4, LookupsAreCounted
  <2>6. to \in Leftover /\ Head(to) = "L2"
    BY Leftovers
  <2> QED BY <2>4, <2>5, <2>6, WritingStarts
<1>10. CASE \E n \in Notes, l \in {"L0", "L1"} : Lookup!SetBegins(p, n, l)
  <2>1. PICK n \in Notes, l \in {"L0", "L1"} : Lookup!SetBegins(p, n, l)
    BY <1>10
  <2>2. PICK to : to = <<l>>
    OBVIOUS
  <2>3. PICK text : text = layers[n]["L2"]
    OBVIOUS
  <2>4. lookups < MaxLookups /\ lookups' = lookups + 1 /\ Lookup!Starts(p, n, text, to)
          /\ text \notin {0, MaxLookups + 1}
    BY <2>1, <2>2, <2>3 DEF Lookup!SetBegins, Lookup!NewCall, Lookup!Empty
  <2>5. text \in 0..MaxLookups + 1 /\ text <= lookups
    BY <1>5, <2>3, <2>4 DEF WritingInv, LayerNames
  <2>6. text \in 1..MaxLookups /\ lookups' \in 0..MaxLookups /\ lookups <= lookups' /\ text <= lookups'
    BY <1>5, <2>4, <2>5, LookupsAreCounted
  <2>7. to \in Leftover /\ Head(to) # "L2"
    BY <2>2, Leftovers
  <2> QED BY <2>3, <2>4, <2>6, <2>7, WritingStarts
<1> QED BY <1>6, <1>7, <1>8, <1>9, <1>10

\* Every step keeps the layers in line.
LEMMA LayerStep == ASSUME LayerInv, Lookup!LayerNext PROVE LayerInv'
<1>1. CASE \E p \in Processes :
             \/ Lookup!LayerOpens(p) \/ Lookup!LayerWritten(p) \/ Lookup!LayerRefused(p) \/ Lookup!NoterDies(p)
             \/ \E n \in Notes : \E to \in Lookup!Writes : Lookup!WriteBegins(p, n, to)
             \/ \E n \in Notes, l \in {"L0", "L1"} : Lookup!SetBegins(p, n, l)
  <2>1. WritingInv' /\ search' = search
    BY <1>1, WritingStep DEF LayerInv
  <2>2. SearchInv'
    BY <2>1 DEF SearchInv, LayerInv
  <2> QED BY <2>1, <2>2 DEF LayerInv
<1>2. CASE Lookup!RetrieveBegins \/ \E n \in Notes, l0, l1 \in 0..1 : Lookup!RetrieveLooks(n, l0, l1)
  <2>1. SearchInv'
    BY <1>2, SearchStep DEF LayerInv
  <2>2. lookups' = lookups /\ layers' = layers /\ noting' = noting /\ twice' = twice
    BY <1>2 DEF Lookup!RetrieveBegins, Lookup!RetrieveLooks
  <2>3. \A n \in Notes : NoteInv(n) => NoteInv(n)'
    BY <2>2 DEF NoteInv
  <2>4. WritingInv'
    BY <2>2, <2>3 DEF WritingInv, LayerInv
  <2> QED BY <2>1, <2>4 DEF LayerInv
<1> QED BY <1>1, <1>2 DEF Lookup!LayerNext

\* So a sidecar is never of a later body, and retrieve keeps its promise.
LEMMA LayersKept == ASSUME LayerInv PROVE Lookup!LayersFollow
<1>1. \A n \in Notes \ twice : Follows(layers[n])
  BY DEF LayerInv, WritingInv, NoteInv
<1> QED BY <1>1 DEF LayerInv, SearchInv, Lookup!LayersFollow, Follows, Lookup!Empty, Lookup!EscalateThreshold

-----------------------------------------------------------------------------
(* The stores together: a step of one leaves what the others keep.          *)

StoringInv == count \in 0..MaxTexts /\ BankInv /\ ChunkInv /\ PageInv /\ KvInv
ArchivingInv ==
  stored \in Nat /\ CheckpointInv /\ NodeInv /\ GenomeInv /\ CausalInv /\ SnapshotInv /\ BarInv /\ TtlInv
LookingInv == HistoryInv /\ OptionInv /\ RecallInv /\ LayerInv
StoresInv == ShmInv /\ StoringInv /\ ArchivingInv /\ LookingInv

\* Every store starts as its invariant says.
LEMMA StoresStart == CoordinationInit => StoresInv
<1> SUFFICES ASSUME CoordinationInit PROVE StoresInv
  OBVIOUS
<1>1. Local!Init /\ Store!Init /\ Archive!Init /\ Lookup!Init
  BY DEF CoordinationInit
<1>2. count \in 0..MaxTexts /\ stored \in Nat
  BY <1>1, MachineAssumption DEF Store!Init, Archive!Init
<1>3. SnapshotInv
  <2>1. snapshots = << >> /\ snapper = [p \in Processes |-> 0]
    BY <1>1 DEF Archive!Init
  <2> QED BY <2>1, SnapshotsStart
<1>4. BarInv
  <2>1. bars = {} /\ barCache = << >> /\ pushing = [p \in Processes |-> {}]
    BY <1>1 DEF Archive!Init
  <2> QED BY <2>1, BarsStart
<1>5. ShmInv /\ StoringInv
  BY <1>1, <1>2, ShmStarts, BankStart, ChunksStart, PagesStart, KvStarts DEF StoringInv
<1>6. ArchivingInv
  BY <1>1, <1>2, <1>3, <1>4, CheckpointsStart, NodesStart, GenomesStart, CausalStarts, TtlStarts DEF ArchivingInv
<1>7. LookingInv
  BY <1>1, HistoryStarts, OptionsStart, RecallStarts, LayersStart DEF LookingInv
<1> QED BY <1>5, <1>6, <1>7 DEF StoresInv

\* The shared memory among what the machine has once.
LEMMA ShmKeepsOn ==
  ASSUME ShmInv, Local!GpuNext \/ Local!BlockNext \/ Local!BrowserNext \/ UNCHANGED localVars
  PROVE  ShmInv'
<1>1. CASE Local!BlockNext
  BY <1>1, ShmStep
<1>2. CASE Local!GpuNext \/ Local!BrowserNext \/ UNCHANGED localVars
  <2>1. UNCHANGED <<named, blocks, tracked, mapped, writing, texts, latest, torn, cached>>
    BY <1>2 DEF localVars, Local!GpuNext, Local!BrowserNext, Local!blockVars
  <2>2. ShmTyped'
    BY <2>1 DEF ShmInv, ShmTyped, MadeInOrder, MadeIfUsed, Made
  <2>3. ShmWhole'
    BY <2>1 DEF ShmInv, ShmWhole, WritesTo, Whole
  <2> QED BY <2>2, <2>3 DEF ShmInv
<1> QED BY <1>1, <1>2

\* What a small store keeps while it does nothing.
LEMMA SmallStoresRest ==
  /\ BankInv /\ UNCHANGED Store!bankVars => BankInv'
  /\ ChunkInv /\ UNCHANGED Store!chunkVars => ChunkInv'
  /\ PageInv /\ UNCHANGED Store!pageVars => PageInv'
  /\ KvInv /\ UNCHANGED Store!kvVars => KvInv'
<1>1. ASSUME BankInv, UNCHANGED Store!bankVars PROVE BankInv'
  BY <1>1 DEF Store!bankVars, BankInv, BankTyped
<1>2. ASSUME ChunkInv, UNCHANGED Store!chunkVars PROVE ChunkInv'
  BY <1>2 DEF Store!chunkVars, ChunkInv
<1>3. ASSUME PageInv, UNCHANGED Store!pageVars PROVE PageInv'
  BY <1>3 DEF Store!pageVars, PageInv, PageTyped, OneAtIt, PageWhole, HandsHold
<1>4. ASSUME KvInv, UNCHANGED Store!kvVars PROVE KvInv'
  BY <1>4 DEF Store!kvVars, KvInv, Store!Get
<1> QED BY <1>1, <1>2, <1>3, <1>4

\* The small stores count their texts together.
LEMMA TextsAreCounted ==
  ASSUME count \in 0..MaxTexts, Store!BankNext \/ Store!ChunkNext \/ Store!PageNext \/ Store!KvNext
  PROVE  count' \in 0..MaxTexts
<1>1. ASSUME Store!New \/ UNCHANGED count PROVE count' \in 0..MaxTexts
  BY <1>1, MachineAssumption DEF Store!New
<1>2. ASSUME Store!BankNext PROVE Store!New \/ UNCHANGED count
  BY <1>2 DEF Store!BankNext, Store!OpenBank, Store!CloseBank, Store!AddMemory, Store!DeleteMemory
<1>3. ASSUME Store!ChunkNext PROVE Store!New \/ UNCHANGED count
  BY <1>3 DEF Store!ChunkNext, Store!Upsert, Store!DropChunk
<1>4. ASSUME Store!PageNext PROVE Store!New \/ UNCHANGED count
  BY <1>4 DEF Store!PageNext, Store!DeletePage, Store!WritePage, Store!OpenTemp, Store!WriteTemp,
              Store!ReplacePage, Store!WriterDies, Store!Mark
<1>5. ASSUME Store!KvNext PROVE Store!New \/ UNCHANGED count
  BY <1>5 DEF Store!KvNext, Store!OpenKv, Store!Put, Store!DeleteKey
<1> QED BY <1>1, <1>2, <1>3, <1>4, <1>5

\* Every step of the small stores.
LEMMA StoringStep ==
  ASSUME StoringInv, Store!BankNext \/ Store!ChunkNext \/ Store!PageNext \/ Store!KvNext \/ UNCHANGED storeVars
  PROVE  StoringInv'
<1>1. CASE Store!BankNext
  <2>1. UNCHANGED Store!chunkVars /\ UNCHANGED Store!pageVars /\ UNCHANGED Store!kvVars
    BY <1>1 DEF Store!BankNext
  <2> QED BY <1>1, <2>1, BankStep, TextsAreCounted, SmallStoresRest DEF StoringInv
<1>2. CASE Store!ChunkNext
  <2>1. UNCHANGED Store!bankVars /\ UNCHANGED Store!pageVars /\ UNCHANGED Store!kvVars
    BY <1>2 DEF Store!ChunkNext, Store!Upsert, Store!DropChunk
  <2> QED BY <1>2, <2>1, ChunkStep, TextsAreCounted, SmallStoresRest DEF StoringInv
<1>3. CASE Store!PageNext
  <2>1. UNCHANGED Store!bankVars /\ UNCHANGED Store!chunkVars /\ UNCHANGED Store!kvVars
    BY <1>3 DEF Store!PageNext
  <2> QED BY <1>3, <2>1, PageStep, TextsAreCounted, SmallStoresRest DEF StoringInv
<1>4. CASE Store!KvNext
  <2>1. UNCHANGED Store!bankVars /\ UNCHANGED Store!chunkVars /\ UNCHANGED Store!pageVars
    BY <1>4 DEF Store!KvNext
  <2> QED BY <1>4, <2>1, KvStep, TextsAreCounted, SmallStoresRest DEF StoringInv
<1>5. CASE UNCHANGED storeVars
  <2>1. UNCHANGED Store!bankVars /\ UNCHANGED Store!chunkVars /\ UNCHANGED Store!pageVars /\ UNCHANGED Store!kvVars
    BY <1>5 DEF storeVars, Store!bankVars, Store!chunkVars, Store!pageVars, Store!kvVars
  <2>2. count' = count
    BY <1>5 DEF storeVars
  <2> QED BY <2>1, <2>2, SmallStoresRest DEF StoringInv
<1> QED BY <1>1, <1>2, <1>3, <1>4, <1>5

\* What an archive keeps while it does nothing.
LEMMA ArchivesRest ==
  /\ CheckpointInv /\ UNCHANGED Archive!checkpointVars => CheckpointInv'
  /\ GenomeInv /\ UNCHANGED Archive!genomeVars => GenomeInv'
  /\ NodeInv /\ UNCHANGED Archive!nodeVars => NodeInv'
  /\ CausalInv /\ UNCHANGED Archive!causalVars => CausalInv'
  /\ SnapshotInv /\ UNCHANGED Archive!snapshotVars => SnapshotInv'
  /\ BarInv /\ UNCHANGED Archive!barVars => BarInv'
  /\ TtlInv /\ UNCHANGED Archive!ttlVars => TtlInv'
<1>1. ASSUME CheckpointInv, UNCHANGED Archive!checkpointVars PROVE CheckpointInv'
  BY <1>1 DEF Archive!checkpointVars, CheckpointInv, CheckpointTyped, CommitsHold, Archive!CheckpointsHold
<1>2. ASSUME GenomeInv, UNCHANGED Archive!genomeVars PROVE GenomeInv'
  BY <1>2 DEF Archive!genomeVars, GenomeInv, Archive!GenomesAreKept
<1>3. ASSUME NodeInv, UNCHANGED Archive!nodeVars PROVE NodeInv'
  BY <1>3 DEF Archive!nodeVars, NodeInv, NodeTyped, Deleting, Archive!GetNode
<1>4. ASSUME CausalInv, UNCHANGED Archive!causalVars PROVE CausalInv'
  BY <1>4 DEF Archive!causalVars, CausalInv
<1>5. ASSUME SnapshotInv, UNCHANGED Archive!snapshotVars PROVE SnapshotInv'
  BY <1>5 DEF Archive!snapshotVars, SnapshotInv
<1>6. ASSUME BarInv, UNCHANGED Archive!barVars PROVE BarInv'
  <2>1. bars' = bars /\ barCache' = barCache /\ pushing' = pushing /\ orderly' = orderly
    BY <1>6 DEF Archive!barVars
  <2>2. Underway' = Underway
    BY <2>1 DEF Underway
  <2> QED BY <1>6, <2>1, <2>2 DEF BarInv
<1>7. ASSUME TtlInv, UNCHANGED Archive!ttlVars PROVE TtlInv'
  BY <1>7 DEF Archive!ttlVars, TtlInv, Archive!LookupsAreFresh
<1> QED BY <1>1, <1>2, <1>3, <1>4, <1>5, <1>6, <1>7

\* The archives count their calls together.
LEMMA CallsAreStored ==
  ASSUME stored \in Nat,
         \/ Archive!CheckpointNext \/ Archive!NodeNext \/ Archive!SnapshotNext \/ Archive!TtlNext
         \/ Archive!GenomeNext \/ Archive!CausalNext \/ Archive!BarNext \/ Archive!PriceNext
  PROVE  stored' \in Nat
<1>1. ASSUME Archive!NewCall \/ UNCHANGED stored PROVE stored' \in Nat
  BY <1>1 DEF Archive!NewCall
<1>2. ASSUME Archive!CheckpointNext PROVE Archive!NewCall \/ UNCHANGED stored
  <2>1. PICK p \in Processes :
          \/ Archive!SaveWrites(p) \/ Archive!InsertRefused(p) \/ Archive!LockRefused(p) \/ Archive!Commits(p)
          \/ Archive!SaverDies(p)
          \/ \E k \in Keys : Archive!SaveLooks(p, k) \/ Archive!Reset(p, k)
    BY <1>2 DEF Archive!CheckpointNext
  <2> QED BY <2>1 DEF Archive!SaveWrites, Archive!InsertRefused, Archive!LockRefused, Archive!Commits,
                      Archive!SaverDies, Archive!SaveLooks, Archive!Reset
<1>3. ASSUME Archive!NodeNext PROVE Archive!NewCall \/ UNCHANGED stored
  <2>1. PICK p \in Processes :
          \/ Archive!PutNode(p) \/ Archive!DeleteLegacy(p) \/ Archive!PagerDies(p)
          \/ \E n \in Archive!Nodes : Archive!SaveNode(p, n) \/ Archive!DeleteCanon(p, n)
    BY <1>3 DEF Archive!NodeNext
  <2> QED BY <2>1 DEF Archive!PutNode, Archive!DeleteLegacy, Archive!PagerDies, Archive!SaveNode,
                      Archive!DeleteCanon
<1>4. ASSUME Archive!SnapshotNext PROVE Archive!NewCall \/ UNCHANGED stored
  BY <1>4 DEF Archive!SnapshotNext, Archive!SnapshotBegins, Archive!SnapshotEnds, Archive!ForgetSnapshots
<1>5. ASSUME Archive!TtlNext PROVE Archive!NewCall \/ UNCHANGED stored
  BY <1>5 DEF Archive!TtlNext, Archive!Tick, Archive!Lookup, Archive!StoreEntry
<1>6. ASSUME Archive!GenomeNext \/ Archive!CausalNext \/ Archive!BarNext \/ Archive!PriceNext PROVE UNCHANGED stored
  BY <1>6 DEF Archive!GenomeNext, Archive!CausalNext, Archive!BarNext, Archive!PriceNext
<1> QED BY <1>1, <1>2, <1>3, <1>4, <1>5, <1>6

\* Every step of the archives.
LEMMA ArchivingStep ==
  ASSUME ArchivingInv,
         \/ Archive!CheckpointNext \/ Archive!NodeNext \/ Archive!SnapshotNext \/ Archive!TtlNext
         \/ Archive!GenomeNext \/ Archive!CausalNext \/ Archive!BarNext \/ Archive!PriceNext
         \/ UNCHANGED archiveVars
  PROVE  ArchivingInv'
<1>1. CASE Archive!CheckpointNext
  <2>1. /\ UNCHANGED Archive!genomeVars /\ UNCHANGED Archive!nodeVars /\ UNCHANGED Archive!causalVars
        /\ UNCHANGED Archive!snapshotVars /\ UNCHANGED Archive!barVars /\ UNCHANGED Archive!ttlVars
    BY <1>1 DEF Archive!CheckpointNext
  <2> QED BY <1>1, <2>1, CheckpointStep, CallsAreStored, ArchivesRest DEF ArchivingInv
<1>2. CASE Archive!NodeNext
  <2>1. /\ UNCHANGED Archive!checkpointVars /\ UNCHANGED Archive!genomeVars /\ UNCHANGED Archive!causalVars
        /\ UNCHANGED Archive!snapshotVars /\ UNCHANGED Archive!barVars /\ UNCHANGED Archive!ttlVars
    BY <1>2 DEF Archive!NodeNext
  <2> QED BY <1>2, <2>1, NodeStep, CallsAreStored, ArchivesRest DEF ArchivingInv
<1>3. CASE Archive!SnapshotNext
  <2>1. /\ UNCHANGED Archive!checkpointVars /\ UNCHANGED Archive!genomeVars /\ UNCHANGED Archive!nodeVars
        /\ UNCHANGED Archive!causalVars /\ UNCHANGED Archive!barVars /\ UNCHANGED Archive!ttlVars
    BY <1>3 DEF Archive!SnapshotNext
  <2> QED BY <1>3, <2>1, SnapshotStep, CallsAreStored, ArchivesRest DEF ArchivingInv
<1>4. CASE Archive!TtlNext
  <2>1. /\ UNCHANGED Archive!checkpointVars /\ UNCHANGED Archive!genomeVars /\ UNCHANGED Archive!nodeVars
        /\ UNCHANGED Archive!causalVars /\ UNCHANGED Archive!snapshotVars /\ UNCHANGED Archive!barVars
    BY <1>4 DEF Archive!TtlNext
  <2> QED BY <1>4, <2>1, TtlStep, CallsAreStored, ArchivesRest DEF ArchivingInv
<1>5. CASE Archive!GenomeNext
  <2>1. /\ UNCHANGED Archive!checkpointVars /\ UNCHANGED Archive!nodeVars /\ UNCHANGED Archive!causalVars
        /\ UNCHANGED Archive!snapshotVars /\ UNCHANGED Archive!barVars /\ UNCHANGED Archive!ttlVars
    BY <1>5 DEF Archive!GenomeNext
  <2> QED BY <1>5, <2>1, GenomeStep, CallsAreStored, ArchivesRest DEF ArchivingInv
<1>6. CASE Archive!CausalNext
  <2>1. /\ UNCHANGED Archive!checkpointVars /\ UNCHANGED Archive!genomeVars /\ UNCHANGED Archive!nodeVars
        /\ UNCHANGED Archive!snapshotVars /\ UNCHANGED Archive!barVars /\ UNCHANGED Archive!ttlVars
    BY <1>6 DEF Archive!CausalNext
  <2> QED BY <1>6, <2>1, CausalStep, CallsAreStored, ArchivesRest DEF ArchivingInv
<1>7. CASE Archive!BarNext
  <2>1. /\ UNCHANGED Archive!checkpointVars /\ UNCHANGED Archive!genomeVars /\ UNCHANGED Archive!nodeVars
        /\ UNCHANGED Archive!causalVars /\ UNCHANGED Archive!snapshotVars /\ UNCHANGED Archive!ttlVars
    BY <1>7 DEF Archive!BarNext
  <2> QED BY <1>7, <2>1, BarStep, CallsAreStored, ArchivesRest DEF ArchivingInv
<1>8. CASE Archive!PriceNext \/ UNCHANGED archiveVars
  <2>1. /\ UNCHANGED Archive!checkpointVars /\ UNCHANGED Archive!genomeVars /\ UNCHANGED Archive!nodeVars
        /\ UNCHANGED Archive!causalVars /\ UNCHANGED Archive!snapshotVars /\ UNCHANGED Archive!barVars
        /\ UNCHANGED Archive!ttlVars
    BY <1>8 DEF Archive!PriceNext, archiveVars, Archive!checkpointVars, Archive!genomeVars, Archive!nodeVars,
                Archive!causalVars, Archive!snapshotVars, Archive!barVars, Archive!ttlVars
  <2>2. stored' \in Nat
    BY <1>8, CallsAreStored DEF ArchivingInv, archiveVars
  <2> QED BY <2>1, <2>2, ArchivesRest DEF ArchivingInv
<1> QED BY <1>1, <1>2, <1>3, <1>4, <1>5, <1>6, <1>7, <1>8

\* What a lookup keeps while another one goes on, or time does.
LEMMA LookupsRest ==
  /\ HistoryInv /\ UNCHANGED Lookup!historyVars /\ moment' \in Nat /\ moment <= moment' => HistoryInv'
  /\ OptionInv /\ UNCHANGED Lookup!optionVars /\ moment' \in Nat /\ moment <= moment' => OptionInv'
  /\ RecallInv /\ UNCHANGED Lookup!recallVars => RecallInv'
  /\ LayerInv /\ UNCHANGED Lookup!layerVars /\ lookups' \in 0..MaxLookups /\ lookups <= lookups' => LayerInv'
<1>1. ASSUME HistoryInv, UNCHANGED Lookup!historyVars, moment' \in Nat, moment <= moment' PROVE HistoryInv'
  <2>1. shelf' = shelf /\ reader' = reader /\ heard' = heard /\ newest' = newest /\ met' = met /\ moment \in Nat
    BY <1>1 DEF Lookup!historyVars, HistoryInv
  <2>2. ASSUME NEW c \in shelf PROVE Shelved(c)'
    <3>1. Shelved(c)
      BY <1>1 DEF HistoryInv
    <3>2. c.since <= moment'
      BY <1>1, <2>1, <3>1 DEF Shelved
    <3> QED BY <2>1, <3>1, <3>2 DEF Shelved
  <2>3. ASSUME NEW a \in newest PROVE Told(a)'
    <3>1. Told(a)
      BY <1>1 DEF HistoryInv
    <3>2. a.since <= moment'
      BY <1>1, <2>1, <3>1 DEF Told
    <3> QED BY <2>1, <3>1, <3>2 DEF Told
  <2>4. \A r \in Processes : reader'[r].since <= moment'
    <3> SUFFICES ASSUME NEW r \in Processes PROVE reader[r].since <= moment'
      BY <2>1
    <3>1. reader[r].since \in Nat /\ reader[r].since <= moment
      BY <1>1 DEF HistoryInv
    <3> QED BY <1>1, <2>1, <3>1
  <2>5. Lookup!HistoryIsSound'
    BY <1>1, <2>1 DEF HistoryInv, Lookup!HistoryIsSound
  <2>6. /\ reader' \in [Processes -> [asks : BOOLEAN, q : Questions, since : Nat]]
        /\ \A r, s \in Processes :
             reader'[r].asks /\ reader'[s].asks /\ reader'[r].q = reader'[s].q => r = s \/ reader'[r].q \in met'
    BY <1>1, <2>1 DEF HistoryInv
  <2> QED BY <1>1, <2>1, <2>2, <2>3, <2>4, <2>5, <2>6 DEF HistoryInv
<1>2. ASSUME OptionInv, UNCHANGED Lookup!optionVars, moment' \in Nat, moment <= moment' PROVE OptionInv'
  <2>1. exchange' = exchange /\ part' = part /\ stock' = stock /\ begun' = begun /\ chain' = chain
    BY <1>2 DEF Lookup!optionVars
  <2>2. StockTyped' /\ SinceBegun' /\ ChainsSound'
    BY <1>2, <2>1 DEF OptionInv, StockTyped, SinceBegun, ChainsSound
  <2>3. PartsTyped'
    <3>1. moment \in Nat /\ begun \in [Processes -> Int] /\ \A p \in Processes : begun[p] <= moment
      BY <1>2 DEF OptionInv, PartsTyped
    <3>2. \A p \in Processes : begun[p] <= moment'
      BY <1>2, <3>1
    <3> QED BY <1>2, <2>1, <3>2 DEF OptionInv, PartsTyped
  <2> QED BY <2>2, <2>3 DEF OptionInv
<1>3. ASSUME RecallInv, UNCHANGED Lookup!recallVars PROVE RecallInv'
  <2>1. added' = added /\ memory' = memory /\ forgotten' = forgotten /\ recalled' = recalled
    BY <1>3 DEF Lookup!recallVars
  <2>2. MemoryKept'
    BY <1>3, <2>1 DEF RecallInv, MemoryKept
  <2>3. Lookup!RecallIsRelevant'
    BY <1>3, <2>1 DEF RecallInv, Lookup!RecallIsRelevant, Lookup!Relevant, Lookup!Shared
  <2> QED BY <2>2, <2>3 DEF RecallInv
<1>4. ASSUME LayerInv, UNCHANGED Lookup!layerVars, lookups' \in 0..MaxLookups, lookups <= lookups' PROVE LayerInv'
  <2>1. layers' = layers /\ noting' = noting /\ twice' = twice /\ search' = search
    BY <1>4 DEF Lookup!layerVars
  <2>2. ASSUME NEW n \in Notes, NEW l \in LayerNames, layers[n][l] # MaxLookups + 1 PROVE layers[n][l] <= lookups'
    <3>1. layers[n][l] \in 0..MaxLookups + 1 /\ layers[n][l] <= lookups /\ lookups \in 0..MaxLookups
      BY <1>4, <2>2 DEF LayerInv, WritingInv
    <3> QED BY <1>4, <3>1
  <2>3. ASSUME NEW p \in Processes, noting[p].at # "idle" PROVE noting[p] \in Notings /\ noting[p].text <= lookups'
    <3>1. noting[p] \in Notings /\ noting[p].text \in 1..MaxLookups /\ noting[p].text <= lookups
            /\ lookups \in 0..MaxLookups
      BY <1>4, <2>3 DEF LayerInv, WritingInv, Notings
    <3> QED BY <1>4, <3>1
  <2>4. \A n \in Notes \ twice : NoteInv(n)'
    BY <1>4, <2>1 DEF LayerInv, WritingInv, NoteInv
  <2>5. WritingInv'
    BY <1>4, <2>1, <2>2, <2>3, <2>4 DEF LayerInv, WritingInv
  <2>6. SearchInv'
    BY <1>4, <2>1 DEF LayerInv, SearchInv
  <2> QED BY <2>5, <2>6 DEF LayerInv
<1> QED BY <1>1, <1>2, <1>3, <1>4

\* Every step of the lookups.
LEMMA LookingStep ==
  ASSUME LookingInv,
         \/ Lookup!HistoryNext \/ Lookup!OptionNext \/ Lookup!RecallNext \/ Lookup!LayerNext
         \/ UNCHANGED lookupVars
  PROVE  LookingInv'
<1>1. moment \in Nat /\ lookups \in 0..MaxLookups
  BY DEF LookingInv, HistoryInv, LayerInv, WritingInv
<1>2. ASSUME Lookup!NewCall \/ UNCHANGED lookups PROVE lookups' \in 0..MaxLookups /\ lookups <= lookups'
  BY <1>1, <1>2, LookupsAreCounted DEF Lookup!NewCall
<1>3. ASSUME Lookup!Tick \/ UNCHANGED moment PROVE moment' \in Nat /\ moment <= moment'
  BY <1>1, <1>3 DEF Lookup!Tick
<1>4. CASE Lookup!HistoryNext
  <2>1. UNCHANGED Lookup!optionVars /\ UNCHANGED Lookup!recallVars /\ UNCHANGED Lookup!layerVars
    BY <1>4 DEF Lookup!HistoryNext
  <2>2. Lookup!Tick \/ UNCHANGED moment
    BY <1>4 DEF Lookup!HistoryNext
  <2>3. Lookup!NewCall \/ UNCHANGED lookups
    <3>1. CASE UNCHANGED lookups
      BY <3>1
    <3>2. CASE lookups' # lookups
      <4>1. \/ \E start \in {Lookup!None} \cup Times, end \in {Lookup!None, 0} \cup Times, limit \in Limits :
                 \/ Lookup!HistoryCached(Lookup!Question(start, end, limit))
                 \/ \E p \in Processes : Lookup!HistoryAsks(p, Lookup!Question(start, end, limit))
            \/ \E p \in Processes :
                 Lookup!HistoryFails(p) \/ \E r \in Answers : Lookup!HistoryAnswered(p, r)
        BY <1>4, <3>2 DEF Lookup!HistoryNext
      <4>2. PICK q : Lookup!HistoryCached(q) \/ \E p \in Processes : Lookup!HistoryAsks(p, q)
        BY <3>2, <4>1 DEF Lookup!HistoryFails, Lookup!HistoryAnswered
      <4> QED BY <3>2, <4>2 DEF Lookup!HistoryCached, Lookup!HistoryAsks
    <3> QED BY <3>1, <3>2
  <2>4. HistoryInv'
    BY <1>4, HistoryStep DEF LookingInv
  <2> QED BY <1>2, <1>3, <2>1, <2>2, <2>3, <2>4, LookupsRest DEF LookingInv
<1>5. CASE Lookup!OptionNext
  <2>1. UNCHANGED Lookup!historyVars /\ UNCHANGED Lookup!recallVars /\ UNCHANGED Lookup!layerVars
    BY <1>5 DEF Lookup!OptionNext
  <2>2. Lookup!Tick \/ UNCHANGED moment
    BY <1>5 DEF Lookup!OptionNext
  <2>3. Lookup!NewCall \/ UNCHANGED lookups
    <3>1. CASE UNCHANGED lookups
      BY <3>1
    <3>2. CASE lookups' # lookups
      <4>1. PICK p \in Processes :
              \/ Lookup!OptionsBegin(p) \/ Lookup!OptionsFail(p) \/ Lookup!OptionsTold(p)
              \/ \E k \in Lookup!Parts :
                   \/ Lookup!PartCached(p, k) \/ Lookup!PartAsks(p, k) \/ Lookup!PartRefused(p, k)
                   \/ Lookup!PartRetried(p, k)
                   \/ \E options \in SUBSET Lookup!Options : Lookup!PartAnswered(p, k, options)
        BY <1>5, <3>2 DEF Lookup!OptionNext
      <4>2. ASSUME NEW k, Lookup!PartRetried(p, k) PROVE lookups' = lookups
        BY <4>2 DEF Lookup!PartRetried
      <4>3. ASSUME NEW said, NEW options, NEW bad, Lookup!Told(p, said, options, bad) PROVE lookups' = lookups
        BY <4>3 DEF Lookup!Told
      <4>4. ASSUME Lookup!OptionsFail(p) \/ Lookup!OptionsTold(p) PROVE lookups' = lookups
        BY <4>3, <4>4, Zenon DEF Lookup!OptionsFail, Lookup!OptionsTold
      <4>5. ASSUME NEW k, Lookup!PartCached(p, k) \/ Lookup!PartAsks(p, k) \/ Lookup!PartRefused(p, k)
            PROVE  lookups' = lookups
        BY <4>5 DEF Lookup!PartCached, Lookup!PartAsks, Lookup!PartRefused
      <4>6. ASSUME NEW k, NEW options, Lookup!PartAnswered(p, k, options) PROVE lookups' = lookups
        BY <4>6 DEF Lookup!PartAnswered
      <4>7. Lookup!OptionsBegin(p)
        BY <3>2, <4>1, <4>2, <4>4, <4>5, <4>6
      <4> QED BY <4>7 DEF Lookup!OptionsBegin
    <3> QED BY <3>1, <3>2
  <2>4. OptionInv'
    BY <1>5, OptionStep DEF LookingInv
  <2> QED BY <1>2, <1>3, <2>1, <2>2, <2>3, <2>4, LookupsRest DEF LookingInv
<1>6. CASE Lookup!RecallNext
  <2>1. UNCHANGED Lookup!historyVars /\ UNCHANGED Lookup!optionVars /\ UNCHANGED Lookup!layerVars
        /\ UNCHANGED moment /\ UNCHANGED lookups
    BY <1>6, Zenon DEF Lookup!RecallNext
  <2>2. RecallInv'
    BY <1>6, RecallStep DEF LookingInv
  <2> QED BY <1>2, <1>3, <2>1, <2>2, LookupsRest DEF LookingInv
<1>7. CASE Lookup!LayerNext
  <2>1. UNCHANGED Lookup!historyVars /\ UNCHANGED Lookup!optionVars /\ UNCHANGED Lookup!recallVars
        /\ UNCHANGED moment
    BY <1>7 DEF Lookup!LayerNext
  <2>2. LayerInv'
    BY <1>7, LayerStep DEF LookingInv
  <2> QED BY <1>3, <2>1, <2>2, LookupsRest DEF LookingInv
<1>8. CASE UNCHANGED lookupVars
  <2>1. UNCHANGED Lookup!historyVars /\ UNCHANGED Lookup!optionVars /\ UNCHANGED Lookup!recallVars
        /\ UNCHANGED Lookup!layerVars /\ UNCHANGED moment /\ UNCHANGED lookups
    BY <1>8 DEF lookupVars, Lookup!historyVars, Lookup!optionVars, Lookup!recallVars, Lookup!layerVars
  <2> QED BY <1>2, <1>3, <2>1, LookupsRest DEF LookingInv
<1> QED BY <1>4, <1>5, <1>6, <1>7, <1>8

-----------------------------------------------------------------------------
(* The composition. *)

\* What the invariants say of what the stores answer.
LEMMA StoresKept ==
  ASSUME StoresInv
  PROVE  StoresKeep
<1>1. Local!ReadsAreWhole
  BY ShmKept DEF StoresInv
<1>2. Store!MemoriesAreTheLatest /\ Store!ChunksAreFound /\ Store!PagesAreWhole /\ Store!KvIsLatest
  BY BankKept, ChunksKept, PagesKept, KvKept DEF StoresInv, StoringInv
<1>3. /\ Archive!CheckpointsHold /\ Archive!GenomesAreKept /\ Archive!NodesAgree
      /\ Archive!VersionsCount /\ Archive!BarsAreNewest /\ Archive!LookupsAreFresh /\ Archive!BatchAgrees
  BY NodesKept, SnapshotsKept, BarsKept, BatchAnswers
  DEF StoresInv, ArchivingInv, CheckpointInv, GenomeInv, TtlInv
<1>4. Archive!GraphIsAcyclic
  BY DEF StoresInv, ArchivingInv, CausalInv, Archive!GraphIsAcyclic
<1>5. Lookup!HistoryIsSound /\ Lookup!OptionsAreSound /\ Lookup!RecallIsRelevant /\ Lookup!LayersFollow
  BY OptionsKept, LayersKept DEF StoresInv, LookingInv, HistoryInv, RecallInv
<1> QED BY <1>1, <1>2, <1>3, <1>4, <1>5 DEF StoresKeep

\* A step of one store leaves what the others keep.
LEMMA StoresStep ==
  ASSUME StoresInv, [CoordinationNext]_Composed
  PROVE  StoresInv'
<1>1. Local!GpuNext \/ Local!BlockNext \/ Local!BrowserNext \/ UNCHANGED localVars
  BY DEF CoordinationNext, Composed, OnTheMachine
<1>2. Store!BankNext \/ Store!ChunkNext \/ Store!PageNext \/ Store!KvNext \/ UNCHANGED storeVars
  BY DEF CoordinationNext, Composed, Storing
<1>3. \/ Archive!CheckpointNext \/ Archive!NodeNext \/ Archive!SnapshotNext \/ Archive!TtlNext
      \/ Archive!GenomeNext \/ Archive!CausalNext \/ Archive!BarNext \/ Archive!PriceNext
      \/ UNCHANGED archiveVars
  BY DEF CoordinationNext, Composed, Archiving
<1>4. \/ Lookup!HistoryNext \/ Lookup!OptionNext \/ Lookup!RecallNext \/ Lookup!LayerNext
      \/ UNCHANGED lookupVars
  BY DEF CoordinationNext, Composed, LookingUp
<1> QED BY <1>1, <1>2, <1>3, <1>4, ShmKeepsOn, StoringStep, ArchivingStep, LookingStep DEF StoresInv

\* What a store answers is what was stored last, whoever else stored, died or was
\* refused meanwhile: shared memory is read whole, memories, chunks, pages and
\* pairs are the latest, checkpoints hold what was committed, the population
\* keeps its best, the graph has no circle, caches have the newest and nothing
\* that lapsed, and what is recalled is relevant (posix_shm_allocator, the stores
\* on SQLite, files and Redis, and the readers of market data).
THEOREM StoresAreKept == CoordinationSpec => []StoresKeep
<1>1. StoresInv /\ [CoordinationNext]_Composed => StoresInv'
  BY StoresStep
<1>2. StoresInv => StoresKeep
  BY StoresKept
<1> QED BY <1>1, <1>2, StoresStart, PTL DEF CoordinationSpec, Composed

-----------------------------------------------------------------------------
(* The types of the small stores: what is stored is one of the texts that  *)
(* were counted, or one of the older program's.                            *)
TextsTyped ==
  /\ opened \subseteq Processes /\ crossed \in BOOLEAN
  /\ meant \in [Names -> 0..MaxTexts] /\ \A n \in Names : lite[n].text \in 0..MaxTexts
  /\ \A k \in Store!PairKeys : pairs[k].value \in Store!Texts /\ pairs[k].json \in Store!Texts

\* Nothing is stored at first, but by the older program.
LEMMA TextsTypedStart == Store!Init => TextsTyped
<1> SUFFICES ASSUME Store!Init PROVE TextsTyped
  OBVIOUS
<1> USE MachineAssumption
<1>1. /\ opened = {} /\ crossed = FALSE /\ meant = [n \in Names |-> 0]
      /\ lite = [n \in Names |-> [text |-> 0, vector |-> "none"]]
      /\ pairs \in [Store!PairKeys -> {Store!Unset, Store!OldRow}]
  BY DEF Store!Init
<1>2. \A k \in Store!PairKeys : pairs[k].value \in {0, Store!Old} /\ pairs[k].json = 0
  BY <1>1 DEF Store!Unset, Store!OldRow
<1>3. 0 \in Store!Texts /\ Store!Old \in Store!Texts /\ 0 \in 0..MaxTexts
  BY DEF Store!Texts, Store!Old
<1> QED BY <1>1, <1>2, <1>3 DEF TextsTyped

\* A new text is one of them.
LEMMA NewText ==
  ASSUME count \in 0..MaxTexts, Store!New
  PROVE  count' \in 0..MaxTexts /\ count' \in Store!Texts
  BY MachineAssumption DEF Store!New, Store!Texts, Store!Old

\* Every step of the small stores keeps the types.
LEMMA TextsTypedStep ==
  ASSUME StoringInv, TextsTyped,
         Store!BankNext \/ Store!ChunkNext \/ Store!PageNext \/ Store!KvNext \/ UNCHANGED storeVars
  PROVE  TextsTyped'
<1> USE MachineAssumption
<1>types. /\ opened \subseteq Processes /\ crossed \in BOOLEAN /\ meant \in [Names -> 0..MaxTexts]
          /\ lite \in [Names -> Chunks] /\ (\A n \in Names : lite[n].text \in 0..MaxTexts)
          /\ pairs \in [Store!PairKeys -> Rows]
          /\ \A k \in Store!PairKeys : pairs[k].value \in Store!Texts /\ pairs[k].json \in Store!Texts
  BY DEF TextsTyped, StoringInv, ChunkInv, KvInv
<1>zero. 0 \in 0..MaxTexts /\ 0 \in Store!Texts
  BY DEF Store!Texts, Store!Old
<1>count. count \in 0..MaxTexts
  BY DEF StoringInv
<1>1. ASSUME Store!BankNext PROVE opened' \subseteq Processes /\ meant' \in [Names -> 0..MaxTexts]
  <2>1. ASSUME NEW c \in Processes, Store!OpenBank(c) \/ Store!CloseBank(c)
        PROVE  opened' \subseteq Processes /\ meant' \in [Names -> 0..MaxTexts]
    BY <2>1, <1>types DEF Store!OpenBank, Store!CloseBank
  <2>2. ASSUME NEW c \in Processes, NEW n \in Names, Store!AddMemory(c, n)
        PROVE  opened' \subseteq Processes /\ meant' \in [Names -> 0..MaxTexts]
    <3>1. /\ Store!New /\ meant' = [meant EXCEPT ![n] = count'] /\ opened' = opened
      BY <2>2 DEF Store!AddMemory
    <3> QED BY <1>types, <1>count, <3>1, NewText
  <2>3. ASSUME NEW c \in Processes, NEW n \in Names, Store!DeleteMemory(c, n)
        PROVE  opened' \subseteq Processes /\ meant' \in [Names -> 0..MaxTexts]
    BY <2>3, <1>types, <1>zero DEF Store!DeleteMemory
  <2> QED BY <1>1, <2>1, <2>2, <2>3 DEF Store!BankNext
<1>2. ASSUME Store!ChunkNext PROVE \A n \in Names : lite'[n].text \in 0..MaxTexts
  <2>1. ASSUME NEW n \in Names, Store!DropChunk(n) PROVE \A m \in Names : lite'[m].text \in 0..MaxTexts
    <3>1. PICK new : new = [text |-> 0, vector |-> "none"]
      OBVIOUS
    <3>2. lite' = [lite EXCEPT ![n] = new] /\ new.text = 0
      BY <2>1, <3>1 DEF Store!DropChunk
    <3> QED BY <1>types, <1>zero, <3>2
  <2>2. ASSUME NEW n \in Names, NEW v \in Store!Vectors, Store!Upsert(n, v)
        PROVE  \A m \in Names : lite'[m].text \in 0..MaxTexts
    <3>1. PICK new : new = [text |-> count', vector |-> v]
      OBVIOUS
    <3>2. Store!New /\ new.text = count' /\ lite' = (IF Store!Accepts(v) THEN [lite EXCEPT ![n] = new] ELSE lite)
      BY <2>2, <3>1 DEF Store!Upsert
    <3> QED BY <1>types, <1>count, <3>2, NewText
  <2> QED BY <1>2, <2>1, <2>2 DEF Store!ChunkNext
<1>3. ASSUME Store!PageNext PROVE crossed' \in BOOLEAN
  <2>1. ASSUME NEW c \in Processes,
               Store!WritePage(c) \/ \E stale \in BOOLEAN : Store!Mark(c, stale)
        PROVE  crossed' = (crossed \/ Store!Busy(c))
    BY <2>1, Zenon DEF Store!WritePage, Store!Mark
  <2>2. ASSUME NEW c \in Processes,
               Store!OpenTemp(c) \/ Store!WriteTemp(c) \/ Store!ReplacePage(c) \/ Store!WriterDies(c)
        PROVE  crossed' = crossed
    BY <2>2, Zenon DEF Store!OpenTemp, Store!WriteTemp, Store!ReplacePage, Store!WriterDies
  <2>3. ASSUME Store!DeletePage PROVE crossed' = (crossed \/ \E c \in Processes : writer[c].at # "idle")
    BY <2>3, Zenon DEF Store!DeletePage
  <2>4. \E x \in BOOLEAN : crossed' = x
    <3>1. (crossed \/ \E c \in Processes : writer[c].at # "idle") \in BOOLEAN
      OBVIOUS
    <3>2. \A c : (crossed \/ Store!Busy(c)) \in BOOLEAN
      OBVIOUS
    <3>3. Store!DeletePage => crossed' \in BOOLEAN
      BY <2>3, <3>1, Zenon
    <3>4. ASSUME NEW c \in Processes,
                 \/ Store!WritePage(c) \/ Store!OpenTemp(c) \/ Store!WriteTemp(c) \/ Store!ReplacePage(c)
                 \/ Store!WriterDies(c)
                 \/ \E stale \in BOOLEAN : Store!Mark(c, stale)
          PROVE  crossed' \in BOOLEAN
      BY <1>types, <2>1, <2>2, <3>2, <3>4, Zenon
    <3>5. crossed' \in BOOLEAN
      BY <1>3, <3>3, <3>4, Zenon DEF Store!PageNext
    <3> QED BY <3>5
  <2> QED BY <2>4
<1>4. ASSUME Store!KvNext
      PROVE  \A k \in Store!PairKeys : pairs'[k].value \in Store!Texts /\ pairs'[k].json \in Store!Texts
  <2>1. ASSUME Store!OpenKv, NEW k \in Store!PairKeys
        PROVE  pairs'[k].value \in Store!Texts /\ pairs'[k].json \in Store!Texts
    <3>1. PICK o \in Rows : o = pairs[k]
      BY <1>types
    <3>2. PICK v : v = IF o.value # 0 THEN o.value ELSE o.json
      OBVIOUS
    <3>3. PICK j : j = IF o.json # 0 THEN o.json ELSE o.value
      OBVIOUS
    <3>4. pairs'[k] = [o EXCEPT !.value = v, !.json = j]
      BY <2>1, <3>1, <3>2, <3>3 DEF Store!OpenKv
    <3>5. pairs'[k].value = v /\ pairs'[k].json = j
      BY <3>4 DEF Rows
    <3> QED BY <1>types, <3>1, <3>2, <3>3, <3>5
  <2>2. ASSUME NEW k \in Store!PairKeys, Store!Put(k), NEW l \in Store!PairKeys
        PROVE  pairs'[l].value \in Store!Texts /\ pairs'[l].json \in Store!Texts
    <3>1. PICK new : new = [value |-> count', json |-> count', row |-> TRUE]
      OBVIOUS
    <3>2. Store!New /\ pairs' = [pairs EXCEPT ![k] = new] /\ new.value = count' /\ new.json = count'
      BY <2>2, <3>1 DEF Store!Put
    <3> QED BY <1>types, <1>count, <3>2, NewText
  <2>3. ASSUME NEW k \in Store!PairKeys, Store!DeleteKey(k), NEW l \in Store!PairKeys
        PROVE  pairs'[l].value \in Store!Texts /\ pairs'[l].json \in Store!Texts
    <3>1. pairs' = [pairs EXCEPT ![k] = Store!Unset] /\ Store!Unset.value = 0 /\ Store!Unset.json = 0
      BY <2>3 DEF Store!DeleteKey, Store!Unset
    <3> QED BY <1>types, <1>zero, <3>1
  <2> QED BY <1>4, <2>1, <2>2, <2>3 DEF Store!KvNext
<1>5. ASSUME UNCHANGED <<opened, meant>> PROVE opened' \subseteq Processes /\ meant' \in [Names -> 0..MaxTexts]
  BY <1>5, <1>types
<1>6. CASE Store!BankNext
  <2>1. lite' = lite /\ crossed' = crossed /\ pairs' = pairs
    BY <1>6 DEF Store!BankNext, Store!chunkVars, Store!pageVars, Store!kvVars
  <2> QED BY <1>types, <1>1, <1>6, <2>1 DEF TextsTyped
<1>7. CASE Store!ChunkNext
  <2>1. opened' = opened /\ meant' = meant /\ crossed' = crossed /\ pairs' = pairs
    BY <1>7 DEF Store!ChunkNext, Store!Upsert, Store!DropChunk, Store!bankVars, Store!pageVars, Store!kvVars
  <2> QED BY <1>types, <1>2, <1>7, <2>1 DEF TextsTyped
<1>8. CASE Store!PageNext
  <2>1. opened' = opened /\ meant' = meant /\ lite' = lite /\ pairs' = pairs
    BY <1>8 DEF Store!PageNext, Store!bankVars, Store!chunkVars, Store!kvVars
  <2> QED BY <1>types, <1>3, <1>8, <2>1 DEF TextsTyped
<1>9. CASE Store!KvNext
  <2>1. opened' = opened /\ meant' = meant /\ lite' = lite /\ crossed' = crossed
    BY <1>9 DEF Store!KvNext, Store!bankVars, Store!chunkVars, Store!pageVars
  <2> QED BY <1>types, <1>4, <1>9, <2>1 DEF TextsTyped
<1>10. CASE UNCHANGED storeVars
  BY <1>10, <1>types DEF storeVars, TextsTyped
<1> QED BY <1>6, <1>7, <1>8, <1>9, <1>10

\* The types of the small stores follow.
LEMMA StoresTypesKept ==
  ASSUME StoringInv, TextsTyped
  PROVE  Store!TypeOK
<1> USE MachineAssumption
<1>1. 0..MaxTexts \subseteq Store!Texts /\ 0 \in Store!Texts /\ Store!Old \in Store!Texts
  BY DEF Store!Texts, Store!Old
<1>2. \A n \in Names : memories[n].text \in Store!Texts
  <2> SUFFICES ASSUME NEW n \in Names PROVE memories[n].text \in Store!Texts
    OBVIOUS
  <2>1. meant[n] \in 0..MaxTexts
    BY DEF TextsTyped
  <2> QED BY <1>1, <2>1 DEF StoringInv, BankInv
<1>3. \A n \in Names : lite[n].text \in Store!Texts /\ pg[n].vector \in Store!Vectors
  BY <1>1 DEF TextsTyped, StoringInv, ChunkInv, Store!Vectors
<1>4. /\ page \in 0..Len(inodes) /\ temp \in 0..Len(inodes)
      /\ \A c \in Processes : writer[c].at \in {"idle", "read", "open", "written"}
  BY DEF StoringInv, PageInv, PageTyped
<1> QED BY <1>2, <1>3, <1>4 DEF Store!TypeOK, TextsTyped, StoringInv

-----------------------------------------------------------------------------
(* The types of the archives: what is stored is the number of a call, and  *)
(* the calls are counted.                                                  *)
Counted == 0..MaxStored
SavesCounted ==
  /\ \A k \in Keys : saved[k] \in Counted
  /\ \A p \in Processes : saver[p].text \in Counted
  /\ writes.text \in Counted
PagesCounted ==
  /\ \A n \in Ends : canon[n] \in Counted
  /\ \A p \in Processes : pager[p].text \in Counted
\* A save took a number of its own: saves done and under way are as many at most.
Snapping == {p \in Processes : snapper[p] # 0}
SnapshotsCounted ==
  /\ overlapped \in BOOLEAN /\ \A p \in Processes : snapper[p] \in Counted
  /\ IsFiniteSet(Snapping) /\ Len(snapshots) + Cardinality(Snapping) <= stored
PricesTyped == prices \in [Archive!Symbols -> Archive!PriceRows] /\ rows \in [Archive!Symbols -> BOOLEAN]

\* A call that stores takes the next number.
LEMMA NewNumber ==
  ASSUME stored \in Counted, Archive!NewCall
  PROVE  stored' \in Counted /\ stored' = stored + 1
  BY StoresAssumption DEF Archive!NewCall, Counted

\* Nothing is saved at the start.
LEMMA SavesCountedStart == Archive!Init => SavesCounted
<1> SUFFICES ASSUME Archive!Init PROVE SavesCounted
  OBVIOUS
<1>1. /\ saver = [p \in Processes |-> Archive!Idle] /\ saved = [k \in Keys |-> 0] /\ writes = Archive!Unlocked
  BY DEF Archive!Init
<1>2. Archive!Idle.text = 0 /\ Archive!Unlocked.text = 0 /\ 0 \in Counted
  BY StoresAssumption DEF Archive!Idle, Archive!Unlocked, Counted
<1> QED BY <1>1, <1>2 DEF SavesCounted

\* Every step of the processes saves a number that was counted.
LEMMA SavesCountedStep ==
  ASSUME CheckpointInv, SavesCounted, stored \in Counted, Archive!CheckpointNext
  PROVE  SavesCounted' /\ stored' \in Counted
<1>0. /\ saved \in [Keys -> Nat] /\ saver \in [Processes -> Saves]
      /\ \A p \in Processes : saver[p] \in Saves
      /\ writes \in [by : Processes \cup {"nobody"}, key : Keys, text : Nat, hit : BOOLEAN]
      /\ \A k \in Keys : saved[k] \in Counted
      /\ \A p \in Processes : saver[p].text \in Counted
      /\ writes.text \in Counted
  BY DEF CheckpointInv, CheckpointTyped, SavesCounted
<1>iw. PICK idle : idle = Archive!Idle
  OBVIOUS
<1>i. idle \in Saves /\ idle = Archive!Idle /\ idle.text = 0
  BY <1>iw, AnyKeyIsOne DEF Saves, Archive!Idle
<1>u. Archive!Unlocked.text = 0 /\ 0 \in Counted
  BY StoresAssumption DEF Archive!Unlocked, Counted
<1>moves. ASSUME NEW p \in Processes, NEW new \in Saves, new.text \in Counted, saver' = [saver EXCEPT ![p] = new]
          PROVE  \A q \in Processes : saver'[q].text \in Counted
  BY <1>0, <1>moves
<1>1. ASSUME NEW p \in Processes, NEW k \in Keys, Archive!SaveLooks(p, k) PROVE SavesCounted' /\ stored' \in Counted
  <2>1. stored' \in Counted /\ stored' \in Nat
    BY <1>1, NewNumber DEF Archive!SaveLooks, Counted
  <2>2. PICK new : new = [at |-> IF saved[k] = 0 THEN "insert" ELSE "update", key |-> k, text |-> stored']
    OBVIOUS
  <2>3. new \in Saves /\ new.text = stored'
    BY <2>1, <2>2 DEF Saves
  <2>4. saver' = [saver EXCEPT ![p] = new] /\ UNCHANGED <<saved, writes>>
    BY <1>1, <2>2 DEF Archive!SaveLooks
  <2> QED BY <1>0, <1>moves, <2>1, <2>3, <2>4 DEF SavesCounted
<1>2. ASSUME NEW p \in Processes, NEW k \in Keys, Archive!Reset(p, k) PROVE SavesCounted' /\ stored' \in Counted
  <2>1w. PICK new : new = [at |-> "delete", key |-> k, text |-> 0]
    OBVIOUS
  <2>1. new \in Saves /\ new = [at |-> "delete", key |-> k, text |-> 0] /\ new.text = 0
    BY <2>1w DEF Saves
  <2>2. saver' = [saver EXCEPT ![p] = new] /\ UNCHANGED <<saved, writes, stored>>
    BY <1>2, <2>1 DEF Archive!Reset
  <2> QED BY <1>0, <1>moves, <1>u, <2>1, <2>2 DEF SavesCounted
<1>3. ASSUME NEW p \in Processes, Archive!SaveWrites(p) PROVE SavesCounted' /\ stored' \in Counted
  <2>1. saver[p] \in Saves /\ saver[p].text \in Counted
    BY <1>0
  <2>2. PICK new : new = [saver[p] EXCEPT !.at = "commit"]
    OBVIOUS
  <2>3. new \in Saves /\ new.text = saver[p].text
    BY <2>1, <2>2 DEF Saves
  <2>4. /\ saver' = [saver EXCEPT ![p] = new] /\ UNCHANGED <<saved, stored>>
        /\ writes' = [by |-> p, key |-> saver[p].key, text |-> saver[p].text,
                      hit |-> saver[p].at = "insert" \/ saved[saver[p].key] # 0]
    BY <1>0, <1>3, <2>2 DEF Archive!SaveWrites
  <2>5. writes'.text = saver[p].text
    BY <2>4
  <2>6. \A q \in Processes : saver'[q].text \in Counted
    BY <1>moves, <2>1, <2>3, <2>4
  <2> QED BY <1>0, <2>1, <2>4, <2>5, <2>6 DEF SavesCounted
<1>4. ASSUME NEW p \in Processes, Archive!InsertRefused(p) PROVE SavesCounted' /\ stored' \in Counted
  <2>1. saver' = [saver EXCEPT ![p] = idle] /\ UNCHANGED <<saved, stored>> /\ writes' = [Archive!Unlocked EXCEPT !.by = p]
    BY <1>4, <1>i DEF Archive!InsertRefused
  <2>2. writes'.text = 0
    BY <2>1 DEF Archive!Unlocked
  <2> QED BY <1>0, <1>moves, <1>i, <1>u, <2>1, <2>2 DEF SavesCounted
<1>5. ASSUME NEW p \in Processes, Archive!LockRefused(p) PROVE SavesCounted' /\ stored' \in Counted
  <2>1. saver' = [saver EXCEPT ![p] = idle] /\ UNCHANGED <<saved, stored, writes>>
    BY <1>5, <1>i DEF Archive!LockRefused
  <2> QED BY <1>0, <1>moves, <1>i, <1>u, <2>1 DEF SavesCounted
<1>6. ASSUME NEW p \in Processes, Archive!Commits(p) PROVE SavesCounted' /\ stored' \in Counted
  <2>1. PICK k, t, h : k = writes.key /\ t = writes.text /\ h = writes.hit
    OBVIOUS
  <2>2. /\ saver' = [saver EXCEPT ![p] = idle] /\ stored' = stored /\ writes' = Archive!Unlocked
        /\ saved' = (IF h THEN [saved EXCEPT ![k] = t] ELSE saved)
    BY <1>6, <1>i, <2>1 DEF Archive!Commits
  <2>3. \A m \in Keys : saved'[m] \in Counted
    BY <1>0, <2>1, <2>2
  <2> QED BY <1>0, <1>moves, <1>i, <1>u, <2>2, <2>3 DEF SavesCounted
<1>7. ASSUME NEW p \in Processes, Archive!SaverDies(p) PROVE SavesCounted' /\ stored' \in Counted
  <2>1. /\ saver' = [saver EXCEPT ![p] = idle] /\ UNCHANGED <<saved, stored>>
        /\ writes' = (IF writes.by = p THEN Archive!Unlocked ELSE writes)
    BY <1>7, <1>i DEF Archive!SaverDies
  <2>2. writes'.text \in Counted
    BY <1>0, <1>u, <2>1
  <2> QED BY <1>0, <1>moves, <1>i, <1>u, <2>1, <2>2 DEF SavesCounted
<1> QED BY <1>1, <1>2, <1>3, <1>4, <1>5, <1>6, <1>7 DEF Archive!CheckpointNext

\* There is no page at the start.
LEMMA PagesCountedStart == Archive!Init => PagesCounted
<1> SUFFICES ASSUME Archive!Init PROVE PagesCounted
  OBVIOUS
<1>1. PICK idle : idle = [Archive!Idle EXCEPT !.key = "n"]
  OBVIOUS
<1>2. canon = [n \in Archive!Nodes |-> 0] /\ pager = [p \in Processes |-> idle] /\ idle.text = 0
  BY <1>1 DEF Archive!Init, Archive!Idle
<1>3. 0 \in Counted /\ Archive!Nodes = Ends
  BY StoresAssumption DEF Counted, Archive!Nodes, Ends
<1> QED BY <1>2, <1>3 DEF PagesCounted

\* Every step of the pages writes a number that was counted.
LEMMA PagesCountedStep ==
  ASSUME NodeInv, PagesCounted, stored \in Counted, Archive!NodeNext
  PROVE  PagesCounted' /\ stored' \in Counted
<1>0. /\ NodeTyped /\ canon \in [Ends -> Nat] /\ 0 \in Counted /\ "n" \in Ends
      /\ pager \in [Processes -> Pagers] /\ \A p \in Processes : pager[p].key \in Ends
      /\ \A n \in Ends : canon[n] \in Counted
      /\ \A p \in Processes : pager[p].text \in Counted
  BY StoresAssumption DEF NodeInv, NodeTyped, PagesCounted, Counted, Pagers, Ends
<1>moves. ASSUME NEW p \in Processes, NEW place \in {"idle", "saving", "deleting"}, NEW n \in Ends,
                 NEW text \in Counted, Archive!Page(p, place, n, text)
          PROVE  \A q \in Processes : pager'[q].text \in Counted
  <2>1. text \in Nat
    BY DEF Counted
  <2>2. pager'[p].text = text /\ \A q \in Processes \ {p} : pager'[q] = pager[q]
    BY <1>0, <1>moves, <2>1, PagerMoves
  <2> QED BY <1>0, <2>2
<1>1. ASSUME NEW p \in Processes, NEW n \in Ends, Archive!SaveNode(p, n) PROVE PagesCounted' /\ stored' \in Counted
  <2>1. stored' \in Counted /\ Archive!Page(p, "saving", n, stored') /\ canon' = canon
    BY <1>1, NewNumber DEF Archive!SaveNode
  <2>2. \A q \in Processes : pager'[q].text \in Counted
    BY <1>moves, <2>1
  <2> QED BY <1>0, <2>1, <2>2 DEF PagesCounted
<1>2. ASSUME NEW p \in Processes, Archive!PutNode(p) PROVE PagesCounted' /\ stored' \in Counted
  <2>1. /\ canon' = [canon EXCEPT ![pager[p].key] = pager[p].text] /\ Archive!Page(p, "idle", "n", 0)
        /\ stored' = stored
    BY <1>2 DEF Archive!PutNode
  <2>2. \A n \in Ends : canon'[n] \in Counted
    BY <1>0, <2>1
  <2>3. \A q \in Processes : pager'[q].text \in Counted
    BY <1>0, <1>moves, <2>1
  <2> QED BY <1>0, <2>1, <2>2, <2>3 DEF PagesCounted
<1>3. ASSUME NEW p \in Processes, NEW n \in Ends, Archive!DeleteCanon(p, n) PROVE PagesCounted' /\ stored' \in Counted
  <2>1. canon' = [canon EXCEPT ![n] = 0] /\ Archive!Page(p, "deleting", n, 0) /\ stored' = stored
    BY <1>3 DEF Archive!DeleteCanon
  <2>2. \A q \in Processes : pager'[q].text \in Counted
    BY <1>0, <1>moves, <2>1
  <2> QED BY <1>0, <2>1, <2>2 DEF PagesCounted
<1>4. ASSUME NEW p \in Processes, Archive!DeleteLegacy(p) \/ Archive!PagerDies(p) PROVE PagesCounted' /\ stored' \in Counted
  <2>1. Archive!Page(p, "idle", "n", 0) /\ UNCHANGED <<canon, stored>>
    BY <1>4 DEF Archive!DeleteLegacy, Archive!PagerDies
  <2>2. \A q \in Processes : pager'[q].text \in Counted
    BY <1>0, <1>moves, <2>1
  <2> QED BY <1>0, <2>1, <2>2 DEF PagesCounted
<1> QED BY <1>1, <1>2, <1>3, <1>4 DEF Archive!NodeNext, Archive!Nodes, Ends

\* Every step of the threads keeps the count: who begins to save takes a number,
\* and who ends no longer is under way.
LEMMA SnapshotsCountedStep ==
  ASSUME SnapshotInv, SnapshotsCounted, stored \in Counted, Archive!SnapshotNext
  PROVE  SnapshotsCounted' /\ stored' \in Counted
<1>0. /\ overlapped \in BOOLEAN /\ snapper \in [Processes -> Nat] /\ snapshots \in Seq(Snapshots)
      /\ (\A p \in Processes : snapper[p] \in Counted) /\ Len(snapshots) \in Nat /\ stored \in Nat
      /\ IsFiniteSet(Snapping) /\ Cardinality(Snapping) \in Nat /\ Len(snapshots) + Cardinality(Snapping) <= stored
  BY FS_CardinalityType DEF SnapshotInv, SnapshotsCounted, Counted
<1>1. ASSUME NEW p \in Processes, Archive!SnapshotBegins(p) PROVE SnapshotsCounted' /\ stored' \in Counted
  <2>1. /\ Archive!NewCall /\ snapper[p] = 0 /\ snapper' = [snapper EXCEPT ![p] = Len(snapshots) + 1]
        /\ snapshots' = snapshots /\ overlapped' = (overlapped \/ \E q \in Processes : snapper[q] # 0)
    BY <1>1 DEF Archive!SnapshotBegins
  <2>2. stored' \in Counted /\ stored' = stored + 1
    BY <2>1, NewNumber
  <2>3. Snapping' = Snapping \cup {p} /\ p \notin Snapping
    BY <1>0, <2>1 DEF Snapping
  <2>4. IsFiniteSet(Snapping') /\ Cardinality(Snapping') = Cardinality(Snapping) + 1
    BY <1>0, <2>3, FS_AddElement
  <2>5. Len(snapshots) + 1 \in Counted
    BY <1>0, <2>2, StoresAssumption DEF Counted
  <2>6. \A q \in Processes : snapper'[q] \in Counted
    BY <1>0, <2>1, <2>5
  <2>7. overlapped' \in BOOLEAN
    BY <2>1
  <2>8. Len(snapshots') + Cardinality(Snapping') <= stored'
    BY <1>0, <2>1, <2>2, <2>4
  <2> QED BY <2>2, <2>4, <2>6, <2>7, <2>8 DEF SnapshotsCounted
<1>2. ASSUME NEW p \in Processes, Archive!SnapshotEnds(p) PROVE SnapshotsCounted' /\ stored' \in Counted
  <2>1. PICK new : new = [version |-> snapper[p], state |-> Len(snapshots) + 1]
    OBVIOUS
  <2>2. /\ snapper[p] # 0 /\ snapper' = [snapper EXCEPT ![p] = 0] /\ snapshots' = Append(snapshots, new)
        /\ overlapped' = overlapped /\ stored' = stored
    BY <1>2, <2>1 DEF Archive!SnapshotEnds
  <2>3. new \in Snapshots
    BY <1>0, <2>1 DEF Snapshots
  <2>4. Len(snapshots') = Len(snapshots) + 1
    BY <1>0, <2>2, <2>3
  <2>5. Snapping' = Snapping \ {p} /\ p \in Snapping
    BY <1>0, <2>2 DEF Snapping
  <2>6. IsFiniteSet(Snapping') /\ Cardinality(Snapping') = Cardinality(Snapping) - 1
    BY <1>0, <2>5, FS_RemoveElement
  <2>7. \A q \in Processes : snapper'[q] \in Counted
    BY <1>0, <2>2, StoresAssumption DEF Counted
  <2>8. Len(snapshots') + Cardinality(Snapping') <= stored'
    BY <1>0, <2>2, <2>4, <2>6
  <2> QED BY <1>0, <2>2, <2>6, <2>7, <2>8 DEF SnapshotsCounted
<1>3. ASSUME Archive!ForgetSnapshots PROVE SnapshotsCounted' /\ stored' \in Counted
  <2>1. snapshots' = << >> /\ snapper' = [p \in Processes |-> 0] /\ overlapped' = FALSE /\ stored' = stored
    BY <1>3 DEF Archive!ForgetSnapshots
  <2>2. Snapping' = {} /\ Len(snapshots') = 0 /\ \A p \in Processes : snapper'[p] \in Counted
    BY <2>1, StoresAssumption DEF Snapping, Counted
  <2>3. IsFiniteSet({}) /\ Cardinality({}) = 0
    BY FS_EmptySet
  <2>4. IsFiniteSet(Snapping') /\ Cardinality(Snapping') = 0
    BY <2>2, <2>3
  <2>5. Len(snapshots') + Cardinality(Snapping') <= stored'
    BY <1>0, <2>1, <2>2, <2>4
  <2> QED BY <2>1, <2>2, <2>4, <2>5 DEF SnapshotsCounted
<1> QED BY <1>1, <1>2, <1>3 DEF Archive!SnapshotNext

CacheTyped == barCache \in Seq(Picks) /\ Len(barCache) <= Limit

\* What is cut is no longer than the limit.
LEMMA CutIsShort ==
  ASSUME NEW s \in Seq(Picks)
  PROVE  Archive!Cut(s) \in Seq(Picks) /\ Len(Archive!Cut(s)) <= Limit
<1>1. Limit \in Nat \ {0} /\ Len(s) \in Nat
  BY StoresAssumption
<1>2. CASE Len(s) > Limit
  <2>1. Limit \in Int /\ 1 \in 1..Len(s) + 1 /\ Limit \in 0..Len(s)
    BY <1>1, <1>2
  <2>2. SubSeq(s, 1, Limit) \in Seq(Picks) /\ Len(SubSeq(s, 1, Limit)) = Limit
    BY <1>1, <1>2
  <2> QED BY <1>1, <1>2, <2>2 DEF Archive!Cut
<1>3. CASE ~(Len(s) > Limit)
  BY <1>1, <1>3 DEF Archive!Cut
<1> QED BY <1>2, <1>3

\* The cache holds no more bars than the limit, in order or not.
LEMMA CacheTypedStep ==
  ASSUME BarInv, CacheTyped, Archive!BarNext
  PROVE  CacheTyped'
<1>1. ASSUME NEW p \in Processes, Archive!PushCache(p) PROVE CacheTyped'
  <2>1. barCache' = Archive!Cut(Archive!NewestFirst(pushing[p]) \o barCache) /\ pushing[p] \in SUBSET Bars
    BY <1>1 DEF Archive!PushCache, BarInv
  <2> DEFINE new == Archive!NewestFirst(pushing[p])
  <2>2. new \in Seq(Picks)
    BY <2>1, NewestIsASequence
  <2> HIDE DEF new
  <2>3. new \o barCache \in Seq(Picks)
    BY <2>2 DEF CacheTyped
  <2>4. barCache' = Archive!Cut(new \o barCache)
    BY <2>1 DEF new
  <2> QED BY <2>3, <2>4, CutIsShort DEF CacheTyped
<1>2. ASSUME NEW p \in Processes, \/ Archive!CacheFails(p)
                                 \/ \E batch : Archive!WriteBars(p, batch)
      PROVE  CacheTyped'
  BY <1>2 DEF Archive!CacheFails, Archive!WriteBars, CacheTyped
<1> QED BY <1>1, <1>2 DEF Archive!BarNext

\* Every lookup leaves the clock within its bound and takes no number.
LEMMA ClockTyped ==
  ASSUME clock \in 0..2, stored \in Counted, Archive!TtlNext
  PROVE  clock' \in 0..2 /\ stored' \in Counted
<1>1. ASSUME Archive!Tick PROVE clock' \in 0..2 /\ stored' \in Counted
  BY <1>1 DEF Archive!Tick
<1>2. ASSUME NEW k \in Keys, NEW allowed \in BOOLEAN, Archive!Lookup(k, allowed) PROVE clock' \in 0..2 /\ stored' \in Counted
  BY <1>2 DEF Archive!Lookup
<1>3. ASSUME NEW k \in Keys, NEW ttl \in 0..1, NEW stale \in 0..1, Archive!StoreEntry(k, ttl, stale)
      PROVE  clock' \in 0..2 /\ stored' \in Counted
  BY <1>3, NewNumber DEF Archive!StoreEntry
<1> QED BY <1>1, <1>2, <1>3 DEF Archive!TtlNext

\* What is said of prices is of one of the kinds.
LEMMA PricesTypedStep ==
  ASSUME PricesTyped, Archive!PriceNext
  PROVE  PricesTyped'
<1>1. PICK s \in Archive!Symbols, row \in Archive!PriceRows, known \in BOOLEAN : Archive!SetPrice(s, row, known)
  BY DEF Archive!PriceNext
<1>2. prices' = [prices EXCEPT ![s] = row] /\ rows' = [rows EXCEPT ![s] = known]
  BY <1>1 DEF Archive!SetPrice
<1> QED BY <1>2 DEF PricesTyped

ArchivesTyped ==
  /\ stored \in Counted /\ SavesCounted /\ PagesCounted /\ SnapshotsCounted
  /\ CacheTyped /\ clock \in 0..2 /\ PricesTyped

\* The archives start with these types.
LEMMA ArchivesTypedStart == Archive!Init => ArchivesTyped
<1> SUFFICES ASSUME Archive!Init PROVE ArchivesTyped
  OBVIOUS
<1>1. /\ stored = 0 /\ snapshots = << >> /\ snapper = [p \in Processes |-> 0] /\ overlapped = FALSE
      /\ barCache = << >> /\ clock = 0
      /\ prices = [s \in Archive!Symbols |-> Archive!NoRow] /\ rows = [s \in Archive!Symbols |-> FALSE]
  BY DEF Archive!Init
<1>2. Snapping = {} /\ \A p \in Processes : snapper[p] = 0
  BY <1>1 DEF Snapping
<1>3. IsFiniteSet({}) /\ Cardinality({}) = 0
  BY FS_EmptySet
<1>4. IsFiniteSet(Snapping) /\ Cardinality(Snapping) = 0
  BY <1>2, <1>3
<1>5. 0 \in Counted
  BY StoresAssumption DEF Counted
<1>6. SnapshotsCounted
  <2>1. Len(snapshots) = 0 /\ overlapped \in BOOLEAN
    BY <1>1
  <2>2. Len(snapshots) + Cardinality(Snapping) <= stored
    BY <1>1, <1>4, <2>1
  <2> QED BY <1>2, <1>4, <1>5, <2>1, <2>2 DEF SnapshotsCounted
<1>7. << >> \in Seq(Picks) /\ Len(<< >>) <= Limit
  BY StoresAssumption
<1>8. PricesTyped
  BY <1>1 DEF PricesTyped, Archive!PriceRows
<1>9. clock \in 0..2
  BY <1>1
<1> QED BY <1>1, <1>5, <1>6, <1>7, <1>8, <1>9, SavesCountedStart, PagesCountedStart DEF ArchivesTyped, CacheTyped

\* What an archive does leaves the types of the others as they are.
LEMMA ArchiveTypesRest ==
  ASSUME ArchivingInv, ArchivesTyped
  PROVE  /\ UNCHANGED Archive!checkpointVars => SavesCounted'
         /\ UNCHANGED Archive!nodeVars => PagesCounted'
         /\ UNCHANGED Archive!snapshotVars /\ stored' \in Counted /\ stored <= stored' => SnapshotsCounted'
         /\ UNCHANGED Archive!barVars => CacheTyped'
         /\ UNCHANGED Archive!ttlVars => clock' \in 0..2
         /\ UNCHANGED Archive!priceVars => PricesTyped'
<1>1. UNCHANGED Archive!checkpointVars => SavesCounted'
  BY DEF ArchivesTyped, Archive!checkpointVars, SavesCounted
<1>2. UNCHANGED Archive!nodeVars => PagesCounted'
  BY DEF ArchivesTyped, Archive!nodeVars, PagesCounted
<1>3. ASSUME UNCHANGED Archive!snapshotVars, stored' \in Counted, stored <= stored' PROVE SnapshotsCounted'
  <2>1. snapshots' = snapshots /\ snapper' = snapper /\ overlapped' = overlapped
    BY <1>3 DEF Archive!snapshotVars
  <2>2. Snapping' = Snapping
    BY <2>1 DEF Snapping
  <2>3. /\ Cardinality(Snapping) \in Nat /\ Len(snapshots) \in Nat /\ stored \in Int /\ stored' \in Int
        /\ Len(snapshots) + Cardinality(Snapping) <= stored
    BY <1>3, FS_CardinalityType DEF ArchivingInv, SnapshotInv, ArchivesTyped, SnapshotsCounted, Counted
  <2>4. Len(snapshots) + Cardinality(Snapping) <= stored'
    BY <1>3, <2>3
  <2> QED BY <2>1, <2>2, <2>4 DEF ArchivesTyped, SnapshotsCounted
<1>4. UNCHANGED Archive!barVars => CacheTyped'
  BY DEF ArchivesTyped, Archive!barVars, CacheTyped
<1>5. UNCHANGED Archive!ttlVars => clock' \in 0..2
  BY DEF ArchivesTyped, Archive!ttlVars
<1>6. UNCHANGED Archive!priceVars => PricesTyped'
  BY DEF ArchivesTyped, Archive!priceVars, PricesTyped
<1> QED BY <1>1, <1>2, <1>3, <1>4, <1>5, <1>6

\* Every step of the archives keeps the types.
LEMMA ArchivesTypedStep ==
  ASSUME ArchivingInv, ArchivesTyped,
         \/ Archive!CheckpointNext \/ Archive!NodeNext \/ Archive!SnapshotNext \/ Archive!TtlNext
         \/ Archive!GenomeNext \/ Archive!CausalNext \/ Archive!BarNext \/ Archive!PriceNext
         \/ UNCHANGED archiveVars
  PROVE  ArchivesTyped'
<1>0. /\ stored \in Counted /\ SavesCounted /\ PagesCounted /\ SnapshotsCounted
      /\ CacheTyped /\ clock \in 0..2 /\ PricesTyped
  BY DEF ArchivesTyped
<1>grows. ASSUME Archive!NewCall \/ UNCHANGED stored PROVE stored' \in Counted /\ stored <= stored'
  <2>1. stored \in Int /\ stored' \in Int
    BY <1>0, <1>grows, NewNumber DEF Counted
  <2> QED BY <1>0, <1>grows, <2>1, NewNumber
<1>1. CASE Archive!CheckpointNext
  <2>1. /\ UNCHANGED Archive!nodeVars /\ UNCHANGED Archive!snapshotVars /\ UNCHANGED Archive!barVars
        /\ UNCHANGED Archive!ttlVars /\ UNCHANGED Archive!priceVars
    BY <1>1 DEF Archive!CheckpointNext
  <2>2. Archive!NewCall \/ UNCHANGED stored
    <3>1. PICK p \in Processes :
            \/ Archive!SaveWrites(p) \/ Archive!InsertRefused(p) \/ Archive!LockRefused(p) \/ Archive!Commits(p)
            \/ Archive!SaverDies(p)
            \/ \E k \in Keys : Archive!SaveLooks(p, k) \/ Archive!Reset(p, k)
      BY <1>1 DEF Archive!CheckpointNext
    <3> QED BY <3>1 DEF Archive!SaveWrites, Archive!InsertRefused, Archive!LockRefused, Archive!Commits,
                        Archive!SaverDies, Archive!SaveLooks, Archive!Reset
  <2>3. SavesCounted' /\ stored' \in Counted
    BY <1>0, <1>1, SavesCountedStep DEF ArchivingInv
  <2> QED BY <1>grows, <2>1, <2>2, <2>3, ArchiveTypesRest DEF ArchivesTyped
<1>2. CASE Archive!NodeNext
  <2>1. /\ UNCHANGED Archive!checkpointVars /\ UNCHANGED Archive!snapshotVars /\ UNCHANGED Archive!barVars
        /\ UNCHANGED Archive!ttlVars /\ UNCHANGED Archive!priceVars
    BY <1>2 DEF Archive!NodeNext
  <2>2. Archive!NewCall \/ UNCHANGED stored
    <3>1. PICK p \in Processes :
            \/ Archive!PutNode(p) \/ Archive!DeleteLegacy(p) \/ Archive!PagerDies(p)
            \/ \E n \in Archive!Nodes : Archive!SaveNode(p, n) \/ Archive!DeleteCanon(p, n)
      BY <1>2 DEF Archive!NodeNext
    <3> QED BY <3>1 DEF Archive!PutNode, Archive!DeleteLegacy, Archive!PagerDies, Archive!SaveNode,
                        Archive!DeleteCanon
  <2>3. PagesCounted' /\ stored' \in Counted
    BY <1>0, <1>2, PagesCountedStep DEF ArchivingInv
  <2> QED BY <1>grows, <2>1, <2>2, <2>3, ArchiveTypesRest DEF ArchivesTyped
<1>3. CASE Archive!SnapshotNext
  <2>1. /\ UNCHANGED Archive!checkpointVars /\ UNCHANGED Archive!nodeVars /\ UNCHANGED Archive!barVars
        /\ UNCHANGED Archive!ttlVars /\ UNCHANGED Archive!priceVars
    BY <1>3 DEF Archive!SnapshotNext
  <2>2. SnapshotsCounted' /\ stored' \in Counted
    BY <1>0, <1>3, SnapshotsCountedStep DEF ArchivingInv
  <2> QED BY <2>1, <2>2, ArchiveTypesRest DEF ArchivesTyped
<1>4. CASE Archive!TtlNext
  <2>1. /\ UNCHANGED Archive!checkpointVars /\ UNCHANGED Archive!nodeVars /\ UNCHANGED Archive!snapshotVars
        /\ UNCHANGED Archive!barVars /\ UNCHANGED Archive!priceVars
    BY <1>4 DEF Archive!TtlNext
  <2>2. Archive!NewCall \/ UNCHANGED stored
    BY <1>4 DEF Archive!TtlNext, Archive!Tick, Archive!Lookup, Archive!StoreEntry
  <2>3. clock' \in 0..2 /\ stored' \in Counted
    BY <1>0, <1>4, ClockTyped
  <2> QED BY <1>grows, <2>1, <2>2, <2>3, ArchiveTypesRest DEF ArchivesTyped
<1>5. CASE Archive!GenomeNext \/ Archive!CausalNext \/ UNCHANGED archiveVars
  <2>1. /\ UNCHANGED Archive!checkpointVars /\ UNCHANGED Archive!nodeVars /\ UNCHANGED Archive!snapshotVars
        /\ UNCHANGED Archive!barVars /\ UNCHANGED Archive!ttlVars /\ UNCHANGED Archive!priceVars
        /\ UNCHANGED stored
    BY <1>5 DEF Archive!GenomeNext, Archive!CausalNext, archiveVars, Archive!checkpointVars, Archive!nodeVars,
                Archive!snapshotVars, Archive!barVars, Archive!ttlVars, Archive!priceVars
  <2> QED BY <1>grows, <2>1, ArchiveTypesRest DEF ArchivesTyped
<1>6. CASE Archive!BarNext
  <2>1. /\ UNCHANGED Archive!checkpointVars /\ UNCHANGED Archive!nodeVars /\ UNCHANGED Archive!snapshotVars
        /\ UNCHANGED Archive!ttlVars /\ UNCHANGED Archive!priceVars /\ UNCHANGED stored
    BY <1>6 DEF Archive!BarNext
  <2>2. CacheTyped'
    BY <1>0, <1>6, CacheTypedStep DEF ArchivingInv
  <2> QED BY <1>grows, <2>1, <2>2, ArchiveTypesRest DEF ArchivesTyped
<1>7. CASE Archive!PriceNext
  <2>1. /\ UNCHANGED Archive!checkpointVars /\ UNCHANGED Archive!nodeVars /\ UNCHANGED Archive!snapshotVars
        /\ UNCHANGED Archive!barVars /\ UNCHANGED Archive!ttlVars /\ UNCHANGED stored
    BY <1>7 DEF Archive!PriceNext
  <2>2. PricesTyped'
    BY <1>0, <1>7, PricesTypedStep
  <2> QED BY <1>grows, <2>1, <2>2, ArchiveTypesRest DEF ArchivesTyped
<1> QED BY <1>1, <1>2, <1>3, <1>4, <1>5, <1>6, <1>7

\* The archives' types follow.
LEMMA ArchiveTypesKept ==
  ASSUME ArchivingInv, ArchivesTyped
  PROVE  Archive!TypeOK
<1>1. stored \in 0..MaxStored
  BY DEF ArchivesTyped, Counted
<1>2. saved \in [Keys -> 0..MaxStored]
  BY DEF ArchivesTyped, SavesCounted, Counted, ArchivingInv, CheckpointInv, CheckpointTyped
<1>3. writes.by \in Processes \cup {"nobody"}
  BY DEF ArchivingInv, CheckpointInv, CheckpointTyped
<1>4. \A p \in Processes : saver[p].at \in {"idle", "insert", "update", "delete", "commit"}
  BY DEF ArchivingInv, CheckpointInv, CheckpointTyped, Saves
<1>5. \A p \in Processes : pager[p].at \in {"idle", "saving", "deleting"}
  BY DEF ArchivingInv, NodeInv, NodeTyped, Pagers
<1>6. \A i \in DOMAIN pool : pool[i].score \in 0..2
  <2> SUFFICES ASSUME NEW i \in DOMAIN pool PROVE pool[i].score \in 0..2
    OBVIOUS
  <2>1. pool[i] \in Genomes
    BY DEF ArchivingInv, GenomeInv
  <2> QED BY <2>1 DEF Genomes
<1>7. canon \in [Archive!Nodes -> 0..MaxStored]
  BY DEF ArchivesTyped, PagesCounted, Counted, ArchivingInv, NodeInv, NodeTyped, Archive!Nodes, Ends
<1>8. graph.nodes \subseteq Archive!Places
  BY DEF ArchivingInv, CausalInv, Joined, CausalGraphs, Archive!Places, Vertices
<1>9. overlapped \in BOOLEAN /\ snapper \in [Processes -> 0..MaxStored]
  BY DEF ArchivesTyped, SnapshotsCounted, Counted, ArchivingInv, SnapshotInv
<1>10. Len(barCache) <= Limit /\ clock \in 0..2
  BY DEF ArchivesTyped, CacheTyped
<1>11. \A s \in Archive!Symbols : prices[s] \in Archive!PriceRows /\ rows[s] \in BOOLEAN
  BY DEF ArchivesTyped, PricesTyped
<1> QED BY <1>1, <1>2, <1>3, <1>4, <1>5, <1>6, <1>7, <1>8, <1>9, <1>10, <1>11 DEF Archive!TypeOK

-----------------------------------------------------------------------------
(* The types of the lookups: times are times that were, up to the bound.   *)
Moments == 0..MaxClock
LookupsTyped ==
  /\ moment \in Moments /\ \A c \in shelf : c.at \in Moments
  /\ exchange \in {"deribit", "okx"} /\ \A k \in PartNames : stock[k].until \in 0..MaxClock + Ttl
  /\ \A p \in Processes : begun[p] \in -1..MaxClock
  /\ \A r \in memory : r.id # 0
  /\ 0 \notin forgotten
  /\ twice \subseteq Notes

\* Nothing was asked for, nor remembered, at the start.
LEMMA LookupsTypedStart == Lookup!Init => LookupsTyped
<1> SUFFICES ASSUME Lookup!Init PROVE LookupsTyped
  OBVIOUS
<1>1. /\ moment = 0 /\ shelf = {} /\ exchange \in {"deribit", "okx"} /\ memory = {} /\ forgotten = {} /\ twice = {}
      /\ stock = [k \in PartNames |-> [until |-> 0, got |-> {}, born |-> 0]]
      /\ begun = [p \in Processes |-> -1]
  BY DEF Lookup!Init, PartNames, Lookup!Parts, Lookup!None
<1>2. 0 \in Moments /\ 0 \in 0..MaxClock + Ttl /\ -1 \in -1..MaxClock
  BY LookupsAssumption DEF Moments
<1>3. /\ \A k \in PartNames : stock[k].until \in 0..MaxClock + Ttl
      /\ \A p \in Processes : begun[p] \in -1..MaxClock
  BY <1>1, <1>2
<1> QED BY <1>1, <1>2, <1>3 DEF LookupsTyped

\* Time passes up to its bound.
LEMMA TimeIsBound ==
  ASSUME moment \in Moments, Lookup!Tick
  PROVE  moment' \in Moments
  BY LookupsAssumption DEF Lookup!Tick, Moments

\* An answer is shelved when it comes.
LEMMA ShelfTyped ==
  ASSUME LookupsTyped, Lookup!HistoryNext
  PROVE  LookupsTyped'
<1>1. /\ UNCHANGED Lookup!optionVars /\ UNCHANGED Lookup!recallVars /\ UNCHANGED Lookup!layerVars
  BY DEF Lookup!HistoryNext
<1>2. UNCHANGED <<exchange, stock, begun, memory, forgotten, twice>>
  BY <1>1 DEF Lookup!optionVars, Lookup!recallVars, Lookup!layerVars
<1>3. moment \in Moments /\ \A c \in shelf : c.at \in Moments
  BY DEF LookupsTyped
<1>4. moment' \in Moments /\ \A c \in shelf' : c.at \in Moments
  <2>1. CASE Lookup!Tick /\ UNCHANGED Lookup!historyVars
    BY <1>3, <2>1, TimeIsBound DEF Lookup!historyVars
  <2>2. ASSUME NEW q, Lookup!HistoryCached(q) \/ \E p \in Processes : Lookup!HistoryAsks(p, q) PROVE shelf' = shelf
    BY <2>2 DEF Lookup!HistoryCached, Lookup!HistoryAsks
  <2>3. ASSUME NEW p \in Processes, Lookup!HistoryFails(p) PROVE shelf' = shelf
    BY <2>3 DEF Lookup!HistoryFails
  <2>4. ASSUME NEW p \in Processes, NEW sent \in Answers, Lookup!HistoryAnswered(p, sent)
        PROVE  \A c \in shelf' : c \in shelf \/ c.at = moment
    <3>1. PICK new : new = [q |-> reader[p].q, at |-> moment, rows |-> sent,
                            candles |-> Lookup!Candles(reader[p].q, sent), since |-> reader[p].since]
      OBVIOUS
    <3>2. shelf' = (shelf \ Lookup!Kept(reader[p].q)) \cup {new}
      BY <2>4, <3>1 DEF Lookup!HistoryAnswered
    <3>3. new.at = moment
      BY <3>1
    <3> QED BY <3>2, <3>3
  <2>5. CASE ~(Lookup!Tick /\ UNCHANGED Lookup!historyVars)
    <3>1. /\ moment' = moment
          /\ \/ \E start \in {Lookup!None} \cup Times, end \in {Lookup!None, 0} \cup Times, limit \in Limits :
                  \/ Lookup!HistoryCached(Lookup!Question(start, end, limit))
                  \/ \E p \in Processes : Lookup!HistoryAsks(p, Lookup!Question(start, end, limit))
             \/ \E p \in Processes :
                  Lookup!HistoryFails(p) \/ \E sent \in Answers : Lookup!HistoryAnswered(p, sent)
      BY <2>5 DEF Lookup!HistoryNext
    <3>2. \A c \in shelf' : c \in shelf \/ c.at = moment
      BY <2>2, <2>3, <2>4, <3>1
    <3> QED BY <1>3, <3>1, <3>2
  <2> QED BY <2>1, <2>5
<1> QED BY <1>2, <1>4 DEF LookupsTyped

\* A call begins when it does, and what is answered is kept for the lifetime of
\* the cache.
LEMMA StockHasTimes ==
  ASSUME OptionInv, LookupsTyped, Lookup!OptionNext
  PROVE  LookupsTyped'
<1>0. /\ moment \in Moments /\ stock \in [PartNames -> [until : Nat, got : SUBSET {"call"}, born : Nat]]
      /\ begun \in [Processes -> Int] /\ (\A k \in PartNames : stock[k].until \in 0..MaxClock + Ttl)
      /\ (\A p \in Processes : begun[p] \in -1..MaxClock) /\ exchange \in {"deribit", "okx"}
      /\ MaxClock \in Nat /\ Ttl \in Nat
  BY LookupsAssumption DEF LookupsTyped, OptionInv, StockTyped, PartsTyped
<1>1. /\ UNCHANGED Lookup!historyVars /\ UNCHANGED Lookup!recallVars /\ UNCHANGED Lookup!layerVars
  BY DEF Lookup!OptionNext
<1>2. UNCHANGED <<shelf, memory, forgotten, twice>>
  BY <1>1 DEF Lookup!historyVars, Lookup!recallVars, Lookup!layerVars
<1> DEFINE Timed == /\ exchange' \in {"deribit", "okx"} /\ \A k \in PartNames : stock'[k].until \in 0..MaxClock + Ttl
                    /\ \A p \in Processes : begun'[p] \in -1..MaxClock
<1>3. ASSUME UNCHANGED <<exchange, stock, begun>> PROVE Timed
  BY <1>0, <1>3
<1>4. ASSUME NEW p \in Processes, Lookup!OptionsBegin(p) PROVE Timed
  <2>1. begun' = [begun EXCEPT ![p] = moment] /\ UNCHANGED <<exchange, stock>>
    BY <1>4 DEF Lookup!OptionsBegin
  <2>2. moment \in -1..MaxClock
    BY <1>0 DEF Moments
  <2> QED BY <1>0, <2>1, <2>2
<1>5. ASSUME NEW p \in Processes, Lookup!OptionsFail(p) \/ Lookup!OptionsTold(p) PROVE Timed
  <2>1. begun' = [begun EXCEPT ![p] = -1] /\ UNCHANGED <<exchange, stock>>
    <3>1. ASSUME NEW said, NEW options, NEW bad, Lookup!Told(p, said, options, bad)
          PROVE  begun' = [begun EXCEPT ![p] = -1] /\ UNCHANGED <<exchange, stock>>
      BY <3>1 DEF Lookup!Told, Lookup!None
    <3> QED BY <1>5, <3>1, Zenon DEF Lookup!OptionsFail, Lookup!OptionsTold
  <2>2. -1 \in -1..MaxClock
    BY <1>0
  <2> QED BY <1>0, <2>1, <2>2
<1>6. ASSUME NEW p \in Processes, NEW k \in PartNames,
             Lookup!PartCached(p, k) \/ Lookup!PartAsks(p, k) \/ Lookup!PartRefused(p, k) \/ Lookup!PartRetried(p, k)
      PROVE  Timed
  <2>1. UNCHANGED <<exchange, stock, begun>>
    <3>1. Lookup!PartCached(p, k) => UNCHANGED <<exchange, stock, begun>>
      BY DEF Lookup!PartCached
    <3>2. Lookup!PartAsks(p, k) => UNCHANGED <<exchange, stock, begun>>
      BY DEF Lookup!PartAsks
    <3>3. Lookup!PartRefused(p, k) => UNCHANGED <<exchange, stock, begun>>
      BY DEF Lookup!PartRefused
    <3>4. Lookup!PartRetried(p, k) => UNCHANGED <<exchange, stock, begun>>
      BY DEF Lookup!PartRetried
    <3> QED BY <1>6, <3>1, <3>2, <3>3, <3>4
  <2> QED BY <1>3, <2>1
<1>7. ASSUME NEW p \in Processes, NEW k \in PartNames, NEW options, Lookup!PartAnswered(p, k, options) PROVE Timed
  <2>1. PICK new : new = [until |-> moment + Ttl, got |-> options, born |-> moment]
    OBVIOUS
  <2>2. stock' = [stock EXCEPT ![k] = new] /\ new.until = moment + Ttl /\ UNCHANGED <<exchange, begun>>
    BY <1>7, <2>1 DEF Lookup!PartAnswered
  <2>3. moment + Ttl \in 0..MaxClock + Ttl
    BY <1>0 DEF Moments
  <2>4. \A j \in PartNames : stock'[j].until \in 0..MaxClock + Ttl
    BY <1>0, <2>2, <2>3
  <2> QED BY <1>0, <2>2, <2>4
<1> HIDE DEF Timed
<1>8. moment' \in Moments /\ Timed
  <2>1. CASE Lookup!Tick /\ UNCHANGED Lookup!optionVars
    <3>1. UNCHANGED <<exchange, stock, begun>>
      BY <2>1 DEF Lookup!optionVars
    <3> QED BY <1>0, <1>3, <2>1, <3>1, TimeIsBound
  <2>2. CASE ~(Lookup!Tick /\ UNCHANGED Lookup!optionVars)
    <3>1. /\ moment' = moment
          /\ \E p \in Processes :
               \/ Lookup!OptionsBegin(p) \/ Lookup!OptionsFail(p) \/ Lookup!OptionsTold(p)
               \/ \E k \in PartNames :
                    \/ Lookup!PartCached(p, k) \/ Lookup!PartAsks(p, k) \/ Lookup!PartRefused(p, k)
                    \/ Lookup!PartRetried(p, k)
                    \/ \E options \in SUBSET Lookup!Options : Lookup!PartAnswered(p, k, options)
      BY <2>2 DEF Lookup!OptionNext, PartNames, Lookup!Parts
    <3> QED BY <1>0, <1>4, <1>5, <1>6, <1>7, <3>1
  <2> QED BY <2>1, <2>2
<1> QED BY <1>2, <1>8 DEF LookupsTyped, Timed

\* Identifiers count from 1.
LEMMA MemoriesCount ==
  ASSUME RecallInv, LookupsTyped, Lookup!RecallNext
  PROVE  LookupsTyped'
<1>0. added \in Nat /\ (\A r \in memory : r.id # 0) /\ 0 \notin forgotten
  BY DEF RecallInv, MemoryKept, LookupsTyped
<1>1. ASSUME NEW c, NEW ws, Lookup!Add(c, ws) PROVE (\A r \in memory' : r.id # 0) /\ 0 \notin forgotten'
  <2>1. PICK new : new = [id |-> added + 1, of |-> c, words |-> ws]
    OBVIOUS
  <2>2. memory' = memory \cup {new} /\ new.id = added + 1 /\ forgotten' = forgotten
    BY <1>1, <2>1 DEF Lookup!Add
  <2> QED BY <1>0, <2>2
<1>2. ASSUME NEW S \in SUBSET memory, Lookup!Delete(S) PROVE (\A r \in memory' : r.id # 0) /\ 0 \notin forgotten'
  BY <1>0, <1>2 DEF Lookup!Delete
<1>3. ASSUME NEW c, NEW ws, NEW double, NEW n, NEW e, Lookup!Query(c, ws, double, n, e)
      PROVE  (\A r \in memory' : r.id # 0) /\ 0 \notin forgotten'
  BY <1>0, <1>3 DEF Lookup!Query
<1>4. /\ \A c : {r \in memory : r.of = c} \in SUBSET memory
      /\ \A r \in memory : {r} \in SUBSET memory
      /\ memory \in SUBSET memory
  OBVIOUS
<1> DEFINE Adds == \E c \in Collections, ws \in SUBSET Words : Lookup!Add(c, ws)
           Deletes == \/ \E r \in memory : Lookup!Delete({r})
                      \/ \E c \in Collections : Lookup!Delete({r \in memory : r.of = c})
                      \/ Lookup!Delete(memory)
           Asks == \E c \in Collections \cup {""}, ws \in (SUBSET Words) \ {{}}, n \in Limits, e \in BOOLEAN :
                     \E double \in (IF e THEN {{}} ELSE SUBSET ws) : Lookup!Query(c, ws, double, n, e)
<1>5. Adds \/ Deletes \/ Asks
  BY DEF Lookup!RecallNext
<1>6. Adds => (\A r \in memory' : r.id # 0) /\ 0 \notin forgotten'
  BY <1>1
<1>7. Deletes => (\A r \in memory' : r.id # 0) /\ 0 \notin forgotten'
  BY <1>2, <1>4
<1>8. Asks => (\A r \in memory' : r.id # 0) /\ 0 \notin forgotten'
  BY <1>3
<1> HIDE DEF Adds, Deletes, Asks
<1>9. UNCHANGED Lookup!historyVars /\ UNCHANGED Lookup!optionVars /\ UNCHANGED Lookup!layerVars /\ moment' = moment
  BY Zenon DEF Lookup!RecallNext
<1>10. UNCHANGED <<moment, shelf, exchange, stock, begun, twice>>
  BY <1>9 DEF Lookup!historyVars, Lookup!optionVars, Lookup!layerVars
<1> QED BY <1>5, <1>6, <1>7, <1>8, <1>10 DEF LookupsTyped

\* Those that met are at notes.
LEMMA NotesMeet ==
  ASSUME LookupsTyped, Lookup!LayerNext
  PROVE  LookupsTyped'
<1>1. ASSUME NEW p, NEW n \in Notes, NEW text, NEW to, Lookup!Starts(p, n, text, to) PROVE twice' \subseteq twice \cup {n}
  BY <1>1 DEF Lookup!Starts
<1>2. ASSUME NEW p, NEW n \in Notes, (\E to : Lookup!WriteBegins(p, n, to)) \/ \E l : Lookup!SetBegins(p, n, l)
      PROVE  twice' \subseteq twice \cup {n}
  BY <1>1, <1>2, Zenon DEF Lookup!WriteBegins, Lookup!SetBegins
<1>3. ASSUME NEW p, Lookup!LayerOpens(p) \/ Lookup!LayerWritten(p) \/ Lookup!LayerRefused(p) \/ Lookup!NoterDies(p)
      PROVE  twice' = twice
  BY <1>3, Zenon DEF Lookup!LayerOpens, Lookup!LayerWritten, Lookup!LayerRefused, Lookup!NoterDies
<1>4. ASSUME Lookup!RetrieveBegins \/ \E n, l0, l1 : Lookup!RetrieveLooks(n, l0, l1) PROVE twice' = twice
  BY <1>4, Zenon DEF Lookup!RetrieveBegins, Lookup!RetrieveLooks
<1>5. twice' \subseteq twice \cup Notes
  BY <1>2, <1>3, <1>4 DEF Lookup!LayerNext
<1>6. UNCHANGED Lookup!historyVars /\ UNCHANGED Lookup!optionVars /\ UNCHANGED Lookup!recallVars /\ moment' = moment
  BY DEF Lookup!LayerNext
<1>7. UNCHANGED <<moment, shelf, exchange, stock, begun, memory, forgotten>>
  BY <1>6 DEF Lookup!historyVars, Lookup!optionVars, Lookup!recallVars
<1> QED BY <1>5, <1>7 DEF LookupsTyped

\* Every step of the lookups keeps the types.
LEMMA LookupsTypedStep ==
  ASSUME LookingInv, LookupsTyped,
         \/ Lookup!HistoryNext \/ Lookup!OptionNext \/ Lookup!RecallNext \/ Lookup!LayerNext
         \/ UNCHANGED lookupVars
  PROVE  LookupsTyped'
<1>1. ASSUME UNCHANGED lookupVars PROVE LookupsTyped'
  <2>1. UNCHANGED <<moment, shelf, exchange, stock, begun, memory, forgotten, twice>>
    BY <1>1 DEF lookupVars
  <2> QED BY <2>1 DEF LookupsTyped
<1> QED BY <1>1, ShelfTyped, StockHasTimes, MemoriesCount, NotesMeet DEF LookingInv

\* The types of the lookups follow.
LEMMA LookupTypesKept ==
  ASSUME LookingInv, LookupsTyped
  PROVE  Lookup!TypeOK
<1>1. moment \in 0..MaxClock /\ lookups \in 0..MaxLookups
  BY DEF LookupsTyped, Moments, LookingInv, LayerInv, WritingInv
<1>2. ASSUME NEW c \in shelf PROVE c.at \in 0..MaxClock /\ Lookup!Cardinality(Lookup!Kept(c.q)) = 1
  <2>1. \A d \in shelf : d.q = c.q => d = c
    BY DEF LookingInv, HistoryInv, Shelved
  <2>2. Lookup!Kept(c.q) = {c}
    BY <2>1 DEF Lookup!Kept
  <2>3. Cardinality({c}) = 1
    BY FS_Singleton
  <2>4. Lookup!Cardinality({c}) = Cardinality({c})
    BY DEF Lookup!Cardinality, Cardinality
  <2> QED BY <2>2, <2>3, <2>4 DEF LookupsTyped, Moments
<1>3. ASSUME NEW p \in Processes PROVE reader[p].since \in 0..MaxClock
  <2>1. reader[p].since \in Nat /\ reader[p].since <= moment
    BY DEF LookingInv, HistoryInv
  <2> QED BY <1>1, <2>1, LookupsAssumption
<1>4. exchange \in {"deribit", "okx"} /\ \A k \in Lookup!Parts : stock[k].until \in 0..MaxClock + Ttl
  BY DEF LookupsTyped, PartNames, Lookup!Parts
<1>5. ASSUME NEW p \in Processes, NEW k \in Lookup!Parts
      PROVE  part[p][k].at \in {"over", "look", "asked", "done", "failed"}
  <2>1. k \in PartNames /\ part \in [Processes -> [PartNames -> PartStates]]
    BY DEF PartNames, Lookup!Parts, LookingInv, OptionInv, PartsTyped
  <2>2. part[p][k] \in PartStates
    BY <2>1
  <2> QED BY <2>2 DEF PartStates
<1>6. begun \in [Processes -> Lookup!None..MaxClock]
  BY DEF LookupsTyped, LookingInv, OptionInv, PartsTyped, Lookup!None
<1>7. memory \subseteq [id : 1..added, of : Collections, words : SUBSET Words]
  <2> SUFFICES ASSUME NEW r \in memory PROVE r \in [id : 1..added, of : Collections, words : SUBSET Words]
    OBVIOUS
  <2>1. r \in Memories /\ added \in Nat /\ r.id <= added /\ r.id # 0
    BY DEF LookupsTyped, LookingInv, RecallInv, MemoryKept
  <2>2. r.id \in 1..added
    BY <2>1 DEF Memories
  <2> QED BY <2>1, <2>2 DEF Memories
<1>8. forgotten \subseteq 1..added
  BY DEF LookupsTyped, LookingInv, RecallInv, MemoryKept
<1>9. layers \in [Notes -> [Lookup!Layers -> 0..Lookup!Empty]] /\ twice \subseteq Notes
  BY DEF LookupsTyped, LookingInv, LayerInv, WritingInv, Lookup!Layers, LayerNames, Lookup!Empty
<1>10. ASSUME NEW p \in Processes PROVE noting[p].at \in {"idle", "going", "open"}
  BY DEF LookingInv, LayerInv, WritingInv, Notings
<1> QED BY <1>1, <1>2, <1>3, <1>4, <1>5, <1>6, <1>7, <1>8, <1>9, <1>10 DEF Lookup!TypeOK

-----------------------------------------------------------------------------
(* The types of the composition. *)

\* Together: what each component needs besides its invariant to keep its types.
TypesInv == CooledOK /\ LostOK /\ BusTyped /\ MachineTyped /\ TextsTyped /\ ArchivesTyped /\ LookupsTyped

\* Everything starts with its types.
LEMMA TypesStart == CoordinationInit => TypesInv
  BY CooledTyped, LostTyped, BusKeepsTypes, MachineTypedStarts, TextsTypedStart, ArchivesTypedStart,
     LookupsTypedStart
  DEF CoordinationInit, TypesInv

\* Whichever component goes on, all keep their types.
LEMMA TypesStep ==
  ASSUME CoordinationInv, StoresInv, TypesInv, [CoordinationNext]_Composed
  PROVE  TypesInv'
<1>1. [Breaker!Next]_breakerVars /\ [Pool!Next]_poolVars
  BY DEF CoordinationNext, Composed
<1>2. [LoopBus!Next]_busVars \/ [ThreadBus!Next]_busVars
  BY DEF CoordinationNext, Composed, Deciding
<1>3. Local!GpuNext \/ Local!BlockNext \/ Local!BrowserNext \/ UNCHANGED localVars
  BY DEF CoordinationNext, Composed, OnTheMachine
<1>4. Store!BankNext \/ Store!ChunkNext \/ Store!PageNext \/ Store!KvNext \/ UNCHANGED storeVars
  BY DEF CoordinationNext, Composed, Storing
<1>5. \/ Archive!CheckpointNext \/ Archive!NodeNext \/ Archive!SnapshotNext \/ Archive!TtlNext
      \/ Archive!GenomeNext \/ Archive!CausalNext \/ Archive!BarNext \/ Archive!PriceNext
      \/ UNCHANGED archiveVars
  BY DEF CoordinationNext, Composed, Archiving
<1>6. \/ Lookup!HistoryNext \/ Lookup!OptionNext \/ Lookup!RecallNext \/ Lookup!LayerNext
      \/ UNCHANGED lookupVars
  BY DEF CoordinationNext, Composed, LookingUp
<1>7. CooledOK' /\ LostOK' /\ BusTyped'
  BY <1>1, <1>2, CooledTyped, LostTyped, BusKeepsTypes DEF TypesInv, CoordinationInv
<1>8. MachineTyped' /\ TextsTyped'
  BY <1>3, <1>4, MachineTypedStep, TextsTypedStep DEF TypesInv, CoordinationInv, StoresInv
<1>9. ArchivesTyped' /\ LookupsTyped'
  BY <1>5, <1>6, ArchivesTypedStep, LookupsTypedStep DEF TypesInv, StoresInv
<1> QED BY <1>7, <1>8, <1>9 DEF TypesInv

\* The types follow from the invariants.
LEMMA TypesKept ==
  ASSUME CoordinationInv, StoresInv, TypesInv
  PROVE  TypesOK
<1>1. TypeOK
  BY LimiterTyped DEF CoordinationInv
<1>2. Breaker!TypeOK
  BY DEF CoordinationInv, BreakerInv, CountersOK, TypesInv, CooledOK, Breaker!TypeOK
<1>3. ThreadBus!TypeOK
  BY DEF TypesInv, BusTyped
<1>4. Pool!TypeOK
  BY PoolTyped DEF CoordinationInv, TypesInv
<1>5. Local!TypeOK
  BY MachineTypesKept DEF CoordinationInv, StoresInv, TypesInv
<1>6. Store!TypeOK /\ Archive!TypeOK /\ Lookup!TypeOK
  BY StoresTypesKept, ArchiveTypesKept, LookupTypesKept DEF StoresInv, TypesInv
<1> QED BY <1>1, <1>2, <1>3, <1>4, <1>5, <1>6 DEF TypesOK

\* Every component of the composition keeps its types: the limiter never notes a
\* time to come, blocks, browsers, models and containers are no more than were
\* made, texts and numbers no more than were stored, the cache of bars stays at its
\* limit and a series of history has one entry.
THEOREM TypesCorrect == CoordinationSpec => []TypesOK
<1>1. TypesInv /\ CoordinationInv /\ StoresInv /\ [CoordinationNext]_Composed => TypesInv'
  BY TypesStep
<1>2. StoresInv /\ [CoordinationNext]_Composed => StoresInv'
  BY StoresStep
<1>3. CoordinationInv /\ StoresInv /\ TypesInv => TypesOK
  BY TypesKept
<1> QED BY <1>1, <1>2, <1>3, CoordinationKept, StoresStart, TypesStart, PTL DEF CoordinationSpec, Composed

=============================================================================

--------------------------- MODULE PersistentStore ---------------------------
(***************************************************************************)
(* obase.persistent_store.PersistentStore on obase.versionstore.VersionStore *)
(* for one asset: save replaces the current document, logs it and takes a  *)
(* snapshot of it, a directory of its own listed in an index file; rollback *)
(* saves the document of an earlier revision again.  Threads share one     *)
(* store and its lock; the process may die between any two writes and in   *)
(* the middle of a line.                                                   *)
(*                                                                         *)
(* Abstracted: documents are valid and opaque, the checksum and the times  *)
(* of a revision are left out.  A rollback reads its revision when it      *)
(* begins to save: finished revisions do not change.                       *)
(*                                                                         *)
(* A definition named X_Slip is X with a slip a programmer could make; the *)
(* properties are checked to notice it.  Nothing else uses it.             *)
(***************************************************************************)
EXTENDS Naturals

CONSTANTS
  Docs, NoDoc,
  MaxRevs,     \* bound: snapshots begun
  MaxCrashes   \* bound: crashes of the process

VARIABLES
  current,     \* the current state file
  logged,      \* the event log: the revisions whose document it has
  dirs,        \* per revision, what its directory holds, NoDoc when unfinished
  index,       \* the revisions the index file lists
  cut,         \* per file, the revision whose line, the last one, lacks its end; 0: none
  saving,      \* the step of the save or delete that holds _lock, "none" without one
  doc, rev,    \* its document and its revision
  saved,       \* ghost: per revision, the document given to save
  returned,    \* ghost: revisions save returned
  spoilt,      \* ghost: revisions whose line was cut, or written behind one that was
  deleted,     \* ghost: revisions whose delete was begun, or that a crash in one dropped
  dead         \* crashes so far

vars == <<current, logged, dirs, index, cut, saving, doc, rev, saved,
          returned, spoilt, deleted, dead>>

Revs == 1..MaxRevs

Init ==
  /\ current = NoDoc /\ logged = {} /\ index = {} /\ cut = [events |-> 0, index |-> 0]
  /\ dirs = [r \in {} |-> NoDoc] /\ saved = [r \in {} |-> NoDoc]
  /\ saving = "none" /\ doc = NoDoc /\ rev = 0
  /\ returned = {} /\ spoilt = {} /\ deleted = {} /\ dead = 0

With(f, x, y) == [z \in DOMAIN f \cup {x} |-> IF z = x THEN y ELSE f[z]]
NewRev == CHOOSE r \in Revs : r \notin DOMAIN saved /\ \A q \in Revs : q < r => q \in DOMAIN saved

\* The end of a save or a delete, and of the lock's use.
Leave == saving' = "none" /\ doc' = NoDoc /\ rev' = 0

-----------------------------------------------------------------------------
\* save, under the lock: the file that replaces the current one ...
Save(d) ==
  /\ saving = "none" /\ DOMAIN saved # Revs
  /\ saving' = "replaced" /\ doc' = d /\ rev' = NewRev
  /\ saved' = With(saved, NewRev, d)
  /\ current' = d
  /\ UNCHANGED <<logged, dirs, index, cut, returned, spoilt, deleted, dead>>

\* rollback: the document of a revision (load_version) becomes the next one.
Loadable(r) == r \in index /\ r \in DOMAIN dirs /\ dirs[r] # NoDoc
Rollback(r) == Loadable(r) /\ Save(dirs[r])

\* A line goes to the end of its file; behind one that was cut it makes,
\* with that, a line that does not parse.
Listed(f, lines) == IF cut[f] = 0 THEN lines \cup {rev} ELSE lines \ {cut[f]}
AppendLine(f) ==
  /\ cut' = [cut EXCEPT ![f] = 0]
  /\ spoilt' = IF cut[f] = 0 THEN spoilt ELSE spoilt \cup {rev}
CutLine(f, r) == cut' = [cut EXCEPT ![f] = r] /\ spoilt' = spoilt \cup {r}

\* ... the line of the event log ...
Log ==
  /\ saving = "replaced" /\ saving' = "logged"
  /\ logged' = Listed("events", logged) /\ AppendLine("events")
  /\ UNCHANGED <<current, dirs, index, doc, rev, saved, returned, deleted, dead>>

\* ... and the snapshot: a new directory, the copy of the current file, and
\* the line of the index.
SnapshotOrder_Slip == [logged |-> "indexed", indexed |-> "copied", copied |-> "done"]
SnapshotOrder == [logged |-> "copied", copied |-> "indexed", indexed |-> "done"]
MakeDir ==
  /\ saving = "logged" /\ rev \notin DOMAIN dirs
  /\ dirs' = With(dirs, rev, NoDoc)
  /\ UNCHANGED <<current, logged, index, cut, saving, doc, rev, saved, returned, spoilt, deleted, dead>>
Copy ==
  /\ saving \in DOMAIN SnapshotOrder /\ rev \in DOMAIN dirs /\ SnapshotOrder[saving] = "copied"
  /\ saving' = "copied" /\ dirs' = [dirs EXCEPT ![rev] = current]
  /\ UNCHANGED <<current, logged, index, cut, doc, rev, saved, returned, spoilt, deleted, dead>>
AppendIndex ==
  /\ saving \in DOMAIN SnapshotOrder /\ rev \in DOMAIN dirs /\ SnapshotOrder[saving] = "indexed"
  /\ saving' = "indexed"
  /\ index' = Listed("index", index) /\ AppendLine("index")
  /\ UNCHANGED <<current, logged, dirs, doc, rev, saved, returned, deleted, dead>>
Return ==
  /\ saving \in DOMAIN SnapshotOrder /\ SnapshotOrder[saving] = "done"
  /\ Leave /\ returned' = returned \cup {rev}
  /\ UNCHANGED <<current, logged, dirs, index, cut, saved, spoilt, deleted, dead>>

-----------------------------------------------------------------------------
\* VersionStore.delete: the directory, then the index, rewritten without it
\* (and without the lines that do not parse).  Its caller sees to it that
\* nothing is saved meanwhile.
RemoveDir(r) ==
  /\ saving = "none" /\ r \in DOMAIN saved
  /\ saving' = "removed" /\ rev' = r
  /\ dirs' = [q \in DOMAIN dirs \ {r} |-> dirs[q]] /\ deleted' = deleted \cup {r}
  /\ UNCHANGED <<current, logged, index, cut, doc, saved, returned, spoilt, dead>>
RewriteIndex ==
  /\ saving = "removed"
  /\ index' = index \ {rev} /\ cut' = [cut EXCEPT !.index = 0]
  /\ Leave
  /\ UNCHANGED <<current, logged, dirs, saved, returned, spoilt, deleted, dead>>

\* The process dies.  The line it was writing may be cut, and of an index
\* that was being rewritten any part may be on disk, its last line cut too.
Crash ==
  /\ saving # "none" /\ dead < MaxCrashes /\ dead' = dead + 1
  /\ Leave
  /\ \/ UNCHANGED <<logged, index, cut, spoilt>>
     \/ /\ saving = "replaced" /\ CutLine("events", rev) /\ UNCHANGED index
        /\ logged' \in {logged \ {cut.events}, Listed("events", logged)}
     \/ /\ saving = "copied" /\ CutLine("index", rev) /\ UNCHANGED logged
        /\ index' \in {index \ {cut.index}, Listed("index", index)}
     \/ /\ saving = "removed" /\ index' \in SUBSET (index \ {rev}) /\ UNCHANGED logged
        /\ \/ \E r \in index \ {rev} : CutLine("index", r)
           \/ cut' = [cut EXCEPT !.index = 0] /\ UNCHANGED spoilt
  /\ deleted' = IF saving = "removed" THEN deleted \cup (index \ index') ELSE deleted
  /\ UNCHANGED <<current, dirs, saved, returned>>

Next ==
  \/ (\E d \in Docs : Save(d)) \/ \E r \in Revs : Rollback(r) \/ RemoveDir(r)
  \/ Log \/ MakeDir \/ Copy \/ AppendIndex \/ Return \/ RewriteIndex \/ Crash

Spec == Init /\ [][Next]_vars

-----------------------------------------------------------------------------
\* Every variable has its type.
TypeOK ==
  /\ current \in Docs \cup {NoDoc} /\ doc \in Docs \cup {NoDoc}
  /\ DOMAIN dirs \subseteq DOMAIN saved /\ DOMAIN saved \subseteq Revs
  /\ index \cup logged \cup returned \cup spoilt \cup deleted \subseteq Revs
  /\ cut \in [{"events", "index"} -> 0..MaxRevs]
  /\ saving \in {"none", "replaced", "logged", "copied", "indexed", "removed"}
  /\ rev \in 0..MaxRevs /\ dead \in 0..MaxCrashes

\* A revision the index lists holds the document that was given to its save,
\* and that document is in the event log; a revision save returned is listed.
\* Only a delete, or an unfinished line a crash left before it, takes it away.
RevisionsFaithful ==
  /\ \A r \in index \ deleted :
       /\ r \in DOMAIN dirs /\ dirs[r] = saved[r]
       /\ r \in logged \cup spoilt
  /\ returned \subseteq index \cup spoilt \cup deleted

=============================================================================

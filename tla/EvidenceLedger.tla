--------------------------- MODULE EvidenceLedger ---------------------------
(***************************************************************************)
(* obase.evidence_ledger: append_evidence_record and read_evidence_records *)
(* on one JSONL file, used by several processes.  An append locks the file *)
(* (flock), reads all of it, and adds the record unless its identifier is  *)
(* there; whoever finds a line that does not verify raises.                *)
(*                                                                         *)
(* Abstracted: a record is its identifier, which its content determines;   *)
(* building and canonicalising records is left out.  A process may die in  *)
(* the middle of a write.                                                  *)
(*                                                                         *)
(* A definition named X_Slip is X with a slip a programmer could make; the *)
(* properties are checked to notice it.  Nothing else uses it.             *)
(***************************************************************************)
EXTENDS Naturals, SequencesExt

CONSTANTS
  Appenders, Evidence,
  Malformed,   \* a line that does not verify
  Unheld,      \* nobody holds the flock
  MaxDeaths    \* bound: processes that die

NamesAssumption == Malformed \notin Evidence /\ Unheld \notin Appenders

VARIABLES
  file,        \* its lines
  unended,     \* the last line lacks its newline
  flock,
  appender,    \* per process, the step of its append: "idle", "scan", "write"
  record,      \* per process, what it appends
  accepted,    \* ghost: what an append said to be there
  deaths

vars == <<file, unended, flock, appender, record, accepted, deaths>>

Init ==
  /\ file = <<>> /\ unended = FALSE /\ flock = Unheld
  /\ appender = [a \in Appenders |-> "idle"]
  /\ record = [a \in Appenders |-> CHOOSE e \in Evidence : TRUE]
  /\ accepted = {} /\ deaths = 0

Step(a, from, to) == appender[a] = from /\ appender' = [appender EXCEPT ![a] = to]

Lock(a, e) ==
  /\ flock = Unheld /\ flock' = a
  /\ Step(a, "idle", "scan") /\ record' = [record EXCEPT ![a] = e]
  /\ UNCHANGED <<file, unended, accepted, deaths>>

\* Every line is verified; one that does not verify ends the append.
Verifies_Slip == TRUE
Verifies == Malformed \notin Range(file)
Unlock(a) == Step(a, appender[a], "idle") /\ flock' = Unheld
Refuse(a) ==
  /\ appender[a] = "scan" /\ ~Verifies /\ Unlock(a)
  /\ UNCHANGED <<file, unended, record, accepted, deaths>>
Known(a) ==
  /\ appender[a] = "scan" /\ Verifies /\ record[a] \in Range(file) /\ Unlock(a)
  /\ accepted' = accepted \cup {record[a]}
  /\ UNCHANGED <<file, unended, record, deaths>>
New(a) ==
  /\ Verifies /\ record[a] \notin Range(file) /\ Step(a, "scan", "write")
  /\ UNCHANGED <<file, unended, flock, record, accepted, deaths>>

\* What is written behind a line without newline becomes part of it.
Written(line) == IF unended THEN Front(file) \o <<Malformed>> ELSE file \o <<line>>
Write(a) ==
  /\ appender[a] = "write" /\ Unlock(a)
  /\ file' = Written(record[a]) /\ unended' = FALSE
  /\ accepted' = accepted \cup {record[a]}
  /\ UNCHANGED <<record, deaths>>

\* A process dies, in the middle of its write perhaps, and loses the lock.
Die(a) ==
  /\ appender[a] # "idle" /\ deaths < MaxDeaths /\ deaths' = deaths + 1 /\ Unlock(a)
  /\ \/ UNCHANGED <<file, unended>>
     \/ /\ appender[a] = "write" /\ unended' = TRUE
        /\ \E line \in {record[a], Malformed} : file' = Written(line)
  /\ UNCHANGED <<record, accepted>>

Next ==
  \E a \in Appenders :
    \/ \E e \in Evidence : Lock(a, e)
    \/ Refuse(a) \/ Known(a) \/ New(a) \/ Write(a) \/ Die(a)

Spec == Init /\ [][Next]_vars

-----------------------------------------------------------------------------
\* Every variable has its type.
TypeOK ==
  /\ Range(file) \subseteq Evidence \cup {Malformed} /\ unended \in BOOLEAN
  /\ flock \in Appenders \cup {Unheld}
  /\ appender \in [Appenders -> {"idle", "scan", "write"}]
  /\ record \in [Appenders -> Evidence] /\ accepted \subseteq Evidence /\ deaths \in 0..MaxDeaths

\* The ledger holds no record twice, and every one it acknowledged, or else
\* refuses to be read: evidence never goes missing silently.
EvidenceFailsClosed ==
  Verifies => accepted \subseteq Range(file) /\ \A i, j \in DOMAIN file : file[i] = file[j] => i = j

=============================================================================

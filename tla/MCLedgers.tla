----------------------------- MODULE MCLedgers -----------------------------
(***************************************************************************)
(* What obase keeps on disk, for TLC: two event store objects on one file  *)
(* (scenario "two"), one event store object whose writes may be torn by a  *)
(* crash ("one"), the versioned document store ("documents"), the evidence *)
(* ledger ("evidence"), and the data loops with their table writer         *)
(* ("loops").  They share no state, so a behaviour exercises one of them   *)
(* and leaves the others as they are at their start.                       *)
(***************************************************************************)
EXTENDS EventStore

CONSTANTS
  Lone,                              \* the store object that has the log to itself
  TwoRows, TwoCrashes,               \* bounds: MaxRows and MaxCrashes when two have it
  Docs, NoDoc, MaxRevs, MaxKills,    \* the document store's
  Appenders, Records, Malformed, Unheld, MaxDeaths,  \* the evidence ledger's
  MaxRetries, Rows                   \* the data loops'

VARIABLES
  scenario,
  current, logged, dirs, index, cut, saving, doc, rev, saved, returned, spoilt,
  deleted, dead,
  file, unended, flock, appender, record, accepted, deaths,
  collector, attempt, collected, processor, session, pendingRows, table
documentVars == <<current, logged, dirs, index, cut, saving, doc, rev, saved, returned,
                  spoilt, deleted, dead>>
evidenceVars == <<file, unended, flock, appender, record, accepted, deaths>>
loopVars == <<collector, attempt, collected, processor, session, pendingRows, table>>

Documents == INSTANCE PersistentStore WITH MaxCrashes <- MaxKills
Evidence == INSTANCE EvidenceLedger WITH Evidence <- Records
Loops == INSTANCE Collection

ASSUME LoneAssumption == Lone \in Stores
ASSUME DocumentsAssumption == MaxRevs \in Nat /\ MaxKills \in Nat
ASSUME EvidenceAssumption == Evidence!NamesAssumption /\ Records # {} /\ MaxDeaths \in Nat
ASSUME LoopsAssumption == MaxRetries \in Nat \ {0}

\* Two store objects whose writes are whole: no half lines.
WholeLines == \A f \in Files : \A i \in DOMAIN lines[f] : lines[f][i].st # "torn"
SharedStep == Next /\ rows' <= TwoRows /\ crashes' <= TwoCrashes /\ WholeLines'

LedgersInit ==
  /\ scenario \in {"one", "two", "documents", "evidence", "loops"}
  /\ Init /\ Documents!Init /\ Evidence!Init /\ Loops!Init
LedgersNext ==
  /\ UNCHANGED scenario
  /\ \/ /\ \/ scenario = "two" /\ SharedStep
           \/ scenario = "one" /\ Step(Lone)
        /\ UNCHANGED <<documentVars, evidenceVars, loopVars>>
     \/ scenario = "documents" /\ Documents!Next /\ UNCHANGED <<vars, evidenceVars, loopVars>>
     \/ scenario = "evidence" /\ Evidence!Next /\ UNCHANGED <<vars, documentVars, loopVars>>
     \/ scenario = "loops" /\ Loops!Next /\ UNCHANGED <<vars, documentVars, evidenceVars>>

LedgersSpec ==
  /\ LedgersInit
  /\ [][LedgersNext]_<<scenario, vars, documentVars, evidenceVars, loopVars>>
  /\ scenario = "two" => Fairness
  /\ scenario = "loops" => Loops!Fairness

\* All keep their types.
TypesOK == TypeOK /\ Documents!TypeOK /\ Evidence!TypeOK /\ Loops!TypeOK
\* Two store objects keep the chain whole as long as nobody migrates the file, and
\* one store object writes no dedupe id twice, retries after a crash included.
LogIsSound ==
  /\ scenario = "two" /\ migrations = 0 => Verify(Log)
  /\ scenario = "one" => Distinct(Log)
\* A log that verifies holds every row whose append returned, torn writes or not.
VerifiedIsComplete == scenario = "one" => acked \subseteq Nums(Log) \/ ~Verify(Log)
\* A revision of a document is what its save was given, crashes or not.
RevisionsFaithful == Documents!RevisionsFaithful
\* The evidence ledger keeps every acknowledged record once, or cannot be read.
EvidenceFailsClosed == Evidence!EvidenceFailsClosed
\* A call of the event store that was begun returns (or its process dies), and
\* no failure keeps a data loop from its next cycle.
CallsReturn ==
  /\ \A s \in Stores : scenario = "two" /\ proc[s] # Idle ~> proc[s] = Idle
  /\ scenario = "loops" => Loops!LoopsGoOn

=============================================================================

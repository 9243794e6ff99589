---------------------------- MODULE TaskLedger ----------------------------
(***************************************************************************)
(* What a lease queue promises its callers, with every method atomic:      *)
(* a task belongs to at most one running lease term, it changes hands only *)
(* when it was given back or its term ran out, the latest holder alone can *)
(* settle it, and a settled task is never handed out again.                *)
(***************************************************************************)
EXTENDS Naturals

CONSTANTS Items, Null

VARIABLES
  state,   \* absent, pending, leased, done or failed, per task
  lease,   \* the lease that can settle the task, or Null
  terms    \* the leases whose term is running

lvars == <<state, lease, terms>>

Current(i) == [item |-> i, lease |-> lease[i]]

LedgerInit ==
  /\ state = [i \in Items |-> "absent"]
  /\ lease = [i \in Items |-> Null]
  /\ terms = {}

Submit(i) ==
  /\ state[i] = "absent"
  /\ state' = [state EXCEPT ![i] = "pending"]
  /\ UNCHANGED <<lease, terms>>

\* A fresh lease, on a task nobody holds.
Grant(i) ==
  LET l == lease'[i] IN
  /\ state[i] = "pending" \/ (state[i] = "leased" /\ Current(i) \notin terms)
  /\ l # Null /\ l # lease[i]
  /\ \A g \in terms : g.lease # l
  /\ state' = [state EXCEPT ![i] = "leased"]
  /\ lease' = [lease EXCEPT ![i] = l]
  /\ terms' = terms \cup {[item |-> i, lease |-> l]}

Extend(i) ==
  /\ state[i] = "leased"
  /\ terms' = terms \cup {Current(i)}
  /\ UNCHANGED <<state, lease>>

\* The latest holder reports; a second report may revise the first.
Report(i, s) ==
  /\ lease[i] # Null
  /\ state' = [state EXCEPT ![i] = s]
  /\ terms' = terms \ {Current(i)}
  /\ UNCHANGED lease

GiveBack(i) ==
  /\ state[i] = "leased"
  /\ state' = [state EXCEPT ![i] = "pending"]
  /\ lease' = [lease EXCEPT ![i] = Null]
  /\ terms' = terms \ {Current(i)}

\* Maintenance takes lapsed tasks back and writes some of them off.
Reclaim(over, spent) ==
  /\ \A i \in over \cup spent : state[i] = "leased" /\ Current(i) \notin terms
  /\ state' = [i \in Items |-> IF i \in spent THEN "failed"
                               ELSE IF i \in over THEN "pending" ELSE state[i]]
  /\ lease' = [i \in Items |-> IF i \in over \ spent THEN Null ELSE lease[i]]
  /\ UNCHANGED terms

EndTerm(g) ==
  /\ terms' = terms \ {g}
  /\ UNCHANGED <<state, lease>>

LedgerNext ==
  \/ \E i \in Items :
       \/ Submit(i) \/ Grant(i) \/ Extend(i) \/ GiveBack(i)
       \/ \E s \in {"done", "failed"} : Report(i, s)
  \/ \E over, spent \in SUBSET Items : Reclaim(over, spent)
  \/ \E g \in terms : EndTerm(g)

LedgerSpec == LedgerInit /\ [][LedgerNext]_lvars

=============================================================================

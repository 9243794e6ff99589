------------------------------ MODULE Budgets ------------------------------
(***************************************************************************)
(* The two budget keepers of obase: QuotaTracker (loop_event_store), which *)
(* charges a goal, logs every charge as an event and pauses the goal that  *)
(* overspends; and CostTracker (cost_tracker), which prices usage and      *)
(* raises when the total passes the budget.                                *)
(*                                                                         *)
(* The event log is a store of its own; here it is what restore takes from *)
(* it: the last charge, budget and pause it has.  An append may raise, and *)
(* the process may die between two; append awaits nothing, so no other     *)
(* call on the event loop comes in between.  Amounts are small naturals;   *)
(* auto_pause_on_exceed is on.                                             *)
(*                                                                         *)
(* A definition named X_Slip is X with a slip a programmer could make; the *)
(* properties are checked to notice it.  Nothing else uses it.             *)
(***************************************************************************)
EXTENDS Naturals

CONSTANTS
  Costs,        \* what one usage may cost
  MaxSpent,     \* bound: total of the charges
  MaxFailures   \* bound: appends that raise, and crashes

CostsAssumption == Costs \subseteq Nat /\ Costs # {}

VARIABLES
  budget, spent, paused,  \* the QuotaTracker object
  step,         \* of the call in progress: "idle", "charged" or "paused"
  log,          \* spent, budget and paused as the event log has them
  excused,      \* ghost: since the last charge, a resume, a failed append or a crash
  failures,
  strict,       \* CostTracker: strict_pricing
  table,        \* PricingTable: the price of a kind of token, 0 for none
  total,        \* CostTracker: what was recorded, at prices and at fallback rates
  priced,       \* ghost: of that, what was recorded at a price
  used, lost,   \* ghost: what all calls should have recorded, and what they did not
  warned        \* ghost: the last total a caller was told is over the budget

quotaVars == <<budget, spent, paused, step, log, excused, failures>>
costVars == <<strict, table, total, priced, used, lost, warned>>
vars == <<quotaVars, costVars>>

Amounts == 0..MaxSpent
Units == {"in", "out"}   \* of tokens
Fallback == 1             \* the rate of an unpriced one

Init ==
  /\ budget \in Costs /\ spent = 0 /\ paused = FALSE /\ step = "idle"
  /\ log = [spent |-> 0, budget |-> budget, paused |-> FALSE]
  /\ excused = FALSE /\ failures = 0
  /\ strict \in BOOLEAN /\ table = [u \in Units |-> 0]
  /\ total = 0 /\ priced = 0 /\ used = 0 /\ lost = 0 /\ warned = 0

-----------------------------------------------------------------------------
\* record_usage: a paused goal is refused; otherwise the cost is charged ...
Charge(c) ==
  /\ step = "idle" /\ ~paused /\ spent + c <= MaxSpent
  /\ spent' = spent + c /\ step' = "charged" /\ excused' = FALSE
  /\ UNCHANGED <<budget, paused, log, failures, costVars>>

\* ... and logged, and an overrun pauses the goal, which is logged too.
Exceeded_Slip == spent > budget + 1
Exceeded == spent > budget
LogCharge ==
  /\ step = "charged" /\ log' = [log EXCEPT !.spent = spent, !.budget = budget]
  /\ IF Exceeded THEN paused' = TRUE /\ step' = "paused" ELSE step' = "idle" /\ UNCHANGED paused
  /\ UNCHANGED <<budget, spent, excused, failures, costVars>>
LogPause ==
  /\ step = "paused" /\ step' = "idle" /\ log' = [log EXCEPT !.paused = TRUE]
  /\ UNCHANGED <<budget, spent, paused, excused, failures, costVars>>

\* resume, with a new budget or with the old one, and its event.
Resume(b) ==
  /\ step = "idle" /\ budget' = b /\ UNCHANGED spent
  /\ IF paused
     THEN /\ paused' = FALSE /\ excused' = TRUE
          /\ \/ log' = [spent |-> spent, budget |-> b, paused |-> FALSE] /\ UNCHANGED failures
             \/ failures < MaxFailures /\ failures' = failures + 1 /\ UNCHANGED log
     ELSE /\ UNCHANGED <<paused, log, failures>>
          /\ excused' = (excused \/ spent > b)
  /\ UNCHANGED <<step, costVars>>

\* An append raises: what was done before it stays done.
AppendFails ==
  /\ step # "idle" /\ failures < MaxFailures /\ failures' = failures + 1
  /\ step' = "idle" /\ excused' = TRUE
  /\ UNCHANGED <<budget, spent, paused, log, costVars>>

\* The process dies; the next one restores what the log says.
Restart ==
  /\ failures < MaxFailures /\ failures' = failures + 1 /\ step' = "idle"
  /\ spent' = log.spent /\ budget' = log.budget /\ paused' = log.paused
  /\ excused' = TRUE
  /\ UNCHANGED <<log, costVars>>

-----------------------------------------------------------------------------
\* CostTracker, on a budget of its own: record charges a priced usage, and
\* one without a price costs nothing (or, when strict, raises) ...
Ceiling == CHOOSE c \in Costs : \A d \in Costs : c <= d
Over(t) == IF t > Ceiling THEN t ELSE warned
Record(c) ==
  /\ total + lost + c <= MaxSpent /\ total' = total + c /\ priced' = priced + c /\ used' = used + c
  /\ warned' = Over(total + c) /\ UNCHANGED <<strict, table, lost, quotaVars>>
RegisterPricing(unit, price) ==
  table' = [table EXCEPT ![unit] = price] /\ UNCHANGED <<strict, total, priced, used, lost, warned, quotaVars>>

\* ... while record_tokens charges an unpriced kind of token at a fallback rate,
\* behind record's back, and leaves the out tokens unrecorded when the in tokens
\* bring the total over the budget; check_budget looks again.
Rate(unit) == IF table[unit] # 0 THEN table[unit] ELSE IF strict THEN Fallback ELSE 0
Checked(unit) == table[unit] # 0 \/ ~strict
Stopped(cost) == Checked("in") /\ total + cost > Ceiling
RecordTokens(in, out) ==
  LET first == in * Rate("in")
      second == out * Rate("out")
      stops == in > 0 /\ Stopped(first)
      after == total + first + IF stops THEN 0 ELSE second
  IN /\ total + lost + first + second <= MaxSpent /\ total' = after
     /\ used' = used + first + second /\ lost' = lost + IF stops THEN second ELSE 0
     /\ priced' = priced + (IF table["in"] # 0 THEN first ELSE 0)
                          + (IF table["out"] # 0 /\ ~stops THEN second ELSE 0)
     /\ warned' = IF stops \/ (out > 0 /\ Checked("out")) THEN Over(after) ELSE warned
     /\ UNCHANGED <<strict, table, quotaVars>>
CheckBudget ==
  /\ total > Ceiling /\ warned' = Over(total)
  /\ UNCHANGED <<strict, table, total, priced, used, lost, quotaVars>>

QuotaNext ==
  \/ \E c \in Costs : Charge(c) \/ Resume(c)
  \/ LogCharge \/ LogPause \/ AppendFails \/ Restart
CostNext ==
  \/ \E c \in Costs : Record(c) \/ \E u \in Units : RegisterPricing(u, c)
  \/ \E in, out \in 0..2 : RecordTokens(in, out)
  \/ CheckBudget
Next == QuotaNext \/ CostNext

Spec == Init /\ [][Next]_vars

-----------------------------------------------------------------------------
\* Every variable has its type.
TypeOK ==
  /\ budget \in Costs /\ spent \in Amounts /\ paused \in BOOLEAN
  /\ step \in {"idle", "charged", "paused"} /\ failures \in 0..MaxFailures
  /\ log \in [spent: Amounts, budget: Costs, paused: BOOLEAN]
  /\ excused \in BOOLEAN
  /\ strict \in BOOLEAN /\ table \in [Units -> {0} \cup Costs]
  /\ total \in Amounts /\ lost \in Amounts /\ priced \in 0..total /\ warned \in 0..total

\* A goal over its budget is paused, unless since its last charge somebody
\* resumed it or lowered the budget, or an append failed; no charge the log
\* knows is forgotten; whoever brings the priced usage over the limit is told,
\* and no usage goes unrecorded before somebody was told.
BudgetsKept ==
  /\ step = "idle" /\ spent > budget => paused \/ excused
  /\ log.spent <= spent
  /\ priced > Ceiling => warned > Ceiling
  /\ used = total + lost /\ (lost > 0 => warned > Ceiling)

=============================================================================
